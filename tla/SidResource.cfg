SPECIFICATION Spec
CONSTANTS
  Grain = 2
  Spacing = 3
  Base = 5
  Pace = 2
  Wrap = 22
  MaxLag = 1
INVARIANTS RequestsSpaced RequestRepeated BreakthroughServed TextsEndSoon
