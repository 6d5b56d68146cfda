SPECIFICATION Spec
CONSTANTS
  Grain = 2
  Interval = 4
  Pace = 14
  Frames = 3
  Wrap = 64
  Texts = 2
  MaxLag = 1
INVARIANTS
  GroupNotTorn
  SpacingKept
