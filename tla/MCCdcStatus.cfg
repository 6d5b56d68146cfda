SPECIFICATION Spec
CONSTANTS
  Grain = 2
  Base = 7
  Hold = 3
  MaxLag = 2
INVARIANTS
  SentAtBaseTime
  NeverFlooded
  CommandReported
  StaleStatusIsCorrected
