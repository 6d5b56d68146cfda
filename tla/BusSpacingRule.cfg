SPECIFICATION BusSpec
CONSTANTS
  Grain = 1
  Interval = 4
  HwSize = 3
  Retries = 20
  ShortFrame = 1
  LongFrame = 1
  Others = 1
  MaxBusy = 0
  MaxLag = 0
INVARIANTS
  SpacingOnBus
