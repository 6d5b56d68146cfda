SPECIFICATION BusSpec
CONSTANTS
  Grain = 2
  Interval = 9
  HwSize = 2
  Retries = 2
  ShortFrame = 3
  LongFrame = 4
  Others = 2
  MaxBusy = 1
  MaxLag = 1
INVARIANTS
  SpacingOnBusUpToDelay
