SPECIFICATION Safe
CONSTANTS
  Limit = 3
  RxBoxes = 3
  Lines = 3
  TextLines = 3
  MaxChanges = 1
  MaxPresses = 0
  MaxReboots = 1
  MaxGarbled = 0
INVARIANTS RebootLeavesNothingStale
CHECK_DEADLOCK FALSE
