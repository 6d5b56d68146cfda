SPECIFICATION Spec
CONSTANTS
  Limit = 3
  RxBoxes = 3
  Lines = 3
  TextLines = 3
  MaxChanges = 2
  MaxPresses = 1
  MaxReboots = 1
  MaxGarbled = 1
INVARIANTS StateFollowsModule NeverStrays
PROPERTIES SentInOrder EveryCommandSent ConnectionNoticed
CHECK_DEADLOCK FALSE
