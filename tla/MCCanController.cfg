SPECIFICATION Spec
CONSTANTS
  NoHandler = NoHandler
  NoId = "0"
  Attached <- MCAttached
  IdOf <- MCIdOf
  Kinds <- MCKinds
  Pclk = 36000000
  Hz = 47619
  Slots = 2
  Depth = 2
  MaxFrames = 3
  MaxFaults = 2
INVARIANTS
  WrongRateStaysSilent
  HandledOnceInOrder
  LossesCounted
PROPERTIES
  JoinsTheBus
CHECK_DEADLOCK FALSE
