SPECIFICATION Spec
CONSTANTS
  nodeStatus = nodeStatus
  cdcStatus = cdcStatus
  can = can
  Threads <- MCThreads
  Isr <- can
  Pool <- MCPool
  QueueSize = 2
  HwSize = 2
  Retries = 2
  Stalls = {0, 1}
  MaxSends <- MCSends
INVARIANTS
  BoxesConserved
  QueueHasRoom
  OrderKept
  NoFrameGivenUp
PROPERTIES
  ImplementsChannel
  BoxesComeBack
CHECK_DEADLOCK FALSE
