SPECIFICATION Spec
CONSTANTS
  can = can
  gpio2 = gpio2
  main = main
  rn52 = rn52
  Isrs <- MCIsrs
  Threads <- MCThreads
  RN52Thread <- rn52
  Prio <- MCPrio
  Script <- MCScript
  Capacity = 4
  Limit = 3
  FifoSize <- MCFifoSize
  MaxPosts <- MCMaxPosts
INVARIANTS
  TypeOK
  CountIsExact
  MailboxNeverOverflows
  FifoNeverOverflows
  ReservationHolds
PROPERTIES
  ImplementsChannel EveryCommandFetched
