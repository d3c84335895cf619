CONSTANTS
  Addr <- MCThree
  MaxClients = 2
  Timeout = 1
  Burst = 2
  InboxCap = 1
  PipeMax = 1
CHECK_DEADLOCK FALSE
SPECIFICATION Spec
INVARIANTS
  TypeOK
  WalkConsistent
  LoopConsistent
PROPERTIES
  DroppedForCause
  JoinsByDiscover
