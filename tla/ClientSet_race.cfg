CONSTANTS
  Addr <- MCTwo
  MaxClients = 2
  Timeout = 1
  Burst = 2
  InboxCap = 1
  PipeMax = 1
CHECK_DEADLOCK FALSE
SPECIFICATION FairSpec
PROPERTY
  DiscoverConnects
