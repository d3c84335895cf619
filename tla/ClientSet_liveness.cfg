CONSTANTS
  Addr <- MCTwo
  MaxClients = 1
  Timeout = 1
  Burst = 2
  InboxCap = 1
  PipeMax = 1
CHECK_DEADLOCK FALSE
SPECIFICATION FairSpec
PROPERTIES
  PipeNotStarved
  DiscoverServed
  ClientObeysSignal
  SilentForgotten
