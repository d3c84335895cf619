CONSTANTS
  Metaints <- MCMetaints
  LenBytes <- MCLenBytes
  ChunkSize = 2
  MetaUnit = 2
  PayloadSize = 2
  BufSize = 3
  PipeCap = 4
  MaxBytes = 9
CHECK_DEADLOCK FALSE
SPECIFICATION FairSpec
INVARIANTS
  TypeOK
  InSync
  OversizeIsFailure
  BodyIsDivided
PROPERTIES
  ImplementsRelay
  FramesReachClients
  ServerObeysSignal
  PipeDrains
