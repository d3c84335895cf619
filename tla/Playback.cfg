CONSTANTS
  Metaints <- MCMetaints
  LenBytes <- MCLenBytes
  ChunkSize = 2
  MetaUnit = 2
  BufSize = 3
  MaxBytes = 9
  MaxErrors = 1
CHECK_DEADLOCK FALSE
SPECIFICATION FairSpec
INVARIANTS
  TypeOK
  BufferIsBody
PROPERTIES
  ImplementsSplit
  PlaybackObeysSignal
  BytesArePassedOn
