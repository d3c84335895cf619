CONSTANTS
  Metaints <- MCMetaints
  LenBytes <- MCLenBytes
  ChunkSize = 2
  MetaUnit = 2
  BufSize = 3
  MaxBytes = 8
  MaxErrors = 1
CHECK_DEADLOCK FALSE
SPECIFICATION Spec
INVARIANT
  PassedOnce
