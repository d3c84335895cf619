CONSTANTS
  Numbers <- MCNumbers
  SizeMod = 16
  FailedRequests = {0, 4, 8, 12}
  MaxErrors = 1
  Addresses = 2
  BufLines = 2
  Numeral <- MCNumeral
  MaxU32 = 31
  LongMax = 15
  MaxPort = 15
  NULL = NULL
  EMPTY_ARG = EMPTY_ARG
  Refused = Refused
  Argvs <- MCArgvs
  Groups = {"group"}
  Interfaces = {"eth0", "eth1"}
  NameLens <- MCNameLens
  Word = 16
  HeaderLen = 4
  MaxUdp = 11
CHECK_DEADLOCK FALSE
SPECIFICATION StartupFairSpec
INVARIANTS
  TypeOK
  RequestIsWhole
  AsksWhatIsMeant
  ServesWhatWasAsked
  IamLengthHonest
PROPERTIES
  ArgumentsArePairs
  InterruptEndsStartup
