CONSTANT
  Patience <- MCPatience
CHECK_DEADLOCK FALSE
SPECIFICATION FairSpec
INVARIANTS
  TypeOK
  SonsAreOurs
  DeathNotLost
  NoOrphans
  ExitCodeHonest
PROPERTIES
  KillOnlyStubborn
  AllEnd
