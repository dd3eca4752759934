SPECIFICATION FairSpec
CONSTANTS
  MaxSessions = 3
  MaxLines = 2
  NoThread = NoThread
  NoSingleton = NoSingleton
INVARIANTS
  TypeOK
  OneInstance
  LogCallsFindFile
  ForgottenOnlyInFlush
PROPERTY
  LinesReachDisk
CHECK_DEADLOCK FALSE
