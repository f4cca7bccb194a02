SPECIFICATION FairSpec
CONSTANTS
  Symbols = {sym}
  NoSocket = none
  MaxSockets = 3
  MaxAttempts = 2
INVARIANTS
  FeedSound
PROPERTIES
  ShutdownIsNoFailure
  SessionEnds
CHECK_DEADLOCK FALSE
