SPECIFICATION Spec
CONSTANTS
  Equities = {1, 2}
  DayTicks = 2
  MaxTime = 3
  MaxMoves = 3
  CandleTicks = 2
  Validity = 2
  MaxAge = 0
  MaxSkew = 1
  MaxSessions = 2
  Handlers = {h1, h2}
  MaxRecords = 2
  MaxCrashes = 1
CONSTRAINT Focus
SYMMETRY HandlersSymmetry
INVARIANTS
  JournalSound
  AcceptedInTime
PROPERTIES
  DayStateSound
  PublishedFresh
CHECK_DEADLOCK FALSE
