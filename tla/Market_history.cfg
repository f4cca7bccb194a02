SPECIFICATION Spec
CONSTANTS
  None = None
  NoFile = NoFile
  A = A
  B = B
  C = C
  Symbols = {A, B, C}
  Securities <- MCSecurities
  Sessions <- MCSessions
  TradingDays <- MCSessions
  Turnover <- MCTurnover
  Archives <- MCArchives
  Lookback = 3
  MinCompleted = 2
  MinAverage = 3
  SlotsPerDay = 2
  MappedOn = {2, 6}
  LastDay = 6
  MaxEvents = 2
CONSTRAINT Focus
SYMMETRY SymbolSymmetry
INVARIANTS
  UniverseIsPointInTime
  ResolvedIsTheSecurity
  EachAccountedOnce
  StoredWasValidated
CHECK_DEADLOCK FALSE
