SPECIFICATION FairSpec
CONSTANTS
  Documents = {d1, d2}
  Pollers = {p1, p2}
  Main = main
  Lookback = 1
  Retention = 2
  MaxFetch = 1
  MaxTime = 3
  MaxEdits = 1
INVARIANTS
  NoLookahead
  CapturesSound
PROPERTIES
  PollingEnds
CHECK_DEADLOCK FALSE
