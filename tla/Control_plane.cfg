SPECIFICATION Spec
CONSTANTS
  v1 = v1
  v2 = v2
  Candidates = {v1, v2}
  Versions = {v1, v2}
  Base = base
  NoVersion = none
  MaxFailures = 1
  MaxChampions = 2
  MaxRecords = 4
  MaxDeaths = 1
  Callers = {c1, c2}
  Points = {p1, p2}
  Order <- MCOrder
  Handled = {"DATA", "EXECUTION", "MONITORING"}
  MaxRuns = 3
CONSTRAINT Focus
SYMMETRY ModelsSymmetry
INVARIANTS
  LivesInOrder
  ChampionKnown
  ExecutedOnce
  RunsTold
CHECK_DEADLOCK FALSE
