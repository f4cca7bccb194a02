SPECIFICATION ExperimentSpec
CONSTANTS
  RiskPct = 2
  DailyLossPct = 3
  GrossPct = 60
  MaxTrades = 3
  MaxOpen = 2
  AllowResize = FALSE
  SymbolOrder <- MCSymbols
  Candles <- MCCandles
  FeePct = 1
  SlipPct = 1
  TargetPct = 100
  PartialPct = 50
  MaxHolding = 2
  Starting = 20000
  MaxRows = 4
  MaxReplayTime = 2
  Horizon = 2
  Steps = {1, 6}
  MaxBars = 14
  TrainPct = 40
  ValidationPct = 30
  FirstPct = 40
  Folds = 2
  Purge = 2
  ShortHistory = 4
  MaxGaps = 3
  StructurePeriod = 2
  LeftBars = 1
  RightBars = 1
  OpeningMinutes = 2
  Night = 6
CONSTRAINT Focus
INVARIANTS
  ReplayAccounted
  LabelsAgreeWithReplay
  NothingTestedWasSeen
PROPERTIES
  LossLimitsHold
  LabelsFinal
  SeenAsLive
CHECK_DEADLOCK FALSE
