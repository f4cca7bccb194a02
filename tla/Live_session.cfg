SPECIFICATION Spec
CONSTANTS
  Symbols = {s1}
  Symbol = s1
  Prices = {100, 101, 103}
  FeePct = 1
  SlipPct = 1
  MaxOrders = 2
  Timeframe = 2
  SessionStart = 1
  SessionEnd = 11
  MaxAge = 1
  MaxSkew = 0
  TradePrices = {100, 101, 103}
  Volumes = {1}
  MaxEvents = 4
  Quantity = 10
  StopPct = 1
  TakePct = 2
  Cutoff = 7
  MaxHoldingBars = 2
  TargetTrades = 1
  InitialEquity = 10000
INVARIANTS
  CandlesExact
  NoLuckyTarget
  AccountSound
  ClosedInTime
CHECK_DEADLOCK FALSE
