SPECIFICATION LoopSpec
CONSTANTS
  Symbols = {s1, s2, s3}
  Prices = {80, 120}
  FeePct = 1
  SlipPct = 1
  MaxOrders = 4
  RiskPct = 5
  DailyLossPct = 5
  GrossPct = 35
  MaxTrades = 1
  MaxOpen = 2
  AllowResize = FALSE
  StartEquity = 1000
  StopDistances = {20, 40}
  MaxDays = 3
PROPERTIES
  EntriesSound
CHECK_DEADLOCK FALSE
