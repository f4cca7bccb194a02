SPECIFICATION BookSpec
CONSTANTS
  s1 = s1
  s2 = s2
  s3 = s3
  Symbols = {s1, s2, s3}
  Prices = {1728, 3456}
  FeePct = 1
  SlipPct = 0
  MaxOrders = 3
  RiskPct = 2
  DailyLossPct = 6
  GrossPct = 16
  MaxTrades = 3
  MaxOpen = 2
  AllowResize = FALSE
  Initial = 50000
  Stops = {450, 600}
  Available = {3456, 50000}
  Volatility = {100}
  Peaks = {52000}
  SectorOf <- MCSectors
  Correlated <- MCCorrelated
  MaxPositions = 3
  PortfolioGrossPct = 0
  PortfolioSymbolPct = 12
  PortfolioSectorPct = 0
  DrawdownPct = 6
  SymbolPct = 0
  SectorPct = 13
  CorrelatedPct = 15
  Largest = 2
INVARIANTS
  AccountAddsUp
  LimitsHeld
  ProjectionMet
CHECK_DEADLOCK FALSE
