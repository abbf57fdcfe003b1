SPECIFICATION PositionsSpec
CONSTANTS
  Scopes <- CandleOnly
  t1 = t1
  t2 = t2
  Tasks = {t1, t2}
  Monitor = Monitor
  Track = Track
  MaxTrades = 3
  MonitorLimit = 2
  Configs <- AllConfigs
  MaxDays = 1
  MaxCopyFaults = 1
  MaxRestarts = 1
  Top = 7
  Duration = 4
  Presets <- TwoPresets
  Targets <- TwoTargets
  Quotes <- FewQuotes
  CacheTtl = 1
  TobStale = 1
  MaxCost = 7
  MinEdge = 1
  Eps = 1
  FlipStop = 1
  Near = 1
  ScanTime = 1
  MaxReboots = 1
INVARIANTS
  ProfitIsProfit
