SPECIFICATION Spec
CONSTANTS
  Positions = {p1, p2}
  Live = {}
  Winners = {p1}
  Late = {p2}
  MaxFaults = 1
  MainWatcher = main
  Watchers = {main}
  Manuals = {}
  Candle = {}
  Forceable = {}
  ExpiredTicks = 1
  NoPosition = none
  Instant = {p1}
  Hourly = hourly
  SlowWorkers = FALSE
  MaxCrashes = 0
INVARIANTS
  PaidOnce
  QueueIsHonest
