SPECIFICATION FairSpec
CONSTANTS
  Positions = {p1}
  Live = {}
  Winners = {p1}
  Late = {}
  MaxFaults = 1
  MainWatcher = main
  Watchers = {main}
  Manuals = {}
  Candle = {}
  Forceable = {p1}
  ExpiredTicks = 1
  NoPosition = none
  Instant = {}
  Hourly = hourly
  SlowWorkers = FALSE
  MaxCrashes = 1
PROPERTIES
  NothingStranded
  ForceCloseHonoured
