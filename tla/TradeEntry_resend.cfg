SPECIFICATION EndsSpec
CONSTANTS
  Scopes <- EntryOnly
  Readers = {scan, fast}
  NoReader = NoReader
  Commands <- KillAndReset
  Markets = {m}
  Sides = {yes}
  MaxEntryFaults = 1
  MaxRestarts = 0
  Positions = {p1}
  Live = {p1}
  Winners = {p1}
  Late = {p1}
  MaxFaults = 1
  MainWatcher = main
  Watchers = {main}
  Manuals = {m1}
  Candle = {}
  Forceable = {}
  ExpiredTicks = 1
  NoPosition = none
  Instant = {p1}
  Hourly = hourly
  SlowWorkers = FALSE
  MaxCrashes = 0
INVARIANTS RefusedIsUnsent
