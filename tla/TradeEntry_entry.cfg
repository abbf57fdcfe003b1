SPECIFICATION EndsSpec
CONSTANTS
  Scopes <- BothEnds
  Readers = {scan, fast}
  NoReader = NoReader
  Commands <- KillOnly
  Markets = {m}
  Sides = {yes}
  MaxEntryFaults = 1
  MaxRestarts = 1
  Positions = {p1}
  Live = {p1}
  Winners = {p1}
  Late = {p1}
  MaxFaults = 1
  MainWatcher = main
  Watchers = {main}
  Manuals = {m1}
  Candle = {}
  Forceable = {}
  ExpiredTicks = 1
  NoPosition = none
  Instant = {}
  Hourly = hourly
  SlowWorkers = FALSE
  MaxCrashes = 0
INVARIANTS OneExposurePerKey  ClaimExclusive SoldOnce
PROPERTIES ImplementsStakeBook
SYMMETRY JobSymmetry
