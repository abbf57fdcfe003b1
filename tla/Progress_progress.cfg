SPECIFICATION ProgressSpec
CONSTANTS
  Readers = {scan, fast}
  NoReader = NoReader
  Commands <- PauseResume
  Markets = {m}
  Sides = {yes}
  MaxEntryFaults = 1
  MaxRestarts = 0
  Posts = {p}
  Polls = {g}
  TripAt = 2
  Reset = 2
  MaxAttempts = 2
  Burst = 1
  db = db
  rpc = rpc
  Checks = {db, rpc}
  Database = db
  Stuck = {pos}
  Poor = {user}
  Probes = {a}
  PageAt = 2
  MaxAlertRestarts = 1
INVARIANTS
  ClosedIsCalm
PROPERTIES
  HaltTakesHold
  AttemptEnds
  Recovers
  Paged
ACTION_CONSTRAINT Calm
