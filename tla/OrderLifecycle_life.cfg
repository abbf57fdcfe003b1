SPECIFICATION FairSpec
CONSTANTS
  Size = 2
  Ids = {1, 2}
  MaxPolls = 2
  MaxFrames = 2
  MaxFaults = 1
INVARIANTS  FilledIsMatched
PROPERTIES NeverReopened OrderEnds
CHECK_DEADLOCK FALSE
