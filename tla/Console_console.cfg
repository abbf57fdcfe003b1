SPECIFICATION FairSpec
CONSTANTS
  Caps = {1}
  Scopes <- AllScopes
  MaxFaults = 1
  Percents = {25, 100}
  Options <- CopyOptions
  MaxTasks = 3
PROPERTIES  FallbackLands 
