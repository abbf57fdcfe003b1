SPECIFICATION SignalsSpec
CONSTANTS
  Scopes <- AllScopes
  Jobs = {scan, fast}
  Main = scan
  m1 = m1
  m2 = m2
  m3 = m3
  Markets = {m1, m2, m3}
  Configs <- AllConfigs
  Balances <- Levels
  Strategies <- Known
  MaxOpen = 2
  LiveCap = 1
  DirectionLimit = 1
  MaxFaults = 1
  MaxRestarts = 1
  mkt1 = mkt1
  mkt2 = mkt2
  Scanned = {mkt1}
  LiveFeed = live
  DemoFeed = demo
  Token = TRUE
  Feeds = {feedA, feedB, demoFeed}
  Demo = demoFeed
  Cap = 1
  Updates = {upd1, upd2}
  Held = {mkt1, mkt2}
  Opened <- OpenedOnes
  Closers <- ClosedOnes
  Casts <- SomeCasts
  Window = 1
INVARIANTS
  
  
  PublishedWell
  SubscriptionsHold
  SomeSurfaceTells
PROPERTIES
  SwitchesTakeHold
CHECK_DEADLOCK FALSE
