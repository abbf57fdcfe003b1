SPECIFICATION MoneySpec
CONSTANTS
  Scopes = {"deposits", "withdrawals", "accounts"}
  Troubles = 2
  t1 = t1
  t2 = t2
  Transfers = {t1, t2}
  Depth = 1
  ScanRange = 2
  RemovedLogs = TRUE
  MaxHead = 3
  MaxReorgs = 1
  MaxRpcFaults = 1
  MaxWatchRestarts = 1
  r1 = r1
  r2 = r2
  r3 = r3
  Requests = {r1, r2, r3}
  Web = {r3}
  NoRequest = none
  Funds = 1
  Pool = 1
  StartLive = TRUE
  MaxFaults = 1
  MaxRestarts = 1
  anna = anna
  ben = ben
  mail = mail
  other = other
  bot1 = bot1
  bot2 = bot2
  web1 = web1
  web2 = web2
  Telegrams = {anna, ben}
  Emails = {mail, other}
  BotTasks = {bot1, bot2}
  WebTasks = {web1, web2}
  MaxRows = 3
  MaxCodes = 2
  AccountFaults = 1
  Plans <- AccountPlans
INVARIANTS
  DepositsBooked
  TelegramNeverOverdraws
  LinkIsKept
  SeedLands
PROPERTIES
  ImplementsRequestBook
  DepositCredited
  ApprovedIsSettled
CHECK_DEADLOCK FALSE
