SPECIFICATION JobsSpec
CONSTANTS
  None = None
  e1 = e1
  d1 = d1
  Chains = {1, 2}
  EVM = {1}
  Servers = {s1}
  Hosts = {h1}
  Calls = {c1, c2}
  MaxActive = 2
  MaxBreaks = 0
  MaxFaults = 0
  Parts = {"breaker"}
  Ledgers = {"STELLAR"}
  Escrows = {1}
  MaxCalls = 0
  Users = {1, 2, 3}
  Source <- MCSource
  Owned <- MCOwned
  Lists <- MCLists
  BatchSize = 2
  TenantUsers = {t1}
  Runs = {1}
  Tenants = {T1}
  Txs = {1}
  Coins = 2
  Logs <- MCLogs
  Asks = {a1}
  Before <- MCBefore
  Lookback = 1
  MaxBack = 2
  Required = 2
  MaxReorg = 1
  MaxHeight = 1
  MaxAsks = 0
SYMMETRY Alike
INVARIANTS
  ReportedStaysPaused
