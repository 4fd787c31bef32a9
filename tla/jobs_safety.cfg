SPECIFICATION JobsSpec
CONSTANTS
  None = None
  e1 = e1
  d1 = d1
  Ledgers = {"ETHEREUM", "POLYGON", "STELLAR", "SOLANA", "ALGORAND"}
  Escrows = {1}
  Calls = {c1, c2}
  MaxCalls = 2
  Users = {1, 2, 3}
  Source <- MCSource
  Owned <- MCOwned
  Lists <- MCLists
  BatchSize = 2
  TenantUsers = {t1, t2}
  Runs = {1, 2}
  Tenants = {T1, T2}
  Txs = {1}
  Coins = 2
  Logs <- MCLogs
  Servers = {s1, s2}
  Asks = {a1}
  Before <- MCBefore
  Lookback = 1
  MaxBack = 2
  Required = 2
  MaxReorg = 1
  MaxHeight = 4
  MaxAsks = 1
  MaxFaults = 1
  Chains = {1, 2}
  EVM = {1}
  Hosts = {h1}
  MaxActive = 2
  MaxBreaks = 2
  Parts = {"deposits", "backfill", "adapters", "breaker"}
SYMMETRY Alike
INVARIANTS
  BalancesAreFunded
  NothingMissed
  MovedTogether
  CompletedIsMigrated
  ConfirmedIsMined
  OneSettlement
  PauseHolds
  PanicReachesAll
CHECK_DEADLOCK FALSE
