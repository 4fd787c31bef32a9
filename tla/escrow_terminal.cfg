SPECIFICATION FairSpec
CONSTANTS
  a1 = a1
  a2 = a2
  c1 = c1
  c2 = c2
  w1 = w1
  w2 = w2
  Assets = {a1}
  Escrows = {1}
  Algorand = {}
  Solana = {}
  Clients = {c1, c2}
  Workers = {w1}
  BatchSize = 1
  ClientOps = {"transition", "lock", "release"}
  Foreign = FALSE
  Initial = {"ACTIVE"}
  Edits = {}
  MaxActive = 2
  FaultKinds = {}
  MaxFaults = 0
PROPERTIES
  TerminalStays
CHECK_DEADLOCK FALSE
