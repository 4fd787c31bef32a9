SPECIFICATION Spec
CONSTANTS
  a1 = a1
  a2 = a2
  c1 = c1
  c2 = c2
  w1 = w1
  w2 = w2
  Assets = {a1, a2}
  Escrows = {1, 2}
  Algorand = {2}
  Solana = {1}
  Clients = {c1, c2}
  Workers = {w1}
  BatchSize = 1
  ClientOps = {"lock", "release", "cancel"}
  Foreign = TRUE
  Initial = {"ACTIVE", "LOCKED_IN_ESCROW"}
  Edits = {"SUSPENDED", "LOCKED_IN_ESCROW"}
  MaxActive = 2
  FaultKinds = {"error", "lost", "unseen", "throw", "die"}
  MaxFaults = 1
SYMMETRY Alike
INVARIANTS
  ClosedRowIsTrue
  CustodyIsBacked
  UnfinishedIsHeld
CHECK_DEADLOCK FALSE
