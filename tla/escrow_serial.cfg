SPECIFICATION SerialSpec
CONSTANTS
  a1 = a1
  a2 = a2
  c1 = c1
  c2 = c2
  w1 = w1
  w2 = w2
  Assets = {a1, a2}
  Escrows = {1, 2, 3}
  Algorand = {1}
  Solana = {}
  Clients = {c1}
  Workers = {w1}
  BatchSize = 2
  ClientOps = {"lock", "release", "cancel", "transition", "transfer", "pay"}
  Foreign = FALSE
  Initial = {"DRAFT", "ACTIVE"}
  Edits = {}
  MaxActive = 1
  FaultKinds = {"error"}
  MaxFaults = 1
INVARIANTS
  CustodyIsConsistent
PROPERTIES
  EventuallyReleased
CHECK_DEADLOCK FALSE
