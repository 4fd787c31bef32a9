SPECIFICATION Spec
CONSTANTS
  c1 = c1
  c2 = c2
  r1 = r1
  r2 = r2
  Assets = {"a1"}
  Refs = {r1, r2}
  Contributions = {"p1"}
  Devices = {"d1", "d2"}
  QTags = {"d2"}
  MaxCounter = 2
  Payments = {"m1"}
  Notices = {1, 2}
  Edits = {"LOCKED_IN_ESCROW", "ACTIVE", "AWAITING_PAYMENT", "BURNED"}
  Calls = {c1, c2}
  MaxCalls = 4
  MaxFaults = 1
  None = None
SYMMETRY Alike
INVARIANTS
  OwnersAreTold
  ReviewedOnce
  CounterOnce
  TransfersAddUp
  NoticesActOnce
CHECK_DEADLOCK FALSE
