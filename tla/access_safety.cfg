SPECIFICATION Spec
CONSTANTS
  Tenants = {t1, t2}
  Founder = t1
  Requests = {r1, r2}
  Servers = {s1}
  Idem = {i1}
  None = None
  Limits <- MCLimits
  Issued = {"OPERATOR"}
  MaxKeys = 3
  LastMinute = 2
  MinutesPerDay = 3
  MaxArrivals = 3
  MaxFaults = 1
SYMMETRY Interchangeable
INVARIANTS
  DeadKeysOpenNothing
  WithinAllowance
  HandledOnce
CHECK_DEADLOCK FALSE
