SPECIFICATION Spec
CONSTANTS
  q1 = q1
  q2 = q2
  r1 = r1
  r2 = r2
  Events = {1, 2}
  Rows = {1, 2}
  QRuns = {q1, q2}
  RRuns = {r1, r2}
  BatchLimit = 2
  RetryLimit = 2
  MaxAttempts = 2
  NoOptions = {}
  MaxFaults = 2
SYMMETRY Runs
INVARIANTS
  ClaimExclusive
  OnlyApprovedOnChain
  AnchoredIsOnChain
  NothingLost
PROPERTIES
  OutcomeFinal
  LedgerSpec
CHECK_DEADLOCK FALSE
