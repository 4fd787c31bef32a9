SPECIFICATION FairSpec
CONSTANTS
  q1 = q1
  q2 = q2
  r1 = r1
  r2 = r2
  Events = {1, 2}
  Rows = {1, 2}
  QRuns = {q1}
  RRuns = {r1}
  BatchLimit = 1
  RetryLimit = 2
  MaxAttempts = 2
  NoOptions = {2}
  MaxFaults = 2
PROPERTIES
  EventuallyAnchored
CHECK_DEADLOCK FALSE
