SPECIFICATION Spec
CONSTANTS
  n1 = n1
  n2 = n2
  d1 = d1
  None = None
  Users = {u1, u2}
  Tenants = {t1, t2}
  Names = {n1, n2}
  Documents = {d1}
  Taxes = {x1, x2}
  Inputs <- MCInputs
  Changes <- MCChanges
  Calls = {c1, c2}
  MaxCalls = 3
SYMMETRY Alike
INVARIANTS
  DocumentsApart
  SuspensionHolds
  ShownIsCurrent
CHECK_DEADLOCK FALSE
