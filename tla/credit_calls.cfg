SPECIFICATION Spec
CONSTANTS
  u1 = u1
  r1 = r1
  r2 = r2
  c1 = c1
  c2 = c2
  Tenant = Tenant
  Owner <- PaidByFirst
  Packages = {"o1"}
  Users = {u1}
  Regs = {r1, r2}
  Dependents = {r1, r2}
  Nameless = {r2}
  Requests <- OnlyTake
  Events <- OneEvent
  Bonus = 2
  Quantity = 2
  Calls = {c1, c2}
  MaxPeople = 2
  MaxFaults = 1
INVARIANTS
  OncePerKey
  SettledWasReserved
  ActiveIsPaid
  Solvent
PROPERTIES
  AccountSpec
SYMMETRY Alike
