SPECIFICATION Spec
CONSTANTS
  ann = ann
  ben = ben
  boss = boss
  p = p
  q = q
  Requests = {r1, r2, r3}
  Emails = {ann, boss}
  Passwords = {p, q}
  Inputs <- AppointInputs
  Seeded <- Appointed
  Balances = {0, 1}
  SelfAssign = FALSE
  Faults = {"error"}
  None = None
SYMMETRY RequestSymmetry
INVARIANTS
  ManagersAreAppointed
PROPERTIES
  ListIsComplete
