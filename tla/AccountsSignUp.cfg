SPECIFICATION Spec
CONSTANTS
  ann = ann
  ben = ben
  boss = boss
  p = p
  q = q
  Requests = {r1, r2, r3}
  Emails = {ann}
  Passwords = {p, q}
  Inputs <- SignUpInputs
  Seeded <- Nobody
  Balances = {0}
  SelfAssign = FALSE
  Faults = {"error", "timeout", "crash"}
  None = None
SYMMETRY RequestSymmetry
INVARIANTS
  AnswersMatchUsers
  OwnersAreLetIn
PROPERTIES
  ImplementsDirectory
