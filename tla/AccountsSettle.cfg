SPECIFICATION FairSpec
CONSTANTS
  ann = ann
  ben = ben
  boss = boss
  p = p
  q = q
  Requests = {r1, r2}
  Emails = {ann, boss}
  Passwords = {p, q}
  Inputs <- ListInputs
  Seeded <- Appointed
  Balances = {0, 1}
  SelfAssign = TRUE
  Faults = {"timeout"}
  None = None
PROPERTIES
  RequestsAreSettled
