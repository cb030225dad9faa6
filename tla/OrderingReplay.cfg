SPECIFICATION Spec
CONSTANTS
  alice = alice
  bob = bob
  Requests = {r1, r2}
  Members = {alice}
  Inputs <- RaceInputs
  MaxCredits = 3
  Opening <- NoAccounts
  Faults = {}
  Overlap = FALSE
INVARIANTS
  ReplayRebuildsBalance
