SPECIFICATION Spec
CONSTANTS
  alice = alice
  bob = bob
  Requests = {r1, r2, r3}
  Members = {alice}
  Inputs <- RaceInputs
  MaxCredits = 3
  Opening <- OpeningBalances
  Faults = {"error", "timeout", "crash"}
  Overlap = TRUE
SYMMETRY RequestSymmetry
INVARIANTS
  CreditsWithinBounds
  CreditsBackedByGrants
  RecordsFollowMoney
