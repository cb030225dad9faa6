SPECIFICATION Spec
CONSTANTS
  alice = alice
  bob = bob
  Requests = {r1, r2, r3}
  Members = {alice, bob}
  Inputs <- PairInputs
  MaxCredits = 3
  Opening <- OpeningBalances
  Faults = {"error", "crash"}
  Overlap = FALSE
SYMMETRY RequestSymmetry
INVARIANTS
  CreditsConserved
PROPERTIES
  ImplementsLedger
