SPECIFICATION FairSpec
CONSTANTS
  alice = alice
  bob = bob
  Requests = {r1, r2}
  Members = {alice, bob}
  Inputs <- MixedInputs
  MaxCredits = 3
  Opening <- OpeningBalances
  Faults = {"error", "timeout", "crash"}
  Overlap = TRUE
INVARIANTS
  AnswersMatchRecords
PROPERTIES
  RequestsAreSettled
  HistoryIsComplete
  ChangesAreAuthorised
  ImplementsBooking
