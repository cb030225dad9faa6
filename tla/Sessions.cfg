SPECIFICATION FairSpec
CONSTANTS
  Tabs = {t1, t2}
  Users = {ann, ben, eve}
  Allowed = {ann, ben}
  Known = {ann, eve}
  MaxMoves = 2
  Faults = {"error", "expiry"}
  None = None
CHECK_DEADLOCK FALSE
INVARIANTS
  ShowsWhoActs
  PolicyIsKept
  NoDeadEnd
PROPERTIES
  KeptUntilSignOut
  TabsSettle
