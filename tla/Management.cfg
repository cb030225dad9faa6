SPECIFICATION FairSpec
CONSTANTS
  Members = {ann, bob}
  Self = ann
  Loads = {1, 2}
  Refreshes = {1, 2}
  MaxMoves = 5
  Faults = {"error", "lost", "unread"}
  None = None
CHECK_DEADLOCK FALSE
INVARIANTS
  GrantedOnceUnlessFailed
  ScreenFollowsGrants
  HistoryIsWhole
PROPERTIES
  ClosesForItsOwnGrant
  ControlsComeBack
