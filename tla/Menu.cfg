SPECIFICATION FairSpec
CONSTANTS
  Picks = {p1, p2}
  MaxOrders = 2
  MaxBalance = 2
  Refreshes = {"h1"}
  Hasty = {}
  Faults = {"error", "lost"}
CHECK_DEADLOCK FALSE
INVARIANTS
  ReservedOnceUnlessFailed
  NothingIsDropped
  NewestAnswerIsShown
PROPERTIES
  ControlsComeBack
