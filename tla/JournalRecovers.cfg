SPECIFICATION FairSpec
CONSTANTS
  b1 = b1
  b2 = b2
  s1 = s1
  p1 = p1
  p2 = p2
  Intents = {b1, s1}
  Resting = {s1}
  SideOf <- MCSide
  QtyOf <- MCQtyOne
  Passes = {p1}
  MaxEpoch = 0
  MaxFresh = 0
  MaxCrashes = 1
  Locked = TRUE
  FillsCarryCid = TRUE
  AckMayFill = FALSE
  CancelSwallowed = TRUE
  MaxLapses = 0
INVARIANTS
  NeverOvercounted
PROPERTIES
  LedgerStands
  GatesLift
CHECK_DEADLOCK FALSE
