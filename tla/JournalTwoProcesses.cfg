SPECIFICATION Spec
CONSTANTS
  b1 = b1
  b2 = b2
  s1 = s1
  p1 = p1
  p2 = p2
  Intents = {b1}
  Resting = {}
  SideOf <- MCSide
  QtyOf <- MCQtyTwo
  Passes = {p1, p2}
  MaxEpoch = 0
  MaxFresh = 0
  MaxCrashes = 1
  Locked = FALSE
  FillsCarryCid = TRUE
  AckMayFill = FALSE
  CancelSwallowed = FALSE
  MaxLapses = 1
SYMMETRY PassSymmetry
INVARIANTS
  TypeOK
  SentOnce
  WrittenAhead
  OutstandingCovered
CHECK_DEADLOCK FALSE
