SPECIFICATION Spec
CONSTANTS
  t1 = t1
  t2 = t2
  Sweeps = {t1, t2}
  FastLanes = {t1}
  Wants = {0, 1}
  MaxQty = 1
  MaxEpoch = 1
  MaxSignals = 2
  Regimes <- MCRegimes
  SlowLock = FALSE
  AckMayFill = TRUE
INVARIANTS
  TypeOK
  NeverMisorders
  BookTrusted
CHECK_DEADLOCK FALSE
