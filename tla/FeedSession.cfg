SPECIFICATION Spec
CONSTANTS
    spy = spy
    qqq = qqq
    Symbols = {spy, qqq}
    Needs = {spy}
    Starts <- MCStarts
    FrameTimeout = 0
    BarTimeout = 1
    StateTtl = 1
    AbsentGrace = 1
    RefreshEvery = 1
    BackoffMax = 2
    LimitBackoff = 2
    AuthBackoff = 3
    MaxWire = 1
    MaxPrints = 1
    MaxFaults = 1
    MaxChanges = 1
    MayDie = TRUE
INVARIANTS
  TypeOK
  FeedIsHonest
PROPERTIES
  Reconnects
  SilenceIsServed
CHECK_DEADLOCK FALSE
