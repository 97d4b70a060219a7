SPECIFICATION Spec
CONSTANTS
    LastDay = 2
    Minutes = 2
    Vendors = {"merge", "replace"}
    Curated = {}
    CuratedDaily = 0
    RecomputeDays = 2
    RefreshDays = 2
    Regimes <- MCRegimes
INVARIANTS
  TypeOK
  StoreIsHonest
PROPERTIES
  MinutesSurvive
  FilesSettle
CHECK_DEADLOCK FALSE
