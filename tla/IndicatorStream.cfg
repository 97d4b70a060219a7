SPECIFICATION Spec
CONSTANTS
  Bars <- MCBars
  OtherCloses <- MCOtherCloses
  Minutes <- MCMinutes
  Sessions = 2
  Span = 5
  DayMinutes = 10
  Period = 2
INVARIANTS
  ReadingsInRange
  SameReading
  StreamsAccount
PROPERTIES
  StopsFollow
