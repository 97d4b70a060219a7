CONSTANTS
  Symbols = {A}
  Payloads <- AllPayloads
  Starts <- AllStarts
  Venues <- AllVenues
  QtyStep = 1
  Budget = 3
  OrderCap = 100000
  CrossTol = 6
  Band = 300
  RefusedMax = 2
  BuyingPower = 0
  MaxOrders = 4
  MaxSweeps = 2
  MaxDecisions = 2
  MaxFaults = 1
  A = A
SPECIFICATION Spec
INVARIANT TypeOK
PROPERTIES OrdersTowardTarget CleanSweepArms NeverStripped
CHECK_DEADLOCK FALSE
