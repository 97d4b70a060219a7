SPECIFICATION Spec
CONSTANTS
  Modes <- MCModes
  Days <- MCDays
  Ends = {2, 3, 4, 5, 6}
  Tapes <- MCTapes
  Fires <- MCFires
  Buffer = 4
  Now = 2
  Walls = {3, 5}
  Quotes = {4}
  Orders <- MCOrders
  Rows <- MCRows
  Reconciled = 1
  UnknownDays = {2}
  WithdrawDay = 3
  WithdrawQty = 1
  Cash = 10
  Margin = 1
  MaxTickets = 2
  MaxOps = 1
INVARIANTS
  TypeOK
  NoLookahead
  SleeveIsItsFills
PROPERTIES
  OnceEach
  QuietBars
CHECK_DEADLOCK FALSE
