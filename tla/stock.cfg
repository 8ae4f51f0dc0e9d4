SPECIFICATION FairSpec
CONSTANTS
  a = a
  b = b
  Products = {a, b}
  OrderIds = {o1, o2}
  Procs = {p1, p2}
  NoProc = NoProc
  NoOrder = NoOrder
  InitialStock = 3
  Baskets <- Crossed
  MaxAttempts = 2
  MaxChanges = 1
  Aborts = TRUE
CHECK_DEADLOCK FALSE
INVARIANTS StockNeverNegative StockExact
PROPERTY TransactionsEnd
