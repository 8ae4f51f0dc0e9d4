SPECIFICATION YapeSpec
CONSTANTS
  OrderIds = {o1, o2}
  NoOrder = NoOrder
  Notes = {n1}
  NoNote = NoNote
  MaxPayments = 2
  MaxRefunds = 1
  Amounts = {1, 2}
  MaxAttempts = 1
  Procs = {p1, p2}
  Ops <- Buying
  YapeOps <- AllYapeOps
  Aborts = TRUE
CHECK_DEADLOCK FALSE
SYMMETRY Interchangeable
INVARIANTS UsedIsConfirmed PaidBacked SyncPaysOnce
