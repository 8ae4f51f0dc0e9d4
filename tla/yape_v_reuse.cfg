SPECIFICATION YapeSpec
CONSTANTS
  OrderIds = {o1, o2}
  NoOrder = NoOrder
  Notes = {n1}
  NoNote = NoNote
  MaxPayments = 2
  MaxRefunds = 1
  Amounts = {1}
  MaxAttempts = 1
  Procs = {p1}
  Ops <- Buying
  YapeOps <- SyncAndAgent
  Aborts = FALSE
CHECK_DEADLOCK FALSE
INVARIANT NotePaysOnce
