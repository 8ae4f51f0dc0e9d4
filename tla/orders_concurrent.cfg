SPECIFICATION Spec
CONSTANTS
  OrderIds = {o1}
  NoOrder = NoOrder
  MaxPayments = 2
  MaxRefunds = 2
  Amounts = {1}
  MaxAttempts = 2
  Procs = {p1, p2}
  Ops <- AllOps
  Aborts = TRUE
CHECK_DEADLOCK FALSE
SYMMETRY Interchangeable
INVARIANTS TypeOK PaidBacked RefundBacked
PROPERTY ConfirmedStays
