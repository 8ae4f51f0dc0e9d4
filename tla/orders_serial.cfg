SPECIFICATION Spec
CONSTANTS
  OrderIds = {o1, o2}
  NoOrder = NoOrder
  MaxPayments = 2
  MaxRefunds = 2
  Amounts = {1, 2}
  MaxAttempts = 1
  Procs = {p1}
  Ops <- OneAtATime
  Aborts = FALSE
CHECK_DEADLOCK FALSE
INVARIANT PaidInFull
PROPERTY ImplementsLifecycle
