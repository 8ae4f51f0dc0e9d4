SPECIFICATION MCSpec
CONSTANTS
  basic = basic
  PlatformPlans = {basic}
  CreatorPlans = {fan}
  NoPlan = NoPlan
  Price <- Prices
  Notes = {n1, n2}
  NoNote = NoNote
  Sources = {i1}
  Nobody = Nobody
  Procs = {p1, p2}
  MaxRequested = 2
  MaxPayments = 2
  Aborts = TRUE
  Amounts = {1, 2}
CHECK_DEADLOCK FALSE
INVARIANTS PeriodsBacked PaidInKind
PROPERTIES ConfirmedByFirst RevivedOnlyByPayment GrantedOnce PaidIsSettled
