SPECIFICATION FairTenantSpec
CONSTANTS
  Bridges = {b1, b2}
  Callers = {c1}
  Health = health
  Requests = {r1}
  NoBridge = NoBridge
  MaxReconnects = 1
  MaxDeaths = 1
CHECK_DEADLOCK FALSE
INVARIANTS PendingHasWorker OneWorker
PROPERTIES OperationsEnd GivenUpIsStopped
