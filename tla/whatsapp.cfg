SPECIFICATION MCSpec
CONSTANTS
  Users = {u1, u2}
  None = None
  FirstUser = u1
  Msgs = {m1}
  Questions = 1
  MaxSockets = 2
  MaxConnects = 2
  MaxTimers = 2
  MaxFaults = 1
CHECK_DEADLOCK FALSE
INVARIANTS OneLink OwnNumber
PROPERTIES LinkReturns MessagesEnd
