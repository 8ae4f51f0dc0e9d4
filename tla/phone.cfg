SPECIFICATION FairSpec
CONSTANTS
  Transfers = {t1, t2}
  NoTransfer = NoTransfer
  Payer <- OnePayer
  Text <- OneText
  MaxPosts = 1
  MaxRows = 2
  MaxRetries = 2
  MaxFaults = 2
CHECK_DEADLOCK FALSE
INVARIANTS SyncedIsKnown CapturedOnce
PROPERTIES SyncedStays EventuallySynced
