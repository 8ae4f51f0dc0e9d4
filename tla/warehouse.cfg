SPECIFICATION FairSpec
CONSTANTS
  Kind <- MediaThenOrders
  MaxRows = 2
  MaxLines = 2
  Batch = 2
  Cycles = {c1, c2}
  MaxFaults = 1
CHECK_DEADLOCK FALSE
INVARIANTS NoneSkipped CopiedOnce
PROPERTY EventuallyCopied
