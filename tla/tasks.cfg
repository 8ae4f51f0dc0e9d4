SPECIFICATION FairSpec
CONSTANTS
  MaxTasks = 3
  Streams = {s1}
CHECK_DEADLOCK FALSE
INVARIANTS StartedAfter WaitsForOpen
PROPERTIES RevivedByPredecessor EndIsTold
