\* Two sessions and no fault.
CHECK_DEADLOCK FALSE
SPECIFICATION Spec
CONSTANTS
  Sessions = {s1, s2}
  MaxIds = 4
  MaxBatch = 2
  SnapshotInterval = 2
  LostRequests <- None
  LostReplies <- None
  MaxFaults = 0
INVARIANTS MementoOfAVersion
