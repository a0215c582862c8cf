\* Two sessions, batches of two, a snapshot every second event; any call may fail.
CHECK_DEADLOCK FALSE
SPECIFICATION Spec
CONSTANTS
  Sessions = {s1, s2}
  MaxIds = 5
  MaxBatch = 2
  SnapshotInterval = 2
  LostRequests <- Calls
  LostReplies <- Writes
  MaxFaults = 1
SYMMETRY SessionSymmetry
INVARIANTS TypeOK SnapshotIsReplay AppliedOnce StreamHasNoHole DueIsStored
