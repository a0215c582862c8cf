\* Two sessions that share a cache of either kind; any call may fail.
CHECK_DEADLOCK FALSE
SPECIFICATION Spec
CONSTANTS
  Sessions = {s1, s2}
  MaxIds = 3
  CacheChoices = {TRUE, FALSE}
  MaxExpiries = 1
  MaxCallbacks = 1
  LostRequests <- Calls
  LostReplies <- Writes
  MaxFaults = 1
SYMMETRY SessionSymmetry
INVARIANTS TypeOK LockExcludes CachedIsReplay StreamHasNoHole AckedIsStored
