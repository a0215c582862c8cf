\* One session, no fault, commits of two changes.
SPECIFICATION Spec
CONSTANTS
  Writers = {w1}
  MaxIds = 2
  MaxBatch = 2
  TransactionRetryCount = 2
  LostRequests <- None
  LostReplies <- None
  CanCrash = FALSE
INVARIANTS SavedIsStored
