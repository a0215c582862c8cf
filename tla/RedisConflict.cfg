\* Two sessions, no fault at all: the check is made before the push, not with it.
SPECIFICATION Spec
CONSTANTS
  Writers = {w1, w2}
  MaxIds = 2
  MaxBatch = 1
  TransactionRetryCount = 2
  LostRequests <- None
  LostReplies <- None
  CanCrash = FALSE
SYMMETRY WriterSymmetry
INVARIANTS NoConflictingCommits
