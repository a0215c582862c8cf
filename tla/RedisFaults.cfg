\* Two sessions, batches, crashes; every call may fail either way.
SPECIFICATION Spec
CONSTANTS
  Writers = {w1, w2}
  MaxIds = 3
  MaxBatch = 2
  TransactionRetryCount = 2
  LostRequests <- AllCalls
  LostReplies <- AllCalls
  CanCrash = TRUE
SYMMETRY WriterSymmetry
INVARIANTS
  TypeOK ListedHasData AckedStored AnnouncedStored ListedOnce StreamInOrder NothingLeftBehind
PROPERTIES
  SavedIsKept ImplementsEventStream
