\* Two sessions, every fault, under the fairness of the saves.
SPECIFICATION FairSpec
CONSTANTS
  Writers = {w1, w2}
  MaxIds = 2
  MaxBatch = 1
  TransactionRetryCount = 2
  LostRequests <- AllCalls
  LostReplies <- AllCalls
  CanCrash = FALSE
PROPERTIES SavesEnd
