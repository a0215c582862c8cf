\* Two instances under the lock; any call may fail either way, or an instance die.
SPECIFICATION Spec
CONSTANTS
  Instances = {n1, n2}
  Retriers = {n1}
  MaxMessages = 2
  Id <- OneAggregate
  TimeToLive = FALSE
  StaleCount = 1
  LockChoices = {TRUE}
  LostRequests <- Consequential
  LostReplies <- Writes
  MaxFaults = 1
INVARIANTS
  TypeOK NothingLost HandledOnce NoneForgotten InOrderUnderLock
