\* One instance, no lock, a crash, slow callbacks, fairness.
SPECIFICATION FairSpec
CONSTANTS
  Instances = {n1}
  Retriers = {n1}
  MaxMessages = 2
  Id <- OneAggregate
  TimeToLive = TRUE
  StaleCount = 1
  LockChoices = {FALSE}
  LostRequests <- None
  LostReplies <- None
  MaxFaults = 1
INVARIANTS HandledOnce
PROPERTIES Settles
