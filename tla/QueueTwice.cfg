\* Two instances; nothing fails.
SPECIFICATION Spec
CONSTANTS
  Instances = {n1, n2}
  Retriers = {n1}
  MaxMessages = 1
  Id <- OneAggregate
  TimeToLive = FALSE
  StaleCount = 1
  LockChoices = {TRUE, FALSE}
  LostRequests <- None
  LostReplies <- None
  MaxFaults = 0
INVARIANTS OnlyOnce
