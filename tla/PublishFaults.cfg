\* Two publishers, with and without a capacity; any call may be lost.
CHECK_DEADLOCK FALSE
SPECIFICATION FairSpec
CONSTANTS
  Applications = {a1, a2, a3}
  Publishers = {p1, p2}
  MaxMessages = 3
  TransactionRetryCount = 2
  Capacity = 1
  CapacityChoices = {TRUE, FALSE}
  LostRequests <- Calls
  LostReplies <- Writes
  MaxFaults = 1
INVARIANTS TypeOK WithinCapacity FailedIsUnpublished
PROPERTIES FailsOnlyByRegistrations ImplementsBroadcast EndsUnlessFull
