\* Two sessions, batches, stale reads, crashes; every call may fail either way.
SPECIFICATION FairSpec
CONSTANTS
  Writers = {w1, w2}
  MaxIds = 4
  MaxBatch = 2
  ReadReplica = TRUE
  LostRequests <- AllCalls
  LostReplies <- AllCalls
  CanCrash = TRUE
INVARIANTS
  TypeOK StreamInOrder AckedStored StoredIsAnnounced AnnouncedStored
PROPERTIES
  SavesEnd ImplementsEventStream
