--------------------------- MODULE RedisEventStore ---------------------------
(***************************************************************************)
(* One aggregate's event stream in Redis, and the sessions that load the   *)
(* aggregate and commit to it: RedisEventStore.GetAsync and SaveAsync,     *)
(* called by Repository and Session.                                       *)
(*                                                                         *)
(* The store keeps the stream in two places: a list of commit ids, which   *)
(* gives the order, and a hash from commit id to the serialized event.     *)
(* Neither operation is atomic: a session is suspended at each awaited     *)
(* Redis call, and here one action is one such call with the code that     *)
(* runs up to the next.  A commit id is a number handed out once; of an    *)
(* event only its version matters.                                         *)
(***************************************************************************)
EXTENDS Naturals, Sequences, FiniteSets

CONSTANTS
    Writers,               \* sessions, on any host, that use the aggregate
    MaxIds,                \* bound: commit ids ever handed out
    MaxBatch,              \* bound: changes one session commits
    TransactionRetryCount, \* RedisEventStoreSettings.TransactionRetryCount
    LostRequests,          \* calls that may throw without having run
    LostReplies,           \* calls that may run and throw all the same
    CanCrash               \* a writer's process may die between two calls

(* The Redis calls of the store; RedisClient throws once its retries are   *)
(* used up, and then the call has run, on one of the attempts, or has not. *)
Calls == {"lrange", "hget", "hset", "llen", "exec", "publish", "lrem", "hdel"}

ASSUME BoundsAssumption == MaxIds \in Nat /\ MaxBatch \in Nat \ {0}
ASSUME RetryAssumption == TransactionRetryCount \in Nat
ASSUME FaultsAssumption == LostRequests \subseteq Calls /\ LostReplies \subseteq Calls
ASSUME CrashAssumption == CanCrash \in BOOLEAN

Ids == 1..MaxIds

(* The hash has no entry for the commit id.                                *)
NoData == 0

VARIABLES
    list,      \* Redis: the aggregate's list of commit ids
    hash,      \* Redis: the version of the event each commit id leads to
    announced, \* commit ids whose message has been put on the message queue
    acked,     \* commit ids of the changes whose CommitAsync has succeeded
    nextId,    \* the next commit id to hand out
    session,   \* what each writer holds in memory
    happened   \* history: the circumstances that promises depend on, see Marks

vars == <<list, hash, announced, acked, nextId, session, happened>>

(* What a session holds: where it is; the version its aggregate had when   *)
(* it was tracked (AggregateDescriptor.Version); the changes it commits;   *)
(* commitlistLength and the index of the retry loop; and, while it loads,  *)
(* the commit ids still to fetch and the versions fetched so far.          *)
Reading == {"lrange", "hget"}
Saving  == {"hset", "llen", "exec", "publish", "lrem", "hdel", "returned"}
Idle    == [pc |-> "idle", version |-> 0, changes |-> <<>>, length |-> 0,
            tries |-> 0, toFetch |-> {}, fetched |-> <<>>]

ToSet(s) == {s[i] : i \in DOMAIN s}

(* LREM key -1 id: the list without the last occurrence of id.             *)
LastIndex(s, x) ==
    CHOOSE i \in DOMAIN s : s[i] = x /\ \A j \in DOMAIN s : s[j] = x => j <= i
(* Mutant: pops the list instead, from the wrong end.                      *)
WithoutFirst(s, x) == Tail(s)
Without(s, x) ==
    IF x \in ToSet(s)
    THEN [j \in 1..(Len(s) - 1) |-> IF j < LastIndex(s, x) THEN s[j] ELSE s[j + 1]]
    ELSE s

(* The events a load fetched, ordered by version, are 1, 2, ..., n: what   *)
(* AggregateRoot.LoadFromHistory insists on.                               *)
InOrder(versions) ==
    \A v \in 1..Len(versions) : \E i \in 1..Len(versions) : versions[i] = v

(* The commit id SaveAsync works on.  It never gets past the first event   *)
(* of a batch: every way out of the loop body leaves the method.           *)
Commit(w) == Head(session[w].changes)
CommitVersion(w) == session[w].version + 1

(* The ways a call can end: answered; thrown before it ran; thrown after.  *)
Endings(call) ==
    {"answered"} \cup (IF call \in LostRequests THEN {"lost"} ELSE {})
                 \cup (IF call \in LostReplies THEN {"unanswered"} ELSE {})
Ran(ending) == ending # "lost"
Answered(ending) == ending = "answered"

(* What is worth remembering: two sessions were open together; one         *)
(* committed more than one change; a reply of the push or of the publish   *)
(* was lost; the compensation in the list did not run; data were left      *)
(* behind for any other reason, the death of the writer included.          *)
Marks == {"overlap", "batch", "exec", "publish", "lrem", "left"}
MarksOf(call, ending) ==
    CASE ending = "unanswered" /\ call \in {"exec", "publish"} -> {call}
      [] ending = "lost" /\ call = "lrem" -> {"lrem"}
      [] ending = "unanswered" /\ call = "hset" -> {"left"}
      [] ending # "answered" /\ call = "llen" -> {"left"}
      [] ending = "lost" /\ call = "hdel" -> {"left"}
      [] OTHER -> {}
Note(marks) == happened' = happened \cup marks
Never(marks) == happened \cap marks = {}

At(w, call) == session[w].pc = call
Goto(w, call) == session' = [session EXCEPT ![w].pc = call]
Leave(w) == session' = [session EXCEPT ![w] = Idle]

Init ==
    /\ list = <<>>
    /\ hash = [id \in Ids |-> NoData]
    /\ announced = {}
    /\ acked = {}
    /\ nextId = 1
    /\ session = [w \in Writers |-> Idle]
    /\ happened = {}

(* A session that opens while another one has not ended.                   *)
NoteOpening(w) ==
    Note(IF \E u \in Writers \ {w} : ~At(u, "idle") THEN {"overlap"} ELSE {})

-----------------------------------------------------------------------------
(* Loading: Session.GetAsync -> Repository.GetAsync -> RedisEventStore     *)

(* The application adds a new aggregate to its session.                    *)
AddNew(w) ==
    /\ At(w, "idle")
    /\ Goto(w, "open")
    /\ NoteOpening(w)
    /\ UNCHANGED <<list, hash, announced, acked, nextId>>

StartLoad(w) ==
    /\ At(w, "idle")
    /\ Goto(w, "lrange")
    /\ NoteOpening(w)
    /\ UNCHANGED <<list, hash, announced, acked, nextId>>

(* The list is read first; an empty one is an aggregate that does not      *)
(* exist, and GetAsync answers null.                                       *)
ListRange(w) ==
    /\ At(w, "lrange")
    /\ \E e \in Endings("lrange") :
         IF Answered(e) /\ list # <<>>
         THEN session' = [session EXCEPT ![w].pc = "hget", ![w].toFetch = ToSet(list)]
         ELSE Leave(w)
    /\ UNCHANGED <<list, hash, announced, acked, nextId, happened>>

(* The HashGets of all the ids are under way together, so they run in any  *)
(* order; an id without data makes the load throw, and so does a history   *)
(* whose versions have a hole or a repeat.                                 *)
HashGet(w) ==
    /\ At(w, "hget")
    /\ \E id \in session[w].toFetch, e \in Endings("hget") :
         LET rest == session[w].toFetch \ {id}
             got  == Append(session[w].fetched, hash[id])
         IN  IF ~Answered(e) \/ hash[id] = NoData THEN Leave(w)
             ELSE IF rest # {}
             THEN session' = [session EXCEPT ![w].toFetch = rest, ![w].fetched = got]
             ELSE IF InOrder(got)
             THEN session' = [session EXCEPT ![w] =
                                [Idle EXCEPT !.pc = "open", !.version = Len(got)]]
             ELSE Leave(w)
    /\ UNCHANGED <<list, hash, announced, acked, nextId, happened>>

(* The application reads the aggregate and lets the session go.            *)
Abandon(w) ==
    /\ At(w, "open")
    /\ Leave(w)
    /\ UNCHANGED <<list, hash, announced, acked, nextId, happened>>

-----------------------------------------------------------------------------
(* Committing: Session.CommitAsync -> Repository.SaveAsync                 *)

(* Repository's check: GetAsync from the tracked version on has any event. *)
(* Mutant: starts the range one too far.                                   *)
ConflictPastOne(w) == Len(list) > session[w].version + 1
Conflict(w) == Len(list) > session[w].version

(* n changes, each with the next commit id.                                *)
Changes(n) == [k \in 1..n |-> nextId + k - 1]

(* The check against the version the session tracked; then                 *)
(* FlushUncommitedChanges numbers the n changes the application made, and  *)
(* SaveAsync begins.                                                       *)
CommitAsync(w) ==
    /\ At(w, "open")
    /\ \E n \in 1..MaxBatch, e \in Endings("lrange") :
         /\ nextId + n <= MaxIds + 1
         /\ Note(IF n > 1 THEN {"batch"} ELSE {})
         /\ IF Answered(e) /\ ~Conflict(w)
            THEN /\ session' = [session EXCEPT ![w].pc = "hset", ![w].changes = Changes(n)]
                 /\ nextId' = nextId + n
            ELSE Leave(w) /\ UNCHANGED nextId
    /\ UNCHANGED <<list, hash, announced, acked>>

(* The event's data goes in first, outside any try block.                  *)
HashSet(w) ==
    /\ At(w, "hset")
    /\ \E e \in Endings("hset") :
         /\ Note(MarksOf("hset", e))
         /\ hash' = IF Ran(e) THEN [hash EXCEPT ![Commit(w)] = CommitVersion(w)] ELSE hash
         /\ IF Answered(e)
            THEN Goto(w, IF TransactionRetryCount > 0 THEN "llen" ELSE "hdel")
            ELSE Leave(w)
    /\ UNCHANGED <<list, announced, acked, nextId>>

(* The length the transaction will be conditioned on, read on each try.    *)
ListLength(w) ==
    /\ At(w, "llen")
    /\ \E e \in Endings("llen") :
         /\ Note(MarksOf("llen", e))
         /\ IF Answered(e)
            THEN session' = [session EXCEPT ![w].pc = "exec", ![w].length = Len(list)]
            ELSE Leave(w)
    /\ UNCHANGED <<list, hash, announced, acked, nextId>>

(* Mutant: a transaction whose reply is lost is tried again.               *)
ExecutePushAgain(w) ==
    /\ At(w, "exec")
    /\ Len(list) = session[w].length
    /\ \E e \in Endings("exec") :
         /\ Note(MarksOf("exec", e))
         /\ list' = IF Ran(e) THEN Append(list, Commit(w)) ELSE list
         /\ Goto(w, IF Answered(e) THEN "publish" ELSE "llen")
    /\ UNCHANGED <<hash, announced, acked, nextId>>
(* MULTI/EXEC: the push happens if the list is still as long as it was.    *)
ExecutePush(w) ==
    /\ At(w, "exec")
    /\ Len(list) = session[w].length
    /\ \E e \in Endings("exec") :
         /\ Note(MarksOf("exec", e))
         /\ list' = IF Ran(e) THEN Append(list, Commit(w)) ELSE list
         /\ Goto(w, IF Answered(e) THEN "publish" ELSE "hdel")
    /\ UNCHANGED <<hash, announced, acked, nextId>>

(* Mutant: does not look at what ExecuteAsync answered.                    *)
ExecuteRefusedIgnored(w) ==
    /\ At(w, "exec")
    /\ Len(list) # session[w].length
    /\ Goto(w, "publish")
    /\ UNCHANGED <<list, hash, announced, acked, nextId, happened>>
(* Mutant: the loop runs once too often.                                   *)
ExecuteRefusedOnceMore(w) ==
    /\ At(w, "exec")
    /\ Len(list) # session[w].length
    /\ \E e \in Endings("exec") :
         IF Answered(e) /\ session[w].tries < TransactionRetryCount
         THEN session' = [session EXCEPT ![w].pc = "llen", ![w].tries = @ + 1]
         ELSE Goto(w, "hdel")
    /\ UNCHANGED <<list, hash, announced, acked, nextId, happened>>
(* Mutant: throws ConcurrencyException without deleting the event's data.  *)
ExecuteRefusedUnclean(w) ==
    /\ At(w, "exec")
    /\ Len(list) # session[w].length
    /\ IF session[w].tries + 1 < TransactionRetryCount
       THEN session' = [session EXCEPT ![w].pc = "llen", ![w].tries = @ + 1]
       ELSE Leave(w)
    /\ UNCHANGED <<list, hash, announced, acked, nextId, happened>>
(* The condition failed: wait and try again, or give up after the last     *)
(* try; without an answer the exception ends the save.                     *)
ExecuteRefused(w) ==
    /\ At(w, "exec")
    /\ Len(list) # session[w].length
    /\ \E e \in Endings("exec") :
         IF Answered(e) /\ session[w].tries + 1 < TransactionRetryCount
         THEN session' = [session EXCEPT ![w].pc = "llen", ![w].tries = @ + 1]
         ELSE Goto(w, "hdel")
    /\ UNCHANGED <<list, hash, announced, acked, nextId, happened>>

(* Mutant: the exception of a failed publish is swallowed.                 *)
PublishSwallowed(w) ==
    /\ At(w, "publish")
    /\ \E e \in Endings("publish") :
         announced' = IF Ran(e) THEN announced \cup {Commit(w)} ELSE announced
    /\ Goto(w, "returned")
    /\ UNCHANGED <<list, hash, acked, nextId, happened>>
(* IMessageQueue.PublishAsync, which is one transaction in Redis.  Once it *)
(* has answered, SaveAsync returns: the rest of the batch is not saved.    *)
Publish(w) ==
    /\ At(w, "publish")
    /\ \E e \in Endings("publish") :
         /\ Note(MarksOf("publish", e))
         /\ announced' = IF Ran(e) THEN announced \cup {Commit(w)} ELSE announced
         /\ Goto(w, IF Answered(e) THEN "returned" ELSE "lrem")
    /\ UNCHANGED <<list, hash, acked, nextId>>

(* Mutant: no compensation in the list.                                    *)
ListRemoveSkipped(w) ==
    /\ At(w, "lrem")
    /\ Goto(w, "hdel")
    /\ UNCHANGED <<list, hash, announced, acked, nextId, happened>>
(* The compensation for a publish that threw.  Thrown out of, it is caught *)
(* by the same outer handler, so the data is deleted either way.           *)
ListRemove(w) ==
    /\ At(w, "lrem")
    /\ \E e \in Endings("lrem") :
         /\ Note(MarksOf("lrem", e))
         /\ list' = IF Ran(e) THEN Without(list, Commit(w)) ELSE list
    /\ Goto(w, "hdel")
    /\ UNCHANGED <<hash, announced, acked, nextId>>

(* Mutant: starts the save all over.                                       *)
HashDeleteAgain(w) ==
    /\ At(w, "hdel")
    /\ hash' = [hash EXCEPT ![Commit(w)] = NoData]
    /\ Goto(w, "hset")
    /\ UNCHANGED <<list, announced, acked, nextId, happened>>
(* The event's data goes too, and the exception is thrown on.              *)
HashDelete(w) ==
    /\ At(w, "hdel")
    /\ \E e \in Endings("hdel") :
         /\ Note(MarksOf("hdel", e))
         /\ hash' = IF Ran(e) THEN [hash EXCEPT ![Commit(w)] = NoData] ELSE hash
    /\ Leave(w)
    /\ UNCHANGED <<list, announced, acked, nextId>>

(* The await in CommitAsync resumes: the caller sees all its changes saved.*)
Return(w) ==
    /\ At(w, "returned")
    /\ acked' = acked \cup ToSet(session[w].changes)
    /\ Leave(w)
    /\ UNCHANGED <<list, hash, announced, nextId, happened>>

-----------------------------------------------------------------------------
(* The writer's process dies; what Redis holds is as it was.               *)
Crash(w) ==
    /\ CanCrash
    /\ ~At(w, "idle")
    /\ Leave(w)
    /\ Note({"left"})
    /\ UNCHANGED <<list, hash, announced, acked, nextId>>

Open(w) == AddNew(w) \/ StartLoad(w) \/ ListRange(w) \/ HashGet(w) \/ Abandon(w)
Save(w) == \/ HashSet(w) \/ ListLength(w) \/ ExecutePush(w) \/ ExecuteRefused(w)
           \/ Publish(w) \/ ListRemove(w) \/ HashDelete(w) \/ Return(w)

Next == \E w \in Writers : Open(w) \/ CommitAsync(w) \/ Save(w) \/ Crash(w)

Spec == Init /\ [][Next]_vars

(* A started save goes on: the continuation of each call is run once the   *)
(* call has been answered or has thrown.                                   *)
FairSpec == Spec /\ \A w \in Writers : WF_vars(Save(w))

-----------------------------------------------------------------------------
Sessions ==
    [pc : {"idle", "open"} \cup Reading \cup Saving,
     version : Nat, changes : Seq(Ids), length : Nat, tries : Nat,
     toFetch : SUBSET Ids, fetched : Seq(Nat)]

Typed ==
    /\ list \in Seq(Ids)
    /\ hash \in [Ids -> Nat]
    /\ announced \subseteq Ids
    /\ acked \subseteq Ids
    /\ nextId \in 1..(MaxIds + 1)
    /\ session \in [Writers -> Sessions]
    /\ happened \subseteq Marks

(* Every variable has the type its declaration says; and the length is     *)
(* read and the transaction tried only TransactionRetryCount times.        *)
TypeOK ==
    /\ Typed
    /\ \A w \in Writers :
         session[w].pc \in {"llen", "exec"} => session[w].tries < TransactionRetryCount

(* A commit id in the list leads to an event: GetAsync deserializes what   *)
(* it finds for every id, and one without data makes the aggregate         *)
(* unreadable for good.                                                    *)
NoDanglingCommit == \A i \in DOMAIN list : hash[list[i]] # NoData

(* It does unless the push ran and its reply was lost, or the compensation *)
(* of a failed publish did not run; crashes and all other faults are fine. *)
ListedHasData == Never({"exec", "lrem"}) => NoDanglingCommit

(* A change whose commit was reported as saved is listed, has its data and *)
(* has been announced.                                                     *)
SavedIsStored == acked \subseteq {id \in announced \cap ToSet(list) : hash[id] # NoData}

(* It is and stays so, whatever the other sessions and the faults do, when *)
(* each commit has one change.                                             *)
AckedStored == Never({"batch"}) => SavedIsStored

(* No message describes an event the store has since taken back, unless    *)
(* the store could not know that the message was out.                      *)
AnnouncedStored ==
    Never({"publish"}) => announced \subseteq {id \in ToSet(list) : hash[id] # NoData}

(* Trying the transaction again never lists an event a second time.        *)
ListedOnce == \A i, j \in DOMAIN list : list[i] = list[j] => i = j

(* The i-th commit id of the list leads to the event of version i, as long *)
(* as no two sessions were open together: crashes and faults do not matter.*)
(* GetAsync takes a version for an index, and LoadFromHistory throws when  *)
(* the versions have a hole or a repeat.                                   *)
StreamInOrder ==
    Never({"overlap"}) => \A i \in DOMAIN list : hash[list[i]] \in {NoData, i}

(* No two changes reported as saved carry the same version: of the         *)
(* sessions that started from one version, one commits.                    *)
NoConflictingCommits == \A a, b \in acked : hash[a] = hash[b] => a = b

(* With no save under way, an event is in the hash, in the list and on the *)
(* queue, or in none of them: what the code undoes it undoes completely,   *)
(* unless a fault of the marks kept it from doing so.                      *)
NothingLeftBehind ==
    (\A w \in Writers : session[w].pc \notin Saving)
    /\ Never({"exec", "publish", "lrem", "left"}) =>
        /\ ToSet(list) = announced
        /\ {id \in Ids : hash[id] # NoData} = announced

(* A saved event keeps its place in the stream and its data, as long as no *)
(* two sessions were open together.                                        *)
SavedIsKept ==
    [][Never({"overlap"})' =>
         \A i \in DOMAIN list : list[i] \in acked =>
           /\ i \in DOMAIN list' /\ list'[i] = list[i]
           /\ hash'[list[i]] = hash[list[i]]]_vars

(* A save that was started comes to an end, with success or an exception.  *)
SavesEnd == \A w \in Writers : session[w].pc \in Saving ~> session[w].pc = "idle"

-----------------------------------------------------------------------------
(* The stream as IEventStore presents it: an event is in the log once its  *)
(* message is out, for then no compensation will take it back.             *)
Out == {i \in DOMAIN list : list[i] \in announced}
Nth(k) == CHOOSE i \in Out : Cardinality({j \in Out : j <= i}) = k
AnnouncedList == [k \in 1..Cardinality(Out) |-> list[Nth(k)]]
Stream == INSTANCE EventStream WITH
    log <- [i \in DOMAIN AnnouncedList |->
              [id |-> AnnouncedList[i], version |-> hash[AnnouncedList[i]]]]

(* The Redis store is an event stream for sessions that come one after     *)
(* another with one change each, as long as nothing is left behind for a   *)
(* later one to find: publishing appends the next version to the log, and  *)
(* a commit is reported as saved only after that.                          *)
ImplementsEventStream ==
    /\ Stream!Init
    /\ [][Never(Marks)' => [Stream!Next]_<<AnnouncedList, acked>>]_vars
=============================================================================
