---------------------------- MODULE SqlEventStore ----------------------------
(***************************************************************************)
(* One aggregate's event stream in a relational database, and the sessions *)
(* that load the aggregate and commit to it: SqlEventStore.GetAsync and    *)
(* SaveAsync, called by Repository and Session, with the tables and stored *)
(* procedures of database/.                                                *)
(*                                                                         *)
(* Each event of a batch is saved in a transaction of its own, and its     *)
(* message is published while that transaction is open.  Reads may go to a *)
(* replica that is behind.  One action is one awaited call.                *)
(***************************************************************************)
EXTENDS Naturals, Sequences

CONSTANTS
    Writers,       \* sessions, on any host, that use the aggregate
    MaxIds,        \* bound: events ever made
    MaxBatch,      \* bound: changes one session commits
    ReadReplica,   \* the read connection goes to a replica
    LostRequests,  \* calls that may throw without having run
    LostReplies,   \* calls that may run and throw all the same
    CanCrash       \* a writer's process may die between two calls

(* The calls SqlEventStore waits for; a lock wait that times out is an     *)
(* insert whose request is lost.                                           *)
Calls == {"query", "insert", "publish", "commit"}

ASSUME BoundsAssumption == MaxIds \in Nat /\ MaxBatch \in Nat \ {0}
ASSUME FaultsAssumption == LostRequests \subseteq Calls /\ LostReplies \subseteq Calls
ASSUME FlagsAssumption == ReadReplica \in BOOLEAN /\ CanCrash \in BOOLEAN

Ids == 1..MaxIds

VARIABLES
    rows,      \* the committed rows of the event table, as they were committed
    announced, \* ids of the events whose message has been put on the message queue
    acked,     \* ids of the events whose CommitAsync has succeeded
    nextId,    \* the next event's id
    session,   \* what each writer holds in memory, and its open transaction
    happened   \* history: the circumstances a promise depends on, see Marks

vars == <<rows, announced, acked, nextId, session, happened>>

(* What a session holds: where it is; its aggregate's Version; the events  *)
(* it flushed, numbered; and how many of these it has saved.  From         *)
(* "publish" to the end of the transaction the next one's row is inserted  *)
(* and not committed.                                                      *)
InTransaction == {"publish", "commit", "rollback"}
Saving == {"insert", "returned"} \cup InTransaction
Idle == [pc |-> "idle", version |-> 0, changes |-> <<>>, saved |-> 0]
OpenAt(v) == [pc |-> "open", version |-> v, changes |-> <<>>, saved |-> 0]

(* The event SaveAsync is at.                                              *)
Current(w) == session[w].changes[session[w].saved + 1]

(* Rows other sessions have inserted and not committed.                    *)
Uncommitted(w) ==
    {Current(u) : u \in {x \in Writers \ {w} : session[x].pc \in InTransaction}}

(* The ways a call can end: answered; thrown before it ran; thrown after.  *)
Endings(call) ==
    {"answered"} \cup (IF call \in LostRequests THEN {"lost"} ELSE {})
                 \cup (IF call \in LostReplies THEN {"unanswered"} ELSE {})
Ran(ending) == ending # "lost"
Answered(ending) == ending = "answered"

(* What is worth remembering: a message may have gone out although the     *)
(* publish threw; a commit threw without having run; a writer died.        *)
Marks == {"publish", "commit", "crash"}
MarksOf(call, ending) ==
    IF <<call, ending>> \in {<<"publish", "unanswered">>, <<"commit", "lost">>} THEN {call} ELSE {}
Note(marks) == happened' = happened \cup marks

At(w, call) == session[w].pc = call
Goto(w, call) == session' = [session EXCEPT ![w].pc = call]
Leave(w) == session' = [session EXCEPT ![w] = Idle]

(* How many of the committed rows the read connection sees.                *)
Visible == IF ReadReplica THEN 0..Len(rows) ELSE {Len(rows)}

(* get_events_for_aggregate: the versions past "from" among the first n    *)
(* rows.                                                                   *)
VersionsAfter(from, n) == {rows[i].version : i \in 1..n} \ 0..from

(* UNIQUE(aggregate_key, version).  Mutant: without the constraint.        *)
TakenNever(version) == FALSE
Taken(version) == \E i \in DOMAIN rows : rows[i].version = version

(* An insert waits while another transaction holds a row it may collide    *)
(* with.                                                                   *)
Blocked(w) == \E e \in Uncommitted(w) : e.version = Current(w).version

Init ==
    /\ rows = <<>>
    /\ announced = {}
    /\ acked = {}
    /\ nextId = 1
    /\ session = [w \in Writers |-> Idle]
    /\ happened = {}

-----------------------------------------------------------------------------
(* The application adds a new aggregate to its session.                    *)
AddNew(w) ==
    /\ At(w, "idle")
    /\ session' = [session EXCEPT ![w] = OpenAt(0)]
    /\ UNCHANGED <<rows, announced, acked, nextId, happened>>

(* One query loads the aggregate.  It opens only if the versions are       *)
(* 1, 2, ..., v: LoadFromHistory throws at a hole, and GetAsync answers    *)
(* null when there is no event.                                            *)
Load(w) ==
    /\ At(w, "idle")
    /\ \E n \in Visible : \E v \in 1..n :
         /\ VersionsAfter(0, n) = 1..v
         /\ session' = [session EXCEPT ![w] = OpenAt(v)]
    /\ UNCHANGED <<rows, announced, acked, nextId, happened>>

(* The application lets the session go without a commit.                   *)
Abandon(w) ==
    /\ At(w, "open")
    /\ Leave(w)
    /\ UNCHANGED <<rows, announced, acked, nextId, happened>>

-----------------------------------------------------------------------------
(* Repository.SaveAsync: a row past the version the session tracked makes  *)
(* the commit fail, if the read connection shows it.  Then                 *)
(* FlushUncommitedChanges numbers the n changes the application made and   *)
(* moves the aggregate's Version past them.                                *)
CommitAsync(w) ==
    /\ At(w, "open")
    /\ \E n \in 1..MaxBatch, seen \in Visible, e \in Endings("query") :
         /\ nextId + n <= MaxIds + 1
         /\ IF Answered(e) /\ VersionsAfter(session[w].version, seen) = {}
            THEN /\ session' = [session EXCEPT ![w] =
                       [pc |-> "insert", version |-> @.version + n, saved |-> 0,
                        changes |-> [k \in 1..n |-> [id |-> nextId + k - 1,
                                                     version |-> @.version + k]]]]
                 /\ nextId' = nextId + n
            ELSE Leave(w) /\ UNCHANGED nextId
    /\ UNCHANGED <<rows, announced, acked, happened>>

(* Mutant: publishes first and inserts after.                              *)
InsertAfterPublish(w) ==
    /\ At(w, "insert")
    /\ \E e \in Endings("insert") :
         \/ /\ Ran(e) /\ ~Blocked(w)
            /\ IF Taken(Current(w).version) THEN Leave(w) ELSE Goto(w, "commit")
         \/ ~Ran(e) /\ Leave(w)
    /\ announced' = announced \cup {Current(w).id}
    /\ UNCHANGED <<rows, acked, nextId, happened>>
(* BeginTransaction and save_event_for_aggregate.  The catch block rolls   *)
(* back; with no row inserted that releases nothing.                       *)
Insert(w) ==
    /\ At(w, "insert")
    /\ \E e \in Endings("insert") :
         \/ /\ Ran(e) /\ ~Blocked(w) /\ ~Taken(Current(w).version)
            /\ Goto(w, IF Answered(e) THEN "publish" ELSE "rollback")
         \/ /\ Ran(e) /\ ~Blocked(w) /\ Taken(Current(w).version)
            /\ Leave(w)
         \/ ~Ran(e) /\ Leave(w)
    /\ UNCHANGED <<rows, announced, acked, nextId, happened>>

(* Mutant: the exception of a failed publish is swallowed.                 *)
PublishSwallowed(w) ==
    /\ At(w, "publish")
    /\ \E e \in Endings("publish") :
         announced' = IF Ran(e) THEN announced \cup {Current(w).id} ELSE announced
    /\ Goto(w, "commit")
    /\ UNCHANGED <<rows, acked, nextId, happened>>
(* The message goes out while the row is not committed yet.                *)
Publish(w) ==
    /\ At(w, "publish")
    /\ \E e \in Endings("publish") :
         /\ Note(MarksOf("publish", e))
         /\ announced' = IF Ran(e) THEN announced \cup {Current(w).id} ELSE announced
         /\ Goto(w, IF Answered(e) THEN "commit" ELSE "rollback")
    /\ UNCHANGED <<rows, acked, nextId>>

(* Mutant: the exception of a failed Commit is swallowed.                  *)
CommitSwallowed(w) ==
    /\ At(w, "commit")
    /\ \E e \in Endings("commit") :
         rows' = IF Ran(e) THEN Append(rows, Current(w)) ELSE rows
    /\ session' = [session EXCEPT
           ![w].saved = @ + 1,
           ![w].pc = IF session[w].saved + 1 = Len(session[w].changes)
                     THEN "returned" ELSE "insert"]
    /\ UNCHANGED <<announced, acked, nextId, happened>>
(* Mutant: the loop goes one past the batch.                               *)
CommitPastEnd(w) ==
    /\ At(w, "commit")
    /\ rows' = Append(rows, Current(w))
    /\ session' = [session EXCEPT
           ![w].saved = @ + 1,
           ![w].pc = IF session[w].saved = Len(session[w].changes)
                     THEN "returned" ELSE "insert"]
    /\ UNCHANGED <<announced, acked, nextId, happened>>
(* The row is in; the loop goes on with the next event of the batch.  When *)
(* Commit throws although it ran there is nothing left to roll back.       *)
Commit(w) ==
    /\ At(w, "commit")
    /\ \E e \in Endings("commit") :
         /\ Note(MarksOf("commit", e))
         /\ rows' = IF Ran(e) THEN Append(rows, Current(w)) ELSE rows
         /\ IF Answered(e)
            THEN session' = [session EXCEPT
                    ![w].saved = @ + 1,
                    ![w].pc = IF session[w].saved + 1 = Len(session[w].changes)
                              THEN "returned" ELSE "insert"]
            ELSE IF Ran(e) THEN Leave(w) ELSE Goto(w, "rollback")
    /\ UNCHANGED <<announced, acked, nextId>>

(* Mutant: tries the event again.                                          *)
RollbackAgain(w) ==
    /\ At(w, "rollback")
    /\ Goto(w, "insert")
    /\ UNCHANGED <<rows, announced, acked, nextId, happened>>
(* The row goes, and the exception ends the save.                          *)
Rollback(w) ==
    /\ At(w, "rollback")
    /\ Leave(w)
    /\ UNCHANGED <<rows, announced, acked, nextId, happened>>

(* CommitAsync returns, and the caller may go on with the aggregate in a   *)
(* later session: it stands at the version it has just committed.          *)
Return(w) ==
    /\ At(w, "returned")
    /\ acked' = acked \cup {session[w].changes[k].id : k \in DOMAIN session[w].changes}
    /\ \/ Leave(w)
       \/ session' = [session EXCEPT ![w] = OpenAt(session[w].version)]
    /\ UNCHANGED <<rows, announced, nextId, happened>>

(* The writer's process dies; the server rolls its transaction back.       *)
Crash(w) ==
    /\ CanCrash
    /\ ~At(w, "idle")
    /\ Leave(w)
    /\ Note({"crash"})
    /\ UNCHANGED <<rows, announced, acked, nextId>>

Open(w) == AddNew(w) \/ Load(w) \/ Abandon(w)
Save(w) == Insert(w) \/ Publish(w) \/ Commit(w) \/ Rollback(w) \/ Return(w)

Next == \E w \in Writers : Open(w) \/ CommitAsync(w) \/ Save(w) \/ Crash(w)

Spec == Init /\ [][Next]_vars

(* A started save goes on: each call is answered or throws.  An insert     *)
(* that waits for another transaction need not time out; once that has     *)
(* ended, the server lets those that wait in, one after the other.         *)
Granted(w) == Insert(w) /\ ~Blocked(w)
FairSpec ==
    /\ Spec
    /\ \A w \in Writers : /\ WF_vars(Publish(w) \/ Commit(w) \/ Rollback(w) \/ Return(w))
                          /\ SF_vars(Granted(w))

-----------------------------------------------------------------------------
Events == [id : Ids, version : Nat]
Sessions ==
    [pc : {"idle", "open"} \cup Saving, version : Nat,
     changes : Seq(Events), saved : Nat]

Stored == {rows[i].id : i \in DOMAIN rows}

(* Every variable has the type its declaration says, and a session that    *)
(* is saving is at an event of its batch.                                  *)
TypeOK ==
    /\ rows \in Seq(Events)
    /\ announced \subseteq Ids
    /\ acked \subseteq Ids
    /\ nextId \in 1..(MaxIds + 1)
    /\ session \in [Writers -> Sessions]
    /\ happened \subseteq Marks
    /\ \A w \in Writers : session[w].pc \in Saving \ {"returned"} =>
                              session[w].saved < Len(session[w].changes)

(* The rows are committed in the order of their versions, with no hole and *)
(* no repeat, so the stream can be loaded, however many sessions commit,   *)
(* however stale their reads, wherever they fail: what LoadFromHistory     *)
(* asks of it.                                                             *)
StreamInOrder == \A i \in DOMAIN rows : rows[i].version = i

(* All the changes of a commit that was reported as saved are stored.      *)
AckedStored == acked \subseteq Stored

(* A stored event has been announced, even if its writer died or threw: it *)
(* is committed only after its message is out.                             *)
StoredIsAnnounced == Stored \subseteq announced

(* A message describes a stored event or one about to be committed, unless *)
(* the store lost control of the transaction after publishing.             *)
AnnouncedStored ==
    happened = {} => announced \subseteq
        Stored \cup {Current(w).id : w \in {x \in Writers : session[x].pc = "commit"}}

(* A save that was started comes to an end, with success or an exception.  *)
SavesEnd == \A w \in Writers : session[w].pc \in Saving ~> session[w].pc \in {"idle", "open"}

-----------------------------------------------------------------------------
Stream == INSTANCE EventStream WITH log <- rows

(* The table is an event stream: each step appends the next version at     *)
(* most, and a commit is reported as saved only once its events are there. *)
ImplementsEventStream == Stream!Spec
=============================================================================
