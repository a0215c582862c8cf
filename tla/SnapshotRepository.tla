------------------------- MODULE SnapshotRepository -------------------------
(***************************************************************************)
(* Sessions that load one aggregate through SnapshotRepository.GetAsync,   *)
(* change it and commit it through SnapshotRepository.SaveAsync, with      *)
(* DefaultSnapshotStrategy, RedisSnapshotStore and, below, Repository.     *)
(*                                                                         *)
(* SaveAsync runs two tasks on the same object and waits for both: one may *)
(* make a snapshot, the other saves the changes.  Neither knows how the    *)
(* other ended.  One action is one awaited call of one of the tasks, with  *)
(* the code that runs up to the next; where the tasks run on two threads,  *)
(* an action ends between two reads of the object.                         *)
(*                                                                         *)
(* The event store takes the events of a batch one by one, each if nothing *)
(* is stored under its version (see SqlEventStore).  The state of the      *)
(* aggregate is the sequence of the events it applied.                     *)
(***************************************************************************)
EXTENDS Naturals, Sequences, FiniteSets, Functions

CONSTANTS
    Sessions,          \* on any host, that use the aggregate
    MaxIds,            \* bound: events ever made
    MaxBatch,          \* bound: changes one session commits
    SnapshotInterval,  \* of DefaultSnapshotStrategy
    LostRequests,      \* calls that may throw without having run
    LostReplies,       \* calls that may run and throw all the same
    MaxFaults          \* bound: calls that throw

Calls == {"check", "insert", "exists", "store"}

ASSUME BoundsAssumption == MaxIds \in Nat /\ MaxBatch \in Nat /\ MaxFaults \in Nat
ASSUME IntervalAssumption == SnapshotInterval \in Nat \ {0}
ASSUME FaultsAssumption == LostRequests \subseteq Calls /\ LostReplies \subseteq Calls

Ids == 1..MaxIds

VARIABLES
    rows,      \* the event store: the event stored under each version, or 0
    snapshot,  \* the snapshot store: the aggregate's snapshot
    nextId,    \* the next event's id
    session,   \* what each session holds in memory, and its two tasks
    faults,    \* calls that have thrown
    happened   \* history: the circumstances a promise depends on, see Marks

vars == <<rows, snapshot, nextId, session, faults, happened>>

NoSnapshot == [version |-> 0, state |-> <<>>]

(* A session: where its task that saves is, and where the one that makes a *)
(* snapshot is, and at which turn of its loop; the aggregate's Version,    *)
(* state and uncommitted changes; the Version it was tracked with; what    *)
(* was flushed and how much of that is saved; the snapshot that was made.  *)
Idle == [save |-> "idle", snap |-> "none", j |-> 0,
         version |-> 0, state |-> <<>>, changes |-> <<>>,
         expected |-> 0, flushed |-> <<>>, saved |-> 0, made |-> NoSnapshot]

Init ==
    /\ rows = [v \in Ids |-> 0]
    /\ snapshot = NoSnapshot
    /\ nextId = 1
    /\ session = [s \in Sessions |-> Idle]
    /\ faults = 0
    /\ happened = {}

(* The ways a call can end: answered; thrown before it ran; thrown after.  *)
Endings(call) ==
    {"answered"} \cup
    IF faults = MaxFaults THEN {}
    ELSE (IF call \in LostRequests THEN {"lost"} ELSE {})
         \cup (IF call \in LostReplies THEN {"unanswered"} ELSE {})
Ran(ending) == ending # "lost"
Answered(ending) == ending = "answered"
Count(ending) == faults' = IF Answered(ending) THEN faults ELSE faults + 1

(* What is worth remembering: a save failed whose snapshot was made or was *)
(* still to be; the changes were flushed between the two reads that make   *)
(* up the version of a snapshot; or before the loop that looks for one     *)
(* that is due had ended.                                                  *)
Marks == {"unsaved", "torn", "emptied"}
Note(marks) == happened' = happened \cup marks
Never(marks) == happened \cap marks = {}

(* EventStore.GetAsync: the versions after v, and the events, if none of  *)
(* them is missing.                                                        *)
VersionsAfter(v) == {k \in Ids : k > v /\ rows[k] # 0}
Contiguous(V, v) == \A k \in V : \A n \in (v + 1)..k : n \in V
EventsAfter(v) == [i \in 1..Cardinality(VersionsAfter(v)) |-> rows[v + i]]

-----------------------------------------------------------------------------
(* GetAsync: the snapshot is read and restored from, if there is one.      *)
Restore(s) ==
    /\ session[s].save = "idle"
    /\ session' = [session EXCEPT ![s].save = "replay",
                      ![s].version = snapshot.version, ![s].state = snapshot.state]
    /\ UNCHANGED <<rows, snapshot, nextId, faults, happened>>

(* Then the events after it, or all of them; LoadFromHistory throws if one *)
(* is missing.  Where there is neither, the application makes a new object.*)
Replay(s) ==
    LET v == session[s].version IN
    /\ session[s].save = "replay"
    /\ session' = IF Contiguous(VersionsAfter(v), v)
                  THEN [session EXCEPT ![s].save = "open",
                          ![s].state = @ \o EventsAfter(v),
                          ![s].version = v + Len(EventsAfter(v)),
                          ![s].expected = v + Len(EventsAfter(v))]
                  ELSE [session EXCEPT ![s] = Idle]
    /\ UNCHANGED <<rows, snapshot, nextId, faults, happened>>

(* ApplyChange.                                                            *)
Change(s) ==
    /\ session[s].save = "open"
    /\ nextId <= MaxIds /\ Len(session[s].changes) < MaxBatch
    /\ session' = [session EXCEPT ![s].state = Append(@, nextId),
                                  ![s].changes = Append(@, nextId)]
    /\ nextId' = nextId + 1
    /\ UNCHANGED <<rows, snapshot, faults, happened>>

(* The turn j of the loop of ShouldMakeSnapShot is for the version i: a    *)
(* snapshot is due; or it is if none exists.                               *)
IsDue(i) == i % SnapshotInterval = 0
Asks(i) == i >= SnapshotInterval

(* Mutant: the version is looked at before it is counted up.               *)
LookBehind(c, j) ==
    LET stops == {k \in j..(Len(c.changes) - 1) :
                     IsDue(c.expected + k) \/ Asks(c.expected + k)}
        first == CHOOSE k \in stops : \A n \in stops : k <= n
    IN  IF stops = {} THEN [c EXCEPT !.snap = "none"]
        ELSE IF IsDue(c.expected + first) THEN [c EXCEPT !.snap = "version"]
        ELSE [c EXCEPT !.snap = "exists", !.j = first]

(* ShouldMakeSnapShot of the session c from turn j: it goes on to the      *)
(* first turn that has it stop, with as many turns as there are changes by *)
(* then.                                                                   *)
Look(c, j) ==
    LET stops == {k \in j..(Len(c.changes) - 1) :
                     IsDue(c.expected + k + 1) \/ Asks(c.expected + k + 1)}
        first == CHOOSE k \in stops : \A n \in stops : k <= n
    IN  IF stops = {} THEN [c EXCEPT !.snap = "none"]
        ELSE IF IsDue(c.expected + first + 1) THEN [c EXCEPT !.snap = "version"]
        ELSE [c EXCEPT !.snap = "exists", !.j = first]

(* TryMakeSnapshot: the state with the Version, then the changes it had;   *)
(* the aggregate c is the session's as it is at each read.                 *)
WithVersion(c) ==
    [c EXCEPT !.snap = "length", !.made = [version |-> c.version, state |-> c.state]]

(* Mutant: the uncommitted changes are not counted.                        *)
WithoutLength(c) == [c EXCEPT !.snap = "store"]

(* Mutant: all events ever applied are counted.                            *)
WithAllLength(c) ==
    [c EXCEPT !.snap = "store", !.made.version = @ + Len(c.state)]

WithLength(c) ==
    [c EXCEPT !.snap = "store", !.made.version = @ + Len(c.changes)]

(* SaveAsync: TryMakeSnapshot is called first, and if it need not ask      *)
(* whether a snapshot exists it has made it before the save begins.        *)
Commit(s) ==
    /\ session[s].save = "open"
    /\ session' = [session EXCEPT ![s] =
                     LET c == Look([session[s] EXCEPT !.save = "check"], 0)
                     IN  IF c.snap = "version" THEN WithLength(WithVersion(c)) ELSE c]
    /\ UNCHANGED <<rows, snapshot, nextId, faults, happened>>

-----------------------------------------------------------------------------
(* The task that makes a snapshot.                                         *)

AskExists(s) ==
    /\ session[s].snap = "exists"
    /\ \E ending \in Endings("exists") :
         /\ session' = [session EXCEPT ![s] =
              IF ~Answered(ending) THEN [@ EXCEPT !.snap = "failed"]
              ELSE IF snapshot = NoSnapshot THEN [@ EXCEPT !.snap = "version"]
              ELSE Look(@, @.j + 1)]
         /\ Count(ending)
    /\ Note(IF session[s].flushed # <<>> THEN {"emptied"} ELSE {})
    /\ UNCHANGED <<rows, snapshot, nextId>>

ReadVersion(s) ==
    /\ session[s].snap = "version"
    /\ session' = [session EXCEPT ![s] = WithVersion(@)]
    /\ UNCHANGED <<rows, snapshot, nextId, faults, happened>>

ReadLength(s) ==
    /\ session[s].snap = "length"
    /\ session' = [session EXCEPT ![s] = WithLength(@)]
    /\ Note(IF session[s].version # session[s].made.version THEN {"torn"} ELSE {})
    /\ UNCHANGED <<rows, snapshot, nextId, faults>>

(* SnapshotStore.SaveAsync overwrites whatever snapshot is there.          *)
StoreSnapshot(s) ==
    /\ session[s].snap = "store"
    /\ \E ending \in Endings("store") :
         /\ snapshot' = IF Ran(ending) THEN session[s].made ELSE snapshot
         /\ session' = [session EXCEPT ![s].snap = IF Answered(ending) THEN "stored" ELSE "failed"]
         /\ Count(ending)
    /\ UNCHANGED <<rows, nextId, happened>>

-----------------------------------------------------------------------------
(* The task that saves: Repository.SaveAsync.                              *)

Fail(s) ==
    /\ session' = [session EXCEPT ![s].save = "failed"]
    /\ Note(IF session[s].snap = "none" THEN {} ELSE {"unsaved"})

(* The events after the expected version are read: if there are any it is  *)
(* a ConcurrencyException, otherwise the changes are flushed.              *)
Check(s) ==
    LET c == session[s] IN
    /\ c.save = "check"
    /\ \E ending \in Endings("check") :
         /\ IF ~Answered(ending) \/ VersionsAfter(c.expected) # {}
            THEN Fail(s)
            ELSE /\ session' = [session EXCEPT
                      ![s].save = IF c.changes = <<>> THEN "saved" ELSE "insert",
                      ![s].version = @ + Len(c.changes),
                      ![s].flushed = c.changes, ![s].changes = <<>>]
                 /\ UNCHANGED happened
         /\ Count(ending)
    /\ UNCHANGED <<rows, snapshot, nextId>>

(* Mutant: an event that could not be saved is skipped.                    *)
InsertSkipping(s) ==
    LET c == session[s]
        v == c.version - Len(c.flushed) + c.saved + 1
    IN
    /\ c.save = "insert"
    /\ \E ending \in Endings("insert") :
         /\ rows' = IF Ran(ending) /\ rows[v] = 0
                    THEN [rows EXCEPT ![v] = c.flushed[c.saved + 1]] ELSE rows
         /\ session' = [session EXCEPT ![s].saved = @ + 1,
                 ![s].save = IF c.saved + 1 = Len(c.flushed) THEN "saved" ELSE "insert"]
         /\ Count(ending)
    /\ UNCHANGED <<snapshot, nextId, happened>>

(* EventStore.SaveAsync, one event: it throws if its version is taken.     *)
Insert(s) ==
    LET c == session[s]
        v == c.version - Len(c.flushed) + c.saved + 1
    IN
    /\ c.save = "insert"
    /\ \E ending \in Endings("insert") :
         /\ rows' = IF Ran(ending) /\ rows[v] = 0
                    THEN [rows EXCEPT ![v] = c.flushed[c.saved + 1]] ELSE rows
         /\ IF Answered(ending) /\ rows[v] = 0
            THEN /\ session' = [session EXCEPT ![s].saved = @ + 1,
                      ![s].save = IF c.saved + 1 = Len(c.flushed) THEN "saved" ELSE "insert"]
                 /\ UNCHANGED happened
            ELSE Fail(s)
         /\ Count(ending)
    /\ UNCHANGED <<snapshot, nextId>>

-----------------------------------------------------------------------------
(* Task.WhenAll: CommitAsync returns or throws when both tasks have ended. *)
Ended(s) ==
    /\ session[s].save \in {"saved", "failed"}
    /\ session[s].snap \in {"none", "stored", "failed"}

Return(s) ==
    /\ Ended(s)
    /\ session' = [session EXCEPT ![s] = Idle]
    /\ UNCHANGED <<rows, snapshot, nextId, faults, happened>>

Step(s) ==
    \/ Restore(s) \/ Replay(s) \/ Change(s) \/ Commit(s)
    \/ AskExists(s) \/ ReadVersion(s) \/ ReadLength(s) \/ StoreSnapshot(s)
    \/ Check(s) \/ Insert(s) \/ Return(s)

Next == \E s \in Sessions : Step(s)

Spec == Init /\ [][Next]_vars

-----------------------------------------------------------------------------
Saving(s) == session[s].save \in {"check", "insert"}
Settled == \A s \in Sessions : ~Saving(s)

(* The type invariant; no session saves more than it flushed.              *)
TypeOK ==
    /\ rows \in [Ids -> Ids \cup {0}]
    /\ snapshot.version \in 0..MaxIds /\ snapshot.state \in Seq(Ids)
    /\ nextId \in 1..(MaxIds + 1)
    /\ \A s \in Sessions : LET c == session[s] IN
         /\ c.save \in {"idle", "replay", "open", "check", "insert", "saved", "failed"}
         /\ c.snap \in {"none", "exists", "version", "length", "store", "stored", "failed"}
         /\ c.version \in 0..MaxIds /\ c.expected \in 0..MaxIds
         /\ c.state \in Seq(Ids) /\ c.changes \in Seq(Ids) /\ c.flushed \in Seq(Ids)
         /\ c.saved \in 0..Len(c.flushed)
         /\ c.j \in 0..MaxBatch
    /\ faults \in 0..MaxFaults
    /\ happened \subseteq Marks

(* The event s is still going to store under the version k.                *)
Coming(s, k, id) ==
    LET c == session[s]
        batch == c.flushed \o c.changes
    IN  /\ Saving(s)
        /\ k \in (c.expected + c.saved + 1)..(c.expected + Len(batch))
        /\ batch[k - c.expected] = id

(* What a snapshot holds is what the events up to its version make, where  *)
(* events that are still being stored count; as long as no save failed     *)
(* beside its snapshot and no snapshot was torn by a flush: SaveAsync and  *)
(* TryMakeSnapshot.                                                        *)
SnapshotIsReplay ==
    Never({"unsaved", "torn"}) =>
        /\ Len(snapshot.state) = snapshot.version
        /\ \A k \in 1..snapshot.version :
             \/ rows[k] = snapshot.state[k]
             \/ \E s \in Sessions : Coming(s, k, snapshot.state[k])

(* No event is applied twice to an aggregate, however it was loaded, as    *)
(* long as no snapshot was torn: snapshot.Version in TryMakeSnapshot and   *)
(* the filter of GetAsync.                                                 *)
AppliedOnce ==
    Never({"torn"}) => \A s \in Sessions : IsInjective(session[s].state)

(* When nothing is being saved the stream has no hole, unless a save       *)
(* failed beside its snapshot: then a session that restores the aggregate  *)
(* from that continues from a version that was never stored, and from then *)
(* on the events alone cannot be replayed.                                 *)
StreamHasNoHole ==
    Settled /\ Never({"unsaved"}) => Contiguous(VersionsAfter(0), 0)

(* A commit that went past a version a snapshot is due at has stored one,  *)
(* unless the loop that looks for it waited for an answer and found the    *)
(* changes flushed: ShouldMakeSnapShot.                                    *)
DueIsStored ==
    \A s \in Sessions :
        LET c == session[s] IN
        /\ Ended(s) /\ c.save = "saved" /\ c.snap # "failed"
        /\ \E k \in DOMAIN c.flushed : IsDue(c.expected + k)
        /\ Never({"emptied"})
        => c.snap = "stored"

(* Snapshot: "A memento object of a aggregate in a version."  Refuted: a   *)
(* commit that is refused leaves its snapshot behind.                      *)
MementoOfAVersion ==
    Settled =>
        /\ Len(snapshot.state) = snapshot.version
        /\ \A k \in 1..snapshot.version : rows[k] = snapshot.state[k]
=============================================================================
