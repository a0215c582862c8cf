--------------------------- MODULE CacheRepository ---------------------------
(***************************************************************************)
(* Sessions of one process that load one aggregate through                 *)
(* CacheRepository.GetAsync, change it and commit it through               *)
(* CacheRepository.SaveAsync, over Repository and either cache: MemoryCache*)
(* alone, or RedisCache, which keeps a serialized copy beside it and calls *)
(* Redis for that: these calls fail like those of the event store.         *)
(*                                                                         *)
(* What the cache keeps is the object itself, so that sessions share it.   *)
(* A lock per aggregate, kept in a dictionary until the aggregate's entry  *)
(* leaves the cache, is meant to have one caller inside at a time.  One    *)
(* action is one awaited call, with the code that runs up to the next.     *)
(* RedisClient's own retries are part of a call: what fails is the last.   *)
(* The event store is as in SnapshotRepository; so are states and ids.     *)
(* An object has the name of the session that made it.                     *)
(***************************************************************************)
EXTENDS Naturals, Sequences, FiniteSets

CONSTANTS
    Sessions,      \* of this process, each for one load
    MaxIds,        \* bound: events ever made
    CacheChoices,  \* whether RedisCache is used: what an application chooses from
    MaxExpiries,   \* bound: entries that expire in the caches
    MaxCallbacks,  \* bound: eviction callbacks that wait to be run
    LostRequests,  \* calls that may throw without having run
    LostReplies,   \* calls that may run and throw all the same
    MaxFaults      \* bound: calls that throw

(* Of the event store; and of Redis, by RedisCache.                        *)
Calls == {"query", "insert"} \cup {"exists", "set", "get", "expire", "delete"}

ASSUME BoundsAssumption ==
    MaxIds \in Nat /\ MaxExpiries \in Nat /\ MaxCallbacks \in Nat /\ MaxFaults \in Nat
ASSUME SessionsAssumption == IsFiniteSet(Sessions)
ASSUME NamesAssumption == "none" \notin Sessions /\ "null" \notin Sessions
ASSUME ChoicesAssumption == CacheChoices \subseteq BOOLEAN
ASSUME FaultsAssumption == LostRequests \subseteq Calls /\ LostReplies \subseteq Calls

Ids == 1..MaxIds
Locks == 1..(Cardinality(Sessions) + 1)

VARIABLES
    rows,      \* the event store: the event stored under each version, or 0
    nextId,    \* the next event's id
    object,    \* the heap: the aggregate made by each session
    session,   \* what each session does and holds
    cached,    \* MemoryCache: an object, "null", or "none" for no entry
    copy,      \* Redis: the object RedisCache serialized last
    useRedis,  \* the cache is a RedisCache
    lock,      \* Locks: the aggregate's semaphore, or 0
    callbacks, \* eviction callbacks that have yet to run
    expiries,  \* entries that have expired
    faults,    \* calls that have thrown
    acked,     \* history: changes of sessions whose CommitAsync returned
    happened   \* history: the circumstances a promise depends on, see Marks

store == <<rows, nextId>>
caches == <<cached, copy, callbacks>>
bounds == <<expiries, faults>>
vars == <<store, object, session, caches, useRedis, lock, bounds, acked, happened>>

(* An aggregate; history: a save flushed it and threw.                     *)
NewObject == [version |-> 0, state |-> <<>>, changes |-> <<>>, broken |-> FALSE]

(* A session: where it is, in GetAsync or SaveAsync; the lock it waits for *)
(* or holds; its object; the Version it read or tracks it with; what it    *)
(* flushed and how much of that is saved.  History: the changes it made.   *)
Fresh == [pc |-> "new", op |-> "get", lock |-> 0, obj |-> "none",
          version |-> 0, flushed |-> <<>>, saved |-> 0, own |-> {}]

(* What Redis has; history: it is of an object a save of which had thrown. *)
NoCopy == [there |-> FALSE, version |-> 0, state |-> <<>>, broken |-> FALSE]

Init ==
    /\ rows = [v \in Ids |-> 0] /\ nextId = 1
    /\ object = [s \in Sessions |-> NewObject]
    /\ session = [s \in Sessions |-> Fresh]
    /\ cached = "none" /\ copy = NoCopy /\ callbacks = 0
    /\ useRedis \in CacheChoices
    /\ lock = 0
    /\ expiries = 0 /\ faults = 0
    /\ acked = {} /\ happened = {}

(* The ways a call can end: answered; thrown before it ran; thrown after.  *)
Endings(call) ==
    {"answered"} \cup
    IF faults = MaxFaults THEN {}
    ELSE (IF call \in LostRequests THEN {"lost"} ELSE {})
         \cup (IF call \in LostReplies THEN {"unanswered"} ELSE {})
Ran(ending) == ending # "lost"
Answered(ending) == ending = "answered"
Count(ending) ==
    /\ faults' = IF Answered(ending) THEN faults ELSE faults + 1
    /\ UNCHANGED expiries

(* MemoryCache makes no call that can fail.                                *)
CacheEndings(call) == IF useRedis THEN Endings(call) ELSE {"answered"}

(* What is worth remembering: a lock left the dictionary while it was in   *)
(* use; events were loaded into an object with uncommitted changes; an     *)
(* object was serialized with them; a commit flushed those of another      *)
(* session; an object was saved again after a save of it had failed; the   *)
(* copy of such an object could not be deleted when that save failed too.  *)
Marks == {"evicted", "mixed", "copied", "taken", "reused", "kept"}
Note(marks) == happened' = happened \cup marks
Never(marks) == happened \cap marks = {}

At(s, pc) == session[s].pc = pc
Goto(s, pc) == session' = [session EXCEPT ![s].pc = pc]

(* Inside GetAsync or SaveAsync, with the semaphore.                       *)
Inside(s) == session[s].pc \in {"tracked", "get", "catchup", "discard", "load", "put",
                                "check", "insert", "catch"}

(* EventStore.GetAsync: the versions after v, and the events, if none of  *)
(* them is missing.                                                        *)
VersionsAfter(v) == {k \in Ids : k > v /\ rows[k] # 0}
Contiguous(V, v) == \A k \in V : \A n \in (v + 1)..k : n \in V
EventsAfter(v) == [i \in 1..Cardinality(VersionsAfter(v)) |-> rows[v + i]]

-----------------------------------------------------------------------------
(* The caches.  MemoryCache calls back, on some thread, whenever an entry  *)
(* has left it: removed, replaced or expired.  RedisCache registers no     *)
(* callback with the MemoryCache it wraps.                                 *)
Leaves ==
    callbacks' = IF cached # "none" /\ ~useRedis /\ callbacks < MaxCallbacks
                 THEN callbacks + 1 ELSE callbacks

(* Remove: the entry in memory goes whatever becomes of the one in Redis.  *)
Remove(ending) ==
    /\ cached' = "none" /\ Leaves
    /\ copy' = IF Ran(ending) THEN NoCopy ELSE copy

(* Set(id, object o): likewise.                                            *)
SetTo(o, ending) ==
    /\ cached' = o /\ Leaves
    /\ copy' = IF useRedis /\ Ran(ending)
               THEN [there |-> TRUE, version |-> object[o].version, state |-> object[o].state,
                     broken |-> object[o].broken]
               ELSE copy

(* Set(id, null): RedisCache does nothing.                                 *)
SetNull ==
    IF useRedis THEN UNCHANGED caches ELSE cached' = "null" /\ Leaves /\ UNCHANGED copy

IsTracked == cached # "none" \/ copy # NoCopy

Expire ==
    /\ expiries < MaxExpiries
    /\ expiries' = expiries + 1
    /\ \/ cached # "none" /\ cached' = "none" /\ Leaves /\ UNCHANGED copy
       \/ copy # NoCopy /\ copy' = NoCopy /\ UNCHANGED <<cached, callbacks>>
    /\ UNCHANGED <<store, object, session, useRedis, lock, faults, acked, happened>>

(* The callback of the constructor: Locks.TryRemove.                       *)
RunCallback ==
    /\ callbacks > 0
    /\ callbacks' = callbacks - 1
    /\ lock' = 0
    /\ Note(IF \E s \in Sessions : lock # 0 /\ session[s].lock = lock THEN {"evicted"} ELSE {})
    /\ UNCHANGED <<store, object, session, cached, copy, useRedis, bounds, acked>>

(* A session of another process stores an event.                           *)
Elsewhere ==
    /\ nextId <= MaxIds
    /\ LET last == CHOOSE v \in 0..MaxIds :
                     (v = 0 \/ rows[v] # 0) /\ \A k \in VersionsAfter(0) : k <= v
       IN  last < MaxIds /\ rows' = [rows EXCEPT ![last + 1] = nextId]
    /\ nextId' = nextId + 1
    /\ UNCHANGED <<object, session, caches, useRedis, lock, bounds, acked, happened>>

-----------------------------------------------------------------------------
(* The lock.                                                               *)

(* Mutant: every caller makes a semaphore of its own.                      *)
AddAlways == CHOOSE l \in Locks : \A s \in Sessions : session[s].lock # l

(* Locks.GetOrAdd: a semaphore that nobody uses is as good as a new one.   *)
GetOrAdd == IF lock # 0 THEN lock
            ELSE CHOOSE l \in Locks : \A s \in Sessions : session[s].lock # l

Enter(s, op) ==
    /\ session' = [session EXCEPT ![s].pc = "wait", ![s].op = op, ![s].lock = GetOrAdd]
    /\ lock' = GetOrAdd

Acquire(s) ==
    /\ At(s, "wait")
    /\ \A t \in Sessions : Inside(t) => session[t].lock # session[s].lock
    /\ Goto(s, "tracked")
    /\ UNCHANGED <<store, object, caches, useRedis, lock, bounds, acked, happened>>

(* The finally: Release.                                                   *)
Release(s) ==
    session' = [session EXCEPT ![s] =
                  IF @.op = "save"
                  THEN [Fresh EXCEPT !.pc = "failed", !.obj = session[s].obj, !.own = session[s].own]
                  ELSE [Fresh EXCEPT !.pc = "done"]]

(* Mutant: the semaphore is not released.                                  *)
CatchHolding(s) ==
    /\ At(s, "catch")
    /\ \E ending \in CacheEndings("delete") :
         /\ Remove(ending)
         /\ session' = [session EXCEPT ![s].pc = IF session[s].op = "save" THEN "failed" ELSE "done"]
         /\ Note(IF ~Ran(ending) /\ copy.broken THEN {"kept"} ELSE {})
         /\ Count(ending)
    /\ UNCHANGED <<store, object, useRedis, lock, acked>>

(* Mutant: the entry stays in the cache.                                   *)
CatchKeeping(s) ==
    /\ At(s, "catch")
    /\ Release(s)
    /\ UNCHANGED <<store, object, caches, useRedis, lock, bounds, acked, happened>>

(* The catch: the entry is removed before the exception goes on, or the    *)
(* one of its removal does.                                                *)
Catch(s) ==
    /\ At(s, "catch")
    /\ \E ending \in CacheEndings("delete") :
         /\ Remove(ending)
         /\ Release(s)
         /\ Note(IF ~Ran(ending) /\ copy.broken THEN {"kept"} ELSE {})
         /\ Count(ending)
    /\ UNCHANGED <<store, object, useRedis, lock, acked>>

-----------------------------------------------------------------------------
(* GetAsync, by Session.GetAsync, which tracks what it returns.            *)

StartGet(s) ==
    /\ At(s, "new")
    /\ Enter(s, "get")
    /\ UNCHANGED <<store, object, caches, useRedis, bounds, acked, happened>>

GetIsTracked(s) ==
    /\ At(s, "tracked") /\ session[s].op = "get"
    /\ \E ending \in CacheEndings("exists") :
         /\ Goto(s, IF ~Answered(ending) THEN "catch" ELSE IF IsTracked THEN "get" ELSE "load")
         /\ Count(ending)
    /\ UNCHANGED <<store, object, caches, useRedis, lock, acked, happened>>

(* The object in memory.                                                   *)
GetObject(s) ==
    /\ At(s, "get") /\ cached \in Sessions
    /\ session' = [session EXCEPT ![s].pc = "catchup", ![s].obj = cached,
                                  ![s].version = object[cached].version]
    /\ UNCHANGED <<store, object, caches, useRedis, lock, bounds, acked, happened>>

(* RedisCache.Get makes a new object of its copy and keeps it in memory,   *)
(* whether or not the copy's expiry can be put off.                        *)
GetCopy(s) ==
    /\ At(s, "get") /\ cached \notin Sessions /\ copy # NoCopy
    /\ object' = [object EXCEPT ![s] =
                     [NewObject EXCEPT !.version = copy.version, !.state = copy.state]]
    /\ cached' = s /\ Leaves /\ UNCHANGED copy
    /\ \E ending \in CacheEndings("expire") :
         /\ session' = [session EXCEPT ![s].pc = IF Answered(ending) THEN "catchup" ELSE "catch",
                                       ![s].obj = s, ![s].version = copy.version]
         /\ Count(ending)
    /\ UNCHANGED <<store, useRedis, lock, acked, happened>>

(* The copy cannot be read; or the entry has gone since, or holds null:    *)
(* then the Version of null is asked for.                                  *)
GetNothing(s) ==
    /\ At(s, "get") /\ cached \notin Sessions
    /\ \E ending \in CacheEndings("get") :
         /\ Answered(ending) => copy = NoCopy
         /\ Goto(s, "catch")
         /\ Count(ending)
    /\ UNCHANGED <<store, object, caches, useRedis, lock, acked, happened>>

(* The events after the object's version are loaded into it, whoever else  *)
(* holds it; or if the first is not the next, it is loaded anew.  (That a  *)
(* later one is missing throws with those before it loaded; the stream has *)
(* a hole then.)                                                           *)
CatchUp(s) ==
    LET o == session[s].obj
        from == session[s].version
        versions == VersionsAfter(from)
        events == EventsAfter(from)
        IsFirst(v) == v \in versions /\ \A n \in versions : v <= n
    IN
    /\ At(s, "catchup")
    /\ \E ending \in Endings("query") :
         /\ IF ~Answered(ending) THEN Goto(s, "catch") /\ UNCHANGED <<object, happened>>
            ELSE IF versions # {} /\ ~IsFirst(object[o].version + 1)
            THEN Goto(s, "discard") /\ UNCHANGED <<object, happened>>
            ELSE IF ~Contiguous(versions, from)
            THEN Goto(s, "catch") /\ UNCHANGED <<object, happened>>
            ELSE /\ object' = [object EXCEPT ![o].version = @ + Len(events),
                                             ![o].state = @ \o events]
                 /\ session' = [session EXCEPT ![s].pc = "open", ![s].lock = 0,
                                  ![s].version = object[o].version + Len(events)]
                 /\ Note(IF versions # {} /\ object[o].changes # <<>> THEN {"mixed"} ELSE {})
         /\ Count(ending)
    /\ UNCHANGED <<store, caches, useRedis, lock, acked>>

(* The entry that has missed events is removed.                            *)
Discard(s) ==
    /\ At(s, "discard")
    /\ \E ending \in CacheEndings("delete") :
         /\ Remove(ending)
         /\ Goto(s, IF Answered(ending) THEN "load" ELSE "catch")
         /\ Count(ending)
    /\ UNCHANGED <<store, object, useRedis, lock, acked, happened>>

(* Repository.GetAsync: null if there are no events; then the application  *)
(* makes an object of its own and adds it to the session.                  *)
Load(s) ==
    LET loaded == [NewObject EXCEPT !.version = Len(EventsAfter(0)), !.state = EventsAfter(0)] IN
    /\ At(s, "load")
    /\ \E ending \in Endings("query") :
         /\ IF ~Answered(ending) \/ ~Contiguous(VersionsAfter(0), 0)
            THEN Goto(s, "catch") /\ UNCHANGED object
            ELSE /\ object' = [object EXCEPT ![s] = loaded]
                 /\ session' = [session EXCEPT ![s].pc = "put", ![s].obj = s,
                                               ![s].version = loaded.version]
         /\ Count(ending)
    /\ UNCHANGED <<store, caches, useRedis, lock, acked, happened>>

(* What GetAsync loaded, or what SaveAsync is about to save, is kept.      *)
Put(s) ==
    LET o == session[s].obj
        gets == session[s].op = "get"
        isNull == gets /\ object[o].version = 0
    IN
    /\ At(s, "put")
    /\ \E ending \in IF isNull THEN {"answered"} ELSE CacheEndings("set") :
         /\ IF isNull THEN SetNull ELSE SetTo(o, ending)
         /\ IF Answered(ending) /\ gets
            THEN session' = [session EXCEPT ![s].pc = "open", ![s].lock = 0]
            ELSE Goto(s, IF Answered(ending) THEN "check" ELSE "catch")
         /\ Note(IF useRedis /\ Ran(ending) /\ object[o].changes # <<>> THEN {"copied"} ELSE {})
         /\ Count(ending)
    /\ UNCHANGED <<store, object, useRedis, lock, acked>>

-----------------------------------------------------------------------------
(* The application between GetAsync and CommitAsync: ApplyChange.          *)
Change(s) ==
    LET o == session[s].obj IN
    /\ At(s, "open")
    /\ nextId <= MaxIds
    /\ object' = [object EXCEPT ![o].state = Append(@, nextId), ![o].changes = Append(@, nextId)]
    /\ session' = [session EXCEPT ![s].own = @ \cup {nextId}]
    /\ nextId' = nextId + 1
    /\ UNCHANGED <<rows, caches, useRedis, lock, bounds, acked, happened>>

(* After a commit that threw, nothing is tracked; the application may add  *)
(* the object it still has to a session again.                             *)
AddAgain(s) ==
    /\ At(s, "failed")
    /\ session' = [session EXCEPT ![s].pc = "open", ![s].version = object[session[s].obj].version]
    /\ UNCHANGED <<store, object, caches, useRedis, lock, bounds, acked, happened>>

-----------------------------------------------------------------------------
(* SaveAsync, by Session.CommitAsync, with the Version that was tracked.   *)

StartSave(s) ==
    /\ At(s, "open")
    /\ Enter(s, "save")
    /\ UNCHANGED <<store, object, caches, useRedis, bounds, acked, happened>>

(* An aggregate that is not in the cache is put there before it is saved.  *)
SaveIsTracked(s) ==
    /\ At(s, "tracked") /\ session[s].op = "save"
    /\ \E ending \in CacheEndings("exists") :
         /\ Goto(s, IF ~Answered(ending) THEN "catch" ELSE IF IsTracked THEN "check" ELSE "put")
         /\ Count(ending)
    /\ UNCHANGED <<store, object, caches, useRedis, lock, acked, happened>>

(* CommitAsync returns.                                                    *)
Return(s) ==
    /\ session' = [session EXCEPT ![s] = [Fresh EXCEPT !.pc = "done"]]
    /\ acked' = acked \cup session[s].own

(* Repository.SaveAsync: the version check and the flush.                  *)
Check(s) ==
    LET o == session[s].obj
        batch == object[o].changes
    IN
    /\ At(s, "check")
    /\ \E ending \in Endings("query") :
         /\ IF ~Answered(ending) \/ VersionsAfter(session[s].version) # {}
            THEN Goto(s, "catch") /\ UNCHANGED <<object, acked, happened>>
            ELSE /\ object' = [object EXCEPT ![o].changes = <<>>,
                                             ![o].version = @ + Len(batch)]
                 /\ IF batch = <<>> THEN Return(s)
                    ELSE /\ session' = [session EXCEPT ![s].pc = "insert", ![s].flushed = batch,
                                          ![s].version = object[o].version]
                         /\ UNCHANGED acked
                 /\ Note((IF \E i \in DOMAIN batch : batch[i] \notin session[s].own
                          THEN {"taken"} ELSE {})
                         \cup (IF object[o].broken THEN {"reused"} ELSE {}))
         /\ Count(ending)
    /\ UNCHANGED <<store, caches, useRedis, lock>>

(* Mutant: an event that could not be saved is skipped.                    *)
InsertSkipping(s) ==
    LET n == session[s].saved + 1
        v == session[s].version + n
    IN
    /\ At(s, "insert")
    /\ \E ending \in Endings("insert") :
         /\ rows' = IF Ran(ending) /\ rows[v] = 0
                    THEN [rows EXCEPT ![v] = session[s].flushed[n]] ELSE rows
         /\ IF n = Len(session[s].flushed) THEN Return(s)
            ELSE session' = [session EXCEPT ![s].saved = n] /\ UNCHANGED acked
         /\ Count(ending)
    /\ UNCHANGED <<nextId, object, caches, useRedis, lock, happened>>

(* EventStore.SaveAsync, one event: it throws if its version is taken.     *)
Insert(s) ==
    LET o == session[s].obj
        n == session[s].saved + 1
        v == session[s].version + n
    IN
    /\ At(s, "insert")
    /\ \E ending \in Endings("insert") :
         /\ rows' = IF Ran(ending) /\ rows[v] = 0
                    THEN [rows EXCEPT ![v] = session[s].flushed[n]] ELSE rows
         /\ IF ~Answered(ending) \/ rows[v] # 0
            THEN /\ Goto(s, "catch")
                 /\ object' = [object EXCEPT ![o].broken = TRUE]
                 /\ UNCHANGED acked
            ELSE /\ IF n = Len(session[s].flushed) THEN Return(s)
                    ELSE session' = [session EXCEPT ![s].saved = n] /\ UNCHANGED acked
                 /\ UNCHANGED object
         /\ Count(ending)
    /\ UNCHANGED <<nextId, caches, useRedis, lock, happened>>

-----------------------------------------------------------------------------
Get(s) == GetObject(s) \/ GetCopy(s) \/ GetNothing(s)
GetAsync(s) ==
    StartGet(s) \/ GetIsTracked(s) \/ Get(s) \/ CatchUp(s) \/ Discard(s) \/ Load(s)
SaveAsync(s) == StartSave(s) \/ SaveIsTracked(s) \/ Check(s) \/ Insert(s)

Next ==
    \/ Expire \/ RunCallback \/ Elsewhere
    \/ \E s \in Sessions :
         \/ Acquire(s) \/ GetAsync(s) \/ SaveAsync(s) \/ Put(s) \/ Catch(s)
         \/ Change(s) \/ AddAgain(s)

Spec == Init /\ [][Next]_vars

-----------------------------------------------------------------------------
Aggregate == [version : 0..MaxIds, state : Seq(Ids), changes : Seq(Ids), broken : BOOLEAN]

(* The type invariant; a session uses a lock when it waits and when it is  *)
(* inside, and then only.                                                  *)
TypeOK ==
    /\ rows \in [Ids -> Ids \cup {0}] /\ nextId \in 1..(MaxIds + 1)
    /\ object \in [Sessions -> Aggregate]
    /\ \A s \in Sessions : LET c == session[s] IN
         /\ At(s, "wait") \/ Inside(s) \/ c.pc \in {"new", "open", "done", "failed"}
         /\ c.op \in {"get", "save"} /\ c.obj \in Sessions \cup {"none"}
         /\ c.lock \in Locks \cup {0}
         /\ c.lock # 0 <=> At(s, "wait") \/ Inside(s)
         /\ c.version \in 0..MaxIds /\ c.flushed \in Seq(Ids)
         /\ c.saved \in 0..Len(c.flushed) /\ c.own \subseteq Ids
    /\ cached \in Sessions \cup {"none", "null"}
    /\ copy.version \in 0..MaxIds /\ copy.state \in Seq(Ids)
    /\ useRedis \in BOOLEAN /\ lock \in Locks \cup {0}
    /\ callbacks \in 0..MaxCallbacks /\ expiries \in 0..MaxExpiries /\ faults \in 0..MaxFaults
    /\ acked \subseteq Ids /\ happened \subseteq Marks

(* One caller at a time is inside GetAsync or SaveAsync of the aggregate,  *)
(* as long as the eviction callback takes no lock that is in use: Locks.   *)
LockExcludes ==
    Never({"evicted"}) => \A s, t \in Sessions : Inside(s) /\ Inside(t) => s = t

(* What the cache would give the next caller is what the stored events     *)
(* make, and then the changes not committed yet, whichever calls of the    *)
(* event store and of Redis have failed; when nobody is inside, as long as *)
(* no events were loaded beside uncommitted changes, no such changes were  *)
(* serialized, and what had been left of an object by a failed save was    *)
(* neither saved again nor left in Redis: CacheRepository, with            *)
(* LoadFromHistory.                                                        *)
CachedIsReplay ==
    /\ \A s \in Sessions : ~Inside(s)
    /\ Never({"mixed", "copied", "reused", "kept"})
    => LET Made(o) == [i \in 1..o.version |-> rows[i]] IN
       /\ cached \in Sessions =>
            object[cached].state = Made(object[cached]) \o object[cached].changes
       /\ copy.state = Made(copy)

(* The stream has no hole at any time, unless an object was saved again    *)
(* after a save of it had failed, which moved its Version and cleared its  *)
(* changes (FlushUncommitedChanges), or a copy of it stayed in Redis, or   *)
(* the eviction callback let two sessions in.                              *)
StreamHasNoHole ==
    Never({"evicted", "reused", "kept"}) => Contiguous(VersionsAfter(0), 0)

(* A CommitAsync that returned has stored the changes its session made,    *)
(* also when commits before it had thrown; unless the commit of another    *)
(* session flushed them, which can fail on its own account (GetAsync hands *)
(* out one object to both), or the commit that threw had.                  *)
AckedIsStored ==
    Never({"taken", "reused"}) => acked \subseteq {rows[v] : v \in Ids}
=============================================================================
