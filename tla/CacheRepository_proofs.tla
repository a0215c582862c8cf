------------------------- MODULE CacheRepository_proofs -------------------------
(***************************************************************************)
(* What CacheRepository keeps, for any number of sessions, events, expiries*)
(* and callbacks, either cache and any set of faults.                      *)
(*                                                                         *)
(* One session at a time is inside GetAsync or SaveAsync, as long as the   *)
(* eviction callback takes no semaphore in use: a semaphore always has one *)
(* holder, and what may go wrong is that sessions do not have the same one *)
(* (LockInv).  An event waits in one object until a commit flushes it      *)
(* (ApartInv), so that no version is beyond the number of events that have *)
(* stopped waiting (VersionInv).  On these rest what is acknowledged       *)
(* (AckInv), the order of the stream (HoleInv) and what the caches hold    *)
(* (ReplayInv).                                                            *)
(***************************************************************************)
EXTENDS CacheRepository, FiniteSetTheorems, WellFoundedInduction, TLAPS

Using(s) == At(s, "wait") \/ Inside(s)

(* What a session is made of.                                              *)
Shaped(c) ==
    /\ c = [f \in DOMAIN c |-> c[f]]
    /\ DOMAIN c = {"pc", "op", "lock", "obj", "version", "flushed", "saved", "own"}

FormInv ==
    /\ session = [s \in Sessions |-> session[s]]
    /\ \A s \in Sessions : Shaped(session[s])

(* One session holds a semaphore.                                          *)
HolderInv ==
    \A s, t \in Sessions :
        Inside(s) /\ Inside(t) /\ s # t => session[s].lock # session[t].lock

(* Who waits for or holds a semaphore has the one in the dictionary.       *)
SameInv ==
    Never({"evicted"}) =>
        \A s \in Sessions : Using(s) => session[s].lock = lock /\ lock # 0

LockInv == FormInv /\ HolderInv /\ SameInv

-----------------------------------------------------------------------------
(* There are more semaphores than sessions, so that one is free.           *)
LEMMA FreeLock == GetOrAdd # 0 /\ (lock \in Locks \cup {0} => GetOrAdd \in Locks)
<1>1. CASE lock # 0
  BY <1>1 DEF GetOrAdd
<1>2. CASE lock = 0
  <2> DEFINE n == Cardinality(Sessions)
  <2>1. n \in Nat /\ IsFiniteSet(Locks) /\ Cardinality(Locks) = n + 1
    <3>1. n \in Nat
      BY SessionsAssumption, FS_CardinalityType
    <3> HIDE DEF n
    <3>2. IsFiniteSet(1..(n + 1)) /\ Cardinality(1..(n + 1)) = n + 1
      BY <3>1, FS_Interval
    <3> QED
      BY <3>1, <3>2 DEF Locks, n
  <2>2. \E l \in Locks : \A s \in Sessions : session[s].lock # l
    <3> SUFFICES ASSUME \A l \in Locks : \E s \in Sessions : session[s].lock = l
                 PROVE  FALSE
      OBVIOUS
    <3> DEFINE holder == [l \in Locks |-> CHOOSE s \in Sessions : session[s].lock = l]
    <3>1. \A l \in Locks : holder[l] \in Sessions /\ session[holder[l]].lock = l
      OBVIOUS
    <3>2. holder \in [Locks -> Sessions]
      BY <3>1
    <3> HIDE DEF holder
    <3>3. \E k, l \in Locks : k # l /\ holder[k] = holder[l]
      BY <2>1, <3>2, SessionsAssumption, FS_PigeonHole
    <3> QED
      BY <3>1, <3>3
  <2>3. GetOrAdd \in Locks
    BY <1>2, <2>2 DEF GetOrAdd
  <2> QED
    BY <2>3 DEF Locks
<1> QED
  BY <1>1, <1>2

LEMMA InitLockInv == Init => LockInv
BY DEF Init, Fresh, LockInv, FormInv, Shaped, HolderInv, SameInv, Using, At, Inside

(* A session that is inside goes on with its semaphore, or one that is     *)
(* neither waiting nor inside does something else, or a session leaves.    *)
LEMMA OneSession ==
  ASSUME LockInv, NEW s \in Sessions, NEW d, Shaped(d), session' = [session EXCEPT ![s] = d],
         lock' = lock, happened \subseteq happened',
         \/ Inside(s) /\ d.lock = session[s].lock /\ d.pc # "wait"
         \/ d.pc \in {"new", "open", "done", "failed"}
  PROVE  LockInv'
<1>1. session'[s] = d /\ \A t \in Sessions : t # s => session'[t] = session[t]
  BY DEF LockInv, FormInv
<1>2. FormInv'
  BY <1>1 DEF LockInv, FormInv
<1>3. HolderInv'
  BY <1>1 DEF LockInv, HolderInv, Inside
<1>4. SameInv'
  BY <1>1 DEF LockInv, SameInv, Never, Using, At, Inside
<1> QED
  BY <1>2, <1>3, <1>4 DEF LockInv

-----------------------------------------------------------------------------
(* The lock.                                                               *)

LEMMA EnterLockInv ==
  ASSUME LockInv, NEW s \in Sessions, NEW op, Enter(s, op), UNCHANGED happened, ~Using(s)
  PROVE  LockInv'
<1> DEFINE d == [session[s] EXCEPT !.pc = "wait", !.op = op, !.lock = GetOrAdd]
<1>1. session' = [session EXCEPT ![s] = d] /\ lock' = GetOrAdd
  BY DEF Enter
<1>2. Shaped(d) /\ d.pc = "wait" /\ d.lock = GetOrAdd
  BY DEF LockInv, FormInv, Shaped
<1> HIDE DEF d
<1>3. session'[s] = d /\ \A t \in Sessions : t # s => session'[t] = session[t]
  BY <1>1 DEF LockInv, FormInv
<1>4. FormInv'
  BY <1>1, <1>2, <1>3 DEF LockInv, FormInv
<1>5. HolderInv'
  BY <1>1, <1>2, <1>3 DEF LockInv, HolderInv, Inside
<1>6. SameInv'
  <2>1. lock # 0 => GetOrAdd = lock
    BY DEF GetOrAdd
  <2> QED
    BY <1>1, <1>2, <1>3, <2>1, FreeLock DEF LockInv, SameInv, Never, Using, At, Inside
<1> QED
  BY <1>4, <1>5, <1>6 DEF LockInv

LEMMA AcquireLockInv == ASSUME LockInv, NEW s \in Sessions, Acquire(s) PROVE LockInv'
<1> DEFINE d == [session[s] EXCEPT !.pc = "tracked"]
<1>1. /\ session' = [session EXCEPT ![s] = d] /\ UNCHANGED <<lock, happened>>
      /\ session[s].pc = "wait"
      /\ \A t \in Sessions : Inside(t) => session[t].lock # session[s].lock
  BY DEF Acquire, Goto, At
<1>2. Shaped(d) /\ d.pc = "tracked" /\ d.lock = session[s].lock
  BY DEF LockInv, FormInv, Shaped
<1> HIDE DEF d
<1>3. session'[s] = d /\ \A t \in Sessions : t # s => session'[t] = session[t]
  BY <1>1 DEF LockInv, FormInv
<1>4. FormInv'
  BY <1>1, <1>2, <1>3 DEF LockInv, FormInv
<1>5. HolderInv'
  BY <1>1, <1>2, <1>3 DEF LockInv, HolderInv, Inside
<1>6. SameInv'
  BY <1>1, <1>2, <1>3 DEF LockInv, SameInv, Never, Using, At, Inside
<1> QED
  BY <1>4, <1>5, <1>6 DEF LockInv

(* The callback finds a semaphore that nobody uses, or leaves its mark.    *)
LEMMA RunCallbackLockInv == ASSUME LockInv, RunCallback PROVE LockInv'
<1>1. UNCHANGED session
      /\ happened' = happened \cup
           (IF \E s \in Sessions : lock # 0 /\ session[s].lock = lock THEN {"evicted"} ELSE {})
  BY DEF RunCallback, Note
<1>2. FormInv' /\ HolderInv'
  BY <1>1 DEF LockInv, FormInv, HolderInv, Inside
<1>3. SameInv'
  BY <1>1 DEF LockInv, SameInv, Never, Using, At, Inside
<1> QED
  BY <1>2, <1>3 DEF LockInv

-----------------------------------------------------------------------------
(* The ways a session goes on: it stays inside, or leaves with an exception*)
(* or without one.                                                         *)

LEMMA Stays ==
  ASSUME LockInv, NEW s \in Sessions, Inside(s), lock' = lock, happened \subseteq happened',
         NEW d, Shaped(d), session' = [session EXCEPT ![s] = d],
         d.lock = session[s].lock, d.pc # "wait"
  PROVE  LockInv'
BY OneSession

LEMMA GotoLockInv ==
  ASSUME LockInv, NEW s \in Sessions, Inside(s), lock' = lock, happened \subseteq happened',
         NEW pc, pc # "wait", Goto(s, pc)
  PROVE  LockInv'
<1> DEFINE d == [session[s] EXCEPT !.pc = pc]
<1>1. session' = [session EXCEPT ![s] = d]
  BY DEF Goto
<1>2. Shaped(d) /\ d.lock = session[s].lock /\ d.pc = pc
  BY DEF LockInv, FormInv, Shaped
<1> HIDE DEF d
<1> QED
  BY <1>1, <1>2, Stays

LEMMA ReleaseLockInv ==
  ASSUME LockInv, NEW s \in Sessions, lock' = lock, happened \subseteq happened', Release(s)
  PROVE  LockInv'
<1> DEFINE c == [Fresh EXCEPT !.pc = "failed", !.obj = session[s].obj, !.own = session[s].own]
           d == [Fresh EXCEPT !.pc = "done"]
<1>1. session' = [session EXCEPT ![s] = c] \/ session' = [session EXCEPT ![s] = d]
  BY DEF Release
<1>2. Shaped(c) /\ c.pc = "failed" /\ Shaped(d) /\ d.pc = "done"
  BY DEF Fresh, Shaped
<1> HIDE DEF c, d
<1> QED
  BY <1>1, <1>2, OneSession

LEMMA ReturnLockInv ==
  ASSUME LockInv, NEW s \in Sessions, lock' = lock, happened \subseteq happened', Return(s)
  PROVE  LockInv'
<1> DEFINE d == [Fresh EXCEPT !.pc = "done"]
<1>1. session' = [session EXCEPT ![s] = d]
  BY DEF Return
<1>2. Shaped(d) /\ d.pc = "done"
  BY DEF Fresh, Shaped
<1> HIDE DEF d
<1> QED
  BY <1>1, <1>2, OneSession

-----------------------------------------------------------------------------
(* The actions.                                                            *)

LEMMA GetLockInv == ASSUME LockInv, NEW s \in Sessions, Get(s) PROVE LockInv'
<1>1. Inside(s) /\ lock' = lock /\ happened' = happened
  BY DEF Get, GetObject, GetCopy, GetNothing, At, Inside
<1> DEFINE c(pc, obj, version) ==
      [session[s] EXCEPT !.pc = pc, !.obj = obj, !.version = version]
<1>2. \/ Goto(s, "catch")
      \/ session' = [session EXCEPT ![s] = c("catchup", cached, object[cached].version)]
      \/ session' = [session EXCEPT ![s] = c("catchup", s, copy.version)]
      \/ session' = [session EXCEPT ![s] = c("catch", s, copy.version)]
  BY DEF Get, GetObject, GetCopy, GetNothing
<1>3. ASSUME NEW pc, NEW obj, NEW version
      PROVE  LET d == c(pc, obj, version) IN
             Shaped(d) /\ d.lock = session[s].lock /\ d.pc = pc
  <2>1. Shaped(session[s])
    BY DEF LockInv, FormInv
  <2> QED
    BY <2>1 DEF Shaped
<1> HIDE DEF c
<1> QED
  BY <1>1, <1>2, <1>3, GotoLockInv, Stays

LEMMA CatchUpLockInv == ASSUME LockInv, NEW s \in Sessions, CatchUp(s) PROVE LockInv'
<1>1. Inside(s) /\ lock' = lock /\ happened \subseteq happened'
  BY DEF CatchUp, At, Inside, Note
<1> DEFINE d(version) == [session[s] EXCEPT !.pc = "open", !.lock = 0, !.version = version]
<1>2. \/ Goto(s, "catch") \/ Goto(s, "discard")
      \/ \E version : session' = [session EXCEPT ![s] = d(version)]
  BY DEF CatchUp
<1>3. \A version : Shaped(d(version)) /\ d(version).pc = "open"
  BY DEF LockInv, FormInv, Shaped
<1> HIDE DEF d
<1> QED
  BY <1>1, <1>2, <1>3, GotoLockInv, OneSession

LEMMA LoadLockInv == ASSUME LockInv, NEW s \in Sessions, Load(s) PROVE LockInv'
<1>1. Inside(s) /\ lock' = lock /\ happened' = happened
  BY DEF Load, At, Inside
<1> DEFINE d(version) == [session[s] EXCEPT !.pc = "put", !.obj = s, !.version = version]
<1>2. Goto(s, "catch") \/ \E version : session' = [session EXCEPT ![s] = d(version)]
  BY ZenonT(60) DEF Load
<1>3. \A version : LET e == d(version) IN
        Shaped(e) /\ e.pc = "put" /\ e.lock = session[s].lock
  BY DEF LockInv, FormInv, Shaped
<1> HIDE DEF d
<1> QED
  BY <1>1, <1>2, <1>3, GotoLockInv, Stays

LEMMA PutLockInv == ASSUME LockInv, NEW s \in Sessions, Put(s) PROVE LockInv'
<1>1. Inside(s) /\ lock' = lock /\ happened \subseteq happened'
  BY DEF Put, At, Inside, Note
<1> DEFINE d == [session[s] EXCEPT !.pc = "open", !.lock = 0]
<1>2. Goto(s, "catch") \/ Goto(s, "check") \/ session' = [session EXCEPT ![s] = d]
  BY DEF Put
<1>3. Shaped(d) /\ d.pc = "open"
  BY DEF LockInv, FormInv, Shaped
<1> HIDE DEF d
<1> QED
  BY <1>1, <1>2, <1>3, GotoLockInv, OneSession

LEMMA CheckLockInv == ASSUME LockInv, NEW s \in Sessions, Check(s) PROVE LockInv'
<1>1. Inside(s) /\ lock' = lock /\ happened \subseteq happened'
  BY DEF Check, At, Inside, Note
<1> DEFINE o == session[s].obj
           d == [session[s] EXCEPT !.pc = "insert", !.flushed = object[o].changes,
                                   !.version = object[o].version]
<1>2. Goto(s, "catch") \/ Return(s) \/ session' = [session EXCEPT ![s] = d]
  BY DEF Check
<1>3. Shaped(d) /\ d.pc = "insert" /\ d.lock = session[s].lock
  BY DEF LockInv, FormInv, Shaped
<1> HIDE DEF d
<1> QED
  BY <1>1, <1>2, <1>3, GotoLockInv, ReturnLockInv, Stays

LEMMA InsertLockInv == ASSUME LockInv, NEW s \in Sessions, Insert(s) PROVE LockInv'
<1>1. Inside(s) /\ lock' = lock /\ happened' = happened
  BY DEF Insert, At, Inside
<1> DEFINE d == [session[s] EXCEPT !.saved = session[s].saved + 1]
<1>2. Goto(s, "catch") \/ Return(s) \/ session' = [session EXCEPT ![s] = d]
  BY DEF Insert
<1>3. Shaped(d) /\ d.pc = session[s].pc /\ d.lock = session[s].lock
  BY DEF LockInv, FormInv, Shaped
<1>4. d.pc # "wait"
  BY <1>1, <1>3 DEF Inside
<1> HIDE DEF d
<1> QED
  BY <1>1, <1>2, <1>3, <1>4, GotoLockInv, ReturnLockInv, Stays

LEMMA NextLockInv == LockInv /\ [Next]_vars => LockInv'
<1> SUFFICES ASSUME LockInv, [Next]_vars PROVE LockInv'
  OBVIOUS
<1>1. CASE UNCHANGED <<session, lock, happened>>
  BY <1>1 DEF LockInv, FormInv, HolderInv, SameInv, Never, Using, At, Inside
<1>2. CASE Expire \/ Elsewhere \/ UNCHANGED vars
  BY <1>1, <1>2 DEF Expire, Elsewhere, vars
<1>3. ASSUME NEW s \in Sessions, StartGet(s) \/ StartSave(s) PROVE LockInv'
  <2>1. ~Using(s) /\ UNCHANGED happened /\ \E op : Enter(s, op)
    BY <1>3 DEF StartGet, StartSave, Using, At, Inside
  <2> QED
    BY <2>1, EnterLockInv
<1>4. ASSUME NEW s \in Sessions, GetIsTracked(s) \/ SaveIsTracked(s) \/ Discard(s)
      PROVE  LockInv'
  <2>1. /\ Inside(s) /\ lock' = lock /\ happened \subseteq happened'
        /\ \E pc \in {"get", "load", "put", "check", "catch"} : Goto(s, pc)
    BY <1>4 DEF GetIsTracked, SaveIsTracked, Discard, At, Inside
  <2> QED
    BY <2>1, GotoLockInv
<1>5. ASSUME NEW s \in Sessions, Change(s) PROVE LockInv'
  <2> DEFINE d == [session[s] EXCEPT !.own = @ \cup {nextId}]
  <2>1. /\ session' = [session EXCEPT ![s] = d] /\ lock' = lock /\ happened' = happened
        /\ session[s].pc = "open"
    BY <1>5 DEF Change, At
  <2>2. Shaped(d) /\ d.pc = session[s].pc
    BY DEF LockInv, FormInv, Shaped
  <2> HIDE DEF d
  <2> QED
    BY <2>1, <2>2, OneSession
<1>6. ASSUME NEW s \in Sessions, AddAgain(s) PROVE LockInv'
  <2> DEFINE d == [session[s] EXCEPT !.pc = "open", !.version = object[session[s].obj].version]
  <2>1. session' = [session EXCEPT ![s] = d] /\ lock' = lock /\ happened' = happened
    BY <1>6 DEF AddAgain
  <2>2. Shaped(d) /\ d.pc = "open"
    BY DEF LockInv, FormInv, Shaped
  <2> HIDE DEF d
  <2> QED
    BY <2>1, <2>2, OneSession
<1>7. ASSUME NEW s \in Sessions, Catch(s) PROVE LockInv'
  <2>1. lock' = lock /\ happened \subseteq happened' /\ Release(s)
    BY <1>7 DEF Catch, Note
  <2> QED
    BY <2>1, ReleaseLockInv
<1> QED
  BY <1>2, <1>3, <1>4, <1>5, <1>6, <1>7, AcquireLockInv, RunCallbackLockInv, GetLockInv,
     CatchUpLockInv, LoadLockInv, PutLockInv, CheckLockInv, InsertLockInv
     DEF Next, GetAsync, SaveAsync

(* One session at a time is inside GetAsync or SaveAsync of the aggregate, *)
(* as long as the eviction callback has taken no semaphore that was in     *)
(* use: Locks, in CacheRepository.                                         *)
THEOREM MutualExclusion == Spec => []LockExcludes
<1>1. LockInv => LockExcludes
  BY DEF LockInv, HolderInv, SameInv, LockExcludes, Using
<1> QED
  BY <1>1, InitLockInv, NextLockInv, PTL DEF Spec

-----------------------------------------------------------------------------
(* The types of all variables.                                             *)

Objects == [version : Nat, state : Seq(Ids), changes : Seq(Ids), broken : BOOLEAN]
Copies == [there : BOOLEAN, version : Nat, state : Seq(Ids), broken : BOOLEAN]
SessionTypes ==
    [pc : {"new", "wait", "tracked", "get", "catchup", "discard", "load", "put", "open",
           "check", "insert", "catch", "done", "failed"},
     op : {"get", "save"}, lock : Locks \cup {0}, obj : Sessions \cup {"none"},
     version : Nat, flushed : Seq(Ids), saved : Nat, own : SUBSET Ids]

Types ==
    /\ rows \in [Ids -> Ids \cup {0}] /\ nextId \in 1..(MaxIds + 1)
    /\ object \in [Sessions -> Objects]
    /\ session \in [Sessions -> SessionTypes]
    /\ cached \in Sessions \cup {"none", "null"} /\ copy \in Copies
    /\ useRedis \in BOOLEAN /\ lock \in Locks \cup {0}
    /\ callbacks \in 0..MaxCallbacks /\ expiries \in 0..MaxExpiries /\ faults \in 0..MaxFaults
    /\ acked \subseteq Ids /\ happened \subseteq Marks

(* A session has an object it works on, or at least holds one; or it has   *)
(* not loaded one yet.                                                     *)
Obj(s) == session[s].obj
Saves(s) == session[s].op = "save" /\ session[s].pc \in {"wait", "tracked", "put", "catch"}
Working(s) == session[s].pc \in {"open", "check", "insert", "failed"} \/ Saves(s)
Holding(s) == session[s].pc \in {"catchup", "put"} \/ Working(s)
Loading(s) ==
    /\ session[s].op = "get"
    /\ session[s].pc \in {"new", "wait", "tracked", "get", "catchup", "discard", "load", "put",
                          "catch"}

(* How a session's fields go together.                                     *)
Shape(s) ==
    LET c == session[s] IN
    /\ c.lock # 0 <=> Using(s)
    /\ c.pc \in {"new", "get", "catchup", "discard", "load"} => c.op = "get"
    /\ c.pc \in {"check", "insert"} => c.op = "save"
    /\ c.pc = "put" /\ c.op = "get" => c.obj = s
    /\ c.pc = "insert" => c.saved < Len(c.flushed)
    /\ c.pc \notin {"insert", "catch"} => c.saved = 0 /\ c.flushed = <<>>
    /\ c.saved <= Len(c.flushed)
    /\ Holding(s) => c.obj \in Sessions
    /\ ~Working(s) => c.own = {}

ShapeInv == \A s \in Sessions : Shape(s)

TypeInv == Types /\ ShapeInv

-----------------------------------------------------------------------------
(* What the steps do to a session.                                         *)

Others(s) == \A t \in Sessions : t # s => session'[t] = session[t]

(* It goes elsewhere with what it has.                                     *)
Moved(s) ==
    LET c == session[s]
        d == session'[s]
    IN  /\ Others(s)
        /\ d.obj = c.obj /\ d.version = c.version
        /\ d.flushed = c.flushed /\ d.saved = c.saved /\ d.own = c.own

(* It goes to the catch.                                                   *)
Caught(s) ==
    LET c == session[s]
        d == session'[s]
    IN  Moved(s) /\ d.pc = "catch" /\ d.op = c.op /\ d.lock = c.lock

(* It ends; after a commit that threw it has its object and what it made.  *)
Ended(s) ==
    LET c == session[s]
        d == session'[s]
    IN  /\ Others(s)
        /\ \/ d.pc = "done" /\ d.obj = "none" /\ d.own = {}
           \/ d.pc = "failed" /\ d.obj = c.obj /\ d.own = c.own /\ c.op = "save"
        /\ d.op = "get" /\ d.lock = 0 /\ d.version = 0
        /\ d.flushed = <<>> /\ d.saved = 0

-----------------------------------------------------------------------------
LEMMA LeavesFacts ==
  ASSUME Types, Leaves
  PROVE  callbacks' \in 0..MaxCallbacks /\ (useRedis => callbacks' = callbacks)
BY BoundsAssumption DEF Types, Leaves

LEMMA CountFacts ==
  ASSUME Types, NEW call, NEW e \in Endings(call), Count(e)
  PROVE  faults' \in 0..MaxFaults /\ expiries' \in 0..MaxExpiries
BY BoundsAssumption DEF Types, Count, Endings, Answered

LEMMA CacheCount ==
  ASSUME Types, NEW call, NEW e \in CacheEndings(call), Count(e)
  PROVE  faults' \in 0..MaxFaults /\ expiries' \in 0..MaxExpiries
BY BoundsAssumption DEF Types, Count, CacheEndings, Endings, Answered

LEMMA SessionStep ==
  ASSUME Types, NEW s \in Sessions, NEW d \in SessionTypes, session' = [session EXCEPT ![s] = d]
  PROVE  session' \in [Sessions -> SessionTypes] /\ session'[s] = d /\ Others(s)
BY DEF Types, Others

LEMMA ObjectStep ==
  ASSUME Types, NEW o \in Sessions, NEW x \in Objects, object' = [object EXCEPT ![o] = x]
  PROVE  /\ object' \in [Sessions -> Objects] /\ object'[o] = x
         /\ \A p \in Sessions : p # o => object'[p] = object[p]
BY DEF Types

LEMMA FreshTypes == Fresh \in SessionTypes /\ NewObject \in Objects /\ NoCopy \in Copies
<1>1. <<>> \in Seq(Ids) /\ 0 \in Nat
  OBVIOUS
<1> QED
  BY <1>1 DEF Fresh, SessionTypes, NewObject, Objects, NoCopy, Copies

LEMMA EnterFacts ==
  ASSUME Types, NEW s \in Sessions, NEW op \in {"get", "save"}, Enter(s, op)
  PROVE  LET d == session'[s] IN
         /\ session' \in [Sessions -> SessionTypes] /\ Moved(s)
         /\ d.pc = "wait" /\ d.op = op /\ d.lock # 0 /\ lock' \in Locks
<1> DEFINE d == [session[s] EXCEPT !.pc = "wait", !.op = op, !.lock = GetOrAdd]
<1>1. session' = [session EXCEPT ![s] = d] /\ lock' = GetOrAdd
  BY DEF Enter
<1>2. GetOrAdd \in Locks /\ GetOrAdd # 0
  BY FreeLock DEF Types
<1>3. session[s] \in SessionTypes
  BY DEF Types
<1>4. d \in SessionTypes
  BY <1>2, <1>3 DEF SessionTypes
<1>5. /\ d.pc = "wait" /\ d.op = op /\ d.lock = GetOrAdd
      /\ d.obj = session[s].obj /\ d.version = session[s].version
      /\ d.flushed = session[s].flushed /\ d.saved = session[s].saved /\ d.own = session[s].own
  BY <1>3 DEF SessionTypes
<1> HIDE DEF d
<1> QED
  BY <1>1, <1>2, <1>4, <1>5, SessionStep DEF Moved

LEMMA GotoFacts ==
  ASSUME Types, NEW s \in Sessions,
         NEW pc \in {"tracked", "get", "catchup", "discard", "load", "put", "check", "catch"},
         Goto(s, pc)
  PROVE  LET c == session[s]
             d == session'[s]
         IN  /\ session' \in [Sessions -> SessionTypes] /\ Moved(s)
             /\ d.pc = pc /\ d.op = c.op /\ d.lock = c.lock
<1> DEFINE d == [session[s] EXCEPT !.pc = pc]
<1>1. session' = [session EXCEPT ![s] = d] /\ session[s] \in SessionTypes
  BY DEF Goto, Types
<1>2. d \in SessionTypes
  BY <1>1 DEF SessionTypes
<1>3. /\ d.pc = pc /\ d.op = session[s].op /\ d.lock = session[s].lock
      /\ d.obj = session[s].obj /\ d.version = session[s].version
      /\ d.flushed = session[s].flushed /\ d.saved = session[s].saved /\ d.own = session[s].own
  BY <1>1 DEF SessionTypes
<1> HIDE DEF d
<1> QED
  BY <1>1, <1>2, <1>3, SessionStep DEF Moved

LEMMA CaughtFacts ==
  ASSUME Types, NEW s \in Sessions, Goto(s, "catch")
  PROVE  session' \in [Sessions -> SessionTypes] /\ Caught(s)
BY GotoFacts DEF Caught

LEMMA ReleaseFacts ==
  ASSUME Types, NEW s \in Sessions, Shape(s), session[s].pc = "catch", Release(s)
  PROVE  /\ session' \in [Sessions -> SessionTypes] /\ Ended(s)
         /\ session[s].op = "save" => session'[s].pc = "failed" /\ session[s].obj \in Sessions
         /\ session[s].op # "save" => session'[s].pc = "done"
<1> DEFINE c == [Fresh EXCEPT !.pc = "failed", !.obj = session[s].obj, !.own = session[s].own]
           d == [Fresh EXCEPT !.pc = "done"]
<1>0. session[s] \in SessionTypes
  BY DEF Types
<1>1. session' = [session EXCEPT ![s] = IF session[s].op = "save" THEN c ELSE d]
  BY DEF Release
<1>2. c \in SessionTypes /\ d \in SessionTypes
  BY ZenonT(60), <1>0, FreshTypes DEF SessionTypes
<1>3. /\ c.pc = "failed" /\ c.obj = session[s].obj /\ c.op = "get" /\ c.lock = 0
      /\ c.version = 0 /\ c.flushed = <<>> /\ c.saved = 0 /\ c.own = session[s].own
      /\ d.pc = "done" /\ d.obj = "none" /\ d.op = "get" /\ d.lock = 0
      /\ d.version = 0 /\ d.flushed = <<>> /\ d.saved = 0 /\ d.own = {}
  BY DEF Fresh
<1>4. session[s].op = "save" => session[s].obj \in Sessions
  BY DEF Shape, Holding, Working, Saves
<1> HIDE DEF c, d
<1>5. CASE session[s].op = "save"
  BY <1>1, <1>2, <1>3, <1>4, <1>5, SessionStep DEF Ended
<1>6. CASE session[s].op # "save"
  BY <1>1, <1>2, <1>3, <1>6, SessionStep DEF Ended
<1> QED
  BY <1>5, <1>6

LEMMA ReturnFacts ==
  ASSUME Types, NEW s \in Sessions, Return(s)
  PROVE  /\ session' \in [Sessions -> SessionTypes] /\ Ended(s) /\ session'[s].pc = "done"
         /\ acked' = acked \cup session[s].own /\ session[s].own \subseteq Ids
<1> DEFINE d == [Fresh EXCEPT !.pc = "done"]
<1>1. session' = [session EXCEPT ![s] = d] /\ acked' = acked \cup session[s].own
  BY DEF Return
<1>2. d \in SessionTypes /\ session[s].own \subseteq Ids
  BY FreshTypes DEF SessionTypes, Types
<1>3. /\ d.pc = "done" /\ d.obj = "none" /\ d.op = "get" /\ d.lock = 0
      /\ d.version = 0 /\ d.flushed = <<>> /\ d.saved = 0 /\ d.own = {}
  BY DEF Fresh
<1> HIDE DEF d
<1> QED
  BY <1>1, <1>2, <1>3, SessionStep DEF Ended

-----------------------------------------------------------------------------
(* What is read after the version v, if nothing is missing.                *)
LEMMA EventsFacts ==
  ASSUME Types, NEW v \in Nat, Contiguous(VersionsAfter(v), v)
  PROVE  LET n == Cardinality(VersionsAfter(v)) IN
         /\ n \in Nat
         /\ EventsAfter(v) \in Seq(Ids) /\ Len(EventsAfter(v)) = n
         /\ \A i \in 1..n : /\ v + i \in Ids /\ rows[v + i] # 0
                            /\ EventsAfter(v)[i] = rows[v + i]
<1> DEFINE V == VersionsAfter(v)
           n == Cardinality(V)
<1>1. V \subseteq Ids /\ (\A k \in V : k > v /\ rows[k] # 0) /\ MaxIds \in Nat
  BY BoundsAssumption DEF VersionsAfter
<1>2. IsFiniteSet(V) /\ n \in Nat
  <2>1. IsFiniteSet(1..MaxIds)
    BY <1>1, FS_Interval
  <2>2. IsFiniteSet(V)
    BY <1>1, <2>1, FS_Subset DEF Ids
  <2> QED
    BY <2>2, FS_CardinalityType
<1>3. V \subseteq (v + 1)..(v + n)
  <2> SUFFICES ASSUME NEW k \in V PROVE k \in (v + 1)..(v + n)
    OBVIOUS
  <2>1. k \in Nat /\ k > v
    BY <1>1 DEF Ids
  <2>2. (v + 1)..k \subseteq V
    BY DEF Contiguous
  <2>3. Cardinality((v + 1)..k) = k - v
    BY <2>1, FS_Interval
  <2>4. k - v <= n
    BY <1>2, <2>2, <2>3, FS_Subset
  <2> HIDE DEF n
  <2> QED
    BY <1>2, <2>1, <2>4
<1>4. V = (v + 1)..(v + n)
  <2>1. IsFiniteSet((v + 1)..(v + n)) /\ Cardinality((v + 1)..(v + n)) = n
    <3> HIDE DEF n
    <3> QED
      BY <1>2, FS_Interval
  <2> QED
    BY <1>3, <2>1, FS_Subset
<1>5. EventsAfter(v) = [i \in 1..n |-> rows[v + i]]
  BY DEF EventsAfter
<1> HIDE DEF n, V
<1>6. \A i \in 1..n : v + i \in Ids /\ rows[v + i] # 0
  <2>1. \A i \in 1..n : v + i \in (v + 1)..(v + n)
    BY <1>2
  <2> QED
    BY <1>1, <1>4, <2>1
<1>7. \A i \in 1..n : rows[v + i] \in Ids
  BY <1>6 DEF Types
<1>8. EventsAfter(v) \in Seq(Ids) /\ Len(EventsAfter(v)) = n
  BY <1>2, <1>5, <1>7
<1> QED
  BY <1>2, <1>5, <1>6, <1>8 DEF n, V

-----------------------------------------------------------------------------
(* What the steps do.                                                      *)

(* The entry in memory has gone, the copy perhaps not.                     *)
Removed ==
    /\ cached' = "none" /\ (copy' = NoCopy \/ copy' = copy) /\ copy' \in Copies
    /\ callbacks' \in 0..MaxCallbacks /\ (useRedis => callbacks' = callbacks)
Keeping(s) ==
    LET c == session[s]
        d == session'[s]
    IN  d.flushed = c.flushed /\ d.saved = c.saved /\ d.own = c.own

LEMMA RemoveFacts == ASSUME Types, NEW ending, Remove(ending) PROVE Removed
BY LeavesFacts, FreshTypes DEF Remove, Removed, Types

LEMMA SetToFacts ==
  ASSUME Types, NEW o \in Sessions, NEW ending, SetTo(o, ending)
  PROVE  /\ cached' = o /\ copy' \in Copies
         /\ \/ UNCHANGED copy
            \/ /\ useRedis /\ copy'.version = object[o].version
               /\ copy'.state = object[o].state /\ copy'.broken = object[o].broken
         /\ callbacks' \in 0..MaxCallbacks /\ (useRedis => callbacks' = callbacks)
<1> DEFINE x == [there |-> TRUE, version |-> object[o].version, state |-> object[o].state,
                 broken |-> object[o].broken]
<1>1. object[o] \in Objects
  BY DEF Types
<1>2. /\ x \in Copies /\ x.version = object[o].version
      /\ x.state = object[o].state /\ x.broken = object[o].broken
  BY <1>1 DEF Objects, Copies
<1>3. cached' = o /\ Leaves /\ (copy' = copy \/ (useRedis /\ copy' = x))
  BY DEF SetTo
<1> HIDE DEF x
<1> QED
  BY <1>2, <1>3, LeavesFacts DEF Types

(* The object in memory, or one made of the copy; the entry may be gone.   *)
LEMMA GetFacts ==
  ASSUME Types, NEW s \in Sessions, Shape(s), Get(s)
  PROVE  LET c == session[s]
             d == session'[s]
         IN  /\ session' \in [Sessions -> SessionTypes] /\ object' \in [Sessions -> Objects]
             /\ c.pc = "get"
             /\ \/ Caught(s) /\ UNCHANGED <<object, caches>>
                \/ /\ cached \in Sessions /\ Others(s) /\ Keeping(s)
                   /\ d.pc = "catchup" /\ d.op = c.op /\ d.lock = c.lock
                   /\ d.obj = cached /\ d.version = object[cached].version
                   /\ UNCHANGED <<object, caches>>
                \/ /\ cached \notin Sessions /\ copy # NoCopy /\ Others(s) /\ Keeping(s)
                   /\ d.pc \in {"catchup", "catch"} /\ d.op = c.op /\ d.lock = c.lock
                   /\ d.obj = s /\ d.version = copy.version
                   /\ \A p \in Sessions : p # s => object'[p] = object[p]
                   /\ object'[s].version = copy.version /\ object'[s].state = copy.state
                   /\ object'[s].changes = <<>> /\ object'[s].broken = FALSE
                   /\ cached' = s /\ copy' = copy
                   /\ callbacks' \in 0..MaxCallbacks /\ (useRedis => callbacks' = callbacks)
<1> DEFINE c == session[s]
           d(pc, obj, version) == [c EXCEPT !.pc = pc, !.obj = obj, !.version = version]
           x == [NewObject EXCEPT !.version = copy.version, !.state = copy.state]
<1>0. c \in SessionTypes /\ c.pc = "get" /\ c.op = "get"
  BY DEF Types, Get, GetObject, GetCopy, GetNothing, At, Shape
<1>1. ASSUME NEW pc \in {"catchup", "catch"}, NEW obj \in Sessions, NEW version \in Nat,
             session' = [session EXCEPT ![s] = d(pc, obj, version)]
      PROVE  /\ session' \in [Sessions -> SessionTypes] /\ Others(s) /\ Keeping(s)
             /\ LET e == session'[s] IN
                e.pc = pc /\ e.op = c.op /\ e.lock = c.lock /\ e.obj = obj /\ e.version = version
  <2>1. d(pc, obj, version) \in SessionTypes
    BY <1>0 DEF SessionTypes
  <2>2. LET e == d(pc, obj, version) IN
        /\ e.pc = pc /\ e.op = c.op /\ e.lock = c.lock /\ e.obj = obj /\ e.version = version
        /\ e.flushed = c.flushed /\ e.saved = c.saved /\ e.own = c.own
    BY <1>0 DEF SessionTypes
  <2> HIDE DEF d
  <2> QED
    BY <1>1, <2>1, <2>2, SessionStep DEF Keeping
<1>2. CASE GetObject(s)
  <2>1. object[cached].version \in Nat /\ object' = object /\ cached \in Sessions
    BY <1>2 DEF Types, Objects, GetObject
  <2>2. /\ session' = [session EXCEPT ![s] = d("catchup", cached, object[cached].version)]
        /\ UNCHANGED caches
    BY <1>2 DEF GetObject
  <2> HIDE DEF d
  <2> QED
    BY <1>0, <1>1, <2>1, <2>2 DEF Types
<1>3. CASE GetCopy(s)
  <2>1. /\ \E pc \in {"catchup", "catch"} :
               session' = [session EXCEPT ![s] = d(pc, s, copy.version)]
        /\ object' = [object EXCEPT ![s] = x] /\ cached' = s /\ Leaves /\ copy' = copy
        /\ cached \notin Sessions /\ copy # NoCopy
    BY <1>3 DEF GetCopy
  <2>2. copy.version \in Nat /\ copy.state \in Seq(Ids)
    BY DEF Types, Copies
  <2>3. /\ x \in Objects /\ x.version = copy.version /\ x.state = copy.state
        /\ x.changes = <<>> /\ x.broken = FALSE
    BY <2>2, FreshTypes DEF NewObject, Objects
  <2> HIDE DEF d, x
  <2>4. PICK pc \in {"catchup", "catch"} : session' = [session EXCEPT ![s] = d(pc, s, copy.version)]
    BY <2>1
  <2>5. /\ session' \in [Sessions -> SessionTypes] /\ Others(s) /\ Keeping(s)
        /\ LET e == session'[s] IN
           e.pc = pc /\ e.op = c.op /\ e.lock = c.lock /\ e.obj = s /\ e.version = copy.version
    BY <1>1, <2>2, <2>4
  <2>6. /\ object' \in [Sessions -> Objects] /\ object'[s] = x
        /\ \A p \in Sessions : p # s => object'[p] = object[p]
    BY <2>1, <2>3, ObjectStep
  <2>7. callbacks' \in 0..MaxCallbacks /\ (useRedis => callbacks' = callbacks)
    BY <2>1, LeavesFacts
  <2> QED
    BY <1>0, <2>1, <2>3, <2>5, <2>6, <2>7
<1>4. CASE GetNothing(s)
  <2>1. Goto(s, "catch") /\ UNCHANGED <<object, caches>>
    BY <1>4 DEF GetNothing
  <2> QED
    BY <1>0, <2>1, CaughtFacts DEF Types
<1> QED
  BY <1>2, <1>3, <1>4 DEF Get

(* The events after the object's version, if it has events to load it is   *)
(* still at that version.                                                  *)
LEMMA CatchUpFacts ==
  ASSUME Types, NEW s \in Sessions, Shape(s), CatchUp(s)
  PROVE  LET c == session[s]
             d == session'[s]
             n == Cardinality(VersionsAfter(c.version))
         IN  /\ session' \in [Sessions -> SessionTypes] /\ object' \in [Sessions -> Objects]
             /\ c.pc = "catchup" /\ c.obj \in Sessions
             /\ UNCHANGED caches
             /\ \/ /\ Moved(s) /\ d.pc \in {"catch", "discard"} /\ d.op = c.op /\ d.lock = c.lock
                   /\ UNCHANGED <<object, happened>>
                \/ /\ Others(s) /\ Keeping(s) /\ d.pc = "open" /\ d.lock = 0 /\ d.op = c.op
                   /\ d.obj = c.obj /\ d.version = object'[c.obj].version
                   /\ \A p \in Sessions : p # c.obj => object'[p] = object[p]
                   /\ Contiguous(VersionsAfter(c.version), c.version) /\ n \in Nat
                   /\ object'[c.obj].version = object[c.obj].version + n
                   /\ object'[c.obj].state = object[c.obj].state \o EventsAfter(c.version)
                   /\ object'[c.obj].changes = object[c.obj].changes
                   /\ object'[c.obj].broken = object[c.obj].broken
                   /\ n # 0 => object[c.obj].version = c.version
                   /\ happened' = happened \/ happened' = happened \cup {"mixed"}
                   /\ n # 0 /\ object[c.obj].changes # <<>> => "mixed" \in happened'
<1> DEFINE c == session[s]
           o == c.obj
           from == c.version
           V == VersionsAfter(from)
           n == Cardinality(V)
           events == EventsAfter(from)
           IsFirst(v) == v \in V /\ \A m \in V : v <= m
           x == [object[o] EXCEPT !.version = @ + Len(events), !.state = @ \o events]
           d(version) == [c EXCEPT !.pc = "open", !.lock = 0, !.version = version]
<1>0. c \in SessionTypes /\ c.pc = "catchup" /\ c.op = "get" /\ o \in Sessions /\ Inside(s)
  BY DEF Types, CatchUp, At, Shape, Holding, Inside
<1>1. object[o] \in Objects /\ from \in Nat
  BY <1>0 DEF Types, SessionTypes
<1>2. \/ /\ Goto(s, "catch") \/ Goto(s, "discard")
         /\ UNCHANGED <<object, happened>>
      \/ /\ ~(V # {} /\ ~IsFirst(object[o].version + 1)) /\ Contiguous(V, from)
         /\ object' = [object EXCEPT ![o] = x]
         /\ session' = [session EXCEPT ![s] = d(object[o].version + Len(events))]
         /\ Note(IF V # {} /\ object[o].changes # <<>> THEN {"mixed"} ELSE {})
  BY <1>0 DEF CatchUp
<1>3. UNCHANGED caches
  BY DEF CatchUp
<1>4. CASE /\ Goto(s, "catch") \/ Goto(s, "discard")
           /\ UNCHANGED <<object, happened>>
  BY <1>0, <1>3, <1>4, GotoFacts DEF Types
<1>5. CASE /\ ~(V # {} /\ ~IsFirst(object[o].version + 1)) /\ Contiguous(V, from)
           /\ object' = [object EXCEPT ![o] = x]
           /\ session' = [session EXCEPT ![s] = d(object[o].version + Len(events))]
           /\ Note(IF V # {} /\ object[o].changes # <<>> THEN {"mixed"} ELSE {})
  <2>1. /\ n \in Nat /\ events \in Seq(Ids) /\ Len(events) = n
        /\ \A i \in 1..n : from + i \in Ids /\ rows[from + i] # 0
    BY <1>1, <1>5, EventsFacts
  <2>2. n # 0 <=> V # {}
    <3>1. V \in SUBSET (1..MaxIds)
      BY DEF VersionsAfter, Ids
    <3>2. IsFiniteSet(V)
      <4>1. IsFiniteSet(1..MaxIds)
        BY BoundsAssumption, FS_Interval
      <4> HIDE DEF V
      <4> QED
        BY <3>1, <4>1, FS_Subset
    <3> HIDE DEF V
    <3> QED
      BY <3>2, FS_EmptySet
  <2>3. object[o].version \in Nat /\ object[o].state \in Seq(Ids)
    BY <1>1 DEF Objects
  <2>4. n # 0 => object[o].version = from
    <3> SUFFICES ASSUME n # 0 PROVE object[o].version = from
      OBVIOUS
    <3>1. object[o].version + 1 \in V /\ \A m \in V : object[o].version + 1 <= m
      BY <1>5, <2>2
    <3>2. object[o].version + 1 > from
      BY <3>1 DEF VersionsAfter
    <3>3. from + 1 \in V
      <4>1. from + 1 \in (from + 1)..(object[o].version + 1)
        BY <1>1, <2>3, <3>2
      <4> QED
        BY <1>5, <3>1, <4>1 DEF Contiguous
    <3>4. object[o].version + 1 <= from + 1
      BY <3>1, <3>3
    <3> QED
      BY <1>1, <2>3, <3>2, <3>4
  <2>5. object[o].version + Len(events) \in Nat /\ object[o].state \o events \in Seq(Ids)
    BY <2>1, <2>3
  <2>6. /\ x \in Objects /\ x.version = object[o].version + n
        /\ x.state = object[o].state \o events
        /\ x.changes = object[o].changes /\ x.broken = object[o].broken
    BY <1>1, <2>1, <2>5 DEF Objects
  <2> DEFINE e == d(object[o].version + Len(events))
  <2>7. /\ e \in SessionTypes /\ e.pc = "open" /\ e.lock = 0 /\ e.op = c.op /\ e.obj = c.obj
        /\ e.version = object[o].version + n /\ e.flushed = c.flushed /\ e.saved = c.saved
        /\ e.own = c.own
    BY <1>0, <2>1, <2>5 DEF SessionTypes
  <2> HIDE DEF e, x
  <2>8. session' \in [Sessions -> SessionTypes] /\ session'[s] = e /\ Others(s)
    BY <1>5, <2>7, SessionStep DEF e
  <2>9. /\ object' \in [Sessions -> Objects] /\ object'[o] = x
        /\ \A p \in Sessions : p # o => object'[p] = object[p]
    BY <1>0, <1>5, <2>6, ObjectStep
  <2>10. /\ happened' = happened \/ happened' = happened \cup {"mixed"}
         /\ n # 0 /\ object[o].changes # <<>> => "mixed" \in happened'
    BY <1>5, <2>2 DEF Note
  <2>11. UNCHANGED caches /\ Contiguous(V, from)
    BY <1>3, <1>5
  <2> QED
    BY <1>0, <2>1, <2>4, <2>6, <2>7, <2>8, <2>9, <2>10, <2>11 DEF Keeping
<1> QED
  BY <1>2, <1>4, <1>5

(* The entry is removed, or its copy is not; in memory it is.              *)
LEMMA DiscardFacts ==
  ASSUME Types, NEW s \in Sessions, Shape(s), Discard(s)
  PROVE  LET c == session[s]
             d == session'[s]
         IN  /\ session' \in [Sessions -> SessionTypes] /\ Moved(s) /\ Removed
             /\ c.pc = "discard" /\ c.op = "get"
             /\ d.pc \in {"load", "catch"} /\ d.op = c.op /\ d.lock = c.lock
<1>1. session[s].pc = "discard" /\ session[s].op = "get"
  BY DEF Discard, At, Shape
<1>2. (\E ending : Remove(ending)) /\ \E pc \in {"load", "catch"} : Goto(s, pc)
  BY DEF Discard
<1> QED
  BY <1>1, <1>2, RemoveFacts, GotoFacts

LEMMA LoadFacts ==
  ASSUME Types, NEW s \in Sessions, Shape(s), Load(s)
  PROVE  LET c == session[s]
             d == session'[s]
             n == Cardinality(VersionsAfter(0))
         IN  /\ session' \in [Sessions -> SessionTypes] /\ object' \in [Sessions -> Objects]
             /\ c.pc = "load" /\ UNCHANGED caches
             /\ \/ Caught(s) /\ UNCHANGED object
                \/ /\ Others(s) /\ Keeping(s) /\ d.pc = "put" /\ d.lock = c.lock /\ d.op = c.op
                   /\ d.obj = s /\ d.version = n /\ n \in Nat
                   /\ Contiguous(VersionsAfter(0), 0)
                   /\ \A p \in Sessions : p # s => object'[p] = object[p]
                   /\ object'[s].version = n /\ object'[s].state = EventsAfter(0)
                   /\ object'[s].changes = <<>> /\ object'[s].broken = FALSE
<1> DEFINE c == session[s]
           V == VersionsAfter(0)
           n == Cardinality(V)
           events == EventsAfter(0)
           x == [NewObject EXCEPT !.version = Len(events), !.state = events]
           d == [c EXCEPT !.pc = "put", !.obj = s, !.version = x.version]
<1>0. c \in SessionTypes /\ c.pc = "load" /\ c.op = "get" /\ UNCHANGED caches
  BY DEF Types, Load, At, Shape
<1>1. \/ Goto(s, "catch") /\ UNCHANGED object
      \/ /\ Contiguous(V, 0)
         /\ object' = [object EXCEPT ![s] = x]
         /\ session' = [session EXCEPT ![s] = d]
  BY DEF Load
<1>2. CASE Goto(s, "catch") /\ UNCHANGED object
  BY <1>0, <1>2, CaughtFacts DEF Types
<1>3. CASE /\ Contiguous(V, 0)
           /\ object' = [object EXCEPT ![s] = x]
           /\ session' = [session EXCEPT ![s] = d]
  <2>1. n \in Nat /\ events \in Seq(Ids) /\ Len(events) = n
    BY <1>3, EventsFacts
  <2> HIDE DEF events, n
  <2>2. /\ x \in Objects /\ x.version = n /\ x.state = events
        /\ x.changes = <<>> /\ x.broken = FALSE
    BY <2>1, FreshTypes DEF NewObject, Objects
  <2> HIDE DEF x
  <2>3. /\ d \in SessionTypes /\ d.pc = "put" /\ d.lock = c.lock /\ d.op = c.op /\ d.obj = s
        /\ d.version = n /\ d.flushed = c.flushed /\ d.saved = c.saved /\ d.own = c.own
    BY <1>0, <2>1, <2>2 DEF SessionTypes
  <2> HIDE DEF d
  <2>4. session' \in [Sessions -> SessionTypes] /\ session'[s] = d /\ Others(s)
    BY <1>3, <2>3, SessionStep
  <2>5. /\ object' \in [Sessions -> Objects] /\ object'[s] = x
        /\ \A p \in Sessions : p # s => object'[p] = object[p]
    BY <1>3, <2>2, ObjectStep
  <2> QED
    BY <1>0, <1>3, <2>1, <2>2, <2>3, <2>4, <2>5 DEF Keeping, events, n
<1> QED
  BY <1>1, <1>2, <1>3

(* What was loaded, or is to be saved, is put into the caches; but null is *)
(* not put into RedisCache, and Redis may not have taken the copy.         *)
LEMMA PutFacts ==
  ASSUME Types, NEW s \in Sessions, Shape(s), Put(s)
  PROVE  LET c == session[s]
             d == session'[s]
             o == c.obj
         IN  /\ session' \in [Sessions -> SessionTypes] /\ c.pc = "put" /\ o \in Sessions
             /\ \/ /\ Others(s) /\ Keeping(s) /\ d.pc = "open" /\ d.lock = 0 /\ d.op = c.op
                   /\ c.op = "get" /\ d.obj = o /\ d.version = c.version
                \/ /\ Moved(s) /\ d.pc = "check" /\ d.op = c.op /\ d.lock = c.lock
                   /\ c.op = "save" /\ cached' = o
                \/ Caught(s) /\ cached' = o /\ useRedis
             /\ cached' \in {cached, "null", o} /\ copy' \in Copies
             /\ \/ UNCHANGED copy
                \/ /\ useRedis /\ cached' = o /\ copy'.version = object[o].version
                   /\ copy'.state = object[o].state /\ copy'.broken = object[o].broken
                   /\ object[o].changes # <<>> => "copied" \in happened'
             /\ callbacks' \in 0..MaxCallbacks /\ (useRedis => callbacks' = callbacks)
             /\ happened' = happened \/ happened' = happened \cup {"copied"}
<1> DEFINE c == session[s]
           o == c.obj
           isNull == c.op = "get" /\ object[o].version = 0
           d == [c EXCEPT !.pc = "open", !.lock = 0]
<1>0. c \in SessionTypes /\ c.pc = "put" /\ o \in Sessions
  BY DEF Types, Put, At, Shape, Holding
<1>1. PICK ending \in IF isNull THEN {"answered"} ELSE CacheEndings("set") :
        /\ IF isNull THEN SetNull ELSE SetTo(o, ending)
        /\ IF Answered(ending) /\ c.op = "get" THEN session' = [session EXCEPT ![s] = d]
           ELSE Goto(s, IF Answered(ending) THEN "check" ELSE "catch")
        /\ Note(IF useRedis /\ Ran(ending) /\ object[o].changes # <<>> THEN {"copied"} ELSE {})
  BY DEF Put
<1>2. /\ happened' = happened \/ happened' = happened \cup {"copied"}
      /\ useRedis /\ Ran(ending) /\ object[o].changes # <<>> => "copied" \in happened'
  BY <1>1 DEF Note
<1>3. /\ isNull => Answered(ending)
      /\ ~Answered(ending) => useRedis
  BY <1>1 DEF CacheEndings, Answered
<1>4. /\ cached' \in {cached, "null", o} /\ (~isNull => cached' = o) /\ copy' \in Copies
      /\ \/ UNCHANGED copy
         \/ /\ useRedis /\ cached' = o /\ copy'.version = object[o].version
            /\ copy'.state = object[o].state /\ copy'.broken = object[o].broken
            /\ object[o].changes # <<>> => "copied" \in happened'
      /\ callbacks' \in 0..MaxCallbacks /\ (useRedis => callbacks' = callbacks)
  <2>1. CASE isNull
    BY <1>1, <2>1, LeavesFacts DEF SetNull, caches, Types
  <2>2. CASE ~isNull
    <3>1. SetTo(o, ending)
      BY <1>1, <2>2
    <3>2. copy' = copy \/ (useRedis /\ Ran(ending))
      BY <3>1 DEF SetTo
    <3> QED
      BY <1>0, <1>2, <2>2, <3>1, <3>2, SetToFacts
  <2> QED
    BY <2>1, <2>2
<1>5. /\ d \in SessionTypes /\ d.pc = "open" /\ d.lock = 0 /\ d.op = c.op /\ d.obj = o
      /\ d.version = c.version /\ d.flushed = c.flushed /\ d.saved = c.saved /\ d.own = c.own
  BY <1>0 DEF SessionTypes
<1> HIDE DEF d
<1>6. CASE Answered(ending) /\ c.op = "get"
  <2>1. session' \in [Sessions -> SessionTypes] /\ session'[s] = d /\ Others(s)
    BY <1>1, <1>5, <1>6, SessionStep
  <2> QED
    BY <1>0, <1>2, <1>4, <1>5, <1>6, <2>1 DEF Keeping
<1>7. CASE Answered(ending) /\ c.op # "get"
  <2>1. Goto(s, "check") /\ c.op = "save" /\ ~isNull
    BY <1>0, <1>1, <1>7 DEF SessionTypes
  <2> HIDE DEF isNull
  <2> QED
    BY <1>0, <1>2, <1>4, <2>1, GotoFacts
<1>8. CASE ~Answered(ending)
  <2>1. Goto(s, "catch") /\ ~isNull /\ useRedis
    BY <1>1, <1>3, <1>8
  <2> HIDE DEF isNull
  <2> QED
    BY <1>0, <1>2, <1>4, <2>1, CaughtFacts
<1> QED
  BY <1>6, <1>7, <1>8

(* The session leaves with the exception, the entry is gone from memory.   *)
LEMMA CatchFacts ==
  ASSUME Types, NEW s \in Sessions, Shape(s), Catch(s)
  PROVE  LET c == session[s]
             d == session'[s]
         IN  /\ session' \in [Sessions -> SessionTypes] /\ Ended(s) /\ Removed
             /\ c.pc = "catch"
             /\ c.op = "save" => d.pc = "failed" /\ c.obj \in Sessions
             /\ c.op # "save" => d.pc = "done"
             /\ happened' = happened \/ happened' = happened \cup {"kept"}
             /\ copy' = NoCopy \/ (copy' = copy /\ (copy.broken => "kept" \in happened'))
<1>1. session[s].pc = "catch" /\ Release(s)
  BY DEF Catch, At
<1>2. PICK ending : Remove(ending) /\ Note(IF ~Ran(ending) /\ copy.broken THEN {"kept"} ELSE {})
  BY DEF Catch
<1>3. /\ happened' = happened \/ happened' = happened \cup {"kept"}
      /\ copy' = NoCopy \/ (copy' = copy /\ (copy.broken => "kept" \in happened'))
  BY <1>2 DEF Note, Remove
<1> QED
  BY <1>1, <1>2, <1>3, RemoveFacts, ReleaseFacts

LEMMA ChangeFacts ==
  ASSUME Types, NEW s \in Sessions, Shape(s), Change(s)
  PROVE  LET c == session[s]
             d == session'[s]
             o == c.obj
         IN  /\ session' \in [Sessions -> SessionTypes] /\ object' \in [Sessions -> Objects]
             /\ c.pc = "open" /\ o \in Sessions /\ nextId \in Ids /\ nextId' = nextId + 1
             /\ Others(s) /\ d.pc = "open" /\ d.op = c.op /\ d.lock = c.lock /\ d.obj = o
             /\ d.version = c.version /\ d.flushed = c.flushed /\ d.saved = c.saved
             /\ d.own = c.own \cup {nextId}
             /\ \A p \in Sessions : p # o => object'[p] = object[p]
             /\ object'[o].version = object[o].version /\ object'[o].broken = object[o].broken
             /\ object'[o].state = Append(object[o].state, nextId)
             /\ object'[o].changes = Append(object[o].changes, nextId)
<1> DEFINE c == session[s]
           o == c.obj
           x == [object[o] EXCEPT !.state = Append(@, nextId), !.changes = Append(@, nextId)]
           d == [c EXCEPT !.own = @ \cup {nextId}]
<1>0. c \in SessionTypes /\ c.pc = "open" /\ o \in Sessions
  BY DEF Types, Change, At, Shape, Holding, Working
<1>1. /\ nextId \in Ids /\ nextId' = nextId + 1
      /\ object' = [object EXCEPT ![o] = x] /\ session' = [session EXCEPT ![s] = d]
  <2>1. nextId <= MaxIds /\ nextId' = nextId + 1 /\ nextId \in 1..(MaxIds + 1)
    BY DEF Change, Types
  <2>2. nextId \in Ids
    BY <2>1, BoundsAssumption DEF Ids
  <2>3. object' = [object EXCEPT ![o] = x] /\ session' = [session EXCEPT ![s] = d]
    BY DEF Change
  <2> QED
    BY <2>1, <2>2, <2>3
<1>2. object[o] \in Objects
  BY <1>0 DEF Types
<1>3. object[o].state \in Seq(Ids) /\ object[o].changes \in Seq(Ids)
  BY <1>2 DEF Objects
<1>4. Append(object[o].state, nextId) \in Seq(Ids) /\ Append(object[o].changes, nextId) \in Seq(Ids)
  BY <1>1, <1>3
<1>5. /\ x \in Objects
      /\ x.version = object[o].version /\ x.broken = object[o].broken
      /\ x.state = Append(object[o].state, nextId)
      /\ x.changes = Append(object[o].changes, nextId)
  BY <1>2, <1>4 DEF Objects
<1>6. /\ d \in SessionTypes /\ d.pc = "open" /\ d.op = c.op /\ d.lock = c.lock /\ d.obj = o
      /\ d.version = c.version /\ d.flushed = c.flushed /\ d.saved = c.saved
      /\ d.own = c.own \cup {nextId}
  BY <1>0, <1>1 DEF SessionTypes
<1> HIDE DEF d, x
<1>7. session' \in [Sessions -> SessionTypes] /\ session'[s] = d /\ Others(s)
  BY <1>1, <1>6, SessionStep
<1>8. /\ object' \in [Sessions -> Objects] /\ object'[o] = x
      /\ \A p \in Sessions : p # o => object'[p] = object[p]
  BY <1>0, <1>1, <1>5, ObjectStep
<1> QED
  BY <1>0, <1>1, <1>5, <1>6, <1>7, <1>8

LEMMA AddAgainFacts ==
  ASSUME Types, NEW s \in Sessions, Shape(s), AddAgain(s)
  PROVE  LET c == session[s]
             d == session'[s]
         IN  /\ session' \in [Sessions -> SessionTypes] /\ Others(s) /\ Keeping(s)
             /\ c.pc = "failed" /\ c.obj \in Sessions
             /\ d.pc = "open" /\ d.op = c.op /\ d.lock = c.lock /\ d.obj = c.obj
             /\ d.version = object[c.obj].version
<1> DEFINE c == session[s]
           d == [c EXCEPT !.pc = "open", !.version = object[c.obj].version]
<1>0. c \in SessionTypes /\ c.pc = "failed" /\ c.obj \in Sessions
  BY DEF Types, AddAgain, At, Shape, Holding, Working
<1>1. session' = [session EXCEPT ![s] = d] /\ object[c.obj].version \in Nat
  BY <1>0 DEF AddAgain, Types, Objects
<1>2. /\ d \in SessionTypes /\ d.pc = "open" /\ d.op = c.op /\ d.lock = c.lock /\ d.obj = c.obj
      /\ d.version = object[c.obj].version /\ d.flushed = c.flushed /\ d.saved = c.saved
      /\ d.own = c.own
  BY <1>0, <1>1 DEF SessionTypes
<1> HIDE DEF d
<1> QED
  BY <1>0, <1>1, <1>2, SessionStep DEF Keeping

(* Whether the entry is there decides how a session goes on, if it knows.  *)
LEMMA IsTrackedFacts ==
  ASSUME Types, NEW s \in Sessions, Shape(s), GetIsTracked(s) \/ SaveIsTracked(s)
  PROVE  LET c == session[s]
             d == session'[s]
         IN  /\ session' \in [Sessions -> SessionTypes] /\ Moved(s)
             /\ c.pc = "tracked" /\ d.op = c.op /\ d.lock = c.lock
             /\ \/ c.op = "get" /\ d.pc \in {"get", "load", "catch"}
                \/ c.op = "save" /\ c.obj \in Sessions /\ d.pc \in {"check", "put", "catch"}
             /\ UNCHANGED <<store, object, caches, useRedis, lock, acked, happened>>
<1>1. /\ session[s].pc = "tracked"
      /\ \/ session[s].op = "get" /\ \E pc \in {"get", "load", "catch"} : Goto(s, pc)
         \/ session[s].op = "save" /\ \E pc \in {"check", "put", "catch"} : Goto(s, pc)
      /\ UNCHANGED <<store, object, caches, useRedis, lock, acked, happened>>
  BY DEF GetIsTracked, SaveIsTracked, At
<1>2. session[s].op = "save" => session[s].obj \in Sessions
  BY <1>1 DEF Shape, Holding, Working, Saves
<1> QED
  BY <1>1, <1>2, GotoFacts

(* The version check; the changes are flushed, and if there are none the   *)
(* save has ended.                                                         *)
LEMMA CheckFacts ==
  ASSUME Types, NEW s \in Sessions, Shape(s), Check(s)
  PROVE  LET c == session[s]
             d == session'[s]
             o == c.obj
             batch == object[o].changes
         IN  /\ session' \in [Sessions -> SessionTypes] /\ object' \in [Sessions -> Objects]
             /\ c.pc = "check" /\ c.op = "save" /\ o \in Sessions /\ UNCHANGED caches
             /\ \/ Caught(s) /\ UNCHANGED <<object, acked, happened>>
                \/ /\ VersionsAfter(c.version) = {}
                   /\ \A p \in Sessions : p # o => object'[p] = object[p]
                   /\ object'[o].version = object[o].version + Len(batch)
                   /\ object'[o].state = object[o].state /\ object'[o].changes = <<>>
                   /\ object'[o].broken = object[o].broken
                   /\ \E M \in SUBSET {"taken", "reused"} : happened' = happened \cup M
                   /\ object[o].broken => "reused" \in happened'
                   /\ "taken" \notin happened' => \A i \in DOMAIN batch : batch[i] \in c.own
                   /\ \/ /\ batch = <<>> /\ Ended(s) /\ d.pc = "done"
                         /\ acked' = acked \cup c.own /\ c.own \subseteq Ids
                      \/ /\ batch # <<>> /\ Others(s) /\ d.pc = "insert" /\ d.op = c.op
                         /\ d.lock = c.lock /\ d.obj = o /\ d.version = object[o].version
                         /\ d.flushed = batch /\ d.saved = 0 /\ d.own = c.own
                         /\ UNCHANGED acked
<1> DEFINE c == session[s]
           o == c.obj
           batch == object[o].changes
           x == [object[o] EXCEPT !.changes = <<>>, !.version = @ + Len(batch)]
           d == [c EXCEPT !.pc = "insert", !.flushed = batch, !.version = object[o].version]
<1>0. /\ c \in SessionTypes /\ c.pc = "check" /\ c.op = "save" /\ c.saved = 0
      /\ o \in Sessions /\ UNCHANGED caches
  BY DEF Types, Check, At, Shape, Holding, Working
<1>1. object[o] \in Objects
  BY <1>0 DEF Types
<1>2. batch \in Seq(Ids) /\ object[o].version \in Nat /\ <<>> \in Seq(Ids)
  BY <1>1 DEF Objects
<1>3. object[o].version + Len(batch) \in Nat
  BY <1>2
<1>4. /\ x \in Objects /\ x.version = object[o].version + Len(batch)
      /\ x.state = object[o].state /\ x.changes = <<>> /\ x.broken = object[o].broken
  BY <1>1, <1>2, <1>3 DEF Objects
<1>5. /\ d \in SessionTypes /\ d.pc = "insert" /\ d.op = c.op
      /\ d.lock = c.lock /\ d.obj = o /\ d.version = object[o].version
      /\ d.flushed = batch /\ d.saved = 0 /\ d.own = c.own
  BY <1>0, <1>2 DEF SessionTypes
<1> DEFINE Rest == /\ VersionsAfter(c.version) = {}
                   /\ object' = [object EXCEPT ![o] = x]
                   /\ IF batch = <<>> THEN Return(s)
                      ELSE session' = [session EXCEPT ![s] = d] /\ UNCHANGED acked
                   /\ Note((IF \E i \in DOMAIN batch : batch[i] \notin c.own
                            THEN {"taken"} ELSE {})
                           \cup (IF object[o].broken THEN {"reused"} ELSE {}))
<1>6. (Goto(s, "catch") /\ UNCHANGED <<object, acked, happened>>) \/ Rest
  BY DEF Check
<1>7. CASE Goto(s, "catch") /\ UNCHANGED <<object, acked, happened>>
  BY <1>0, <1>7, CaughtFacts DEF Types
<1>8. CASE Rest
  <2>1. VersionsAfter(c.version) = {} /\ UNCHANGED caches
    BY <1>0, <1>8
  <2> HIDE DEF x, d
  <2>2. /\ object' \in [Sessions -> Objects] /\ object'[o] = x
        /\ \A p \in Sessions : p # o => object'[p] = object[p]
    BY <1>0, <1>4, <1>8, ObjectStep
  <2>3. /\ \E M \in SUBSET {"taken", "reused"} : happened' = happened \cup M
        /\ object[o].broken => "reused" \in happened'
        /\ "taken" \notin happened' => \A i \in DOMAIN batch : batch[i] \in c.own
    <3> DEFINE M == (IF \E i \in DOMAIN batch : batch[i] \notin c.own THEN {"taken"} ELSE {})
                    \cup (IF object[o].broken THEN {"reused"} ELSE {})
    <3>1. happened' = happened \cup M
      BY <1>8 DEF Note
    <3>2. M \in SUBSET {"taken", "reused"}
      OBVIOUS
    <3>3. object[o].broken => "reused" \in M
      OBVIOUS
    <3>4. "taken" \notin M => \A i \in DOMAIN batch : batch[i] \in c.own
      OBVIOUS
    <3> HIDE DEF M
    <3> QED
      BY <3>1, <3>2, <3>3, <3>4
  <2>4. CASE batch = <<>>
    BY <1>0, <1>4, <1>8, <2>1, <2>2, <2>3, <2>4, ReturnFacts
  <2>5. CASE batch # <<>>
    <3>1. session' \in [Sessions -> SessionTypes] /\ session'[s] = d /\ Others(s) /\ acked' = acked
      BY <1>5, <1>8, <2>5, SessionStep
    <3> QED
      BY <1>0, <1>4, <1>5, <2>1, <2>2, <2>3, <2>5, <3>1
  <2> QED
    BY <2>4, <2>5
<1> HIDE DEF Rest
<1> QED
  BY <1>6, <1>7, <1>8

(* One event goes to the version after what is saved, or it throws.        *)
LEMMA InsertFacts ==
  ASSUME Types, NEW s \in Sessions, Shape(s), Insert(s)
  PROVE  LET c == session[s]
             d == session'[s]
             o == c.obj
             n == c.saved + 1
             v == c.version + n
         IN  /\ session' \in [Sessions -> SessionTypes] /\ object' \in [Sessions -> Objects]
             /\ c.pc = "insert" /\ c.op = "save" /\ o \in Sessions /\ UNCHANGED caches
             /\ n \in 1..Len(c.flushed) /\ c.flushed[n] \in Ids
             /\ rows' = rows \/ (rows[v] = 0 /\ rows' = [rows EXCEPT ![v] = c.flushed[n]])
             /\ \/ /\ Caught(s) /\ UNCHANGED acked
                   /\ \A p \in Sessions : p # o => object'[p] = object[p]
                   /\ object'[o].version = object[o].version /\ object'[o].state = object[o].state
                   /\ object'[o].changes = object[o].changes /\ object'[o].broken = TRUE
                \/ /\ rows[v] = 0 /\ rows' = [rows EXCEPT ![v] = c.flushed[n]]
                   /\ UNCHANGED object
                   /\ \/ /\ n = Len(c.flushed) /\ Ended(s) /\ d.pc = "done"
                         /\ acked' = acked \cup c.own /\ c.own \subseteq Ids
                      \/ /\ n < Len(c.flushed) /\ Others(s) /\ d.pc = "insert" /\ d.op = c.op
                         /\ d.lock = c.lock /\ d.obj = o /\ d.version = c.version
                         /\ d.flushed = c.flushed /\ d.saved = n /\ d.own = c.own
                         /\ UNCHANGED acked
<1> DEFINE c == session[s]
           o == c.obj
           n == c.saved + 1
           v == c.version + n
           x == [object[o] EXCEPT !.broken = TRUE]
           d == [c EXCEPT !.saved = n]
<1>0. /\ c \in SessionTypes /\ c.pc = "insert" /\ c.op = "save" /\ c.saved < Len(c.flushed)
      /\ o \in Sessions /\ c.op = "save" /\ UNCHANGED caches
  BY DEF Types, Insert, At, Shape, Holding, Working
<1>1. object[o] \in Objects
  BY <1>0 DEF Types
<1>2. n \in 1..Len(c.flushed) /\ n \in Nat /\ c.flushed[n] \in Ids /\ (n < Len(c.flushed) \/ n = Len(c.flushed))
  <2>1. c.saved \in Nat /\ c.flushed \in Seq(Ids)
    BY <1>0 DEF SessionTypes
  <2>2. n \in 1..Len(c.flushed) /\ n \in Nat /\ (n < Len(c.flushed) \/ n = Len(c.flushed))
    BY <1>0, <2>1
  <2> QED
    BY <2>1, <2>2
<1>3. /\ x \in Objects /\ x.version = object[o].version
      /\ x.state = object[o].state /\ x.changes = object[o].changes /\ x.broken = TRUE
  BY <1>1 DEF Objects
<1>4. /\ d \in SessionTypes /\ d.pc = "insert" /\ d.op = c.op
      /\ d.lock = c.lock /\ d.obj = o /\ d.version = c.version
      /\ d.flushed = c.flushed /\ d.saved = n /\ d.own = c.own
  BY <1>0, <1>2 DEF SessionTypes
<1>5. rows' = rows \/ (rows[v] = 0 /\ rows' = [rows EXCEPT ![v] = c.flushed[n]])
  BY DEF Insert
<1> DEFINE Fails == Goto(s, "catch") /\ object' = [object EXCEPT ![o] = x] /\ UNCHANGED acked
           Rest == /\ rows[v] = 0 /\ rows' = [rows EXCEPT ![v] = c.flushed[n]]
                   /\ IF n = Len(c.flushed) THEN Return(s)
                      ELSE session' = [session EXCEPT ![s] = d] /\ UNCHANGED acked
                   /\ UNCHANGED object
<1>6. Fails \/ Rest
  BY DEF Insert, Answered, Ran
<1>7. CASE Fails
  <2> HIDE DEF x
  <2>1. Goto(s, "catch") /\ object' = [object EXCEPT ![o] = x] /\ UNCHANGED acked
    BY <1>7
  <2>2. /\ object' \in [Sessions -> Objects] /\ object'[o] = x
        /\ \A p \in Sessions : p # o => object'[p] = object[p]
    BY <1>0, <1>3, <2>1, ObjectStep
  <2> QED
    BY <1>0, <1>2, <1>3, <1>5, <2>1, <2>2, CaughtFacts
<1>8. CASE Rest
  <2> HIDE DEF d
  <2>1. /\ rows[v] = 0 /\ rows' = [rows EXCEPT ![v] = c.flushed[n]]
        /\ UNCHANGED object /\ object \in [Sessions -> Objects]
    BY <1>8 DEF Types
  <2>2. CASE n = Len(c.flushed)
    <3>1. Return(s)
      BY <1>8, <2>2
    <3> QED
      BY <1>0, <1>2, <1>5, <2>1, <2>2, <3>1, ReturnFacts
  <2>3. CASE n # Len(c.flushed)
    <3>1. session' = [session EXCEPT ![s] = d] /\ UNCHANGED acked /\ n < Len(c.flushed)
      BY <1>2, <1>8, <2>3
    <3>2. session' \in [Sessions -> SessionTypes] /\ session'[s] = d /\ Others(s)
      BY <1>4, <3>1, SessionStep
    <3> QED
      BY <1>0, <1>2, <1>4, <1>5, <2>1, <3>1, <3>2
  <2> QED
    BY <2>2, <2>3
<1> HIDE DEF Fails, Rest
<1> QED
  BY <1>6, <1>7, <1>8

-----------------------------------------------------------------------------
(* The types are inductive.                                                *)

LEMMA InitTypes == Init => TypeInv
<1> SUFFICES ASSUME Init PROVE TypeInv
  OBVIOUS
<1>1. Types
  BY FreshTypes, BoundsAssumption, ChoicesAssumption DEF Init, Types, Marks
<1>2. ASSUME NEW s \in Sessions PROVE Shape(s)
  BY DEF Init, Fresh, Shape, Using, Inside, At, Holding, Working, Saves
<1> QED
  BY <1>1, <1>2 DEF TypeInv, ShapeInv

LEMMA ShapeStep ==
  ASSUME TypeInv, NEW s \in Sessions, Others(s), Shape(s)'
  PROVE  ShapeInv'
<1>1. ASSUME NEW t \in Sessions, t # s PROVE Shape(t)'
  <2>1. session'[t] = session[t] /\ Shape(t)
    BY <1>1 DEF Others, TypeInv, ShapeInv
  <2> QED
    BY <2>1 DEF Shape, Using, Inside, At, Holding, Working, Saves
<1> QED
  BY <1>1 DEF ShapeInv

LEMMA EndedShape ==
  ASSUME NEW s \in Sessions, Shape(s), Ended(s), session[s].pc \in {"check", "insert", "catch"}
  PROVE  Shape(s)'
<1>1. session[s].op = "save" => session[s].obj \in Sessions
  BY DEF Shape, Holding, Working, Saves
<1> QED
  BY <1>1 DEF Ended, Shape, Using, Inside, At, Holding, Working, Saves

LEMMA CaughtShape ==
  ASSUME Types, NEW s \in Sessions, Shape(s), Caught(s), Inside(s)
  PROVE  Shape(s)'
<1>1. session[s] \in SessionTypes /\ Using(s) /\ ~At(s, "open") /\ ~At(s, "failed")
  BY DEF Types, Using, Inside, At
<1>2. Using(s)' /\ session'[s].pc = "catch"
  BY DEF Caught, Using, Inside, At
<1>3. /\ Working(s)' <=> session[s].op = "save"
      /\ Holding(s)' <=> session[s].op = "save"
  BY <1>2 DEF Caught, Holding, Working, Saves
<1>4. session[s].op = "save" => session[s].obj \in Sessions
  BY <1>1 DEF Shape, Holding, Working, Saves, Inside, At
<1>5. session[s].op # "save" => session[s].own = {}
  BY <1>1 DEF Shape, Working, Saves, At, Inside
<1>6. session[s].saved <= Len(session[s].flushed)
  BY DEF Shape
<1> QED
  BY <1>1, <1>2, <1>3, <1>4, <1>5, <1>6 DEF Caught, Moved, Shape

(* The calls of the store and of the lock.                                 *)
LEMMA TypesStep ==
  ASSUME TypeInv, NEW s \in Sessions,
         Acquire(s) \/ GetAsync(s) \/ Change(s) \/ AddAgain(s) \/ SaveAsync(s) \/ Put(s) \/ Catch(s)
  PROVE  TypeInv'
<1> DEFINE c == session[s]
           d == session'[s]
<1>0. Types /\ Shape(s) /\ c \in SessionTypes
  BY DEF TypeInv, ShapeInv, Types
<1>1. CASE Acquire(s)
  <2>1. c.pc = "wait" /\ Goto(s, "tracked") /\ Using(s)
    BY <1>1 DEF Acquire, At, Using
  <2>2. session' \in [Sessions -> SessionTypes] /\ Moved(s)
        /\ d.pc = "tracked" /\ d.op = c.op /\ d.lock = c.lock
    BY <1>0, <2>1, GotoFacts
  <2>3. Shape(s)'
    BY <1>0, <2>1, <2>2 DEF Moved, Shape, Using, Inside, At, Holding, Working, Saves
  <2>4. Types'
    BY <1>0, <1>1, <2>2 DEF Acquire, Types, store, caches, bounds
  <2> QED
    BY <2>2, <2>3, <2>4, ShapeStep DEF Moved, TypeInv
<1>2. CASE StartGet(s) \/ StartSave(s)
  <2>1. PICK op \in {"get", "save"} :
          /\ Enter(s, op)
          /\ op = "get" => c.pc = "new"
          /\ op = "save" => c.pc = "open"
    BY <1>2 DEF StartGet, StartSave, At
  <2>2. session' \in [Sessions -> SessionTypes] /\ Moved(s)
        /\ d.pc = "wait" /\ d.op = op /\ d.lock # 0 /\ lock' \in Locks
    BY <1>0, <2>1, EnterFacts
  <2>3. Shape(s)'
    BY <1>0, <2>1, <2>2 DEF Moved, Shape, Using, Inside, At, Holding, Working, Saves
  <2>4. Types'
    BY <1>0, <1>2, <2>2 DEF StartGet, StartSave, Types, store, caches, bounds
  <2> QED
    BY <2>2, <2>3, <2>4, ShapeStep DEF Moved, TypeInv
<1>3. CASE GetIsTracked(s) \/ SaveIsTracked(s)
  <2>1. /\ session' \in [Sessions -> SessionTypes] /\ Moved(s)
        /\ c.pc = "tracked" /\ d.op = c.op /\ d.lock = c.lock
        /\ \/ c.op = "get" /\ d.pc \in {"get", "load", "catch"}
           \/ c.op = "save" /\ c.obj \in Sessions /\ d.pc \in {"check", "put", "catch"}
        /\ UNCHANGED <<store, object, caches, useRedis, lock, acked, happened>>
    BY <1>0, <1>3, IsTrackedFacts
  <2>2. Shape(s)'
    BY <1>0, <2>1 DEF Moved, Shape, Using, Inside, At, Holding, Working, Saves
  <2>3. faults' \in 0..MaxFaults /\ expiries' \in 0..MaxExpiries
    BY <1>0, <1>3, CacheCount DEF GetIsTracked, SaveIsTracked
  <2>4. Types'
    BY <1>0, <2>1, <2>3 DEF Types, store, caches
  <2> QED
    BY <2>1, <2>2, <2>4, ShapeStep DEF Moved, TypeInv
<1>4. CASE Get(s)
  <2>1. session' \in [Sessions -> SessionTypes] /\ object' \in [Sessions -> Objects] /\ Others(s)
        /\ cached' \in Sessions \cup {"none", "null"} /\ copy' \in Copies
        /\ callbacks' \in 0..MaxCallbacks
    BY ZenonT(60), <1>0, <1>4, GetFacts DEF Caught, Moved, Types, caches
  <2>2. Shape(s)'
    <3>1. CASE Caught(s)
      BY <1>0, <1>4, <3>1, GetFacts, CaughtShape DEF Inside
    <3>2. CASE ~Caught(s)
      <4>1. /\ c.pc = "get" /\ d.pc \in {"catchup", "catch"} /\ d.op = c.op /\ d.lock = c.lock
            /\ d.obj \in Sessions /\ Keeping(s)
        BY <1>0, <1>4, <3>2, GetFacts
      <4> QED
        BY <1>0, <4>1 DEF Keeping, Shape, Using, Inside, At, Holding, Working, Saves
    <3> QED
      BY <3>1, <3>2
  <2>3. faults' \in 0..MaxFaults /\ expiries' \in 0..MaxExpiries
    BY <1>0, <1>4, CacheCount DEF Get, GetObject, GetCopy, GetNothing, Types, bounds
  <2>4. UNCHANGED <<store, useRedis, lock, acked, happened>>
    BY <1>4 DEF Get, GetObject, GetCopy, GetNothing
  <2>5. Types'
    BY <1>0, <2>1, <2>3, <2>4 DEF Types, store
  <2> QED
    BY <2>1, <2>2, <2>5, ShapeStep DEF TypeInv
<1>5. CASE CatchUp(s)
  <2>1. /\ session' \in [Sessions -> SessionTypes] /\ object' \in [Sessions -> Objects] /\ Others(s)
        /\ UNCHANGED caches
    BY ZenonT(60), <1>0, <1>5, CatchUpFacts DEF Moved, Types
  <2>2. happened' \subseteq Marks
    BY ZenonT(60), <1>0, <1>5, CatchUpFacts DEF Types, Marks
  <2>3. Shape(s)'
    <3>1. /\ c.pc = "catchup" /\ c.obj \in Sessions /\ d.op = c.op /\ d.obj = c.obj
          /\ d.flushed = c.flushed /\ d.saved = c.saved /\ d.own = c.own
          /\ \/ d.pc \in {"discard", "catch"} /\ d.lock = c.lock
             \/ d.pc = "open" /\ d.lock = 0
      BY <1>0, <1>5, CatchUpFacts DEF Keeping, Moved
    <3> QED
      BY <1>0, <3>1 DEF Shape, Using, Inside, At, Holding, Working, Saves
  <2>4. faults' \in 0..MaxFaults /\ expiries' \in 0..MaxExpiries
    BY <1>0, <1>5, CountFacts DEF CatchUp
  <2>5. Types'
    BY <1>0, <1>5, <2>1, <2>2, <2>4 DEF CatchUp, Types, store, caches
  <2> QED
    BY <2>1, <2>3, <2>5, ShapeStep DEF TypeInv
<1>6. CASE Discard(s)
  <2>1. /\ session' \in [Sessions -> SessionTypes] /\ Moved(s) /\ Removed
        /\ c.pc = "discard" /\ d.pc \in {"load", "catch"} /\ d.op = c.op /\ d.lock = c.lock
    BY <1>0, <1>6, DiscardFacts
  <2>2. Shape(s)'
    BY <1>0, <2>1 DEF Moved, Shape, Using, Inside, At, Holding, Working, Saves
  <2>3. faults' \in 0..MaxFaults /\ expiries' \in 0..MaxExpiries
    BY <1>0, <1>6, CacheCount DEF Discard
  <2>4. Types'
    BY <1>0, <1>6, <2>1, <2>3 DEF Discard, Removed, Types, store
  <2> QED
    BY <2>1, <2>2, <2>4, ShapeStep DEF Moved, TypeInv
<1>7. CASE Load(s)
  <2>1. /\ session' \in [Sessions -> SessionTypes] /\ object' \in [Sessions -> Objects] /\ Others(s)
        /\ UNCHANGED caches
    BY ZenonT(60), <1>0, <1>7, LoadFacts DEF Caught, Moved, Types
  <2>2. Shape(s)'
    <3>1. CASE Caught(s)
      BY <1>0, <1>7, <3>1, LoadFacts, CaughtShape DEF Inside
    <3>2. CASE ~Caught(s)
      <4>1. /\ c.pc = "load" /\ d.pc = "put" /\ d.lock = c.lock /\ d.op = c.op /\ d.obj = s
            /\ Keeping(s)
        BY <1>0, <1>7, <3>2, LoadFacts
      <4> QED
        BY <1>0, <4>1 DEF Keeping, Shape, Using, Inside, At, Holding, Working, Saves
    <3> QED
      BY <3>1, <3>2
  <2>3. faults' \in 0..MaxFaults /\ expiries' \in 0..MaxExpiries
    BY <1>0, <1>7, CountFacts DEF Load
  <2>4. Types'
    BY <1>0, <1>7, <2>1, <2>3 DEF Load, Types, store, caches
  <2> QED
    BY <2>1, <2>2, <2>4, ShapeStep DEF TypeInv
<1>8. CASE Put(s)
  <2>1. /\ session' \in [Sessions -> SessionTypes] /\ Others(s)
        /\ cached' \in Sessions \cup {"none", "null"} /\ copy' \in Copies
        /\ callbacks' \in 0..MaxCallbacks
    BY ZenonT(60), <1>0, <1>8, PutFacts DEF Caught, Moved, Types
  <2>2. happened' \subseteq Marks
    BY ZenonT(60), <1>0, <1>8, PutFacts DEF Types, Marks
  <2>3. Shape(s)'
    <3>1. CASE Caught(s)
      BY <1>0, <1>8, <3>1, PutFacts, CaughtShape DEF Inside
    <3>2. CASE ~Caught(s)
      <4>1. /\ c.pc = "put" /\ c.obj \in Sessions /\ d.op = c.op /\ d.obj = c.obj
            /\ d.flushed = c.flushed /\ d.saved = c.saved /\ d.own = c.own
            /\ \/ d.pc = "open" /\ d.lock = 0
               \/ d.pc = "check" /\ d.lock = c.lock /\ c.op = "save"
        BY <1>0, <1>8, <3>2, PutFacts DEF Keeping, Moved
      <4> QED
        BY <1>0, <4>1 DEF Shape, Using, Inside, At, Holding, Working, Saves
    <3> QED
      BY <3>1, <3>2
  <2>4. faults' \in 0..MaxFaults /\ expiries' \in 0..MaxExpiries
    <3>1. PICK ending \in CacheEndings("set") : Count(ending)
      BY <1>8 DEF Put, CacheEndings, Endings
    <3> QED
      BY <1>0, <3>1, CacheCount
  <2>5. Types'
    BY <1>0, <1>8, <2>1, <2>2, <2>4 DEF Put, Types, store
  <2> QED
    BY <2>1, <2>3, <2>5, ShapeStep DEF TypeInv
<1>9. CASE Catch(s)
  <2>1. /\ session' \in [Sessions -> SessionTypes] /\ Ended(s) /\ Removed /\ c.pc = "catch"
    BY <1>0, <1>9, CatchFacts
  <2>2. happened' \subseteq Marks
    BY ZenonT(60), <1>0, <1>9, CatchFacts DEF Types, Marks
  <2>3. Shape(s)'
    BY <1>0, <2>1, EndedShape
  <2>4. faults' \in 0..MaxFaults /\ expiries' \in 0..MaxExpiries
    BY <1>0, <1>9, CacheCount DEF Catch
  <2>5. Types'
    BY <1>0, <1>9, <2>1, <2>2, <2>4 DEF Catch, Removed, Types, store
  <2> QED
    BY <2>1, <2>3, <2>5, ShapeStep DEF Ended, TypeInv
<1>10. CASE Change(s)
  <2>1. /\ session' \in [Sessions -> SessionTypes] /\ object' \in [Sessions -> Objects] /\ Others(s)
        /\ nextId \in Ids /\ nextId' = nextId + 1
        /\ c.pc = "open" /\ d.pc = "open" /\ d.op = c.op /\ d.lock = c.lock /\ d.obj = c.obj
        /\ d.flushed = c.flushed /\ d.saved = c.saved
    BY <1>0, <1>10, ChangeFacts
  <2>2. Shape(s)'
    BY <1>0, <2>1 DEF Shape, Using, Inside, At, Holding, Working, Saves
  <2>3. nextId' \in 1..(MaxIds + 1)
    BY <2>1, BoundsAssumption DEF Ids
  <2>4. Types'
    BY <1>0, <1>10, <2>1, <2>3 DEF Change, Types, caches, bounds
  <2> QED
    BY <2>1, <2>2, <2>4, ShapeStep DEF TypeInv
<1>11. CASE AddAgain(s)
  <2>1. /\ session' \in [Sessions -> SessionTypes] /\ Others(s) /\ Keeping(s)
        /\ c.pc = "failed" /\ c.obj \in Sessions
        /\ d.pc = "open" /\ d.op = c.op /\ d.lock = c.lock /\ d.obj = c.obj
    BY <1>0, <1>11, AddAgainFacts
  <2>2. Shape(s)'
    BY <1>0, <2>1 DEF Keeping, Shape, Using, Inside, At, Holding, Working, Saves
  <2>3. Types'
    BY <1>0, <1>11, <2>1 DEF AddAgain, Types, store, caches, bounds
  <2> QED
    BY <2>1, <2>2, <2>3, ShapeStep DEF TypeInv
<1>12. CASE Check(s)
  <2>1. /\ session' \in [Sessions -> SessionTypes] /\ object' \in [Sessions -> Objects] /\ Others(s)
        /\ UNCHANGED caches /\ acked' \subseteq Ids
    BY <1>0, <1>12, CheckFacts DEF Caught, Moved, Ended, Types
  <2>2. happened' \subseteq Marks
    BY ZenonT(60), <1>0, <1>12, CheckFacts DEF Types, Marks
  <2>3. Shape(s)'
    <3>1. CASE Ended(s)
      BY <1>0, <1>12, <3>1, CheckFacts, EndedShape
    <3>3. CASE Caught(s)
      BY <1>0, <1>12, <3>3, CheckFacts, CaughtShape DEF Inside
    <3>2. CASE ~Ended(s) /\ ~Caught(s)
      <4>1. /\ c.pc = "check" /\ c.obj \in Sessions /\ object[c.obj].changes # <<>>
            /\ d.pc = "insert" /\ d.op = c.op /\ d.lock = c.lock /\ d.obj = c.obj
            /\ d.flushed = object[c.obj].changes /\ d.saved = 0
        BY <1>0, <1>12, <3>2, CheckFacts
      <4>2. 0 < Len(d.flushed)
        <5>1. object[c.obj].changes \in Seq(Ids)
          BY <1>0, <4>1 DEF Types, Objects
        <5> QED
          BY <4>1, <5>1
      <4> QED
        BY <1>0, <4>1, <4>2 DEF Shape, Using, Inside, At, Holding, Working, Saves
    <3> QED
      BY <3>1, <3>2, <3>3
  <2>4. faults' \in 0..MaxFaults /\ expiries' \in 0..MaxExpiries
    BY <1>0, <1>12, CountFacts DEF Check
  <2>5. Types'
    BY <1>0, <1>12, <2>1, <2>2, <2>4 DEF Check, Types, store, caches
  <2> QED
    BY <2>1, <2>3, <2>5, ShapeStep DEF TypeInv
<1>13. CASE Insert(s)
  <2>1. /\ session' \in [Sessions -> SessionTypes] /\ object' \in [Sessions -> Objects] /\ Others(s)
        /\ UNCHANGED caches /\ acked' \subseteq Ids
    BY <1>0, <1>13, InsertFacts DEF Caught, Moved, Ended, Types
  <2>2. rows' \in [Ids -> Ids \cup {0}]
    BY <1>0, <1>13, InsertFacts DEF Types
  <2>3. Shape(s)'
    <3>1. CASE Ended(s)
      BY <1>0, <1>13, <3>1, InsertFacts, EndedShape
    <3>3. CASE Caught(s)
      BY <1>0, <1>13, <3>3, InsertFacts, CaughtShape DEF Inside
    <3>2. CASE ~Ended(s) /\ ~Caught(s)
      <4>1. /\ c.pc = "insert" /\ c.obj \in Sessions /\ c.saved + 1 < Len(c.flushed)
            /\ d.pc = "insert" /\ d.op = c.op /\ d.lock = c.lock /\ d.obj = c.obj
            /\ d.flushed = c.flushed /\ d.saved = c.saved + 1
        BY <1>0, <1>13, <3>2, InsertFacts
      <4>2. d.saved <= Len(d.flushed)
        BY <1>0, <4>1 DEF SessionTypes
      <4> QED
        BY <1>0, <4>1, <4>2 DEF Shape, Using, Inside, At, Holding, Working, Saves
    <3> QED
      BY <3>1, <3>2, <3>3
  <2>4. faults' \in 0..MaxFaults /\ expiries' \in 0..MaxExpiries
    BY <1>0, <1>13, CountFacts DEF Insert
  <2>5. Types'
    BY <1>0, <1>13, <2>1, <2>2, <2>4 DEF Insert, Types, caches
  <2> QED
    BY <2>1, <2>3, <2>5, ShapeStep DEF TypeInv
<1> QED
  BY <1>1, <1>2, <1>3, <1>4, <1>5, <1>7, <1>10, <1>11, <1>12, <1>13, <1>6, <1>8, <1>9
     DEF GetAsync, SaveAsync

(* A step is one of a session, or the caches', or of another process; the  *)
(* last two leave the sessions and the objects alone.                      *)
Acts(s) ==
    Acquire(s) \/ GetAsync(s) \/ Change(s) \/ AddAgain(s) \/ SaveAsync(s) \/ Put(s) \/ Catch(s)

LEMMA ExpireFacts ==
  ASSUME Types, Expire
  PROVE  /\ UNCHANGED <<store, object, session, useRedis, lock, acked, happened>>
         /\ cached' = cached \/ cached' = "none"
         /\ copy' = copy \/ copy' = NoCopy
         /\ callbacks' \in 0..MaxCallbacks /\ (useRedis => callbacks' = callbacks)
BY LeavesFacts DEF Expire, Types

LEMMA RunCallbackFacts ==
  ASSUME Types, RunCallback
  PROVE  /\ UNCHANGED <<store, object, session, cached, copy, useRedis, acked>>
         /\ callbacks # 0 /\ callbacks' \in 0..MaxCallbacks
         /\ happened' = happened \/ happened' = happened \cup {"evicted"}
BY BoundsAssumption DEF RunCallback, Note, Types

LEMMA ElsewhereFacts ==
  ASSUME Types, Elsewhere
  PROVE  /\ UNCHANGED <<object, session, caches, useRedis, lock, acked, happened>>
         /\ nextId \in Ids /\ nextId' = nextId + 1 /\ rows' \in [Ids -> Ids \cup {0}]
         /\ \E last \in 0..(MaxIds - 1) :
              /\ last = 0 \/ rows[last] # 0
              /\ \A k \in VersionsAfter(0) : k <= last
              /\ rows' = [rows EXCEPT ![last + 1] = nextId]
<1>1. nextId \in Ids /\ nextId' = nextId + 1
  BY BoundsAssumption DEF Elsewhere, Types, Ids
<1> DEFINE IsLast(v) == (v = 0 \/ rows[v] # 0) /\ \A k \in VersionsAfter(0) : k <= v
           last == CHOOSE v \in 0..MaxIds : IsLast(v)
<1>2. last < MaxIds /\ rows' = [rows EXCEPT ![last + 1] = nextId]
  BY DEF Elsewhere
<1>3. \E v \in 0..MaxIds : IsLast(v)
  <2> DEFINE T == {v \in Nat : \A k \in VersionsAfter(0) : k <= v}
  <2>1. MaxIds \in T
    BY BoundsAssumption DEF VersionsAfter, Ids
  <2>2. PICK v \in T : \A n \in T : v <= n
    <3>1. T \in SUBSET Nat
      OBVIOUS
    <3>2. \E k \in T : \A n \in T : ~(<<n, k>> \in OpToRel(<, Nat))
      BY <2>1, <3>1, NatLessThanWellFounded, WFMin
    <3>3. PICK k \in T : \A n \in T : ~(<<n, k>> \in OpToRel(<, Nat))
      BY <3>2
    <3>4. \A n \in T : n < k => <<n, k>> \in OpToRel(<, Nat)
      BY <3>1 DEF OpToRel
    <3>5. \A n \in T : ~(n < k) /\ n \in Nat /\ k \in Nat
      BY <3>1, <3>3, <3>4
    <3> QED
      BY <3>5
  <2>3. v \in 0..MaxIds
    BY <2>1, <2>2, BoundsAssumption
  <2>4. v = 0 \/ v \in VersionsAfter(0)
    <3> SUFFICES ASSUME v # 0, v \notin VersionsAfter(0) PROVE FALSE
      OBVIOUS
    <3>1. v - 1 \in T
      BY <2>2 DEF VersionsAfter, Ids
    <3> QED
      BY <2>2, <3>1
  <2>5. v = 0 \/ rows[v] # 0
    BY <2>4 DEF VersionsAfter
  <2> QED
    BY <2>2, <2>3, <2>5
<1>4. last \in 0..MaxIds /\ IsLast(last)
  BY <1>3
<1> HIDE DEF last
<1>5. last \in 0..(MaxIds - 1)
  BY <1>2, <1>4, BoundsAssumption
<1>6. rows' \in [Ids -> Ids \cup {0}]
  BY <1>1, <1>2 DEF Types
<1> QED
  BY <1>1, <1>2, <1>4, <1>5, <1>6 DEF Elsewhere

LEMMA NextTypes == TypeInv /\ [Next]_vars => TypeInv'
<1> SUFFICES ASSUME TypeInv, [Next]_vars PROVE TypeInv'
  OBVIOUS
<1>1. ASSUME UNCHANGED session PROVE ShapeInv'
  BY <1>1 DEF TypeInv, ShapeInv, Shape, Using, Inside, At, Holding, Working, Saves
<1>2. CASE Expire
  <2>1. expiries' \in 0..MaxExpiries /\ faults' = faults
    BY <1>2, BoundsAssumption DEF TypeInv, Types, Expire
  <2>2. Types'
    BY <1>2, <2>1, ExpireFacts, FreshTypes DEF TypeInv, Types, store
  <2> QED
    BY <1>1, <1>2, <2>2, ExpireFacts DEF TypeInv
<1>3. CASE RunCallback
  <2>1. happened' \subseteq Marks /\ UNCHANGED bounds /\ lock' = 0
    BY <1>3, RunCallbackFacts DEF TypeInv, Types, Marks, RunCallback
  <2>2. Types'
    BY <1>3, <2>1, RunCallbackFacts DEF TypeInv, Types, store, bounds
  <2> QED
    BY <1>1, <1>3, <2>2, RunCallbackFacts DEF TypeInv
<1>4. CASE Elsewhere
  <2>1. nextId' \in 1..(MaxIds + 1) /\ UNCHANGED bounds
    BY <1>4, ElsewhereFacts, BoundsAssumption DEF TypeInv, Ids, Elsewhere
  <2>2. Types'
    BY <1>4, <2>1, ElsewhereFacts DEF TypeInv, Types, caches, bounds
  <2> QED
    BY <1>1, <1>4, <2>2, ElsewhereFacts DEF TypeInv
<1>5. CASE UNCHANGED vars
  <2>1. Types'
    BY <1>5 DEF TypeInv, Types, vars, store, caches, bounds
  <2> QED
    BY <1>1, <1>5, <2>1 DEF TypeInv, vars
<1> QED
  BY <1>2, <1>3, <1>4, <1>5, TypesStep DEF Next

-----------------------------------------------------------------------------
(* RedisCache has a copy beside the entry, and its entries leave without a *)
(* callback, so that it takes no semaphore from anybody.                   *)
RedisInv ==
    /\ copy # NoCopy => useRedis
    /\ useRedis => callbacks = 0 /\ Never({"evicted"})

(* What a session has not loaded yet nobody else holds, and the caches     *)
(* hold it only when it was made of the copy, or could not be copied.      *)
KeepsCopy(s) == session[s].pc \in {"catchup", "discard", "catch"}

SoleInv ==
    \A s \in Sessions : Loading(s) =>
        /\ \A t \in Sessions : t # s => Obj(t) # s
        /\ cached = s => useRedis /\ KeepsCopy(s)

BaseInv == TypeInv /\ LockInv /\ RedisInv /\ SoleInv

LEMMA HappenedGrows == [Next]_vars => happened \subseteq happened'
<1> SUFFICES ASSUME [Next]_vars PROVE happened \subseteq happened'
  OBVIOUS
<1>1. CASE Expire \/ RunCallback \/ Elsewhere \/ UNCHANGED vars
  BY <1>1 DEF Expire, RunCallback, Elsewhere, Note, vars
<1>2. ASSUME NEW s \in Sessions, Acts(s) PROVE happened \subseteq happened'
  BY <1>2 DEF Acts, Acquire, GetAsync, Change, AddAgain, SaveAsync, StartGet, GetIsTracked, Get,
     GetObject, GetCopy, GetNothing, CatchUp, Discard, Load, Put, Catch, StartSave, SaveIsTracked,
     Check, Insert, Note
<1> QED
  BY <1>1, <1>2 DEF Next, Acts

(* What a session does to the caches.                                      *)
LEMMA CacheFacts ==
  ASSUME TypeInv, NEW s \in Sessions, Acts(s)
  PROVE  /\ useRedis' = useRedis
         /\ copy' = copy \/ copy' = NoCopy \/ useRedis
         /\ useRedis => callbacks' = callbacks
         /\ "evicted" \in happened' => "evicted" \in happened
<1>0. Types /\ Shape(s)
  BY DEF TypeInv, ShapeInv
<1>1. CASE Acquire(s) \/ StartGet(s) \/ Change(s) \/ AddAgain(s) \/ StartSave(s)
  BY <1>1 DEF Acquire, StartGet, Change, AddAgain, StartSave, caches
<1>2. CASE GetIsTracked(s) \/ SaveIsTracked(s)
  BY <1>0, <1>2, IsTrackedFacts DEF caches
<1>3. CASE Get(s)
  <2>1. UNCHANGED <<useRedis, happened>>
    BY <1>3 DEF Get, GetObject, GetCopy, GetNothing
  <2> QED
    BY <1>0, <1>3, <2>1, GetFacts DEF caches
<1>4. CASE CatchUp(s)
  <2>1. useRedis' = useRedis
    BY <1>4 DEF CatchUp
  <2>2. /\ happened' = happened \/ happened' = happened \cup {"mixed"}
        /\ UNCHANGED caches
    BY <1>0, <1>4, CatchUpFacts
  <2> QED
    BY <2>1, <2>2 DEF caches
<1>5. CASE Discard(s)
  BY <1>0, <1>5, DiscardFacts DEF Discard, Removed
<1>6. CASE Load(s)
  BY <1>0, <1>6, LoadFacts DEF Load, caches
<1>7. CASE Put(s)
  <2>1. useRedis' = useRedis
    BY <1>7 DEF Put
  <2> QED
    BY <1>0, <1>7, <2>1, PutFacts
<1>8. CASE Catch(s)
  <2>1. useRedis' = useRedis
    BY <1>8 DEF Catch
  <2> QED
    BY <1>0, <1>8, <2>1, CatchFacts DEF Removed
<1>9. CASE Check(s)
  <2>1. useRedis' = useRedis
    BY <1>9 DEF Check
  <2>2. /\ happened' = happened \/ \E M \in SUBSET {"taken", "reused"} : happened' = happened \cup M
        /\ UNCHANGED caches
    BY <1>0, <1>9, CheckFacts
  <2> QED
    BY <2>1, <2>2 DEF caches
<1>10. CASE Insert(s)
  BY <1>0, <1>10, InsertFacts DEF Insert, caches
<1> QED
  BY <1>1, <1>2, <1>3, <1>4, <1>5, <1>6, <1>7, <1>8, <1>9, <1>10 DEF Acts, GetAsync, SaveAsync

LEMMA RedisStep == TypeInv /\ RedisInv /\ [Next]_vars => RedisInv'
<1> SUFFICES ASSUME TypeInv, RedisInv, [Next]_vars PROVE RedisInv'
  OBVIOUS
<1>1. ASSUME NEW s \in Sessions, Acts(s) PROVE RedisInv'
  BY <1>1, CacheFacts DEF RedisInv, Never
<1>2. CASE Expire
  BY <1>2, ExpireFacts DEF TypeInv, RedisInv, Never
<1>3. CASE RunCallback
  BY <1>3, RunCallbackFacts DEF TypeInv, RedisInv, Never
<1>4. CASE Elsewhere
  BY <1>4 DEF Elsewhere, RedisInv, Never, caches
<1>5. CASE UNCHANGED vars
  BY <1>5 DEF RedisInv, Never, vars, caches
<1> QED
  BY <1>1, <1>2, <1>3, <1>4, <1>5 DEF Next, Acts

(* Nobody starts to load again, and what is held was held or is cached.    *)
LEMMA HeldFacts ==
  ASSUME TypeInv, RedisInv, NEW s \in Sessions, Acts(s)
  PROVE  /\ Others(s)
         /\ Loading(s)' => Loading(s)
         /\ Obj(s)' \in {Obj(s), s, "none"} \/ (At(s, "get") /\ Obj(s)' = cached)
         /\ \/ cached' \in {cached, "none", "null"}
            \/ cached' = s /\ Loading(s) /\ (Loading(s)' => useRedis /\ KeepsCopy(s)')
            \/ cached' = Obj(s) /\ ~Loading(s)
         /\ KeepsCopy(s) /\ Loading(s)' => cached' = "none" \/ (cached' = cached /\ KeepsCopy(s)')
<1> DEFINE c == session[s]
           d == session'[s]
<1>0. Types /\ Shape(s) /\ c \in SessionTypes
  BY DEF TypeInv, ShapeInv, Types
<1>1. CASE Acquire(s)
  <2>1. c.pc = "wait" /\ Goto(s, "tracked") /\ cached' = cached
    BY <1>1 DEF Acquire, At, caches
  <2> QED
    BY <1>0, <2>1, GotoFacts DEF Moved, Loading, Obj, At, KeepsCopy
<1>2. CASE StartGet(s) \/ StartSave(s)
  <2>1. PICK op \in {"get", "save"} :
          /\ Enter(s, op)
          /\ op = "get" => c.pc = "new"
          /\ op = "save" => c.pc = "open"
    BY <1>2 DEF StartGet, StartSave, At
  <2>2. cached' = cached
    BY <1>2 DEF StartGet, StartSave, caches
  <2>3. /\ Moved(s) /\ d.pc = "wait" /\ d.op = op
    BY <1>0, <2>1, EnterFacts
  <2> QED
    BY <1>0, <2>1, <2>2, <2>3 DEF Moved, Loading, Obj, At, KeepsCopy, Shape
<1>3. CASE GetIsTracked(s) \/ SaveIsTracked(s)
  BY <1>0, <1>3, IsTrackedFacts DEF Moved, Loading, Obj, At, KeepsCopy, caches
<1>4. CASE Get(s)
  <2>1. c.pc = "get" /\ c.op = "get"
    BY <1>0, <1>4, GetFacts DEF Shape
  <2>2. copy # NoCopy => useRedis
    BY DEF RedisInv
  <2> QED
    BY <1>0, <1>4, <2>1, <2>2, GetFacts DEF Caught, Moved, Loading, Obj, At, KeepsCopy, caches
<1>5. CASE CatchUp(s)
  <2>1. c.pc = "catchup" /\ c.op = "get"
    BY <1>0, <1>5 DEF CatchUp, At, Shape
  <2> QED
    BY <1>0, <1>5, <2>1, CatchUpFacts DEF Moved, Loading, Obj, At, KeepsCopy, caches
<1>6. CASE Discard(s)
  BY <1>0, <1>6, DiscardFacts DEF Moved, Removed, Loading, Obj, At, KeepsCopy
<1>9. CASE Load(s)
  <2>1. c.pc = "load" /\ c.op = "get"
    BY <1>0, <1>9 DEF Load, At, Shape
  <2> QED
    BY <1>0, <1>9, <2>1, LoadFacts DEF Caught, Moved, Loading, Obj, At, KeepsCopy, caches
<1>12. CASE Put(s)
  <2>1. c.pc = "put" /\ c.op \in {"get", "save"}
    BY <1>0, <1>12 DEF Put, At, SessionTypes
  <2> QED
    BY <1>0, <1>12, <2>1, PutFacts DEF Shape, Caught, Moved, Loading, Obj, At, KeepsCopy
<1>13. CASE Catch(s)
  BY <1>0, <1>13, CatchFacts DEF Ended, Removed, Loading, Obj, At, KeepsCopy
<1>7. CASE Change(s)
  <2>1. cached' = cached
    BY <1>7 DEF Change, caches
  <2> QED
    BY <1>0, <1>7, <2>1, ChangeFacts DEF Loading, Obj, At, KeepsCopy
<1>8. CASE AddAgain(s)
  <2>1. cached' = cached
    BY <1>8 DEF AddAgain, caches
  <2> QED
    BY <1>0, <1>8, <2>1, AddAgainFacts DEF Loading, Obj, At, KeepsCopy
<1>10. CASE Check(s)
  BY <1>0, <1>10, CheckFacts DEF Caught, Moved, Ended, Loading, Obj, At, KeepsCopy, caches
<1>11. CASE Insert(s)
  BY <1>0, <1>11, InsertFacts DEF Caught, Moved, Ended, Loading, Obj, At, KeepsCopy, caches
<1> QED
  BY <1>1, <1>2, <1>3, <1>4, <1>5, <1>6, <1>7, <1>8, <1>9, <1>10, <1>11, <1>12, <1>13
     DEF Acts, GetAsync, SaveAsync

LEMMA Excludes ==
  ASSUME LockInv, Never({"evicted"}), NEW s \in Sessions, NEW t \in Sessions, Inside(s), Inside(t)
  PROVE  s = t
BY DEF LockInv, HolderInv, SameInv, Using

LEMMA SoleStep == BaseInv /\ [Next]_vars => SoleInv'
<1> SUFFICES ASSUME BaseInv, [Next]_vars PROVE SoleInv'
  OBVIOUS
<1>0. TypeInv /\ LockInv /\ RedisInv /\ SoleInv
  BY DEF BaseInv
<1>1. ASSUME NEW s \in Sessions, Acts(s) PROVE SoleInv'
  <2>1. Others(s) /\ (Loading(s)' => Loading(s)) /\ useRedis' = useRedis
    BY <1>0, <1>1, HeldFacts, CacheFacts
  <2>2. Obj(s)' \in {Obj(s), s, "none"} \/ (At(s, "get") /\ Obj(s)' = cached)
    BY <1>0, <1>1, HeldFacts
  <2>3. \/ cached' \in {cached, "none", "null"}
        \/ cached' = s /\ Loading(s) /\ (Loading(s)' => useRedis /\ KeepsCopy(s)')
        \/ cached' = Obj(s) /\ ~Loading(s)
    BY <1>0, <1>1, HeldFacts
  <2>4. KeepsCopy(s) /\ Loading(s)' => cached' = "none" \/ (cached' = cached /\ KeepsCopy(s)')
    BY <1>0, <1>1, HeldFacts
  <2>5. ASSUME NEW q \in Sessions, Loading(q)'
        PROVE  /\ \A t \in Sessions : t # q => Obj(t)' # q
               /\ cached' = q => useRedis' /\ KeepsCopy(q)'
    <3>1. CASE q = s
      BY <1>0, <2>1, <2>3, <2>4, <2>5, <3>1, NamesAssumption DEF SoleInv, Others, Obj
    <3>2. CASE q # s
      <4>1. Loading(q) /\ session'[q] = session[q]
        BY <2>1, <2>5, <3>2 DEF Loading, Others
      <4>2. /\ \A t \in Sessions : t # q => Obj(t) # q
            /\ cached = q => useRedis /\ KeepsCopy(q)
        BY <1>0, <4>1 DEF SoleInv
      <4>3. ~(At(s, "get") /\ cached = q)
        BY <1>0, <3>2, <4>2, Excludes DEF RedisInv, KeepsCopy, Inside, At
      <4>4. Obj(s)' # q
        BY <2>2, <3>2, <4>2, <4>3, NamesAssumption
      <4>5. ASSUME cached' = q PROVE useRedis' /\ KeepsCopy(q)'
        BY <2>1, <2>3, <3>2, <4>1, <4>2, <4>5, NamesAssumption DEF KeepsCopy
      <4> QED
        BY <2>1, <4>2, <4>4, <4>5 DEF Others, Obj
    <3> QED
      BY <3>1, <3>2
  <2> QED
    BY <2>5 DEF SoleInv
<1>2. CASE Expire
  BY <1>0, <1>2, ExpireFacts, NamesAssumption DEF TypeInv, SoleInv, Loading, Obj, KeepsCopy
<1>3. CASE UNCHANGED <<session, cached, useRedis>>
  BY <1>0, <1>3 DEF SoleInv, Loading, Obj, KeepsCopy
<1>4. CASE RunCallback \/ Elsewhere \/ UNCHANGED vars
  BY <1>3, <1>4 DEF RunCallback, Elsewhere, vars, caches
<1> QED
  BY <1>1, <1>2, <1>4 DEF Next, Acts

LEMMA InitBase == Init => BaseInv
<1> SUFFICES ASSUME Init PROVE BaseInv
  OBVIOUS
<1>1. RedisInv
  BY DEF Init, RedisInv, Never
<1>2. SoleInv
  BY NamesAssumption DEF Init, Fresh, SoleInv, Loading, Obj
<1> QED
  BY <1>1, <1>2, InitTypes, InitLockInv DEF BaseInv

LEMMA BaseStep == BaseInv /\ [Next]_vars => BaseInv'
BY NextTypes, NextLockInv, RedisStep, SoleStep DEF BaseInv

LEMMA BaseInvariant == Spec => []BaseInv
BY InitBase, BaseStep, PTL DEF Spec

-----------------------------------------------------------------------------
(* Every event is waiting in one object, once, until a commit flushes it.  *)

Pending(o) == Range(object[o].changes)

ApartInv ==
    /\ \A o \in Sessions : IsInjective(object[o].changes)
    /\ \A o \in Sessions : Pending(o) \subseteq 1..(nextId - 1)
    /\ \A o, p \in Sessions : o # p => Pending(o) \cap Pending(p) = {}

LEMMA AppendFacts ==
  ASSUME NEW q \in Seq(Ids), NEW e \in Ids
  PROVE  /\ Range(Append(q, e)) = Range(q) \cup {e}
         /\ e \notin Range(q) /\ IsInjective(q) => IsInjective(Append(q, e))
<1> DEFINE r == Append(q, e)
<1>1. /\ DOMAIN q = 1..Len(q) /\ Len(q) \in Nat /\ DOMAIN r = 1..(Len(q) + 1)
      /\ \A i \in 1..Len(q) : r[i] = q[i]
      /\ r[Len(q) + 1] = e
  OBVIOUS
<1> HIDE DEF r
<1>2. \A i \in DOMAIN r : i \in DOMAIN q \/ i = Len(q) + 1
  BY <1>1
<1>3. \A i \in DOMAIN q : i \in DOMAIN r /\ r[i] = q[i]
  BY <1>1
<1>4. Len(q) + 1 \in DOMAIN r
  BY <1>1
<1>5. Range(r) = Range(q) \cup {e}
  BY <1>1, <1>2, <1>3, <1>4 DEF Range
<1>6. ASSUME e \notin Range(q), IsInjective(q) PROVE IsInjective(r)
  BY <1>1, <1>2, <1>3, <1>6 DEF Range, IsInjective
<1> QED
  BY <1>5, <1>6 DEF r

LEMMA EmptyFacts == Range(<<>>) = {} /\ IsInjective(<<>>)
BY DEF Range, IsInjective

LEMMA InjectiveFacts ==
  ASSUME NEW q \in Seq(Ids), IsInjective(q)
  PROVE  IsFiniteSet(Range(q)) /\ Cardinality(Range(q)) = Len(q)
<1>1. Len(q) \in Nat /\ DOMAIN q = 1..Len(q)
  OBVIOUS
<1>2. q \in Bijection(1..Len(q), Range(q))
  BY <1>1 DEF Bijection, Injection, Surjection, Range, IsInjective
<1>3. IsFiniteSet(1..Len(q)) /\ Cardinality(1..Len(q)) = Len(q)
  <2>1. Len(q) \in Nat
    OBVIOUS
  <2>2. /\ 1 \in Int /\ Len(q) \in Int
        /\ (IF 1 > Len(q) THEN 0 ELSE Len(q) - 1 + 1) = Len(q)
    BY <2>1
  <2> QED
    BY <2>2, FS_Interval
<1> HIDE <1>1
<1> QED
  BY <1>2, <1>3, FS_Bijection DEF ExistsBijection

(* What the steps do to the changes that are not committed.                *)
ChangesStay ==
    nextId' \in {nextId, nextId + 1} /\ \A p \in Sessions : object'[p].changes = object[p].changes
ChangesGo(o) ==
    /\ nextId' = nextId /\ object'[o].changes = <<>>
    /\ \A p \in Sessions : p # o => object'[p].changes = object[p].changes
ChangesGrow(o) ==
    /\ nextId \in Ids /\ nextId' = nextId + 1
    /\ object'[o].changes = Append(object[o].changes, nextId)
    /\ \A p \in Sessions : p # o => object'[p].changes = object[p].changes

LEMMA ChangesFacts ==
  ASSUME TypeInv, [Next]_vars
  PROVE  \/ ChangesStay
         \/ \E o \in Sessions : ChangesGo(o) \/ ChangesGrow(o)
<1> USE DEF TypeInv, ShapeInv
<1>1. CASE Expire \/ RunCallback \/ UNCHANGED vars
  BY <1>1 DEF Expire, RunCallback, vars, store, ChangesStay
<1>2. CASE Elsewhere
  BY <1>2, ElsewhereFacts DEF ChangesStay
<1>3. ASSUME NEW s \in Sessions, Acts(s)
      PROVE  ChangesStay \/ \E o \in Sessions : ChangesGo(o) \/ ChangesGrow(o)
  <2>0. Types /\ Shape(s)
    OBVIOUS
  <2>1. CASE Acquire(s) \/ StartGet(s) \/ GetIsTracked(s) \/ AddAgain(s) \/ StartSave(s)
             \/ SaveIsTracked(s) \/ Discard(s) \/ Put(s) \/ Catch(s)
    BY <2>1 DEF Acquire, StartGet, GetIsTracked, AddAgain, StartSave, SaveIsTracked, Discard, Put,
       Catch, store, ChangesStay
  <2>2. CASE Get(s)
    <3>1. nextId' = nextId
      BY <2>2 DEF Get, GetObject, GetCopy, GetNothing, store
    <3>2. UNCHANGED object \/ (object'[s].changes = <<>>
                               /\ \A p \in Sessions : p # s => object'[p] = object[p])
      BY <2>0, <2>2, GetFacts
    <3> QED
      BY <3>1, <3>2 DEF ChangesStay, ChangesGo
  <2>3. CASE CatchUp(s)
    <3>1. nextId' = nextId
      BY <2>3 DEF CatchUp, store
    <3>2. \/ UNCHANGED object
          \/ /\ object'[Obj(s)].changes = object[Obj(s)].changes
             /\ \A p \in Sessions : p # Obj(s) => object'[p] = object[p]
      BY <2>0, <2>3, CatchUpFacts DEF Obj
    <3> QED
      BY <3>1, <3>2 DEF ChangesStay
  <2>4. CASE Load(s)
    <3>1. nextId' = nextId
      BY <2>4 DEF Load, store
    <3>2. UNCHANGED object \/ (object'[s].changes = <<>>
                               /\ \A p \in Sessions : p # s => object'[p] = object[p])
      BY <2>0, <2>4, LoadFacts
    <3> QED
      BY <3>1, <3>2 DEF ChangesStay, ChangesGo
  <2>5. CASE Change(s)
    BY SMTT(30), <2>0, <2>5, ChangeFacts DEF ChangesGrow
  <2>6. CASE Check(s)
    <3>1. nextId' = nextId
      BY <2>6 DEF Check, store
    <3>2. /\ Obj(s) \in Sessions
          /\ \/ UNCHANGED object
             \/ /\ object'[Obj(s)].changes = <<>>
                /\ \A p \in Sessions : p # Obj(s) => object'[p] = object[p]
      BY <2>0, <2>6, CheckFacts DEF Obj
    <3> QED
      BY <3>1, <3>2 DEF ChangesStay, ChangesGo
  <2>7. CASE Insert(s)
    <3>1. nextId' = nextId
      BY <2>7 DEF Insert
    <3>2. \A p \in Sessions : object'[p].changes = object[p].changes
      <4>1. \/ UNCHANGED object
            \/ /\ object'[Obj(s)].changes = object[Obj(s)].changes
               /\ \A p \in Sessions : p # Obj(s) => object'[p] = object[p]
        BY <2>0, <2>7, InsertFacts DEF Obj
      <4> QED
        BY <4>1
    <3> QED
      BY <3>1, <3>2 DEF ChangesStay
  <2> QED
    BY <1>3, <2>1, <2>2, <2>3, <2>4, <2>5, <2>6, <2>7 DEF Acts, GetAsync, SaveAsync
<1> QED
  BY <1>1, <1>2, <1>3 DEF Next, Acts

LEMMA ApartStep == TypeInv /\ ApartInv /\ [Next]_vars => ApartInv'
<1> SUFFICES ASSUME TypeInv, ApartInv, [Next]_vars PROVE ApartInv'
  OBVIOUS
<1>0. nextId \in Nat /\ \A p \in Sessions : object[p].changes \in Seq(Ids)
  BY DEF TypeInv, Types, Objects
<1>1. CASE ChangesStay
  <2>1. nextId' \in Nat /\ nextId <= nextId'
    BY <1>0, <1>1 DEF ChangesStay
  <2>2. \A p \in Sessions : Pending(p)' = Pending(p)
    BY <1>1 DEF ChangesStay, Pending
  <2> QED
    BY <1>0, <1>1, <2>1, <2>2 DEF ChangesStay, ApartInv
<1>2. ASSUME NEW o \in Sessions, ChangesGo(o) PROVE ApartInv'
  <2>1. \A p \in Sessions : p # o => Pending(p)' = Pending(p)
    BY <1>2 DEF ChangesGo, Pending
  <2>2. Pending(o)' = {} /\ IsInjective(object[o].changes)'
    BY <1>2, EmptyFacts DEF ChangesGo, Pending
  <2> QED
    BY <1>0, <1>2, <2>1, <2>2 DEF ChangesGo, ApartInv
<1>3. ASSUME NEW o \in Sessions, ChangesGrow(o) PROVE ApartInv'
  <2>1. \A p \in Sessions : p # o => Pending(p)' = Pending(p)
    BY <1>3 DEF ChangesGrow, Pending
  <2>2. \A p \in Sessions : nextId \notin Pending(p) /\ Pending(p) \subseteq 1..nextId
    BY <1>0 DEF ApartInv
  <2>3. Pending(o)' = Pending(o) \cup {nextId} /\ IsInjective(object[o].changes)'
    BY <1>0, <1>3, <2>2, AppendFacts DEF ChangesGrow, Pending, ApartInv
  <2>4. nextId' - 1 = nextId /\ nextId \in 1..nextId
    BY <1>0, <1>3 DEF ChangesGrow, Ids
  <2>5. \A p \in Sessions : IsInjective(object[p].changes)'
    <3>1. \A p \in Sessions : p # o => object'[p].changes = object[p].changes
      BY <1>3 DEF ChangesGrow
    <3> QED
      BY <2>3, <3>1 DEF ApartInv
  <2>6. \A p \in Sessions : Pending(p)' \subseteq 1..nextId
    BY <2>1, <2>2, <2>3, <2>4
  <2>7. \A p, q \in Sessions : p # q => Pending(p)' \cap Pending(q)' = {}
    BY <2>1, <2>2, <2>3 DEF ApartInv
  <2> QED
    BY <2>4, <2>5, <2>6, <2>7 DEF ApartInv
<1> QED
  BY <1>1, <1>2, <1>3, ChangesFacts

-----------------------------------------------------------------------------
(* No version is beyond the number of events that are not waiting: those   *)
(* that a commit flushed, or that another process stored.                  *)

Used == {id \in 1..(nextId - 1) : \A o \in Sessions : id \notin Pending(o)}
Room(v) == v <= Cardinality(Used)

VersionInv ==
    /\ \A k \in Ids : rows[k] # 0 => Room(k)
    /\ \A o \in Sessions : Room(object[o].version)
    /\ \A s \in Sessions : Room(session[s].version + Len(session[s].flushed))
    /\ Room(copy.version)

LEMMA IdsFacts ==
  ASSUME NEW n \in 1..(MaxIds + 1), NEW U \in SUBSET (1..(n - 1))
  PROVE  IsFiniteSet(U) /\ Cardinality(U) \in 0..MaxIds
<1> DEFINE m == n - 1
<1>1. m \in Nat /\ m <= MaxIds
  BY BoundsAssumption
<1>2. U \in SUBSET (1..m)
  OBVIOUS
<1> HIDE DEF m
<1>3. IsFiniteSet(1..m) /\ Cardinality(1..m) = m
  <2>1. 1 \in Int /\ m \in Int /\ (1 > m => m = 0) /\ m - 1 + 1 = m
    BY <1>1
  <2> QED
    BY <2>1, FS_Interval
<1>4. IsFiniteSet(U) /\ Cardinality(U) <= m
  BY <1>2, <1>3, FS_Subset
<1> QED
  BY <1>1, <1>4, FS_CardinalityType, BoundsAssumption

LEMMA UsedFacts ==
  ASSUME TypeInv
  PROVE  IsFiniteSet(Used) /\ Cardinality(Used) \in 0..MaxIds
<1>1. nextId \in 1..(MaxIds + 1) /\ Used \in SUBSET (1..(nextId - 1))
  BY DEF TypeInv, Types, Used
<1> QED
  BY <1>1, IdsFacts

LEMMA UsedFactsNext ==
  ASSUME TypeInv, [Next]_vars
  PROVE  IsFiniteSet(Used') /\ Cardinality(Used') \in 0..MaxIds
<1>1. TypeInv'
  BY NextTypes
<1>2. nextId' \in 1..(MaxIds + 1) /\ Used' \in SUBSET (1..(nextId' - 1))
  BY <1>1 DEF TypeInv, Types, Used
<1> QED
  BY <1>2, IdsFacts

LEMMA UsedGrows ==
  ASSUME TypeInv, ApartInv, [Next]_vars
  PROVE  /\ Used \subseteq Used'
         /\ \A v \in Nat : Room(v) => Room(v)'
<1>0. nextId \in Nat /\ TypeInv'
  BY NextTypes DEF TypeInv, Types
<1>1. ASSUME NEW id \in Used PROVE id \in Used'
  <2>1. id \in 1..(nextId - 1) /\ \A o \in Sessions : id \notin Pending(o)
    BY DEF Used
  <2>2. CASE ChangesStay
    <3>1. id \in 1..(nextId' - 1)
      BY <1>0, <2>1, <2>2 DEF ChangesStay
    <3> QED
      BY <2>1, <2>2, <3>1 DEF ChangesStay, Used, Pending
  <2>3. ASSUME NEW o \in Sessions, ChangesGo(o) PROVE id \in Used'
    <3>1. \A p \in Sessions : id \notin Pending(p)'
      BY <2>1, <2>3, EmptyFacts DEF ChangesGo, Pending
    <3> QED
      BY <2>1, <2>3, <3>1 DEF ChangesGo, Used
  <2>4. ASSUME NEW o \in Sessions, ChangesGrow(o) PROVE id \in Used'
    <3>1. id \in 1..(nextId' - 1) /\ id # nextId
      BY <1>0, <2>1, <2>4 DEF ChangesGrow
    <3>2. object[o].changes \in Seq(Ids) /\ IsInjective(object[o].changes)
          /\ nextId \notin Range(object[o].changes) /\ nextId \in Ids
      <4>1. object[o].changes \in Seq(Ids) /\ nextId \in Ids
        BY <2>4 DEF TypeInv, Types, Objects, ChangesGrow
      <4>2. IsInjective(object[o].changes) /\ Range(object[o].changes) \subseteq 1..(nextId - 1)
        BY DEF ApartInv, Pending
      <4>3. nextId \notin 1..(nextId - 1)
        BY <1>0
      <4> QED
        BY <4>1, <4>2, <4>3
    <3>3. Pending(o)' = Pending(o) \cup {nextId}
      BY <2>4, <3>2, AppendFacts DEF ChangesGrow, Pending
    <3>4. \A p \in Sessions : p # o => Pending(p)' = Pending(p)
      BY <2>4 DEF ChangesGrow, Pending
    <3>5. \A p \in Sessions : id \notin Pending(p)'
      BY <2>1, <3>1, <3>3, <3>4
    <3> QED
      BY <3>1, <3>5 DEF Used
  <2> QED
    BY <2>2, <2>3, <2>4, ChangesFacts
<1>2. /\ IsFiniteSet(Used) /\ Cardinality(Used) \in Nat
      /\ IsFiniteSet(Used') /\ Cardinality(Used') \in Nat
  BY UsedFacts, UsedFactsNext
<1>3. Used \in SUBSET Used'
  BY <1>1
<1>4. Cardinality(Used) <= Cardinality(Used')
  BY <1>2, <1>3, FS_Subset
<1> QED
  BY <1>2, <1>3, <1>4 DEF Room

(* A flush makes room for what it flushed; an event of another process     *)
(* makes room for itself.                                                  *)
LEMMA FlushRoom ==
  ASSUME TypeInv, ApartInv, [Next]_vars, NEW o \in Sessions, ChangesGo(o)
  PROVE  Cardinality(Used) + Len(object[o].changes) <= Cardinality(Used')
<1> DEFINE batch == object[o].changes
<1>1. batch \in Seq(Ids) /\ IsInjective(batch)
  BY DEF TypeInv, Types, Objects, ApartInv
<1>2. Pending(o) \subseteq Used'
  <2> SUFFICES ASSUME NEW id \in Pending(o) PROVE id \in Used'
    OBVIOUS
  <2>1. id \in 1..(nextId' - 1)
    BY DEF ApartInv, ChangesGo
  <2>2. \A p \in Sessions : p # o => id \notin Pending(p)'
    BY DEF ApartInv, Pending, ChangesGo
  <2>3. Pending(o)' = {}
    BY EmptyFacts DEF Pending, ChangesGo
  <2> QED
    BY <2>1, <2>2, <2>3 DEF Used
<1>3. Used \cup Pending(o) \in SUBSET Used' /\ Used \cap Pending(o) = {}
  BY <1>2, UsedGrows DEF Used
<1>4. IsFiniteSet(Pending(o)) /\ Cardinality(Pending(o)) = Len(batch) /\ Len(batch) \in Nat
  BY <1>1, InjectiveFacts DEF Pending
<1> HIDE DEF batch
<1>5. /\ IsFiniteSet(Used) /\ Cardinality(Used) \in Nat
      /\ IsFiniteSet(Used') /\ Cardinality(Used') \in Nat
  BY UsedFacts, UsedFactsNext
<1>6. Cardinality(Used \cup Pending(o)) = Cardinality(Used) + Len(batch)
  <2>1. Cardinality(Used \cup Pending(o)) =
          Cardinality(Used) + Cardinality(Pending(o)) - Cardinality(Used \cap Pending(o))
    BY <1>4, <1>5, FS_Union
  <2>2. Cardinality(Used \cap Pending(o)) = 0
    BY <1>3, FS_EmptySet
  <2> QED
    BY <1>4, <1>5, <2>1, <2>2
<1>7. Cardinality(Used \cup Pending(o)) <= Cardinality(Used')
  BY <1>3, <1>5, FS_Subset
<1> QED
  BY <1>6, <1>7 DEF batch

LEMMA ElsewhereRoom ==
  ASSUME TypeInv, ApartInv, Elsewhere
  PROVE  Cardinality(Used) + 1 <= Cardinality(Used')
<1>0. [Next]_vars
  BY DEF Next
<1>1. nextId \in Nat /\ nextId' = nextId + 1 /\ UNCHANGED object
  BY ElsewhereFacts DEF TypeInv, Types
<1>2. nextId \in Used' /\ nextId \notin Used
  <2>1. \A p \in Sessions : nextId \notin Pending(p)'
    BY <1>1 DEF ApartInv, Pending
  <2>2. nextId \in 1..(nextId' - 1) /\ nextId \notin 1..(nextId - 1)
    BY <1>1, ElsewhereFacts DEF TypeInv, Ids
  <2> QED
    BY <2>1, <2>2 DEF Used
<1>3. Used \cup {nextId} \in SUBSET Used'
  BY <1>0, <1>2, UsedGrows
<1>4. /\ IsFiniteSet(Used) /\ Cardinality(Used) \in Nat
      /\ IsFiniteSet(Used') /\ Cardinality(Used') \in Nat
  BY <1>0, UsedFacts, UsedFactsNext
<1>5. Cardinality(Used \cup {nextId}) = Cardinality(Used) + 1
  BY <1>2, <1>4, FS_AddElement
<1>6. Cardinality(Used \cup {nextId}) <= Cardinality(Used')
  BY <1>3, <1>4, FS_Subset
<1> QED
  BY <1>5, <1>6

RoomNext(v) == v <= Cardinality(Used')

LEMMA RoomKept ==
  ASSUME TypeInv, ApartInv, VersionInv, [Next]_vars
  PROVE  /\ \A k \in Ids : rows[k] # 0 => RoomNext(k)
         /\ \A o \in Sessions : RoomNext(object[o].version)
         /\ \A s \in Sessions : RoomNext(session[s].version + Len(session[s].flushed))
         /\ \A s \in Sessions : RoomNext(session[s].version)
         /\ RoomNext(copy.version) /\ RoomNext(0)
<1>1. \A v \in Nat : Room(v) => RoomNext(v)
  BY UsedGrows DEF Room, RoomNext
<1>2. Room(0)
  BY UsedFacts DEF Room
<1>3. \A k \in Ids : k \in Nat
  BY DEF Ids
<1>4. \A o \in Sessions : object[o].version \in Nat
  BY DEF TypeInv, Types, Objects
<1>5. ASSUME NEW s \in Sessions
      PROVE  RoomNext(session[s].version + Len(session[s].flushed)) /\ RoomNext(session[s].version)
  <2>1. session[s].version \in Nat /\ Len(session[s].flushed) \in Nat
    BY DEF TypeInv, Types, SessionTypes
  <2>2. Room(session[s].version + Len(session[s].flushed))
    BY DEF VersionInv
  <2>3. Room(session[s].version)
    BY <2>1, <2>2, UsedFacts DEF Room
  <2> QED
    BY <1>1, <2>1, <2>2, <2>3
<1>6. copy.version \in Nat
  BY DEF TypeInv, Types, Copies
<1> QED
  BY <1>1, <1>2, <1>3, <1>4, <1>5, <1>6 DEF VersionInv

LEMMA VersionStep ==
  ASSUME TypeInv, ApartInv, VersionInv, [Next]_vars
  PROVE  VersionInv'
<1>0. /\ \A k \in Ids : rows[k] # 0 => RoomNext(k)
      /\ \A o \in Sessions : RoomNext(object[o].version)
      /\ \A s \in Sessions : RoomNext(session[s].version + Len(session[s].flushed))
      /\ \A s \in Sessions : RoomNext(session[s].version)
      /\ RoomNext(copy.version) /\ RoomNext(0)
  BY RoomKept
<1>1. ASSUME \A k \in Ids : rows'[k] # 0 => RoomNext(k),
             \A o \in Sessions : RoomNext(object'[o].version),
             \A t \in Sessions : RoomNext(session'[t].version + Len(session'[t].flushed)),
             RoomNext(copy'.version)
      PROVE  VersionInv'
  BY <1>1 DEF VersionInv, Room, RoomNext
<1>2. CASE Expire \/ RunCallback \/ UNCHANGED vars
  <2>1. UNCHANGED <<rows, object, session>> /\ copy' \in {copy, NoCopy}
    BY <1>2 DEF Expire, RunCallback, vars, store, caches
  <2>2. RoomNext(copy'.version)
    BY <1>0, <2>1 DEF NoCopy
  <2> QED
    BY <1>0, <1>1, <2>1, <2>2
<1>3. CASE Elsewhere
  <2>1. UNCHANGED <<object, session, copy>>
    BY <1>3, ElsewhereFacts DEF TypeInv, caches
  <2>2. \A k \in Ids : rows'[k] # 0 => RoomNext(k)
    <3>1. PICK last \in 0..(MaxIds - 1) :
            (last = 0 \/ rows[last] # 0) /\ rows' = [rows EXCEPT ![last + 1] = nextId]
      BY <1>3, ElsewhereFacts DEF TypeInv
    <3>2. last = 0 \/ last \in Ids
      BY BoundsAssumption DEF Ids
    <3>3. last <= Cardinality(Used)
      BY <3>1, <3>2, UsedFacts DEF VersionInv, Room
    <3>4. RoomNext(last + 1)
      BY <1>3, <3>3, ElsewhereRoom, UsedFacts, UsedFactsNext DEF RoomNext
    <3>5. \A k \in Ids : k # last + 1 => rows'[k] = rows[k]
      BY <3>1 DEF TypeInv, Types
    <3> QED
      BY <1>0, <3>4, <3>5
  <2> QED
    BY <1>0, <1>1, <2>1, <2>2
<1>4. ASSUME NEW s \in Sessions, Acts(s) PROVE VersionInv'
  <2> DEFINE c == session[s]
             d == session'[s]
             o == Obj(s)
  <2>0. Types /\ Shape(s) /\ c \in SessionTypes /\ c.version \in Nat /\ Len(<<>>) = 0
    BY DEF TypeInv, ShapeInv, Types, SessionTypes
  <2>1. ASSUME Others(s), RoomNext(d.version + Len(d.flushed))
        PROVE  \A t \in Sessions : RoomNext(session'[t].version + Len(session'[t].flushed))
    BY <1>0, <2>1 DEF Others
  <2>2. ASSUME Ended(s)
        PROVE  \A t \in Sessions : RoomNext(session'[t].version + Len(session'[t].flushed))
    BY <1>0, <2>0, <2>1, <2>2 DEF Ended
  <2>3. ASSUME Moved(s)
        PROVE  \A t \in Sessions : RoomNext(session'[t].version + Len(session'[t].flushed))
    BY <1>0, <2>1, <2>3 DEF Moved
  <2>4. ASSUME Others(s), d.flushed = <<>>, RoomNext(d.version), d.version \in Nat
        PROVE  \A t \in Sessions : RoomNext(session'[t].version + Len(session'[t].flushed))
    BY <2>0, <2>1, <2>4
  <2>5. Removed => RoomNext(copy'.version)
    BY <1>0 DEF Removed, NoCopy
  <2>6. CASE Acquire(s) \/ StartGet(s) \/ StartSave(s) \/ GetIsTracked(s) \/ SaveIsTracked(s)
    <3>1. UNCHANGED <<rows, object, copy>>
      BY <2>6 DEF Acquire, StartGet, StartSave, GetIsTracked, SaveIsTracked, store, caches
    <3>2. CASE GetIsTracked(s) \/ SaveIsTracked(s)
      BY <1>0, <1>1, <2>0, <2>3, <3>1, <3>2, IsTrackedFacts
    <3>3. CASE Acquire(s) \/ StartGet(s) \/ StartSave(s)
      <4>1. (\E op \in {"get", "save"} : Enter(s, op)) \/ Goto(s, "tracked")
        BY <3>3 DEF Acquire, StartGet, StartSave
      <4>2. Moved(s)
        BY <2>0, <4>1, EnterFacts, GotoFacts
      <4> QED
        BY <1>0, <1>1, <2>3, <3>1, <4>2
    <3> QED
      BY <2>6, <3>2, <3>3
  <2>7. CASE Get(s)
    <3>1. rows' = rows
      BY <2>7 DEF Get, GetObject, GetCopy, GetNothing, store
    <3>2. CASE Caught(s)
      <4>1. copy' = copy /\ \A p \in Sessions : object'[p] = object[p] \/ object'[p].version = copy.version
        BY <2>0, <2>7, GetFacts DEF caches
      <4>2. \A p \in Sessions : RoomNext(object'[p].version)
        BY <1>0, <4>1
      <4> QED
        BY <1>0, <1>1, <2>3, <3>1, <3>2, <4>1, <4>2 DEF Caught
    <3>3. CASE ~Caught(s)
      <4>1. /\ Others(s) /\ d.flushed = c.flushed /\ copy' = copy
            /\ \/ cached \in Sessions /\ d.version = object[cached].version /\ UNCHANGED object
               \/ /\ d.version = copy.version /\ object'[s].version = copy.version
                  /\ \A p \in Sessions : p # s => object'[p] = object[p]
        BY <2>0, <2>7, <3>3, GetFacts DEF Keeping, caches
      <4>2. d.version \in Nat /\ d.flushed = <<>>
        <5>1. session' \in [Sessions -> SessionTypes] /\ c.pc = "get"
          BY <2>0, <2>7, GetFacts
        <5> QED
          BY <2>0, <4>1, <5>1 DEF SessionTypes, Shape
      <4>3. RoomNext(d.version) /\ \A p \in Sessions : RoomNext(object'[p].version)
        BY <1>0, <4>1
      <4> QED
        BY <1>0, <1>1, <2>4, <3>1, <4>1, <4>2, <4>3
    <3> QED
      BY <3>2, <3>3
  <2>8. CASE CatchUp(s)
    <3>1. rows' = rows /\ c.flushed = <<>> /\ o \in Sessions
      BY <2>0, <2>8, CatchUpFacts DEF CatchUp, At, Shape, store, Obj
    <3>2. CASE Moved(s) /\ d.pc \in {"catch", "discard"}
      <4>1. copy' = copy /\ UNCHANGED object
        BY <2>0, <2>8, <3>2, CatchUpFacts DEF caches
      <4> QED
        BY <1>0, <1>1, <2>3, <3>1, <3>2, <4>1
    <3>3. CASE ~(Moved(s) /\ d.pc \in {"catch", "discard"})
      <4> DEFINE n == Cardinality(VersionsAfter(c.version))
      <4>1. /\ Others(s) /\ d.flushed = <<>> /\ copy' = copy /\ n \in Nat
            /\ d.version = object'[o].version
            /\ \A p \in Sessions : p # o => object'[p] = object[p]
            /\ object'[o].version = object[o].version + n
            /\ n # 0 => object[o].version = c.version
            /\ Contiguous(VersionsAfter(c.version), c.version)
        BY <2>0, <2>8, <3>1, <3>3, CatchUpFacts DEF Keeping, caches, Obj
      <4>2. object[o].version \in Nat
        BY <2>0, <3>1 DEF Types, Objects
      <4>3. RoomNext(object'[o].version)
        <5>1. CASE n = 0
          BY <1>0, <3>1, <4>1, <4>2, <5>1
        <5>2. CASE n # 0
          <6>1. c.version + n \in Ids /\ rows[c.version + n] # 0
            <7>1. \A i \in 1..n : c.version + i \in Ids /\ rows[c.version + i] # 0
              BY <2>0, <4>1, EventsFacts
            <7> HIDE DEF n
            <7>2. n \in 1..n
              BY <4>1, <5>2
            <7> QED
              BY <7>1, <7>2
          <6>2. object'[o].version = c.version + n
            BY <4>1, <5>2
          <6> QED
            BY <1>0, <6>1, <6>2
        <5> QED
          BY <5>1, <5>2
      <4>4. d.version \in Nat
        BY <4>1, <4>2
      <4>5. \A p \in Sessions : RoomNext(object'[p].version)
        BY <1>0, <4>1, <4>3
      <4> QED
        BY <1>0, <1>1, <2>4, <3>1, <4>1, <4>3, <4>4, <4>5
    <3> QED
      BY <3>2, <3>3
  <2>9. CASE Load(s)
    <3>1. rows' = rows /\ c.flushed = <<>>
      BY <2>0, <2>9 DEF Load, At, Shape, store
    <3>2. CASE Caught(s)
      <4>1. copy' = copy /\ (UNCHANGED object \/ d.pc = "put")
        BY <2>0, <2>9, <3>2, LoadFacts DEF caches
      <4>2. UNCHANGED object
        BY <3>2, <4>1 DEF Caught
      <4> QED
        BY <1>0, <1>1, <2>3, <3>1, <3>2, <4>1, <4>2 DEF Caught
    <3>3. CASE ~Caught(s)
      <4> DEFINE n == Cardinality(VersionsAfter(0))
      <4>1. /\ Others(s) /\ d.flushed = <<>> /\ n \in Nat /\ d.version = n
            /\ Contiguous(VersionsAfter(0), 0)
            /\ \A p \in Sessions : p # s => object'[p] = object[p]
            /\ object'[s].version = n
            /\ copy' = copy
        BY <2>0, <2>9, <3>1, <3>3, LoadFacts DEF Keeping, caches
      <4>2. RoomNext(n)
        <5>1. \A i \in 1..n : i \in Ids /\ rows[i] # 0
          <6>1. \A i \in 1..n : 0 + i \in Ids /\ rows[0 + i] # 0
            BY <2>0, <4>1, EventsFacts
          <6> HIDE DEF n
          <6>2. \A i \in 1..n : 0 + i = i
            BY <4>1
          <6> QED
            BY <6>1, <6>2
        <5> HIDE DEF n
        <5>2. n = 0 \/ n \in 1..n
          BY <4>1
        <5> QED
          BY <1>0, <5>1, <5>2
      <4>3. RoomNext(copy'.version) /\ \A p \in Sessions : RoomNext(object'[p].version)
        BY <1>0, <4>1, <4>2
      <4>4. RoomNext(d.version) /\ d.version \in Nat
        BY <4>1, <4>2
      <4> QED
        BY <1>0, <1>1, <2>4, <3>1, <4>1, <4>3, <4>4
    <3> QED
      BY <3>2, <3>3
  <2>10. CASE Change(s)
    <3>1. UNCHANGED <<rows, copy>>
      BY <2>10 DEF Change, caches
    <3>2. /\ Others(s) /\ d.version = c.version /\ d.flushed = c.flushed
          /\ \A p \in Sessions : object'[p].version = object[p].version
      <4>1. /\ Others(s) /\ d.version = c.version /\ d.flushed = c.flushed
            /\ \A p \in Sessions : p # o => object'[p] = object[p]
            /\ object'[o].version = object[o].version
        BY <2>0, <2>10, ChangeFacts DEF Obj
      <4> QED
        BY <4>1
    <3> QED
      BY <1>0, <1>1, <2>1, <3>1, <3>2
  <2>11. CASE AddAgain(s)
    <3>1. UNCHANGED <<rows, object, copy>> /\ c.flushed = <<>>
      BY <2>0, <2>11 DEF AddAgain, At, Shape, store, caches
    <3>2. Others(s) /\ d.flushed = <<>> /\ o \in Sessions /\ d.version = object[o].version
      BY <2>0, <2>11, <3>1, AddAgainFacts DEF Keeping, Obj
    <3>3. d.version \in Nat /\ RoomNext(d.version)
      BY <1>0, <2>0, <3>2 DEF Types, Objects
    <3> QED
      BY <1>0, <1>1, <2>4, <3>1, <3>2, <3>3
  <2>12. CASE Put(s) \/ Discard(s)
    <3>1. UNCHANGED <<rows, object>>
      BY <2>12 DEF Put, Discard, store
    <3>2. CASE Put(s)
      <4>1. copy' = copy \/ copy'.version = object[o].version
        BY <2>0, <3>2, PutFacts DEF Obj
      <4>2. o \in Sessions /\ Others(s) /\ d.version = c.version /\ d.flushed = c.flushed
        BY <2>0, <3>2, PutFacts DEF Obj, Caught, Moved, Keeping
      <4>3. RoomNext(copy'.version)
        BY <1>0, <4>1, <4>2
      <4>4. RoomNext(d.version + Len(d.flushed))
        BY <1>0, <4>2
      <4> QED
        BY <1>0, <1>1, <2>1, <3>1, <4>2, <4>3, <4>4
    <3>3. CASE Discard(s)
      BY <1>0, <1>1, <2>0, <2>3, <2>5, <3>1, <3>3, DiscardFacts
    <3> QED
      BY <2>12, <3>2, <3>3
  <2>13. CASE Catch(s)
    <3>1. UNCHANGED <<rows, object>>
      BY <2>13 DEF Catch, store
    <3> QED
      BY <1>0, <1>1, <2>0, <2>2, <2>5, <2>13, <3>1, CatchFacts
  <2>14. CASE Check(s)
    <3>1. rows' = rows /\ o \in Sessions /\ nextId' = nextId
      BY <2>0, <2>14, CheckFacts DEF Check, store, Obj
    <3>2. CASE Caught(s)
      <4>1. d.pc = "catch" /\ copy' = copy
        BY <2>0, <2>14, <3>2, CheckFacts DEF Caught, caches
      <4>2. UNCHANGED object
        BY <2>0, <2>14, <4>1, CheckFacts DEF Ended
      <4> QED
        BY <1>0, <1>1, <2>3, <3>1, <3>2, <4>1, <4>2 DEF Caught
    <3>3. CASE ~Caught(s)
      <4> DEFINE batch == object[o].changes
      <4>1. /\ copy' = copy
            /\ \A p \in Sessions : p # o => object'[p] = object[p]
            /\ object'[o].version = object[o].version + Len(batch) /\ object'[o].changes = <<>>
            /\ \/ Ended(s)
               \/ Others(s) /\ d.version = object[o].version /\ d.flushed = batch
        BY <2>0, <2>14, <3>3, CheckFacts DEF Obj, caches
      <4>2. ChangesGo(o)
        BY <3>1, <4>1 DEF ChangesGo
      <4>3. Len(batch) \in Nat /\ object[o].version \in Nat
        BY <2>0, <3>1 DEF Types, Objects
      <4>4. object[o].version <= Cardinality(Used)
        BY <3>1 DEF VersionInv, Room
      <4>5. Cardinality(Used) + Len(batch) <= Cardinality(Used')
        BY <3>1, <4>2, FlushRoom
      <4> HIDE DEF batch
      <4>6. RoomNext(object[o].version + Len(batch))
        BY <4>3, <4>4, <4>5, UsedFacts, UsedFactsNext DEF RoomNext
      <4>7. \A p \in Sessions : RoomNext(object'[p].version)
        BY <1>0, <4>1, <4>6
      <4> QED
        BY <1>0, <1>1, <2>1, <2>2, <3>1, <4>1, <4>6, <4>7
    <3> QED
      BY <3>2, <3>3
  <2>15. CASE Insert(s)
    <3> DEFINE n == c.saved + 1
               v == c.version + n
    <3>1. /\ o \in Sessions /\ n \in 1..Len(c.flushed)
          /\ rows' = rows \/ rows' = [rows EXCEPT ![v] = c.flushed[n]]
      BY <2>0, <2>15, InsertFacts DEF Obj
    <3>2. \A k \in Ids : rows'[k] # 0 => RoomNext(k)
      <4>1. RoomNext(v)
        <5>1. Len(c.flushed) \in Nat /\ c.saved \in Nat
          BY <2>0 DEF SessionTypes
        <5>2. v <= c.version + Len(c.flushed) /\ v \in Nat
          BY <2>0, <3>1, <5>1
        <5> HIDE DEF v
        <5> QED
          BY SMTT(30), <1>0, <2>0, <5>1, <5>2, UsedFactsNext DEF RoomNext
      <4> HIDE DEF v
      <4>2. \A k \in Ids : k # v => rows'[k] = rows[k]
        BY <2>0, <3>1 DEF Types
      <4> QED
        BY <1>0, <4>1, <4>2
    <3>3. CASE Caught(s)
      <4>1. /\ copy' = copy
            /\ \A p \in Sessions : object'[p].version = object[p].version
        <5>1. /\ UNCHANGED copy
              /\ \/ UNCHANGED object
                 \/ /\ object'[o].version = object[o].version
                    /\ \A p \in Sessions : p # o => object'[p] = object[p]
          BY <2>0, <2>15, InsertFacts DEF Obj, caches
        <5> QED
          BY <5>1
      <4> QED
        BY <1>0, <1>1, <2>3, <3>1, <3>2, <3>3, <4>1 DEF Caught
    <3>4. CASE ~Caught(s)
      <4>1. /\ UNCHANGED <<object, copy>>
            /\ \/ Ended(s)
               \/ Others(s) /\ d.version = c.version /\ d.flushed = c.flushed
        BY <2>0, <2>15, <3>4, InsertFacts DEF Obj, caches
      <4> QED
        BY <1>0, <1>1, <2>1, <2>2, <3>2, <4>1
    <3> QED
      BY <3>3, <3>4
  <2> QED
    BY <1>4, <2>6, <2>7, <2>8, <2>9, <2>10, <2>11, <2>12, <2>13, <2>14, <2>15
       DEF Acts, GetAsync, SaveAsync
<1> QED
  BY <1>2, <1>3, <1>4 DEF Next, Acts

CountInv == BaseInv /\ ApartInv /\ VersionInv

LEMMA InitCount == Init => CountInv
<1> SUFFICES ASSUME Init PROVE CountInv
  OBVIOUS
<1>1. ApartInv
  BY EmptyFacts DEF Init, ApartInv, Pending, NewObject
<1>2. VersionInv
  <2>1. 0 <= Cardinality(Used)
    BY InitTypes, UsedFacts
  <2>2. Len(<<>>) = 0
    OBVIOUS
  <2> QED
    BY <2>1, <2>2 DEF Init, VersionInv, Room, NewObject, Fresh, NoCopy
<1> QED
  BY <1>1, <1>2, InitBase DEF CountInv

LEMMA CountStep == CountInv /\ [Next]_vars => CountInv'
BY BaseStep, ApartStep, VersionStep DEF CountInv, BaseInv

LEMMA CountInvariant == Spec => []CountInv
BY InitCount, CountStep, PTL DEF Spec

(* Every variable keeps its type.  No version is ever higher than the      *)
(* number of events that were made; a session uses a semaphore when it     *)
(* waits or is inside, and then only: AggregateRoot.Version, and the try   *)
(* and finally of CacheRepository.                                         *)
THEOREM TypeCorrect == Spec => []TypeOK
<1>1. CountInv => TypeOK
  <2> SUFFICES ASSUME CountInv PROVE TypeOK
    OBVIOUS
  <2>1. Types /\ ShapeInv /\ VersionInv /\ Cardinality(Used) \in 0..MaxIds
    BY UsedFacts DEF CountInv, BaseInv, TypeInv
  <2>2. object \in [Sessions -> Aggregate]
    <3> SUFFICES ASSUME NEW o \in Sessions PROVE object[o] \in Aggregate
      BY <2>1 DEF Types
    <3>1. object[o] \in Objects
      BY <2>1 DEF Types
    <3>2. object[o].version \in 0..MaxIds
      BY <2>1, <3>1, BoundsAssumption DEF VersionInv, Room, Objects
    <3> QED
      BY <3>1, <3>2 DEF Objects, Aggregate
  <2>3. ASSUME NEW s \in Sessions
        PROVE  LET c == session[s] IN
               /\ At(s, "wait") \/ Inside(s) \/ c.pc \in {"new", "open", "done", "failed"}
               /\ c.op \in {"get", "save"} /\ c.obj \in Sessions \cup {"none"}
               /\ c.lock \in Locks \cup {0}
               /\ c.lock # 0 <=> At(s, "wait") \/ Inside(s)
               /\ c.version \in 0..MaxIds /\ c.flushed \in Seq(Ids)
               /\ c.saved \in 0..Len(c.flushed) /\ c.own \subseteq Ids
    <3> DEFINE c == session[s]
    <3>1. c \in SessionTypes /\ Shape(s)
      BY <2>1 DEF Types, ShapeInv
    <3>2. c.version \in Nat /\ c.saved \in Nat /\ c.flushed \in Seq(Ids) /\ Len(c.flushed) \in Nat
      BY <3>1 DEF SessionTypes
    <3>3. c.version + Len(c.flushed) <= MaxIds
      BY <2>1, <3>2, BoundsAssumption DEF VersionInv, Room
    <3>4. c.version \in 0..MaxIds
      BY <3>2, <3>3, BoundsAssumption
    <3>5. c.saved \in 0..Len(c.flushed)
      BY <3>1, <3>2 DEF Shape
    <3>6. c.lock # 0 <=> At(s, "wait") \/ Inside(s)
      BY <3>1 DEF Shape, Using
    <3>7. At(s, "wait") \/ Inside(s) \/ c.pc \in {"new", "open", "done", "failed"}
      BY <3>1 DEF SessionTypes, At, Inside
    <3> QED
      BY <3>1, <3>2, <3>4, <3>5, <3>6, <3>7 DEF SessionTypes
  <2>4. copy.version \in 0..MaxIds /\ copy.state \in Seq(Ids)
    BY <2>1, BoundsAssumption DEF VersionInv, Room, Types, Copies
  <2> QED
    BY <2>1, <2>2, <2>3, <2>4 DEF TypeOK, Types
<1> QED
  BY <1>1, CountInvariant, PTL

-----------------------------------------------------------------------------
(* What a commit returns for is stored.                                    *)

Stored == {rows[v] : v \in Ids}

(* The sessions' own changes wait in their objects, or are being saved, or *)
(* a save of the object has failed.                                        *)
OwnInv ==
    /\ \A s \in Sessions : session[s].own \subseteq 1..(nextId - 1)
    /\ \A s, t \in Sessions : s # t => session[s].own \cap session[t].own = {}

SavedIn(s) == \A i \in 1..session[s].saved : session[s].flushed[i] \in Stored
OwnIn(s) ==
    session[s].own # {} =>
        IF At(s, "insert") THEN session[s].own \subseteq Range(session[s].flushed)
        ELSE object[Obj(s)].broken \/ session[s].own \subseteq Pending(Obj(s))

AckInv ==
    Never({"taken", "reused"}) => acked \subseteq Stored /\ \A s \in Sessions : SavedIn(s) /\ OwnIn(s)

(* What is stored stays, and an insert finds a version that exists.        *)
LEMMA RowsGrow ==
  ASSUME CountInv, [Next]_vars
  PROVE  \A k \in Ids : rows[k] # 0 => rows'[k] = rows[k]
<1>0. TypeInv
  BY DEF CountInv, BaseInv
<1>1. CASE Expire \/ RunCallback \/ UNCHANGED vars
  BY <1>1 DEF Expire, RunCallback, vars, store
<1>2. CASE Elsewhere
  <2>1. PICK last \in 0..(MaxIds - 1) :
          (\A k \in VersionsAfter(0) : k <= last) /\ rows' = [rows EXCEPT ![last + 1] = nextId]
    BY <1>0, <1>2, ElsewhereFacts DEF TypeInv
  <2>2. \A k \in Ids : rows[k] # 0 => k # last + 1
    BY <2>1, BoundsAssumption DEF VersionsAfter, Ids
  <2> QED
    BY <1>0, <2>1, <2>2 DEF TypeInv, Types
<1>3. ASSUME NEW s \in Sessions, Acts(s), NEW k \in Ids, rows[k] # 0 PROVE rows'[k] = rows[k]
  <2>1. CASE Insert(s)
    <3> DEFINE v == session[s].version + (session[s].saved + 1)
    <3>1. rows' = rows \/ (rows[v] = 0 /\ \E e : rows' = [rows EXCEPT ![v] = e])
      BY <2>1 DEF Insert
    <3> HIDE DEF v
    <3> QED
      BY <1>0, <1>3, <3>1 DEF TypeInv, Types
  <2>2. CASE ~Insert(s)
    BY <1>3, <2>2 DEF Acts, Acquire, GetAsync, Change, AddAgain, SaveAsync, StartGet, GetIsTracked,
       Get, GetObject, GetCopy, GetNothing, CatchUp, Discard, Load, Put, Catch, StartSave,
       SaveIsTracked, Check, store
  <2> QED
    BY <2>1, <2>2
<1> QED
  BY <1>1, <1>2, <1>3 DEF Next, Acts

LEMMA StoredGrows ==
  ASSUME CountInv, [Next]_vars
  PROVE  \A id \in Ids : id \in Stored => id \in Stored'
<1> SUFFICES ASSUME NEW v \in Ids, rows[v] \in Ids PROVE rows[v] \in Stored'
  BY DEF Stored
<1>1. rows[v] # 0
  BY DEF Ids
<1> QED
  BY <1>1, RowsGrow DEF Stored

LEMMA InsertPlace ==
  ASSUME CountInv, NEW s \in Sessions, At(s, "insert"),
         NEW n \in Nat, n <= Len(session[s].flushed)
  PROVE  session[s].version + n \in Nat /\ session[s].version + n <= MaxIds
<1>1. session[s].version \in Nat /\ Len(session[s].flushed) \in Nat
  BY DEF CountInv, BaseInv, TypeInv, Types, SessionTypes
<1>2. session[s].version + Len(session[s].flushed) <= MaxIds
  BY <1>1, UsedFacts, BoundsAssumption DEF CountInv, BaseInv, VersionInv, Room
<1> QED
  BY SMTT(30), <1>1, <1>2, BoundsAssumption

LEMMA InsertStores ==
  ASSUME CountInv, NEW s \in Sessions, Insert(s)
  PROVE  LET c == session[s]
             n == c.saved + 1
             v == c.version + n
         IN  /\ At(s, "insert") /\ n \in 1..Len(c.flushed) /\ v \in Ids
             /\ \A k \in Ids : k # v => rows'[k] = rows[k]
             /\ rows'[v] = rows[v] \/ (rows[v] = 0 /\ rows'[v] = c.flushed[n])
             /\ session'[s].pc # "catch" => rows[v] = 0 /\ rows'[v] = c.flushed[n]
<1> DEFINE c == session[s]
           n == c.saved + 1
           v == c.version + n
<1>0. Types /\ Shape(s)
  BY DEF CountInv, BaseInv, TypeInv, ShapeInv
<1>1. /\ At(s, "insert") /\ n \in 1..Len(c.flushed)
      /\ rows' = rows \/ (rows[v] = 0 /\ rows' = [rows EXCEPT ![v] = c.flushed[n]])
      /\ session'[s].pc # "catch" => rows[v] = 0 /\ rows' = [rows EXCEPT ![v] = c.flushed[n]]
  BY <1>0, InsertFacts DEF At, Caught
<1>2. c.version \in Nat /\ c.saved \in Nat /\ Len(c.flushed) \in Nat
  BY <1>0 DEF Types, SessionTypes
<1>3. n \in Nat /\ n <= Len(c.flushed) /\ v > 0
  BY <1>1, <1>2
<1>4. v \in Ids
  BY <1>1, <1>3, InsertPlace DEF Ids
<1> HIDE DEF n, v
<1>5. /\ \A k \in Ids : k # v => rows'[k] = rows[k]
      /\ rows'[v] = rows[v] \/ (rows[v] = 0 /\ rows'[v] = c.flushed[n])
      /\ session'[s].pc # "catch" => rows[v] = 0 /\ rows'[v] = c.flushed[n]
  BY <1>0, <1>1, <1>4 DEF Types
<1> QED
  BY <1>1, <1>4, <1>5 DEF n, v

(* Only a change makes a session's own events more.                        *)
LEMMA OwnFacts ==
  ASSUME TypeInv, NEW s \in Sessions, Acts(s)
  PROVE  /\ Others(s)
         /\ \/ session'[s].own \in {session[s].own, {}} /\ nextId' = nextId
            \/ session'[s].own = session[s].own \cup {nextId} /\ nextId' = nextId + 1
<1>0. Types /\ Shape(s)
  BY DEF TypeInv, ShapeInv
<1>1. CASE Acquire(s) \/ StartGet(s) \/ StartSave(s)
  <2>1. (\E op \in {"get", "save"} : Enter(s, op)) \/ Goto(s, "tracked")
    BY <1>1 DEF Acquire, StartGet, StartSave
  <2>2. nextId' = nextId
    BY <1>1 DEF Acquire, StartGet, StartSave, store
  <2> QED
    BY <1>0, <2>1, <2>2, EnterFacts, GotoFacts DEF Moved
<1>2. CASE GetIsTracked(s) \/ SaveIsTracked(s)
  BY <1>0, <1>2, IsTrackedFacts DEF Moved, store
<1>3. CASE Get(s)
  <2>1. nextId' = nextId
    BY <1>3 DEF Get, GetObject, GetCopy, GetNothing, store
  <2> QED
    BY <1>0, <1>3, <2>1, GetFacts DEF Caught, Moved, Keeping
<1>4. CASE CatchUp(s)
  BY <1>0, <1>4, CatchUpFacts DEF CatchUp, store, Moved, Keeping
<1>5. CASE Discard(s)
  BY <1>0, <1>5, DiscardFacts DEF Discard, store, Moved
<1>6. CASE Load(s)
  BY <1>0, <1>6, LoadFacts DEF Load, store, Caught, Moved, Keeping
<1>7. CASE Put(s)
  <2>1. nextId' = nextId
    BY <1>7 DEF Put, store
  <2> QED
    BY <1>0, <1>7, <2>1, PutFacts DEF Caught, Moved, Keeping
<1>8. CASE Catch(s)
  BY <1>0, <1>8, CatchFacts DEF Catch, store, Ended
<1>9. CASE Change(s)
  BY <1>0, <1>9, ChangeFacts
<1>10. CASE AddAgain(s)
  BY <1>0, <1>10, AddAgainFacts DEF AddAgain, store, Keeping
<1>11. CASE Check(s)
  BY <1>0, <1>11, CheckFacts DEF Check, store, Caught, Moved, Ended
<1>12. CASE Insert(s)
  BY <1>0, <1>12, InsertFacts DEF Insert, Caught, Moved, Ended
<1> QED
  BY <1>1, <1>2, <1>3, <1>4, <1>5, <1>6, <1>7, <1>8, <1>9, <1>10, <1>11, <1>12
     DEF Acts, GetAsync, SaveAsync

LEMMA OwnStep == TypeInv /\ OwnInv /\ [Next]_vars => OwnInv'
<1> SUFFICES ASSUME TypeInv, OwnInv, [Next]_vars PROVE OwnInv'
  OBVIOUS
<1>0. nextId \in Nat
  BY DEF TypeInv, Types
<1>1. CASE UNCHANGED session /\ nextId' \in {nextId, nextId + 1}
  BY <1>0, <1>1 DEF OwnInv
<1>2. CASE Expire \/ RunCallback \/ UNCHANGED vars
  BY <1>1, <1>2 DEF Expire, RunCallback, vars, store
<1>3. CASE Elsewhere
  BY <1>1, <1>3 DEF Elsewhere
<1>4. ASSUME NEW s \in Sessions, Acts(s) PROVE OwnInv'
  <2>1. CASE session'[s].own \in {session[s].own, {}} /\ nextId' = nextId
    BY <1>4, <2>1, OwnFacts DEF OwnInv, Others
  <2>2. CASE session'[s].own = session[s].own \cup {nextId} /\ nextId' = nextId + 1
    <3>1. Others(s)
      BY <1>4, OwnFacts
    <3>2. \A t \in Sessions : nextId \notin session[t].own /\ session[t].own \subseteq 1..nextId
      BY <1>0 DEF OwnInv
    <3>3. \A t \in Sessions : session'[t].own \subseteq 1..(nextId' - 1)
      <4>1. nextId' - 1 = nextId /\ nextId \in 1..nextId
        BY <1>0, <2>2, <1>4 DEF TypeInv, Types
      <4> QED
        BY <2>2, <3>1, <3>2, <4>1 DEF Others
    <3>4. \A t, r \in Sessions : t # r => session'[t].own \cap session'[r].own = {}
      BY <2>2, <3>1, <3>2 DEF Others, OwnInv
    <3> QED
      BY <3>3, <3>4 DEF OwnInv
  <2> QED
    BY <1>4, <2>1, <2>2, OwnFacts
<1> QED
  BY <1>2, <1>3, <1>4 DEF Next, Acts

(* Changes wait until the object is made anew, or a check flushes them;    *)
(* and until it is made anew, a save of it has failed.                     *)
LEMMA PendingFacts ==
  ASSUME TypeInv, NEW s \in Sessions, Acts(s), NEW p \in Sessions
  PROVE  \/ Pending(p) \subseteq Pending(p)' /\ (object[p].broken => object'[p].broken)
         \/ p = s /\ Loading(s)
         \/ p = Obj(s) /\ Check(s) /\ session'[s].pc # "catch" /\ object'[p].broken = object[p].broken
<1>0. Types /\ Shape(s)
  BY DEF TypeInv, ShapeInv
<1>1. ASSUME object'[p].changes = object[p].changes, object[p].broken => object'[p].broken
      PROVE  Pending(p) \subseteq Pending(p)' /\ (object[p].broken => object'[p].broken)
  BY <1>1 DEF Pending
<1>2. CASE Acquire(s) \/ StartGet(s) \/ StartSave(s) \/ GetIsTracked(s) \/ SaveIsTracked(s)
           \/ AddAgain(s) \/ Discard(s) \/ Put(s) \/ Catch(s)
  <2>1. object' = object
    BY <1>2 DEF Acquire, StartGet, StartSave, GetIsTracked, SaveIsTracked, AddAgain, Discard, Put,
       Catch
  <2> QED
    BY <1>1, <2>1
<1>3. CASE Get(s)
  <2>1. session[s].pc = "get" /\ (p # s => object'[p] = object[p])
    BY <1>0, <1>3, GetFacts
  <2>2. Loading(s)
    BY <1>0, <2>1 DEF Loading, Shape
  <2> QED
    BY <1>1, <2>1, <2>2
<1>4. CASE CatchUp(s)
  <2>1. object'[p] = object[p]
        \/ (object'[p].changes = object[p].changes /\ object'[p].broken = object[p].broken)
    BY <1>0, <1>4, CatchUpFacts
  <2> QED
    BY <1>1, <2>1
<1>5. CASE Load(s)
  <2>1. session[s].pc = "load" /\ (p # s => object'[p] = object[p])
    BY <1>0, <1>5, LoadFacts
  <2>2. Loading(s)
    BY <1>0, <2>1 DEF Loading, Shape
  <2> QED
    BY <1>1, <2>1, <2>2
<1>6. CASE Change(s)
  <2>1. /\ nextId \in Ids
        /\ \/ object'[p] = object[p]
           \/ /\ object'[p].changes = Append(object[p].changes, nextId)
              /\ object'[p].broken = object[p].broken
    BY <1>0, <1>6, ChangeFacts
  <2>2. object[p].changes \in Seq(Ids)
    BY <1>0 DEF Types, Objects
  <2> QED
    BY <1>1, <2>1, <2>2, AppendFacts DEF Pending
<1>7. CASE Check(s)
  <2>1. object'[p] = object[p]
        \/ (p = Obj(s) /\ session'[s].pc # "catch" /\ object'[p].broken = object[p].broken)
    BY <1>0, <1>7, CheckFacts DEF Obj, Ended
  <2> QED
    BY <1>1, <1>7, <2>1
<1>8. CASE Insert(s)
  <2>1. object'[p] = object[p]
        \/ (object'[p].changes = object[p].changes /\ object'[p].broken)
    BY <1>0, <1>8, InsertFacts
  <2> QED
    BY <1>1, <2>1
<1> QED
  BY <1>2, <1>3, <1>4, <1>5, <1>6, <1>7, <1>8 DEF Acts, GetAsync, SaveAsync

LEMMA SavedKept ==
  ASSUME CountInv, [Next]_vars, NEW s \in Sessions, NEW t \in Sessions, SavedIn(s),
         session'[t].flushed = session[s].flushed, session'[t].saved = session[s].saved
  PROVE  SavedIn(t)'
<1>1. ASSUME NEW i \in 1..session[s].saved PROVE session[s].flushed[i] \in Ids
  <2>1. /\ session[s].flushed \in Seq(Ids) /\ session[s].saved \in Nat
        /\ Len(session[s].flushed) \in Nat
        /\ session[s].saved <= Len(session[s].flushed)
    BY DEF CountInv, BaseInv, TypeInv, Types, SessionTypes, ShapeInv, Shape
  <2>2. i \in 1..Len(session[s].flushed)
    BY <2>1
  <2> QED
    BY <2>1, <2>2
<1> QED
  BY <1>1, StoredGrows DEF SavedIn

(* A commit that flushes nobody else's changes leaves them where they are. *)
LEMMA OwnKept ==
  ASSUME CountInv, OwnInv, NEW s \in Sessions, Acts(s), NEW t \in Sessions, t # s,
         "taken" \notin happened', OwnIn(t)
  PROVE  OwnIn(t)'
<1>0. TypeInv /\ SoleInv /\ Types /\ Shape(s) /\ Shape(t)
  BY DEF CountInv, BaseInv, TypeInv, ShapeInv
<1>1. session'[t] = session[t]
  BY <1>0, OwnFacts DEF Others
<1> SUFFICES ASSUME session[t].own # {}, ~At(t, "insert")
             PROVE  object'[Obj(t)].broken \/ session[t].own \subseteq Range(object'[Obj(t)].changes)
  BY SMTT(30), <1>1 DEF OwnIn, At, Obj, Pending
<1>2. /\ object[Obj(t)].broken \/ session[t].own \subseteq Pending(Obj(t))
      /\ Obj(t) \in Sessions
  BY <1>0 DEF OwnIn, Shape, Holding, Obj
<1>3. ~(Obj(t) = s /\ Loading(s))
  BY <1>0 DEF SoleInv
<1>4. ASSUME Obj(t) = Obj(s), Check(s), session'[s].pc # "catch" PROVE object[Obj(t)].broken
  <2>1. Pending(Obj(s)) \subseteq session[s].own
    BY <1>0, <1>4, CheckFacts DEF Obj, Pending, Range, Caught
  <2> QED
    BY <1>2, <1>4, <2>1 DEF OwnInv
<1>5. ASSUME NEW p \in Sessions, p = Obj(t)
      PROVE  \/ Pending(p) \subseteq Range(object'[p].changes) /\ (object[p].broken => object'[p].broken)
             \/ object'[p].broken
  <2>1. \/ Pending(p) \subseteq Pending(p)' /\ (object[p].broken => object'[p].broken)
        \/ object'[p].broken
    BY <1>0, <1>3, <1>4, <1>5, PendingFacts
  <2> QED
    BY <2>1 DEF Pending
<1> QED
  BY <1>2, <1>5

LEMMA AckStep ==
  ASSUME CountInv, OwnInv, AckInv, [Next]_vars
  PROVE  AckInv'
<1> SUFFICES ASSUME "taken" \notin happened', "reused" \notin happened'
             PROVE  acked' \subseteq Stored' /\ \A t \in Sessions : SavedIn(t)' /\ OwnIn(t)'
  BY DEF AckInv, Never
<1>0. TypeInv /\ Types /\ acked \subseteq Ids /\ acked \subseteq Stored
      /\ \A t \in Sessions : SavedIn(t) /\ OwnIn(t)
  <2>1. "taken" \notin happened /\ "reused" \notin happened
    BY HappenedGrows
  <2> QED
    BY <2>1 DEF CountInv, BaseInv, TypeInv, Types, AckInv, Never
<1>1. acked \subseteq Stored'
  BY <1>0, StoredGrows
<1>2. CASE UNCHANGED <<object, session, acked>>
  <2>1. \A t \in Sessions : SavedIn(t)'
    BY <1>0, <1>2, SavedKept
  <2> QED
    BY <1>0, <1>1, <1>2, <2>1 DEF OwnIn, At, Obj, Pending
<1>3. CASE Expire \/ RunCallback \/ Elsewhere \/ UNCHANGED vars
  BY <1>2, <1>3 DEF Expire, RunCallback, Elsewhere, vars
<1>4. ASSUME NEW s \in Sessions, Acts(s)
      PROVE  acked' \subseteq Stored' /\ \A t \in Sessions : SavedIn(t)' /\ OwnIn(t)'
  <2> DEFINE c == session[s]
             d == session'[s]
             o == Obj(s)
  <2>0. Shape(s) /\ Others(s)
    BY <1>0, <1>4, OwnFacts DEF TypeInv, ShapeInv
  <2>1. \A t \in Sessions : t # s => SavedIn(t)' /\ OwnIn(t)'
    BY <1>0, <1>4, <2>0, SavedKept, OwnKept DEF Others
  <2>2. ASSUME acked' = acked, SavedIn(s)', OwnIn(s)'
        PROVE  acked' \subseteq Stored' /\ \A t \in Sessions : SavedIn(t)' /\ OwnIn(t)'
    BY <1>1, <2>1, <2>2
  <2>3. ASSUME Ended(s), d.own = {} PROVE SavedIn(s)' /\ OwnIn(s)'
    BY <2>3 DEF Ended, SavedIn, OwnIn
  <2>4. ASSUME c.own = {}, Keeping(s) PROVE SavedIn(s)' /\ OwnIn(s)'
    <3>1. SavedIn(s)'
      BY <1>0, <2>4, SavedKept DEF Keeping
    <3> QED
      BY <2>4, <3>1 DEF Keeping, OwnIn
  <2>5. ASSUME Moved(s), c.pc # "insert", d.pc # "insert", UNCHANGED object
        PROVE  SavedIn(s)' /\ OwnIn(s)'
    <3>1. SavedIn(s)'
      BY <1>0, <2>5, SavedKept DEF Moved
    <3>2. OwnIn(s)'
      BY <1>0, <2>5 DEF Moved, OwnIn, At, Obj, Pending
    <3> QED
      BY <3>1, <3>2
  <2>6. CASE Acquire(s) \/ StartGet(s) \/ StartSave(s) \/ GetIsTracked(s) \/ SaveIsTracked(s)
             \/ Discard(s)
    <3>1. CASE Acquire(s) \/ StartGet(s) \/ StartSave(s)
      <4>1. /\ (\E op \in {"get", "save"} : Enter(s, op)) \/ Goto(s, "tracked")
            /\ c.pc # "insert" /\ UNCHANGED <<object, acked>>
        BY <3>1 DEF Acquire, StartGet, StartSave, At
      <4>2. Moved(s) /\ d.pc # "insert"
        BY <1>0, <4>1, EnterFacts, GotoFacts
      <4> QED
        BY <2>2, <2>5, <4>1, <4>2
    <3>2. CASE GetIsTracked(s) \/ SaveIsTracked(s)
      BY <1>0, <2>0, <2>2, <2>5, <3>2, IsTrackedFacts
    <3>3. CASE Discard(s)
      <4>1. UNCHANGED <<object, acked>>
        BY <3>3 DEF Discard
      <4> QED
        BY <1>0, <2>0, <2>2, <2>5, <3>3, <4>1, DiscardFacts
    <3> QED
      BY <2>6, <3>1, <3>2, <3>3
  <2>7. CASE Get(s) \/ CatchUp(s) \/ Load(s)
    <3>1. acked' = acked /\ c.own = {}
      BY <2>0, <2>7 DEF Get, GetObject, GetCopy, GetNothing, CatchUp, Load, At, Shape, Working, Saves
    <3>2. Keeping(s)
      <4>1. CASE Get(s)
        BY <1>0, <2>0, <4>1, GetFacts DEF Caught, Moved, Keeping
      <4>2. CASE CatchUp(s)
        BY <1>0, <2>0, <4>2, CatchUpFacts DEF Moved, Keeping
      <4>3. CASE Load(s)
        BY <1>0, <2>0, <4>3, LoadFacts DEF Caught, Moved, Keeping
      <4> QED
        BY <2>7, <4>1, <4>2, <4>3
    <3> QED
      BY <2>2, <2>4, <3>1, <3>2
  <2>8. CASE Put(s)
    <3>1. UNCHANGED <<object, acked>> /\ c.pc = "put"
      BY <2>8 DEF Put, At
    <3>2. CASE c.op = "get"
      <4>1. c.own = {}
        BY <2>0, <3>1, <3>2 DEF Shape, Working, Saves
      <4>2. Keeping(s)
        BY <1>0, <2>0, <2>8, PutFacts DEF Caught, Moved, Keeping
      <4> QED
        BY <2>2, <2>4, <3>1, <4>1, <4>2
    <3>3. CASE c.op # "get"
      <4>1. Moved(s) /\ d.pc # "insert"
        BY <1>0, <2>0, <2>8, <3>3, PutFacts DEF Caught
      <4> QED
        BY <2>2, <2>5, <3>1, <4>1
    <3> QED
      BY <3>2, <3>3
  <2>9. CASE Change(s)
    <3>1. acked' = acked
      BY <2>9 DEF Change
    <3>2. /\ c.pc = "open" /\ d.pc = "open" /\ o \in Sessions /\ d.obj = o /\ nextId \in Ids
          /\ d.flushed = c.flushed /\ d.saved = c.saved /\ d.own = c.own \cup {nextId}
          /\ object'[o].changes = Append(object[o].changes, nextId)
      BY <1>0, <2>0, <2>9, ChangeFacts DEF Obj
    <3>3. SavedIn(s)'
      BY <1>0, <3>2, SavedKept
    <3>4. object[o].broken \/ c.own \subseteq Pending(o)
      BY <1>0, <3>2 DEF OwnIn, At
    <3>8. object'[o].broken = object[o].broken
      BY <1>0, <2>0, <2>9, ChangeFacts DEF Obj
    <3>5. object[o].changes \in Seq(Ids)
      BY <1>0, <3>2 DEF Types, Objects
    <3>6. Range(object'[o].changes) = Pending(o) \cup {nextId}
      BY <3>2, <3>5, AppendFacts DEF Pending
    <3>7. OwnIn(s)'
      BY <3>2, <3>4, <3>6, <3>8 DEF OwnIn, At, Obj, Pending
    <3> QED
      BY <2>2, <3>1, <3>3, <3>7
  <2>10. CASE AddAgain(s) \/ Catch(s)
    <3>1. UNCHANGED <<object, acked>> /\ c.pc # "insert"
      BY <2>10 DEF AddAgain, Catch, At
    <3>2. CASE AddAgain(s)
      <4>1. Keeping(s) /\ d.pc = "open" /\ d.obj = c.obj
        BY <1>0, <2>0, <3>2, AddAgainFacts
      <4>2. SavedIn(s)'
        BY <1>0, <4>1, SavedKept DEF Keeping
      <4>3. OwnIn(s)'
        BY <1>0, <3>1, <4>1 DEF Keeping, OwnIn, At, Obj, Pending
      <4> QED
        BY <2>2, <3>1, <4>2, <4>3
    <3>3. CASE Catch(s)
      <4>1. Ended(s)
        BY <1>0, <2>0, <3>3, CatchFacts
      <4>2. SavedIn(s)'
        BY <4>1 DEF Ended, SavedIn
      <4>3. OwnIn(s)'
        BY <1>0, <3>1, <4>1 DEF Ended, OwnIn, At, Obj, Pending
      <4> QED
        BY <2>2, <3>1, <4>2, <4>3
    <3> QED
      BY <2>10, <3>2, <3>3
  <2>11. CASE Check(s)
    <3> DEFINE batch == object[o].changes
    <3>0. c.pc = "check" /\ (object[o].broken \/ c.own \subseteq Range(batch))
      BY <1>0, <2>11 DEF Check, At, OwnIn, Pending
    <3>1. d.pc # "catch" => c.own \subseteq Range(batch)
      BY <1>0, <2>0, <2>11, <3>0, CheckFacts DEF Obj, Caught
    <3>2. CASE d.pc = "catch"
      <4>1. Moved(s) /\ UNCHANGED <<object, acked>>
        BY <1>0, <2>0, <2>11, <3>2, CheckFacts DEF Caught, Ended
      <4> QED
        BY <2>2, <2>5, <3>0, <3>2, <4>1
    <3>3. CASE d.pc = "done"
      <4>1. batch = <<>> /\ Ended(s) /\ acked' = acked \cup c.own
        BY <1>0, <2>0, <2>11, <3>3, CheckFacts DEF Obj, Caught
      <4>2. acked' = acked
        BY <3>1, <3>3, <4>1, EmptyFacts
      <4>3. d.own = {}
        BY <3>3, <4>1 DEF Ended
      <4> QED
        BY <2>2, <2>3, <4>1, <4>2, <4>3
    <3>4. CASE d.pc # "catch" /\ d.pc # "done"
      <4>1. d.pc = "insert" /\ d.flushed = batch /\ d.saved = 0 /\ d.own = c.own /\ acked' = acked
        BY <1>0, <2>0, <2>11, <3>4, CheckFacts DEF Obj, Caught, Ended
      <4>2. SavedIn(s)' /\ OwnIn(s)'
        BY <3>1, <3>4, <4>1 DEF SavedIn, OwnIn, At
      <4> QED
        BY <2>2, <4>1, <4>2
    <3> QED
      BY <3>2, <3>3, <3>4
  <2>12. CASE Insert(s)
    <3> DEFINE n == c.saved + 1
               v == c.version + n
    <3>1. c.pc = "insert" /\ c.own \subseteq Range(c.flushed) /\ SavedIn(s)
      BY <1>0, <2>12 DEF Insert, At, OwnIn
    <3>2. CASE d.pc = "catch"
      <4>1. Moved(s) /\ acked' = acked /\ o \in Sessions /\ object'[o].broken = TRUE
        BY <1>0, <2>0, <2>12, <3>2, InsertFacts DEF Caught, Ended, Obj
      <4>2. SavedIn(s)'
        BY <1>0, <4>1, SavedKept DEF Moved
      <4>3. OwnIn(s)'
        BY <3>2, <4>1 DEF Moved, OwnIn, At, Obj
      <4> QED
        BY <2>2, <4>1, <4>2, <4>3
    <3>3. CASE d.pc # "catch"
      <4>1. /\ n \in 1..Len(c.flushed) /\ c.flushed[n] \in Stored'
        BY <2>12, <3>3, InsertStores DEF Stored
      <4>2. /\ c.flushed \in Seq(Ids) /\ c.saved \in Nat /\ Len(c.flushed) \in Nat
            /\ c.saved < Len(c.flushed)
        BY <1>0, <2>0, <3>1 DEF Types, SessionTypes, Shape
      <4>3. \A i \in 1..c.saved : c.flushed[i] \in Stored'
        <5>1. \A i \in 1..c.saved : i \in 1..Len(c.flushed)
          BY <4>2
        <5>2. \A i \in 1..c.saved : c.flushed[i] \in Ids /\ c.flushed[i] \in Stored
          BY <3>1, <4>2, <5>1 DEF SavedIn
        <5> QED
          BY <5>2, StoredGrows
      <4>4. \A i \in 1..n : c.flushed[i] \in Stored'
        <5>1. \A i \in 1..n : i = n \/ i \in 1..c.saved
          BY <4>2
        <5> HIDE DEF n
        <5> QED
          BY <4>1, <4>3, <5>1
      <4>5. CASE d.pc = "done"
        <5>1. n = Len(c.flushed) /\ Ended(s) /\ acked' = acked \cup c.own
          BY <1>0, <2>0, <2>12, <4>5, InsertFacts DEF Caught
        <5>2. Range(c.flushed) \subseteq Stored'
          BY <4>2, <4>4, <5>1 DEF Range
        <5>3. d.own = {}
          BY <4>5, <5>1 DEF Ended
        <5> QED
          BY <1>1, <2>1, <2>3, <3>1, <5>1, <5>2, <5>3
      <4>6. CASE d.pc # "done"
        <5>1. d.pc = "insert" /\ d.flushed = c.flushed /\ d.saved = n /\ d.own = c.own /\ acked' = acked
          BY <1>0, <2>0, <2>12, <3>3, <4>6, InsertFacts DEF Caught, Ended
        <5> HIDE DEF n
        <5>2. SavedIn(s)' /\ OwnIn(s)'
          BY <3>1, <4>4, <5>1 DEF SavedIn, OwnIn, At
        <5> QED
          BY <2>2, <5>1, <5>2
      <4> QED
        BY <4>5, <4>6
    <3> QED
      BY <3>2, <3>3
  <2> QED
    BY <1>4, <2>6, <2>7, <2>8, <2>9, <2>10, <2>11, <2>12 DEF Acts, GetAsync, SaveAsync
<1> QED
  BY <1>3, <1>4 DEF Next, Acts

(* A CommitAsync that returned has stored the changes its session made,    *)
(* unless another session's commit flushed them, or one of its own that    *)
(* threw: Session.CommitAsync, over CacheRepository.SaveAsync and          *)
(* Repository.SaveAsync.  The changes of a session wait in one object or   *)
(* are in the batch that the session saves, as long as no save of that     *)
(* object has failed, and no other session has made the same.              *)
THEOREM AcknowledgedIsStored == Spec => []AckedIsStored
<1>1. Init => OwnInv /\ AckInv
  BY DEF Init, Fresh, OwnInv, AckInv, SavedIn, OwnIn
<1>2. CountInv /\ OwnInv /\ AckInv /\ [Next]_vars => OwnInv' /\ AckInv'
  BY OwnStep, AckStep DEF CountInv, BaseInv
<1>3. AckInv => AckedIsStored
  BY DEF AckInv, AckedIsStored, Stored
<1> QED
  BY <1>1, <1>2, <1>3, CountInvariant, PTL DEF Spec

-----------------------------------------------------------------------------
(* What GetAsync has loaded and is about to put into the cache nobody has  *)
(* tried to save.                                                          *)
Putting(s) == At(s, "put") /\ session[s].op = "get"
WholeInv == \A s \in Sessions : Putting(s) => ~object[s].broken

LEMMA ObjectFacts ==
  ASSUME TypeInv, NEW s \in Sessions, Acts(s)
  PROVE  /\ \A p \in Sessions : p # s /\ p # Obj(s) => object'[p] = object[p]
         /\ Putting(s)' => object'[s].broken = FALSE
<1>0. Types /\ Shape(s)
  BY DEF TypeInv, ShapeInv
<1>1. CASE Acquire(s) \/ StartGet(s) \/ StartSave(s)
  <2>1. /\ (\E op \in {"get", "save"} : Enter(s, op)) \/ Goto(s, "tracked")
        /\ UNCHANGED object
    BY <1>1 DEF Acquire, StartGet, StartSave
  <2> QED
    BY <1>0, <2>1, EnterFacts, GotoFacts DEF Putting, At
<1>2. CASE GetIsTracked(s) \/ SaveIsTracked(s)
  BY <1>0, <1>2, IsTrackedFacts DEF Putting, At
<1>3. CASE Get(s)
  BY <1>0, <1>3, GetFacts DEF Caught, Putting, At
<1>4. CASE CatchUp(s)
  BY <1>0, <1>4, CatchUpFacts DEF Putting, At, Obj
<1>5. CASE Discard(s)
  BY <1>0, <1>5, DiscardFacts DEF Discard, Putting, At
<1>6. CASE Load(s)
  BY <1>0, <1>6, LoadFacts DEF Caught, Putting, At
<1>7. CASE Put(s)
  BY <1>0, <1>7, PutFacts DEF Put, Caught, Putting, At
<1>8. CASE Catch(s)
  BY <1>0, <1>8, CatchFacts DEF Catch, Ended, Putting, At
<1>9. CASE Change(s)
  BY <1>0, <1>9, ChangeFacts DEF Putting, At, Obj
<1>10. CASE AddAgain(s)
  BY <1>0, <1>10, AddAgainFacts DEF AddAgain, Putting, At
<1>11. CASE Check(s)
  BY <1>0, <1>11, CheckFacts DEF Caught, Ended, Putting, At, Obj
<1>12. CASE Insert(s)
  BY <1>0, <1>12, InsertFacts DEF Caught, Ended, Putting, At, Obj
<1> QED
  BY <1>1, <1>2, <1>3, <1>4, <1>5, <1>6, <1>7, <1>8, <1>9, <1>10, <1>11, <1>12
     DEF Acts, GetAsync, SaveAsync

LEMMA WholeStep == CountInv /\ WholeInv /\ [Next]_vars => WholeInv'
<1> SUFFICES ASSUME CountInv, WholeInv, [Next]_vars PROVE WholeInv'
  OBVIOUS
<1>0. TypeInv /\ SoleInv
  BY DEF CountInv, BaseInv
<1>1. CASE Expire \/ RunCallback \/ Elsewhere \/ UNCHANGED vars
  <2>1. UNCHANGED <<object, session>>
    BY <1>1 DEF Expire, RunCallback, Elsewhere, vars
  <2> QED
    BY <2>1 DEF WholeInv, Putting, At
<1>2. ASSUME NEW s \in Sessions, Acts(s), NEW r \in Sessions, Putting(r)' PROVE object'[r].broken = FALSE
  <2>1. CASE r = s
    BY <1>0, <1>2, <2>1, ObjectFacts
  <2>2. CASE r # s
    <3>1. session'[r] = session[r]
      BY <1>0, <1>2, <2>2, OwnFacts DEF Others
    <3>2. Putting(r) /\ Loading(r)
      BY <1>2, <3>1 DEF Putting, Loading, At
    <3>3. Obj(s) # r
      BY <1>0, <2>2, <3>2 DEF SoleInv
    <3>4. object'[r] = object[r] /\ object[r].broken \in BOOLEAN
      BY <1>0, <1>2, <2>2, <3>3, ObjectFacts DEF TypeInv, Types, Objects
    <3> QED
      BY <3>2, <3>4 DEF WholeInv
  <2> QED
    BY <2>1, <2>2
<1> QED
  BY <1>1, <1>2 DEF Next, Acts, WholeInv

LEMMA WholeInvariant == Spec => []WholeInv
<1>1. Init => WholeInv
  BY DEF Init, Fresh, WholeInv, Putting, At
<1> QED
  BY <1>1, WholeStep, CountInvariant, PTL DEF Spec

-----------------------------------------------------------------------------
(* The stream has no hole, because an insert is at the version after the   *)
(* ones that are stored; that is so of every object no save of which has   *)
(* failed, if nobody is saving it.  A copy of an object whose save has     *)
(* failed is there only as long as the session that saves it again has not *)
(* checked the version, or is on its way out.                              *)

Versions == VersionsAfter(0)
StoredTo(v) == 1..v \subseteq Versions
Saving(o) == \E t \in Sessions : At(t, "insert") /\ Obj(t) = o
Leaving(t) == (At(t, "check") /\ object[Obj(t)].broken) \/ At(t, "catch")

Full(o) == object[o].broken \/ Saving(o) \/ StoredTo(object[o].version)
InPlace(t) ==
    LET c == session[t] IN
    At(t, "insert") => /\ StoredTo(c.version + c.saved)
                       /\ object[Obj(t)].version = c.version + Len(c.flushed)
CopyFull ==
    IF copy.broken THEN \E t \in Sessions : Leaving(t) ELSE StoredTo(copy.version)

HoleInv ==
    Never({"evicted", "reused", "kept"}) =>
        /\ \A k \in Versions : StoredTo(k)
        /\ \A o \in Sessions : Full(o)
        /\ \A t \in Sessions : InPlace(t)
        /\ CopyFull

LEMMA VersionsGrow ==
  ASSUME CountInv, [Next]_vars
  PROVE  Versions \subseteq Versions' /\ \A v \in Nat : StoredTo(v) => StoredTo(v)'
<1>1. Versions \subseteq Versions'
  BY RowsGrow DEF Versions, VersionsAfter
<1> QED
  BY <1>1 DEF StoredTo

LEMMA StoredNone == StoredTo(0) /\ StoredTo(0)'
BY DEF StoredTo

(* A step that leaves versions alone, and is not of a save.                *)
LEMMA QuietHole ==
  ASSUME CountInv, [Next]_vars, NEW s \in Sessions, Others(s), UNCHANGED <<rows, copy>>,
         \A o \in Sessions : object'[o].version = object[o].version
                             /\ object'[o].broken = object[o].broken,
         session[s].pc \notin {"check", "insert", "catch"}, session'[s].pc # "insert",
         Never({"evicted", "reused", "kept"}), HoleInv
  PROVE  /\ \A k \in Versions' : StoredTo(k)'
         /\ \A o \in Sessions : Full(o)'
         /\ \A t \in Sessions : InPlace(t)'
         /\ CopyFull'
<1>1. /\ \A k \in Versions : StoredTo(k)
      /\ \A o \in Sessions : Full(o)
      /\ \A t \in Sessions : InPlace(t)
      /\ CopyFull
  BY DEF HoleInv
<1>2. Versions' = Versions
  BY DEF Versions, VersionsAfter
<1>3. ASSUME NEW t \in Sessions, At(t, "check") \/ At(t, "insert")
      PROVE  session'[t] = session[t] /\ Obj(t) \in Sessions
  BY <1>3 DEF Others, At, CountInv, BaseInv, TypeInv, ShapeInv, Shape, Holding, Working, Obj
<1>4. \A t \in Sessions : At(t, "insert")' => At(t, "insert")
  BY DEF Others, At
<1>5. \A k \in Versions' : StoredTo(k)'
  BY <1>1, <1>2 DEF StoredTo
<1>6. ASSUME NEW o \in Sessions PROVE Full(o)'
  <2>1. Saving(o) => Saving(o)'
    BY <1>3 DEF Saving, At, Obj
  <2> QED
    BY <1>1, <1>2, <2>1 DEF Full, StoredTo
<1>7. ASSUME NEW t \in Sessions PROVE InPlace(t)'
  BY <1>1, <1>2, <1>3, <1>4 DEF InPlace, StoredTo, Obj, At
<1>8. CopyFull'
  <2>1. ASSUME NEW t \in Sessions, Leaving(t) PROVE Leaving(t)'
    <3>1. session'[t] = session[t]
      BY <2>1 DEF Leaving, Others, At
    <3> QED
      BY <1>3, <2>1, <3>1 DEF Leaving, At, Obj
  <2> QED
    BY <1>1, <1>2, <2>1 DEF CopyFull, StoredTo
<1> QED
  BY <1>5, <1>6, <1>7, <1>8

(* Who is inside is alone, so that nobody else checks or inserts.          *)
LEMMA AloneFacts ==
  ASSUME CountInv, Never({"evicted"}), NEW s \in Sessions, Inside(s), Others(s)
  PROVE  /\ \A t \in Sessions : t # s => session[t].pc \notin {"check", "insert", "catch"}
                                         /\ session'[t].pc \notin {"check", "insert", "catch"}
         /\ \A o \in Sessions : Saving(o) => At(s, "insert") /\ Obj(s) = o
         /\ \A o \in Sessions : At(s, "insert")' /\ Obj(s)' = o => Saving(o)'
         /\ \A t \in Sessions : Leaving(t) => t = s
<1>1. \A t \in Sessions : t # s => session[t].pc \notin {"check", "insert", "catch"}
  BY Excludes DEF Inside, CountInv, BaseInv
<1>2. \A t \in Sessions : t # s => session'[t].pc \notin {"check", "insert", "catch"}
  BY <1>1 DEF Others
<1>3. \A o \in Sessions : Saving(o) => At(s, "insert") /\ Obj(s) = o
  BY <1>1 DEF Saving, At
<1>4. \A o \in Sessions : At(s, "insert")' /\ Obj(s)' = o => Saving(o)'
  BY DEF Saving
<1>5. \A t \in Sessions : Leaving(t) => t = s
  BY <1>1 DEF Leaving, At
<1> QED
  BY <1>1, <1>2, <1>3, <1>4, <1>5

(* What is read is stored.                                                 *)
LEMMA ReadTo ==
  ASSUME Types, NEW v \in Nat, Contiguous(VersionsAfter(v), v), StoredTo(v)
  PROVE  StoredTo(v + Cardinality(VersionsAfter(v)))
<1> DEFINE n == Cardinality(VersionsAfter(v))
<1>1. n \in Nat /\ \A i \in 1..n : v + i \in Ids /\ rows[v + i] # 0
  BY EventsFacts
<1> HIDE DEF n
<1> SUFFICES ASSUME NEW k \in 1..(v + n) PROVE k \in Versions
  BY DEF StoredTo, n
<1>2. CASE k \in 1..v
  BY <1>2 DEF StoredTo
<1>3. CASE k \notin 1..v
  <2>1. k - v \in 1..n /\ v + (k - v) = k /\ k > 0
    BY <1>1, <1>3
  <2>2. k \in Ids /\ rows[k] # 0
    BY <1>1, <2>1
  <2> QED
    BY <2>1, <2>2 DEF Versions, VersionsAfter
<1> QED
  BY <1>2, <1>3

StoredNext(v) == 1..v \subseteq Versions'

HoleKept ==
    /\ \A k \in Versions' : StoredTo(k)'
    /\ \A o \in Sessions : Full(o)'
    /\ \A t \in Sessions : InPlace(t)'
    /\ CopyFull'

LEMMA InsideHole ==
  ASSUME CountInv, WholeInv, HoleInv, [Next]_vars, Never({"evicted", "reused", "kept"}),
         NEW s \in Sessions, Inside(s), Others(s),
         "reused" \notin happened', "kept" \notin happened',
         \/ GetIsTracked(s) \/ SaveIsTracked(s) \/ Get(s) \/ CatchUp(s) \/ Discard(s) \/ Load(s)
         \/ Put(s) \/ Check(s) \/ Insert(s) \/ Catch(s)
  PROVE  HoleKept
<1> DEFINE c == session[s]
           d == session'[s]
           o == Obj(s)
<1>0. Types /\ Shape(s) /\ c \in SessionTypes /\ Never({"evicted"})
  BY DEF CountInv, BaseInv, TypeInv, ShapeInv, Types, Never
<1>1. /\ \A t \in Sessions : t # s => session'[t].pc \notin {"check", "insert"}
      /\ \A p \in Sessions : Saving(p) => c.pc = "insert" /\ o = p
      /\ \A p \in Sessions : d.pc = "insert" /\ d.obj = p => Saving(p)'
      /\ \A t \in Sessions : Leaving(t) => t = s
  BY <1>0, AloneFacts DEF At, Obj
<1>2. /\ \A k \in Versions : StoredTo(k)
      /\ \A p \in Sessions : object[p].broken \/ (c.pc = "insert" /\ o = p) \/ StoredTo(object[p].version)
      /\ InPlace(s)
      /\ IF copy.broken THEN (c.pc = "check" /\ object[o].broken) \/ c.pc = "catch"
         ELSE StoredTo(copy.version)
  BY <1>1 DEF HoleInv, Full, CopyFull, Leaving, At
<1>3. ASSUME \A k \in Versions' : StoredNext(k),
             \A p \in Sessions : \/ object'[p].broken
                                 \/ d.pc = "insert" /\ d.obj = p
                                 \/ StoredNext(object'[p].version),
             d.pc = "insert" => /\ StoredNext(d.version + d.saved)
                                /\ object'[d.obj].version = d.version + Len(d.flushed),
             IF copy'.broken THEN (d.pc = "check" /\ object'[d.obj].broken) \/ d.pc = "catch"
             ELSE StoredNext(copy'.version)
      PROVE  HoleKept
  BY <1>1, <1>3 DEF HoleKept, Full, InPlace, CopyFull, Leaving, StoredTo, StoredNext, At, Obj
<1>4. \A v : StoredTo(v) => StoredNext(v)
  BY VersionsGrow DEF StoredTo, StoredNext
<1>5. StoredTo(0) /\ StoredNext(0) /\ NoCopy.version = 0 /\ NoCopy.broken = FALSE
  BY StoredNone DEF StoredTo, StoredNext, NoCopy
<1>6. ASSUME rows' = rows PROVE \A k \in Versions' : StoredNext(k)
  BY <1>2, <1>6 DEF Versions, VersionsAfter, StoredTo, StoredNext
<1>7. ASSUME rows' = rows, UNCHANGED object, c.pc \notin {"check", "insert", "catch"}, d.pc # "insert",
             copy' = copy \/ copy' = NoCopy
      PROVE  HoleKept
  <2>1. ~copy'.broken /\ StoredNext(copy'.version)
    BY <1>2, <1>4, <1>5, <1>7
  <2> QED
    BY <1>2, <1>3, <1>4, <1>6, <1>7, <2>1
<1>8. CASE GetIsTracked(s) \/ SaveIsTracked(s)
  BY <1>0, <1>7, <1>8, IsTrackedFacts DEF store, caches
<1>9. CASE Get(s)
  <2>1. rows' = rows /\ c.pc = "get"
    BY <1>9 DEF Get, GetObject, GetCopy, GetNothing, At, store
  <2>2. /\ d.pc \in {"catchup", "catch"} /\ copy' = copy
        /\ \/ UNCHANGED object
           \/ /\ object'[s].version = copy.version
              /\ \A p \in Sessions : p # s => object'[p] = object[p]
    BY <1>0, <1>9, GetFacts DEF Caught, caches
  <2>3. \A p \in Sessions : object'[p].broken \/ StoredNext(object'[p].version)
    BY <1>2, <1>4, <2>1, <2>2
  <2> QED
    BY <1>2, <1>3, <1>4, <1>6, <2>1, <2>2, <2>3
<1>10. CASE CatchUp(s)
  <2>1. rows' = rows /\ c.pc = "catchup" /\ o \in Sessions /\ copy' = copy
    BY <1>0, <1>10, CatchUpFacts DEF CatchUp, store, caches, Obj
  <2>2. CASE d.pc # "open"
    <3>1. UNCHANGED object /\ d.pc # "insert"
      BY <1>0, <1>10, <2>2, CatchUpFacts
    <3> QED
      BY <1>7, <2>1, <3>1
  <2>3. CASE d.pc = "open"
    <3> DEFINE n == Cardinality(VersionsAfter(c.version))
    <3>1. /\ n \in Nat
          /\ \A p \in Sessions : p # o => object'[p] = object[p]
          /\ object'[o].version = object[o].version + n
          /\ object'[o].broken = object[o].broken
          /\ n # 0 => object[o].version = c.version
          /\ Contiguous(VersionsAfter(c.version), c.version)
      BY <1>0, <1>10, <2>3, CatchUpFacts DEF Obj
    <3>2. object[o].version \in Nat /\ c.version \in Nat
      BY <1>0, <2>1 DEF Types, Objects, SessionTypes
    <3>3. object'[o].broken \/ StoredNext(object'[o].version)
      <4>1. CASE object[o].broken
        BY <3>1, <4>1
      <4>2. CASE ~object[o].broken
        <5>1. StoredTo(object[o].version)
          BY <1>2, <2>1, <4>2
        <5>2. CASE n = 0
          BY <1>4, <3>1, <3>2, <5>1, <5>2
        <5>3. CASE n # 0
          <6>1. StoredTo(c.version + n)
            BY <1>0, <3>1, <3>2, <5>1, <5>3, ReadTo
          <6> HIDE DEF n
          <6> QED
            BY <1>4, <3>1, <5>3, <6>1
        <5> QED
          BY <5>2, <5>3
      <4> QED
        BY <4>1, <4>2
    <3>4. \A p \in Sessions : object'[p].broken \/ StoredNext(object'[p].version)
      BY <1>2, <1>4, <2>1, <3>1, <3>3
    <3> QED
      BY <1>2, <1>3, <1>4, <1>6, <2>1, <2>3, <3>1, <3>4
  <2> QED
    BY <2>2, <2>3
<1>11. CASE Discard(s)
  <2>1. UNCHANGED <<rows, object>>
    BY <1>11 DEF Discard, store
  <2> QED
    BY <1>0, <1>7, <1>11, <2>1, DiscardFacts DEF Removed
<1>12. CASE Load(s)
  <2>1. rows' = rows /\ c.pc = "load" /\ copy' = copy
    BY <1>12 DEF Load, At, store, caches
  <2>2. CASE Caught(s)
    <3>1. UNCHANGED object /\ d.pc = "catch"
      BY <1>0, <1>12, <2>2, LoadFacts DEF Caught
    <3> QED
      BY <1>7, <2>1, <3>1
  <2>3. CASE ~Caught(s)
    <3> DEFINE n == Cardinality(VersionsAfter(0))
    <3>1. /\ d.pc = "put" /\ n \in Nat
          /\ Contiguous(VersionsAfter(0), 0)
          /\ \A p \in Sessions : p # s => object'[p] = object[p]
          /\ object'[s].version = n
      BY <1>0, <1>12, <2>3, LoadFacts
    <3>2. StoredTo(n)
      <4>1. StoredTo(0 + n)
        BY <1>0, <1>5, <3>1, ReadTo
      <4> HIDE DEF n
      <4>2. 0 + n = n
        BY <3>1
      <4> QED
        BY <4>1, <4>2
    <3> HIDE DEF n
    <3>3. \A p \in Sessions : object'[p].broken \/ StoredNext(object'[p].version)
      BY <1>2, <1>4, <2>1, <3>1, <3>2
    <3> QED
      BY <1>2, <1>3, <1>4, <1>6, <2>1, <3>1, <3>3
  <2> QED
    BY <2>2, <2>3
<1>13. CASE Put(s)
  <2>1. /\ UNCHANGED <<rows, object>> /\ c.pc = "put" /\ d.pc # "insert" /\ o \in Sessions
        /\ copy' = copy \/ (copy'.version = object[o].version /\ copy'.broken = object[o].broken)
    BY <1>0, <1>13, PutFacts DEF Put, store, Caught, Obj
  <2>2. CASE copy' = copy
    BY <1>7, <2>1, <2>2
  <2>3. CASE copy' # copy
    <3>1. \A p \in Sessions : object'[p].broken \/ StoredNext(object'[p].version)
      BY <1>2, <1>4, <2>1
    <3>2. object[o].broken => (d.pc = "check" /\ d.obj = o) \/ d.pc = "catch"
      <4>1. CASE d.pc = "open"
        <5>1. c.op = "get" /\ o = s
          BY <1>0, <1>13, <2>1, <4>1, PutFacts DEF Caught, Shape, Obj
        <5> QED
          BY <2>1, <5>1 DEF WholeInv, Putting, At
      <4>2. CASE d.pc # "open"
        BY <1>0, <1>13, <4>2, PutFacts DEF Caught, Moved, Obj
      <4> QED
        BY <4>1, <4>2
    <3>3. object[o].broken \/ StoredNext(copy'.version)
      BY <1>2, <1>4, <2>1, <2>3
    <3> QED
      BY <1>3, <1>6, <2>1, <2>3, <3>1, <3>2, <3>3
  <2> QED
    BY <2>2, <2>3
<1>14. CASE Catch(s)
  <2>1. UNCHANGED <<rows, object>>
    BY <1>14 DEF Catch, store
  <2>2. c.pc = "catch" /\ d.pc # "insert" /\ (copy' = NoCopy \/ (copy' = copy /\ ~copy.broken))
    BY <1>0, <1>14, CatchFacts DEF Ended
  <2>3. ~copy'.broken /\ StoredNext(copy'.version)
    BY <1>2, <1>4, <1>5, <2>2
  <2>4. \A p \in Sessions : object'[p].broken \/ StoredNext(object'[p].version)
    BY <1>2, <1>4, <2>1, <2>2
  <2> QED
    BY <1>3, <1>6, <2>1, <2>2, <2>3, <2>4
<1>15. CASE Check(s)
  <2>1. rows' = rows /\ c.pc = "check" /\ o \in Sessions
    BY <1>0, <1>15, CheckFacts DEF Check, store, Obj
  <2>2. CASE d.pc = "catch"
    <3>1. UNCHANGED <<object, copy>>
      BY <1>0, <1>15, <2>2, CheckFacts DEF Ended, caches
    <3>2. \A p \in Sessions : object'[p].broken \/ StoredNext(object'[p].version)
      BY <1>2, <1>4, <2>1, <3>1
    <3>3. copy.broken \/ StoredNext(copy.version)
      BY <1>2, <1>4
    <3> QED
      BY <1>3, <1>6, <2>1, <2>2, <3>1, <3>2, <3>3
  <2>3. CASE d.pc # "catch"
    <3> DEFINE batch == object[o].changes
    <3>1. /\ copy' = copy
          /\ \A p \in Sessions : p # o => object'[p] = object[p]
          /\ object'[o].version = object[o].version + Len(batch)
          /\ object[o].broken => "reused" \in happened'
          /\ \/ batch = <<>> /\ d.pc = "done"
             \/ /\ d.pc = "insert" /\ d.obj = o /\ d.version = object[o].version
                /\ d.flushed = batch /\ d.saved = 0
      BY <1>0, <1>15, <2>3, CheckFacts DEF Obj, caches, Caught
    <3>2. ~object[o].broken /\ StoredTo(object[o].version) /\ ~copy.broken
      BY <1>2, <2>1, <3>1
    <3>3. object[o].version \in Nat /\ Len(<<>>) = 0
      BY <1>0, <2>1 DEF Types, Objects
    <3>4. ~copy'.broken /\ StoredNext(copy'.version)
      BY <1>2, <1>4, <3>1, <3>2
    <3>5. \A p \in Sessions : p # o => object'[p].broken \/ StoredNext(object'[p].version)
      BY <1>2, <1>4, <2>1, <3>1
    <3>6. CASE batch = <<>> /\ d.pc = "done"
      <4>1. StoredNext(object'[o].version)
        <5>1. object'[o].version = object[o].version
          BY <3>1, <3>3, <3>6
        <5> QED
          BY <1>4, <3>2, <5>1
      <4> QED
        BY <1>3, <1>6, <2>1, <3>4, <3>5, <3>6, <4>1
    <3>7. CASE d.pc = "insert"
      <4>1. /\ d.obj = o /\ d.version = object[o].version /\ d.flushed = batch /\ d.saved = 0
        BY <3>1, <3>7
      <4>2. StoredNext(d.version + d.saved)
        <5>1. d.version + d.saved = object[o].version
          BY <3>3, <4>1
        <5> QED
          BY <1>4, <3>2, <5>1
      <4> QED
        BY <1>3, <1>6, <2>1, <3>1, <3>4, <3>5, <3>7, <4>1, <4>2
    <3> QED
      BY <3>1, <3>6, <3>7
  <2> QED
    BY <2>2, <2>3
<1>16. CASE Insert(s)
  <2> DEFINE n == c.saved + 1
             v == c.version + n
  <2>1. /\ c.pc = "insert" /\ n \in 1..Len(c.flushed) /\ v \in Ids /\ o \in Sessions
        /\ \A k \in Ids : k # v => rows'[k] = rows[k]
        /\ d.pc # "catch" => rows'[v] = c.flushed[n] /\ c.flushed[n] \in Ids
    <3>1. /\ At(s, "insert") /\ n \in 1..Len(c.flushed) /\ v \in Ids
          /\ \A k \in Ids : k # v => rows'[k] = rows[k]
          /\ d.pc # "catch" => rows'[v] = c.flushed[n]
      BY <1>16, InsertStores
    <3>2. c.flushed[n] \in Ids /\ o \in Sessions
      BY <1>0, <1>16, InsertFacts DEF Obj
    <3> QED
      BY <3>1, <3>2 DEF At
  <2>2. c.version \in Nat /\ c.saved \in Nat /\ Len(c.flushed) \in Nat /\ v \in Nat /\ v > 0
        /\ c.version + c.saved = v - 1
    BY <1>0, <2>1 DEF SessionTypes, Ids
  <2>3. StoredTo(v - 1) /\ object[o].version = c.version + Len(c.flushed)
    BY <1>2, <2>1, <2>2 DEF InPlace, At, Obj
  <2> HIDE DEF v
  <2>4. StoredNext(v - 1) /\ (v \in Versions' => StoredNext(v))
    <3>1. StoredNext(v - 1)
      BY <1>4, <2>3
    <3> QED
      BY <2>2, <3>1 DEF StoredNext
  <2>5. \A k \in Versions' : StoredNext(k)
    <3> SUFFICES ASSUME NEW k \in Versions' PROVE StoredNext(k)
      OBVIOUS
    <3>1. k # v => k \in Versions
      BY <2>1 DEF Versions, VersionsAfter
    <3> QED
      BY <1>2, <1>4, <2>4, <3>1
  <2>6. ~copy.broken /\ StoredNext(copy.version)
    BY <1>2, <1>4, <2>1
  <2>7. CASE d.pc = "catch"
    <3>1. /\ copy' = copy /\ object'[o].broken
          /\ \A p \in Sessions : p # o => object'[p] = object[p]
      BY <1>0, <1>16, <2>7, InsertFacts DEF Ended, caches, Obj
    <3>2. \A p \in Sessions : object'[p].broken \/ StoredNext(object'[p].version)
      BY <1>2, <1>4, <3>1
    <3> QED
      BY <1>3, <2>5, <2>6, <2>7, <3>1, <3>2
  <2>8. CASE d.pc # "catch"
    <3>1. v \in Versions'
      <4>1. v > 0 /\ rows'[v] # 0
        BY <2>1, <2>2, <2>8 DEF Ids
      <4> QED
        BY <2>1, <4>1 DEF Versions, VersionsAfter
    <3>2. StoredNext(v) /\ UNCHANGED <<object, copy>>
          /\ \/ n = Len(c.flushed) /\ d.pc = "done"
             \/ /\ d.pc = "insert" /\ d.obj = o /\ d.version = c.version
                /\ d.flushed = c.flushed /\ d.saved = n
      BY <1>0, <1>16, <2>4, <2>8, <3>1, InsertFacts DEF Obj, caches, Caught
    <3>3. \A p \in Sessions : p # o => object'[p].broken \/ StoredNext(object'[p].version)
      BY <1>2, <1>4, <3>2
    <3>4. CASE n = Len(c.flushed) /\ d.pc = "done"
      <4>1. object'[o].version = v
        BY <2>3, <3>2, <3>4 DEF v
      <4> QED
        BY <1>3, <2>5, <2>6, <3>2, <3>3, <3>4, <4>1
    <3>5. CASE d.pc = "insert"
      <4>1. /\ d.obj = o /\ d.version + d.saved = v
            /\ object'[o].version = d.version + Len(d.flushed)
        BY <2>3, <3>2, <3>5 DEF v
      <4> QED
        BY <1>3, <2>5, <2>6, <3>2, <3>3, <3>5, <4>1
    <3> QED
      BY <3>2, <3>4, <3>5
  <2> QED
    BY <2>7, <2>8
<1> QED
  BY <1>8, <1>9, <1>10, <1>11, <1>12, <1>13, <1>14, <1>15, <1>16

LEMMA HoleStep ==
  ASSUME CountInv, WholeInv, HoleInv, [Next]_vars
  PROVE  HoleInv'
<1> SUFFICES ASSUME Never({"evicted", "reused", "kept"})' PROVE HoleKept
  BY DEF HoleInv, HoleKept
<1>0. Never({"evicted", "reused", "kept"}) /\ "reused" \notin happened' /\ "kept" \notin happened'
      /\ Never({"evicted"}) /\ TypeInv
  BY HappenedGrows DEF Never, CountInv, BaseInv
<1>1. /\ \A k \in Versions : StoredTo(k)
      /\ \A o \in Sessions : Full(o)
      /\ \A t \in Sessions : InPlace(t)
      /\ CopyFull
  BY <1>0 DEF HoleInv
<1>2. CASE UNCHANGED <<object, session, rows>> /\ copy' \in {copy, NoCopy}
  <2>1. Versions' = Versions
    BY <1>2 DEF Versions, VersionsAfter
  <2>2. CopyFull'
    BY <1>1, <1>2, <2>1, StoredNone DEF CopyFull, Leaving, StoredTo, NoCopy, At, Obj
  <2>3. (\A k \in Versions' : StoredTo(k)') /\ \A o \in Sessions : Full(o)'
    BY <1>1, <1>2, <2>1 DEF StoredTo, Full, Saving, At, Obj
  <2>4. \A t \in Sessions : InPlace(t)'
    BY <1>1, <1>2, <2>1 DEF StoredTo, InPlace, At, Obj
  <2> QED
    BY <2>2, <2>3, <2>4 DEF HoleKept
<1>3. CASE Expire \/ RunCallback \/ UNCHANGED vars
  BY <1>2, <1>3 DEF Expire, RunCallback, vars, store, caches
<1>4. CASE Elsewhere
  <2>1. UNCHANGED <<object, session, copy>>
    BY <1>0, <1>4, ElsewhereFacts DEF TypeInv, caches
  <2>2. PICK last \in 0..(MaxIds - 1) :
          (last = 0 \/ rows[last] # 0) /\ rows' = [rows EXCEPT ![last + 1] = nextId]
    BY <1>0, <1>4, ElsewhereFacts DEF TypeInv
  <2>3. StoredTo(last)'
    <3>1. last = 0 \/ last \in Versions
      BY <2>2, BoundsAssumption DEF Versions, VersionsAfter, Ids
    <3>2. StoredTo(last)
      BY <1>1, <3>1, StoredNone
    <3> QED
      BY <3>2, VersionsGrow
  <2>4. ASSUME NEW k \in Versions' PROVE StoredTo(k)'
    <3>1. CASE k = last + 1
      BY <2>3, <2>4, <3>1 DEF StoredTo
    <3>2. CASE k # last + 1
      <4>1. k \in Versions /\ k \in Nat
        BY <1>0, <2>2, <2>4, <3>2 DEF Versions, VersionsAfter, TypeInv, Types, Ids
      <4> QED
        BY <1>1, <4>1, VersionsGrow
    <3> QED
      BY <3>1, <3>2
  <2>5. Versions \subseteq Versions'
    BY VersionsGrow
  <2>6. \A o \in Sessions : Full(o)'
    BY <1>1, <2>1, <2>5 DEF StoredTo, Full, Saving, At, Obj
  <2>7. \A t \in Sessions : InPlace(t)'
    BY <1>1, <2>1, <2>5 DEF StoredTo, InPlace, At, Obj
  <2>8. CopyFull'
    BY <1>1, <2>1, <2>5 DEF CopyFull, Leaving, StoredTo, At, Obj
  <2> QED
    BY <2>4, <2>6, <2>7, <2>8 DEF HoleKept
<1>5. ASSUME NEW s \in Sessions, Acts(s) PROVE HoleKept
  <2> DEFINE c == session[s]
             d == session'[s]
  <2>0. Types /\ Shape(s) /\ Others(s)
    BY <1>0, <1>5, OwnFacts DEF TypeInv, ShapeInv
  <2>1. ASSUME UNCHANGED <<rows, copy>>, c.pc \notin {"check", "insert", "catch"}, d.pc # "insert",
               \A o \in Sessions : object'[o].version = object[o].version
                                   /\ object'[o].broken = object[o].broken
        PROVE  HoleKept
    BY <1>0, <2>0, <2>1, QuietHole DEF HoleKept
  <2>2. CASE Acquire(s) \/ StartGet(s) \/ StartSave(s)
    <3>1. /\ (\E op \in {"get", "save"} : Enter(s, op)) \/ Goto(s, "tracked")
          /\ c.pc \notin {"check", "insert", "catch"} /\ UNCHANGED <<rows, object, copy>>
      BY <2>2 DEF Acquire, StartGet, StartSave, At, store, caches
    <3>2. d.pc # "insert"
      BY <2>0, <3>1, EnterFacts, GotoFacts
    <3> QED
      BY <2>1, <3>1, <3>2
  <2>3. CASE Change(s)
    <3>1. c.pc = "open" /\ d.pc = "open"
          /\ \A o \in Sessions : object'[o].version = object[o].version
                                 /\ object'[o].broken = object[o].broken
      <4>1. /\ c.pc = "open" /\ d.pc = "open"
            /\ \A p \in Sessions : p # Obj(s) => object'[p] = object[p]
            /\ object'[Obj(s)].version = object[Obj(s)].version
            /\ object'[Obj(s)].broken = object[Obj(s)].broken
        BY <2>0, <2>3, ChangeFacts DEF Obj
      <4> QED
        BY <4>1
    <3>2. UNCHANGED <<rows, copy>>
      BY <2>3 DEF Change, caches
    <3> QED
      BY <2>1, <3>1, <3>2
  <2>4. CASE AddAgain(s)
    <3>1. c.pc = "failed" /\ d.pc = "open" /\ UNCHANGED <<rows, object, copy>>
      BY <2>0, <2>4, AddAgainFacts DEF AddAgain, store, caches
    <3> QED
      BY <2>1, <3>1
  <2>5. CASE \/ GetIsTracked(s) \/ SaveIsTracked(s) \/ Get(s) \/ CatchUp(s) \/ Discard(s) \/ Load(s)
             \/ Put(s) \/ Check(s) \/ Insert(s) \/ Catch(s)
    <3>1. Inside(s)
      BY <2>5 DEF GetIsTracked, SaveIsTracked, Get, GetObject, GetCopy, GetNothing, CatchUp, Discard,
         Load, Put, Check, Insert, Catch, At, Inside
    <3> QED
      BY <1>0, <2>0, <2>5, <3>1, InsideHole
  <2> QED
    BY <1>5, <2>2, <2>3, <2>4, <2>5 DEF Acts, GetAsync, SaveAsync
<1> QED
  BY <1>3, <1>4, <1>5 DEF Next, Acts

LEMMA HoleInvariant == Spec => []HoleInv
<1>1. Init => HoleInv
  <2> SUFFICES ASSUME Init PROVE HoleInv
    OBVIOUS
  <2>1. Versions = {}
    BY DEF Init, Versions, VersionsAfter
  <2>2. (\A o \in Sessions : Full(o)) /\ (\A t \in Sessions : InPlace(t)) /\ CopyFull
    BY StoredNone DEF Init, Full, InPlace, CopyFull, NewObject, NoCopy, Fresh, At
  <2> QED
    BY <2>1, <2>2 DEF HoleInv
<1> QED
  BY <1>1, HoleStep, CountInvariant, WholeInvariant, PTL DEF Spec

(* The stream never has a hole, unless an object was saved again after a   *)
(* save of it had failed, or the copy of such an object stayed in Redis,   *)
(* or the lock was lost: whoever saves is alone, with an object whose      *)
(* Version is of a stored event, as the version check of                   *)
(* Repository.SaveAsync finds nothing after it.                            *)
THEOREM NoHoleIsLeft == Spec => []StreamHasNoHole
<1>1. HoleInv => StreamHasNoHole
  <2> SUFFICES ASSUME Never({"evicted", "reused", "kept"}), \A k \in Versions : StoredTo(k)
               PROVE  Contiguous(VersionsAfter(0), 0)
    BY DEF HoleInv, StreamHasNoHole
  <2>1. 0 + 1 = 1
    OBVIOUS
  <2> QED
    BY <2>1 DEF Contiguous, Versions, StoredTo
<1> QED
  BY <1>1, HoleInvariant, PTL

-----------------------------------------------------------------------------
(* What an object has applied are the stored events, those that a save is  *)
(* about to store in their places, and the changes that wait, in order.    *)

Comes(o, k, id) ==
    \E t \in Sessions :
        LET c == session[t] IN
        /\ At(t, "insert") /\ Obj(t) = o
        /\ k \in (c.version + c.saved + 1)..(c.version + Len(c.flushed))
        /\ c.flushed[k - c.version] = id

Replayed(o) ==
    LET x == object[o] IN
    /\ Len(x.state) = x.version + Len(x.changes)
    /\ \A i \in 1..Len(x.changes) : x.state[x.version + i] = x.changes[i]
    /\ \A k \in 1..x.version : rows[k] = x.state[k] \/ Comes(o, k, x.state[k])

CopyReplayed ==
    /\ Len(copy.state) = copy.version
    /\ \A k \in 1..copy.version : rows[k] = copy.state[k]

(* What is left of an object after a save of it had failed is in a cache   *)
(* only while somebody is about to find that, or to remove it.             *)
BrokenLeaves ==
    (cached \in Sessions /\ object[cached].broken) \/ copy.broken =>
        \E t \in Sessions : Leaving(t)

ReplayInv ==
    Never({"mixed", "copied", "reused", "kept"}) =>
        /\ \A o \in Sessions : object[o].broken \/ Replayed(o)
        /\ BrokenLeaves
        /\ copy.broken \/ CopyReplayed

(* Who is to insert does, or fails.                                        *)
LEMMA InsertsNext ==
  ASSUME NEW s \in Sessions, Acts(s), At(s, "insert")
  PROVE  Insert(s)
BY DEF Acts, Acquire, GetAsync, StartGet, GetIsTracked, Get, GetObject, GetCopy, GetNothing,
   CatchUp, Discard, Load, Put, Catch, Change, AddAgain, SaveAsync, StartSave, SaveIsTracked, Check, At

ComesNext(o, k, id) ==
    \E t \in Sessions :
        LET d == session'[t] IN
        /\ d.pc = "insert" /\ d.obj = o
        /\ k \in (d.version + d.saved + 1)..(d.version + Len(d.flushed))
        /\ d.flushed[k - d.version] = id

LEMMA ComesKept ==
  ASSUME CountInv, [Next]_vars, NEW p \in Sessions, NEW k \in Nat, NEW id, Comes(p, k, id)
  PROVE  ComesNext(p, k, id) \/ rows'[k] = id \/ object'[p].broken
<1>0. TypeInv
  BY DEF CountInv, BaseInv
<1>1. CASE UNCHANGED session
  BY <1>1 DEF Comes, ComesNext, At, Obj
<1>2. CASE Expire \/ RunCallback \/ Elsewhere \/ UNCHANGED vars
  BY <1>1, <1>2 DEF Expire, RunCallback, Elsewhere, vars
<1>3. ASSUME NEW s \in Sessions, Acts(s)
      PROVE  ComesNext(p, k, id) \/ rows'[k] = id \/ object'[p].broken
  <2>1. PICK t \in Sessions :
          LET c == session[t] IN
          /\ At(t, "insert") /\ Obj(t) = p
          /\ k \in (c.version + c.saved + 1)..(c.version + Len(c.flushed))
          /\ c.flushed[k - c.version] = id
    BY DEF Comes
  <2>2. CASE t # s
    <3>1. session'[t] = session[t]
      BY <1>0, <1>3, <2>2, OwnFacts DEF Others
    <3> QED
      BY <2>1, <3>1 DEF ComesNext, At, Obj
  <2>3. CASE t = s
    <3> DEFINE c == session[s]
               d == session'[s]
               n == c.saved + 1
               v == c.version + n
    <3>1. Insert(s) /\ Types /\ Shape(s)
      BY <1>0, <1>3, <2>1, <2>3, InsertsNext DEF TypeInv, ShapeInv
    <3>2. CASE d.pc = "catch"
      BY <2>1, <2>3, <3>1, <3>2, InsertFacts DEF Ended, Obj
    <3>3. CASE d.pc # "catch"
      <4>1. rows'[v] = c.flushed[n]
        BY <3>1, <3>3, InsertStores
      <4>2. c.version \in Nat /\ c.saved \in Nat /\ Len(c.flushed) \in Nat
        BY <3>1 DEF Types, SessionTypes
      <4>3. CASE k = v
        <5>1. k - c.version = n
          BY <4>2, <4>3
        <5> QED
          BY <2>1, <2>3, <4>1, <4>3, <5>1
      <4>4. CASE k # v
        <5>1. k \in (c.version + n + 1)..(c.version + Len(c.flushed)) /\ n # Len(c.flushed)
          <6>1. k \in (c.version + c.saved + 1)..(c.version + Len(c.flushed))
            BY <2>1, <2>3
          <6>2. k \in Nat /\ n = c.saved + 1 /\ k # c.version + (c.saved + 1)
            BY <4>4
          <6> HIDE DEF n, v
          <6> QED
            BY SMTT(30), <4>2, <6>1, <6>2
        <5>2. /\ d.pc = "insert" /\ d.obj = c.obj /\ d.version = c.version
              /\ d.flushed = c.flushed /\ d.saved = n
          BY <3>1, <3>3, <5>1, InsertFacts DEF Caught
        <5> HIDE DEF n
        <5> QED
          BY <2>1, <2>3, <5>1, <5>2 DEF ComesNext, At, Obj
      <4> QED
        BY <4>3, <4>4
    <3> QED
      BY <3>2, <3>3
  <2> QED
    BY <2>2, <2>3
<1> QED
  BY <1>2, <1>3 DEF Next, Acts

(* A version of an object, and what it applied last at that version.       *)
LEMMA PlaceFacts ==
  ASSUME CountInv, NEW o \in Sessions, Replayed(o), NEW k \in 1..object[o].version
  PROVE  k \in Ids /\ k \in 1..Len(object[o].state) /\ object[o].state[k] \in Ids
<1>1. /\ object[o].version \in Nat /\ object[o].state \in Seq(Ids)
      /\ object[o].changes \in Seq(Ids) /\ Len(object[o].changes) \in Nat
  BY DEF CountInv, BaseInv, TypeInv, Types, Objects
<1>2. object[o].version <= MaxIds
  BY <1>1, UsedFacts, BoundsAssumption DEF CountInv, BaseInv, VersionInv, Room
<1>3. Len(object[o].state) = object[o].version + Len(object[o].changes)
  BY DEF Replayed
<1>4. k \in Ids /\ k \in 1..Len(object[o].state)
  BY <1>1, <1>2, <1>3, BoundsAssumption DEF Ids
<1> QED
  BY <1>1, <1>4

LEMMA PlaceKept ==
  ASSUME CountInv, [Next]_vars, NEW o \in Sessions, Replayed(o), NEW k \in 1..object[o].version
  PROVE  LET id == object[o].state[k] IN
         rows'[k] = id \/ ComesNext(o, k, id) \/ object'[o].broken
<1>1. k \in Ids /\ object[o].state[k] \in Ids
  BY PlaceFacts
<1>2. CASE rows[k] = object[o].state[k]
  BY <1>1, <1>2, RowsGrow DEF Ids
<1>3. CASE Comes(o, k, object[o].state[k])
  BY <1>1, <1>3, ComesKept DEF Ids
<1> QED
  BY <1>2, <1>3 DEF Replayed

ReplayedNext(o) ==
    LET x == object'[o] IN
    /\ Len(x.state) = x.version + Len(x.changes)
    /\ \A i \in 1..Len(x.changes) : x.state[x.version + i] = x.changes[i]
    /\ \A k \in 1..x.version : rows'[k] = x.state[k] \/ ComesNext(o, k, x.state[k])

LEMMA ReplayedKept ==
  ASSUME CountInv, [Next]_vars, NEW o \in Sessions, Replayed(o),
         object'[o].version = object[o].version, object'[o].state = object[o].state,
         object'[o].changes = object[o].changes
  PROVE  object'[o].broken \/ ReplayedNext(o)
<1>1. \A k \in 1..object[o].version :
        LET id == object[o].state[k] IN
        rows'[k] = id \/ ComesNext(o, k, id) \/ object'[o].broken
  BY PlaceKept
<1> SUFFICES ASSUME ~object'[o].broken PROVE ReplayedNext(o)
  OBVIOUS
<1>2. /\ Len(object[o].state) = object[o].version + Len(object[o].changes)
      /\ \A i \in 1..Len(object[o].changes) :
           object[o].state[object[o].version + i] = object[o].changes[i]
  BY DEF Replayed
<1>3. ASSUME NEW k \in 1..object'[o].version
      PROVE  rows'[k] = object'[o].state[k] \/ ComesNext(o, k, object'[o].state[k])
  BY <1>1, <1>3
<1> QED
  BY <1>2, <1>3 DEF ReplayedNext

(* Where an object breaks or is mended, and when a cache comes to have one. *)
LeavingNext(t) ==
    LET d == session'[t] IN (d.pc = "check" /\ object'[d.obj].broken) \/ d.pc = "catch"

LEMMA BrokenFacts ==
  ASSUME CountInv, WholeInv, NEW s \in Sessions, Acts(s)
  PROVE  /\ \A p \in Sessions : object[p].broken => object'[p].broken \/ (p = s /\ Loading(s))
         /\ cached' \in Sessions /\ object'[cached'].broken =>
              (cached \in Sessions /\ object[cached].broken) \/ LeavingNext(s)
         /\ copy'.broken => copy.broken \/ LeavingNext(s)
<1> DEFINE c == session[s]
           d == session'[s]
           o == Obj(s)
<1>0. TypeInv /\ Types /\ Shape(s) /\ NoCopy.broken = FALSE
  BY DEF CountInv, BaseInv, TypeInv, ShapeInv, NoCopy
<1>1. CASE UNCHANGED <<object, cached, copy>>
  BY <1>1
<1>2. CASE Acquire(s) \/ StartGet(s) \/ StartSave(s) \/ AddAgain(s)
  BY <1>1, <1>2 DEF Acquire, StartGet, StartSave, AddAgain, caches
<1>3. CASE GetIsTracked(s) \/ SaveIsTracked(s)
  BY <1>0, <1>1, <1>3, IsTrackedFacts DEF caches
<1>4. CASE Get(s)
  <2>1. Loading(s)
    BY <1>0, <1>4, GetFacts DEF Loading, Shape
  <2>2. CASE UNCHANGED <<object, caches>>
    BY <1>1, <2>2 DEF caches
  <2>3. CASE ~UNCHANGED <<object, caches>>
    <3>1. /\ \A p \in Sessions : p # s => object'[p] = object[p]
          /\ object'[s].broken = FALSE /\ cached' = s /\ copy' = copy
      BY <1>0, <1>4, <2>3, GetFacts
    <3> QED
      BY <2>1, <3>1
  <2> QED
    BY <2>2, <2>3
<1>5. CASE CatchUp(s)
  <2>1. \A p \in Sessions : object'[p].broken = object[p].broken
    BY <1>0, <1>5, CatchUpFacts
  <2>2. cached' = cached /\ copy' = copy
    BY <1>5 DEF CatchUp, caches
  <2> QED
    BY <2>1, <2>2
<1>6. CASE Discard(s)
  <2>1. object' = object
    BY <1>6 DEF Discard
  <2> QED
    BY <1>0, <1>6, <2>1, DiscardFacts, NamesAssumption DEF Removed
<1>7. CASE Load(s)
  <2>1. Loading(s)
    BY <1>0, <1>7, LoadFacts DEF Loading, Shape
  <2>2. cached' = cached /\ copy' = copy
    BY <1>7 DEF Load, caches
  <2>3. \/ UNCHANGED object
        \/ object'[s].broken = FALSE /\ \A p \in Sessions : p # s => object'[p] = object[p]
    BY <1>0, <1>7, LoadFacts
  <2> QED
    BY <2>1, <2>2, <2>3
<1>8. CASE Put(s)
  <2>1. /\ object' = object /\ c.pc = "put" /\ o \in Sessions
        /\ cached' \in {cached, "null", o}
        /\ copy' = copy \/ (cached' = o /\ copy'.broken = object[o].broken)
    BY <1>0, <1>8, PutFacts DEF Put, Obj
  <2>2. cached' = o /\ object[o].broken => cached = o \/ LeavingNext(s)
    <3>1. CASE d.pc = "open"
      <4>1. c.op = "get" /\ o = s
        BY <1>0, <1>8, <2>1, <3>1, PutFacts DEF Caught, Shape, Obj
      <4> QED
        BY <2>1, <4>1 DEF WholeInv, Putting, At
    <3>2. CASE d.pc # "open"
      <4>1. (d.pc = "check" /\ d.obj = o) \/ d.pc = "catch"
        BY <1>0, <1>8, <3>2, PutFacts DEF Caught, Moved, Obj
      <4> QED
        BY <2>1, <4>1 DEF LeavingNext
    <3> QED
      BY <3>1, <3>2
  <2>3. copy'.broken => copy.broken \/ LeavingNext(s)
    <3>1. CASE d.pc = "open"
      <4>1. c.op = "get" /\ o = s
        BY <1>0, <1>8, <2>1, <3>1, PutFacts DEF Caught, Shape, Obj
      <4> QED
        BY <2>1, <4>1 DEF WholeInv, Putting, At
    <3>2. CASE d.pc # "open"
      <4>1. (d.pc = "check" /\ d.obj = o) \/ d.pc = "catch"
        BY <1>0, <1>8, <3>2, PutFacts DEF Caught, Moved, Obj
      <4> QED
        BY <2>1, <4>1 DEF LeavingNext
    <3> QED
      BY <3>1, <3>2
  <2> QED
    BY <2>1, <2>2, <2>3, NamesAssumption
<1>9. CASE Catch(s)
  <2>1. object' = object
    BY <1>9 DEF Catch
  <2> QED
    BY <1>0, <1>9, <2>1, CatchFacts, NamesAssumption DEF Removed
<1>10. CASE Change(s)
  <2>1. \A p \in Sessions : object'[p].broken = object[p].broken
    BY <1>0, <1>10, ChangeFacts
  <2>2. cached' = cached /\ copy' = copy
    BY <1>10 DEF Change, caches
  <2> QED
    BY <2>1, <2>2
<1>11. CASE Check(s)
  <2>1. \A p \in Sessions : object'[p].broken = object[p].broken
    BY <1>0, <1>11, CheckFacts
  <2>2. cached' = cached /\ copy' = copy
    BY <1>11 DEF Check, caches
  <2> QED
    BY <2>1, <2>2
<1>12. CASE Insert(s)
  <2>1. cached' = cached /\ copy' = copy
    BY <1>12 DEF Insert, caches
  <2>2. CASE UNCHANGED object
    BY <1>1, <2>1, <2>2
  <2>3. CASE ~UNCHANGED object
    <3>1. /\ d.pc = "catch" /\ o \in Sessions
          /\ \A p \in Sessions : p # o => object'[p] = object[p]
          /\ object'[o].broken = TRUE
      BY <1>0, <1>12, <2>3, InsertFacts DEF Caught, Obj
    <3> QED
      BY <2>1, <3>1 DEF LeavingNext
  <2> QED
    BY <2>2, <2>3
<1> QED
  BY <1>2, <1>3, <1>4, <1>5, <1>6, <1>7, <1>8, <1>9, <1>10, <1>11, <1>12
     DEF Acts, GetAsync, SaveAsync

(* Who finds what a failed save has left, or removes it, does, or the      *)
(* object is saved again.                                                  *)
LEMMA LeavesNext ==
  ASSUME TypeInv, NEW s \in Sessions, Acts(s), Leaving(s),
         "reused" \notin happened', "kept" \notin happened'
  PROVE  LeavingNext(s) \/ (cached' = "none" /\ (copy' = NoCopy \/ (copy' = copy /\ ~copy.broken)))
<1>0. Types /\ Shape(s)
  BY DEF TypeInv, ShapeInv
<1>1. CASE At(s, "catch")
  <2>1. Catch(s)
    BY <1>1 DEF Acts, Acquire, GetAsync, StartGet, GetIsTracked, Get, GetObject, GetCopy, GetNothing,
       CatchUp, Discard, Load, Put, Change, AddAgain, SaveAsync, StartSave, SaveIsTracked, Check,
       Insert, At
  <2> QED
    BY <1>0, <2>1, CatchFacts DEF Removed
<1>2. CASE At(s, "check") /\ object[Obj(s)].broken
  <2>1. Check(s)
    BY <1>2 DEF Acts, Acquire, GetAsync, StartGet, GetIsTracked, Get, GetObject, GetCopy, GetNothing,
       CatchUp, Discard, Load, Put, Catch, Change, AddAgain, SaveAsync, StartSave, SaveIsTracked,
       Insert, At
  <2>2. Caught(s)
    BY <1>0, <1>2, <2>1, CheckFacts DEF Obj
  <2> QED
    BY <2>2 DEF Caught, LeavingNext
<1> QED
  BY <1>1, <1>2 DEF Leaving

LEMMA BrokenStep ==
  ASSUME CountInv, WholeInv, NEW s \in Sessions, Acts(s),
         "reused" \notin happened', "kept" \notin happened', BrokenLeaves
  PROVE  BrokenLeaves'
<1>0. TypeInv /\ SoleInv /\ Others(s)
  BY OwnFacts DEF CountInv, BaseInv
<1>1. ASSUME NEW t \in Sessions, LeavingNext(t) PROVE BrokenLeaves'
  BY <1>1 DEF BrokenLeaves, Leaving, LeavingNext, At, Obj
<1>2. ASSUME NEW t \in Sessions, Leaving(t), t # s PROVE LeavingNext(t)
  <2>1. session'[t] = session[t]
    BY <1>0, <1>2 DEF Others
  <2>2. CASE At(t, "catch")
    BY <2>1, <2>2 DEF LeavingNext, At
  <2>3. CASE At(t, "check") /\ object[Obj(t)].broken
    <3>1. Obj(t) \in Sessions
      BY <1>0, <2>3 DEF TypeInv, ShapeInv, Shape, Holding, Working, At, Obj
    <3>2. ~(Obj(t) = s /\ Loading(s))
      BY <1>0, <1>2 DEF SoleInv
    <3>3. object'[Obj(t)].broken
      BY <2>3, <3>1, <3>2, BrokenFacts
    <3> QED
      BY <2>1, <2>3, <3>3 DEF LeavingNext, At, Obj
  <2> QED
    BY <1>2, <2>2, <2>3 DEF Leaving
<1>3. CASE \E t \in Sessions : Leaving(t) /\ t # s
  BY <1>1, <1>2, <1>3
<1>4. CASE Leaving(s)
  <2>1. CASE LeavingNext(s)
    BY <1>1, <2>1
  <2>2. CASE cached' = "none" /\ (copy' = NoCopy \/ (copy' = copy /\ ~copy.broken))
    <3>1. NoCopy.broken = FALSE
      BY DEF NoCopy
    <3>2. ~copy'.broken /\ cached' \notin Sessions
      BY <2>2, <3>1, NamesAssumption
    <3> QED
      BY <3>2 DEF BrokenLeaves
  <2> QED
    BY <1>0, <1>4, <2>1, <2>2, LeavesNext
<1>5. CASE \A t \in Sessions : ~Leaving(t)
  <2>1. ~(cached \in Sessions /\ object[cached].broken) /\ ~copy.broken
    BY <1>5 DEF BrokenLeaves
  <2>2. CASE LeavingNext(s)
    BY <1>1, <2>2
  <2>3. CASE ~LeavingNext(s)
    <3>1. ~(cached' \in Sessions /\ object'[cached'].broken) /\ ~copy'.broken
      BY <2>1, <2>3, BrokenFacts
    <3> QED
      BY <3>1 DEF BrokenLeaves
  <2> QED
    BY <2>2, <2>3
<1> QED
  BY <1>3, <1>4, <1>5

LEMMA ConcatFacts ==
  ASSUME NEW a \in Seq(Ids), NEW b \in Seq(Ids)
  PROVE  /\ Len(a \o b) = Len(a) + Len(b)
         /\ \A k \in 1..Len(a) : (a \o b)[k] = a[k]
         /\ \A k \in 1..Len(b) : (a \o b)[Len(a) + k] = b[k]
OBVIOUS

LEMMA AppendBoth ==
  ASSUME NEW a \in Seq(Ids), NEW b \in Seq(Ids), NEW e \in Ids, NEW v \in Nat,
         Len(a) = v + Len(b), \A i \in 1..Len(b) : a[v + i] = b[i]
  PROVE  \A i \in 1..Len(Append(b, e)) : Append(a, e)[v + i] = Append(b, e)[i]
<1> SUFFICES ASSUME NEW i \in 1..Len(Append(b, e)) PROVE Append(a, e)[v + i] = Append(b, e)[i]
  OBVIOUS
<1>1. Len(Append(b, e)) = Len(b) + 1 /\ Len(b) \in Nat
  OBVIOUS
<1>2. CASE i = Len(b) + 1
  <2>1. Append(b, e)[i] = e
    BY <1>2
  <2>2. v + i = Len(a) + 1
    BY <1>1, <1>2
  <2>3. Append(a, e)[v + i] = e
    BY <2>2
  <2> QED
    BY <2>1, <2>3
<1>3. CASE i # Len(b) + 1
  <2>1. i \in 1..Len(b) /\ v + i \in 1..Len(a)
    BY <1>1, <1>3
  <2>2. Append(b, e)[i] = b[i]
    BY <2>1
  <2>3. Append(a, e)[v + i] = a[v + i]
    BY <2>1
  <2> QED
    BY <2>1, <2>2, <2>3
<1> QED
  BY <1>2, <1>3

(* Objects that are loaded, caught up, changed and flushed.                *)
LEMMA ReplayedStep ==
  ASSUME CountInv, [Next]_vars, NEW s \in Sessions, Acts(s), NEW p \in Sessions,
         "mixed" \notin happened', "reused" \notin happened',
         object[p].broken \/ Replayed(p),
         BrokenLeaves, copy.broken \/ CopyReplayed
  PROVE  object'[p].broken \/ ReplayedNext(p)
<1> DEFINE c == session[s]
           d == session'[s]
           o == Obj(s)
<1>0. TypeInv /\ Types /\ Shape(s) /\ c \in SessionTypes
  BY DEF CountInv, BaseInv, TypeInv, ShapeInv, Types
<1>1. ASSUME object'[p].version = object[p].version, object'[p].state = object[p].state,
             object'[p].changes = object[p].changes,
             object[p].broken => object'[p].broken
      PROVE  object'[p].broken \/ ReplayedNext(p)
  BY <1>1, ReplayedKept
<1>2. ASSUME object'[p] = object[p] PROVE object'[p].broken \/ ReplayedNext(p)
  BY <1>1, <1>2
<1>3. CASE Acquire(s) \/ StartGet(s) \/ StartSave(s) \/ GetIsTracked(s) \/ AddAgain(s)
           \/ SaveIsTracked(s) \/ Discard(s) \/ Put(s) \/ Catch(s)
  <2>1. object' = object
    BY <1>3 DEF Acquire, StartGet, StartSave, GetIsTracked, AddAgain, SaveIsTracked, Discard, Put,
       Catch
  <2> QED
    BY <1>2, <2>1
<1>4. CASE Get(s)
  <2>1. \/ object'[p] = object[p]
        \/ /\ p = s /\ copy # NoCopy /\ c.pc = "get"
           /\ object'[p].version = copy.version /\ object'[p].state = copy.state
           /\ object'[p].changes = <<>>
    BY <1>0, <1>4, GetFacts
  <2>2. CASE /\ p = s /\ copy # NoCopy /\ c.pc = "get"
             /\ object'[p].version = copy.version /\ object'[p].state = copy.state
             /\ object'[p].changes = <<>>
    <3>1. ~copy.broken
      <4>1. useRedis /\ Never({"evicted"}) /\ LockInv
        BY <2>2 DEF CountInv, BaseInv, RedisInv
      <4>2. \A t \in Sessions : Leaving(t) => t = s
        BY <2>2, <4>1, Excludes DEF Leaving, Inside, At
      <4> QED
        BY <2>2, <4>2 DEF BrokenLeaves, Leaving, At
    <3>2. CopyReplayed /\ rows' = rows
      BY <1>4, <3>1 DEF Get, GetObject, GetCopy, GetNothing, store
    <3>3. copy.version \in Nat /\ Len(<<>>) = 0
      BY <1>0 DEF Types, Copies
    <3> QED
      BY <2>2, <3>2, <3>3 DEF ReplayedNext, CopyReplayed
  <2> QED
    BY <1>2, <2>1, <2>2
<1>5. CASE CatchUp(s)
  <2> DEFINE n == Cardinality(VersionsAfter(c.version))
             events == EventsAfter(c.version)
  <2>1. \/ object'[p] = object[p]
        \/ /\ p = o /\ n \in Nat
           /\ Contiguous(VersionsAfter(c.version), c.version)
           /\ object'[p].version = object[p].version + n
           /\ object'[p].state = object[p].state \o events
           /\ object'[p].changes = object[p].changes
           /\ object'[p].broken = object[p].broken
           /\ n # 0 => object[p].version = c.version
           /\ n # 0 => object[p].changes = <<>>
    BY ZenonT(60), <1>0, <1>5, CatchUpFacts DEF Obj
  <2>2. CASE /\ p = o /\ n \in Nat
             /\ Contiguous(VersionsAfter(c.version), c.version)
             /\ object'[p].version = object[p].version + n
             /\ object'[p].state = object[p].state \o events
             /\ object'[p].changes = object[p].changes
             /\ object'[p].broken = object[p].broken
             /\ n # 0 => object[p].version = c.version
             /\ n # 0 => object[p].changes = <<>>
    <3>1. /\ object[p].version \in Nat /\ object[p].state \in Seq(Ids) /\ c.version \in Nat
          /\ object[p].changes \in Seq(Ids) /\ Len(<<>>) = 0
      BY <1>0 DEF Types, Objects, SessionTypes
    <3>2. /\ events \in Seq(Ids) /\ Len(events) = n
          /\ \A i \in 1..n : c.version + i \in Ids /\ events[i] = rows[c.version + i]
      BY <1>0, <2>2, <3>1, EventsFacts
    <3> HIDE DEF n, events
    <3>3. CASE n = 0
      <4>1. object'[p].version = object[p].version
        BY <2>2, <3>1, <3>3
      <4>2. object'[p].state = object[p].state
        <5>1. events = <<>>
          BY <3>2, <3>3
        <5> QED
          BY <2>2, <3>1, <5>1
      <4> QED
        BY <1>1, <2>2, <4>1, <4>2
    <3>4. CASE n # 0 /\ Replayed(p)
      <4>1. object[p].version = c.version /\ object[p].changes = <<>>
            /\ Len(object[p].state) = c.version
        BY <2>2, <3>1, <3>4 DEF Replayed
      <4>2. /\ Len(object'[p].state) = object'[p].version
            /\ \A k \in 1..c.version : object'[p].state[k] = object[p].state[k]
            /\ \A i \in 1..n : object'[p].state[c.version + i] = events[i]
        <5>1. object'[p].state = object[p].state \o events /\ object'[p].version = c.version + n
          BY <2>2, <4>1
        <5>2. /\ Len(object[p].state \o events) = Len(object[p].state) + Len(events)
              /\ \A k \in 1..Len(object[p].state) :
                   (object[p].state \o events)[k] = object[p].state[k]
              /\ \A i \in 1..Len(events) :
                   (object[p].state \o events)[Len(object[p].state) + i] = events[i]
          <6>1. object[p].state \in Seq(Ids) /\ events \in Seq(Ids)
            BY <3>1, <3>2
          <6> QED
            BY <6>1, ConcatFacts
        <5>3. Len(object[p].state) = c.version /\ Len(events) = n
          BY <3>2, <4>1
        <5> QED
          BY <5>1, <5>2, <5>3
      <4>3. ASSUME NEW k \in 1..object'[p].version
            PROVE  \/ rows'[k] = object'[p].state[k]
                   \/ ComesNext(p, k, object'[p].state[k])
                   \/ object'[p].broken
        <5>1. CASE k \in 1..object[p].version
          <6>1. object'[p].state[k] = object[p].state[k]
            BY <4>1, <4>2, <5>1
          <6> QED
            BY <3>4, <5>1, <6>1, PlaceKept
        <5>2. CASE k \notin 1..object[p].version
          <6>1. k - c.version \in 1..n /\ k = c.version + (k - c.version)
            BY <2>2, <3>1, <4>1, <4>3, <5>2
          <6>2. object'[p].state[k] = events[k - c.version]
            BY <4>2, <6>1
          <6>3. rows' = rows
            BY <1>5 DEF CatchUp, store
          <6> QED
            BY <3>2, <6>1, <6>2, <6>3
        <5> QED
          BY <5>1, <5>2
      <4>4. object'[p].version \in Nat
        BY <2>2, <3>1
      <4>5. object'[p].changes = <<>>
        BY <2>2, <4>1
      <4>6. Len(object'[p].state) = object'[p].version + Len(object'[p].changes)
        BY <3>1, <4>2, <4>4, <4>5
      <4>7. \A i \in 1..Len(object'[p].changes) :
              object'[p].state[object'[p].version + i] = object'[p].changes[i]
        BY <3>1, <4>5
      <4> QED
        BY <4>3, <4>6, <4>7 DEF ReplayedNext
    <3> QED
      BY <2>2, <3>3, <3>4
  <2> QED
    BY <1>2, <2>1, <2>2
<1>6. CASE Load(s)
  <2> DEFINE n == Cardinality(VersionsAfter(0))
  <2>1. \/ object'[p] = object[p]
        \/ /\ p = s /\ n \in Nat /\ Contiguous(VersionsAfter(0), 0)
           /\ object'[p].version = n /\ object'[p].state = EventsAfter(0)
           /\ object'[p].changes = <<>>
    BY <1>0, <1>6, LoadFacts
  <2>2. CASE /\ p = s /\ n \in Nat /\ Contiguous(VersionsAfter(0), 0)
             /\ object'[p].version = n /\ object'[p].state = EventsAfter(0)
             /\ object'[p].changes = <<>>
    <3>1. /\ EventsAfter(0) \in Seq(Ids) /\ Len(EventsAfter(0)) = n
          /\ \A i \in 1..n : EventsAfter(0)[i] = rows[0 + i]
      BY <1>0, <2>2, EventsFacts
    <3>2. rows' = rows /\ Len(<<>>) = 0
      BY <1>6 DEF Load, store
    <3> HIDE DEF n
    <3>3. \A i \in 1..n : 0 + i = i
      BY <2>2
    <3> QED
      BY <2>2, <3>1, <3>2, <3>3 DEF ReplayedNext
  <2> QED
    BY <1>2, <2>1, <2>2
<1>7. CASE Change(s)
  <2>1. \/ object'[p] = object[p]
        \/ /\ p = o /\ nextId \in Ids
           /\ object'[p].version = object[p].version /\ object'[p].broken = object[p].broken
           /\ object'[p].state = Append(object[p].state, nextId)
           /\ object'[p].changes = Append(object[p].changes, nextId)
    BY <1>0, <1>7, ChangeFacts DEF Obj
  <2>2. CASE /\ p = o /\ nextId \in Ids
             /\ object'[p].version = object[p].version /\ object'[p].broken = object[p].broken
             /\ object'[p].state = Append(object[p].state, nextId)
             /\ object'[p].changes = Append(object[p].changes, nextId)
             /\ Replayed(p)
    <3> DEFINE state == object[p].state
               changes == object[p].changes
               v == object[p].version
    <3>1. v \in Nat /\ state \in Seq(Ids) /\ changes \in Seq(Ids)
          /\ Len(state) = v + Len(changes)
          /\ \A i \in 1..Len(changes) : state[v + i] = changes[i]
      BY <1>0, <2>2 DEF Types, Objects, Replayed
    <3>2. \A k \in 1..v : state[k] \in Ids /\ k \in 1..Len(state)
                          /\ (rows'[k] = state[k] \/ ComesNext(p, k, state[k])
                              \/ object'[p].broken)
      BY <2>2, PlaceFacts, PlaceKept
    <3> HIDE DEF state, changes, v
    <3>3. /\ Len(Append(state, nextId)) = v + Len(Append(changes, nextId))
          /\ \A k \in 1..v : Append(state, nextId)[k] = state[k]
      BY <3>1, <3>2, <2>2
    <3>4. \A i \in 1..Len(Append(changes, nextId)) :
            Append(state, nextId)[v + i] = Append(changes, nextId)[i]
      BY <3>1, <2>2, AppendBoth
    <3>5. /\ object'[p].version = v /\ object'[p].state = Append(state, nextId)
          /\ object'[p].changes = Append(changes, nextId)
      BY <2>2 DEF state, changes, v
    <3> QED
      BY <3>2, <3>3, <3>4, <3>5 DEF ReplayedNext
  <2> QED
    BY <1>2, <2>1, <2>2
<1>8. CASE Check(s)
  <2> DEFINE batch == object[p].changes
             state == object[p].state
             v == object[p].version
  <2>1. \/ object'[p] = object[p]
        \/ /\ p = o /\ ~object[p].broken
           /\ object'[p].version = v + Len(batch) /\ object'[p].state = state
           /\ object'[p].changes = <<>>
           /\ \/ batch = <<>>
              \/ /\ d.pc = "insert" /\ d.obj = p /\ d.version = v
                 /\ d.flushed = batch /\ d.saved = 0
    BY <1>0, <1>8, CheckFacts DEF Obj
  <2>2. CASE /\ p = o /\ Replayed(p)
             /\ object'[p].version = v + Len(batch) /\ object'[p].state = state
             /\ object'[p].changes = <<>>
             /\ \/ batch = <<>>
                \/ /\ d.pc = "insert" /\ d.obj = p /\ d.version = v
                   /\ d.flushed = batch /\ d.saved = 0
    <3>1. v \in Nat /\ state \in Seq(Ids) /\ batch \in Seq(Ids) /\ Len(batch) \in Nat
          /\ Len(state) = v + Len(batch) /\ Len(<<>>) = 0
          /\ \A i \in 1..Len(batch) : state[v + i] = batch[i]
      BY <1>0, <2>2 DEF Types, Objects, Replayed
    <3>2. \A k \in 1..v : rows'[k] = state[k] \/ ComesNext(p, k, state[k]) \/ object'[p].broken
      BY <2>2, PlaceKept
    <3>3. ASSUME NEW k \in 1..(v + Len(batch)), k \notin 1..v PROVE ComesNext(p, k, state[k])
      <4> HIDE DEF state, v, batch
      <4>1. k - v \in 1..Len(batch) /\ v + (k - v) = k
        BY <3>1, <3>3
      <4>2. batch # <<>>
        BY <3>1, <4>1
      <4>3. /\ d.pc = "insert" /\ d.obj = p /\ d.version = v
            /\ d.flushed = batch /\ d.saved = 0
        BY <2>2, <4>2
      <4>4. k \in (v + 0 + 1)..(v + Len(batch))
        BY <3>1, <4>1
      <4>5. batch[k - v] = state[k]
        BY <3>1, <4>1
      <4> QED
        BY <4>3, <4>4, <4>5 DEF ComesNext
    <3> HIDE DEF state, v, batch
    <3> QED
      BY <2>2, <3>1, <3>2, <3>3 DEF ReplayedNext
  <2> QED
    BY <1>2, <2>1, <2>2
<1>9. CASE Insert(s)
  <2>1. /\ object'[p].version = object[p].version /\ object'[p].state = object[p].state
        /\ object'[p].changes = object[p].changes
        /\ object[p].broken => object'[p].broken
    BY <1>0, <1>9, InsertFacts
  <2> QED
    BY <1>1, <2>1
<1> QED
  BY <1>3, <1>4, <1>5, <1>6, <1>7, <1>8, <1>9 DEF Acts, GetAsync, SaveAsync

(* What is serialized has no changes that wait, and nobody saves it.       *)
LEMMA CopyStep ==
  ASSUME CountInv, [Next]_vars, NEW s \in Sessions, Acts(s),
         "copied" \notin happened',
         \A o \in Sessions : object[o].broken \/ Replayed(o),
         copy.broken \/ CopyReplayed
  PROVE  copy'.broken \/ CopyReplayed'
<1> DEFINE c == session[s]
           d == session'[s]
           o == Obj(s)
<1>0. TypeInv /\ Types /\ Shape(s)
  BY DEF CountInv, BaseInv, TypeInv, ShapeInv
<1>1. CASE copy' = NoCopy
  <2>1. Len(<<>>) = 0 /\ NoCopy.version = 0 /\ NoCopy.state = <<>>
    BY DEF NoCopy
  <2> QED
    BY <1>1, <2>1 DEF CopyReplayed
<1>2. CASE copy' = copy
  <2>1. CASE copy.broken
    BY <1>2, <2>1
  <2>2. CASE CopyReplayed
    <3>1. copy.version \in Nat /\ copy.state \in Seq(Ids) /\ copy.version <= MaxIds
      <4>1. copy.version \in Nat /\ copy.state \in Seq(Ids)
        BY <1>0 DEF Types, Copies
      <4> QED
        BY <1>0, <4>1, UsedFacts, BoundsAssumption DEF CountInv, VersionInv, Room
    <3>2. ASSUME NEW k \in 1..copy.version PROVE rows'[k] = copy.state[k]
      <4>1. k \in Ids /\ copy.state[k] \in Ids /\ rows[k] = copy.state[k]
        BY <2>2, <3>1, BoundsAssumption DEF CopyReplayed, Ids
      <4> QED
        BY <4>1, RowsGrow DEF Ids
    <3> QED
      BY <1>2, <2>2, <3>2 DEF CopyReplayed
  <2> QED
    BY <2>1, <2>2
<1>3. CASE Put(s)
  <2>1. /\ UNCHANGED <<rows, object>> /\ c.pc = "put" /\ o \in Sessions
        /\ \/ copy' = copy
           \/ /\ useRedis /\ copy'.version = object[o].version /\ copy'.state = object[o].state
              /\ copy'.broken = object[o].broken /\ object[o].changes = <<>>
    BY <1>0, <1>3, PutFacts DEF Put, store, Obj
  <2>2. CASE /\ useRedis /\ copy'.version = object[o].version /\ copy'.state = object[o].state
             /\ object[o].changes = <<>> /\ Replayed(o)
    <3>1. \A k, id : ~Comes(o, k, id)
      <4>1. LockInv /\ Never({"evicted"})
        BY <2>2 DEF CountInv, BaseInv, RedisInv
      <4>2. \A t \in Sessions : ~At(t, "insert")
        BY <2>1, <4>1, Excludes DEF Inside, At
      <4> QED
        BY <4>2 DEF Comes
    <3>2. Len(object[o].state) = object[o].version
      <4>1. Len(<<>>) = 0 /\ object[o].version \in Nat
        BY <1>0, <2>1 DEF Types, Objects
      <4> QED
        BY <2>2, <4>1 DEF Replayed
    <3>3. \A k \in 1..object[o].version : rows[k] = object[o].state[k]
      BY <2>2, <3>1 DEF Replayed
    <3> QED
      BY <2>1, <2>2, <3>2, <3>3 DEF CopyReplayed
  <2> QED
    BY <1>2, <2>1, <2>2
<1>4. CASE Acquire(s) \/ StartGet(s) \/ StartSave(s) \/ GetIsTracked(s) \/ SaveIsTracked(s)
           \/ AddAgain(s) \/ Change(s) \/ CatchUp(s) \/ Load(s) \/ Check(s) \/ Insert(s)
  BY <1>2, <1>4 DEF Acquire, StartGet, StartSave, GetIsTracked, SaveIsTracked, AddAgain, Change,
     CatchUp, Load, Check, Insert, caches
<1>5. CASE Get(s)
  BY <1>0, <1>2, <1>5, GetFacts DEF caches
<1>6. CASE Discard(s)
  BY <1>0, <1>1, <1>2, <1>6, DiscardFacts DEF Removed
<1>7. CASE Catch(s)
  BY <1>0, <1>1, <1>2, <1>7, CatchFacts DEF Removed
<1> QED
  BY <1>3, <1>4, <1>5, <1>6, <1>7 DEF Acts, GetAsync, SaveAsync

LEMMA ReplayStep ==
  ASSUME CountInv, WholeInv, ReplayInv, [Next]_vars
  PROVE  ReplayInv'
<1> SUFFICES ASSUME Never({"mixed", "copied", "reused", "kept"})'
             PROVE  /\ \A o \in Sessions : (object[o].broken \/ Replayed(o))'
                    /\ BrokenLeaves'
                    /\ (copy.broken \/ CopyReplayed)'
  BY DEF ReplayInv
<1>0. /\ "mixed" \notin happened' /\ "copied" \notin happened' /\ "reused" \notin happened'
      /\ "kept" \notin happened' /\ TypeInv
      /\ \A o \in Sessions : object[o].broken \/ Replayed(o)
      /\ BrokenLeaves
      /\ copy.broken \/ CopyReplayed
  <2>1. Never({"mixed", "copied", "reused", "kept"})
    BY HappenedGrows DEF Never
  <2> QED
    BY <2>1 DEF ReplayInv, Never, CountInv, BaseInv
<1>1. \A o \in Sessions : ReplayedNext(o) => Replayed(o)'
  BY DEF Replayed, ReplayedNext, Comes, ComesNext, At, Obj
<1>2. CASE UNCHANGED <<object, session>> /\ cached' \in {cached, "none"} /\ copy' \in {copy, NoCopy}
  <2>1. \A o \in Sessions : object'[o].broken \/ ReplayedNext(o)
    BY <1>0, <1>2, ReplayedKept
  <2>2. BrokenLeaves'
    <3>1. NoCopy.broken = FALSE
      BY DEF NoCopy
    <3> QED
      BY <1>0, <1>2, <3>1, NamesAssumption DEF BrokenLeaves, Leaving, At, Obj
  <2>3. (copy.broken \/ CopyReplayed)'
    <3>1. CASE copy' = copy /\ copy.broken
      BY <3>1
    <3>2. CASE copy' = NoCopy
      <4>1. Len(<<>>) = 0 /\ NoCopy.version = 0 /\ NoCopy.state = <<>>
        BY DEF NoCopy
      <4> QED
        BY <3>2, <4>1 DEF CopyReplayed
    <3>3. CASE copy' = copy /\ CopyReplayed
      <4>1. copy.version \in Nat /\ copy.state \in Seq(Ids) /\ copy.version <= MaxIds
        <5>1. copy.version \in Nat /\ copy.state \in Seq(Ids)
          BY <1>0 DEF TypeInv, Types, Copies
        <5> QED
          BY <1>0, <5>1, UsedFacts, BoundsAssumption DEF CountInv, VersionInv, Room
      <4>2. ASSUME NEW k \in 1..copy.version PROVE rows'[k] = copy.state[k]
        <5>1. k \in Ids /\ copy.state[k] \in Ids /\ rows[k] = copy.state[k]
          BY <3>3, <4>1, BoundsAssumption DEF CopyReplayed, Ids
        <5> QED
          BY <5>1, RowsGrow DEF Ids
      <4> QED
        BY <3>3, <4>2 DEF CopyReplayed
    <3> QED
      BY <1>0, <1>2, <3>1, <3>2, <3>3
  <2> QED
    BY <1>1, <2>1, <2>2, <2>3
<1>3. CASE Expire
  BY <1>0, <1>2, <1>3, ExpireFacts DEF TypeInv
<1>4. CASE RunCallback \/ Elsewhere \/ UNCHANGED vars
  BY <1>2, <1>4 DEF RunCallback, Elsewhere, vars, caches
<1>5. ASSUME NEW s \in Sessions, Acts(s)
      PROVE  /\ \A o \in Sessions : (object[o].broken \/ Replayed(o))'
             /\ BrokenLeaves'
             /\ (copy.broken \/ CopyReplayed)'
  <2>1. \A o \in Sessions : object'[o].broken \/ ReplayedNext(o)
    BY <1>0, <1>5, ReplayedStep
  <2>2. BrokenLeaves'
    BY <1>0, <1>5, BrokenStep
  <2>3. (copy.broken \/ CopyReplayed)'
    BY <1>0, <1>5, CopyStep
  <2> QED
    BY <1>1, <2>1, <2>2, <2>3
<1> QED
  BY <1>3, <1>4, <1>5 DEF Next, Acts

(* Two sequences of one length with the same elements are one.             *)
LEMMA SameElements ==
  ASSUME NEW a \in Seq(Ids), NEW b \in Seq(Ids), Len(a) = Len(b),
         \A k \in 1..Len(a) : a[k] = b[k]
  PROVE  a = b
OBVIOUS

LEMMA ReplayInvariant == Spec => []ReplayInv
<1>1. Init => ReplayInv
  <2> SUFFICES ASSUME Init PROVE ReplayInv
    OBVIOUS
  <2>1. Len(<<>>) = 0
    OBVIOUS
  <2>2. ASSUME NEW o \in Sessions PROVE Replayed(o)
    <3>1. object[o].version = 0 /\ object[o].state = <<>> /\ object[o].changes = <<>>
      BY DEF Init, NewObject
    <3>2. 1..0 = {}
      OBVIOUS
    <3> QED
      BY <2>1, <3>1, <3>2 DEF Replayed
  <2>3. BrokenLeaves /\ CopyReplayed
    BY <2>1, NamesAssumption DEF Init, NewObject, NoCopy, BrokenLeaves, CopyReplayed
  <2> QED
    BY <2>2, <2>3 DEF ReplayInv
<1> QED
  BY <1>1, ReplayStep, CountInvariant, WholeInvariant, PTL DEF Spec

(* What the cache would give the next caller is what the stored events     *)
(* make and then the changes that wait, when nobody is inside, whichever   *)
(* calls of the event store and of Redis have failed, and unless events    *)
(* were loaded beside such changes, such changes were serialized, or what  *)
(* a failed save had left of an object was saved again or could not be     *)
(* deleted from Redis: CacheRepository and RedisCache, over                *)
(* AggregateRoot.LoadFromHistory and FlushUncommitedChanges.               *)
THEOREM CachedIsTheEvents == Spec => []CachedIsReplay
<1>1. CountInv /\ ReplayInv => CachedIsReplay
  <2> SUFFICES ASSUME CountInv, ReplayInv, \A s \in Sessions : ~Inside(s),
                      Never({"mixed", "copied", "reused", "kept"})
               PROVE  LET Made(o) == [i \in 1..o.version |-> rows[i]] IN
                      /\ cached \in Sessions =>
                           object[cached].state = Made(object[cached]) \o object[cached].changes
                      /\ copy.state = Made(copy)
    BY DEF CachedIsReplay
  <2> DEFINE Made(o) == [i \in 1..o.version |-> rows[i]]
  <2>0. /\ Types /\ \A o \in Sessions : object[o].broken \/ Replayed(o)
        /\ BrokenLeaves /\ (copy.broken \/ CopyReplayed)
    BY DEF CountInv, BaseInv, TypeInv, ReplayInv
  <2>1. /\ \A t \in Sessions : ~At(t, "insert")
        /\ ~(cached \in Sessions /\ object[cached].broken) /\ ~copy.broken
    BY <2>0 DEF BrokenLeaves, Leaving, Inside, At
  <2>2. copy.state = Made(copy)
    <3>1. CopyReplayed
      BY <2>0, <2>1
    <3>2. copy.state \in Seq(Ids) /\ copy.version \in Nat
      BY <2>0 DEF Types, Copies
    <3>3. copy.state = [i \in 1..Len(copy.state) |-> copy.state[i]]
      BY <3>2
    <3> QED
      BY <3>1, <3>3 DEF CopyReplayed
  <2>3. ASSUME cached \in Sessions
        PROVE  object[cached].state = Made(object[cached]) \o object[cached].changes
    <3> DEFINE x == object[cached]
               made == Made(x)
    <3>1. Replayed(cached)
      BY <2>0, <2>1, <2>3
    <3>2. x.version \in Nat /\ x.state \in Seq(Ids) /\ x.changes \in Seq(Ids)
      BY <2>0, <2>3 DEF Types, Objects
    <3>3. \A k \in 1..x.version : rows[k] = x.state[k] /\ rows[k] \in Ids
      <4>1. \A k \in 1..x.version : rows[k] = x.state[k]
        BY <2>1, <3>1 DEF Replayed, Comes
      <4> QED
        BY <2>3, <3>1, <4>1, PlaceFacts
    <3>4. made \in Seq(Ids) /\ Len(made) = x.version /\ \A k \in 1..x.version : made[k] = rows[k]
      BY SMTT(30), <3>2, <3>3
    <3>5. /\ Len(x.state) = x.version + Len(x.changes)
          /\ \A i \in 1..Len(x.changes) : x.state[x.version + i] = x.changes[i]
      BY <3>1 DEF Replayed
    <3> HIDE DEF made, x
    <3>10. made \in Seq(Ids) /\ x.changes \in Seq(Ids)
      BY <3>2, <3>4
    <3>11. /\ Len(made \o x.changes) = Len(made) + Len(x.changes)
          /\ \A k \in 1..Len(made) : (made \o x.changes)[k] = made[k]
          /\ \A i \in 1..Len(x.changes) : (made \o x.changes)[Len(made) + i] = x.changes[i]
      BY <3>10, ConcatFacts
    <3>6. /\ Len(made \o x.changes) = Len(x.state)
          /\ \A k \in 1..Len(made) : (made \o x.changes)[k] = made[k]
          /\ \A i \in 1..Len(x.changes) : (made \o x.changes)[Len(made) + i] = x.changes[i]
      <4>1. Len(made \o x.changes) = Len(x.state)
        BY <3>4, <3>5, <3>11
      <4> QED
        BY <3>11, <4>1
    <3>7. \A k \in 1..Len(x.state) : x.state[k] = (made \o x.changes)[k]
      <4> SUFFICES ASSUME NEW k \in 1..Len(x.state) PROVE x.state[k] = (made \o x.changes)[k]
        OBVIOUS
      <4>1. CASE k \in 1..x.version
        BY <3>3, <3>4, <3>6, <4>1
      <4>2. CASE k \notin 1..x.version
        <5>1. k - x.version \in 1..Len(x.changes) /\ k = x.version + (k - x.version)
          BY <3>2, <3>5, <4>2
        <5> QED
          BY ZenonT(60), <3>4, <3>5, <3>6, <5>1
      <4> QED
        BY <4>1, <4>2
    <3>8. made \o x.changes \in Seq(Ids)
      BY <3>2, <3>4
    <3>9. x.state = made \o x.changes
      BY <3>2, <3>6, <3>7, <3>8, SameElements
    <3> QED
      BY <3>9 DEF made, x
  <2> QED
    BY <2>2, <2>3
<1> QED
  BY <1>1, CountInvariant, ReplayInvariant, PTL
=============================================================================
