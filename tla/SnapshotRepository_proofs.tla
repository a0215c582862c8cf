----------------------- MODULE SnapshotRepository_proofs -----------------------
(***************************************************************************)
(* Snapshots keep their promises for any number of sessions and events,    *)
(* any interval, any choice of the calls that may fail and any number of   *)
(* faults.                                                                 *)
(***************************************************************************)
EXTENDS SnapshotRepository, FiniteSetTheorems, WellFoundedInduction, TLAPS

Save(s) == session[s].save
Snap(s) == session[s].snap

(* The changes of a session, before and after it flushed them; whether it  *)
(* has the aggregate; whether it has a snapshot of them all, made and      *)
(* maybe stored.                                                           *)
Batch(s) == session[s].flushed \o session[s].changes
Loaded(s) == Save(s) \notin {"idle", "replay"}
Kept(s) == Snap(s) \in {"store", "stored", "failed"}

-----------------------------------------------------------------------------
(* The types of all variables.                                             *)

Snapshots == [version : Nat, state : Seq(Ids)]

SessionTypes ==
    [save : {"idle", "replay", "open", "check", "insert", "saved", "failed"},
     snap : {"none", "exists", "version", "length", "store", "stored", "failed"},
     j : 0..MaxBatch, version : Nat, state : Seq(Ids), changes : Seq(Ids),
     expected : Nat, flushed : Seq(Ids), saved : Nat, made : Snapshots]

Types ==
    /\ rows \in [Ids -> Ids \cup {0}]
    /\ snapshot \in Snapshots
    /\ nextId \in 1..(MaxIds + 1)
    /\ session \in [Sessions -> SessionTypes]
    /\ faults \in 0..MaxFaults
    /\ happened \subseteq Marks

(* How a session's fields go together.                                     *)
Shape(s) ==
    LET c == session[s] IN
    /\ ~Loaded(s) => /\ c.flushed = <<>> /\ c.changes = <<>> /\ c.saved = 0
                     /\ c.snap = "none" /\ c.expected = 0
    /\ Loaded(s) => c.version = c.expected + Len(c.flushed)
    /\ Save(s) \in {"open", "check"} => c.flushed = <<>> /\ c.saved = 0
    /\ Save(s) = "open" => c.snap = "none"
    /\ Save(s) = "insert" => c.changes = <<>> /\ c.saved < Len(c.flushed)
    /\ Save(s) = "saved" => c.changes = <<>> /\ c.saved = Len(c.flushed)
    /\ c.saved <= Len(c.flushed)
    /\ Len(c.changes) <= MaxBatch
    /\ Snap(s) \in {"length", "store"} => c.made.state = c.state
    /\ Snap(s) = "length" => c.made.version <= c.version
    /\ \A k \in 1..c.saved : rows[c.expected + k] = c.flushed[k]

(* A version is never ahead of the events that were made.                  *)
Bounds ==
    /\ snapshot.version < nextId
    /\ \A k \in Ids : rows[k] # 0 => k < nextId
    /\ \A s \in Sessions :
         /\ session[s].version + Len(session[s].changes) < nextId
         /\ session[s].made.version < nextId

ShapeInv == Bounds /\ \A s \in Sessions : Shape(s)

IInv == Types /\ ShapeInv

-----------------------------------------------------------------------------
(* The event i is somewhere the k-th of the aggregate.                     *)
Holds(k, i) ==
    \/ k \in Ids /\ rows[k] = i
    \/ k \in DOMAIN snapshot.state /\ snapshot.state[k] = i
    \/ \E s \in Sessions : k \in DOMAIN session[s].state /\ session[s].state[k] = i

(* An event has one place.                                                 *)
HomeInv ==
    \A i \in Ids :
        /\ \A k, l \in Nat : Holds(k, i) /\ Holds(l, i) => k = l
        /\ \A k \in Nat : Holds(k, i) => i < nextId

(* Versions count the events, and the changes are the last ones.           *)
LengthInv ==
    /\ Len(snapshot.state) = snapshot.version
    /\ \A s \in Sessions : LET c == session[s] IN
         /\ Len(c.state) = c.version + Len(c.changes)
         /\ Snap(s) = "store" => Len(c.state) = c.made.version
         /\ Loaded(s) => \A k \in 1..Len(Batch(s)) : c.state[c.expected + k] = Batch(s)[k]

OnceInv == Never({"torn"}) => HomeInv /\ LengthInv

-----------------------------------------------------------------------------
(* The event i is stored as the k-th, or is going to be by a session that  *)
(* may have it in a snapshot.                                              *)
Promised(k, i) ==
    \/ k \in Ids /\ rows[k] = i
    \/ \E s \in Sessions : Kept(s) /\ Coming(s, k, i)
Covered(k) == \E i \in Ids : Promised(k, i)

(* All that lies below a version in use is stored or going to be.          *)
CoverInv ==
    /\ \A k \in 1..snapshot.version : Covered(k)
    /\ \A k, l \in Ids : rows[k] # 0 /\ l < k => Covered(l)
    /\ \A s \in Sessions : LET c == session[s] IN
         /\ \A k \in 1..(IF Loaded(s) THEN c.expected ELSE c.version) : Covered(k)
         /\ Snap(s) = "store" => c.made.version <= c.expected + Len(Batch(s))
         /\ Save(s) = "failed" => Snap(s) = "none"

HoleInv == Never({"unsaved"}) => CoverInv

(* And it is what the snapshot, or the session, has there.                 *)
SameInv ==
    /\ \A k \in 1..snapshot.version : Promised(k, snapshot.state[k])
    /\ \A s \in Sessions : LET c == session[s] IN
         \A k \in 1..(IF Loaded(s) THEN c.expected ELSE c.version) : Promised(k, c.state[k])

ReplayInv == Never({"unsaved", "torn"}) => SameInv

-----------------------------------------------------------------------------
(* No version among these is one a snapshot is due at.                     *)
NoneDue(s, n) == \A k \in 1..n : ~IsDue(session[s].expected + k)

DueInv ==
    Never({"emptied"}) =>
        \A s \in Sessions :
            Save(s) \in {"check", "insert", "saved"} =>
                /\ Snap(s) = "none" => NoneDue(s, Len(Batch(s)))
                /\ Snap(s) = "exists" => NoneDue(s, session[s].j + 1)

-----------------------------------------------------------------------------
(* What the operators do.                                                  *)

(* A set of numbers that is not empty has a least one.                     *)
LEMMA LeastFacts ==
  ASSUME NEW T \in SUBSET Nat, T # {}
  PROVE  \E k \in T : \A n \in T : k <= n
<1>1. \E k \in T : \A n \in T : ~(<<n, k>> \in OpToRel(<, Nat))
  BY NatLessThanWellFounded, WFMin
<1>2. PICK k \in T : \A n \in T : ~(<<n, k>> \in OpToRel(<, Nat))
  BY <1>1
<1>3. \A n \in T : n < k => <<n, k>> \in OpToRel(<, Nat)
  BY DEF OpToRel
<1>4. \A n \in T : ~(n < k) /\ n \in Nat /\ k \in Nat
  BY <1>2, <1>3
<1> QED
  BY <1>4

(* The search stops at the first turn that has it stop.                    *)
LEMMA LookFacts ==
  ASSUME NEW c \in SessionTypes, NEW j \in Nat, Len(c.changes) <= MaxBatch
  PROVE  /\ Look(c, j) \in SessionTypes
         /\ \E snap \in {"none", "version", "exists"}, i \in 0..MaxBatch :
              /\ Look(c, j) = [c EXCEPT !.snap = snap, !.j = i]
              /\ snap = "none" => \A k \in (j + 1)..Len(c.changes) : ~IsDue(c.expected + k)
              /\ snap = "exists" => \A k \in (j + 1)..(i + 1) : ~IsDue(c.expected + k)
<1> DEFINE stops == {k \in j..(Len(c.changes) - 1) :
                        IsDue(c.expected + k + 1) \/ Asks(c.expected + k + 1)}
           first == CHOOSE k \in stops : \A n \in stops : k <= n
<1>0. /\ Len(c.changes) \in Nat /\ c.expected \in Nat /\ c.j \in 0..MaxBatch /\ MaxBatch \in Nat
      /\ c.snap \in {"none", "exists", "version", "length", "store", "stored", "failed"}
  BY BoundsAssumption DEF SessionTypes
<1>1. Look(c, j) = IF stops = {} THEN [c EXCEPT !.snap = "none"]
                   ELSE IF IsDue(c.expected + first + 1) THEN [c EXCEPT !.snap = "version"]
                   ELSE [c EXCEPT !.snap = "exists", !.j = first]
  BY DEF Look
<1>2. \A k \in (j + 1)..Len(c.changes) :
         /\ k - 1 \in j..(Len(c.changes) - 1) /\ c.expected + (k - 1) + 1 = c.expected + k
         /\ k - 1 \notin stops => ~IsDue(c.expected + k)
  <2> SUFFICES ASSUME NEW k \in (j + 1)..Len(c.changes)
               PROVE  /\ k - 1 \in j..(Len(c.changes) - 1)
                      /\ c.expected + (k - 1) + 1 = c.expected + k
                      /\ k - 1 \notin stops => ~IsDue(c.expected + k)
    OBVIOUS
  <2>1. k - 1 \in j..(Len(c.changes) - 1) /\ c.expected + (k - 1) + 1 = c.expected + k
    BY <1>0
  <2> QED
    BY <2>1
<1>3. stops # {} => /\ first \in j..(Len(c.changes) - 1) /\ \A n \in stops : first <= n
                    /\ first \in stops
  <2> SUFFICES ASSUME stops # {}
               PROVE  first \in stops /\ \A n \in stops : first <= n
    OBVIOUS
  <2>1. stops \in SUBSET Nat
    BY <1>0
  <2>2. \E k \in stops : \A n \in stops : k <= n
    BY <2>1, LeastFacts
  <2> HIDE DEF stops
  <2> QED
    BY <2>2
<1> HIDE DEF stops, first
<1>4. CASE stops = {}
  <2>1. Look(c, j) = [c EXCEPT !.snap = "none", !.j = c.j]
    BY <1>1, <1>4 DEF SessionTypes
  <2> QED
    BY <1>0, <1>2, <1>4, <2>1 DEF SessionTypes
<1>5. CASE stops # {} /\ IsDue(c.expected + first + 1)
  <2>1. Look(c, j) = [c EXCEPT !.snap = "version", !.j = c.j]
    BY <1>1, <1>5 DEF SessionTypes
  <2> QED
    BY <1>0, <2>1 DEF SessionTypes
<1>6. CASE stops # {} /\ ~IsDue(c.expected + first + 1)
  <2>1. Look(c, j) = [c EXCEPT !.snap = "exists", !.j = first]
    BY <1>1, <1>6
  <2>2. first \in 0..MaxBatch
    BY <1>0, <1>3, <1>6
  <2>3. ASSUME NEW k \in (j + 1)..(first + 1) PROVE ~IsDue(c.expected + k)
    <3>1. first \in j..(Len(c.changes) - 1) /\ first \in Nat /\ k \in Nat
      BY <1>0, <1>3, <1>6, <2>2
    <3>2. CASE k = first + 1
      <4>1. c.expected + k = c.expected + first + 1
        BY <1>0, <3>1, <3>2
      <4> QED
        BY <4>1, <1>6
    <3>3. CASE k # first + 1
      <4>1. k \in (j + 1)..Len(c.changes) /\ k - 1 < first /\ k - 1 \in Nat
        BY <1>0, <3>1, <3>3
      <4>2. k - 1 \notin stops
        BY <1>3, <1>6, <3>1, <4>1
      <4> QED
        BY <1>2, <4>1, <4>2
    <3> QED
      BY <3>2, <3>3
  <2> QED
    BY <1>0, <2>1, <2>2, <2>3 DEF SessionTypes
<1> QED
  BY <1>4, <1>5, <1>6

(* What is read after the version v, if nothing is missing.                *)
LEMMA EventsFacts ==
  ASSUME Types, NEW v \in Nat, Contiguous(VersionsAfter(v), v)
  PROVE  LET n == Cardinality(VersionsAfter(v)) IN
         /\ n \in Nat
         /\ EventsAfter(v) \in Seq(Ids) /\ Len(EventsAfter(v)) = n
         /\ \A i \in 1..n : /\ v + i \in Ids /\ rows[v + i] # 0
                            /\ EventsAfter(v)[i] = rows[v + i]
<1> DEFINE V == VersionsAfter(v)
           n == Cardinality(V)
<1>1. V \subseteq Ids /\ (\A k \in V : k > v /\ rows[k] # 0) /\ MaxIds \in Nat
  BY BoundsAssumption DEF VersionsAfter
<1>2. IsFiniteSet(V) /\ n \in Nat
  <2>1. IsFiniteSet(1..MaxIds)
    BY <1>1, FS_Interval
  <2>2. IsFiniteSet(V)
    BY <1>1, <2>1, FS_Subset DEF Ids
  <2> QED
    BY <2>2, FS_CardinalityType
<1>3. V \subseteq (v + 1)..(v + n)
  <2> SUFFICES ASSUME NEW k \in V PROVE k \in (v + 1)..(v + n)
    OBVIOUS
  <2>1. k \in Nat /\ k > v
    BY <1>1 DEF Ids
  <2>2. (v + 1)..k \subseteq V
    BY DEF Contiguous
  <2>3. Cardinality((v + 1)..k) = k - v
    BY <2>1, FS_Interval
  <2>4. k - v <= n
    BY <1>2, <2>2, <2>3, FS_Subset
  <2> HIDE DEF n
  <2> QED
    BY <1>2, <2>1, <2>4
<1>4. V = (v + 1)..(v + n)
  <2>1. IsFiniteSet((v + 1)..(v + n)) /\ Cardinality((v + 1)..(v + n)) = n
    <3> HIDE DEF n
    <3> QED
      BY <1>2, FS_Interval
  <2> QED
    BY <1>3, <2>1, FS_Subset
<1>5. EventsAfter(v) = [i \in 1..n |-> rows[v + i]]
  BY DEF EventsAfter
<1> HIDE DEF n, V
<1>6. \A i \in 1..n : v + i \in Ids /\ rows[v + i] # 0
  <2>1. \A i \in 1..n : v + i \in (v + 1)..(v + n)
    BY <1>2
  <2> QED
    BY <1>1, <1>4, <2>1
<1>7. \A i \in 1..n : rows[v + i] \in Ids
  BY <1>6 DEF Types
<1>8. EventsAfter(v) \in Seq(Ids) /\ Len(EventsAfter(v)) = n
  BY <1>2, <1>5, <1>7
<1> QED
  BY <1>2, <1>5, <1>6, <1>8 DEF n, V

(* A call ends, and is counted if it threw.                                *)
LEMMA CountTypes ==
  ASSUME Types, NEW call, NEW e \in Endings(call), Count(e)
  PROVE  faults' \in 0..MaxFaults
BY BoundsAssumption DEF Types, Endings, Count, Answered

-----------------------------------------------------------------------------
(* What a step of the session s does to its fields.                        *)

Others(s) == \A o \in Sessions : o # s => session'[o] = session[o]

(* The object and what is saved of it; and the snapshot; do not change.    *)
KeepsObject(s) ==
    LET c == session[s]
        d == session'[s]
    IN  /\ d.version = c.version /\ d.state = c.state /\ d.changes = c.changes
        /\ d.expected = c.expected /\ d.flushed = c.flushed /\ d.saved = c.saved
KeepsSnap(s) ==
    LET c == session[s]
        d == session'[s]
    IN  d.snap = c.snap /\ d.j = c.j /\ d.made = c.made

Failed(s) ==
    /\ session'[s].save = "failed" /\ KeepsObject(s) /\ KeepsSnap(s)
    /\ Snap(s) # "none" => "unsaved" \in happened'

LEMMA SessionStep ==
  ASSUME Types, NEW s \in Sessions, NEW d \in SessionTypes,
         session' = [session EXCEPT ![s] = d]
  PROVE  session' \in [Sessions -> SessionTypes] /\ session'[s] = d /\ Others(s)
BY DEF Types, Others

(* The types of the fields, by name.                                       *)
LEMMA FieldTypes ==
  ASSUME NEW c \in SessionTypes
  PROVE  /\ c.version \in Nat /\ c.expected \in Nat /\ c.saved \in Nat /\ c.j \in 0..MaxBatch
         /\ c.j \in Nat /\ c.state \in Seq(Ids) /\ c.changes \in Seq(Ids)
         /\ c.flushed \in Seq(Ids)
         /\ Len(c.state) \in Nat /\ Len(c.changes) \in Nat /\ Len(c.flushed) \in Nat
         /\ DOMAIN c.state = 1..Len(c.state)
         /\ c.made \in Snapshots /\ c.made.version \in Nat /\ c.made.state \in Seq(Ids)
<1>1. /\ c.version \in Nat /\ c.expected \in Nat /\ c.saved \in Nat /\ c.j \in 0..MaxBatch
      /\ c.state \in Seq(Ids) /\ c.changes \in Seq(Ids) /\ c.flushed \in Seq(Ids)
      /\ c.made \in Snapshots
  BY DEF SessionTypes
<1>2. \A q \in Seq(Ids) : Len(q) \in Nat /\ DOMAIN q = 1..Len(q)
  OBVIOUS
<1>3. \A m \in Snapshots : m.version \in Nat /\ m.state \in Seq(Ids)
  BY DEF Snapshots
<1>4. \A n \in 0..MaxBatch : n \in Nat
  OBVIOUS
<1> QED
  BY <1>1, <1>2, <1>3, <1>4

LEMMA IdleTypes == Idle \in SessionTypes
BY BoundsAssumption DEF Idle, NoSnapshot, SessionTypes, Snapshots

LEMMA RestoreFacts ==
  ASSUME Types, NEW s \in Sessions, Restore(s)
  PROVE  LET c == session[s]
             d == session'[s]
         IN /\ session' \in [Sessions -> SessionTypes] /\ Others(s) /\ KeepsSnap(s)
            /\ c.save = "idle" /\ d.save = "replay"
            /\ d.version = snapshot.version /\ d.state = snapshot.state
            /\ d.changes = c.changes /\ d.expected = c.expected
            /\ d.flushed = c.flushed /\ d.saved = c.saved
<1> DEFINE d == [session[s] EXCEPT !.save = "replay", !.version = snapshot.version,
                                   !.state = snapshot.state]
<1>1. session' = [session EXCEPT ![s] = d] /\ session[s].save = "idle"
  BY DEF Restore, Types
<1>2. d \in SessionTypes /\ session[s] \in SessionTypes
  <2>1. session[s] \in SessionTypes /\ snapshot \in Snapshots
    BY DEF Types
  <2> QED
    BY <2>1 DEF SessionTypes, Snapshots
<1>3. session' \in [Sessions -> SessionTypes] /\ session'[s] = d /\ Others(s)
  BY <1>1, <1>2, SessionStep
<1>4. /\ d.save = "replay" /\ d.version = snapshot.version /\ d.state = snapshot.state
      /\ d.changes = session[s].changes /\ d.expected = session[s].expected
      /\ d.flushed = session[s].flushed /\ d.saved = session[s].saved
      /\ d.snap = session[s].snap /\ d.made = session[s].made /\ d.j = session[s].j
  BY <1>2 DEF SessionTypes
<1> HIDE DEF d
<1> QED
  BY <1>1, <1>3, <1>4 DEF KeepsSnap

LEMMA ReplayFacts ==
  ASSUME Types, NEW s \in Sessions, Replay(s)
  PROVE  LET c == session[s]
             d == session'[s]
         IN /\ session' \in [Sessions -> SessionTypes] /\ Others(s)
            /\ c.save = "replay"
            /\ \/ d = Idle
               \/ /\ d.save = "open" /\ KeepsSnap(s)
                  /\ Contiguous(VersionsAfter(c.version), c.version)
                  /\ d.version = c.version + Len(EventsAfter(c.version))
                  /\ d.expected = d.version
                  /\ d.state = c.state \o EventsAfter(c.version)
                  /\ d.changes = c.changes /\ d.flushed = c.flushed /\ d.saved = c.saved
<1> DEFINE c == session[s]
           v == session[s].version
<1>0. c \in SessionTypes /\ v \in Nat /\ c.save = "replay"
  BY DEF Types, SessionTypes, Replay
<1>1. CASE ~Contiguous(VersionsAfter(v), v)
  <2>1. session' = [session EXCEPT ![s] = Idle]
    BY <1>1 DEF Replay
  <2> QED
    BY <1>0, <2>1, IdleTypes, SessionStep
<1>2. CASE Contiguous(VersionsAfter(v), v)
  <2> DEFINE d == [c EXCEPT !.save = "open", !.state = @ \o EventsAfter(v),
                     !.version = v + Len(EventsAfter(v)),
                     !.expected = v + Len(EventsAfter(v))]
  <2>1. session' = [session EXCEPT ![s] = d]
    BY <1>2 DEF Replay, Types
  <2>2. EventsAfter(v) \in Seq(Ids)
    BY <1>0, <1>2, EventsFacts
  <2>3. d \in SessionTypes
    <3>1. c.state \o EventsAfter(v) \in Seq(Ids) /\ v + Len(EventsAfter(v)) \in Nat
      BY <1>0, <2>2 DEF SessionTypes
    <3> QED
      BY <1>0, <3>1 DEF SessionTypes
  <2>4. session' \in [Sessions -> SessionTypes] /\ session'[s] = d /\ Others(s)
    BY <2>1, <2>3, SessionStep
  <2>5. /\ d.save = "open" /\ d.snap = c.snap /\ d.j = c.j /\ d.made = c.made
        /\ d.version = v + Len(EventsAfter(v)) /\ d.expected = v + Len(EventsAfter(v))
        /\ d.state = c.state \o EventsAfter(v)
        /\ d.changes = c.changes /\ d.flushed = c.flushed /\ d.saved = c.saved
    BY <1>0 DEF SessionTypes
  <2> HIDE DEF d
  <2> QED
    BY <1>0, <1>2, <2>4, <2>5 DEF KeepsSnap
<1> QED
  BY <1>1, <1>2

LEMMA ChangeFacts ==
  ASSUME Types, NEW s \in Sessions, Change(s)
  PROVE  LET c == session[s]
             d == session'[s]
         IN /\ session' \in [Sessions -> SessionTypes] /\ Others(s) /\ KeepsSnap(s)
            /\ c.save = "open" /\ d.save = "open"
            /\ nextId \in Ids /\ nextId' = nextId + 1
            /\ Len(c.changes) < MaxBatch
            /\ d.state = Append(c.state, nextId) /\ d.changes = Append(c.changes, nextId)
            /\ d.version = c.version /\ d.expected = c.expected
            /\ d.flushed = c.flushed /\ d.saved = c.saved
<1> DEFINE d == [session[s] EXCEPT !.state = Append(@, nextId), !.changes = Append(@, nextId)]
<1>1. session' = [session EXCEPT ![s] = d] /\ session[s].save = "open"
  BY DEF Change, Types
<1>2. nextId \in Ids /\ nextId' = nextId + 1 /\ Len(session[s].changes) < MaxBatch
  BY BoundsAssumption DEF Change, Types, Ids
<1>3. d \in SessionTypes
  <2>1. session[s] \in SessionTypes
    BY DEF Types
  <2>2. /\ Append(session[s].state, nextId) \in Seq(Ids)
        /\ Append(session[s].changes, nextId) \in Seq(Ids)
    BY <1>2, <2>1 DEF SessionTypes
  <2> QED
    BY <2>1, <2>2 DEF SessionTypes
<1>4. session' \in [Sessions -> SessionTypes] /\ session'[s] = d /\ Others(s)
  BY <1>1, <1>3, SessionStep
<1> QED
  BY <1>1, <1>2, <1>4 DEF KeepsSnap, Types, SessionTypes

LEMMA CommitFacts ==
  ASSUME Types, NEW s \in Sessions, Commit(s), Len(session[s].changes) <= MaxBatch
  PROVE  LET c == session[s]
             d == session'[s]
         IN /\ session' \in [Sessions -> SessionTypes] /\ Others(s) /\ KeepsObject(s)
            /\ c.save = "open" /\ d.save = "check"
            /\ \/ /\ d.snap = "store" /\ d.made.state = c.state
                  /\ d.made.version = c.version + Len(c.changes)
               \/ /\ d.snap \in {"none", "exists"} /\ d.made = c.made
                  /\ d.snap = "none" =>
                       \A k \in 1..Len(c.changes) : ~IsDue(c.expected + k)
                  /\ d.snap = "exists" => \A k \in 1..(d.j + 1) : ~IsDue(c.expected + k)
<1> DEFINE c == session[s]
           b == [session[s] EXCEPT !.save = "check"]
           d == IF Look(b, 0).snap = "version" THEN WithLength(WithVersion(Look(b, 0)))
                ELSE Look(b, 0)
<1>0. c \in SessionTypes /\ c.save = "open"
  BY DEF Types, Commit
<1>1. session' = [session EXCEPT ![s] = d]
  BY DEF Commit
<1>2. b \in SessionTypes /\ b.changes = c.changes /\ b.expected = c.expected
  BY <1>0 DEF SessionTypes
<1>3. PICK snap \in {"none", "version", "exists"}, i \in 0..MaxBatch :
         /\ Look(b, 0) = [b EXCEPT !.snap = snap, !.j = i]
         /\ snap = "none" => \A k \in 1..Len(b.changes) : ~IsDue(b.expected + k)
         /\ snap = "exists" => \A k \in 1..(i + 1) : ~IsDue(b.expected + k)
  <2>1. 0 \in Nat /\ 0 + 1 = 1 /\ Len(b.changes) <= MaxBatch
    BY <1>2
  <2> HIDE DEF b
  <2> QED
    BY <1>2, <2>1, LookFacts
<1>4. Look(b, 0) = [c EXCEPT !.save = "check", !.snap = snap, !.j = i]
  BY <1>0, <1>3 DEF SessionTypes
<1>5. /\ c.version + Len(c.changes) \in Nat /\ c.state \in Seq(Ids) /\ 0..MaxBatch \subseteq Nat
      /\ c.made \in Snapshots /\ c.version \in Nat
  BY <1>0 DEF SessionTypes
<1>6. CASE snap = "version"
  <2>1. d = [c EXCEPT !.save = "check", !.snap = "store", !.j = i,
                      !.made = [version |-> c.version + Len(c.changes), state |-> c.state]]
    <3>1. d = WithLength(WithVersion([c EXCEPT !.save = "check", !.snap = snap, !.j = i]))
      BY <1>0, <1>4, <1>6 DEF SessionTypes
    <3>2. WithVersion([c EXCEPT !.save = "check", !.snap = snap, !.j = i])
          = [c EXCEPT !.save = "check", !.snap = "length", !.j = i,
                      !.made = [version |-> c.version, state |-> c.state]]
      BY <1>0 DEF WithVersion, SessionTypes
    <3>3. WithLength([c EXCEPT !.save = "check", !.snap = "length", !.j = i,
                               !.made = [version |-> c.version, state |-> c.state]])
          = [c EXCEPT !.save = "check", !.snap = "store", !.j = i,
                      !.made = [version |-> c.version + Len(c.changes), state |-> c.state]]
      <4> DEFINE m == [version |-> c.version, state |-> c.state]
                 w == [c EXCEPT !.save = "check", !.snap = "length", !.j = i, !.made = m]
      <4>1. [m EXCEPT !.version = @ + Len(c.changes)]
            = [version |-> c.version + Len(c.changes), state |-> c.state]
        OBVIOUS
      <4>2. w.made = m /\ w.changes = c.changes
        BY <1>0 DEF SessionTypes
      <4>3. WithLength(w) = [w EXCEPT !.snap = "store",
                                     !.made = [m EXCEPT !.version = @ + Len(c.changes)]]
        BY <1>0, <4>2 DEF WithLength, SessionTypes
      <4>4. WithLength(w) = [w EXCEPT !.snap = "store",
              !.made = [version |-> c.version + Len(c.changes), state |-> c.state]]
        BY <4>1, <4>3
      <4> QED
        BY <1>0, <4>4 DEF SessionTypes
    <3> HIDE DEF d
    <3> QED
      BY <3>1, <3>2, <3>3, Zenon
  <2> HIDE DEF d
  <2>2. d \in SessionTypes
    BY <1>0, <1>5, <2>1 DEF SessionTypes, Snapshots
  <2>3. session' \in [Sessions -> SessionTypes] /\ session'[s] = d /\ Others(s)
    BY <1>1, <2>2, SessionStep
  <2> QED
    BY <1>0, <2>1, <2>3 DEF KeepsObject, SessionTypes
<1>7. CASE snap # "version"
  <2>1. d = [c EXCEPT !.save = "check", !.snap = snap, !.j = i]
    BY <1>0, <1>4, <1>7 DEF SessionTypes
  <2> HIDE DEF d
  <2>2. d \in SessionTypes
    BY <1>0, <2>1 DEF SessionTypes
  <2>3. session' \in [Sessions -> SessionTypes] /\ session'[s] = d /\ Others(s)
    BY <1>1, <2>2, SessionStep
  <2>4. /\ d.save = "check" /\ d.snap = snap /\ d.j = i /\ d.made = c.made
        /\ d.version = c.version /\ d.state = c.state /\ d.changes = c.changes
        /\ d.expected = c.expected /\ d.flushed = c.flushed /\ d.saved = c.saved
    BY <1>0, <2>1 DEF SessionTypes
  <2>5. /\ snap \in {"none", "exists"}
        /\ snap = "none" => \A k \in 1..Len(c.changes) : ~IsDue(c.expected + k)
        /\ snap = "exists" => \A k \in 1..(i + 1) : ~IsDue(c.expected + k)
    BY <1>2, <1>3, <1>7
  <2> QED
    BY <1>0, <2>3, <2>4, <2>5 DEF KeepsObject
<1> QED
  BY <1>6, <1>7

LEMMA AskExistsFacts ==
  ASSUME Types, NEW s \in Sessions, AskExists(s), Len(session[s].changes) <= MaxBatch
  PROVE  LET c == session[s]
             d == session'[s]
         IN /\ session' \in [Sessions -> SessionTypes] /\ Others(s) /\ KeepsObject(s)
            /\ c.snap = "exists" /\ d.save = c.save /\ d.made = c.made
            /\ c.flushed # <<>> => "emptied" \in happened'
            /\ d.snap \in {"none", "exists", "version", "failed"}
            /\ d.snap = "none" =>
                 \A k \in (c.j + 2)..Len(c.changes) : ~IsDue(c.expected + k)
            /\ d.snap = "exists" => \A k \in (c.j + 2)..(d.j + 1) : ~IsDue(c.expected + k)
<1> DEFINE c == session[s]
<1>0. c \in SessionTypes /\ c.snap = "exists" /\ c.j + 1 \in Nat /\ c.j + 1 + 1 = c.j + 2
  BY DEF Types, AskExists, SessionTypes
<1>1. PICK d : /\ session' = [session EXCEPT ![s] = d]
               /\ \/ d = [c EXCEPT !.snap = "failed"]
                  \/ d = [c EXCEPT !.snap = "version"]
                  \/ d = Look(c, c.j + 1)
  <2>1. PICK e \in Endings("exists") : session' = [session EXCEPT ![s] =
              IF ~Answered(e) THEN [c EXCEPT !.snap = "failed"]
              ELSE IF snapshot = NoSnapshot THEN [c EXCEPT !.snap = "version"]
              ELSE Look(c, c.j + 1)]
    BY DEF AskExists, Types
  <2> QED
    BY <2>1
<1>2. c.flushed # <<>> => "emptied" \in happened'
  BY DEF AskExists, Note
<1>3. CASE d = Look(c, c.j + 1)
  <2>1. PICK snap \in {"none", "version", "exists"}, i \in 0..MaxBatch :
         /\ Look(c, c.j + 1) \in SessionTypes
         /\ Look(c, c.j + 1) = [c EXCEPT !.snap = snap, !.j = i]
         /\ snap = "none" => \A k \in (c.j + 2)..Len(c.changes) : ~IsDue(c.expected + k)
         /\ snap = "exists" => \A k \in (c.j + 2)..(i + 1) : ~IsDue(c.expected + k)
    BY <1>0, LookFacts
  <2>2. d \in SessionTypes /\ d = [c EXCEPT !.snap = snap, !.j = i]
    BY <1>3, <2>1
  <2>3. session' \in [Sessions -> SessionTypes] /\ session'[s] = d /\ Others(s)
    BY <1>1, <2>2, SessionStep
  <2>4. d.snap = snap /\ d.j = i
    BY <1>0, <2>2 DEF SessionTypes
  <2>5. KeepsObject(s) /\ session'[s].save = c.save /\ session'[s].made = c.made
    BY <1>0, <2>2, <2>3 DEF KeepsObject, SessionTypes
  <2> QED
    BY <1>0, <1>2, <2>1, <2>3, <2>4, <2>5
<1>4. CASE d = [c EXCEPT !.snap = "failed"] \/ d = [c EXCEPT !.snap = "version"]
  <2>1. d \in SessionTypes
    BY <1>0, <1>4 DEF SessionTypes
  <2>2. session' \in [Sessions -> SessionTypes] /\ session'[s] = d /\ Others(s)
    BY <1>1, <2>1, SessionStep
  <2> QED
    BY <1>0, <1>2, <1>4, <2>2 DEF KeepsObject, SessionTypes
<1> QED
  BY <1>1, <1>3, <1>4

LEMMA ReadVersionFacts ==
  ASSUME Types, NEW s \in Sessions, ReadVersion(s)
  PROVE  LET c == session[s]
             d == session'[s]
         IN /\ session' \in [Sessions -> SessionTypes] /\ Others(s) /\ KeepsObject(s)
            /\ c.snap = "version" /\ d.save = c.save /\ d.snap = "length" /\ d.j = c.j
            /\ d.made.version = c.version /\ d.made.state = c.state
<1> DEFINE d == [session[s] EXCEPT !.snap = "length",
                    !.made = [version |-> session[s].version, state |-> session[s].state]]
<1>1. session' = [session EXCEPT ![s] = d] /\ session[s].snap = "version"
  BY DEF ReadVersion, WithVersion, Types
<1>2. d \in SessionTypes /\ session[s] \in SessionTypes
  <2>1. session[s] \in SessionTypes /\ snapshot \in Snapshots
    BY DEF Types
  <2> QED
    BY <2>1 DEF SessionTypes, Snapshots
<1>3. session' \in [Sessions -> SessionTypes] /\ session'[s] = d /\ Others(s)
  BY <1>1, <1>2, SessionStep
<1> QED
  BY <1>1, <1>3 DEF KeepsObject, Types, SessionTypes

LEMMA ReadLengthFacts ==
  ASSUME Types, NEW s \in Sessions, ReadLength(s)
  PROVE  LET c == session[s]
             d == session'[s]
         IN /\ session' \in [Sessions -> SessionTypes] /\ Others(s) /\ KeepsObject(s)
            /\ c.snap = "length" /\ d.save = c.save /\ d.snap = "store" /\ d.j = c.j
            /\ d.made.version = c.made.version + Len(c.changes)
            /\ d.made.state = c.made.state
            /\ c.version # c.made.version => "torn" \in happened'
<1> DEFINE c == session[s]
           d == [c EXCEPT !.snap = "store", !.made = [c.made EXCEPT !.version = @ + Len(c.changes)]]
<1>1. session' = [session EXCEPT ![s] = d] /\ c.snap = "length"
  BY DEF ReadLength, WithLength, Types, SessionTypes
<1>2. c \in SessionTypes /\ c.made \in Snapshots /\ c.made.version + Len(c.changes) \in Nat
  BY DEF Types, SessionTypes, Snapshots
<1>3. d \in SessionTypes
  BY <1>2 DEF SessionTypes, Snapshots
<1>4. session' \in [Sessions -> SessionTypes] /\ session'[s] = d /\ Others(s)
  BY <1>1, <1>3, SessionStep
<1>5. c.version # c.made.version => "torn" \in happened'
  BY DEF ReadLength, Note
<1> QED
  BY <1>1, <1>2, <1>4, <1>5 DEF KeepsObject, SessionTypes, Snapshots

LEMMA StoreFacts ==
  ASSUME Types, NEW s \in Sessions, StoreSnapshot(s)
  PROVE  LET c == session[s]
             d == session'[s]
         IN /\ session' \in [Sessions -> SessionTypes] /\ Others(s) /\ KeepsObject(s)
            /\ c.snap = "store" /\ d.save = c.save /\ d.snap \in {"stored", "failed"}
            /\ d.j = c.j /\ d.made = c.made /\ c.made \in Snapshots
            /\ snapshot' = snapshot \/ snapshot' = c.made
<1> DEFINE c == session[s]
<1>1. PICK e \in Endings("store") :
         /\ snapshot' = IF Ran(e) THEN c.made ELSE snapshot
         /\ session' = [session EXCEPT ![s].snap = IF Answered(e) THEN "stored" ELSE "failed"]
  BY DEF StoreSnapshot
<1> DEFINE d == [c EXCEPT !.snap = IF Answered(e) THEN "stored" ELSE "failed"]
<1>2. session' = [session EXCEPT ![s] = d] /\ c.snap = "store"
  BY <1>1 DEF StoreSnapshot, Types
<1>3. d \in SessionTypes /\ c.made \in Snapshots
  <2>1. c \in SessionTypes
    BY DEF Types
  <2> QED
    BY <2>1 DEF SessionTypes
<1>4. session' \in [Sessions -> SessionTypes] /\ session'[s] = d /\ Others(s)
  BY <1>2, <1>3, SessionStep
<1> QED
  <2>1. c \in SessionTypes
    BY DEF Types
  <2>2. /\ d.snap \in {"stored", "failed"} /\ d.save = c.save /\ d.j = c.j /\ d.made = c.made
        /\ d.version = c.version /\ d.state = c.state /\ d.changes = c.changes
        /\ d.expected = c.expected /\ d.flushed = c.flushed /\ d.saved = c.saved
    BY <2>1 DEF SessionTypes
  <2> HIDE DEF d
  <2> QED
    BY <1>1, <1>2, <1>3, <1>4, <2>2 DEF KeepsObject

LEMMA FailFacts ==
  ASSUME Types, NEW s \in Sessions, Fail(s)
  PROVE  session' \in [Sessions -> SessionTypes] /\ Others(s) /\ Failed(s)
<1> DEFINE d == [session[s] EXCEPT !.save = "failed"]
<1>1. session' = [session EXCEPT ![s] = d]
  BY DEF Fail, Types
<1>2. d \in SessionTypes
  <2>1. session[s] \in SessionTypes
    BY DEF Types
  <2> QED
    BY <2>1 DEF SessionTypes
<1>3. session' \in [Sessions -> SessionTypes] /\ session'[s] = d /\ Others(s)
  BY <1>1, <1>2, SessionStep
<1>4. Snap(s) # "none" => "unsaved" \in happened'
  BY DEF Fail, Note, Snap
<1> QED
  BY <1>3, <1>4 DEF Failed, KeepsObject, KeepsSnap, Types, SessionTypes

LEMMA CheckFacts ==
  ASSUME Types, NEW s \in Sessions, Check(s)
  PROVE  LET c == session[s]
             d == session'[s]
         IN /\ session' \in [Sessions -> SessionTypes] /\ Others(s)
            /\ c.save = "check"
            /\ \/ Failed(s)
               \/ /\ d.save = IF c.changes = <<>> THEN "saved" ELSE "insert"
                  /\ KeepsSnap(s) /\ d.state = c.state
                  /\ d.version = c.version + Len(c.changes)
                  /\ d.flushed = c.changes /\ d.changes = <<>>
                  /\ d.expected = c.expected /\ d.saved = c.saved
<1> DEFINE c == session[s]
           d == [c EXCEPT !.save = IF c.changes = <<>> THEN "saved" ELSE "insert",
                    !.version = @ + Len(c.changes), !.flushed = c.changes, !.changes = <<>>]
<1>0. c \in SessionTypes /\ c.save = "check"
  BY DEF Types, Check
<1>1. Fail(s) \/ session' = [session EXCEPT ![s] = d]
  BY DEF Check, Types
<1>2. CASE session' = [session EXCEPT ![s] = d]
  <2>1. d \in SessionTypes
    <3>1. c.version + Len(c.changes) \in Nat /\ <<>> \in Seq(Ids)
      BY <1>0 DEF SessionTypes
    <3> QED
      BY <1>0, <3>1 DEF SessionTypes
  <2>2. session' \in [Sessions -> SessionTypes] /\ session'[s] = d /\ Others(s)
    BY <1>2, <2>1, SessionStep
  <2> QED
    BY <1>0, <2>2 DEF KeepsSnap, SessionTypes
<1> QED
  BY <1>0, <1>1, <1>2, FailFacts

LEMMA InsertFacts ==
  ASSUME Types, NEW s \in Sessions, Insert(s), Shape(s)
  PROVE  LET c == session[s]
             d == session'[s]
             v == c.expected + c.saved + 1
         IN /\ session' \in [Sessions -> SessionTypes] /\ Others(s)
            /\ c.save = "insert" /\ c.saved + 1 \in 1..Len(c.flushed)
            /\ \/ rows' = rows
               \/ rows[v] = 0 /\ rows' = [rows EXCEPT ![v] = c.flushed[c.saved + 1]]
            /\ \/ Failed(s)
               \/ /\ rows[v] = 0 /\ rows' = [rows EXCEPT ![v] = c.flushed[c.saved + 1]]
                  /\ d.saved = c.saved + 1
                  /\ d.save = IF c.saved + 1 = Len(c.flushed) THEN "saved" ELSE "insert"
                  /\ KeepsSnap(s) /\ d.version = c.version /\ d.state = c.state
                  /\ d.changes = c.changes /\ d.expected = c.expected
                  /\ d.flushed = c.flushed
<1> DEFINE c == session[s]
           v == c.expected + c.saved + 1
           d == [c EXCEPT !.saved = @ + 1,
                    !.save = IF c.saved + 1 = Len(c.flushed) THEN "saved" ELSE "insert"]
<1>0. c \in SessionTypes /\ c.save = "insert"
  BY DEF Types, Insert
<1>1. /\ c.saved + 1 \in 1..Len(c.flushed)
      /\ c.version - Len(c.flushed) + c.saved + 1 = v
  <2>1. c.saved < Len(c.flushed) /\ c.version = c.expected + Len(c.flushed)
    BY <1>0 DEF Shape, Save, Loaded
  <2>2. c.saved \in Nat /\ c.expected \in Nat /\ Len(c.flushed) \in Nat
    BY <1>0, FieldTypes
  <2> HIDE DEF c
  <2> QED
    BY <2>1, <2>2
<1>2. PICK e \in Endings("insert") :
         /\ rows' = IF Ran(e) /\ rows[v] = 0 THEN [rows EXCEPT ![v] = c.flushed[c.saved + 1]]
                    ELSE rows
         /\ IF Answered(e) /\ rows[v] = 0 THEN session' = [session EXCEPT ![s] = d] ELSE Fail(s)
  <2>1. PICK e \in Endings("insert") :
         LET w == c.version - Len(c.flushed) + c.saved + 1 IN
         /\ rows' = IF Ran(e) /\ rows[w] = 0 THEN [rows EXCEPT ![w] = c.flushed[c.saved + 1]]
                    ELSE rows
         /\ IF Answered(e) /\ rows[w] = 0
            THEN session' = [session EXCEPT ![s].saved = @ + 1,
                   ![s].save = IF c.saved + 1 = Len(c.flushed) THEN "saved" ELSE "insert"]
            ELSE Fail(s)
    BY DEF Insert
  <2>2. [session EXCEPT ![s].saved = @ + 1,
           ![s].save = IF c.saved + 1 = Len(c.flushed) THEN "saved" ELSE "insert"]
        = [session EXCEPT ![s] = d]
    BY DEF Types
  <2> QED
    BY <1>1, <2>1, <2>2
<1>3. CASE Answered(e) /\ rows[v] = 0
  <2>1. d \in SessionTypes
    <3>1. c.saved + 1 \in Nat
      BY <1>0 DEF SessionTypes
    <3> QED
      BY <1>0, <3>1 DEF SessionTypes
  <2>2. session' \in [Sessions -> SessionTypes] /\ session'[s] = d /\ Others(s)
    BY <1>2, <1>3, <2>1, SessionStep
  <2>3. Ran(e)
    BY <1>3 DEF Ran, Answered
  <2> QED
    BY <1>0, <1>1, <1>2, <1>3, <2>2, <2>3 DEF KeepsSnap, SessionTypes
<1>4. CASE ~(Answered(e) /\ rows[v] = 0)
  <2>1. Fail(s) /\ (rows' = rows \/ (rows[v] = 0 /\ rows' = [rows EXCEPT ![v] = c.flushed[c.saved + 1]]))
    BY <1>2, <1>4
  <2> QED
    BY <1>0, <1>1, <2>1, FailFacts
<1> QED
  BY <1>3, <1>4

LEMMA ReturnFacts ==
  ASSUME Types, NEW s \in Sessions, Return(s)
  PROVE  session' \in [Sessions -> SessionTypes] /\ Others(s) /\ session'[s] = Idle
BY SessionStep, IdleTypes DEF Return

-----------------------------------------------------------------------------
(* Types and ShapeInv are inductive.                                       *)

(* What is stored stays.                                                   *)
RowsGrow == \A k \in Ids : rows[k] # 0 => rows'[k] = rows[k]

LEMMA NoteGrows ==
  ASSUME NEW M, M \subseteq Marks, Note(M)
  PROVE  happened \subseteq happened' /\ (happened \subseteq Marks => happened' \subseteq Marks)
BY DEF Note

(* What is remembered, the failures and the next event only grow.          *)
Counted ==
    /\ happened \subseteq happened'
    /\ happened \subseteq Marks => happened' \subseteq Marks
    /\ faults' = faults \/ \E call \in Calls : \E ending \in Endings(call) : Count(ending)
    /\ nextId' = nextId \/ (nextId <= MaxIds /\ nextId' = nextId + 1)

LEMMA StepCounts ==
  ASSUME NEW s \in Sessions, Step(s)
  PROVE  Counted
<1>1. CASE Restore(s)
  BY <1>1 DEF Restore, Counted
<1>2. CASE Replay(s)
  BY <1>2 DEF Replay, Counted
<1>3. CASE Change(s)
  BY <1>3 DEF Change, Counted
<1>4. CASE Commit(s)
  BY <1>4 DEF Commit, Counted
<1>5. CASE AskExists(s)
  <2>1. \E ending \in Endings("exists") : Count(ending)
    BY <1>5 DEF AskExists
  <2>2. \E M \in SUBSET Marks : Note(M)
    BY <1>5 DEF AskExists, Marks
  <2>3. nextId' = nextId
    BY <1>5 DEF AskExists
  <2> QED
    BY <2>1, <2>2, <2>3, NoteGrows DEF Counted, Calls
<1>6. CASE ReadVersion(s)
  BY <1>6 DEF ReadVersion, Counted
<1>7. CASE ReadLength(s)
  <2>1. \E M \in SUBSET Marks : Note(M)
    BY <1>7 DEF ReadLength, Marks
  <2>2. faults' = faults /\ nextId' = nextId
    BY <1>7 DEF ReadLength
  <2> QED
    BY <2>1, <2>2, NoteGrows DEF Counted
<1>8. CASE StoreSnapshot(s)
  <2>1. \E ending \in Endings("store") : Count(ending)
    BY <1>8 DEF StoreSnapshot
  <2>2. happened' = happened /\ nextId' = nextId
    BY <1>8 DEF StoreSnapshot
  <2> QED
    BY <2>1, <2>2 DEF Counted, Calls
<1>9. CASE Check(s)
  <2>1. \E ending \in Endings("check") : Count(ending)
    BY <1>9 DEF Check
  <2>2. happened' = happened \/ \E M \in SUBSET Marks : Note(M)
    BY <1>9 DEF Check, Fail, Marks
  <2>3. nextId' = nextId
    BY <1>9 DEF Check
  <2> QED
    BY <2>1, <2>2, <2>3, NoteGrows DEF Counted, Calls
<1>10. CASE Insert(s)
  <2>1. \E ending \in Endings("insert") : Count(ending)
    BY <1>10 DEF Insert
  <2>2. happened' = happened \/ \E M \in SUBSET Marks : Note(M)
    BY <1>10 DEF Insert, Fail, Marks
  <2>3. nextId' = nextId
    BY <1>10 DEF Insert
  <2> QED
    BY <2>1, <2>2, <2>3, NoteGrows DEF Counted, Calls
<1>11. CASE Return(s)
  BY <1>11 DEF Return, Counted
<1> QED
  BY <1>1, <1>2, <1>3, <1>4, <1>5, <1>6, <1>7, <1>8, <1>9, <1>10, <1>11 DEF Step

LEMMA NextCounts == [Next]_vars => Counted
<1>1. UNCHANGED vars => Counted
  BY DEF vars, Counted
<1> QED
  BY <1>1, StepCounts DEF Next

LEMMA HappenedGrows == [Next]_vars => happened \subseteq happened'
BY NextCounts DEF Counted

LEMMA InitShape == Init => IInv
<1> SUFFICES ASSUME Init PROVE IInv
  OBVIOUS
<1>1. NoSnapshot \in Snapshots /\ NoSnapshot.version = 0
  BY DEF NoSnapshot, Snapshots
<1>2. Types
  BY <1>1, BoundsAssumption, IdleTypes DEF Init, Types, Marks
<1>3. Bounds
  BY <1>1 DEF Init, Bounds, Idle
<1>4. ASSUME NEW s \in Sessions PROVE Shape(s)
  BY BoundsAssumption DEF Init, Shape, Idle, Save, Snap, Loaded
<1> QED
  BY <1>2, <1>3, <1>4 DEF IInv, ShapeInv

(* Where an event goes is a version, and it is the event's first.          *)
LEMMA InsertVersion ==
  ASSUME IInv, NEW s \in Sessions, Insert(s)
  PROVE  LET c == session[s] IN
         /\ c.saved + 1 \in 1..Len(c.flushed) /\ c.flushed[c.saved + 1] \in Ids
         /\ c.expected + c.saved + 1 \in Ids /\ c.expected + c.saved + 1 < nextId
         /\ c.expected + c.saved + 1 = c.expected + (c.saved + 1)
<1> DEFINE c == session[s]
<1>1. c \in SessionTypes /\ Shape(s) /\ c.save = "insert" /\ nextId \in 1..(MaxIds + 1)
      /\ MaxIds \in Nat
  BY BoundsAssumption DEF IInv, Types, ShapeInv, Insert
<1>2. c.version + Len(c.changes) < nextId
  BY DEF IInv, ShapeInv, Bounds
<1>3. /\ c.saved + 1 \in 1..Len(c.flushed) /\ c.version = c.expected + Len(c.flushed)
      /\ Len(c.changes) \in Nat /\ c.expected \in Nat /\ c.saved \in Nat
      /\ Len(c.flushed) \in Nat
  BY <1>1 DEF Shape, Save, Loaded, SessionTypes
<1>4. c.flushed[c.saved + 1] \in Ids
  BY <1>1, <1>3 DEF SessionTypes
<1>5. /\ c.expected + c.saved + 1 < nextId
      /\ c.expected + c.saved + 1 = c.expected + (c.saved + 1)
      /\ c.expected + c.saved + 1 \in 1..MaxIds
  <2>1. ASSUME NEW e \in Nat, NEW a \in Nat, NEW n \in Nat, NEW l \in Nat,
               a + 1 \in 1..n, e + n + l < nextId
        PROVE  /\ e + a + 1 < nextId /\ e + a + 1 = e + (a + 1)
               /\ e + a + 1 \in 1..MaxIds
    BY <1>1, <2>1
  <2>2. c.expected + Len(c.flushed) + Len(c.changes) < nextId
    BY <1>2, <1>3
  <2> HIDE DEF c
  <2> QED
    BY <1>3, <2>1, <2>2
<1> QED
  BY <1>3, <1>4, <1>5 DEF Ids

LEMMA TypesStep ==
  ASSUME IInv, [Next]_vars
  PROVE  Types' /\ RowsGrow
<1>0. Types /\ ShapeInv
  BY DEF IInv
<1>1. happened' \subseteq Marks
  BY <1>0, NextCounts DEF Types, Counted
<1>2. faults' \in 0..MaxFaults
  BY <1>0, NextCounts, CountTypes DEF Types, Counted
<1>3. nextId' \in 1..(MaxIds + 1)
  BY <1>0, NextCounts, BoundsAssumption DEF Types, Counted
<1>4. rows' \in [Ids -> Ids \cup {0}] /\ RowsGrow
  <2>1. CASE rows' = rows
    BY <1>0, <2>1 DEF Types, RowsGrow
  <2>2. CASE rows' # rows
    <3>1. PICK s \in Sessions : Insert(s)
      BY <2>2 DEF Next, Step, vars, Restore, Replay, Change, Commit, AskExists, ReadVersion,
         ReadLength, StoreSnapshot, Check, Return
    <3> DEFINE v == session[s].expected + session[s].saved + 1
    <3>2. /\ v \in Ids /\ session[s].flushed[session[s].saved + 1] \in Ids
          /\ rows[v] = 0 /\ rows' = [rows EXCEPT ![v] = session[s].flushed[session[s].saved + 1]]
      BY <1>0, <2>2, <3>1, InsertFacts, InsertVersion DEF ShapeInv
    <3> QED
      BY <1>0, <3>2 DEF Types, RowsGrow
  <2> QED
    BY <2>1, <2>2
<1>5. session' \in [Sessions -> SessionTypes] /\ snapshot' \in Snapshots
  <2>1. CASE UNCHANGED vars
    BY <1>0, <2>1 DEF Types, vars
  <2>2. ASSUME NEW s \in Sessions, Step(s)
        PROVE  session' \in [Sessions -> SessionTypes] /\ snapshot' \in Snapshots
    <3>0. Shape(s) /\ Len(session[s].changes) <= MaxBatch
      BY <1>0 DEF ShapeInv, Shape
    <3>1. CASE Restore(s)
      BY <1>0, <3>1, RestoreFacts DEF Restore, Types
    <3>2. CASE Replay(s)
      BY <1>0, <3>2, ReplayFacts DEF Replay, Types
    <3>3. CASE Change(s)
      BY <1>0, <3>3, ChangeFacts DEF Change, Types
    <3>4. CASE Commit(s)
      BY <1>0, <3>0, <3>4, CommitFacts DEF Commit, Types
    <3>5. CASE AskExists(s)
      BY <1>0, <3>0, <3>5, AskExistsFacts DEF AskExists, Types
    <3>6. CASE ReadVersion(s)
      BY <1>0, <3>6, ReadVersionFacts DEF ReadVersion, Types
    <3>7. CASE ReadLength(s)
      BY <1>0, <3>7, ReadLengthFacts DEF ReadLength, Types
    <3>8. CASE StoreSnapshot(s)
      BY <1>0, <3>8, StoreFacts DEF Types
    <3>9. CASE Check(s)
      BY <1>0, <3>9, CheckFacts DEF Check, Types
    <3>10. CASE Insert(s)
      BY <1>0, <3>0, <3>10, InsertFacts DEF Insert, Types
    <3>11. CASE Return(s)
      BY <1>0, <3>11, ReturnFacts DEF Return, Types
    <3> QED
      BY <2>2, <3>1, <3>2, <3>3, <3>4, <3>5, <3>6, <3>7, <3>8, <3>9, <3>10, <3>11 DEF Step
  <2> QED
    BY <2>1, <2>2 DEF Next
<1> QED
  BY <1>1, <1>2, <1>3, <1>4, <1>5 DEF Types

(* What a session saved is stored, and stays.                              *)
LEMMA SavedStays ==
  ASSUME IInv, RowsGrow, NEW s \in Sessions, NEW k \in 1..session[s].saved
  PROVE  LET c == session[s] IN
         /\ k \in 1..Len(c.flushed) /\ c.flushed[k] \in Ids /\ c.expected + k \in Ids
         /\ rows[c.expected + k] = c.flushed[k] /\ rows'[c.expected + k] = c.flushed[k]
<1> DEFINE c == session[s]
<1>1. c \in SessionTypes /\ Shape(s) /\ c.version + Len(c.changes) < nextId
      /\ nextId \in 1..(MaxIds + 1) /\ MaxIds \in Nat
  BY BoundsAssumption DEF IInv, Types, ShapeInv, Bounds
<1>2. /\ c.saved \in Nat /\ c.saved <= Len(c.flushed) /\ Len(c.flushed) \in Nat
      /\ c.version = c.expected + Len(c.flushed) /\ Len(c.changes) \in Nat
      /\ c.expected \in Nat /\ rows[c.expected + k] = c.flushed[k]
  <2>1. /\ c.saved \in Nat /\ Len(c.flushed) \in Nat /\ Len(c.changes) \in Nat
        /\ c.expected \in Nat
    BY <1>1, FieldTypes
  <2>2. Loaded(s)
    <3>1. c.saved # 0
      BY <2>1
    <3> QED
      BY <1>1, <3>1 DEF Shape
  <2> QED
    BY <1>1, <2>1, <2>2 DEF Shape
<1>3. k \in 1..Len(c.flushed)
  BY <1>2
<1>4. c.flushed[k] \in Ids
  BY <1>1, <1>3 DEF SessionTypes
<1>5. c.expected + k \in 1..MaxIds
  <2>1. c.expected + Len(c.flushed) + Len(c.changes) < nextId
    BY <1>1, <1>2
  <2>2. ASSUME NEW e \in Nat, NEW n \in Nat, NEW l \in Nat, NEW i \in 1..n, e + n + l < nextId
        PROVE  e + i \in 1..MaxIds
    BY <1>1, <2>2
  <2> HIDE DEF c
  <2> QED
    BY <1>2, <1>3, <2>1, <2>2
<1>6. rows[c.expected + k] # 0
  BY <1>2, <1>4 DEF Ids
<1> QED
  BY <1>2, <1>3, <1>4, <1>5, <1>6 DEF RowsGrow, Ids

(* Another session is what it was.                                         *)
LEMMA OtherShape ==
  ASSUME IInv, RowsGrow, NEW o \in Sessions, session'[o] = session[o]
  PROVE  Shape(o)'
<1>1. Shape(o)
  BY DEF IInv, ShapeInv
<1>2. \A k \in 1..session[o].saved : rows'[session[o].expected + k] = session[o].flushed[k]
  BY SavedStays
<1> QED
  BY <1>1, <1>2 DEF Shape, Save, Snap, Loaded

LEMMA OwnShape ==
  ASSUME IInv, Types', RowsGrow, NEW s \in Sessions, Step(s)
  PROVE  Shape(s)'
<1> DEFINE c == session[s]
           d == session'[s]
<1>0. /\ Types /\ c \in SessionTypes /\ d \in SessionTypes /\ Shape(s)
      /\ Len(c.changes) <= MaxBatch /\ MaxBatch \in Nat
  BY BoundsAssumption DEF IInv, Types, ShapeInv, Shape
<1>1. \A k \in 1..c.saved : rows'[c.expected + k] = c.flushed[k]
  BY SavedStays
<1>2. CASE Restore(s)
  <2>1. /\ c.save = "idle" /\ d.save = "replay" /\ d.snap = c.snap /\ d.made = c.made
        /\ d.changes = c.changes /\ d.expected = c.expected
        /\ d.flushed = c.flushed /\ d.saved = c.saved
    BY <1>0, <1>2, RestoreFacts DEF KeepsSnap
  <2>2. c.snap = "none"
    BY <1>0, <2>1 DEF Shape, Save, Loaded
  <2> QED
    BY <1>0, <1>1, <2>1, <2>2 DEF Shape, Save, Snap, Loaded
<1>3. CASE Replay(s)
  <2>1. CASE d = Idle
    BY <2>1, BoundsAssumption DEF Idle, Shape, Save, Snap, Loaded
  <2>2. CASE d # Idle
    <3>1. /\ c.save = "replay" /\ d.save = "open" /\ d.snap = c.snap /\ d.made = c.made
          /\ d.changes = c.changes /\ d.flushed = c.flushed /\ d.saved = c.saved
          /\ d.expected = d.version
      BY <1>0, <1>3, <2>2, ReplayFacts DEF KeepsSnap
    <3>2. d.expected \in Nat /\ Len(<<>>) = 0 /\ 1..0 = {}
      BY <1>0 DEF SessionTypes
    <3>3. d.flushed = <<>> /\ d.changes = <<>> /\ d.saved = 0 /\ d.snap = "none"
      BY <1>0, <3>1 DEF Shape, Save, Loaded
    <3> QED
      BY <1>0, <3>1, <3>2, <3>3 DEF Shape, Save, Snap, Loaded
  <2> QED
    BY <2>1, <2>2
<1>4. CASE Change(s)
  <2>1. Len(Append(c.changes, nextId)) = Len(c.changes) + 1
    BY <1>0, <1>4, ChangeFacts DEF SessionTypes
  <2> QED
    <3>1. /\ c.save = "open" /\ d.save = "open" /\ d.snap = c.snap /\ d.made = c.made
          /\ d.version = c.version /\ d.expected = c.expected
          /\ d.flushed = c.flushed /\ d.saved = c.saved
          /\ d.changes = Append(c.changes, nextId) /\ Len(c.changes) < MaxBatch
      BY <1>0, <1>4, ChangeFacts DEF KeepsSnap
    <3>2. Len(d.changes) <= MaxBatch
      BY <1>0, <2>1, <3>1 DEF SessionTypes
    <3>3. d.snap = "none"
      BY <1>0, <3>1 DEF Shape, Save
    <3> QED
      BY <1>0, <1>1, <3>1, <3>2, <3>3 DEF Shape, Save, Snap, Loaded
<1>5. CASE Commit(s)
  <2>1. /\ KeepsObject(s) /\ c.save = "open" /\ d.save = "check"
        /\ d.snap \in {"store", "none", "exists"}
        /\ d.snap = "store" => d.made.state = c.state
    BY <1>0, <1>5, CommitFacts
  <2> QED
    BY <1>0, <1>1, <2>1 DEF Shape, Save, Snap, Loaded, KeepsObject
<1>6. CASE AskExists(s)
  <2>1. /\ KeepsObject(s) /\ d.save = c.save /\ d.made = c.made /\ c.snap = "exists"
        /\ d.snap \in {"none", "exists", "version", "failed"}
    BY <1>0, <1>6, AskExistsFacts
  <2> QED
    BY <1>0, <1>1, <2>1 DEF Shape, Save, Snap, Loaded, KeepsObject
<1>7. CASE ReadVersion(s)
  <2>1. /\ KeepsObject(s) /\ d.save = c.save /\ c.snap = "version" /\ d.snap = "length"
        /\ d.made.state = c.state /\ d.made.version = c.version
    BY <1>0, <1>7, ReadVersionFacts
  <2>2. c.version \in Nat /\ c.version <= c.version
    BY <1>0, FieldTypes
  <2> QED
    BY <1>0, <1>1, <2>1, <2>2 DEF Shape, Save, Snap, Loaded, KeepsObject
<1>8. CASE ReadLength(s)
  <2>1. /\ KeepsObject(s) /\ d.save = c.save /\ d.made.state = c.made.state
        /\ c.snap = "length" /\ d.snap = "store"
    BY <1>0, <1>8, ReadLengthFacts
  <2> QED
    BY <1>0, <1>1, <2>1 DEF Shape, Save, Snap, Loaded, KeepsObject
<1>9. CASE StoreSnapshot(s)
  <2>1. /\ KeepsObject(s) /\ c.snap = "store" /\ d.save = c.save
        /\ d.snap \in {"stored", "failed"}
    BY <1>0, <1>9, StoreFacts
  <2> QED
    BY <1>0, <1>1, <2>1 DEF Shape, Save, Snap, Loaded, KeepsObject
<1>10. CASE Failed(s) /\ (Check(s) \/ Insert(s))
  <2>1. c.save \in {"check", "insert"}
    BY <1>10 DEF Check, Insert
  <2>2. /\ d.save = "failed" /\ d.snap = c.snap /\ d.made = c.made
        /\ d.version = c.version /\ d.state = c.state /\ d.changes = c.changes
        /\ d.expected = c.expected /\ d.flushed = c.flushed /\ d.saved = c.saved
    BY <1>10 DEF Failed, KeepsObject, KeepsSnap
  <2> QED
    BY <1>0, <1>1, <2>1, <2>2 DEF Shape, Save, Snap, Loaded
<1>11. CASE Check(s) /\ ~Failed(s)
  <2>1. Len(<<>>) = 0 /\ Len(c.changes) \in Nat /\ (c.changes # <<>> => Len(c.changes) > 0)
    <3>1. \A q \in Seq(Ids) : Len(q) \in Nat /\ (q # <<>> => Len(q) > 0)
      OBVIOUS
    <3> QED
      BY <1>0, <3>1, FieldTypes
  <2>2. c.version \in Nat /\ c.expected \in Nat /\ c.flushed = <<>> /\ c.saved = 0
        /\ c.version = c.expected
    BY <1>0, <1>11, <2>1 DEF Check, Shape, Save, Loaded, SessionTypes
  <2>3. /\ c.save = "check" /\ d.save = IF c.changes = <<>> THEN "saved" ELSE "insert"
        /\ d.snap = c.snap /\ d.made = c.made /\ d.state = c.state
        /\ d.version = c.version + Len(c.changes)
        /\ d.flushed = c.changes /\ d.changes = <<>>
        /\ d.expected = c.expected /\ d.saved = c.saved
    BY <1>0, <1>11, CheckFacts DEF KeepsSnap
  <2>4. c.made.version \in Nat /\ (c.made.version <= c.version => c.made.version <= d.version)
    BY <1>0, <2>1, <2>2, <2>3 DEF SessionTypes, Snapshots
  <2>5. 1..0 = {} /\ 0 <= Len(c.changes) /\ 0 <= MaxBatch
    BY <1>0, <2>1
  <2>6. d.save \in {"saved", "insert"} /\ (d.save = "insert" => 0 < Len(c.changes))
        /\ (d.save = "saved" => Len(c.changes) = 0)
    BY <2>1, <2>3
  <2> HIDE DEF c, d
  <2>7. /\ d.saved = 0 /\ d.flushed = c.changes /\ d.changes = <<>>
        /\ d.version = d.expected + Len(d.flushed)
        /\ d.snap = c.snap /\ d.made = c.made /\ d.state = c.state
    BY <2>2, <2>3
  <2>8. /\ Snap(s) \in {"length", "store"} => c.made.state = c.state
        /\ Snap(s) = "length" => c.made.version <= c.version
    BY <1>0 DEF Shape, c
  <2> QED
    BY <2>1, <2>4, <2>5, <2>6, <2>7, <2>8 DEF Shape, Save, Snap, Loaded, c, d
<1>12. CASE Insert(s) /\ ~Failed(s)
  <2>1. /\ rows[c.expected + c.saved + 1] = 0
        /\ rows' = [rows EXCEPT ![c.expected + c.saved + 1] = c.flushed[c.saved + 1]]
        /\ c.expected + c.saved + 1 \in Ids
        /\ c.expected + c.saved + 1 = c.expected + (c.saved + 1)
    BY <1>0, <1>12, InsertFacts, InsertVersion
  <2>2. rows'[c.expected + (c.saved + 1)] = c.flushed[c.saved + 1]
    BY <1>0, <2>1 DEF Types
  <2>3. c.saved \in Nat /\ \A k \in 1..(c.saved + 1) : k \in 1..c.saved \/ k = c.saved + 1
    <3>1. c.saved \in Nat
      BY <1>0 DEF SessionTypes
    <3> HIDE DEF c
    <3> QED
      BY <3>1
  <2>4. \A k \in 1..(c.saved + 1) : rows'[c.expected + k] = c.flushed[k]
    BY <1>1, <2>2, <2>3
  <2>5. c.saved + 1 <= Len(c.flushed) /\ Len(c.flushed) \in Nat
    BY <1>0, <1>12, InsertFacts DEF SessionTypes
  <2>6. ~Failed(s)
    BY <1>12
  <2>7. /\ c.save = "insert" /\ d.saved = c.saved + 1
        /\ d.save = IF c.saved + 1 = Len(c.flushed) THEN "saved" ELSE "insert"
        /\ d.snap = c.snap /\ d.made = c.made /\ d.version = c.version /\ d.state = c.state
        /\ d.changes = c.changes /\ d.expected = c.expected /\ d.flushed = c.flushed
    BY <1>0, <1>12, <2>6, InsertFacts DEF KeepsSnap
  <2>8. /\ c.changes = <<>> /\ c.version = c.expected + Len(c.flushed)
        /\ Snap(s) \in {"length", "store"} => c.made.state = c.state
        /\ Snap(s) = "length" => c.made.version <= c.version
    BY <1>0, <2>7 DEF Shape, Save, Loaded
  <2> HIDE DEF c, d
  <2>9. /\ d.save \in {"saved", "insert"} /\ (d.save = "insert" => d.saved < Len(d.flushed))
        /\ (d.save = "saved" => d.saved = Len(d.flushed)) /\ d.saved <= Len(d.flushed)
    BY <2>3, <2>5, <2>7
  <2>10. \A k \in 1..d.saved : rows'[d.expected + k] = d.flushed[k]
    BY <2>4, <2>7
  <2>11. Len(d.changes) <= MaxBatch
    BY <1>0, <2>7
  <2> QED
    BY <2>7, <2>8, <2>9, <2>10, <2>11 DEF Shape, Save, Snap, Loaded, c, d
<1>13. CASE Return(s)
  BY <1>0, <1>13, ReturnFacts, BoundsAssumption DEF Idle, Shape, Save, Snap, Loaded
<1> QED
  BY <1>2, <1>3, <1>4, <1>5, <1>6, <1>7, <1>8, <1>9, <1>10, <1>11, <1>12, <1>13 DEF Step

LEMMA StepOthers ==
  ASSUME IInv, NEW s \in Sessions, Step(s)
  PROVE  Others(s)
<1>1. Types /\ Shape(s) /\ Len(session[s].changes) <= MaxBatch
  BY DEF IInv, ShapeInv, Shape
<1>2. CASE Restore(s) \/ Replay(s) \/ Change(s) \/ Return(s)
  <2>1. Restore(s) => Others(s)
    BY <1>1, RestoreFacts
  <2>2. Replay(s) => Others(s)
    BY <1>1, ReplayFacts
  <2>3. Change(s) => Others(s)
    BY <1>1, ChangeFacts
  <2>4. Return(s) => Others(s)
    BY <1>1, ReturnFacts
  <2> QED
    BY <1>2, <2>1, <2>2, <2>3, <2>4
<1>3. CASE Commit(s) \/ AskExists(s) \/ ReadVersion(s) \/ ReadLength(s)
  <2>1. Commit(s) => Others(s)
    BY <1>1, CommitFacts
  <2>2. AskExists(s) => Others(s)
    BY <1>1, AskExistsFacts
  <2>3. ReadVersion(s) => Others(s)
    BY <1>1, ReadVersionFacts
  <2>4. ReadLength(s) => Others(s)
    BY <1>1, ReadLengthFacts
  <2> QED
    BY <1>3, <2>1, <2>2, <2>3, <2>4
<1>4. CASE StoreSnapshot(s) \/ Check(s) \/ Insert(s)
  <2>1. StoreSnapshot(s) => Others(s)
    BY <1>1, StoreFacts
  <2>2. Check(s) => Others(s)
    BY <1>1, CheckFacts
  <2>3. Insert(s) => Others(s)
    BY <1>1, InsertFacts
  <2> QED
    BY <1>4, <2>1, <2>2, <2>3
<1> QED
  BY <1>2, <1>3, <1>4 DEF Step

LEMMA BoundsStep ==
  ASSUME IInv, Types', NEW s \in Sessions, Step(s)
  PROVE  Bounds'
<1> DEFINE c == session[s]
           d == session'[s]
<1>0. /\ Types /\ Bounds /\ c \in SessionTypes /\ d \in SessionTypes /\ Shape(s)
      /\ Len(c.changes) <= MaxBatch /\ nextId \in Nat /\ nextId' \in Nat
  BY DEF IInv, Types, ShapeInv, Shape
<1>1. /\ c.version \in Nat /\ Len(c.changes) \in Nat /\ c.made.version \in Nat
      /\ d.version \in Nat /\ Len(d.changes) \in Nat /\ d.made.version \in Nat
      /\ snapshot.version \in Nat
  <2>1. c.made \in Snapshots /\ d.made \in Snapshots /\ snapshot \in Snapshots
    BY <1>0 DEF Types, SessionTypes
  <2>2. c.made.version \in Nat /\ d.made.version \in Nat /\ snapshot.version \in Nat
    BY <2>1 DEF Snapshots
  <2>3. \A r \in SessionTypes : r.version \in Nat /\ r.changes \in Seq(Ids)
    BY DEF SessionTypes
  <2>4. \A q \in Seq(Ids) : Len(q) \in Nat
    OBVIOUS
  <2> QED
    BY <1>0, <2>2, <2>3, <2>4
<1>2. /\ c.version + Len(c.changes) < nextId /\ c.made.version < nextId
      /\ snapshot.version < nextId
  BY <1>0 DEF Bounds
(* It is enough to look at the session, and at what it stores.             *)
<1>3. ASSUME Others(s), nextId' = nextId \/ nextId' = nextId + 1,
             snapshot' = snapshot \/ snapshot' = c.made,
             \A k \in Ids : rows'[k] # 0 /\ rows'[k] # rows[k] => k < nextId,
             d.version + Len(d.changes) < nextId', d.made.version < nextId'
      PROVE  Bounds'
  <2>1. nextId <= nextId' /\ \A n \in Nat : n < nextId => n < nextId'
    BY <1>0, <1>3
  <2>2. snapshot'.version < nextId'
    BY <1>1, <1>2, <1>3, <2>1
  <2>3. \A k \in Ids : rows'[k] # 0 => k < nextId'
    BY <1>0, <1>3, <2>1 DEF Bounds, Ids
  <2>4. ASSUME NEW o \in Sessions, o # s
        PROVE  /\ session'[o].version + Len(session'[o].changes) < nextId'
               /\ session'[o].made.version < nextId'
    <3>1. session'[o] = session[o]
      BY <1>3, <2>4 DEF Others
    <3>2. session[o] \in SessionTypes
      BY <1>0 DEF Types
    <3>3. session[o].version + Len(session[o].changes) \in Nat /\ session[o].made.version \in Nat
      BY <3>2 DEF SessionTypes, Snapshots
    <3> QED
      BY <1>0, <2>1, <3>1, <3>3 DEF Bounds
  <2> QED
    BY <1>3, <2>2, <2>3, <2>4 DEF Bounds
<1>4. CASE Restore(s)
  <2>1. /\ Others(s) /\ d.version = snapshot.version /\ d.changes = c.changes /\ d.made = c.made
        /\ c.save = "idle"
    BY <1>0, <1>4, RestoreFacts DEF KeepsSnap
  <2>2. Len(d.changes) = 0
    BY <1>0, <2>1 DEF Shape, Save, Loaded
  <2>3. d.version + Len(d.changes) < nextId
    BY <1>1, <1>2, <2>1, <2>2
  <2> QED
    BY <1>2, <1>3, <1>4, <2>1, <2>3 DEF Restore
<1>5. CASE Replay(s)
  <2>0. Others(s) /\ snapshot' = snapshot /\ rows' = rows /\ nextId' = nextId
        /\ c.save = "replay"
    BY <1>0, <1>5, ReplayFacts DEF Replay
  <2>1. CASE d = Idle
    <3>1. d.version = 0 /\ d.changes = <<>> /\ Len(<<>>) = 0 /\ d.made.version = 0 /\ 0 < nextId
      BY <1>0, <2>1 DEF Idle, NoSnapshot, Types
    <3> QED
      BY <1>0, <1>3, <2>0, <3>1
  <2>2. CASE d # Idle
    <3> DEFINE n == Len(EventsAfter(c.version))
    <3>1. /\ Contiguous(VersionsAfter(c.version), c.version)
          /\ d.version = c.version + n /\ d.changes = c.changes /\ d.made = c.made
      BY <1>0, <1>5, <2>2, ReplayFacts DEF KeepsSnap
    <3>2. n \in Nat /\ \A i \in 1..n : c.version + i \in Ids /\ rows[c.version + i] # 0
      BY <1>0, <1>1, <3>1, EventsFacts
    <3>3. Len(d.changes) = 0
      BY <1>0, <2>0, <3>1 DEF Shape, Save, Loaded
    <3> HIDE DEF n
    <3>4. c.version + n < nextId
      <4>1. CASE n = 0
        BY <1>0, <1>1, <1>2, <4>1
      <4>2. CASE n # 0
        <5>1. n \in 1..n
          BY <3>2, <4>2
        <5> QED
          BY <1>0, <3>2, <5>1 DEF Bounds
      <4> QED
        BY <4>1, <4>2
    <3>5. d.version + Len(d.changes) < nextId
      BY <1>1, <3>1, <3>2, <3>3, <3>4
    <3> QED
      BY <1>2, <1>3, <2>0, <3>1, <3>5
  <2> QED
    BY <2>1, <2>2
<1>6. CASE Change(s)
  <2>1. /\ Others(s) /\ d.version = c.version /\ nextId' = nextId + 1 /\ d.made = c.made
        /\ d.changes = Append(c.changes, nextId) /\ nextId \in Ids
    BY <1>0, <1>6, ChangeFacts DEF KeepsSnap
  <2>2. Len(d.changes) = Len(c.changes) + 1
    BY <1>0, <2>1 DEF SessionTypes
  <2>3. d.version + Len(d.changes) < nextId' /\ d.made.version < nextId'
    BY <1>0, <1>1, <1>2, <2>1, <2>2
  <2> QED
    BY <1>3, <1>6, <2>1, <2>3 DEF Change
<1>7. CASE Commit(s)
  <2>1. /\ Others(s) /\ d.version = c.version /\ d.changes = c.changes
        /\ d.made = c.made \/ d.made.version = c.version + Len(c.changes)
    BY <1>0, <1>7, CommitFacts DEF KeepsObject
  <2> QED
    BY <1>2, <1>3, <1>7, <2>1 DEF Commit
<1>8. CASE AskExists(s)
  <2>1. Others(s) /\ d.version = c.version /\ d.changes = c.changes /\ d.made = c.made
    BY <1>0, <1>8, AskExistsFacts DEF KeepsObject
  <2> QED
    BY <1>2, <1>3, <1>8, <2>1 DEF AskExists
<1>9. CASE ReadVersion(s)
  <2>1. /\ Others(s) /\ d.version = c.version /\ d.changes = c.changes
        /\ d.made.version = c.version
    BY <1>0, <1>9, ReadVersionFacts DEF KeepsObject
  <2>2. c.version < nextId
    BY <1>0, <1>1, <1>2
  <2> QED
    BY <1>2, <1>3, <1>9, <2>1, <2>2 DEF ReadVersion
<1>10. CASE ReadLength(s)
  <2>1. /\ Others(s) /\ d.version = c.version /\ d.changes = c.changes /\ c.snap = "length"
        /\ d.made.version = c.made.version + Len(c.changes)
    BY <1>0, <1>10, ReadLengthFacts DEF KeepsObject
  <2>2. c.made.version <= c.version
    BY <1>0, <2>1 DEF Shape, Snap
  <2>3. d.made.version < nextId
    <3>1. ASSUME NEW a \in Nat, NEW b \in Nat, NEW l \in Nat, a <= b, b + l < nextId
          PROVE  a + l < nextId
      BY <1>0, <3>1
    <3> HIDE DEF c, d
    <3> QED
      BY <1>1, <1>2, <2>1, <2>2, <3>1
  <2> QED
    BY <1>2, <1>3, <1>10, <2>1, <2>3 DEF ReadLength
<1>11. CASE StoreSnapshot(s)
  <2>1. /\ Others(s) /\ d.version = c.version /\ d.changes = c.changes /\ d.made = c.made
        /\ snapshot' = snapshot \/ snapshot' = c.made
    BY <1>0, <1>11, StoreFacts DEF KeepsObject
  <2> QED
    BY <1>2, <1>3, <1>11, <2>1 DEF StoreSnapshot
<1>12. CASE Check(s)
  <2>1. /\ Others(s) /\ d.made = c.made
        /\ \/ d.version = c.version /\ d.changes = c.changes
           \/ d.version = c.version + Len(c.changes) /\ d.changes = <<>>
    BY <1>0, <1>12, CheckFacts DEF Failed, KeepsObject, KeepsSnap
  <2>2. d.version + Len(d.changes) < nextId
    <3>1. Len(<<>>) = 0
      OBVIOUS
    <3> QED
      BY <1>1, <1>2, <2>1, <3>1
  <2> QED
    BY <1>2, <1>3, <1>12, <2>1, <2>2 DEF Check
<1>13. CASE Insert(s)
  <2> DEFINE v == c.expected + c.saved + 1
  <2>1. /\ Others(s) /\ d.version = c.version /\ d.changes = c.changes /\ d.made = c.made
        /\ rows' = rows \/ rows' = [rows EXCEPT ![v] = c.flushed[c.saved + 1]]
    BY <1>0, <1>13, InsertFacts DEF Failed, KeepsObject, KeepsSnap
  <2>2. v < nextId /\ v \in Ids
    BY <1>13, InsertVersion
  <2> HIDE DEF v
  <2>3. \A k \in Ids : rows'[k] # 0 /\ rows'[k] # rows[k] => k < nextId
    BY <1>0, <2>1, <2>2 DEF Types
  <2> QED
    BY <1>2, <1>3, <1>13, <2>1, <2>3 DEF Insert
<1>14. CASE Return(s)
  <2>1. Others(s) /\ d = Idle
    BY <1>0, <1>14, ReturnFacts
  <2>2. d.version = 0 /\ d.changes = <<>> /\ Len(<<>>) = 0 /\ d.made.version = 0 /\ 0 < nextId
    BY <1>0, <2>1 DEF Idle, NoSnapshot, Types
  <2> QED
    BY <1>0, <1>3, <1>14, <2>1, <2>2 DEF Return
<1> QED
  BY <1>4, <1>5, <1>6, <1>7, <1>8, <1>9, <1>10, <1>11, <1>12, <1>13, <1>14 DEF Step

LEMMA InvStep ==
  ASSUME IInv, [Next]_vars
  PROVE  IInv'
<1>1. Types' /\ RowsGrow
  BY TypesStep
<1>2. CASE UNCHANGED vars
  BY <1>2 DEF IInv, ShapeInv, Bounds, Shape, Save, Snap, Loaded, Types, vars
<1>3. ASSUME NEW s \in Sessions, Step(s)
      PROVE  ShapeInv'
  <2>1. Others(s)
    BY <1>3, StepOthers
  <2>2. Shape(s)' /\ Bounds'
    BY <1>1, <1>3, OwnShape, BoundsStep
  <2>3. \A o \in Sessions : Shape(o)'
    BY <1>1, <2>1, <2>2, OtherShape DEF Others
  <2> QED
    BY <2>2, <2>3 DEF ShapeInv
<1> QED
  BY <1>1, <1>2, <1>3 DEF Next, IInv

LEMMA Invariant == Spec => []IInv
<1>1. IInv /\ [Next]_vars => IInv'
  BY InvStep
<1> QED
  BY <1>1, InitShape, PTL DEF Spec

(* No session saves more than it flushed, and no version is beyond the     *)
(* events there can be: the types of all that the steps of GetAsync,       *)
(* TryMakeSnapshot and SaveAsync leave behind.                             *)
THEOREM TypeCorrect == Spec => []TypeOK
<1>1. IInv => TypeOK
  <2> SUFFICES ASSUME IInv PROVE TypeOK
    OBVIOUS
  <2>0. Types /\ Bounds /\ MaxIds \in Nat /\ MaxFaults \in Nat
    BY BoundsAssumption DEF IInv, ShapeInv
  <2>1. nextId \in Nat /\ \A n \in Nat : n < nextId => n \in 0..MaxIds
    BY <2>0 DEF Types
  <2>2. snapshot.version \in 0..MaxIds /\ snapshot.state \in Seq(Ids)
    BY <2>0, <2>1 DEF Types, Snapshots, Bounds
  <2>3. ASSUME NEW s \in Sessions
        PROVE  LET c == session[s] IN
               /\ c.version \in 0..MaxIds /\ c.expected \in 0..MaxIds
               /\ c.saved \in 0..Len(c.flushed) /\ c \in SessionTypes
    <3> DEFINE c == session[s]
    <3>1. c \in SessionTypes /\ Shape(s) /\ c.version + Len(c.changes) < nextId
      BY <2>0 DEF Types, IInv, ShapeInv, Bounds
    <3>2. /\ c.version \in Nat /\ c.expected \in Nat /\ Len(c.changes) \in Nat
          /\ Len(c.flushed) \in Nat /\ c.saved \in Nat /\ c.saved <= Len(c.flushed)
          /\ c.expected = 0 \/ c.version = c.expected + Len(c.flushed)
      BY <3>1 DEF SessionTypes, Shape
    <3> HIDE DEF c
    <3>3. c.version < nextId /\ c.expected < nextId
      BY <2>0, <2>1, <3>1, <3>2 DEF Types, c
    <3> QED
      BY <2>1, <3>1, <3>2, <3>3 DEF c
  <2> QED
    BY <2>0, <2>2, <2>3 DEF TypeOK, Types, SessionTypes
<1> QED
  BY <1>1, Invariant, PTL

-----------------------------------------------------------------------------
(* The changes of a session.                                               *)

LEMMA BatchFacts ==
  ASSUME IInv, NEW s \in Sessions
  PROVE  LET c == session[s] IN
         /\ Batch(s) \in Seq(Ids) /\ Len(Batch(s)) = Len(c.flushed) + Len(c.changes)
         /\ Len(Batch(s)) \in Nat
         /\ c.flushed = <<>> => Batch(s) = c.changes
         /\ c.changes = <<>> => Batch(s) = c.flushed
<1>1. session[s].flushed \in Seq(Ids) /\ session[s].changes \in Seq(Ids)
  BY DEF IInv, Types, SessionTypes
<1>2. ASSUME NEW f \in Seq(Ids), NEW c \in Seq(Ids)
      PROVE  /\ f \o c \in Seq(Ids) /\ Len(f \o c) = Len(f) + Len(c) /\ Len(f \o c) \in Nat
             /\ f = <<>> => f \o c = c
             /\ c = <<>> => f \o c = f
  BY <1>2
<1> QED
  BY <1>1, <1>2 DEF Batch

(* Once the commit has begun, they stay the same.                          *)
LEMMA BatchStays ==
  ASSUME IInv, IInv', NEW s \in Sessions,
         Commit(s) \/ AskExists(s) \/ ReadVersion(s) \/ ReadLength(s) \/ StoreSnapshot(s)
         \/ Check(s) \/ Insert(s)
  PROVE  /\ Others(s) /\ Batch(s)' = Batch(s)
         /\ session'[s].expected = session[s].expected /\ session'[s].state = session[s].state
<1>0. Types /\ Shape(s) /\ Len(session[s].changes) <= MaxBatch
  BY DEF IInv, ShapeInv, Shape
<1>1. CASE Check(s) /\ ~Failed(s)
  <2>1. session[s].flushed = <<>> /\ Batch(s) = session[s].changes
    BY <1>0, <1>1, BatchFacts DEF Check, Shape, Save
  <2>2. /\ session'[s].changes = <<>> /\ session'[s].flushed = session[s].changes
        /\ session'[s].expected = session[s].expected /\ session'[s].state = session[s].state
        /\ Others(s)
    BY <1>0, <1>1, CheckFacts
  <2>3. session[s].changes \in Seq(Ids)
    BY <1>0 DEF Types, SessionTypes
  <2>4. \A q \in Seq(Ids) : q \o <<>> = q
    OBVIOUS
  <2> QED
    BY <2>1, <2>2, <2>3, <2>4 DEF Batch
<1>2. CASE Failed(s) /\ (Check(s) \/ Insert(s))
  BY <1>0, <1>2, CheckFacts, InsertFacts DEF Failed, KeepsObject, Batch
<1>3. CASE Insert(s) /\ ~Failed(s)
  BY <1>0, <1>3, InsertFacts DEF Batch
<1>4. CASE Commit(s) \/ AskExists(s) \/ ReadVersion(s) \/ ReadLength(s) \/ StoreSnapshot(s)
  <2>1. KeepsObject(s) /\ Others(s)
    BY <1>0, <1>4, CommitFacts, AskExistsFacts, ReadVersionFacts, ReadLengthFacts, StoreFacts
  <2> QED
    BY <2>1 DEF KeepsObject, Batch
<1> QED
  BY <1>1, <1>2, <1>3, <1>4

-----------------------------------------------------------------------------
(* A snapshot that is due is made.                                         *)

Looked(s) ==
    Save(s) \in {"check", "insert", "saved"} =>
        /\ Snap(s) = "none" => NoneDue(s, Len(Batch(s)))
        /\ Snap(s) = "exists" => NoneDue(s, session[s].j + 1)

LEMMA DueStep ==
  ASSUME IInv, IInv', DueInv, [Next]_vars
  PROVE  DueInv'
<1> SUFFICES ASSUME Never({"emptied"})' PROVE \A o \in Sessions : Looked(o)'
  BY DEF DueInv, Looked
<1>0. Never({"emptied"})
  BY HappenedGrows DEF Never
<1>1. \A o \in Sessions : Looked(o)
  BY <1>0 DEF DueInv, Looked
<1>2. ASSUME NEW o \in Sessions, session'[o] = session[o] PROVE Looked(o)'
  BY <1>1, <1>2 DEF Looked, Save, Snap, NoneDue, Batch
<1>3. CASE UNCHANGED vars
  BY <1>2, <1>3 DEF vars
<1>4. ASSUME NEW s \in Sessions, Step(s) PROVE \A o \in Sessions : Looked(o)'
  <2> DEFINE c == session[s]
             d == session'[s]
  <2>0. Types /\ Shape(s) /\ Len(c.changes) <= MaxBatch
    BY DEF IInv, ShapeInv, Shape
  <2>1. CASE Restore(s) \/ Replay(s) \/ Change(s) \/ Return(s)
    <3>1. Others(s) /\ d.save \in {"idle", "replay", "open"}
      <4>1. Idle.save = "idle"
        BY DEF Idle
      <4>2. CASE Replay(s)
        BY <2>0, <4>1, <4>2, ReplayFacts
      <4>3. CASE ~Replay(s)
        BY <2>0, <2>1, <4>1, <4>3, RestoreFacts, ChangeFacts, ReturnFacts
      <4> QED
        BY <4>2, <4>3
    <3> QED
      BY <1>2, <3>1 DEF Others, Looked, Save
  <2>2. CASE Commit(s)
    <3>1. Others(s) /\ Batch(s)' = Batch(s) /\ d.expected = c.expected
      BY <2>2, BatchStays
    <3>2. Len(Batch(s)) = Len(c.changes)
      BY <2>0, <2>2, BatchFacts DEF Commit, Shape, Save
    <3>3. /\ d.snap \in {"store", "none", "exists"}
          /\ d.snap = "none" => \A k \in 1..Len(c.changes) : ~IsDue(c.expected + k)
          /\ d.snap = "exists" => \A k \in 1..(d.j + 1) : ~IsDue(c.expected + k)
      BY <2>0, <2>2, CommitFacts
    <3>4. Looked(s)'
      BY <3>1, <3>2, <3>3 DEF Looked, Snap, NoneDue
    <3> QED
      BY <1>2, <3>1, <3>4 DEF Others
  <2>3. CASE AskExists(s)
    <3>1. Others(s) /\ Batch(s)' = Batch(s) /\ d.expected = c.expected
      BY <2>3, BatchStays
    <3>2. /\ c.flushed = <<>> /\ c.snap = "exists" /\ d.save = c.save
          /\ d.snap = "none" =>
               \A k \in (c.j + 2)..Len(c.changes) : ~IsDue(c.expected + k)
          /\ d.snap = "exists" => \A k \in (c.j + 2)..(d.j + 1) : ~IsDue(c.expected + k)
      BY <2>0, <2>3, AskExistsFacts DEF Never
    <3>3. Len(Batch(s)) = Len(c.changes)
      BY <3>2, BatchFacts
    <3>4. ASSUME Save(s)' \in {"check", "insert", "saved"}
          PROVE  \A k \in 1..(c.j + 1) : ~IsDue(c.expected + k)
      BY <1>1, <3>2, <3>4 DEF Looked, Save, Snap, NoneDue
    <3>5. c.j \in Nat /\ d.j \in Nat /\ Len(c.changes) \in Nat
      <4>1. c \in SessionTypes /\ d \in SessionTypes
        BY DEF IInv, Types
      <4> QED
        BY <4>1, FieldTypes
    <3>6. \A n \in Nat : \A k \in 1..n : k \in 1..(c.j + 1) \/ k \in (c.j + 2)..n
      <4> HIDE DEF c
      <4> QED
        BY <3>5
    <3>7. Looked(s)'
      <4> SUFFICES ASSUME Save(s)' \in {"check", "insert", "saved"}
                   PROVE  /\ d.snap = "none" => NoneDue(s, Len(Batch(s)))'
                          /\ d.snap = "exists" => NoneDue(s, session[s].j + 1)'
        BY DEF Looked, Snap
      <4>1. d.snap = "none" => \A k \in 1..Len(c.changes) : ~IsDue(c.expected + k)
        BY <3>2, <3>4, <3>5, <3>6
      <4>2. d.snap = "exists" => \A k \in 1..(d.j + 1) : ~IsDue(c.expected + k)
        <5>1. d.j + 1 \in Nat
          BY <3>5
        <5> QED
          BY <3>2, <3>4, <3>6, <5>1
      <4> QED
        BY <3>1, <3>3, <4>1, <4>2 DEF NoneDue
    <3> QED
      BY <1>2, <3>1, <3>7 DEF Others
  <2>4. CASE ReadVersion(s) \/ ReadLength(s) \/ StoreSnapshot(s)
    <3>1. Others(s) /\ d.snap \in {"length", "store", "stored", "failed"}
      BY <2>0, <2>4, ReadVersionFacts, ReadLengthFacts, StoreFacts
    <3>2. Looked(s)'
      BY <3>1 DEF Looked, Snap
    <3> QED
      BY <1>2, <3>1, <3>2 DEF Others
  <2>5. CASE Check(s) \/ Insert(s)
    <3>1. Others(s) /\ Batch(s)' = Batch(s) /\ d.expected = c.expected
      BY <2>5, BatchStays
    <3>2. d.snap = c.snap /\ d.j = c.j /\ c.save \in {"check", "insert"}
      BY <2>0, <2>5, CheckFacts, InsertFacts DEF Failed, KeepsSnap
    <3>3. Looked(s)'
      BY <1>1, <3>1, <3>2 DEF Looked, Save, Snap, NoneDue
    <3> QED
      BY <1>2, <3>1, <3>3 DEF Others
  <2> QED
    BY <1>4, <2>1, <2>2, <2>3, <2>4, <2>5 DEF Step
<1> QED
  BY <1>3, <1>4 DEF Next

(* A commit that goes past a version a snapshot is due at stores one, or   *)
(* the store of it throws, if nobody flushes the changes while the loop of *)
(* ShouldMakeSnapShot waits for an answer.                                 *)
THEOREM DueSnapshotIsStored == Spec => []DueIsStored
<1>1. Init => DueInv
  BY DEF Init, DueInv, Idle, Save
<1>2. IInv /\ IInv' /\ DueInv /\ [Next]_vars => DueInv'
  BY DueStep
<1>3. IInv /\ DueInv => DueIsStored
  <2> SUFFICES ASSUME IInv, DueInv, NEW s \in Sessions, Never({"emptied"}), Ended(s),
                      session[s].save = "saved", session[s].snap # "failed",
                      NEW k \in DOMAIN session[s].flushed, IsDue(session[s].expected + k)
               PROVE  session[s].snap = "stored"
    BY DEF DueIsStored
  <2>1. session[s].changes = <<>> /\ session[s].flushed \in Seq(Ids)
    BY DEF IInv, ShapeInv, Shape, Save, Types, SessionTypes
  <2>2. k \in 1..Len(Batch(s))
    <3>1. Batch(s) = session[s].flushed
      BY <2>1, BatchFacts
    <3>2. DOMAIN session[s].flushed = 1..Len(session[s].flushed)
      BY <2>1
    <3> QED
      BY <3>1, <3>2
  <2>3. session[s].snap # "none"
    BY <2>2 DEF DueInv, NoneDue, Save, Snap
  <2> QED
    BY <2>3 DEF Ended
<1> QED
  BY <1>1, <1>2, <1>3, Invariant, PTL DEF Spec

-----------------------------------------------------------------------------
(* Every event has its place, and no aggregate has it twice.               *)

LEMMA InitOnce == Init => OnceInv
<1> SUFFICES ASSUME Init PROVE HomeInv /\ LengthInv
  BY DEF OnceInv
<1>1. /\ NoSnapshot.state = <<>> /\ NoSnapshot.version = 0 /\ Idle.state = <<>>
      /\ Idle.version = 0 /\ Idle.changes = <<>> /\ Idle.snap = "none" /\ Idle.save = "idle"
      /\ Len(<<>>) = 0 /\ DOMAIN <<>> = {}
  BY DEF NoSnapshot, Idle
<1>2. \A i \in Ids, k \in Nat : ~Holds(k, i)
  BY <1>1 DEF Init, Holds, Ids
<1> QED
  BY <1>1, <1>2 DEF Init, HomeInv, LengthInv, Save, Snap, Loaded

(* It is enough to look at what a step writes; a new event gets one place. *)
LEMMA HomeStep ==
  ASSUME IInv, IInv', HomeInv, NEW s \in Sessions, Others(s), NEW p \in Nat,
         nextId' \in {nextId, nextId + 1},
         \A k \in Ids : rows'[k] = rows[k] \/ Holds(k, rows'[k]),
         \A k \in DOMAIN snapshot'.state : Holds(k, snapshot'.state[k]),
         \A k \in DOMAIN session'[s].state :
            \/ Holds(k, session'[s].state[k])
            \/ k = p /\ session'[s].state[k] = nextId /\ nextId' = nextId + 1
  PROVE  HomeInv'
<1>1. ASSUME NEW k \in Nat, NEW i \in Ids, Holds(k, i)'
      PROVE  Holds(k, i) \/ (k = p /\ i = nextId /\ nextId' = nextId + 1)
  <2>1. CASE k \in Ids /\ rows'[k] = i
    BY <2>1 DEF Holds
  <2>2. CASE k \in DOMAIN snapshot'.state /\ snapshot'.state[k] = i
    BY <2>2
  <2>3. CASE \E o \in Sessions : k \in DOMAIN session'[o].state /\ session'[o].state[k] = i
    <3>1. PICK o \in Sessions : k \in DOMAIN session'[o].state /\ session'[o].state[k] = i
      BY <2>3
    <3>2. CASE o = s
      BY <3>1, <3>2
    <3>3. CASE o # s
      BY <3>1, <3>3 DEF Others, Holds
    <3> QED
      BY <3>2, <3>3
  <2> QED
    BY <1>1, <2>1, <2>2, <2>3 DEF Holds
<1>2. nextId \in Nat /\ Ids \subseteq Nat
  BY DEF IInv, Types, Ids
<1>3. ASSUME NEW i \in Ids, NEW k \in Nat, NEW l \in Nat, Holds(k, i)', Holds(l, i)'
      PROVE  k = l /\ i < nextId'
  <2>1. /\ Holds(k, i) \/ (k = p /\ i = nextId /\ nextId' = nextId + 1)
        /\ Holds(l, i) \/ (l = p /\ i = nextId /\ nextId' = nextId + 1)
    BY <1>1, <1>3
  <2>2. (Holds(k, i) => i < nextId) /\ (Holds(l, i) => i < nextId)
        /\ (Holds(k, i) /\ Holds(l, i) => k = l)
    BY DEF HomeInv
  <2>3. ~(nextId < nextId) /\ i \in Nat
    BY <1>2
  <2>4. k = l
    BY <2>1, <2>2, <2>3
  <2>5. i < nextId'
    BY <1>2, <2>1, <2>2, <2>3
  <2> QED
    BY <2>4, <2>5
<1> QED
  BY <1>3 DEF HomeInv

(* What a session holds has its place; and so has what it is to store.     *)
LEMMA StateHolds ==
  ASSUME IInv, NEW s \in Sessions, NEW k \in DOMAIN session[s].state
  PROVE  Holds(k, session[s].state[k])
BY DEF Holds

LEMMA SnapshotHolds ==
  ASSUME NEW k \in DOMAIN snapshot.state
  PROVE  Holds(k, snapshot.state[k])
BY DEF Holds

Measured(s) ==
    LET c == session[s] IN
    /\ Len(c.state) = c.version + Len(c.changes)
    /\ Snap(s) = "store" => Len(c.state) = c.made.version
    /\ Loaded(s) => \A k \in 1..Len(Batch(s)) : c.state[c.expected + k] = Batch(s)[k]

LEMMA LengthIsMeasured ==
  LengthInv <=> Len(snapshot.state) = snapshot.version /\ \A s \in Sessions : Measured(s)
BY DEF LengthInv, Measured

(* The changes are the last events that were applied.                      *)
LEMMA BatchIsLast ==
  ASSUME IInv, LengthInv, NEW s \in Sessions, Loaded(s), NEW k \in 1..Len(Batch(s))
  PROVE  LET c == session[s] IN
         /\ c.expected + k \in DOMAIN c.state /\ c.state[c.expected + k] = Batch(s)[k]
<1> DEFINE c == session[s]
<1>1. c \in SessionTypes /\ Shape(s) /\ Measured(s)
  BY LengthIsMeasured DEF IInv, Types, ShapeInv
<1>2. /\ Len(Batch(s)) = Len(c.flushed) + Len(c.changes)
      /\ c.version = c.expected + Len(c.flushed)
      /\ Len(c.state) = c.version + Len(c.changes)
  BY <1>1, BatchFacts DEF Shape, Measured
<1>3. /\ Len(c.flushed) \in Nat /\ Len(c.changes) \in Nat /\ c.expected \in Nat
      /\ DOMAIN c.state = 1..Len(c.state)
  BY <1>1, FieldTypes
<1>4. c.expected + k \in 1..Len(c.state)
  <2>1. ASSUME NEW e \in Nat, NEW f \in Nat, NEW l \in Nat, NEW i \in 1..(f + l)
        PROVE  e + i \in 1..(e + f + l)
    BY <2>1
  <2>2. k \in 1..(Len(c.flushed) + Len(c.changes))
        /\ Len(c.state) = c.expected + Len(c.flushed) + Len(c.changes)
    BY <1>2
  <2> HIDE DEF c
  <2> QED
    BY <1>3, <2>1, <2>2
<1> QED
  BY <1>1, <1>3, <1>4 DEF Measured

(* What is read after a snapshot, or from the start, is put in its place.  *)
LEMMA ReplayPlaces ==
  ASSUME IInv, LengthInv, NEW s \in Sessions, Replay(s), session'[s] # Idle
  PROVE  LET c == session[s]
             d == session'[s]
         IN /\ Len(d.state) = d.version
            /\ \A k \in 1..Len(c.state) : d.state[k] = c.state[k]
            /\ \A k \in 1..d.version : k \notin 1..Len(c.state) =>
                 k \in Ids /\ rows[k] # 0 /\ d.state[k] = rows[k]
            /\ Len(c.state) = c.version /\ c.version <= d.version
<1> DEFINE c == session[s]
           d == session'[s]
           E == EventsAfter(c.version)
<1>1. Types /\ Shape(s) /\ Measured(s) /\ c \in SessionTypes
  BY LengthIsMeasured DEF IInv, Types, ShapeInv
<1>2. /\ c.save = "replay" /\ Contiguous(VersionsAfter(c.version), c.version)
      /\ d.version = c.version + Len(E) /\ d.state = c.state \o E
  BY <1>1, ReplayFacts
<1>3. c.version \in Nat /\ c.state \in Seq(Ids) /\ Len(c.state) \in Nat
  BY <1>1 DEF SessionTypes
<1>4. E \in Seq(Ids) /\ \A i \in 1..Len(E) :
        c.version + i \in Ids /\ rows[c.version + i] # 0 /\ E[i] = rows[c.version + i]
  BY <1>1, <1>2, <1>3, EventsFacts
<1>5. Len(c.state) = c.version
  <2>1. c.changes = <<>> /\ Len(<<>>) = 0
    BY <1>1, <1>2 DEF Shape, Save, Loaded
  <2> QED
    BY <1>1, <1>3, <2>1 DEF Measured
<1> HIDE DEF E, c, d
<1>6. Len(E) \in Nat
  BY <1>4
<1>7. /\ Len(d.state) = Len(c.state) + Len(E)
      /\ \A k \in 1..(Len(c.state) + Len(E)) :
           d.state[k] = IF k <= Len(c.state) THEN c.state[k] ELSE E[k - Len(c.state)]
  BY <1>2, <1>3, <1>4
<1>8. \A k \in 1..Len(c.state) : d.state[k] = c.state[k]
  BY <1>3, <1>6, <1>7
<1>9. ASSUME NEW k \in 1..d.version, k \notin 1..Len(c.state)
      PROVE  k \in Ids /\ rows[k] # 0 /\ d.state[k] = rows[k]
  <2>1. /\ k - c.version \in 1..Len(E) /\ c.version + (k - c.version) = k
        /\ k \in 1..(Len(c.state) + Len(E)) /\ ~(k <= Len(c.state))
    BY <1>2, <1>3, <1>5, <1>6, <1>9
  <2>2. d.state[k] = E[k - c.version]
    BY <1>5, <1>7, <2>1
  <2> QED
    BY <1>4, <2>1, <2>2
<1>10. Len(d.state) = d.version /\ c.version <= d.version
  BY <1>2, <1>3, <1>5, <1>6, <1>7
<1> QED
  BY <1>5, <1>8, <1>9, <1>10 DEF c, d

LEMMA HomeStays ==
  ASSUME IInv, IInv', HomeInv, LengthInv, NEW s \in Sessions, Step(s)
  PROVE  HomeInv'
<1> DEFINE c == session[s]
           d == session'[s]
<1>0. /\ Types /\ Types' /\ Shape(s) /\ Len(c.changes) <= MaxBatch /\ c \in SessionTypes
      /\ d \in SessionTypes /\ nextId \in Nat /\ c.state \in Seq(Ids) /\ d.state \in Seq(Ids)
      /\ 0 \in Nat /\ snapshot.state \in Seq(Ids)
  <2>1. /\ Types /\ Types' /\ Shape(s) /\ Len(c.changes) <= MaxBatch /\ c \in SessionTypes
        /\ d \in SessionTypes /\ nextId \in Nat /\ snapshot \in Snapshots
    BY DEF IInv, ShapeInv, Shape, Types
  <2>2. (\A r \in SessionTypes : r.state \in Seq(Ids)) /\ \A r \in Snapshots : r.state \in Seq(Ids)
    BY DEF SessionTypes, Snapshots
  <2> QED
    BY <2>1, <2>2
<1>1. DOMAIN c.state = 1..Len(c.state) /\ DOMAIN d.state = 1..Len(d.state)
  BY <1>0
<1>2. CASE Restore(s)
  <2>1. Others(s) /\ d.state = snapshot.state /\ rows' = rows /\ snapshot' = snapshot
        /\ nextId' = nextId
    BY <1>0, <1>2, RestoreFacts DEF Restore
  <2> QED
    BY <1>0, <2>1, HomeStep, SnapshotHolds
<1>3. CASE Replay(s)
  <2>1. Others(s) /\ rows' = rows /\ snapshot' = snapshot /\ nextId' = nextId
    BY <1>0, <1>3, ReplayFacts DEF Replay
  <2>2. \A k \in DOMAIN d.state : Holds(k, d.state[k])
    <3>1. CASE d = Idle
      BY <3>1 DEF Idle
    <3>2. CASE d # Idle
      <4> TAKE k \in DOMAIN d.state
      <4>1. CASE k \in 1..Len(c.state)
        BY <1>1, <1>3, <3>2, <4>1, ReplayPlaces, StateHolds
      <4>2. CASE k \notin 1..Len(c.state)
        <5>1. k \in 1..d.version
          BY <1>1, <1>3, <3>2, ReplayPlaces
        <5>2. k \in Ids /\ d.state[k] = rows[k]
          BY <1>3, <3>2, <4>2, <5>1, ReplayPlaces
        <5> QED
          BY <5>2 DEF Holds
      <4> QED
        BY <4>1, <4>2
    <3> QED
      BY <3>1, <3>2
  <2> QED
    BY <1>0, <2>1, <2>2, HomeStep, SnapshotHolds
<1>4. CASE Change(s)
  <2> DEFINE p == Len(c.state) + 1
  <2>1. Others(s) /\ rows' = rows /\ snapshot' = snapshot /\ nextId' = nextId + 1
        /\ d.state = Append(c.state, nextId) /\ nextId \in Ids
    BY <1>0, <1>4, ChangeFacts DEF Change
  <2>2. p \in Nat /\ DOMAIN d.state = 1..p /\ d.state[p] = nextId
        /\ \A k \in 1..Len(c.state) : d.state[k] = c.state[k]
    BY <1>0, <2>1
  <2>3. \A k \in 1..p : k \in DOMAIN c.state \/ k = p
    BY <1>0, <1>1
  <2> HIDE DEF p
  <2>4. \A k \in DOMAIN d.state :
           \/ Holds(k, d.state[k])
           \/ k = p /\ d.state[k] = nextId /\ nextId' = nextId + 1
    BY <1>1, <2>1, <2>2, <2>3, StateHolds
  <2> QED
    BY <2>1, <2>2, <2>4, HomeStep, SnapshotHolds
<1>5. CASE Commit(s) \/ AskExists(s) \/ ReadVersion(s) \/ ReadLength(s) \/ Check(s)
  <2>1. rows' = rows /\ snapshot' = snapshot /\ nextId' = nextId
    BY <1>5 DEF Commit, AskExists, ReadVersion, ReadLength, Check
  <2>2. Others(s) /\ d.state = c.state
    BY <1>5, BatchStays
  <2> QED
    BY <1>0, <2>1, <2>2, HomeStep, SnapshotHolds, StateHolds
<1>6. CASE StoreSnapshot(s)
  <2>1. rows' = rows /\ nextId' = nextId /\ Others(s) /\ d.state = c.state
        /\ (snapshot' = snapshot \/ snapshot' = c.made) /\ c.snap = "store"
    BY <1>0, <1>6, BatchStays, StoreFacts DEF StoreSnapshot
  <2>2. c.made.state = c.state
    BY <1>0, <2>1 DEF Shape, Snap
  <2>3. \A k \in DOMAIN snapshot'.state : Holds(k, snapshot'.state[k])
    BY <2>1, <2>2, SnapshotHolds, StateHolds
  <2> QED
    BY <1>0, <2>1, <2>3, HomeStep, StateHolds
<1>7. CASE Insert(s)
  <2> DEFINE v == c.expected + c.saved + 1
  <2>1. snapshot' = snapshot /\ nextId' = nextId /\ Others(s) /\ d.state = c.state
    BY <1>7, BatchStays DEF Insert
  <2>2. rows' = rows \/ rows' = [rows EXCEPT ![v] = c.flushed[c.saved + 1]]
    BY <1>0, <1>7, InsertFacts
  <2>3. v \in Ids /\ v = c.expected + (c.saved + 1) /\ c.saved + 1 \in 1..Len(c.flushed)
    BY <1>7, InsertVersion
  <2>4. c.changes = <<>> /\ Loaded(s)
    BY <1>0, <1>7 DEF Insert, Shape, Save, Loaded
  <2>5. Batch(s) = c.flushed
    BY <2>4, BatchFacts
  <2>6. v \in DOMAIN c.state /\ c.state[v] = c.flushed[c.saved + 1]
    BY <2>3, <2>4, <2>5, BatchIsLast
  <2>7. Holds(v, c.flushed[c.saved + 1])
    BY <2>6, StateHolds
  <2> HIDE DEF v
  <2>8. \A k \in Ids : rows'[k] = rows[k] \/ Holds(k, rows'[k])
    BY <1>0, <2>2, <2>3, <2>7 DEF Types
  <2> QED
    BY <1>0, <2>1, <2>8, HomeStep, SnapshotHolds, StateHolds
<1>8. CASE Return(s)
  <2>1. rows' = rows /\ snapshot' = snapshot /\ nextId' = nextId /\ Others(s) /\ d.state = <<>>
    BY <1>0, <1>8, ReturnFacts DEF Return, Idle
  <2> QED
    BY <1>0, <2>1, HomeStep, SnapshotHolds
<1> QED
  BY <1>2, <1>3, <1>4, <1>5, <1>6, <1>7, <1>8 DEF Step

LEMMA MeasureStays ==
  ASSUME IInv, IInv', LengthInv, Never({"torn"})', NEW s \in Sessions, Step(s)
  PROVE  Measured(s)'
<1> DEFINE c == session[s]
           d == session'[s]
<1>0. /\ Types /\ Shape(s) /\ Shape(s)' /\ Measured(s) /\ Len(c.changes) <= MaxBatch
      /\ c \in SessionTypes /\ d \in SessionTypes
  BY LengthIsMeasured DEF IInv, ShapeInv, Shape, Types
<1>1. /\ c.version \in Nat /\ c.expected \in Nat /\ c.state \in Seq(Ids)
      /\ c.changes \in Seq(Ids) /\ c.flushed \in Seq(Ids) /\ Len(c.changes) \in Nat
      /\ d.version \in Nat /\ Len(<<>>) = 0
  <2>1. \A r \in SessionTypes : /\ r.version \in Nat /\ r.expected \in Nat
                                /\ r.state \in Seq(Ids) /\ r.changes \in Seq(Ids)
                                /\ r.flushed \in Seq(Ids)
    BY DEF SessionTypes
  <2> QED
    BY <1>0, <2>1
<1>2. CASE Restore(s)
  <2>1. /\ c.save = "idle" /\ d.save = "replay" /\ d.snap = c.snap
        /\ d.version = snapshot.version /\ d.state = snapshot.state /\ d.changes = c.changes
    BY <1>0, <1>2, RestoreFacts DEF KeepsSnap
  <2>2. c.changes = <<>> /\ c.snap = "none"
    BY <1>0, <2>1 DEF Shape, Save, Loaded
  <2>3. Len(d.state) = d.version + Len(d.changes)
    BY <1>1, <2>1, <2>2 DEF LengthInv
  <2> QED
    BY <2>1, <2>2, <2>3 DEF Measured, Snap, Save, Loaded
<1>3. CASE Replay(s)
  <2>1. CASE d = Idle
    BY <1>1, <2>1 DEF Measured, Idle, Snap, Save, Loaded
  <2>2. CASE d # Idle
    <3>1. /\ c.save = "replay" /\ d.save = "open" /\ d.snap = c.snap
          /\ d.changes = c.changes /\ d.flushed = c.flushed
      BY <1>0, <1>3, <2>2, ReplayFacts DEF KeepsSnap
    <3>2. d.changes = <<>> /\ d.flushed = <<>> /\ d.snap = "none"
      BY <1>0, <3>1 DEF Shape, Save, Loaded
    <3>3. Len(Batch(s)') = 0
      BY <3>2 DEF Batch
    <3>4. Len(d.state) = d.version + Len(d.changes)
      BY <1>1, <1>3, <2>2, <3>2, ReplayPlaces
    <3> QED
      BY <3>2, <3>3, <3>4 DEF Measured, Snap
  <2> QED
    BY <2>1, <2>2
<1>4. CASE Change(s)
  <2>1. /\ c.save = "open" /\ d.save = "open" /\ d.snap = c.snap /\ nextId \in Ids
        /\ d.state = Append(c.state, nextId) /\ d.changes = Append(c.changes, nextId)
        /\ d.version = c.version /\ d.expected = c.expected /\ d.flushed = c.flushed
    BY <1>0, <1>4, ChangeFacts DEF KeepsSnap
  <2>2. /\ c.snap = "none" /\ c.flushed = <<>> /\ c.version = c.expected + 0
    BY <1>0, <1>1, <2>1 DEF Shape, Save, Loaded
  <2>3. Batch(s) = c.changes /\ Batch(s)' = d.changes
    BY <2>1, <2>2, BatchFacts, <1>1 DEF Batch
  <2>4. /\ Len(d.changes) = Len(c.changes) + 1 /\ d.changes[Len(c.changes) + 1] = nextId
        /\ \A k \in 1..Len(c.changes) : d.changes[k] = c.changes[k]
        /\ Len(d.state) = Len(c.state) + 1 /\ d.state[Len(c.state) + 1] = nextId
        /\ \A k \in 1..Len(c.state) : d.state[k] = c.state[k]
        /\ DOMAIN c.state = 1..Len(c.state)
    BY <1>1, <2>1
  <2>5. Len(c.state) = c.expected + Len(c.changes)
    BY <1>0, <1>1, <2>2 DEF Measured
  <2>6. ASSUME NEW k \in 1..Len(d.changes) PROVE d.state[d.expected + k] = d.changes[k]
    <3>1. CASE k = Len(c.changes) + 1
      <4>1. d.expected + k = Len(c.state) + 1
        <5>1. \A e, l \in Nat : e + (l + 1) = (e + l) + 1
          OBVIOUS
        <5>2. d.expected + k = c.expected + (Len(c.changes) + 1)
          BY <2>1, <3>1
        <5>3. c.expected + (Len(c.changes) + 1) = (c.expected + Len(c.changes)) + 1
          BY <1>1, <5>1
        <5> QED
          BY <2>5, <5>2, <5>3
      <4> QED
        BY <2>4, <3>1, <4>1
    <3>2. CASE k # Len(c.changes) + 1
      <4>1. k \in 1..Len(c.changes)
        BY <1>1, <2>4, <3>2
      <4>2. Loaded(s)
        BY <2>1 DEF Loaded, Save
      <4>3. c.expected + k \in DOMAIN c.state /\ c.state[c.expected + k] = c.changes[k]
        BY <2>3, <4>1, <4>2, BatchIsLast
      <4> QED
        BY <2>1, <2>4, <4>1, <4>3
    <3> QED
      BY <3>1, <3>2
  <2>7. Len(d.state) = d.version + Len(d.changes)
    <3>1. \A e, l \in Nat : (e + l) + 1 = e + (l + 1) /\ e + 0 = e
      OBVIOUS
    <3>2. c.version = c.expected
      BY <1>1, <2>2, <3>1
    <3> QED
      BY <1>1, <2>1, <2>4, <2>5, <3>1, <3>2
  <2> QED
    BY <2>1, <2>2, <2>3, <2>6, <2>7 DEF Measured, Snap
<1>5. CASE Commit(s) \/ AskExists(s) \/ ReadVersion(s) \/ ReadLength(s) \/ StoreSnapshot(s)
           \/ Check(s) \/ Insert(s)
  <2>1. Batch(s)' = Batch(s) /\ d.expected = c.expected /\ d.state = c.state
    BY <1>5, BatchStays
  <2>2. d.version + Len(d.changes) = c.version + Len(c.changes)
    <3>1. CASE Check(s) /\ ~Failed(s)
      BY <1>0, <1>1, <3>1, CheckFacts
    <3>2. CASE ~(Check(s) /\ ~Failed(s))
      <4>1. d.version = c.version /\ d.changes = c.changes
        BY <1>0, <1>5, <3>2, CommitFacts, AskExistsFacts, ReadVersionFacts, ReadLengthFacts,
           StoreFacts, CheckFacts, InsertFacts DEF Failed, KeepsObject
      <4> QED
        BY <4>1
    <3> QED
      BY <3>1, <3>2
  <2>3. Loaded(s)' => Loaded(s)
    <3>1. CASE Commit(s)
      BY <3>1 DEF Commit, Loaded, Save
    <3>2. CASE Check(s) \/ Insert(s)
      BY <3>2 DEF Check, Insert, Loaded, Save
    <3>3. CASE AskExists(s) \/ ReadVersion(s) \/ ReadLength(s) \/ StoreSnapshot(s)
      <4>1. d.save = c.save
        BY <1>0, <3>3, AskExistsFacts, ReadVersionFacts, ReadLengthFacts, StoreFacts
      <4> QED
        BY <4>1 DEF Loaded, Save
    <3> QED
      BY <1>5, <3>1, <3>2, <3>3
  <2>4. d.snap = "store" => d.made.version = c.version + Len(c.changes)
    <3> SUFFICES ASSUME d.snap = "store" PROVE d.made.version = c.version + Len(c.changes)
      OBVIOUS
    <3>1. CASE Commit(s)
      BY <1>0, <3>1, CommitFacts
    <3>2. CASE ReadLength(s)
      <4>1. c.version = c.made.version
        BY <1>0, <3>2, ReadLengthFacts DEF Never
      <4> QED
        BY <1>0, <3>2, <4>1, ReadLengthFacts
    <3>3. CASE AskExists(s) \/ ReadVersion(s) \/ StoreSnapshot(s)
      BY <1>0, <3>3, AskExistsFacts, ReadVersionFacts, StoreFacts
    <3>4. CASE Check(s) \/ Insert(s)
      <4>1. d.snap = c.snap /\ d.made = c.made
        BY <1>0, <3>4, CheckFacts, InsertFacts DEF Failed, KeepsSnap
      <4> QED
        BY <1>0, <4>1 DEF Measured, Snap
    <3> QED
      BY <1>5, <3>1, <3>2, <3>3, <3>4
  <2> QED
    BY <1>0, <2>1, <2>2, <2>3, <2>4 DEF Measured, Snap
<1>6. CASE Return(s)
  <2>1. d = Idle
    BY <1>0, <1>6, ReturnFacts
  <2> QED
    BY <1>1, <2>1 DEF Measured, Idle, Snap, Save, Loaded
<1> QED
  BY <1>2, <1>3, <1>4, <1>5, <1>6 DEF Step

LEMMA OnceStep ==
  ASSUME IInv, IInv', OnceInv, [Next]_vars
  PROVE  OnceInv'
<1> SUFFICES ASSUME Never({"torn"})' PROVE HomeInv' /\ LengthInv'
  BY DEF OnceInv
<1>0. HomeInv /\ LengthInv
  BY HappenedGrows DEF Never, OnceInv
<1>1. CASE UNCHANGED vars
  <2>1. \A k, i : Holds(k, i)' <=> Holds(k, i)
    BY <1>1 DEF vars, Holds
  <2>2. HomeInv'
    BY <1>0, <1>1, <2>1 DEF vars, HomeInv
  <2>3. LengthInv'
    BY <1>0, <1>1 DEF vars, LengthInv, Save, Snap, Loaded, Batch
  <2> QED
    BY <2>2, <2>3
<1>2. ASSUME NEW s \in Sessions, Step(s) PROVE HomeInv' /\ LengthInv'
  <2>1. HomeInv' /\ Measured(s)' /\ Others(s)
    BY <1>0, <1>2, HomeStays, MeasureStays, StepOthers
  <2>2. ASSUME NEW o \in Sessions, o # s PROVE Measured(o)'
    <3>1. Measured(o) /\ session'[o] = session[o]
      BY <1>0, <2>1, <2>2, LengthIsMeasured DEF Others
    <3> QED
      BY <3>1 DEF Measured, Snap, Loaded, Save, Batch
  <2>3. Len(snapshot'.state) = snapshot'.version
    <3>1. snapshot' = snapshot \/ StoreSnapshot(s)
      BY <1>2 DEF Step, Restore, Replay, Change, Commit, AskExists, ReadVersion, ReadLength,
         Check, Insert, Return
    <3>2. CASE StoreSnapshot(s)
      <4>1. Types /\ Shape(s) /\ Measured(s)
        BY <1>0, LengthIsMeasured DEF IInv, ShapeInv
      <4>2. Snap(s) = "store" /\ (snapshot' = snapshot \/ snapshot' = session[s].made)
        BY <3>2, <4>1, StoreFacts DEF Snap
      <4> QED
        BY <1>0, <4>1, <4>2 DEF Shape, Measured, LengthInv
    <3> QED
      BY <1>0, <3>1, <3>2 DEF LengthInv
  <2>4. \A o \in Sessions : Measured(o)'
    BY <2>1, <2>2
  <2>5. LengthInv'
    BY <2>3, <2>4 DEF LengthInv, Measured
  <2> QED
    BY <2>1, <2>5
<1> QED
  BY <1>1, <1>2 DEF Next

LEMMA OnceInvariant == Spec => []OnceInv
<1>1. IInv /\ IInv' /\ OnceInv /\ [Next]_vars => OnceInv'
  BY OnceStep
<1> QED
  BY <1>1, InitOnce, Invariant, PTL DEF Spec

(* No event is applied twice to an aggregate, from a snapshot and from the *)
(* events after it, as long as no snapshot was torn: the version that      *)
(* TryMakeSnapshot gives a snapshot is that of its last event.             *)
THEOREM NoEventAppliedTwice == Spec => []AppliedOnce
<1>1. IInv /\ OnceInv => AppliedOnce
  <2> SUFFICES ASSUME IInv, HomeInv, NEW s \in Sessions
               PROVE  IsInjective(session[s].state)
    BY DEF OnceInv, AppliedOnce
  <2>1. session[s].state \in Seq(Ids)
    BY DEF IInv, Types, SessionTypes
  <2>2. ASSUME NEW k \in DOMAIN session[s].state, NEW l \in DOMAIN session[s].state,
               session[s].state[k] = session[s].state[l]
        PROVE  k = l
    <3>1. session[s].state[k] \in Ids /\ k \in Nat /\ l \in Nat
      BY <2>1
    <3> QED
      BY <2>2, <3>1, StateHolds DEF HomeInv
  <2> QED
    BY <2>2 DEF IsInjective
<1> QED
  BY <1>1, Invariant, OnceInvariant, PTL

-----------------------------------------------------------------------------
(* All below a version in use is stored or going to be.                    *)

LEMMA ComingFacts ==
  ASSUME IInv, NEW s \in Sessions, NEW k \in Nat, NEW i \in Ids
  PROVE  Coming(s, k, i) <=>
           /\ Save(s) \in {"check", "insert"}
           /\ k \in (session[s].expected + session[s].saved + 1)
                      ..(session[s].expected + Len(Batch(s)))
           /\ Batch(s)[k - session[s].expected] = i
BY DEF Coming, Saving, Save, Batch

(* A promise is kept, as long as no save fails that may have a snapshot.   *)
LEMMA PromiseKept ==
  ASSUME IInv, IInv', RowsGrow, Never({"unsaved"})', NEW s \in Sessions, Step(s),
         NEW k \in Nat, NEW i \in Ids, Promised(k, i)
  PROVE  Promised(k, i)'
<1> DEFINE c == session[s]
           d == session'[s]
<1>0. /\ Types /\ Shape(s) /\ Len(c.changes) <= MaxBatch /\ Others(s) /\ i # 0
      /\ c \in SessionTypes
  BY StepOthers DEF IInv, ShapeInv, Shape, Types, Ids
<1>1. CASE k \in Ids /\ rows[k] = i
  BY <1>0, <1>1 DEF Promised, RowsGrow
<1>2. ASSUME NEW o \in Sessions, o # s, Kept(o), Coming(o, k, i)
      PROVE  Promised(k, i)'
  <2>1. session'[o] = session[o]
    BY <1>0, <1>2 DEF Others
  <2>2. Kept(o)' /\ Coming(o, k, i)'
    BY <1>2, <2>1 DEF Kept, Snap, Coming, Saving
  <2> QED
    BY <2>2 DEF Promised
<1>3. CASE Kept(s) /\ Coming(s, k, i)
  <2>1. /\ c.save \in {"check", "insert"} /\ c.snap \in {"store", "stored", "failed"}
        /\ k \in (c.expected + c.saved + 1)..(c.expected + Len(Batch(s)))
        /\ Batch(s)[k - c.expected] = i
    BY <1>3, ComingFacts DEF Kept, Save, Snap
  <2>2. StoreSnapshot(s) \/ Check(s) \/ Insert(s)
    BY <2>1 DEF Step, Restore, Replay, Change, Commit, AskExists, ReadVersion, ReadLength,
       Return, Ended
  <2>3. Batch(s)' = Batch(s) /\ d.expected = c.expected
    BY <2>2, BatchStays
  <2>4. ~Failed(s)
    BY <2>1 DEF Failed, Snap, Never
  <2>5. /\ c.expected \in Nat /\ c.saved \in Nat /\ c.flushed \in Seq(Ids)
        /\ c.changes \in Seq(Ids) /\ Len(c.flushed) \in Nat /\ Len(Batch(s)) \in Nat
    BY <1>0, BatchFacts DEF SessionTypes
  <2>6. ASSUME d.snap \in {"store", "stored", "failed"}, d.save \in {"check", "insert"},
               k \in (d.expected + d.saved + 1)..(d.expected + Len(Batch(s)))
        PROVE  Promised(k, i)'
    <3>1. Coming(s, k, i)'
      BY <2>1, <2>3, <2>6 DEF Coming, Saving, Batch
    <3> QED
      BY <2>6, <3>1 DEF Promised, Kept, Snap
  <2>7. CASE StoreSnapshot(s)
    <3>1. d.save = c.save /\ d.snap \in {"stored", "failed"} /\ d.saved = c.saved
      BY <1>0, <2>7, StoreFacts DEF KeepsObject
    <3> QED
      BY <2>1, <2>3, <2>6, <3>1
  <2>8. CASE Check(s)
    <3>1. /\ d.save = (IF c.changes = <<>> THEN "saved" ELSE "insert")
          /\ d.snap = c.snap /\ d.saved = c.saved
      BY <1>0, <2>4, <2>8, CheckFacts DEF KeepsSnap
    <3>2. c.changes # <<>>
      <4>1. c.flushed = <<>> /\ c.saved = 0 /\ Len(<<>>) = 0
        BY <1>0, <2>8 DEF Check, Shape, Save
      <4>2. Len(Batch(s)) = 0 + Len(c.changes)
        BY <4>1, BatchFacts
      <4>3. c.changes = <<>> => Len(Batch(s)) = 0
        BY <4>1, <4>2
      <4> QED
        BY <2>1, <2>5, <4>1, <4>3
    <3> QED
      BY <2>1, <2>3, <2>6, <3>1, <3>2
  <2>9. CASE Insert(s)
    <3> DEFINE v == c.expected + c.saved + 1
    <3>1. /\ rows' = [rows EXCEPT ![v] = c.flushed[c.saved + 1]]
          /\ d.saved = c.saved + 1 /\ d.snap = c.snap
          /\ d.save = IF c.saved + 1 = Len(c.flushed) THEN "saved" ELSE "insert"
      BY <1>0, <2>4, <2>9, InsertFacts DEF KeepsSnap
    <3>2. v \in Ids /\ v = c.expected + (c.saved + 1)
      BY <2>9, InsertVersion
    <3>3. Batch(s) = c.flushed
      BY <1>0, <2>9, BatchFacts DEF Insert, Shape, Save
    <3>4. CASE k = v
      <4>1. k - c.expected = c.saved + 1
        BY <2>5, <3>2, <3>4
      <4>2. rows'[k] = i
        BY <1>0, <2>1, <3>1, <3>2, <3>3, <3>4, <4>1 DEF Types
      <4> QED
        BY <3>2, <3>4, <4>2 DEF Promised
    <3>5. CASE k # v
      <4>1. k \in (c.expected + (c.saved + 1) + 1)..(c.expected + Len(Batch(s)))
        <5>1. ASSUME NEW e \in Nat, NEW a \in Nat, NEW n \in Nat,
                     k \in (e + a + 1)..(e + n), k # e + a + 1
              PROVE  k \in (e + (a + 1) + 1)..(e + n)
          BY <5>1
        <5> HIDE DEF c
        <5> QED
          BY <2>1, <2>5, <3>5, <5>1
      <4>2. c.saved + 1 # Len(c.flushed)
        <5>1. ASSUME NEW e \in Nat, NEW a \in Nat, NEW n \in Nat,
                     k \in (e + (a + 1) + 1)..(e + n)
              PROVE  a + 1 # n
          BY <5>1
        <5> HIDE DEF c
        <5> QED
          BY <2>5, <3>3, <4>1, <5>1
      <4> QED
        BY <2>1, <2>3, <2>6, <3>1, <4>1, <4>2
    <3> QED
      BY <3>4, <3>5
  <2> QED
    BY <2>2, <2>7, <2>8, <2>9
<1> QED
  BY <1>1, <1>2, <1>3 DEF Promised

LEMMA CoverKept ==
  ASSUME IInv, IInv', RowsGrow, Never({"unsaved"})', NEW s \in Sessions, Step(s),
         NEW k \in Nat, Covered(k)
  PROVE  Covered(k)'
<1>1. PICK i \in Ids : Promised(k, i)
  BY DEF Covered
<1>2. Promised(k, i)'
  BY <1>1, PromiseKept
<1> QED
  BY <1>2 DEF Covered

LEMMA StoredCovered ==
  ASSUME IInv, NEW k \in Ids, rows[k] # 0
  PROVE  Covered(k) /\ Promised(k, rows[k])
BY DEF IInv, Types, Covered, Promised

(* Who is about to store a snapshot still stores its changes, or has.      *)
LEMMA BatchPromised ==
  ASSUME IInv, NEW s \in Sessions, Snap(s) = "store", Save(s) # "failed",
         NEW k \in 1..Len(Batch(s))
  PROVE  LET v == session[s].expected + k IN
         Batch(s)[k] \in Ids /\ Promised(v, Batch(s)[k]) /\ v \in Nat
<1> DEFINE c == session[s]
           v == c.expected + k
<1>0. /\ Types /\ Shape(s) /\ c \in SessionTypes
  BY DEF IInv, ShapeInv, Types
<1>1. c.save \in {"check", "insert", "saved"}
  BY <1>0 DEF Shape, Save, Snap, Loaded, SessionTypes
<1>2. c.expected \in Nat /\ c.saved \in Nat /\ Len(Batch(s)) \in Nat /\ v \in Nat
      /\ Batch(s)[k] \in Ids /\ v - c.expected = k
  <2>0. Batch(s) \in Seq(Ids) /\ Len(Batch(s)) \in Nat
    BY BatchFacts
  <2>1. c.expected \in Nat /\ c.saved \in Nat /\ Len(Batch(s)) \in Nat /\ Batch(s)[k] \in Ids
    <3>1. c.expected \in Nat /\ c.saved \in Nat
      BY <1>0 DEF SessionTypes
    <3>2. Batch(s)[k] \in Ids
      BY <2>0
    <3> QED
      BY <2>0, <3>1, <3>2
  <2> HIDE DEF c
  <2> QED
    BY <2>1
<1>3. CASE k \in 1..c.saved
  <2>1. v \in Ids /\ rows[v] = c.flushed[k] /\ k \in 1..Len(c.flushed) /\ c.flushed[k] \in Ids
    <3>1. /\ Shape(s) /\ c.saved <= Len(c.flushed) /\ Len(c.flushed) \in Nat
      BY <1>0 DEF Shape, SessionTypes
    <3>2. k \in 1..Len(c.flushed) /\ rows[v] = c.flushed[k]
      BY <1>0, <1>2, <1>3, <3>1 DEF Shape
    <3>3. c.version + Len(c.changes) < nextId /\ Len(c.changes) \in Nat
          /\ c.version = c.expected + Len(c.flushed) /\ nextId \in 1..(MaxIds + 1)
          /\ MaxIds \in Nat
      <4>1. c.version + Len(c.changes) < nextId
        BY DEF IInv, ShapeInv, Bounds
      <4>2. c.version = c.expected + Len(c.flushed)
        BY <1>0, <1>1 DEF Shape, Save, Loaded
      <4>3. Len(c.changes) \in Nat
        BY <1>0 DEF SessionTypes
      <4> QED
        BY <1>0, <4>1, <4>2, <4>3, BoundsAssumption DEF Types
    <3>4. v \in 1..MaxIds
      <4>1. ASSUME NEW e \in Nat, NEW n \in Nat, NEW l \in Nat, NEW j \in 1..n,
                   e + n + l < nextId
            PROVE  e + j \in 1..MaxIds
        BY <3>3, <4>1
      <4>2. c.expected + Len(c.flushed) + Len(c.changes) < nextId
        BY <3>3
      <4> HIDE DEF c
      <4> QED
        BY <1>2, <3>1, <3>2, <3>3, <4>1, <4>2
    <3>5. c.flushed \in Seq(Ids)
      BY <1>0 DEF SessionTypes
    <3>6. c.flushed[k] \in Ids
      BY <3>2, <3>5
    <3> QED
      BY <3>2, <3>4, <3>6 DEF Ids
  <2>2. Batch(s)[k] = c.flushed[k]
    <3>1. c.flushed \in Seq(Ids) /\ c.changes \in Seq(Ids)
      BY <1>0 DEF SessionTypes
    <3>2. \A f, g \in Seq(Ids) : \A j \in 1..Len(f) : (f \o g)[j] = f[j]
      OBVIOUS
    <3> QED
      BY <2>1, <3>1, <3>2 DEF Batch
  <2> QED
    BY <1>2, <2>1, <2>2 DEF Promised
<1>4. CASE k \notin 1..c.saved
  <2>1. v \in (c.expected + c.saved + 1)..(c.expected + Len(Batch(s)))
    <3>1. ASSUME NEW e \in Nat, NEW a \in Nat, NEW n \in Nat, NEW j \in 1..n, j \notin 1..a
          PROVE  e + j \in (e + a + 1)..(e + n)
      BY <3>1
    <3> HIDE DEF c
    <3> QED
      BY <1>2, <1>4, <3>1
  <2>2. c.save # "saved"
    <3> SUFFICES ASSUME c.save = "saved" PROVE FALSE
      OBVIOUS
    <3>1. c.saved = Len(c.flushed) /\ c.changes = <<>>
      BY <1>0 DEF Shape, Save
    <3>2. Batch(s) = c.flushed
      BY <3>1, BatchFacts
    <3> QED
      BY <1>4, <3>1, <3>2
  <2>3. Coming(s, v, Batch(s)[k])
    <3>1. Save(s) \in {"check", "insert"} /\ Batch(s)[v - c.expected] = Batch(s)[k]
      BY <1>1, <1>2, <2>2 DEF Save
    <3> HIDE DEF v
    <3> QED
      BY <1>2, <2>1, <3>1, ComingFacts
  <2> QED
    BY <1>2, <2>3 DEF Promised, Kept, Snap
<1> QED
  BY <1>3, <1>4

(* The version a session has restored, or opened at; what is below it.     *)
Base(s) == IF Loaded(s) THEN session[s].expected ELSE session[s].version

CoveredAt(s) ==
    /\ \A k \in 1..Base(s) : Covered(k)
    /\ Snap(s) = "store" => session[s].made.version <= session[s].expected + Len(Batch(s))
    /\ Save(s) = "failed" => Snap(s) = "none"

LEMMA CoverParts ==
  CoverInv <=>
    /\ \A k \in 1..snapshot.version : Covered(k)
    /\ \A k, l \in Ids : rows[k] # 0 /\ l < k => Covered(l)
    /\ \A s \in Sessions : CoveredAt(s)
BY DEF CoverInv, CoveredAt, Base

(* Replay goes on from what was restored by what is stored.                *)
LEMMA ReplayReads ==
  ASSUME IInv, NEW s \in Sessions, Replay(s), session'[s] # Idle
  PROVE  \A k \in 1..session'[s].version :
            k \in 1..session[s].version \/ (k \in Ids /\ rows[k] # 0)
<1> DEFINE v == session[s].version
           n == Len(EventsAfter(v))
<1>1. Types /\ v \in Nat
  BY DEF IInv, Types, SessionTypes
<1>2. session'[s].version = v + n /\ Contiguous(VersionsAfter(v), v)
  BY <1>1, ReplayFacts
<1>3. n \in Nat /\ \A i \in 1..n : v + i \in Ids /\ rows[v + i] # 0
  BY <1>1, <1>2, EventsFacts
<1> HIDE DEF v, n
<1>4. \A k \in 1..(v + n) : k \in 1..v \/ (k - v \in 1..n /\ v + (k - v) = k)
  BY <1>1, <1>3
<1> QED
  BY <1>2, <1>3, <1>4 DEF v

(* From the commit on, the base is the same.                               *)
LEMMA BaseStays ==
  ASSUME IInv, IInv', NEW s \in Sessions, Step(s), ~Restore(s), ~Replay(s), ~Return(s)
  PROVE  Loaded(s) /\ Loaded(s)' /\ session'[s].expected = session[s].expected
<1>0. Types /\ Shape(s) /\ Len(session[s].changes) <= MaxBatch
  BY DEF IInv, ShapeInv, Shape
<1>1. CASE Change(s)
  BY <1>0, <1>1, ChangeFacts DEF Loaded, Save
<1>2. CASE Commit(s)
  BY <1>0, <1>2, CommitFacts DEF Loaded, Save, KeepsObject
<1>3. CASE Check(s)
  BY <1>0, <1>3, CheckFacts DEF Loaded, Save, Failed, KeepsObject
<1>4. CASE Insert(s)
  BY <1>0, <1>4, InsertFacts DEF Loaded, Save, Failed, KeepsObject
<1>5. CASE AskExists(s) \/ ReadVersion(s) \/ ReadLength(s) \/ StoreSnapshot(s)
  <2>1. KeepsObject(s) /\ session'[s].save = session[s].save /\ session[s].snap # "none"
    BY <1>0, <1>5, AskExistsFacts, ReadVersionFacts, ReadLengthFacts, StoreFacts
  <2>2. Loaded(s)
    BY <1>0, <2>1 DEF Shape
  <2> QED
    BY <2>1, <2>2 DEF Loaded, Save, KeepsObject
<1> QED
  BY <1>1, <1>2, <1>3, <1>4, <1>5 DEF Step

LEMMA MadeInBatch ==
  ASSUME IInv, IInv', CoverInv, Never({"unsaved"})', NEW s \in Sessions, Step(s)
  PROVE  /\ Snap(s)' = "store" =>
              session'[s].made.version <= session'[s].expected + Len(Batch(s)')
         /\ Save(s)' = "failed" => Snap(s)' = "none"
<1> DEFINE c == session[s]
           d == session'[s]
<1>0. /\ Types /\ Shape(s) /\ Shape(s)' /\ Len(c.changes) <= MaxBatch
      /\ c \in SessionTypes /\ CoveredAt(s)
  BY CoverParts DEF IInv, ShapeInv, Shape, Types
<1>1. CASE Restore(s) \/ Replay(s) \/ Change(s) \/ Return(s)
  <2>1. d.save \in {"idle", "replay", "open"}
    <3>1. Idle.save = "idle"
      BY DEF Idle
    <3>2. CASE Replay(s)
      BY <1>0, <3>1, <3>2, ReplayFacts
    <3>3. CASE ~Replay(s)
      BY <1>0, <1>1, <3>1, <3>3, RestoreFacts, ChangeFacts, ReturnFacts
    <3> QED
      BY <3>2, <3>3
  <2>2. d.snap = "none"
    BY <1>0, <2>1 DEF Shape, Save, Loaded
  <2> QED
    BY <2>1, <2>2 DEF Snap, Save
<1>2. CASE ~(Restore(s) \/ Replay(s) \/ Change(s) \/ Return(s))
  <2>0. \/ Commit(s) \/ AskExists(s) \/ ReadVersion(s) \/ ReadLength(s)
        \/ StoreSnapshot(s) \/ Check(s) \/ Insert(s)
    BY <1>2 DEF Step
  <2>1. Batch(s)' = Batch(s) /\ d.expected = c.expected
    BY <2>0, BatchStays
  <2>2. /\ c.version \in Nat /\ c.expected \in Nat /\ Len(c.flushed) \in Nat
        /\ Len(c.changes) \in Nat /\ Len(Batch(s)) = Len(c.flushed) + Len(c.changes)
        /\ Len(Batch(s)) \in Nat
    <3>1. c.version \in Nat /\ c.expected \in Nat
      BY <1>0 DEF SessionTypes
    <3>2. c.flushed \in Seq(Ids) /\ c.changes \in Seq(Ids)
      BY <1>0 DEF SessionTypes
    <3>3. \A q \in Seq(Ids) : Len(q) \in Nat
      OBVIOUS
    <3> QED
      BY <3>1, <3>2, <3>3, BatchFacts
  <2>3. c.version + Len(c.changes) = c.expected + Len(Batch(s))
    <3>1. c.version = c.expected + Len(c.flushed)
      BY <1>0, <1>2, BaseStays DEF Shape
    <3>2. \A e, f, l \in Nat : (e + f) + l = e + (f + l)
      OBVIOUS
    <3>3. /\ c.version + Len(c.changes) = (c.expected + Len(c.flushed)) + Len(c.changes)
          /\ c.expected + Len(Batch(s)) = c.expected + (Len(c.flushed) + Len(c.changes))
      BY <2>2, <3>1
    <3> HIDE DEF c
    <3>4. (c.expected + Len(c.flushed)) + Len(c.changes)
          = c.expected + (Len(c.flushed) + Len(c.changes))
      BY <2>2, <3>2
    <3> QED
      BY <3>3, <3>4
  <2>4. ASSUME d.snap = "store" PROVE d.made.version <= c.expected + Len(Batch(s))
    <3>1. CASE Commit(s)
      <4>1. d.made.version = c.expected + Len(Batch(s))
        BY <1>0, <2>3, <2>4, <3>1, CommitFacts
      <4>2. \A e, n \in Nat : e + n <= e + n
        OBVIOUS
      <4> QED
        BY <2>2, <4>1, <4>2
    <3>2. CASE ReadLength(s)
      <4>1. /\ c.made.version <= c.version
            /\ d.made.version = c.made.version + Len(c.changes)
        BY <1>0, <3>2, ReadLengthFacts DEF Shape, Snap
      <4>2. c.made.version \in Nat
        BY <1>0 DEF SessionTypes, Snapshots
      <4>3. \A a, b, l \in Nat : a <= b => a + l <= b + l
        OBVIOUS
      <4> HIDE DEF c, d
      <4> QED
        BY <2>2, <2>3, <4>1, <4>2, <4>3
    <3>3. CASE AskExists(s) \/ ReadVersion(s) \/ StoreSnapshot(s)
      BY <1>0, <2>4, <3>3, AskExistsFacts, ReadVersionFacts, StoreFacts
    <3>4. CASE Check(s) \/ Insert(s)
      <4>1. d.snap = c.snap /\ d.made = c.made
        BY <1>0, <3>4, CheckFacts, InsertFacts DEF Failed, KeepsSnap
      <4> QED
        BY <1>0, <2>4, <4>1 DEF CoveredAt, Snap
    <3> QED
      BY <2>0, <3>1, <3>2, <3>3, <3>4
  <2>5. ASSUME d.save = "failed" PROVE d.snap = "none"
    <3>1. CASE Check(s) \/ Insert(s)
      <4>1. Failed(s)
        BY <1>0, <2>5, <3>1, CheckFacts, InsertFacts
      <4> QED
        BY <4>1 DEF Failed, KeepsSnap, Never, Snap
    <3>2. CASE Commit(s)
      BY <1>0, <2>5, <3>2, CommitFacts
    <3>3. CASE AskExists(s) \/ ReadVersion(s) \/ ReadLength(s) \/ StoreSnapshot(s)
      <4>1. d.save = c.save /\ c.snap # "none"
        BY <1>0, <3>3, AskExistsFacts, ReadVersionFacts, ReadLengthFacts, StoreFacts
      <4> QED
        BY <1>0, <2>5, <4>1 DEF CoveredAt, Save, Snap
    <3> QED
      BY <2>0, <3>1, <3>2, <3>3
  <2> QED
    BY <2>1, <2>4, <2>5 DEF Snap, Save
<1> QED
  BY <1>1, <1>2

LEMMA CoverStays ==
  ASSUME IInv, IInv', RowsGrow, CoverInv, Never({"unsaved"})', NEW s \in Sessions, Step(s)
  PROVE  CoverInv'
<1> DEFINE c == session[s]
           d == session'[s]
<1>0. /\ Types /\ Types' /\ Shape(s) /\ Len(c.changes) <= MaxBatch /\ Others(s)
      /\ c \in SessionTypes /\ CoveredAt(s) /\ snapshot \in Snapshots
  BY StepOthers, CoverParts DEF IInv, ShapeInv, Shape, Types
<1>1. \A k \in Nat : Covered(k) => Covered(k)'
  BY CoverKept
<1>2. /\ c.version \in Nat /\ c.expected \in Nat /\ c.saved \in Nat
      /\ c.made.version \in Nat /\ snapshot.version \in Nat /\ Ids \subseteq Nat
      /\ Len(Batch(s)) \in Nat
  <2>1. c.made \in Snapshots
    BY <1>0 DEF SessionTypes
  <2>2. \A r \in Snapshots : r.version \in Nat
    BY DEF Snapshots
  <2>3. c.version \in Nat /\ c.expected \in Nat /\ c.saved \in Nat
    BY <1>0 DEF SessionTypes
  <2> QED
    BY <1>0, <2>1, <2>2, <2>3, BatchFacts DEF Ids
<1>3. \A k \in 1..snapshot'.version : Covered(k)'
  <2>1. CASE snapshot' = snapshot
    BY <1>1, <1>2, <2>1 DEF CoverInv
  <2>2. CASE snapshot' # snapshot
    <3>1. StoreSnapshot(s)
      BY <2>2 DEF Step, Restore, Replay, Change, Commit, AskExists, ReadVersion, ReadLength,
         Check, Insert, Return
    <3>2. c.snap = "store" /\ snapshot' = c.made
      BY <1>0, <2>2, <3>1, StoreFacts
    <3>3. Loaded(s) /\ c.save # "failed" /\ c.made.version <= c.expected + Len(Batch(s))
      BY <1>0, <3>2 DEF Shape, CoveredAt, Snap, Save
    <3>4. ASSUME NEW k \in 1..c.made.version PROVE Covered(k)
      <4>1. CASE k \in 1..c.expected
        BY <1>0, <3>3, <4>1 DEF CoveredAt, Base
      <4>2. CASE k \notin 1..c.expected
        <5>1. k - c.expected \in 1..Len(Batch(s)) /\ c.expected + (k - c.expected) = k
          <6>1. ASSUME NEW e \in Nat, NEW n \in Nat, NEW m \in Nat, m <= e + n,
                       NEW j \in 1..m, j \notin 1..e
                PROVE  j - e \in 1..n /\ e + (j - e) = j
            BY <6>1
          <6> HIDE DEF c
          <6> QED
            BY <1>2, <3>3, <4>2, <6>1
        <5> QED
          BY <3>2, <3>3, <5>1, BatchPromised DEF Covered, Snap, Save
      <4> QED
        BY <4>1, <4>2
    <3> QED
      BY <1>1, <1>2, <3>2, <3>4
  <2> QED
    BY <2>1, <2>2
<1>4. ASSUME NEW k \in Ids, NEW l \in Ids, rows'[k] # 0, l < k PROVE Covered(l)'
  <2>1. CASE rows[k] # 0
    BY <1>1, <1>2, <1>4, <2>1 DEF CoverInv
  <2>2. CASE rows[k] = 0
    <3> DEFINE v == c.expected + c.saved + 1
    <3>1. Insert(s)
      BY <1>4, <2>2 DEF Step, Restore, Replay, Change, Commit, AskExists, ReadVersion,
         ReadLength, Check, StoreSnapshot, Return
    <3>2. k = v
      BY <1>0, <1>4, <2>2, <3>1, InsertFacts, InsertVersion DEF Types
    <3>3. CASE l \in 1..c.expected
      <4>1. Loaded(s)
        BY <3>1 DEF Insert, Loaded, Save
      <4> QED
        BY <1>0, <1>1, <1>2, <3>3, <4>1 DEF CoveredAt, Base
    <3>4. CASE l \notin 1..c.expected
      <4>1. l - c.expected \in 1..c.saved /\ c.expected + (l - c.expected) = l
        <5>1. ASSUME NEW e \in Nat, NEW a \in Nat, NEW j \in Ids, j < e + a + 1, j \notin 1..e
              PROVE  j - e \in 1..a /\ e + (j - e) = j
          BY <5>1, BoundsAssumption DEF Ids
        <5> HIDE DEF c
        <5> QED
          BY <1>2, <1>4, <3>2, <3>4, <5>1
      <4>2. rows[l] \in Ids
        BY <4>1, SavedStays
      <4>3. rows[l] # 0
        BY <4>2 DEF Ids
      <4> QED
        BY <1>1, <1>2, <4>3, StoredCovered
    <3> QED
      BY <3>3, <3>4
  <2> QED
    BY <1>0, <2>1, <2>2 DEF Types
<1>5. \A k \in 1..Base(s)' : Covered(k)'
  <2>1. CASE Restore(s)
    <3>1. d.version = snapshot.version /\ d.save = "replay"
      BY <1>0, <2>1, RestoreFacts
    <3> QED
      BY <1>1, <1>2, <3>1 DEF Base, Loaded, Save, CoverInv
  <2>2. CASE Replay(s) /\ d # Idle
    <3>1. c.save = "replay" /\ d.save = "open" /\ d.expected = d.version
      BY <1>0, <2>2, ReplayFacts
    <3>2. \A k \in 1..d.version : Covered(k) /\ k \in Nat
      <4> TAKE k \in 1..d.version
      <4>1. d.version \in Nat
        BY <1>0 DEF Types, SessionTypes
      <4>2. CASE k \in 1..c.version
        BY <1>0, <3>1, <4>2 DEF CoveredAt, Base, Loaded, Save
      <4>3. CASE k \in Ids /\ rows[k] # 0
        BY <1>2, <4>3, StoredCovered
      <4> QED
        BY <2>2, <4>1, <4>2, <4>3, ReplayReads
    <3> QED
      BY <1>1, <3>1, <3>2 DEF Base, Loaded, Save
  <2>3. CASE (Replay(s) \/ Return(s)) /\ d = Idle
    <3>1. Base(s)' = 0
      BY <2>3 DEF Base, Loaded, Save, Idle
    <3> QED
      BY <3>1
  <2>4. CASE ~(Restore(s) \/ Replay(s) \/ Return(s))
    <3>1. Base(s)' = Base(s) /\ Base(s) = c.expected
      BY <2>4, BaseStays DEF Base
    <3> QED
      BY <1>0, <1>1, <1>2, <3>1 DEF CoveredAt
  <2> QED
    BY <1>0, <2>1, <2>2, <2>3, <2>4, ReturnFacts
<1>6. CoveredAt(s)'
  BY <1>5, MadeInBatch DEF CoveredAt
<1>7. ASSUME NEW o \in Sessions, o # s PROVE CoveredAt(o)'
  <2>1. session'[o] = session[o] /\ CoveredAt(o) /\ session[o] \in SessionTypes
    BY <1>0, <1>7, CoverParts DEF Others, Types
  <2>2. Base(o)' = Base(o) /\ Base(o) \in Nat
    BY <2>1 DEF Base, Loaded, Save, SessionTypes
  <2>3. \A k \in 1..Base(o)' : Covered(k)'
    BY <1>1, <2>1, <2>2 DEF CoveredAt
  <2> QED
    BY <2>1, <2>3 DEF CoveredAt, Snap, Save, Batch
<1>8. \A o \in Sessions : CoveredAt(o)'
  BY <1>6, <1>7
<1> QED
  BY <1>3, <1>4, <1>8 DEF CoverInv, CoveredAt, Base

LEMMA HoleStep ==
  ASSUME IInv, IInv', HoleInv, [Next]_vars
  PROVE  HoleInv'
<1> SUFFICES ASSUME Never({"unsaved"})' PROVE CoverInv'
  BY DEF HoleInv
<1>0. CoverInv /\ RowsGrow
  BY HappenedGrows, TypesStep DEF Never, HoleInv
<1>1. CASE UNCHANGED vars
  <2>1. \A k : Covered(k)' <=> Covered(k)
    BY <1>1 DEF vars, Covered, Promised, Kept, Snap, Coming, Saving
  <2> QED
    BY <1>0, <1>1, <2>1 DEF vars, CoverInv, Loaded, Save, Snap, Batch
<1>2. ASSUME NEW s \in Sessions, Step(s) PROVE CoverInv'
  BY <1>0, <1>2, CoverStays
<1> QED
  BY <1>1, <1>2 DEF Next

LEMMA InitHole == Init => HoleInv /\ ReplayInv
<1> SUFFICES ASSUME Init PROVE CoverInv /\ SameInv
  BY DEF HoleInv, ReplayInv
<1>1. /\ NoSnapshot.version = 0 /\ Idle.version = 0 /\ Idle.save = "idle" /\ Idle.snap = "none"
      /\ 1..0 = {}
  BY DEF NoSnapshot, Idle
<1> QED
  BY <1>1 DEF Init, CoverInv, SameInv, Loaded, Save, Snap

LEMMA HoleInvariant == Spec => []HoleInv
<1>1. IInv /\ IInv' /\ HoleInv /\ [Next]_vars => HoleInv'
  BY HoleStep
<1> QED
  BY <1>1, InitHole, Invariant, PTL DEF Spec

(* When nothing is being saved there is no hole in what is stored, unless  *)
(* a save failed beside its snapshot: SaveAsync runs the two side by side, *)
(* and a session that restores goes on from what is only being saved.      *)
THEOREM NoHoleIsLeft == Spec => []StreamHasNoHole
<1>1. IInv /\ HoleInv => StreamHasNoHole
  <2> SUFFICES ASSUME IInv, CoverInv, Settled, NEW k \in VersionsAfter(0), NEW n \in (0 + 1)..k
               PROVE  n \in VersionsAfter(0)
    BY DEF HoleInv, StreamHasNoHole, Contiguous
  <2>1. k \in Ids /\ rows[k] # 0 /\ n \in Ids /\ n > 0
    BY BoundsAssumption DEF VersionsAfter, Ids
  <2>2. CASE n = k
    BY <2>1, <2>2 DEF VersionsAfter
  <2>3. CASE n # k
    <3>1. n < k
      BY <2>1, <2>3 DEF Ids
    <3>2. PICK i \in Ids : Promised(n, i)
      BY <2>1, <3>1 DEF CoverInv, Covered
    <3>3. rows[n] = i
      BY <3>2 DEF Promised, Coming, Settled
    <3>4. rows[n] # 0
      BY <3>3 DEF Ids
    <3> QED
      BY <2>1, <3>4 DEF VersionsAfter
  <2> QED
    BY <2>2, <2>3
<1> QED
  BY <1>1, Invariant, HoleInvariant, PTL

-----------------------------------------------------------------------------
(* And it is what a snapshot has there.                                    *)

Told(k) == Promised(k, snapshot.state[k])
ToldTo(s, k) == Promised(k, session[s].state[k])
SameAt(s) == \A k \in 1..Base(s) : ToldTo(s, k)

LEMMA SameParts ==
  SameInv <=>
    /\ \A k \in 1..snapshot.version : Told(k)
    /\ \A s \in Sessions : SameAt(s)
BY DEF SameInv, SameAt, Base, Told, ToldTo

(* No session has a base that is longer than its state.                    *)
LEMMA BaseInState ==
  ASSUME IInv, LengthInv, NEW s \in Sessions, NEW k \in 1..Base(s)
  PROVE  k \in 1..Len(session[s].state) /\ k \in Nat /\ session[s].state[k] \in Ids
<1> DEFINE c == session[s]
<1>1. c \in SessionTypes /\ Shape(s) /\ Measured(s)
  BY LengthIsMeasured DEF IInv, Types, ShapeInv
<1>2. /\ c.version \in Nat /\ c.expected \in Nat /\ c.state \in Seq(Ids)
      /\ Len(c.changes) \in Nat /\ Len(c.flushed) \in Nat
      /\ Len(c.state) = c.version + Len(c.changes)
  BY <1>1, FieldTypes DEF Measured
<1>3. CASE Loaded(s)
  <2>1. c.version = c.expected + Len(c.flushed) /\ k \in 1..c.expected
    BY <1>1, <1>3 DEF Shape, Base
  <2> HIDE DEF c
  <2>2. k \in 1..Len(c.state)
    BY <1>2, <2>1
  <2> QED
    BY <1>2, <2>2 DEF c
<1>4. CASE ~Loaded(s)
  <2>1. k \in 1..c.version
    BY <1>4 DEF Base
  <2> HIDE DEF c
  <2>2. k \in 1..Len(c.state)
    BY <1>2, <2>1
  <2> QED
    BY <1>2, <2>2 DEF c
<1> QED
  BY <1>3, <1>4

LEMMA SameStays ==
  ASSUME IInv, IInv', RowsGrow, CoverInv, LengthInv, SameInv, Never({"unsaved"})',
         NEW s \in Sessions, Step(s)
  PROVE  SameInv'
<1> DEFINE c == session[s]
           d == session'[s]
<1>0. /\ Types /\ Shape(s) /\ Len(c.changes) <= MaxBatch /\ Others(s) /\ CoveredAt(s)
      /\ c \in SessionTypes /\ Measured(s) /\ SameAt(s)
  BY StepOthers, CoverParts, SameParts, LengthIsMeasured DEF IInv, ShapeInv, Shape, Types
<1>1. \A k \in Nat, i \in Ids : Promised(k, i) => Promised(k, i)'
  BY PromiseKept
<1>2. /\ c.version \in Nat /\ c.expected \in Nat /\ Ids \subseteq Nat /\ c.state \in Seq(Ids)
      /\ c.made.version \in Nat
  <2>1. c.made \in Snapshots
    BY <1>0 DEF SessionTypes
  <2> QED
    BY <1>0, <2>1 DEF SessionTypes, Snapshots, Ids
<1>3. snapshot.version \in Nat /\ \A k \in 1..snapshot.version : snapshot.state[k] \in Ids
  BY DEF IInv, Types, Snapshots, LengthInv
<1>4. \A k \in 1..snapshot'.version : Told(k)'
  <2>1. CASE snapshot' = snapshot
    BY <1>1, <1>3, <2>1 DEF SameInv, Told
  <2>2. CASE snapshot' # snapshot
    <3>1. StoreSnapshot(s)
      BY <2>2 DEF Step, Restore, Replay, Change, Commit, AskExists, ReadVersion, ReadLength,
         Check, Insert, Return
    <3>2. c.snap = "store" /\ snapshot' = c.made
      BY <1>0, <2>2, <3>1, StoreFacts
    <3>3. /\ Loaded(s) /\ c.save # "failed" /\ c.made.version <= c.expected + Len(Batch(s))
          /\ c.made.state = c.state /\ Len(Batch(s)) \in Nat
      BY <1>0, <3>2, BatchFacts DEF Shape, CoveredAt, Snap, Save
    <3>4. ASSUME NEW k \in 1..c.made.version
          PROVE  Promised(k, c.state[k]) /\ c.state[k] \in Ids
      <4>1. CASE k \in 1..c.expected
        <5>1. k \in 1..Base(s)
          BY <3>3, <4>1 DEF Base
        <5> QED
          BY <1>0, <5>1, BaseInState DEF SameAt, ToldTo
      <4>2. CASE k \notin 1..c.expected
        <5>1. k - c.expected \in 1..Len(Batch(s)) /\ c.expected + (k - c.expected) = k
          <6>1. ASSUME NEW e \in Nat, NEW n \in Nat, NEW m \in Nat, m <= e + n,
                       NEW j \in 1..m, j \notin 1..e
                PROVE  j - e \in 1..n /\ e + (j - e) = j
            BY <6>1
          <6> HIDE DEF c
          <6> QED
            BY <1>2, <3>3, <4>2, <6>1
        <5>2. c.state[k] = Batch(s)[k - c.expected]
          BY <3>3, <5>1, BatchIsLast
        <5> QED
          BY <3>2, <3>3, <5>1, <5>2, BatchPromised DEF Snap, Save
      <4> QED
        BY <4>1, <4>2
    <3> QED
      <4> SUFFICES ASSUME NEW k \in 1..c.made.version PROVE Told(k)'
        BY <3>2
      <4>1. PICK i \in Ids : i = c.state[k] /\ Promised(k, i)
        BY <3>4
      <4>2. Promised(k, i)' /\ snapshot'.state[k] = i
        BY <1>1, <1>2, <3>2, <3>3, <4>1
      <4> QED
        BY <4>2 DEF Told
  <2> QED
    BY <2>1, <2>2
<1>5. SameAt(s)'
  <2>1. CASE Restore(s)
    <3>1. d.version = snapshot.version /\ d.save = "replay" /\ d.state = snapshot.state
      BY <1>0, <2>1, RestoreFacts
    <3> QED
      BY <1>1, <1>3, <3>1 DEF SameAt, ToldTo, Base, Loaded, Save, SameInv
  <2>2. CASE Replay(s) /\ d # Idle
    <3>1. c.save = "replay" /\ d.save = "open" /\ d.expected = d.version /\ d.version \in Nat
      BY <1>0, <2>2, ReplayFacts DEF IInv, Types, SessionTypes
    <3>2. ASSUME NEW k \in 1..d.version PROVE Promised(k, d.state[k]) /\ d.state[k] \in Ids
      <4>1. CASE k \in 1..Len(c.state)
        <5>1. k \in 1..Base(s)
          BY <2>2, <3>1, <4>1, ReplayPlaces DEF Base, Loaded, Save
        <5>2. d.state[k] = c.state[k]
          BY <2>2, <4>1, ReplayPlaces
        <5> QED
          BY <1>0, <5>1, <5>2, BaseInState DEF SameAt, ToldTo
      <4>2. CASE k \notin 1..Len(c.state)
        <5>1. k \in Ids /\ rows[k] # 0 /\ d.state[k] = rows[k]
          BY <2>2, <4>2, ReplayPlaces
        <5> QED
          BY <1>0, <5>1, StoredCovered DEF Types
      <4> QED
        BY <4>1, <4>2
    <3>3. \A k \in 1..d.version : ToldTo(s, k)'
      BY <1>1, <3>1, <3>2 DEF ToldTo
    <3> QED
      BY <3>1, <3>3 DEF SameAt, Base, Loaded, Save
  <2>3. CASE (Replay(s) \/ Return(s)) /\ d = Idle
    <3>1. Base(s)' = 0
      BY <2>3 DEF Base, Loaded, Save, Idle
    <3> QED
      BY <3>1 DEF SameAt, ToldTo
  <2>4. CASE ~(Restore(s) \/ Replay(s) \/ Return(s))
    <3>1. Base(s)' = Base(s)
      BY <2>4, BaseStays DEF Base
    <3>2. \A k \in 1..Len(c.state) : d.state[k] = c.state[k]
      <4>1. CASE Change(s)
        <5>1. d.state = Append(c.state, nextId) /\ nextId \in Ids
          BY <1>0, <4>1, ChangeFacts
        <5> QED
          BY <1>2, <5>1
      <4>2. CASE ~Change(s)
        <5>1. d.state = c.state
          BY <2>4, <4>2, BatchStays DEF Step
        <5> QED
          BY <5>1
      <4> QED
        BY <4>1, <4>2
    <3>3. ASSUME NEW k \in 1..Base(s) PROVE ToldTo(s, k)'
      <4>1. k \in 1..Len(c.state) /\ k \in Nat /\ c.state[k] \in Ids
        BY BaseInState
      <4>2. PICK i \in Ids : i = c.state[k]
        BY <4>1
      <4>3. Promised(k, i)
        BY <1>0, <4>2 DEF SameAt, ToldTo
      <4>4. Promised(k, i)' /\ d.state[k] = i
        BY <1>1, <3>2, <4>1, <4>2, <4>3
      <4> QED
        BY <4>4 DEF ToldTo
    <3> QED
      BY <3>1, <3>3 DEF SameAt, ToldTo
  <2> QED
    BY <1>0, <2>1, <2>2, <2>3, <2>4, ReturnFacts
<1>6. ASSUME NEW o \in Sessions, o # s PROVE SameAt(o)'
  <2>1. session'[o] = session[o] /\ SameAt(o)
    BY <1>0, <1>6, SameParts DEF Others
  <2>2. Base(o)' = Base(o)
    BY <2>1 DEF Base, Loaded, Save
  <2>3. ASSUME NEW k \in 1..Base(o) PROVE Promised(k, session[o].state[k])'
    <3>1. k \in Nat /\ session[o].state[k] \in Ids
      BY BaseInState
    <3> QED
      BY <1>1, <2>1, <3>1 DEF SameAt, ToldTo
  <2> QED
    BY <2>1, <2>2, <2>3 DEF SameAt, ToldTo
<1>7. \A o \in Sessions : SameAt(o)'
  BY <1>5, <1>6
<1> QED
  BY <1>4, <1>7 DEF SameInv, SameAt, ToldTo, Told, Base

LEMMA ReplayStep ==
  ASSUME IInv, IInv', OnceInv, HoleInv, ReplayInv, [Next]_vars
  PROVE  ReplayInv'
<1> SUFFICES ASSUME Never({"unsaved", "torn"})' PROVE SameInv'
  BY DEF ReplayInv
<1>0. /\ SameInv /\ CoverInv /\ LengthInv /\ RowsGrow /\ Never({"unsaved"})'
  BY HappenedGrows, TypesStep DEF Never, ReplayInv, HoleInv, OnceInv
<1>1. CASE UNCHANGED vars
  <2>1. \A k, i : Promised(k, i)' <=> Promised(k, i)
    BY <1>1 DEF vars, Promised, Kept, Snap, Coming, Saving
  <2> QED
    BY <1>0, <1>1, <2>1 DEF vars, SameInv, Loaded, Save
<1>2. ASSUME NEW s \in Sessions, Step(s) PROVE SameInv'
  BY <1>0, <1>2, SameStays
<1> QED
  BY <1>1, <1>2 DEF Next

(* What a snapshot holds is what the events up to its version make, stored *)
(* or still being stored, as long as no save failed beside its snapshot    *)
(* and no snapshot was torn by a flush: TryMakeSnapshot and SaveAsync.     *)
THEOREM SnapshotIsOfTheEvents == Spec => []SnapshotIsReplay
<1>1. IInv /\ IInv' /\ OnceInv /\ HoleInv /\ ReplayInv /\ [Next]_vars => ReplayInv'
  BY ReplayStep
<1>2. OnceInv /\ ReplayInv => SnapshotIsReplay
  <2> SUFFICES ASSUME OnceInv, ReplayInv, Never({"unsaved", "torn"})
               PROVE  /\ Len(snapshot.state) = snapshot.version
                      /\ \A k \in 1..snapshot.version :
                           \/ rows[k] = snapshot.state[k]
                           \/ \E s \in Sessions : Coming(s, k, snapshot.state[k])
    BY DEF SnapshotIsReplay
  <2>1. LengthInv /\ SameInv
    BY DEF Never, OnceInv, ReplayInv
  <2> QED
    BY <2>1 DEF LengthInv, SameInv, Promised
<1> QED
  BY <1>1, <1>2, InitHole, Invariant, OnceInvariant, HoleInvariant, PTL DEF Spec
=============================================================================
