------------------------ MODULE RedisEventStore_proofs ------------------------
(***************************************************************************)
(* What the Redis store keeps, for any number of sessions, commit ids,     *)
(* changes per commit and tries, and any set of faults.                    *)
(*                                                                         *)
(* A step of a save touches one commit id, that of its own event, in the   *)
(* list, in the hash and on the queue (lemma SaveStep); so it is enough to *)
(* say what is known of this id at each point of a save (PointInv), and    *)
(* that no two saves have an id in common (DisjointInv).                   *)
(***************************************************************************)
EXTENDS RedisEventStore, TLAPS

Listed(id) == id \in ToSet(list)
HasData(id) == hash[id] # NoData
Clean(id) == ~Listed(id) /\ id \notin announced /\ ~HasData(id)
Whole(id) == Listed(id) /\ id \in announced /\ HasData(id)

(* The commit ids of a session's changes: none, unless it saves.           *)
Owned(w) == ToSet(session[w].changes)

(* The events of a batch past the first leave no trace.                    *)
BatchInv(w) ==
    /\ session[w].pc \in Saving <=> session[w].changes # <<>>
    /\ \A id \in Owned(w) : id < nextId /\ id \notin acked
    /\ \A id \in Owned(w) : Clean(id) \/ id = Commit(w)
    /\ Never({"batch"}) => \A id \in Owned(w) : id = Commit(w)

DisjointInv == \A u, w \in Writers : u # w => Owned(u) \cap Owned(w) = {}

FreshInv ==
    /\ \A id \in Ids : id >= nextId => Clean(id)
    /\ \A id \in acked : id < nextId

(* What is known of the event a session saves, at each point of the save.  *)
PointInv(w) ==
    /\ session[w].pc = "hset" => Clean(Commit(w))
    /\ session[w].pc \in {"llen", "exec"} =>
         ~Listed(Commit(w)) /\ Commit(w) \notin announced /\ HasData(Commit(w))
    /\ session[w].pc = "publish" =>
         Listed(Commit(w)) /\ Commit(w) \notin announced /\ HasData(Commit(w))
    /\ session[w].pc = "returned" => Whole(Commit(w))
    /\ session[w].pc \in {"lrem", "hdel"} /\ Never({"publish"}) => Commit(w) \notin announced
    /\ session[w].pc = "hdel" /\ Never({"exec", "lrem"}) => ~Listed(Commit(w))

DataInv == Never({"exec", "lrem"}) => \A id \in Ids : Listed(id) => HasData(id)
AckedInv == Never({"batch"}) => \A id \in acked : Whole(id)
AnnouncedInv == Never({"publish"}) => \A id \in announced : Listed(id) /\ HasData(id)

(* An id that no save is at is everywhere or nowhere.                      *)
InDoubt == {"exec", "publish", "lrem", "left"}
SettledInv ==
    Never(InDoubt) =>
      \A id \in Ids : \/ Clean(id)
                      \/ Whole(id)
                      \/ \E w \in Writers : session[w].pc \in Saving /\ id = Commit(w)

IInv ==
    /\ Typed
    /\ ListedOnce
    /\ \A w \in Writers : BatchInv(w) /\ PointInv(w)
    /\ DisjointInv /\ FreshInv /\ DataInv /\ AckedInv /\ AnnouncedInv /\ SettledInv

-----------------------------------------------------------------------------
(* Sequences without repetition.                                           *)
LEMMA AppendSet ==
  ASSUME NEW S, NEW s \in Seq(S), NEW x \in S
  PROVE  ToSet(Append(s, x)) = ToSet(s) \cup {x}
<1>1. DOMAIN Append(s, x) = 1..(Len(s) + 1) /\ DOMAIN s = 1..Len(s) /\ Len(s) \in Nat
  OBVIOUS
<1>2. \A i \in 1..(Len(s) + 1) : Append(s, x)[i] = IF i = Len(s) + 1 THEN x ELSE s[i]
  OBVIOUS
<1>3. \A i \in 1..(Len(s) + 1) : i = Len(s) + 1 \/ i \in 1..Len(s)
  BY <1>1
<1>4. Len(s) + 1 \in 1..(Len(s) + 1) /\ \A i \in 1..Len(s) : i \in 1..(Len(s) + 1) /\ i # Len(s) + 1
  BY <1>1
<1> QED
  BY <1>1, <1>2, <1>3, <1>4 DEF ToSet

Once(s) == \A i, j \in DOMAIN s : s[i] = s[j] => i = j

LEMMA AppendOnce ==
  ASSUME NEW S, NEW s \in Seq(S), NEW x \in S, Once(s), x \notin ToSet(s)
  PROVE  Once(Append(s, x))
BY DEF Once, ToSet

(* Removing what occurs once leaves the rest as it was.                    *)
LEMMA WithoutSet ==
  ASSUME NEW S, NEW s \in Seq(S), NEW x, Once(s)
  PROVE  /\ Without(s, x) \in Seq(S)
         /\ Once(Without(s, x))
         /\ ToSet(Without(s, x)) = ToSet(s) \ {x}
<1>1. CASE x \notin ToSet(s)
  BY <1>1 DEF Without
<1>2. CASE x \in ToSet(s)
  <2>1. PICK l \in DOMAIN s : s[l] = x
    BY <1>2 DEF ToSet
  <2>2. LastIndex(s, x) = l
    BY <2>1 DEF LastIndex, Once
  <2> DEFINE r == [j \in 1..(Len(s) - 1) |-> IF j < l THEN s[j] ELSE s[j + 1]]
  <2>3. Without(s, x) = r
    BY <1>2, <2>2 DEF Without
  <2>4. /\ Len(s) - 1 \in Nat /\ l \in 1..Len(s)
        /\ \A j \in 1..(Len(s) - 1) : j \in 1..Len(s) /\ j + 1 \in 1..Len(s)
    BY <2>1
  <2>5. r \in Seq(S) /\ Len(r) = Len(s) - 1 /\ DOMAIN r = 1..(Len(s) - 1)
    BY <2>4
  <2>6. Once(r)
    <3> DEFINE at(j) == IF j < l THEN j ELSE j + 1
    <3>1. \A j \in 1..(Len(s) - 1) : at(j) \in DOMAIN s /\ r[j] = s[at(j)]
      BY <2>4
    <3>2. \A i, j \in 1..(Len(s) - 1) : at(i) = at(j) => i = j
      BY <2>4
    <3> HIDE DEF at, r
    <3>3. \A i, j \in DOMAIN r : r[i] = r[j] => at(i) = at(j)
      BY <2>5, <3>1 DEF Once
    <3> QED
      BY <2>5, <3>2, <3>3 DEF Once
  <2>7. ToSet(r) \subseteq ToSet(s) \ {x}
    <3>1. ASSUME NEW j \in 1..(Len(s) - 1) PROVE r[j] \in ToSet(s) /\ r[j] # x
      <4>1. CASE j < l
        BY <2>1, <2>4, <4>1 DEF Once, ToSet
      <4>2. CASE ~(j < l)
        <5>1. r[j] = s[j + 1] /\ j + 1 \in DOMAIN s /\ j + 1 # l
          BY <2>1, <2>4, <4>2
        <5> QED
          BY <2>1, <5>1 DEF Once, ToSet
      <4> QED
        BY <4>1, <4>2
    <3> QED
      BY <2>5, <3>1 DEF ToSet
  <2>8. ToSet(s) \ {x} \subseteq ToSet(r)
    <3>1. ASSUME NEW i \in DOMAIN s, s[i] # x PROVE \E j \in DOMAIN r : r[j] = s[i]
      <4>1. CASE i < l
        <5>1. i \in 1..(Len(s) - 1)
          BY <2>1, <2>4, <4>1
        <5> QED
          BY <2>5, <4>1, <5>1
      <4>2. CASE ~(i < l)
        <5>1. i - 1 \in 1..(Len(s) - 1) /\ ~(i - 1 < l) /\ (i - 1) + 1 = i
          BY <2>1, <2>4, <3>1, <4>2
        <5> QED
          BY <2>5, <5>1
      <4> QED
        BY <4>1, <4>2
    <3> QED
      BY <3>1 DEF ToSet
  <2> QED
    BY <2>3, <2>5, <2>6, <2>7, <2>8
<1> QED
  BY <1>1, <1>2

-----------------------------------------------------------------------------
LEMMA IdleType ==
  Idle \in Sessions /\ Idle.changes = <<>> /\ Idle.pc = "idle" /\ ToSet(<<>>) = {}
BY DEF Idle, Sessions, ToSet

(* At the start there is no event and no save.                             *)
LEMMA InitIInv == Init => IInv
<1> SUFFICES ASSUME Init PROVE IInv
  OBVIOUS
<1>1. \A w \in Writers : session[w] = Idle
  BY DEF Init
<1>2. Typed
  BY IdleType, BoundsAssumption DEF Init, Typed, NoData, Ids
<1>3. \A id \in Ids : Clean(id)
  BY DEF Init, Clean, Listed, HasData, ToSet, NoData
<1>4. \A w \in Writers : Owned(w) = {}
  BY <1>1, IdleType DEF Owned
<1>5. \A w \in Writers : BatchInv(w) /\ PointInv(w)
  BY <1>1, <1>4, IdleType DEF BatchInv, PointInv, Saving
<1>6. DisjointInv
  BY <1>4 DEF DisjointInv
<1>7. FreshInv /\ DataInv /\ AckedInv /\ AnnouncedInv /\ SettledInv /\ ListedOnce
  BY <1>3 DEF Init, FreshInv, DataInv, AckedInv, AnnouncedInv, SettledInv, ListedOnce, Clean
<1> QED
  BY <1>2, <1>5, <1>6, <1>7 DEF IInv

-----------------------------------------------------------------------------
(* What is known of the events a session saves, ...                        *)
LEMMA OwnedIds ==
  ASSUME IInv, NEW w \in Writers, NEW id \in Owned(w)
  PROVE  id \in Ids /\ id \in Nat /\ id < nextId /\ id \notin acked
<1>1. session[w].changes \in Seq(Ids) /\ BatchInv(w)
  BY DEF IInv, Typed, Sessions
<1>2. id \in Ids
  BY <1>1 DEF Owned, ToSet
<1> QED
  BY <1>1, <1>2 DEF BatchInv, Ids

(* ... and of the one it is at.                                            *)
LEMMA CommitId ==
  ASSUME IInv, NEW w \in Writers, session[w].pc \in Saving
  PROVE  /\ session[w] \in Sessions /\ session[w].changes \in Seq(Ids)
         /\ Commit(w) \in Ids /\ Commit(w) \in Owned(w)
         /\ Commit(w) < nextId /\ Commit(w) \notin acked
         /\ \A u \in Writers \ {w} : Commit(w) \notin Owned(u)
<1>1. session[w] \in Sessions /\ session[w].changes \in Seq(Ids)
  BY DEF IInv, Typed, Sessions
<1>2. session[w].changes # <<>> /\ BatchInv(w)
  BY DEF IInv, BatchInv
<1>3. 1 \in DOMAIN session[w].changes /\ Commit(w) = session[w].changes[1]
  BY <1>1, <1>2 DEF Commit
<1>4. Commit(w) \in Ids /\ Commit(w) \in Owned(w)
  BY <1>1, <1>3 DEF Owned, ToSet
<1> QED
  BY <1>1, <1>2, <1>4 DEF BatchInv, IInv, DisjointInv

(* What a step of another session's save leaves alone.                     *)
SameAt(id) ==
    /\ Listed(id)' <=> Listed(id)
    /\ hash'[id] = hash[id]
    /\ id \in announced' <=> id \in announced

(* The steps of a save, in one lemma.  The step is at commit id c only; it *)
(* may end the save, and then c is everywhere or nowhere, unless the code  *)
(* was left in doubt.                                                      *)
LEMMA SaveStep ==
  ASSUME IInv, NEW w \in Writers, NEW c \in Ids,
         session[w].pc \in Saving, c = Commit(w),
         Typed', ListedOnce', nextId' = nextId, happened \subseteq happened',
         session' = [session EXCEPT ![w] = session'[w]],
         \/ session'[w].pc \in Saving /\ session'[w].changes = session[w].changes
         \/ session'[w].pc \notin Saving /\ session'[w].changes = <<>>,
         \/ acked' = acked
         \/ acked' = acked \cup Owned(w) /\ Whole(c)' /\ session'[w].pc \notin Saving,
         \A id \in Ids \ {c} : SameAt(id),
         PointInv(w)',
         Never({"exec", "lrem"})' /\ Listed(c)' => HasData(c)',
         Never({"publish"})' /\ c \in announced' => Listed(c)' /\ HasData(c)',
         session'[w].pc \notin Saving /\ Never(InDoubt)' => Clean(c)' \/ Whole(c)'
  PROVE  IInv'
<1>1. /\ c \in Owned(w) /\ c < nextId /\ c \notin acked
      /\ \A u \in Writers \ {w} : c \notin Owned(u)
      /\ acked \subseteq Ids /\ announced' \subseteq Ids
      /\ \A u \in Writers : Owned(u) \subseteq Ids
  <2>1. ASSUME NEW u \in Writers PROVE Owned(u) \subseteq Ids
    <3>1. session[u].changes \in Seq(Ids)
      BY DEF IInv, Typed, Sessions
    <3> QED
      BY <3>1 DEF Owned, ToSet
  <2> QED
    BY <2>1, CommitId DEF IInv, Typed
<1>2. /\ \A u \in Writers \ {w} : session'[u] = session[u] /\ Owned(u)' = Owned(u)
                                  /\ Commit(u)' = Commit(u)
      /\ Owned(w)' \subseteq Owned(w)
      /\ session'[w].pc \in Saving => Owned(w)' = Owned(w) /\ Commit(w)' = c
      /\ session'[w].pc \notin Saving => Owned(w)' = {}
  BY IdleType DEF IInv, Typed, Owned, Commit
<1>3. \A marks : Never(marks)' => Never(marks)
  BY DEF Never
<1>4. \A id \in Ids \ {c} : (Clean(id)' <=> Clean(id)) /\ (Whole(id)' <=> Whole(id))
                            /\ (HasData(id)' <=> HasData(id))
  BY DEF SameAt, Clean, Whole, HasData
<1>5. BatchInv(w)'
  <2>1. BatchInv(w)
    BY DEF IInv
  <2>2. CASE session'[w].pc \in Saving
    BY <1>1, <1>2, <1>3, <1>4, <2>1, <2>2 DEF BatchInv
  <2>3. CASE session'[w].pc \notin Saving
    BY <1>2, <2>3 DEF BatchInv
  <2> QED
    BY <2>2, <2>3
<1>6. ASSUME NEW u \in Writers \ {w} PROVE BatchInv(u)' /\ PointInv(u)'
  <2>1. BatchInv(u) /\ PointInv(u) /\ Owned(u) \cap Owned(w) = {}
    BY DEF IInv, DisjointInv
  <2>2. BatchInv(u)'
    <3>1. \A id \in Owned(u) : id \in Ids \ {c} /\ id \notin acked'
      BY <1>1, <2>1 DEF BatchInv
    <3> QED
      BY <1>2, <1>3, <1>4, <2>1, <3>1 DEF BatchInv
  <2>3. PointInv(u)'
    <3>1. CASE session[u].pc \in Saving
      <4>1. Commit(u) \in Ids \ {c}
        BY <1>1, <3>1, CommitId
      <4>2. SameAt(Commit(u)) /\ (Clean(Commit(u))' <=> Clean(Commit(u)))
              /\ (Whole(Commit(u))' <=> Whole(Commit(u)))
              /\ (HasData(Commit(u))' <=> HasData(Commit(u)))
        <5>1. PICK d \in Ids \ {c} : d = Commit(u) /\ d = Commit(u)'
          BY <4>1, <1>2
        <5> QED
          BY <5>1, <1>4 DEF SameAt, Clean, Whole, HasData, Listed
      <4> QED
        BY <1>2, <1>3, <2>1, <4>2 DEF PointInv, SameAt, Listed
    <3>2. CASE session[u].pc \notin Saving
      BY <1>2, <3>2 DEF PointInv, Saving
    <3> QED
      BY <3>1, <3>2
  <2> QED
    BY <2>2, <2>3
<1>7. DisjointInv'
  <2>1. \A u \in Writers : Owned(u)' \subseteq Owned(u)
    BY <1>2
  <2> QED
    BY <2>1 DEF IInv, DisjointInv
<1>8. FreshInv'
  <2>1. \A id \in Ids : id >= nextId => id # c
    BY <1>1 DEF Ids, IInv, Typed
  <2>2. \A id \in Owned(w) : id < nextId
    BY DEF IInv, BatchInv
  <2> QED
    BY <1>4, <2>1, <2>2 DEF IInv, FreshInv
<1>9. DataInv'
  BY <1>3, <1>4 DEF IInv, DataInv, SameAt
<1>10. AckedInv'
  <2>1. SUFFICES ASSUME Never({"batch"})', NEW id \in acked' PROVE Whole(id)'
    BY DEF AckedInv
  <2>2. CASE id \in acked
    BY <1>1, <1>3, <1>4, <2>1, <2>2 DEF IInv, AckedInv
  <2>3. CASE id \notin acked
    BY <1>3, <2>1, <2>3 DEF IInv, BatchInv
  <2> QED
    BY <2>2, <2>3
<1>11. AnnouncedInv'
  BY <1>1, <1>3, <1>4 DEF IInv, AnnouncedInv, SameAt
<1>12. SettledInv'
  <2>1. SUFFICES ASSUME Never(InDoubt)', NEW id \in Ids
                 PROVE  \/ Clean(id)' \/ Whole(id)'
                        \/ \E u \in Writers : session'[u].pc \in Saving /\ id = Commit(u)'
    BY DEF SettledInv
  <2>2. CASE id = c
    BY <1>2, <2>1, <2>2
  <2>3. CASE id # c
    <3>1. \/ Clean(id) \/ Whole(id)
          \/ \E u \in Writers \ {w} : session[u].pc \in Saving /\ id = Commit(u)
      BY <1>3, <2>1, <2>3 DEF IInv, SettledInv
    <3> QED
      BY <1>2, <1>4, <2>3, <3>1
  <2> QED
    BY <2>2, <2>3
<1> QED
  BY <1>5, <1>6, <1>7, <1>8, <1>9, <1>10, <1>11, <1>12 DEF IInv

(* Reading, opening and letting go touch nothing but the session.          *)
LEMMA RestStep ==
  ASSUME IInv, NEW w \in Writers, session[w].pc \notin Saving,
         Typed', UNCHANGED <<list, hash, announced, acked, nextId>>,
         happened \subseteq happened',
         session' = [session EXCEPT ![w] = session'[w]],
         session'[w].pc \notin Saving, session'[w].changes = <<>>
  PROVE  IInv'
<1>1. /\ \A u \in Writers \ {w} : session'[u] = session[u] /\ Owned(u)' = Owned(u)
                                  /\ Commit(u)' = Commit(u)
      /\ Owned(w)' = {}
  BY IdleType DEF IInv, Typed, Owned, Commit
<1>2. \A marks : Never(marks)' => Never(marks)
  BY DEF Never
<1>3. \A id : (Clean(id)' <=> Clean(id)) /\ (Whole(id)' <=> Whole(id))
              /\ (HasData(id)' <=> HasData(id)) /\ (Listed(id)' <=> Listed(id))
  BY DEF Clean, Whole, HasData, Listed
<1>4. BatchInv(w)' /\ PointInv(w)'
  BY <1>1 DEF BatchInv, PointInv, Saving
<1>5. ASSUME NEW u \in Writers \ {w} PROVE BatchInv(u)' /\ PointInv(u)'
  <2>1. BatchInv(u) /\ PointInv(u)
    BY DEF IInv
  <2>2. BatchInv(u)'
    BY <1>1, <1>2, <1>3, <2>1 DEF BatchInv
  <2>3. PointInv(u)'
    BY <1>1, <1>2, <2>1 DEF PointInv, Clean, Whole, HasData, Listed
  <2> QED
    BY <2>2, <2>3
<1>6. DisjointInv' /\ FreshInv' /\ DataInv' /\ AckedInv' /\ AnnouncedInv' /\ ListedOnce'
  BY <1>1, <1>2, <1>3 DEF IInv, DisjointInv, FreshInv, DataInv, AckedInv, AnnouncedInv, ListedOnce
<1>7. SettledInv'
  <2>1. SUFFICES ASSUME Never(InDoubt)', NEW id \in Ids
                 PROVE  \/ Clean(id)' \/ Whole(id)'
                        \/ \E u \in Writers : session'[u].pc \in Saving /\ id = Commit(u)'
    BY DEF SettledInv
  <2>2. \/ Clean(id) \/ Whole(id)
        \/ \E u \in Writers \ {w} : session[u].pc \in Saving /\ id = Commit(u)
    BY <1>2, <2>1 DEF IInv, SettledInv
  <2> QED
    BY <1>1, <1>3, <2>2
<1> QED
  BY <1>4, <1>5, <1>6, <1>7 DEF IInv

(* What a session holds when it leaves, or moves on to another call.       *)
LEMMA LeaveType ==
  ASSUME IInv, NEW w \in Writers, Leave(w)
  PROVE  /\ session' = [session EXCEPT ![w] = session'[w]]
         /\ session' \in [Writers -> Sessions]
         /\ session'[w].pc = "idle" /\ session'[w].pc \notin Saving
         /\ session'[w].changes = <<>>
BY IdleType DEF Leave, IInv, Typed, Saving

LEMMA GotoType ==
  ASSUME IInv, NEW w \in Writers, NEW call \in {"idle", "open"} \cup Reading \cup Saving,
         Goto(w, call)
  PROVE  /\ session' = [session EXCEPT ![w] = session'[w]]
         /\ session' \in [Writers -> Sessions]
         /\ session'[w].pc = call
         /\ session'[w].changes = session[w].changes
BY DEF Goto, IInv, Typed, Sessions

-----------------------------------------------------------------------------
(* Loading.                                                                *)
LEMMA OpenIInv ==
  ASSUME IInv, NEW w \in Writers, Open(w) PROVE IInv'
<1>1. /\ session[w] \in Sessions /\ session[w].pc \notin Saving /\ session[w].changes = <<>>
      /\ session \in [Writers -> Sessions]
  <2>1. session[w].pc \notin Saving
    BY DEF Open, AddNew, StartLoad, ListRange, HashGet, Abandon, At, Saving
  <2> QED
    BY <2>1 DEF IInv, Typed, BatchInv
<1>2. UNCHANGED <<list, hash, announced, acked, nextId>>
  BY DEF Open, AddNew, StartLoad, ListRange, HashGet, Abandon
<1>3. happened \subseteq happened' /\ happened' \subseteq Marks
  BY DEF Open, AddNew, StartLoad, ListRange, HashGet, Abandon, NoteOpening, Note, Marks,
     IInv, Typed
<1>4. /\ session' = [session EXCEPT ![w] = session'[w]]
      /\ session' \in [Writers -> Sessions]
      /\ session'[w].pc \notin Saving /\ session'[w].changes = <<>>
  <2>1. CASE Leave(w)
    BY <2>1, LeaveType
  <2>2. CASE \E call \in {"open", "lrange"} : Goto(w, call)
    BY <1>1, <2>2, GotoType DEF Reading, Saving
  <2>3. CASE ListRange(w) /\ ~Leave(w)
    <3>1. session' = [session EXCEPT ![w].pc = "hget", ![w].toFetch = ToSet(list)]
      BY <2>3 DEF ListRange
    <3>2. ToSet(list) \subseteq Ids
      BY DEF IInv, Typed, ToSet
    <3> QED
      BY <1>1, <3>1, <3>2 DEF Sessions, Reading, Saving
  <2>4. CASE HashGet(w) /\ ~Leave(w)
    <3>1. PICK id \in session[w].toFetch :
            \/ session' = [session EXCEPT ![w].toFetch = session[w].toFetch \ {id},
                                          ![w].fetched = Append(session[w].fetched, hash[id])]
            \/ session' = [session EXCEPT ![w] =
                 [Idle EXCEPT !.pc = "open",
                              !.version = Len(Append(session[w].fetched, hash[id]))]]
      BY <2>4 DEF HashGet
    <3>2. /\ Append(session[w].fetched, hash[id]) \in Seq(Nat)
          /\ Len(Append(session[w].fetched, hash[id])) \in Nat
          /\ session[w].toFetch \ {id} \in SUBSET Ids
      BY <1>1 DEF IInv, Typed, Sessions
    <3>3. CASE session' = [session EXCEPT ![w].toFetch = session[w].toFetch \ {id},
                              ![w].fetched = Append(session[w].fetched, hash[id])]
      BY <1>1, <3>2, <3>3 DEF Sessions
    <3>4. CASE session' = [session EXCEPT ![w] =
                 [Idle EXCEPT !.pc = "open",
                              !.version = Len(Append(session[w].fetched, hash[id]))]]
      BY <1>1, <3>2, <3>4, IdleType DEF Sessions, Saving
    <3> QED
      BY <3>1, <3>3, <3>4
  <2> QED
    BY <2>1, <2>2, <2>3, <2>4 DEF Open, AddNew, StartLoad, Abandon
<1>5. Typed'
  BY <1>2, <1>3, <1>4 DEF IInv, Typed
<1> QED
  BY <1>1, <1>2, <1>3, <1>4, <1>5, RestStep

-----------------------------------------------------------------------------
(* Committing.                                                             *)

(* A commit gets commit ids that nothing knows yet.                        *)
LEMMA CommitAsyncIInv ==
  ASSUME IInv, NEW w \in Writers, CommitAsync(w) PROVE IInv'
<1>1. /\ session[w] \in Sessions /\ session[w].pc = "open" /\ session[w].pc \notin Saving
      /\ session[w].changes = <<>> /\ session \in [Writers -> Sessions]
      /\ UNCHANGED <<list, hash, announced, acked>>
      /\ nextId \in Nat
  BY DEF IInv, Typed, CommitAsync, At, Saving, BatchInv
<1>2. happened \subseteq happened' /\ happened' \subseteq Marks
  BY DEF CommitAsync, Note, Marks, IInv, Typed
<1>3. CASE Leave(w) /\ UNCHANGED nextId
  <2>1. Typed'
    BY <1>1, <1>2, <1>3, LeaveType DEF IInv, Typed
  <2> QED
    BY <1>1, <1>2, <1>3, <2>1, LeaveType, RestStep
<1>4. CASE ~(Leave(w) /\ UNCHANGED nextId)
  <2>1. PICK n \in 1..MaxBatch :
          /\ nextId + n <= MaxIds + 1
          /\ Note(IF n > 1 THEN {"batch"} ELSE {})
          /\ session' = [session EXCEPT ![w].pc = "hset", ![w].changes = Changes(n)]
          /\ nextId' = nextId + n
    BY <1>4 DEF CommitAsync
  <2>2. n \in Nat /\ n >= 1 /\ MaxIds \in Nat
    BY BoundsAssumption
  <2>3. /\ \A k \in 1..n : nextId + k - 1 \in Ids /\ nextId + k - 1 >= nextId
                           /\ nextId + k - 1 < nextId'
        /\ n = 1 => \A k \in 1..n : nextId + k - 1 = nextId
    BY <1>1, <2>1, <2>2 DEF Ids, IInv, Typed
  <2>4. Changes(n) \in Seq(Ids) /\ Len(Changes(n)) = n /\ Changes(n)[1] = nextId
    <3>1. 1 \in 1..n /\ nextId + 1 - 1 = nextId
      BY <1>1, <2>2
    <3>2. [k \in 1..n |-> nextId + k - 1] \in Seq(Ids)
      BY <2>2, <2>3
    <3>3. Len([k \in 1..n |-> nextId + k - 1]) = n
      BY <2>2
    <3>4. [k \in 1..n |-> nextId + k - 1][1] = nextId
      BY <3>1
    <3> QED
      BY <3>2, <3>3, <3>4 DEF Changes
  <2>5. /\ session'[w].pc = "hset" /\ session'[w].changes = Changes(n)
        /\ session' \in [Writers -> Sessions]
        /\ \A u \in Writers \ {w} : session'[u] = session[u]
    BY <1>1, <2>1, <2>4 DEF Sessions, Saving
  <2>6. Changes(n) # <<>> /\ Head(Changes(n)) = nextId
    BY <2>2, <2>4
  <2>7. Commit(w)' = nextId
    BY <2>5, <2>6 DEF Commit
  <2>8. ASSUME NEW id \in Owned(w)'
        PROVE  id \in Ids /\ id >= nextId /\ id < nextId' /\ (n = 1 => id = nextId)
    <3>1. PICK k \in 1..n : id = Changes(n)[k]
      BY <2>4, <2>5 DEF Owned, ToSet
    <3> QED
      BY <2>3, <3>1 DEF Changes
  <2>9. \A u \in Writers \ {w} : Owned(u)' = Owned(u) /\ Commit(u)' = Commit(u)
    BY <2>5 DEF Owned, Commit
  <2>10. \A marks : Never(marks)' => Never(marks)
    BY <1>2 DEF Never
  <2>11. \A id : (Clean(id)' <=> Clean(id)) /\ (Whole(id)' <=> Whole(id))
                 /\ (HasData(id)' <=> HasData(id)) /\ (Listed(id)' <=> Listed(id))
    BY <1>1 DEF Clean, Whole, HasData, Listed
  <2>12. Typed'
    BY <1>1, <1>2, <2>1, <2>2, <2>5 DEF IInv, Typed
  <2>13. nextId \in Ids /\ \A id \in Ids : id >= nextId => Clean(id)'
    <3>1. nextId \in Ids
      BY <1>1, <2>1, <2>2 DEF Ids, IInv, Typed
    <3> QED
      BY <3>1, <2>11 DEF IInv, FreshInv
  <2>14. BatchInv(w)'
    <3>1. session'[w].pc \in Saving <=> session'[w].changes # <<>>
      BY <2>5, <2>6 DEF Saving
    <3>2. \A id \in Owned(w)' : id < nextId' /\ id \notin acked' /\ Clean(id)'
      <4>1. ASSUME NEW id \in Owned(w)' PROVE id \notin acked
        BY <1>1, <2>8 DEF IInv, FreshInv, Typed, Ids
      <4> QED
        BY <1>1, <2>8, <2>13, <4>1
    <3>3. Never({"batch"})' => \A id \in Owned(w)' : id = nextId
      BY <2>1, <2>2, <2>8 DEF Never, Note
    <3> QED
      BY <2>7, <3>1, <3>2, <3>3 DEF BatchInv
  <2>15. PointInv(w)'
    BY <1>1, <2>2, <2>5, <2>7, <2>13 DEF PointInv, Clean, Listed, HasData
  <2>16. ASSUME NEW u \in Writers \ {w} PROVE BatchInv(u)' /\ PointInv(u)'
    <3>1. BatchInv(u) /\ PointInv(u)
      BY DEF IInv
    <3>2. \A id \in Owned(u) : id < nextId'
      <4>1. ASSUME NEW id \in Owned(u) PROVE id < nextId'
        <5>1. id \in Nat /\ id < nextId
          BY OwnedIds
        <5> QED
          BY <1>1, <2>1, <2>2, <5>1
      <4> QED
        BY <4>1
    <3>3. BatchInv(u)'
      BY <1>1, <2>5, <2>9, <2>10, <2>11, <3>1, <3>2 DEF BatchInv
    <3>4. PointInv(u)'
      BY <1>1, <2>5, <2>9, <2>10, <3>1 DEF PointInv, Clean, Whole, HasData, Listed
    <3> QED
      BY <3>3, <3>4
  <2>17. DisjointInv'
    <3>1. ASSUME NEW u \in Writers \ {w}, NEW id \in Owned(u), id \in Owned(w)' PROVE FALSE
      <4>1. id \in Nat /\ id < nextId
        BY OwnedIds
      <4> QED
        BY <1>1, <2>8, <3>1, <4>1 DEF Ids
    <3> QED
      BY <2>9, <3>1 DEF IInv, DisjointInv
  <2>18. FreshInv'
    <3>1. \A id \in Ids : id >= nextId' => id >= nextId
      BY <1>1, <2>1, <2>2 DEF Ids
    <3>2. \A id \in acked : id < nextId'
      BY <1>1, <2>1, <2>2 DEF IInv, FreshInv, Typed, Ids
    <3> QED
      BY <1>1, <2>13, <3>1, <3>2 DEF FreshInv
  <2>19. DataInv' /\ AckedInv' /\ AnnouncedInv' /\ ListedOnce'
    BY <1>1, <2>10, <2>11 DEF IInv, DataInv, AckedInv, AnnouncedInv, ListedOnce
  <2>20. SettledInv'
    <3>1. SUFFICES ASSUME Never(InDoubt)', NEW id \in Ids
                   PROVE  \/ Clean(id)' \/ Whole(id)'
                          \/ \E u \in Writers : session'[u].pc \in Saving /\ id = Commit(u)'
      BY DEF SettledInv
    <3>2. \/ Clean(id) \/ Whole(id)
          \/ \E u \in Writers \ {w} : session[u].pc \in Saving /\ id = Commit(u)
      BY <1>1, <2>10, <3>1 DEF IInv, SettledInv
    <3> QED
      BY <2>5, <2>9, <2>11, <3>2
  <2> QED
    BY <2>12, <2>14, <2>15, <2>16, <2>17, <2>18, <2>19, <2>20 DEF IInv
<1> QED
  BY <1>3, <1>4

(* The data goes in.                                                       *)
LEMMA HashSetIInv ==
  ASSUME IInv, NEW w \in Writers, HashSet(w) PROVE IInv'
<1>1. PICK c \in Ids : c = Commit(w)
  BY CommitId DEF HashSet, At, Saving
<1>2. /\ session[w].pc = "hset" /\ session[w].pc \in Saving /\ Clean(c)
      /\ UNCHANGED <<list, announced, acked, nextId>>
      /\ session[w] \in Sessions
  BY <1>1 DEF HashSet, At, Saving, IInv, PointInv, Typed
<1>3. PICK e \in Endings("hset") :
        /\ Note(MarksOf("hset", e))
        /\ hash' = IF Ran(e) THEN [hash EXCEPT ![c] = CommitVersion(w)] ELSE hash
        /\ IF Answered(e)
           THEN Goto(w, IF TransactionRetryCount > 0 THEN "llen" ELSE "hdel")
           ELSE Leave(w)
  BY <1>1 DEF HashSet
<1>4. happened \subseteq happened' /\ happened' \subseteq Marks
  BY <1>3 DEF Note, MarksOf, Marks, IInv, Typed
<1>5. CommitVersion(w) \in Nat /\ CommitVersion(w) # NoData
  BY <1>2 DEF CommitVersion, Sessions, NoData
<1>6. /\ session' = [session EXCEPT ![w] = session'[w]]
      /\ session' \in [Writers -> Sessions]
      /\ \/ session'[w].pc \in {"llen", "hdel"} /\ session'[w].changes = session[w].changes
            /\ HasData(c)'
         \/ session'[w].pc = "idle" /\ session'[w].changes = <<>>
            /\ (Never(InDoubt)' => ~HasData(c)')
  <2>1. CASE Answered(e)
    <3>1. PICK call \in {"llen", "hdel"} : Goto(w, call)
      BY <1>3, <2>1
    <3>2. call \in {"idle", "open"} \cup Reading \cup Saving
      BY DEF Saving
    <3>3. HasData(c)'
      BY <1>3, <1>5, <2>1 DEF Answered, Ran, HasData, IInv, Typed
    <3> QED
      BY <3>1, <3>2, <3>3, GotoType
  <2>2. CASE ~Answered(e)
    <3>1. Never(InDoubt)' => ~HasData(c)'
      BY <1>2, <1>3, <2>2 DEF Endings, Answered, Ran, MarksOf, Note, Never, InDoubt, Clean, HasData
    <3> QED
      BY <1>3, <2>2, <3>1, LeaveType
  <2> QED
    BY <2>1, <2>2
<1>7. Typed' /\ ListedOnce'
  BY <1>2, <1>3, <1>4, <1>5, <1>6 DEF IInv, Typed, ListedOnce
<1>8. \A id \in Ids \ {c} : SameAt(id)
  BY <1>2, <1>3 DEF SameAt, Listed, IInv, Typed
<1>9. ~Listed(c)' /\ c \notin announced'
  BY <1>2 DEF Clean, Listed
<1>10. PointInv(w)'
  <2>1. session'[w].pc \in Saving => Commit(w)' = c
    BY <1>1, <1>6 DEF Commit, Saving
  <2> QED
    BY <1>6, <1>9, <2>1 DEF PointInv, Saving, Listed, HasData
<1>11. session'[w].pc \notin Saving /\ Never(InDoubt)' => Clean(c)'
  BY <1>6, <1>9 DEF Saving, Clean
<1>12. \/ session'[w].pc \in Saving /\ session'[w].changes = session[w].changes
       \/ session'[w].pc \notin Saving /\ session'[w].changes = <<>>
  BY <1>6 DEF Saving
<1> QED
  BY <1>1, <1>2, <1>4, <1>6, <1>7, <1>8, <1>9, <1>10, <1>11, <1>12, SaveStep

(* A step of a save that changes neither Redis nor the queue; if it ends   *)
(* the save, the code is left in doubt.                                    *)
LEMMA QuietStep ==
  ASSUME IInv, NEW w \in Writers, session[w].pc \in Saving,
         UNCHANGED <<list, hash, announced, acked, nextId>>,
         happened \subseteq happened', happened' \subseteq Marks,
         session' = [session EXCEPT ![w] = session'[w]],
         session' \in [Writers -> Sessions],
         \/ session'[w].pc \in Saving /\ session'[w].changes = session[w].changes
         \/ session'[w].pc \notin Saving /\ session'[w].changes = <<>> /\ ~Never(InDoubt)',
         PointInv(w)'
  PROVE  IInv'
<1>1. PICK c \in Ids : c = Commit(w)
  BY CommitId
<1>2. Typed' /\ ListedOnce'
  BY DEF IInv, Typed, ListedOnce
<1>3. \A id \in Ids : SameAt(id)
  BY DEF SameAt, Listed
<1>4. \A marks : Never(marks)' => Never(marks)
  BY DEF Never
<1>5. /\ Never({"exec", "lrem"})' /\ Listed(c)' => HasData(c)'
      /\ Never({"publish"})' /\ c \in announced' => Listed(c)' /\ HasData(c)'
  BY <1>4 DEF IInv, DataInv, AnnouncedInv, Listed, HasData
<1> QED
  BY <1>1, <1>2, <1>3, <1>5, SaveStep

LEMMA ListLengthIInv ==
  ASSUME IInv, NEW w \in Writers, ListLength(w) PROVE IInv'
<1>1. /\ session[w].pc = "llen" /\ session[w].pc \in Saving /\ PointInv(w)
      /\ UNCHANGED <<list, hash, announced, acked, nextId>>
      /\ session[w] \in Sessions /\ session \in [Writers -> Sessions]
  BY DEF ListLength, At, Saving, IInv, Typed
<1>2. PICK e \in Endings("llen") :
        /\ Note(MarksOf("llen", e))
        /\ IF Answered(e)
           THEN session' = [session EXCEPT ![w].pc = "exec", ![w].length = Len(list)]
           ELSE Leave(w)
  BY DEF ListLength
<1>3. happened \subseteq happened' /\ happened' \subseteq Marks
  BY <1>2 DEF Note, MarksOf, Marks, IInv, Typed
<1>4. CASE Answered(e)
  <2>1. Len(list) \in Nat
    BY DEF IInv, Typed
  <2>2. /\ session' = [session EXCEPT ![w] = session'[w]]
        /\ session' \in [Writers -> Sessions]
        /\ session'[w].pc = "exec" /\ session'[w].pc \in Saving
        /\ session'[w].changes = session[w].changes
    <3>1. session' = [session EXCEPT ![w] =
                        [session[w] EXCEPT !.pc = "exec", !.length = Len(list)]]
      BY <1>2, <1>4
    <3>2. session'[w] = [session[w] EXCEPT !.pc = "exec", !.length = Len(list)]
      BY <1>1, <3>1
    <3>3. session'[w] \in Sessions /\ "exec" \in Saving
      BY <1>1, <2>1, <3>2 DEF Sessions, Saving
    <3> QED
      BY <1>1, <3>1, <3>2, <3>3 DEF Sessions
  <2>3. PointInv(w)'
    BY <1>1, <2>2 DEF PointInv, Commit, Listed, HasData
  <2> QED
    BY <1>1, <1>3, <2>2, <2>3, QuietStep
<1>5. CASE ~Answered(e)
  <2>1. ~Never(InDoubt)'
    BY <1>2, <1>5 DEF Never, Note, MarksOf, Answered, InDoubt
  <2>2. Leave(w)
    BY <1>2, <1>5
  <2>3. PointInv(w)'
    BY <2>2, LeaveType DEF PointInv
  <2> QED
    BY <1>1, <1>3, <2>1, <2>2, <2>3, LeaveType, QuietStep
<1> QED
  BY <1>4, <1>5

(* A refused transaction has not listed the event.                         *)
LEMMA ExecuteRefusedIInv ==
  ASSUME IInv, NEW w \in Writers, ExecuteRefused(w) PROVE IInv'
<1>1. /\ session[w].pc = "exec" /\ session[w].pc \in Saving /\ PointInv(w)
      /\ UNCHANGED <<list, hash, announced, acked, nextId, happened>>
      /\ session[w] \in Sessions /\ session \in [Writers -> Sessions]
  BY DEF ExecuteRefused, At, Saving, IInv, Typed
<1>2. \/ session' = [session EXCEPT ![w].pc = "llen", ![w].tries = @ + 1]
      \/ Goto(w, "hdel")
  BY DEF ExecuteRefused
<1>3. happened \subseteq happened' /\ happened' \subseteq Marks
  BY <1>1 DEF IInv, Typed
<1>4. /\ session' = [session EXCEPT ![w] = session'[w]]
      /\ session' \in [Writers -> Sessions]
      /\ session'[w].pc \in {"llen", "hdel"} /\ session'[w].pc \in Saving
      /\ session'[w].changes = session[w].changes
  <2>1. CASE session' = [session EXCEPT ![w].pc = "llen", ![w].tries = @ + 1]
    <3>1. session' = [session EXCEPT ![w] =
                        [session[w] EXCEPT !.pc = "llen", !.tries = session[w].tries + 1]]
      BY <2>1
    <3>2. session'[w] = [session[w] EXCEPT !.pc = "llen", !.tries = session[w].tries + 1]
      BY <1>1, <3>1
    <3>3. session[w].tries + 1 \in Nat /\ "llen" \in Saving
      BY <1>1 DEF Sessions, Saving
    <3>4. session'[w] \in Sessions
      BY <1>1, <3>2, <3>3 DEF Sessions
    <3> QED
      BY <1>1, <3>1, <3>2, <3>3, <3>4 DEF Sessions
  <2>2. CASE Goto(w, "hdel")
    BY <2>2, GotoType DEF Saving
  <2> QED
    BY <1>2, <2>1, <2>2
<1>5. PointInv(w)'
  BY <1>1, <1>4 DEF PointInv, Commit, Listed, HasData
<1> QED
  BY <1>1, <1>3, <1>4, <1>5, QuietStep

(* A writer that dies leaves its event wherever it was.                    *)
LEMMA CrashIInv ==
  ASSUME IInv, NEW w \in Writers, Crash(w) PROVE IInv'
<1>1. /\ UNCHANGED <<list, hash, announced, acked, nextId>>
      /\ Leave(w) /\ happened' = happened \cup {"left"}
      /\ happened \subseteq happened' /\ happened' \subseteq Marks
  BY DEF Crash, Note, Marks, IInv, Typed
<1>2. Typed' /\ ~Never(InDoubt)' /\ PointInv(w)'
  BY <1>1, LeaveType DEF IInv, Typed, Never, InDoubt, PointInv
<1>3. CASE session[w].pc \in Saving
  BY <1>1, <1>2, <1>3, LeaveType, QuietStep
<1>4. CASE session[w].pc \notin Saving
  BY <1>1, <1>2, <1>4, LeaveType, RestStep
<1> QED
  BY <1>3, <1>4

-----------------------------------------------------------------------------
(* The transaction lists the event, which was not listed before.           *)
LEMMA ExecutePushIInv ==
  ASSUME IInv, NEW w \in Writers, ExecutePush(w) PROVE IInv'
<1>1. PICK c \in Ids : c = Commit(w)
  BY CommitId DEF ExecutePush, At, Saving
<1>2. /\ session[w].pc = "exec" /\ session[w].pc \in Saving
      /\ ~Listed(c) /\ c \notin announced /\ HasData(c)
      /\ UNCHANGED <<hash, announced, acked, nextId>>
      /\ list \in Seq(Ids)
  BY <1>1 DEF ExecutePush, At, Saving, IInv, PointInv, Typed
<1>3. PICK e \in Endings("exec") :
        /\ Note(MarksOf("exec", e))
        /\ list' = IF Ran(e) THEN Append(list, c) ELSE list
        /\ Goto(w, IF Answered(e) THEN "publish" ELSE "hdel")
  BY <1>1 DEF ExecutePush
<1>4. happened \subseteq happened' /\ happened' \subseteq Marks
  BY <1>3 DEF Note, MarksOf, Marks, IInv, Typed
<1>5. /\ list' \in Seq(Ids)
      /\ ToSet(list') = IF Ran(e) THEN ToSet(list) \cup {c} ELSE ToSet(list)
      /\ ListedOnce'
  <2>1. Once(list) /\ c \notin ToSet(list)
    BY <1>2 DEF IInv, ListedOnce, Once, Listed
  <2>2. CASE Ran(e)
    <3>1. list' \in Seq(Ids) /\ ToSet(list') = ToSet(list) \cup {c} /\ Once(list')
      BY <1>2, <1>3, <2>1, <2>2, AppendSet, AppendOnce
    <3> QED
      BY <2>2, <3>1 DEF ListedOnce, Once
  <2>3. CASE ~Ran(e)
    BY <1>2, <1>3, <2>1, <2>3 DEF ListedOnce, Once
  <2> QED
    BY <2>2, <2>3
<1>6. /\ session' = [session EXCEPT ![w] = session'[w]]
      /\ session' \in [Writers -> Sessions]
      /\ session'[w].changes = session[w].changes
      /\ session'[w].pc = IF Answered(e) THEN "publish" ELSE "hdel"
      /\ session'[w].pc \in Saving
  BY <1>3, GotoType DEF Saving
<1>7. Typed'
  BY <1>2, <1>4, <1>5, <1>6 DEF IInv, Typed
<1>8. \A id \in Ids \ {c} : SameAt(id)
  BY <1>2, <1>5 DEF SameAt, Listed
<1>9. /\ Answered(e) => Listed(c)'
      /\ ~Answered(e) /\ Never({"exec", "lrem"})' => ~Listed(c)'
  BY <1>2, <1>3, <1>5 DEF Answered, Ran, Endings, Listed, Note, MarksOf, Never
<1>10. HasData(c)' /\ c \notin announced' /\ Commit(w)' = c
  BY <1>1, <1>2, <1>6 DEF HasData, Commit
<1>11. PointInv(w)'
  BY <1>6, <1>9, <1>10 DEF PointInv
<1> QED
  BY <1>1, <1>2, <1>4, <1>5, <1>6, <1>7, <1>8, <1>10, <1>11, SaveStep

LEMMA PublishIInv ==
  ASSUME IInv, NEW w \in Writers, Publish(w) PROVE IInv'
<1>1. PICK c \in Ids : c = Commit(w)
  BY CommitId DEF Publish, At, Saving
<1>2. /\ session[w].pc = "publish" /\ session[w].pc \in Saving
      /\ Listed(c) /\ c \notin announced /\ HasData(c)
      /\ UNCHANGED <<list, hash, acked, nextId>>
  BY <1>1 DEF Publish, At, Saving, IInv, PointInv
<1>3. PICK e \in Endings("publish") :
        /\ Note(MarksOf("publish", e))
        /\ announced' = IF Ran(e) THEN announced \cup {c} ELSE announced
        /\ Goto(w, IF Answered(e) THEN "returned" ELSE "lrem")
  BY <1>1 DEF Publish
<1>4. happened \subseteq happened' /\ happened' \subseteq Marks
  BY <1>3 DEF Note, MarksOf, Marks, IInv, Typed
<1>5. /\ session' = [session EXCEPT ![w] = session'[w]]
      /\ session' \in [Writers -> Sessions]
      /\ session'[w].changes = session[w].changes
      /\ session'[w].pc = IF Answered(e) THEN "returned" ELSE "lrem"
      /\ session'[w].pc \in Saving
  BY <1>3, GotoType DEF Saving
<1>6. Typed' /\ ListedOnce'
  BY <1>2, <1>3, <1>4, <1>5 DEF IInv, Typed, ListedOnce
<1>7. \A id \in Ids \ {c} : SameAt(id)
  BY <1>2, <1>3 DEF SameAt, Listed
<1>8. Listed(c)' /\ HasData(c)' /\ Commit(w)' = c
  BY <1>1, <1>2, <1>5 DEF Listed, HasData, Commit
<1>9. /\ Answered(e) => c \in announced'
      /\ ~Answered(e) /\ Never({"publish"})' => c \notin announced'
  BY <1>2, <1>3 DEF Answered, Ran, Endings, Note, MarksOf, Never
<1>10. PointInv(w)'
  BY <1>5, <1>8, <1>9 DEF PointInv, Whole
<1> QED
  BY <1>1, <1>2, <1>4, <1>5, <1>6, <1>7, <1>8, <1>10, SaveStep

(* The compensation takes out the only occurrence of the event.            *)
LEMMA ListRemoveIInv ==
  ASSUME IInv, NEW w \in Writers, ListRemove(w) PROVE IInv'
<1>1. PICK c \in Ids : c = Commit(w)
  BY CommitId DEF ListRemove, At, Saving
<1>2. /\ session[w].pc = "lrem" /\ session[w].pc \in Saving
      /\ Never({"publish"}) => c \notin announced
      /\ UNCHANGED <<hash, announced, acked, nextId>>
      /\ list \in Seq(Ids) /\ Once(list)
  BY <1>1 DEF ListRemove, At, Saving, IInv, PointInv, Typed, ListedOnce, Once
<1>3. PICK e \in Endings("lrem") :
        /\ Note(MarksOf("lrem", e))
        /\ list' = IF Ran(e) THEN Without(list, c) ELSE list
  BY <1>1 DEF ListRemove
<1>4. happened \subseteq happened' /\ happened' \subseteq Marks
  BY <1>3 DEF Note, MarksOf, Marks, IInv, Typed
<1>5. /\ list' \in Seq(Ids) /\ ListedOnce'
      /\ ToSet(list') = IF Ran(e) THEN ToSet(list) \ {c} ELSE ToSet(list)
  <2>1. CASE Ran(e)
    <3>1. list' \in Seq(Ids) /\ ToSet(list') = ToSet(list) \ {c} /\ Once(list')
      BY <1>2, <1>3, <2>1, WithoutSet
    <3> QED
      BY <2>1, <3>1 DEF ListedOnce, Once
  <2>2. CASE ~Ran(e)
    BY <1>2, <1>3, <2>2 DEF ListedOnce, Once
  <2> QED
    BY <2>1, <2>2
<1>6. /\ session' = [session EXCEPT ![w] = session'[w]]
      /\ session' \in [Writers -> Sessions]
      /\ session'[w].changes = session[w].changes
      /\ session'[w].pc = "hdel" /\ session'[w].pc \in Saving
  <2>1. Goto(w, "hdel") /\ "hdel" \in Saving
    BY DEF ListRemove, Saving
  <2> QED
    BY <2>1, GotoType
<1>7. Typed'
  BY <1>2, <1>4, <1>5, <1>6 DEF IInv, Typed
<1>8. \A id \in Ids \ {c} : SameAt(id)
  BY <1>2, <1>5 DEF SameAt, Listed
<1>9. Never({"exec", "lrem"})' => ~Listed(c)'
  BY <1>3, <1>5 DEF Ran, Listed, Note, MarksOf, Never
<1>10. (Never({"publish"})' => c \notin announced') /\ Commit(w)' = c
  BY <1>1, <1>2, <1>4, <1>6 DEF Commit, Never
<1>11. PointInv(w)'
  BY <1>6, <1>9, <1>10 DEF PointInv
<1> QED
  BY <1>1, <1>2, <1>4, <1>5, <1>6, <1>7, <1>8, <1>9, <1>10, <1>11, SaveStep

LEMMA HashDeleteIInv ==
  ASSUME IInv, NEW w \in Writers, HashDelete(w) PROVE IInv'
<1>1. PICK c \in Ids : c = Commit(w)
  BY CommitId DEF HashDelete, At, Saving
<1>2. /\ session[w].pc = "hdel" /\ session[w].pc \in Saving
      /\ Never({"publish"}) => c \notin announced
      /\ Never({"exec", "lrem"}) => ~Listed(c)
      /\ UNCHANGED <<list, announced, acked, nextId>>
      /\ Leave(w)
  BY <1>1 DEF HashDelete, At, Saving, IInv, PointInv
<1>3. PICK e \in Endings("hdel") :
        /\ Note(MarksOf("hdel", e))
        /\ hash' = IF Ran(e) THEN [hash EXCEPT ![c] = NoData] ELSE hash
  BY <1>1 DEF HashDelete
<1>4. happened \subseteq happened' /\ happened' \subseteq Marks
  BY <1>3 DEF Note, MarksOf, Marks, IInv, Typed
<1>5. /\ session' = [session EXCEPT ![w] = session'[w]]
      /\ session' \in [Writers -> Sessions]
      /\ session'[w].pc = "idle" /\ session'[w].pc \notin Saving
      /\ session'[w].changes = <<>>
  BY <1>2, LeaveType
<1>6. Typed' /\ ListedOnce'
  BY <1>2, <1>3, <1>4, <1>5 DEF IInv, Typed, ListedOnce, NoData
<1>7. \A id \in Ids \ {c} : SameAt(id)
  BY <1>2, <1>3 DEF SameAt, Listed, IInv, Typed
<1>8. /\ Never({"publish"})' => c \notin announced'
      /\ Never({"exec", "lrem"})' => ~Listed(c)'
  BY <1>2, <1>4 DEF Never, Listed
<1>9. Never(InDoubt)' => ~HasData(c)'
  BY <1>3 DEF Ran, HasData, Note, MarksOf, Never, InDoubt, IInv, Typed
<1>10. Never(InDoubt)' => Clean(c)'
  BY <1>8, <1>9 DEF Never, InDoubt, Clean
<1>11. PointInv(w)'
  BY <1>5 DEF PointInv
<1> QED
  BY <1>1, <1>2, <1>4, <1>5, <1>6, <1>7, <1>8, <1>10, <1>11, SaveStep

(* What is reported as saved is everywhere.                                *)
LEMMA ReturnIInv ==
  ASSUME IInv, NEW w \in Writers, Return(w) PROVE IInv'
<1>1. PICK c \in Ids : c = Commit(w)
  BY CommitId DEF Return, At, Saving
<1>2. /\ session[w].pc = "returned" /\ session[w].pc \in Saving /\ Whole(c)
      /\ UNCHANGED <<list, hash, announced, nextId, happened>>
      /\ Leave(w) /\ acked' = acked \cup Owned(w)
  BY <1>1 DEF Return, At, Saving, IInv, PointInv, Owned
<1>3. /\ session' = [session EXCEPT ![w] = session'[w]]
      /\ session' \in [Writers -> Sessions]
      /\ session'[w].pc = "idle" /\ session'[w].pc \notin Saving
      /\ session'[w].changes = <<>>
  BY <1>2, LeaveType
<1>4. Owned(w) \subseteq Ids
  BY OwnedIds
<1>5. Typed' /\ ListedOnce'
  BY <1>2, <1>3, <1>4 DEF IInv, Typed, ListedOnce
<1>6. \A id \in Ids : SameAt(id)
  BY <1>2 DEF SameAt, Listed
<1>7. Whole(c)' /\ Listed(c)' /\ HasData(c)'
  BY <1>2 DEF Whole, Listed, HasData
<1>8. PointInv(w)'
  BY <1>3 DEF PointInv
<1> QED
  BY <1>1, <1>2, <1>3, <1>5, <1>6, <1>7, <1>8, SaveStep

-----------------------------------------------------------------------------
(* The invariant is inductive: one case per action.                        *)
LEMMA NextIInv == IInv /\ [Next]_vars => IInv'
<1> SUFFICES ASSUME IInv, [Next]_vars PROVE IInv'
  OBVIOUS
<1>1. CASE UNCHANGED vars
  <2>1. /\ UNCHANGED <<list, hash, announced, acked, nextId, session, happened>>
    BY <1>1 DEF vars
  <2>2. \A w \in Writers : BatchInv(w)' /\ PointInv(w)'
    BY <2>1 DEF IInv, BatchInv, PointInv, Owned, Commit, Clean, Whole, Listed, HasData, Never
  <2>3. Typed' /\ ListedOnce' /\ DisjointInv' /\ FreshInv'
    BY <2>1 DEF IInv, Typed, ListedOnce, DisjointInv, Owned, FreshInv, Clean, Listed, HasData
  <2>4. DataInv' /\ AckedInv' /\ AnnouncedInv' /\ SettledInv'
    BY <2>1 DEF IInv, DataInv, AckedInv, AnnouncedInv, SettledInv, Clean, Whole, Listed, HasData,
       Never, Commit
  <2> QED
    BY <2>2, <2>3, <2>4 DEF IInv
<1>2. ASSUME NEW w \in Writers, Save(w) PROVE IInv'
  BY <1>2, HashSetIInv, ListLengthIInv, ExecutePushIInv, ExecuteRefusedIInv, PublishIInv,
     ListRemoveIInv, HashDeleteIInv, ReturnIInv DEF Save
<1> QED
  BY <1>1, <1>2, OpenIInv, CommitAsyncIInv, CrashIInv DEF Next

(* Every run of the store, whatever fails, stays in the invariant.         *)
THEOREM Invariance == Spec => []IInv
BY InitIInv, NextIInv, PTL DEF Spec

(* A save starts with no try made, and goes on to another only while one   *)
(* is left.                                                                *)
TriesAt(w) ==
    /\ session[w].pc \in {"idle", "open", "hset"} \cup Reading => session[w].tries = 0
    /\ session[w].pc \in {"llen", "exec"} => session[w].tries < TransactionRetryCount

TriesInv == \A w \in Writers : TriesAt(w)

LEMMA InitTriesInv == Init => TriesInv
BY DEF Init, Idle, TriesInv, TriesAt, Reading

LEMMA NextTriesInv == Typed /\ TriesInv /\ [Next]_vars => TriesInv'
<1> SUFFICES ASSUME Typed, TriesInv, [Next]_vars PROVE TriesInv'
  OBVIOUS
<1>1. CASE UNCHANGED vars
  BY <1>1 DEF TriesInv, TriesAt, vars
<1>2. ASSUME NEW w \in Writers, Open(w) \/ CommitAsync(w) \/ Save(w) \/ Crash(w)
      PROVE  TriesInv'
  <2>1. session[w] \in Sessions /\ TriesAt(w)
    BY DEF Typed, TriesInv
  <2>2. ASSUME NEW d, session' = [session EXCEPT ![w] = d],
               d.pc \in {"idle", "open", "hset"} \cup Reading => d.tries = 0,
               d.pc \in {"llen", "exec"} => d.tries < TransactionRetryCount
        PROVE  TriesInv'
    BY <2>2 DEF Typed, TriesInv, TriesAt
  <2>3. ASSUME Leave(w) PROVE TriesInv'
    BY <2>2, <2>3 DEF Leave, Idle
  <2>4. ASSUME NEW pc, Goto(w, pc), pc \notin {"idle", "hset"} \cup Reading,
               pc = "open" => session[w].tries = 0,
               pc \in {"llen", "exec"} => session[w].tries < TransactionRetryCount
        PROVE  TriesInv'
    BY <2>1, <2>4 DEF Goto, Typed, Sessions, TriesInv, TriesAt
  <2>5. CASE AddNew(w) \/ StartLoad(w) \/ ListRange(w) \/ HashGet(w) \/ Abandon(w)
    <3>1. session[w].tries = 0
      BY <2>1, <2>5 DEF AddNew, StartLoad, ListRange, HashGet, Abandon, At, TriesAt, Reading
    <3>2. CASE Leave(w)
      BY <2>3, <3>2
    <3>3. CASE Goto(w, "open") \/ Goto(w, "lrange")
      BY <2>1, <3>1, <3>3 DEF Goto, Typed, Sessions, TriesInv, TriesAt, Reading
    <3>4. CASE ListRange(w) /\ ~Leave(w)
      BY <2>1, <3>1, <3>4 DEF ListRange, Typed, Sessions, TriesInv, TriesAt
    <3>5. CASE HashGet(w) /\ ~Leave(w)
      <4> DEFINE c(id) == [session[w] EXCEPT !.toFetch = session[w].toFetch \ {id},
                                !.fetched = Append(session[w].fetched, hash[id])]
                 d(versions) == [Idle EXCEPT !.pc = "open", !.version = Len(versions)]
      <4>1. session[w].pc = "hget"
        BY <3>5 DEF HashGet, At
      <4>2. \/ \E id : session' = [session EXCEPT ![w] = c(id)]
            \/ \E versions : session' = [session EXCEPT ![w] = d(versions)]
        BY <3>5 DEF HashGet
      <4>3. /\ \A id : c(id).pc = "hget" /\ c(id).tries = 0
            /\ \A versions : d(versions).pc = "open" /\ d(versions).tries = 0
        BY <2>1, <3>1, <4>1 DEF Sessions, Idle
      <4> HIDE DEF c, d
      <4> QED
        BY <2>2, <4>2, <4>3
    <3> QED
      BY <2>5, <3>2, <3>3, <3>4, <3>5 DEF AddNew, StartLoad, Abandon
  <2>6. CASE CommitAsync(w)
    <3>1. session[w].tries = 0
      BY <2>1, <2>6 DEF CommitAsync, At, TriesAt
    <3> QED
      <4> DEFINE d(n) == [session[w] EXCEPT !.pc = "hset", !.changes = Changes(n)]
      <4>1. Leave(w) \/ \E n : session' = [session EXCEPT ![w] = d(n)]
        BY <2>6 DEF CommitAsync
      <4>2. \A n : d(n).pc = "hset" /\ d(n).tries = 0
        BY <2>1, <3>1 DEF Sessions
      <4> HIDE DEF d
      <4> QED
        BY <2>2, <2>3, <4>1, <4>2
  <2>7. CASE HashSet(w)
    <3>1. session[w].tries = 0
      BY <2>1, <2>7 DEF HashSet, At, TriesAt
    <3> QED
      BY <2>3, <2>4, <2>7, <3>1, RetryAssumption DEF HashSet, Reading
  <2>8. CASE ListLength(w) \/ ExecuteRefused(w)
    <3>1. session[w].tries < TransactionRetryCount
      BY <2>1, <2>8 DEF ListLength, ExecuteRefused, At, TriesAt
    <3>2. CASE Leave(w)
      BY <2>3, <3>2
    <3>3. CASE Goto(w, "hdel")
      BY <2>4, <3>3 DEF Reading
    <3>4. CASE ListLength(w) /\ ~Leave(w)
      <4> DEFINE d == [session[w] EXCEPT !.pc = "exec", !.length = Len(list)]
      <4>1. session' = [session EXCEPT ![w] = d]
        BY <3>4 DEF ListLength
      <4>2. d.pc = "exec" /\ d.tries = session[w].tries
        BY <2>1 DEF Sessions
      <4> HIDE DEF d
      <4> QED
        BY <2>2, <3>1, <4>1, <4>2 DEF Reading
    <3>5. CASE ExecuteRefused(w) /\ ~Goto(w, "hdel")
      <4> DEFINE d == [session[w] EXCEPT !.pc = "llen", !.tries = session[w].tries + 1]
      <4>1. session' = [session EXCEPT ![w] = d] /\ session[w].tries + 1 < TransactionRetryCount
        BY <3>5 DEF ExecuteRefused
      <4>2. d.pc = "llen" /\ d.tries = session[w].tries + 1
        BY <2>1 DEF Sessions
      <4> HIDE DEF d
      <4> QED
        BY <2>2, <4>1, <4>2 DEF Reading
    <3> QED
      BY <2>8, <3>2, <3>3, <3>4, <3>5
  <2>9. CASE ExecutePush(w) \/ Publish(w) \/ ListRemove(w)
    <3>1. \E pc \in {"publish", "hdel", "returned", "lrem"} : Goto(w, pc)
      BY <2>9 DEF ExecutePush, Publish, ListRemove
    <3> QED
      BY <2>4, <3>1 DEF Reading
  <2>10. CASE HashDelete(w) \/ Return(w) \/ Crash(w)
    BY <2>3, <2>10 DEF HashDelete, Return, Crash
  <2> QED
    BY <1>2, <2>5, <2>6, <2>7, <2>8, <2>9, <2>10 DEF Open, Save
<1> QED
  BY <1>1, <1>2 DEF Next

(* The variables keep their types, and the transaction is never tried more *)
(* often than TransactionRetryCount says.                                  *)
THEOREM TypeCorrect == Spec => []TypeOK
<1>1. IInv => Typed
  BY DEF IInv
<1>2. Typed /\ TriesInv => TypeOK
  BY DEF TypeOK, TriesInv, TriesAt
<1> QED
  BY <1>1, <1>2, Invariance, InitTriesInv, NextTriesInv, PTL DEF Spec

(* However often a transaction is tried, an event is listed once.          *)
THEOREM NeverListedTwice == Spec => []ListedOnce
<1>1. IInv => ListedOnce
  BY DEF IInv
<1> QED
  BY <1>1, Invariance, PTL

(* A listed commit id leads to data, so the aggregate can be read, unless  *)
(* the code was left in doubt about the list: no crash and no other fault  *)
(* does harm.                                                              *)
THEOREM ListIsReadable == Spec => []ListedHasData
<1>1. IInv => ListedHasData
  <2>1. SUFFICES ASSUME IInv, Never({"exec", "lrem"}), NEW i \in DOMAIN list
                 PROVE  hash[list[i]] # NoData
    BY DEF ListedHasData, NoDanglingCommit
  <2>2. list[i] \in Ids /\ Listed(list[i])
    <3>1. list \in Seq(Ids)
      BY <2>1 DEF IInv, Typed
    <3> QED
      BY <3>1 DEF Listed, ToSet
  <2> QED
    BY <2>1, <2>2 DEF IInv, DataInv, HasData
<1> QED
  BY <1>1, Invariance, PTL

(* A commit of one change that was reported as saved is and stays stored   *)
(* and announced, under any interference and any faults.                   *)
THEOREM SavedIsSaved == Spec => []AckedStored
<1>1. IInv => AckedStored
  BY DEF IInv, AckedInv, AckedStored, SavedIsStored, Whole, Listed, HasData
<1> QED
  BY <1>1, Invariance, PTL

(* No message describes an event that was taken back, unless a publish ran *)
(* and threw.                                                              *)
THEOREM AnnouncedIsStored == Spec => []AnnouncedStored
<1>1. IInv => AnnouncedStored
  BY DEF IInv, AnnouncedInv, AnnouncedStored, Listed, HasData
<1> QED
  BY <1>1, Invariance, PTL

(* What the code undoes it undoes completely: with no save under way, the  *)
(* hash, the list and the queue agree, unless the code was left in doubt.  *)
THEOREM UndoneCompletely == Spec => []NothingLeftBehind
<1>1. IInv => NothingLeftBehind
  <2>1. SUFFICES ASSUME IInv, \A w \in Writers : session[w].pc \notin Saving, Never(InDoubt)
                 PROVE  /\ ToSet(list) = announced
                        /\ {id \in Ids : hash[id] # NoData} = announced
    BY DEF NothingLeftBehind, InDoubt
  <2>2. \A id \in Ids : Clean(id) \/ Whole(id)
    BY <2>1 DEF IInv, SettledInv
  <2>3. ToSet(list) \subseteq Ids /\ announced \subseteq Ids
    BY <2>1 DEF IInv, Typed, ToSet
  <2> QED
    BY <2>2, <2>3 DEF Clean, Whole, Listed, HasData
<1> QED
  BY <1>1, Invariance, PTL
=============================================================================
