------------------------- MODULE RedisEventStore_order -------------------------
(***************************************************************************)
(* The order of the stream in Redis.  As long as no two sessions are open  *)
(* together, the index of an event in the list is its version, and saved   *)
(* events keep their places, whatever fails and whoever dies.              *)
(*                                                                         *)
(* The session that is open then has the list to itself: what it loaded is *)
(* all of it, and the event it compensates for is still the last.  If      *)
(* besides nothing was left behind, what has been announced is the list up *)
(* to that event, and the store implements EventStream.                    *)
(***************************************************************************)
EXTENDS RedisEventStore_proofs, FiniteSetTheorems

Busy(w) == session[w].pc # "idle"

(* A session starts with nothing in hand.                                  *)
RestInv(w) ==
    /\ session[w].pc = "idle" => session[w] = Idle
    /\ session[w].pc = "lrange" => session[w].fetched = <<>>

(* A load finds no more events than there are.                             *)
ReadInv(w) ==
    /\ session[w].pc = "hget" =>
         Len(session[w].fetched) + Cardinality(session[w].toFetch) <= Len(list)
    /\ session[w].pc = "open" => session[w].version <= Len(list)

(* A save goes on from the end of the list, and what it listed is last.    *)
WriteInv(w) ==
    /\ session[w].pc \in {"hset", "llen", "exec"} => session[w].version = Len(list)
    /\ session[w].pc \in {"llen", "exec"} => hash[Commit(w)] = session[w].version + 1
    /\ session[w].pc \in {"publish", "lrem", "returned"} =>
         Len(list) >= 1 /\ list[Len(list)] = Commit(w)

OrderInv == \A i \in DOMAIN list : hash[list[i]] \in {NoData, i}

AloneInv ==
    /\ OrderInv
    /\ \A u, w \in Writers : Busy(u) /\ Busy(w) => u = w
    /\ \A w \in Writers : ReadInv(w) /\ WriteInv(w)

SoloInv == (\A w \in Writers : RestInv(w)) /\ (Never({"overlap"}) => AloneInv)

-----------------------------------------------------------------------------
LEMMA SetSize ==
  ASSUME NEW S, NEW s \in Seq(S)
  PROVE  /\ IsFiniteSet(ToSet(s))
         /\ Cardinality(ToSet(s)) \in Nat /\ Cardinality(ToSet(s)) <= Len(s)
<1>1. Len(s) \in Nat /\ DOMAIN s = 1..Len(s)
  OBVIOUS
<1>2. IsFiniteSet(1..Len(s)) /\ Cardinality(1..Len(s)) = Len(s)
  <2>1. /\ 1 \in Int /\ Len(s) \in Int
        /\ (IF 1 > Len(s) THEN 0 ELSE Len(s) - 1 + 1) = Len(s)
    BY <1>1
  <2> QED
    BY <2>1, FS_Interval
<1>3. s \in Surjection(1..Len(s), ToSet(s))
  <2>1. s \in [1..Len(s) -> ToSet(s)]
    BY <1>1 DEF ToSet
  <2>2. \A x \in ToSet(s) : \E i \in 1..Len(s) : s[i] = x
    BY <1>1 DEF ToSet
  <2> QED
    BY <2>1, <2>2 DEF Surjection
<1>4. IsFiniteSet(ToSet(s)) /\ Cardinality(ToSet(s)) <= Cardinality(1..Len(s))
  BY <1>2, <1>3, FS_Surjection
<1> QED
  BY <1>2, <1>4, FS_CardinalityType

LEMMA IdSetSize ==
  ASSUME NEW T \in SUBSET Ids
  PROVE  IsFiniteSet(T) /\ Cardinality(T) \in Nat
<1>1. 1 \in Int /\ MaxIds \in Int
  BY BoundsAssumption
<1>2. IsFiniteSet(Ids)
  BY <1>1, FS_Interval DEF Ids
<1>3. IsFiniteSet(T)
  BY <1>2, FS_Subset
<1> QED
  BY <1>3, FS_CardinalityType

(* Taking out the last event leaves the others in their places.            *)
LEMMA WithoutLast ==
  ASSUME NEW S, NEW s \in Seq(S), Once(s), Len(s) >= 1
  PROVE  /\ Len(Without(s, s[Len(s)])) = Len(s) - 1
         /\ \A j \in 1..(Len(s) - 1) : Without(s, s[Len(s)])[j] = s[j]
<1>1. Len(s) \in Nat /\ Len(s) \in DOMAIN s /\ s[Len(s)] \in ToSet(s)
  BY DEF ToSet
<1>2. LastIndex(s, s[Len(s)]) = Len(s)
  BY <1>1 DEF LastIndex, Once
<1>3. Without(s, s[Len(s)])
        = [j \in 1..(Len(s) - 1) |-> IF j < Len(s) THEN s[j] ELSE s[j + 1]]
  BY <1>1, <1>2 DEF Without
<1> QED
  BY <1>1, <1>3

(* So does putting one at the end.                                         *)
LEMMA AppendPlaces ==
  ASSUME NEW S, NEW s \in Seq(S), NEW x \in S
  PROVE  /\ Append(s, x) \in Seq(S) /\ Len(s) \in Nat
         /\ Len(Append(s, x)) = Len(s) + 1 /\ Append(s, x)[Len(s) + 1] = x
         /\ \A i \in DOMAIN s : i \in DOMAIN Append(s, x) /\ Append(s, x)[i] = s[i]
         /\ \A i \in DOMAIN Append(s, x) : i = Len(s) + 1 \/ i \in DOMAIN s
OBVIOUS

-----------------------------------------------------------------------------
LEMMA InitSoloInv == Init => SoloInv
BY DEF Init, SoloInv, RestInv, AloneInv, OrderInv, Busy, ReadInv, WriteInv, Idle

(* A step of w: the others have nothing in hand, unless sessions overlap.  *)
LEMMA SoloStep ==
  ASSUME IInv, SoloInv, NEW w \in Writers, happened \subseteq happened',
         session' = [session EXCEPT ![w] = session'[w]],
         RestInv(w)',
         Never({"overlap"})' =>
           /\ \A u \in Writers \ {w} : ~Busy(u)
           /\ OrderInv' /\ ReadInv(w)' /\ WriteInv(w)'
  PROVE  SoloInv'
<1>1. \A u \in Writers \ {w} : session'[u] = session[u]
  BY DEF IInv, Typed
<1>2. \A u \in Writers : RestInv(u)'
  BY <1>1 DEF SoloInv, RestInv
<1>3. ASSUME Never({"overlap"})' PROVE AloneInv'
  <2>1. \A u \in Writers \ {w} : session'[u].pc = "idle"
    BY <1>1, <1>3 DEF Busy
  <2>2. \A u \in Writers \ {w} : ReadInv(u)' /\ WriteInv(u)'
    BY <2>1 DEF ReadInv, WriteInv
  <2> QED
    BY <1>3, <2>1, <2>2 DEF AloneInv, Busy
<1> QED
  BY <1>2, <1>3 DEF SoloInv

(* What is known in a step of a session that is open.                      *)
LEMMA Alone ==
  ASSUME IInv, SoloInv, NEW w \in Writers, Busy(w), happened \subseteq happened',
         Never({"overlap"})'
  PROVE  /\ \A u \in Writers \ {w} : ~Busy(u)
         /\ OrderInv /\ ReadInv(w) /\ WriteInv(w)
BY DEF Never, SoloInv, AloneInv

(* A session that lets go.                                                 *)
LEMMA LeaveSolo ==
  ASSUME IInv, SoloInv, NEW w \in Writers, Busy(w), Leave(w), happened \subseteq happened',
         Never({"overlap"})' => OrderInv'
  PROVE  SoloInv'
<1>1. session' = [session EXCEPT ![w] = session'[w]] /\ session'[w] = Idle
  BY IdleType DEF Leave, IInv, Typed
<1>2. RestInv(w)' /\ ReadInv(w)' /\ WriteInv(w)'
  BY <1>1, IdleType DEF RestInv, ReadInv, WriteInv
<1> QED
  BY <1>1, <1>2, Alone, SoloStep

-----------------------------------------------------------------------------
(* Opening: nobody else is, or the overlap is noted.                       *)
LEMMA OpeningSolo ==
  ASSUME IInv, SoloInv, NEW w \in Writers, AddNew(w) \/ StartLoad(w)
  PROVE  SoloInv'
<1>1. /\ UNCHANGED <<list, hash>> /\ session[w] = Idle /\ session \in [Writers -> Sessions]
      /\ happened \subseteq happened'
  BY DEF AddNew, StartLoad, At, SoloInv, RestInv, IInv, Typed, NoteOpening, Note
<1>2. /\ session' = [session EXCEPT ![w] = session'[w]]
      /\ session'[w].pc \in {"open", "lrange"}
      /\ session'[w].fetched = <<>> /\ session'[w].version = 0
  BY <1>1 DEF AddNew, StartLoad, Goto, Idle
<1>3. Never({"overlap"})' => \A u \in Writers \ {w} : ~Busy(u)
  BY DEF AddNew, StartLoad, NoteOpening, Note, Never, Busy, At
<1>4. ASSUME Never({"overlap"})' PROVE OrderInv'
  <2>1. Never({"overlap"})
    BY <1>1, <1>4 DEF Never
  <2> QED
    BY <1>1, <2>1 DEF SoloInv, AloneInv, OrderInv
<1>5. RestInv(w)' /\ ReadInv(w)' /\ WriteInv(w)'
  BY <1>1, <1>2 DEF RestInv, ReadInv, WriteInv, IInv, Typed
<1> QED
  BY <1>1, <1>2, <1>3, <1>4, <1>5, SoloStep

LEMMA ListRangeSolo ==
  ASSUME IInv, SoloInv, NEW w \in Writers, ListRange(w) PROVE SoloInv'
<1>1. /\ UNCHANGED <<list, hash, happened>> /\ session[w].pc = "lrange" /\ Busy(w)
      /\ session \in [Writers -> Sessions] /\ list \in Seq(Ids)
      /\ session[w].fetched = <<>>
  BY DEF ListRange, At, Busy, IInv, Typed, SoloInv, RestInv
<1>2. Never({"overlap"})' => OrderInv'
  BY <1>1, Alone DEF OrderInv
<1>3. CASE Leave(w)
  BY <1>1, <1>2, <1>3, LeaveSolo
<1>4. CASE ~Leave(w)
  <2>1. session' = [session EXCEPT ![w].pc = "hget", ![w].toFetch = ToSet(list)]
    BY <1>4 DEF ListRange
  <2>2. /\ session' = [session EXCEPT ![w] = session'[w]]
        /\ session'[w].pc = "hget" /\ session'[w].toFetch = ToSet(list)
        /\ session'[w].fetched = <<>>
    BY <1>1, <2>1 DEF Sessions
  <2>3. Len(<<>>) + Cardinality(ToSet(list)) <= Len(list)
    BY <1>1, SetSize
  <2>4. RestInv(w)' /\ ReadInv(w)' /\ WriteInv(w)'
    BY <1>1, <2>2, <2>3 DEF RestInv, ReadInv, WriteInv
  <2> QED
    BY <1>1, <1>2, <2>2, <2>4, Alone, SoloStep
<1> QED
  BY <1>3, <1>4

LEMMA HashGetSolo ==
  ASSUME IInv, SoloInv, NEW w \in Writers, HashGet(w) PROVE SoloInv'
<1>1. /\ UNCHANGED <<list, hash, happened>> /\ session[w].pc = "hget" /\ Busy(w)
      /\ session \in [Writers -> Sessions] /\ session[w] \in Sessions
      /\ Len(list) \in Nat
      /\ session[w].toFetch \in SUBSET Ids /\ session[w].fetched \in Seq(Nat)
  BY DEF HashGet, At, Busy, IInv, Typed, Sessions
<1>2. Never({"overlap"})' => OrderInv'
  BY <1>1, Alone DEF OrderInv
<1>3. CASE Leave(w)
  BY <1>1, <1>2, <1>3, LeaveSolo
<1>4. CASE ~Leave(w)
  <2>1. PICK id \in session[w].toFetch :
          \/ session' = [session EXCEPT ![w].toFetch = session[w].toFetch \ {id},
                                        ![w].fetched = Append(session[w].fetched, hash[id])]
          \/ session' = [session EXCEPT ![w] =
               [Idle EXCEPT !.pc = "open",
                            !.version = Len(Append(session[w].fetched, hash[id]))]]
    BY <1>4 DEF HashGet
  <2> DEFINE rest == session[w].toFetch \ {id}
             got == Append(session[w].fetched, hash[id])
  <2>2. hash[id] \in Nat
    BY <1>1 DEF IInv, Typed
  <2>3. Len(got) = Len(session[w].fetched) + 1 /\ Len(session[w].fetched) \in Nat
    BY <1>1, <2>2
  <2>4. /\ Cardinality(rest) \in Nat /\ Cardinality(session[w].toFetch) \in Nat
        /\ Cardinality(rest) = Cardinality(session[w].toFetch) - 1
    BY <1>1, IdSetSize, FS_RemoveElement
  <2>5. Never({"overlap"})' =>
          Len(session[w].fetched) + Cardinality(session[w].toFetch) <= Len(list)
    BY <1>1, Alone DEF ReadInv
  <2>6. Never({"overlap"})' => Len(got) + Cardinality(rest) <= Len(list) /\ Len(got) <= Len(list)
    BY <1>1, <2>3, <2>4, <2>5
  <2>7. /\ session' = [session EXCEPT ![w] = session'[w]]
        /\ \/ session'[w].pc = "hget" /\ session'[w].toFetch = rest
              /\ session'[w].fetched = got
           \/ session'[w].pc = "open" /\ session'[w].version = Len(got)
    <3>1. CASE session' = [session EXCEPT ![w].toFetch = rest, ![w].fetched = got]
      BY <1>1, <3>1 DEF Sessions
    <3>2. CASE session' = [session EXCEPT ![w] = [Idle EXCEPT !.pc = "open", !.version = Len(got)]]
      BY <1>1, <3>2 DEF Idle
    <3> QED
      BY <2>1, <3>1, <3>2
  <2>8. RestInv(w)' /\ (Never({"overlap"})' => ReadInv(w)' /\ WriteInv(w)')
    <3> HIDE DEF rest, got
    <3> QED
      BY <1>1, <2>6, <2>7 DEF RestInv, ReadInv, WriteInv
  <2> QED
    BY <1>1, <1>2, <2>7, <2>8, Alone, SoloStep
<1> QED
  BY <1>3, <1>4

-----------------------------------------------------------------------------
(* The check against the version finds the end of the list.                *)
LEMMA CommitAsyncSolo ==
  ASSUME IInv, SoloInv, NEW w \in Writers, CommitAsync(w) PROVE SoloInv'
<1>1. /\ UNCHANGED <<list, hash>> /\ session[w].pc = "open" /\ Busy(w)
      /\ happened \subseteq happened'
      /\ session \in [Writers -> Sessions] /\ session[w] \in Sessions
      /\ Len(list) \in Nat /\ session[w].version \in Nat
  BY DEF CommitAsync, At, Busy, Note, IInv, Typed, Sessions
<1>2. Never({"overlap"})' => OrderInv'
  BY <1>1, Alone DEF OrderInv
<1>3. CASE Leave(w)
  BY <1>1, <1>2, <1>3, LeaveSolo
<1>4. CASE ~Leave(w)
  <2>1. PICK n \in 1..MaxBatch :
          /\ ~Conflict(w)
          /\ session' = [session EXCEPT ![w].pc = "hset", ![w].changes = Changes(n)]
    BY <1>4 DEF CommitAsync
  <2>2. /\ session' = [session EXCEPT ![w] = session'[w]]
        /\ session'[w].pc = "hset" /\ session'[w].version = session[w].version
    BY <1>1, <2>1 DEF Sessions
  <2>3. Never({"overlap"})' => session[w].version = Len(list)
    BY <1>1, <2>1, Alone DEF ReadInv, Conflict
  <2>4. RestInv(w)' /\ (Never({"overlap"})' => ReadInv(w)' /\ WriteInv(w)')
    BY <1>1, <2>2, <2>3 DEF RestInv, ReadInv, WriteInv
  <2> QED
    BY <1>1, <1>2, <2>2, <2>4, Alone, SoloStep
<1> QED
  BY <1>3, <1>4

(* A session that goes on to another call of its save.                     *)
LEMMA GotoSolo ==
  ASSUME IInv, SoloInv, NEW w \in Writers, NEW call \in Saving,
         session[w].pc \in Saving, Goto(w, call), happened \subseteq happened',
         Never({"overlap"})' => OrderInv' /\ WriteInv(w)'
  PROVE  SoloInv'
<1>1. Busy(w) /\ call \notin {"idle", "open", "lrange", "hget"}
  BY DEF Busy, Saving
<1>2. session' = [session EXCEPT ![w] = session'[w]] /\ session'[w].pc = call
  BY GotoType
<1>3. RestInv(w)' /\ ReadInv(w)'
  BY <1>1, <1>2 DEF RestInv, ReadInv
<1> QED
  BY <1>1, <1>2, <1>3, Alone, SoloStep

(* What a session that saves holds besides its place in the code.          *)
LEMMA GotoKeeps ==
  ASSUME IInv, NEW w \in Writers, NEW call \in Saving, Goto(w, call)
  PROVE  /\ session'[w].pc = call /\ Commit(w)' = Commit(w)
         /\ session'[w].version = session[w].version
         /\ session[w].version \in Nat
BY DEF Goto, Commit, IInv, Typed, Sessions

LEMMA HashSetSolo ==
  ASSUME IInv, SoloInv, NEW w \in Writers, HashSet(w) PROVE SoloInv'
<1>1. PICK c \in Ids : c = Commit(w)
  BY CommitId DEF HashSet, At, Saving
<1>2. /\ UNCHANGED list /\ session[w].pc = "hset" /\ session[w].pc \in Saving /\ Busy(w)
      /\ ~Listed(c) /\ hash \in [Ids -> Nat] /\ list \in Seq(Ids)
  BY <1>1 DEF HashSet, At, Saving, Busy, IInv, Typed, PointInv, Clean
<1>3. PICK e \in Endings("hset") :
        /\ Note(MarksOf("hset", e))
        /\ hash' = IF Ran(e) THEN [hash EXCEPT ![c] = CommitVersion(w)] ELSE hash
        /\ IF Answered(e)
           THEN Goto(w, IF TransactionRetryCount > 0 THEN "llen" ELSE "hdel")
           ELSE Leave(w)
  BY <1>1 DEF HashSet
<1>4. happened \subseteq happened'
  BY <1>3 DEF Note
<1>5. Never({"overlap"})' => OrderInv'
  <2>1. \A i \in DOMAIN list : list[i] \in Ids /\ list[i] # c
    BY <1>2 DEF Listed, ToSet
  <2>2. \A i \in DOMAIN list : hash'[list[i]] = hash[list[i]]
    BY <1>2, <1>3, <2>1
  <2> QED
    BY <1>2, <1>4, <2>2, Alone DEF OrderInv
<1>6. CASE ~Answered(e)
  BY <1>2, <1>3, <1>4, <1>5, <1>6, LeaveSolo
<1>7. CASE Answered(e)
  <2>1. PICK call \in {"llen", "hdel"} : Goto(w, call)
    BY <1>3, <1>7
  <2>2. call \in Saving
    BY DEF Saving
  <2>3. hash'[c] = session[w].version + 1
    BY <1>2, <1>3, <1>7 DEF Answered, Ran, CommitVersion
  <2>4. Never({"overlap"})' => session[w].version = Len(list)
    BY <1>2, <1>4, Alone DEF WriteInv
  <2>5. Never({"overlap"})' => WriteInv(w)'
    BY <1>1, <1>2, <2>1, <2>2, <2>3, <2>4, GotoKeeps DEF WriteInv
  <2> QED
    BY <1>2, <1>4, <1>5, <2>1, <2>2, <2>5, GotoSolo
<1> QED
  BY <1>6, <1>7

LEMMA ListLengthSolo ==
  ASSUME IInv, SoloInv, NEW w \in Writers, ListLength(w) PROVE SoloInv'
<1>1. /\ UNCHANGED <<list, hash>> /\ session[w].pc = "llen" /\ Busy(w)
      /\ session \in [Writers -> Sessions] /\ session[w] \in Sessions
      /\ happened \subseteq happened'
  BY DEF ListLength, At, Busy, Note, IInv, Typed
<1>2. Never({"overlap"})' => OrderInv'
  BY <1>1, Alone DEF OrderInv
<1>3. CASE Leave(w)
  BY <1>1, <1>2, <1>3, LeaveSolo
<1>4. CASE ~Leave(w)
  <2>1. session' = [session EXCEPT ![w].pc = "exec", ![w].length = Len(list)]
    BY <1>4 DEF ListLength
  <2>2. /\ session' = [session EXCEPT ![w] = session'[w]]
        /\ session'[w].pc = "exec" /\ session'[w].version = session[w].version
        /\ session'[w].changes = session[w].changes
    BY <1>1, <2>1 DEF Sessions
  <2>3. RestInv(w)' /\ (Never({"overlap"})' => ReadInv(w)' /\ WriteInv(w)')
    BY <1>1, <2>2, Alone DEF RestInv, ReadInv, WriteInv, Commit
  <2> QED
    BY <1>1, <1>2, <2>2, <2>3, Alone, SoloStep
<1> QED
  BY <1>3, <1>4

LEMMA ExecuteRefusedSolo ==
  ASSUME IInv, SoloInv, NEW w \in Writers, ExecuteRefused(w) PROVE SoloInv'
<1>1. /\ UNCHANGED <<list, hash, happened>> /\ session[w].pc = "exec" /\ Busy(w)
      /\ session[w].pc \in Saving
      /\ session \in [Writers -> Sessions] /\ session[w] \in Sessions
  BY DEF ExecuteRefused, At, Busy, Saving, IInv, Typed
<1>2. Never({"overlap"})' => OrderInv'
  BY <1>1, Alone DEF OrderInv
<1>3. CASE Goto(w, "hdel")
  <2>1. "hdel" \in Saving
    BY DEF Saving
  <2>2. WriteInv(w)'
    BY <1>3, <2>1, GotoKeeps DEF WriteInv
  <2> QED
    BY <1>1, <1>2, <1>3, <2>1, <2>2, GotoSolo
<1>4. CASE session' = [session EXCEPT ![w].pc = "llen", ![w].tries = @ + 1]
  <2>1. /\ session' = [session EXCEPT ![w] = session'[w]]
        /\ session'[w].pc = "llen" /\ session'[w].version = session[w].version
        /\ session'[w].changes = session[w].changes
    BY <1>1, <1>4 DEF Sessions
  <2>2. RestInv(w)' /\ (Never({"overlap"})' => ReadInv(w)' /\ WriteInv(w)')
    BY <1>1, <2>1, Alone DEF RestInv, ReadInv, WriteInv, Commit
  <2> QED
    BY <1>1, <1>2, <2>1, <2>2, Alone, SoloStep
<1> QED
  BY <1>3, <1>4 DEF ExecuteRefused

-----------------------------------------------------------------------------
(* The event goes to the end of the list, where its version says.          *)
LEMMA ExecutePushSolo ==
  ASSUME IInv, SoloInv, NEW w \in Writers, ExecutePush(w) PROVE SoloInv'
<1>1. PICK c \in Ids : c = Commit(w)
  BY CommitId DEF ExecutePush, At, Saving
<1>2. /\ UNCHANGED hash /\ session[w].pc = "exec" /\ session[w].pc \in Saving /\ Busy(w)
      /\ list \in Seq(Ids)
  BY DEF ExecutePush, At, Saving, Busy, IInv, Typed
<1>3. PICK e \in Endings("exec") :
        /\ Note(MarksOf("exec", e))
        /\ list' = IF Ran(e) THEN Append(list, c) ELSE list
        /\ Goto(w, IF Answered(e) THEN "publish" ELSE "hdel")
  BY <1>1 DEF ExecutePush
<1>4. PICK call \in {"publish", "hdel"} :
        call = IF Answered(e) THEN "publish" ELSE "hdel"
  OBVIOUS
<1>5. happened \subseteq happened' /\ call \in Saving /\ Goto(w, call)
  BY <1>3, <1>4 DEF Note, Saving
<1>6. ASSUME Never({"overlap"})' PROVE OrderInv' /\ WriteInv(w)'
  <2>1. OrderInv /\ session[w].version = Len(list) /\ hash[c] = Len(list) + 1
    BY <1>1, <1>2, <1>5, <1>6, Alone DEF WriteInv
  <2>2. CASE ~Ran(e)
    <3>1. call = "hdel" /\ UNCHANGED list
      BY <1>3, <1>4, <2>2 DEF Ran, Answered
    <3> QED
      BY <1>2, <1>5, <2>1, <3>1, GotoKeeps DEF OrderInv, WriteInv
  <2>3. CASE Ran(e)
    <3> DEFINE longer == Append(list, c)
    <3>1. /\ list' = longer /\ Len(longer) = Len(list) + 1 /\ Len(list) \in Nat
          /\ longer[Len(list) + 1] = c
          /\ \A i \in DOMAIN list : longer[i] = list[i]
          /\ \A i \in DOMAIN longer : i = Len(list) + 1 \/ i \in DOMAIN list
      BY <1>2, <1>3, <2>3, AppendPlaces
    <3> HIDE DEF longer
    <3>2. OrderInv'
      BY <1>2, <2>1, <3>1 DEF OrderInv
    <3>3. WriteInv(w)'
      BY <1>1, <1>4, <1>5, <3>1, GotoKeeps DEF WriteInv
    <3> QED
      BY <3>2, <3>3
  <2> QED
    BY <2>2, <2>3
<1> QED
  BY <1>2, <1>5, <1>6, GotoSolo

LEMMA PublishSolo ==
  ASSUME IInv, SoloInv, NEW w \in Writers, Publish(w) PROVE SoloInv'
<1>1. /\ UNCHANGED <<list, hash>> /\ session[w].pc = "publish" /\ session[w].pc \in Saving
      /\ Busy(w) /\ happened \subseteq happened'
  BY DEF Publish, At, Saving, Busy, Note
<1>2. PICK call \in {"returned", "lrem"} : Goto(w, call)
  BY DEF Publish
<1>3. call \in Saving
  BY DEF Saving
<1>4. ASSUME Never({"overlap"})' PROVE OrderInv' /\ WriteInv(w)'
  <2>1. OrderInv /\ WriteInv(w)
    BY <1>1, <1>4, Alone
  <2> QED
    BY <1>1, <1>2, <1>3, <2>1, GotoKeeps DEF OrderInv, WriteInv
<1> QED
  BY <1>1, <1>2, <1>3, <1>4, GotoSolo

(* The compensation removes the event from the end of the list.            *)
LEMMA ListRemoveSolo ==
  ASSUME IInv, SoloInv, NEW w \in Writers, ListRemove(w) PROVE SoloInv'
<1>1. /\ UNCHANGED hash /\ session[w].pc = "lrem" /\ session[w].pc \in Saving /\ Busy(w)
      /\ happened \subseteq happened' /\ Goto(w, "hdel") /\ "hdel" \in Saving
      /\ list \in Seq(Ids) /\ Once(list)
      /\ list' = list \/ list' = Without(list, Commit(w))
  BY DEF ListRemove, At, Saving, Busy, Note, IInv, Typed, ListedOnce, Once
<1>2. WriteInv(w)'
  BY <1>1, GotoKeeps DEF WriteInv
<1>3. ASSUME Never({"overlap"})' PROVE OrderInv'
  <2>1. OrderInv /\ Len(list) >= 1 /\ Commit(w) = list[Len(list)]
    BY <1>1, <1>3, Alone DEF WriteInv
  <2>2. CASE list' = list
    BY <1>1, <2>1, <2>2 DEF OrderInv
  <2>3. CASE list' = Without(list, Commit(w))
    <3>1. /\ list' \in Seq(Ids) /\ Len(list') = Len(list) - 1 /\ Len(list) \in Nat
          /\ \A j \in 1..(Len(list) - 1) : list'[j] = list[j]
      BY <1>1, <2>1, <2>3, WithoutLast, WithoutSet
    <3>2. \A i \in DOMAIN list' : i \in DOMAIN list /\ list'[i] = list[i]
      BY <1>1, <3>1
    <3> QED
      BY <1>1, <2>1, <3>2 DEF OrderInv
  <2> QED
    BY <1>1, <2>2, <2>3
<1> QED
  BY <1>1, <1>2, <1>3, GotoSolo

LEMMA HashDeleteSolo ==
  ASSUME IInv, SoloInv, NEW w \in Writers, HashDelete(w) PROVE SoloInv'
<1>1. /\ UNCHANGED list /\ Leave(w) /\ Busy(w) /\ happened \subseteq happened'
      /\ hash' = hash \/ hash' = [hash EXCEPT ![Commit(w)] = NoData]
      /\ hash \in [Ids -> Nat] /\ list \in Seq(Ids)
  BY DEF HashDelete, At, Busy, Note, IInv, Typed
<1>2. \A i \in DOMAIN list : list[i] \in Ids
  BY <1>1
<1>3. \A id \in Ids : hash'[id] \in {NoData, hash[id]}
  BY <1>1
<1>4. Never({"overlap"})' => OrderInv'
  BY <1>1, <1>2, <1>3, Alone DEF OrderInv
<1> QED
  BY <1>1, <1>4, LeaveSolo

(* Letting go of a session, however it ends.                               *)
LEMMA EndSolo ==
  ASSUME IInv, SoloInv, NEW w \in Writers, Abandon(w) \/ Return(w) \/ Crash(w)
  PROVE  SoloInv'
<1>1. /\ UNCHANGED <<list, hash>> /\ Leave(w) /\ Busy(w) /\ happened \subseteq happened'
  BY DEF Abandon, Return, Crash, At, Busy, Note
<1>2. Never({"overlap"})' => OrderInv'
  BY <1>1, Alone DEF OrderInv
<1> QED
  BY <1>1, <1>2, LeaveSolo

LEMMA NextSoloInv == IInv /\ SoloInv /\ [Next]_vars => SoloInv'
<1> SUFFICES ASSUME IInv, SoloInv, [Next]_vars PROVE SoloInv'
  OBVIOUS
<1>1. CASE UNCHANGED vars
  BY <1>1 DEF vars, SoloInv, RestInv, AloneInv, OrderInv, Busy, ReadInv, WriteInv, Never, Commit
<1>2. ASSUME NEW w \in Writers, Open(w) PROVE SoloInv'
  BY <1>2, OpeningSolo, ListRangeSolo, HashGetSolo, EndSolo DEF Open
<1>3. ASSUME NEW w \in Writers, Save(w) PROVE SoloInv'
  BY <1>3, HashSetSolo, ListLengthSolo, ExecutePushSolo, ExecuteRefusedSolo, PublishSolo,
     ListRemoveSolo, HashDeleteSolo, EndSolo DEF Save
<1> QED
  BY <1>1, <1>2, <1>3, CommitAsyncSolo, EndSolo DEF Next

LEMMA AlwaysSolo == Spec => [](IInv /\ SoloInv)
<1>1. Init => IInv /\ SoloInv
  BY InitIInv, InitSoloInv
<1>2. (IInv /\ SoloInv) /\ [Next]_vars => (IInv /\ SoloInv)'
  BY NextIInv, NextSoloInv
<1> QED
  BY <1>1, <1>2, PTL DEF Spec

(* Sessions that come one after another keep the versions in step with the *)
(* places in the list, whatever fails: Repository's check against the      *)
(* version is all it takes.                                                *)
THEOREM VersionsFollowTheList == Spec => []StreamInOrder
<1>1. IInv /\ SoloInv => StreamInOrder
  BY DEF SoloInv, AloneInv, OrderInv, StreamInOrder
<1> QED
  BY <1>1, AlwaysSolo, PTL

-----------------------------------------------------------------------------
(* What is done to an event that is not of this save, or to none.          *)
Kept(w) ==
    \A i \in DOMAIN list : list[i] # Commit(w) =>
      i \in DOMAIN list' /\ list'[i] = list[i] /\ hash'[list[i]] = hash[list[i]]

LEMMA SaveKeeps ==
  ASSUME IInv, SoloInv, NEW w \in Writers, Save(w), Never({"overlap"})'
  PROVE  Kept(w)
<1>1. PICK c \in Ids : c = Commit(w)
  BY CommitId DEF Save, HashSet, ListLength, ExecutePush, ExecuteRefused, Publish, ListRemove,
     HashDelete, Return, At, Saving
<1>2. list \in Seq(Ids) /\ hash \in [Ids -> Nat] /\ \A i \in DOMAIN list : list[i] \in Ids
  BY DEF IInv, Typed
<1>3. CASE UNCHANGED <<list, hash>>
  BY <1>3 DEF Kept
<1>4. CASE HashSet(w) \/ HashDelete(w)
  <2>1. UNCHANGED list /\ \A id \in Ids \ {c} : hash'[id] = hash[id]
    BY <1>1, <1>2, <1>4 DEF HashSet, HashDelete
  <2> QED
    BY <1>1, <1>2, <2>1 DEF Kept
<1>5. CASE ExecutePush(w)
  <2>1. UNCHANGED hash /\ (list' = list \/ list' = Append(list, c))
    BY <1>1, <1>5 DEF ExecutePush
  <2>2. \A i \in DOMAIN list : i \in DOMAIN list' /\ list'[i] = list[i]
    BY <1>2, <2>1, AppendPlaces
  <2> QED
    BY <2>1, <2>2 DEF Kept
<1>6. CASE ListRemove(w)
  <2>1. UNCHANGED hash /\ (list' = list \/ list' = Without(list, c))
    BY <1>1, <1>6 DEF ListRemove
  <2>2. /\ Once(list) /\ Len(list) >= 1 /\ list[Len(list)] = c
    <3>1. happened \subseteq happened' /\ session[w].pc = "lrem" /\ Busy(w)
      BY <1>6 DEF ListRemove, Note, At, Busy
    <3> QED
      BY <1>1, <3>1, Alone DEF WriteInv, IInv, ListedOnce, Once
  <2>3. CASE list' = list
    BY <2>1, <2>3 DEF Kept
  <2>4. CASE list' = Without(list, c)
    <3>1. /\ list' \in Seq(Ids) /\ Len(list') = Len(list) - 1 /\ Len(list) \in Nat
          /\ \A j \in 1..(Len(list) - 1) : list'[j] = list[j]
      BY <1>2, <2>2, <2>4, WithoutLast, WithoutSet
    <3>2. /\ \A i \in DOMAIN list : i = Len(list) \/ i \in 1..(Len(list) - 1)
          /\ DOMAIN list' = 1..(Len(list) - 1)
      BY <1>2, <3>1
    <3>3. \A i \in DOMAIN list : list[i] # c => i \in DOMAIN list' /\ list'[i] = list[i]
      BY <2>2, <3>1, <3>2
    <3> QED
      BY <1>1, <2>1, <3>3 DEF Kept
  <2> QED
    BY <2>1, <2>3, <2>4
<1> QED
  BY <1>3, <1>4, <1>5, <1>6 DEF Save, ListLength, ExecuteRefused, Publish, Return

(* A saved event keeps its place and its data: what a save touches, none   *)
(* of the saved ones is, and what it takes out of the list is the last.    *)
THEOREM SavedKeepsItsPlace == Spec => SavedIsKept
<1> DEFINE Kept1 ==
      Never({"overlap"})' =>
        \A i \in DOMAIN list : list[i] \in acked =>
          /\ i \in DOMAIN list' /\ list'[i] = list[i]
          /\ hash'[list[i]] = hash[list[i]]
<1>1. IInv /\ SoloInv /\ [Next]_vars => [Kept1]_vars
  <2>1. SUFFICES ASSUME IInv, SoloInv, Next PROVE Kept1
    OBVIOUS
  <2>2. CASE UNCHANGED <<list, hash>>
    BY <2>2
  <2>3. ASSUME NEW w \in Writers, Save(w) PROVE Kept1
    <3>1. Commit(w) \notin acked
      BY <2>1, <2>3, CommitId DEF Save, HashSet, ListLength, ExecutePush, ExecuteRefused, Publish,
         ListRemove, HashDelete, Return, At, Saving
    <3> QED
      BY <2>1, <2>3, <3>1, SaveKeeps DEF Kept
  <2> QED
    BY <2>1, <2>2, <2>3 DEF Next, Open, AddNew, StartLoad, ListRange, HashGet, Abandon, CommitAsync,
       Crash
<1> QED
  BY <1>1, AlwaysSolo, PTL DEF Spec, SavedIsKept

-----------------------------------------------------------------------------
(* The log of the abstract stream.  With nothing left behind, the events   *)
(* that are out are the first ones of the list: all of it, but for one at  *)
(* the end that the only session is about to announce or to take back.     *)
LogInv ==
    Never(Marks) =>
      \E n \in 0..Len(list) :
        /\ Out = 1..n
        /\ AnnouncedList = [k \in 1..n |-> list[k]]
        /\ \A k \in 1..n : hash[list[k]] = k

(* The k-th number of 1..n is k.                                           *)
LEMMA NthOfPrefix ==
  ASSUME NEW n \in Nat, Out = 1..n
  PROVE  AnnouncedList = [k \in 1..n |-> list[k]]
<1>1. ASSUME NEW m \in 0..n PROVE Cardinality(1..m) = m
  <2>1. /\ 1 \in Int /\ m \in Int
        /\ (IF 1 > m THEN 0 ELSE m - 1 + 1) = m
    OBVIOUS
  <2> QED
    BY <2>1, FS_Interval
<1>2. ASSUME NEW i \in 1..n PROVE Cardinality({j \in Out : j <= i}) = i
  <2>1. {j \in Out : j <= i} = 1..i /\ i \in 0..n
    OBVIOUS
  <2> QED
    BY <1>1, <2>1
<1>3. ASSUME NEW k \in 1..n PROVE Nth(k) = k
  <2>1. k \in Out /\ Cardinality({j \in Out : j <= k}) = k
    BY <1>2, <1>3
  <2>2. \A i \in Out : Cardinality({j \in Out : j <= i}) = k => i = k
    BY <1>2
  <2> QED
    BY <2>1, <2>2 DEF Nth
<1>4. Cardinality(Out) = n
  BY <1>1
<1> QED
  BY <1>3, <1>4 DEF AnnouncedList

(* A listed event is out, or it is the last and its save is not over.      *)
LEMMA ListedIsOut ==
  ASSUME IInv, SoloInv, Never(Marks), NEW i \in DOMAIN list
  PROVE  \/ list[i] \in announced /\ hash[list[i]] = i
         \/ i = Len(list)
<1>1. /\ Never(InDoubt) /\ Never({"overlap"}) /\ Never({"exec", "lrem"})
  BY DEF Never, Marks, InDoubt
<1>2. list \in Seq(Ids) /\ list[i] \in Ids /\ Listed(list[i]) /\ Once(list)
  BY DEF IInv, Typed, Listed, ToSet, ListedOnce, Once
<1>3. CASE Whole(list[i])
  BY <1>1, <1>3 DEF Whole, HasData, SoloInv, AloneInv, OrderInv
<1>4. CASE ~Whole(list[i])
  <2>1. PICK w \in Writers : session[w].pc \in Saving /\ list[i] = Commit(w)
    BY <1>1, <1>2, <1>4 DEF IInv, SettledInv, Clean
  <2>2. session[w].pc \in {"publish", "lrem", "returned"}
    BY <1>1, <1>2, <2>1 DEF IInv, PointInv, Saving, Clean
  <2>3. Len(list) >= 1 /\ list[Len(list)] = Commit(w)
    BY <1>1, <2>2 DEF SoloInv, AloneInv, WriteInv
  <2>4. Len(list) \in DOMAIN list
    BY <1>2, <2>3
  <2> QED
    BY <1>2, <2>1, <2>3, <2>4 DEF Once
<1> QED
  BY <1>3, <1>4

LEMMA LogIsPrefix == IInv /\ SoloInv => LogInv
<1> SUFFICES ASSUME IInv, SoloInv, Never(Marks)
             PROVE  \E n \in 0..Len(list) :
                      /\ Out = 1..n
                      /\ AnnouncedList = [k \in 1..n |-> list[k]]
                      /\ \A k \in 1..n : hash[list[k]] = k
  BY DEF LogInv
<1>1. Len(list) \in Nat /\ DOMAIN list = 1..Len(list)
  BY DEF IInv, Typed
<1>2. \A i \in 1..(Len(list) - 1) : list[i] \in announced /\ hash[list[i]] = i
  BY <1>1, ListedIsOut
<1>3. PICK n \in 0..Len(list) : Out = 1..n
  <2>1. CASE Len(list) \in Out
    <3>1. Out = 1..Len(list)
      BY <1>1, <1>2, <2>1 DEF Out
    <3>2. Len(list) \in 0..Len(list)
      BY <1>1
    <3> QED
      BY <3>1, <3>2
  <2>2. CASE Len(list) \notin Out /\ Len(list) = 0
    <3>1. Out = 1..0
      BY <1>1, <2>2 DEF Out
    <3> QED
      BY <1>1, <3>1
  <2>3. CASE Len(list) \notin Out /\ Len(list) # 0
    <3>1. Out = 1..(Len(list) - 1)
      BY <1>1, <1>2, <2>3 DEF Out
    <3>2. Len(list) - 1 \in 0..Len(list)
      BY <1>1, <2>3
    <3> QED
      BY <3>1, <3>2
  <2> QED
    BY <2>1, <2>2, <2>3
<1>4. \A k \in 1..n : hash[list[k]] = k
  <2> SUFFICES ASSUME NEW k \in 1..n PROVE hash[list[k]] = k
    OBVIOUS
  <2>1. k \in DOMAIN list /\ list[k] \in announced /\ list[k] \in Ids
    BY <1>1, <1>3 DEF Out, IInv, Typed
  <2>2. hash[list[k]] # NoData
    BY <2>1 DEF IInv, AnnouncedInv, Never, Marks, HasData
  <2>3. OrderInv
    BY DEF SoloInv, AloneInv, Never, Marks
  <2> QED
    BY <2>1, <2>2, <2>3 DEF OrderInv
<1> QED
  BY <1>1, <1>3, <1>4, NthOfPrefix

-----------------------------------------------------------------------------
(* A step that neither announces an event nor moves an announced one.      *)
LEMMA SameLog ==
  ASSUME IInv, LogInv, LogInv', Never(Marks), Never(Marks)', UNCHANGED announced,
         \A i \in DOMAIN list : list[i] \in announced => i \in DOMAIN list' /\ list'[i] = list[i],
         \A i \in DOMAIN list' : list'[i] \in announced => i \in DOMAIN list /\ list'[i] = list[i]
  PROVE  UNCHANGED AnnouncedList
<1>1. PICK n \in 0..Len(list) : Out = 1..n /\ AnnouncedList = [k \in 1..n |-> list[k]]
  BY DEF LogInv
<1>2. PICK m \in 0..Len(list') : Out' = 1..m /\ AnnouncedList' = [k \in 1..m |-> list'[k]]
  BY DEF LogInv
<1>3. Out' = Out
  BY DEF Out
<1>4. 1..n = 1..m /\ \A k \in 1..n : list'[k] = list[k]
  BY <1>1, <1>2, <1>3 DEF Out
<1> QED
  BY <1>1, <1>2, <1>4

(* Publishing puts the event at the end of the list in the log.            *)
LEMMA PublishStores ==
  ASSUME IInv, SoloInv, LogInv, LogInv', NEW w \in Writers, Publish(w),
         Never(Marks), Never(Marks)', announced' # announced
  PROVE  \E id \in Ids : Stream!Store(id)
<1>1. PICK c \in Ids : c = Commit(w)
  BY CommitId DEF Publish, At, Saving
<1>2. /\ UNCHANGED <<list, hash, acked>> /\ announced' = announced \cup {c}
      /\ c \notin announced /\ Len(list) >= 1 /\ list[Len(list)] = c
      /\ Len(list) \in Nat /\ DOMAIN list = 1..Len(list)
  BY <1>1 DEF Publish, At, IInv, Typed, PointInv, SoloInv, AloneInv, WriteInv, Never, Marks
<1>3. PICK n \in 0..Len(list) :
        /\ Out = 1..n /\ AnnouncedList = [k \in 1..n |-> list[k]]
        /\ \A k \in 1..n : hash[list[k]] = k
  BY DEF LogInv
<1>4. PICK m \in 0..Len(list') :
        /\ Out' = 1..m /\ AnnouncedList' = [k \in 1..m |-> list'[k]]
        /\ \A k \in 1..m : hash'[list'[k]] = k
  BY DEF LogInv
<1>5. m = n + 1 /\ m = Len(list)
  <2>1. Len(list) \notin Out /\ Len(list) \in Out' /\ Out \subseteq Out'
    BY <1>2 DEF Out
  <2>2. \A i \in Out' : i = Len(list) \/ i \in Out
    BY <1>2 DEF Out, IInv, ListedOnce
  <2>3. Len(list) \in 1..m /\ Len(list) \notin 1..n /\ 1..n \subseteq 1..m
    BY <1>3, <1>4, <2>1
  <2>4. m \in 0..Len(list) /\ n \in 0..Len(list)
    BY <1>2, <1>3, <1>4
  <2>5. m = Len(list) /\ n < m
    <3>1. PICK l \in Nat : l = Len(list) /\ l >= 1
      BY <1>2
    <3>2. m \in Nat /\ n \in Nat /\ m <= l /\ n <= l /\ l \in 1..m /\ l \notin 1..n
      BY <2>3, <2>4, <3>1
    <3>3. m = l /\ n < l
      BY <3>1, <3>2
    <3> QED
      BY <3>1, <3>3
  <2>6. \A i \in 1..m : i = Len(list) \/ i \in 1..n
    BY <1>3, <1>4, <2>2
  <2>7. m - 1 = 0 \/ m - 1 \in 1..n
    BY <2>4, <2>5, <2>6
  <2> QED
    BY <2>4, <2>5, <2>7
<1> DEFINE Log == [i \in DOMAIN AnnouncedList |->
                     [id |-> AnnouncedList[i], version |-> hash[AnnouncedList[i]]]]
           event == [id |-> c, version |-> n + 1]
<1>6. Log = [i \in 1..n |-> [id |-> list[i], version |-> i]]
  BY <1>3
<1>7. Log' = [i \in 1..(n + 1) |-> [id |-> list[i], version |-> i]]
  BY <1>2, <1>4, <1>5
<1>8. Len(Log) = n /\ DOMAIN Log = 1..n
  BY <1>3, <1>6
<1>9. Log' = Append(Log, event)
  BY <1>2, <1>3, <1>5, <1>6, <1>7
<1>10. c \notin Stream!Logged
  <2>1. \A i \in 1..n : list[i] \in announced
    BY <1>3 DEF Out
  <2>2. \A i \in DOMAIN AnnouncedList : AnnouncedList[i] \in announced
    BY <1>3, <2>1
  <2> QED
    BY <1>2, <2>2 DEF Stream!Logged
<1> QED
  BY <1>1, <1>2, <1>8, <1>9, <1>10 DEF Stream!Store

(* What a commit of one change reports as saved is in the log.             *)
LEMMA ReturnAcknowledges ==
  ASSUME IInv, LogInv, NEW w \in Writers, Return(w), Never(Marks)
  PROVE  \E ids \in SUBSET Ids : Stream!Acknowledge(ids)
<1>1. PICK c \in Ids : c = Commit(w)
  BY CommitId DEF Return, At, Saving
<1>2. /\ UNCHANGED <<list, hash, announced>> /\ acked' = acked \cup Owned(w)
      /\ Listed(c) /\ c \in announced /\ \A id \in Owned(w) : id = c
  BY <1>1 DEF Return, At, Owned, IInv, PointInv, Whole, BatchInv, Never, Marks
<1>3. PICK n \in 0..Len(list) : Out = 1..n /\ AnnouncedList = [k \in 1..n |-> list[k]]
  BY DEF LogInv
<1>4. PICK i \in Out : list[i] = c
  BY <1>2 DEF Listed, ToSet, Out
<1>5. c \in Stream!Logged
  BY <1>3, <1>4 DEF Stream!Logged
<1>6. UNCHANGED AnnouncedList
  BY <1>2 DEF AnnouncedList, Nth, Out
<1>7. Stream!Acknowledge(Owned(w)) /\ Owned(w) \in SUBSET Ids
  BY <1>2, <1>5, <1>6 DEF Stream!Acknowledge
<1> QED
  BY <1>7

(* What a step does to the log and to the acknowledgements is a step of    *)
(* the abstract stream, or none.                                           *)
LEMMA StepRefines ==
  IInv /\ SoloInv /\ LogInv /\ LogInv' /\ [Next]_vars
    => [Never(Marks)' => [Stream!Next]_<<AnnouncedList, acked>>]_vars
<1> SUFFICES ASSUME IInv, SoloInv, LogInv, LogInv', Next, Never(Marks)'
             PROVE  Stream!Next \/ UNCHANGED <<AnnouncedList, acked>>
  OBVIOUS
<1>1. PICK w \in Writers : Open(w) \/ CommitAsync(w) \/ Save(w) \/ Crash(w)
  BY DEF Next
<1>2. Never(Marks)
  <2>1. happened \subseteq happened'
    BY <1>1 DEF Open, AddNew, StartLoad, ListRange, HashGet, Abandon, CommitAsync, Save, HashSet,
       ListLength, ExecutePush, ExecuteRefused, Publish, ListRemove, HashDelete, Return, Crash,
       NoteOpening, Note
  <2> QED
    BY <2>1 DEF Never
<1>3. CASE UNCHANGED <<list, announced, acked>>
  BY <1>3 DEF AnnouncedList, Nth, Out
<1>4. CASE Return(w)
  BY <1>2, <1>4, ReturnAcknowledges DEF Stream!Next
<1>5. CASE Publish(w) /\ announced' # announced
  BY <1>2, <1>5, PublishStores DEF Stream!Next
<1>6. CASE ExecutePush(w) \/ ListRemove(w)
  <2>1. PICK c \in Ids : c = Commit(w)
    BY <1>6, CommitId DEF ExecutePush, ListRemove, At, Saving
  <2>2. /\ UNCHANGED <<announced, acked, hash>> /\ c \notin announced /\ list \in Seq(Ids)
    BY <1>2, <1>6, <2>1
       DEF ExecutePush, ListRemove, At, IInv, Typed, PointInv, Never, Marks
  <2>3. CASE list' = list
    BY <2>2, <2>3 DEF AnnouncedList, Nth, Out
  <2>4. CASE list' = Append(list, c)
    <3>1. /\ \A i \in DOMAIN list : i \in DOMAIN list' /\ list'[i] = list[i]
          /\ \A i \in DOMAIN list' : list'[i] = c \/ i \in DOMAIN list
      BY <2>2, <2>4, AppendPlaces
    <3> QED
      BY <1>2, <2>2, <3>1, SameLog
  <2>5. CASE list' = Without(list, c) /\ ListRemove(w)
    <3>1. Once(list) /\ Len(list) >= 1 /\ list[Len(list)] = c
      BY <1>2, <2>1, <2>5
         DEF ListRemove, At, IInv, ListedOnce, Once, SoloInv, AloneInv, WriteInv, Never, Marks
    <3>2. /\ list' \in Seq(Ids) /\ Len(list') = Len(list) - 1
          /\ \A j \in 1..(Len(list) - 1) : list'[j] = list[j]
      BY <2>2, <2>5, <3>1, WithoutLast, WithoutSet
    <3>3. /\ \A i \in DOMAIN list' : i \in DOMAIN list /\ list'[i] = list[i]
          /\ \A i \in DOMAIN list : i = Len(list) \/ i \in DOMAIN list'
      BY <2>2, <3>1, <3>2
    <3> QED
      BY <1>2, <2>2, <3>1, <3>3, SameLog
  <2> QED
    BY <1>6, <2>1, <2>3, <2>4, <2>5 DEF ExecutePush, ListRemove
<1> QED
  BY <1>1, <1>3, <1>4, <1>5, <1>6
     DEF Open, AddNew, StartLoad, ListRange, HashGet, Abandon, CommitAsync, Save, HashSet,
         ListLength, ExecuteRefused, Publish, HashDelete, Crash

(* The Redis store implements the abstract event stream for sessions that  *)
(* come one after another with one change each, as long as nothing is left *)
(* behind: publishing is what puts an event in the log, and the order of   *)
(* the list, the data and the messages make it the next version.           *)
THEOREM Refinement == Spec => ImplementsEventStream
<1>1. Init => Stream!Init
  <2> SUFFICES ASSUME Init PROVE Stream!Init
    OBVIOUS
  <2>1. Out = 1..0
    BY DEF Init, Out
  <2>2. AnnouncedList = [k \in 1..0 |-> list[k]]
    BY <2>1, NthOfPrefix
  <2> QED
    BY <2>2 DEF Init, Stream!Init
<1>2. Spec => []LogInv
  BY LogIsPrefix, AlwaysSolo, PTL
<1>3. Spec => [][Never(Marks)' => [Stream!Next]_<<AnnouncedList, acked>>]_vars
  BY <1>2, StepRefines, AlwaysSolo, PTL DEF Spec
<1>4. Spec => Stream!Init
  BY <1>1 DEF Spec
<1> QED
  BY <1>3, <1>4 DEF ImplementsEventStream
=============================================================================
