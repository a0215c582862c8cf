------------------------- MODULE ReliableQueue_proofs -------------------------
(***************************************************************************)
(* The queue keeps its promises for any number of instances, retriers and  *)
(* messages, any choice of the calls that may fail and any number of       *)
(* faults.                                                                 *)
(***************************************************************************)
EXTENDS ReliableQueue, FiniteSetTheorems, TLAPS

-----------------------------------------------------------------------------
(* What the operations on lists do.                                        *)

LEMMA PushFacts ==
  ASSUME NEW s \in Seq(Messages), NEW m \in Messages
  PROVE  /\ PushLeft(m, s) \in Seq(Messages)
         /\ Len(PushLeft(m, s)) = Len(s) + 1
         /\ PushLeft(m, s)[1] = m
         /\ \A i \in 1..Len(s) : PushLeft(m, s)[i + 1] = s[i]
         /\ ToSet(PushLeft(m, s)) = {m} \cup ToSet(s)
<1>1. /\ PushLeft(m, s) \in Seq(Messages)
      /\ Len(PushLeft(m, s)) = Len(s) + 1
      /\ PushLeft(m, s)[1] = m
      /\ \A i \in 1..Len(s) : PushLeft(m, s)[i + 1] = s[i]
  BY DEF PushLeft
<1>2. \A i \in 1..(Len(s) + 1) : i = 1 \/ (i - 1 \in 1..Len(s) /\ i = (i - 1) + 1)
  OBVIOUS
<1>3. \A i \in 1..Len(s) : i + 1 \in 1..(Len(s) + 1)
  OBVIOUS
<1>4. ToSet(PushLeft(m, s)) = {m} \cup ToSet(s)
  <2>1. ToSet(PushLeft(m, s)) \subseteq {m} \cup ToSet(s)
    <3>1. \A i \in DOMAIN PushLeft(m, s) : PushLeft(m, s)[i] \in {m} \cup ToSet(s)
      <4> TAKE i \in DOMAIN PushLeft(m, s)
      <4>1. i \in 1..(Len(s) + 1) /\ DOMAIN s = 1..Len(s)
        BY <1>1
      <4>2. CASE i = 1
        BY <1>1, <4>2
      <4>3. CASE i # 1
        <5>1. i - 1 \in DOMAIN s /\ PushLeft(m, s)[i] = s[i - 1]
          BY <1>1, <1>2, <4>1, <4>3
        <5> QED
          BY <5>1 DEF ToSet
      <4> QED
        BY <4>2, <4>3
    <3> QED
      BY <3>1 DEF ToSet
  <2>2. {m} \cup ToSet(s) \subseteq ToSet(PushLeft(m, s))
    <3>1. DOMAIN PushLeft(m, s) = 1..(Len(s) + 1) /\ 1 \in 1..(Len(s) + 1)
      BY <1>1
    <3>2. m \in ToSet(PushLeft(m, s))
      BY <1>1, <3>1 DEF ToSet
    <3>3. ASSUME NEW i \in DOMAIN s PROVE s[i] \in ToSet(PushLeft(m, s))
      BY <1>1, <1>3, <3>1 DEF ToSet
    <3> QED
      BY <3>2, <3>3 DEF ToSet
  <2> QED
    BY <2>1, <2>2
<1> QED
  BY <1>1, <1>4

LEMMA PopFacts ==
  ASSUME NEW s \in Seq(Messages), s # <<>>
  PROVE  /\ Rightmost(s) \in Messages
         /\ Rightmost(s) = s[Len(s)] /\ Len(s) \in 1..Len(s)
         /\ PopRight(s) \in Seq(Messages)
         /\ Len(PopRight(s)) = Len(s) - 1
         /\ \A i \in 1..(Len(s) - 1) : PopRight(s)[i] = s[i]
         /\ ToSet(s) = {Rightmost(s)} \cup ToSet(PopRight(s))
<1>0. Len(s) \in Nat \ {0} /\ Len(s) \in 1..Len(s) /\ DOMAIN s = 1..Len(s)
  OBVIOUS
<1>1. /\ Rightmost(s) \in Messages
      /\ Rightmost(s) = s[Len(s)] /\ Len(s) \in 1..Len(s)
      /\ PopRight(s) \in Seq(Messages)
      /\ Len(PopRight(s)) = Len(s) - 1
      /\ \A i \in 1..(Len(s) - 1) : PopRight(s)[i] = s[i]
  <2>1. \A i \in 1..(Len(s) - 1) : i \in 1..Len(s)
    BY <1>0
  <2>2. PopRight(s) = SubSeq(s, 1, Len(s) - 1) /\ Len(s) - 1 \in Nat
    BY <1>0 DEF PopRight
  <2>3. PopRight(s) \in Seq(Messages) /\ Len(PopRight(s)) = Len(s) - 1
    BY <1>0, <2>2
  <2>4. \A i \in 1..(Len(s) - 1) : PopRight(s)[i] = s[i]
    BY <1>0, <2>2
  <2> QED
    BY <1>0, <2>3, <2>4 DEF Rightmost
<1>2. \A i \in 1..Len(s) : i = Len(s) \/ i \in 1..(Len(s) - 1)
  OBVIOUS
<1>3. ToSet(s) = {Rightmost(s)} \cup ToSet(PopRight(s))
  <2>1. DOMAIN PopRight(s) = 1..(Len(s) - 1) /\ 1..(Len(s) - 1) \subseteq 1..Len(s)
    BY <1>0, <1>1
  <2>2. ToSet(PopRight(s)) = {s[i] : i \in 1..(Len(s) - 1)}
    BY <1>1, <2>1 DEF ToSet
  <2>3. ToSet(s) = {s[i] : i \in 1..Len(s)}
    BY <1>0 DEF ToSet
  <2> QED
    BY <1>0, <1>1, <1>2, <2>1, <2>2, <2>3
<1> QED
  BY <1>1, <1>3

LEMMA OldestFacts ==
  ASSUME NEW s \in Seq(Messages), NEW n \in Nat \ {0}
  PROVE  Oldest(s, n) \in Seq(Messages) /\ ToSet(Oldest(s, n)) \subseteq ToSet(s)
<1> DEFINE from == IF Len(s) > n THEN Len(s) - n + 1 ELSE 1
<1>1. from \in Nat \ {0} /\ Len(s) \in Nat
  OBVIOUS
<1>2. /\ Oldest(s, n) = SubSeq(s, from, Len(s))
  BY DEF Oldest
<1> HIDE DEF from
<1>3. Oldest(s, n) \in Seq(Messages)
  BY <1>1, <1>2
<1>4. \A i \in 1..Len(Oldest(s, n)) :
         from + i - 1 \in 1..Len(s) /\ Oldest(s, n)[i] = s[from + i - 1]
  <2>1. Len(Oldest(s, n)) = IF from <= Len(s) THEN Len(s) - from + 1 ELSE 0
    BY <1>1, <1>2
  <2> QED
    BY <1>1, <1>2, <2>1
<1>5. DOMAIN Oldest(s, n) = 1..Len(Oldest(s, n)) /\ DOMAIN s = 1..Len(s)
  BY <1>3
<1>6. \A i \in DOMAIN Oldest(s, n) : \E j \in DOMAIN s : Oldest(s, n)[i] = s[j]
  BY <1>4, <1>5
<1> QED
  BY <1>3, <1>6 DEF ToSet

(* The rank of an entry that is kept is its place in the new list: to give *)
(* each entry its rank is one-to-one, and onto as there are as many ranks  *)
(* as entries.                                                             *)
LEMMA KeepFacts ==
  ASSUME NEW s \in Seq(Messages), NEW S
  PROVE  Keep(s, S) \in Seq(Messages) /\ ToSet(Keep(s, S)) = ToSet(s) \cap S
<1> DEFINE kept == {i \in DOMAIN s : s[i] \in S}
           upto(i) == {j \in kept : j <= i}
           rank == [i \in kept |-> Cardinality(upto(i))]
           n == Cardinality(kept)
<1>1. DOMAIN s = 1..Len(s) /\ Len(s) \in Nat
  OBVIOUS
<1>2. kept \subseteq 1..Len(s)
  BY <1>1
<1>3. IsFiniteSet(kept) /\ n \in Nat
  <2>1. IsFiniteSet(1..Len(s))
    BY <1>1, FS_Interval
  <2>2. IsFiniteSet(kept)
    BY <1>2, <2>1, FS_Subset
  <2> QED
    BY <2>2, FS_CardinalityType
<1>4. \A i \in kept : /\ IsFiniteSet(upto(i)) /\ Cardinality(upto(i)) \in Nat
                      /\ Cardinality(upto(i)) <= n
  <2> TAKE i \in kept
  <2>1. upto(i) \in SUBSET kept
    OBVIOUS
  <2> HIDE DEF kept
  <2> QED
    BY <1>3, <2>1, FS_Subset, FS_CardinalityType
<1>5. \A i \in kept : rank[i] \in 1..n
  <2> TAKE i \in kept
  <2>1. i \in upto(i)
    BY <1>2
  <2>2. Cardinality(upto(i)) # 0
    BY <1>4, <2>1, FS_EmptySet
  <2>3. rank[i] = Cardinality(upto(i))
    OBVIOUS
  <2> HIDE DEF upto, rank, n
  <2> QED
    BY <1>3, <1>4, <2>2, <2>3
<1>6. \A i, j \in kept : i < j => rank[i] # rank[j]
  <2> SUFFICES ASSUME NEW i \in kept, NEW j \in kept, i < j PROVE rank[i] # rank[j]
    OBVIOUS
  <2>1. upto(i) \in SUBSET upto(j) /\ j \in upto(j) /\ j \notin upto(i)
    BY <1>2
  <2>2. IsFiniteSet(upto(j))
    BY <1>4
  <2>3. Cardinality(upto(j)) # Cardinality(upto(i))
    <3>1. upto(j) # upto(i)
      BY <2>1
    <3> HIDE DEF upto
    <3> QED
      BY <2>1, <2>2, <3>1, FS_Subset
  <2> QED
    BY <2>3
<1>7. rank \in Injection(kept, 1..n)
  <2>1. \A i, j \in kept : i = j \/ i < j \/ j < i
    BY <1>2
  <2>2. rank \in [kept -> 1..n]
    BY <1>5
  <2>3. \A i, j \in kept : rank[i] = rank[j] => i = j
    BY <1>6, <2>1
  <2> QED
    BY <2>2, <2>3 DEF Injection, IsInjective
<1>8. \A k \in 1..n : \E i \in kept : rank[i] = k
  <2>1. IsFiniteSet(1..n) /\ Cardinality(1..n) = n
    BY <1>3, FS_Interval
  <2> HIDE DEF rank, kept
  <2>2. rank \in Surjection(kept, 1..n)
    BY <1>7, <2>1, FS_Injection
  <2> QED
    BY <2>2 DEF Surjection
<1> DEFINE pick == [k \in 1..n |-> CHOOSE i \in kept : rank[i] = k]
<1>9. Keep(s, S) = [k \in 1..n |-> s[pick[k]]]
  <2>1. Keep(s, S) = [k \in 1..n |-> s[CHOOSE i \in kept : Cardinality(upto(i)) = k]]
    BY Zenon DEF Keep
  <2>2. \A i \in kept : rank[i] = Cardinality(upto(i))
    OBVIOUS
  <2>3. \A k \in 1..n : pick[k] = CHOOSE i \in kept : rank[i] = k
    OBVIOUS
  <2> HIDE DEF kept, upto, rank, n, pick
  <2>4. ASSUME NEW k \in 1..n
        PROVE  (CHOOSE i \in kept : Cardinality(upto(i)) = k) = pick[k]
    <3>1. \A i : (i \in kept /\ Cardinality(upto(i)) = k) <=> (i \in kept /\ rank[i] = k)
      BY <2>2
    <3> QED
      BY <2>3, <3>1
  <2> QED
    BY <2>1, <2>4
<1>10. \A k \in 1..n : pick[k] \in kept /\ rank[pick[k]] = k
  <2> HIDE DEF rank, kept
  <2> QED
    BY <1>8
<1>11. \A i \in kept : pick[rank[i]] = i
  <2>1. \A i, j \in kept : rank[i] = rank[j] => i = j
    BY <1>7 DEF Injection, IsInjective
  <2> HIDE DEF rank, kept, pick
  <2> QED
    BY <1>5, <1>10, <2>1
<1> HIDE DEF pick, rank, n
<1>12. Keep(s, S) \in Seq(Messages)
  <2>1. \A k \in 1..n : s[pick[k]] \in Messages
    BY <1>2, <1>10
  <2> QED
    BY <1>3, <1>9, <2>1
<1>13. Len(Keep(s, S)) = n /\ DOMAIN Keep(s, S) = 1..n
  BY <1>3, <1>9, <1>12
<1>14. ToSet(Keep(s, S)) = {s[pick[k]] : k \in 1..n}
  BY <1>9, <1>13 DEF ToSet
<1>15. {s[pick[k]] : k \in 1..n} = {s[i] : i \in kept}
  <2> HIDE DEF kept
  <2> QED
    BY <1>5, <1>10, <1>11
<1>16. {s[i] : i \in kept} = ToSet(s) \cap S
  BY DEF ToSet
<1> QED
  BY <1>12, <1>14, <1>15, <1>16

LEMMA WithoutFacts ==
  ASSUME NEW s \in Seq(Messages), NEW m \in Messages
  PROVE  Without(s, m) \in Seq(Messages) /\ ToSet(Without(s, m)) = ToSet(s) \ {m}
<1>1. ToSet(s) \subseteq Messages
  BY DEF ToSet
<1> QED
  BY <1>1, KeepFacts DEF Without

-----------------------------------------------------------------------------
(* The types.                                                              *)

Passes ==
    [pc : {"idle", "move", "get", "decide", "expire", "retry", "delete", "update"},
     toMove : Seq(Messages), length : Nat, i : Nat, processed : Nat,
     message : {0} \cup Messages]

(* A pass has not processed more letters than it has looked at, and has    *)
(* one in hand wherever it works on one.                                   *)
Fits(p) ==
    /\ p.processed <= p.i
    /\ p.pc \in {"decide", "expire", "retry", "delete", "update"} => p.message \in Messages

(* What the types are about, in parts that an action leaves alone or not.  *)
ListTypes ==
    /\ published \in Seq(Messages) /\ processing \in Seq(Messages)
    /\ deadLetters \in Seq(Messages)
    /\ waiting \subseteq {Id[m] : m \in Messages}
WorldTypes ==
    /\ registered \in BOOLEAN /\ enableLock \in BOOLEAN
    /\ nextMessage \in 1..(MaxMessages + 1) /\ unreadable \subseteq Messages
    /\ age \in [Messages -> {"fresh", "stale", "expired"}]
InstanceTypes ==
    /\ locked \in BOOLEAN
    /\ status \in [Instances -> {"down", "added", "subscribed", "up"}]
    /\ due \in [Instances -> Nat]
    /\ callback \in [Instances -> [Messages -> {"none", "run", "bury", "remove"}]]
    /\ faults \in 0..MaxFaults
PassTypes == pass \in [Instances -> Passes] /\ \A n \in Instances : Fits(pass[n])
HistoryTypes ==
    /\ handled \subseteq Messages /\ again \subseteq Messages /\ expired \subseteq Messages
    /\ missed \subseteq Instances /\ happened \subseteq Marks

Types == ListTypes /\ WorldTypes /\ InstanceTypes /\ PassTypes /\ HistoryTypes

LEMMA TypesAreTypeOK == Types => TypeOK
<1> SUFFICES ASSUME Types PROVE TypeOK
  OBVIOUS
<1>1. \A n \in Instances : IndexToGet(n) \in Nat
  BY DEF Types, PassTypes, Passes, Fits, IndexToGet
<1>2. pass \in [Instances -> Passes]
  BY DEF Types, PassTypes
<1> QED
  BY <1>1, <1>2 DEF Types, ListTypes, WorldTypes, InstanceTypes, HistoryTypes, TypeOK, Passes

LEMMA IdleFits == Idle \in Passes /\ Fits(Idle)
BY DEF Idle, Passes, Fits

LEMMA InitTypes == Init => Types
<1> SUFFICES ASSUME Init PROVE Types
  OBVIOUS
<1>1. ListTypes /\ HistoryTypes
  BY DEF Init, ListTypes, HistoryTypes
<1>2. WorldTypes
  <2>1. registered \in BOOLEAN /\ enableLock \in BOOLEAN
    BY LockAssumption, Zenon DEF Init
  <2>2. nextMessage \in 1..(MaxMessages + 1) /\ unreadable \subseteq Messages
    BY BoundsAssumption DEF Init
  <2>3. age \in [Messages -> {"fresh", "stale", "expired"}]
    BY DEF Init
  <2> QED
    BY <2>1, <2>2, <2>3 DEF WorldTypes
<1>3. InstanceTypes
  <2>1. [m \in Messages |-> "none"] \in [Messages -> {"none", "run", "bury", "remove"}]
    OBVIOUS
  <2>2. callback \in [Instances -> [Messages -> {"none", "run", "bury", "remove"}]]
    BY <2>1 DEF Init
  <2>3. locked \in BOOLEAN
    BY Zenon DEF Init
  <2>4. /\ status \in [Instances -> {"down", "added", "subscribed", "up"}]
        /\ due \in [Instances -> Nat] /\ faults \in 0..MaxFaults
    BY BoundsAssumption DEF Init
  <2> QED
    BY <2>2, <2>3, <2>4 DEF InstanceTypes
<1>4. PassTypes
  BY IdleFits DEF Init, PassTypes
<1> QED
  BY <1>1, <1>2, <1>3, <1>4 DEF Types

LEMMA CountTypes ==
  ASSUME Types, NEW call, NEW e \in Endings(call), Count(e) PROVE faults' \in 0..MaxFaults
BY BoundsAssumption DEF Types, InstanceTypes, Endings, Count, Answered

LEMMA PassStep ==
  ASSUME Types, NEW n \in Instances, NEW p \in Passes, Fits(p), pass' = [pass EXCEPT ![n] = p]
  PROVE  PassTypes'
BY DEF Types, PassTypes

LEMMA EndTypes == ASSUME Types, NEW n \in Instances, End(n) PROVE PassTypes'
BY IdleFits, PassStep DEF End

LEMMA OnToTypes ==
  ASSUME Types, NEW n \in Instances, pass[n].message \in Messages,
         NEW pc \in {"decide", "expire", "retry", "delete", "update"}, OnTo(n, pc)
  PROVE  PassTypes'
<1> DEFINE p == [pass[n] EXCEPT !.pc = pc]
<1>1. p \in Passes /\ Fits(p) /\ pass' = [pass EXCEPT ![n] = p]
  BY DEF OnTo, Types, PassTypes, Passes, Fits
<1> QED
  BY <1>1, PassStep

LEMMA NextLetterTypes ==
  ASSUME Types, NEW n \in Instances, NEW more \in {0, 1}, NextLetter(n, more) PROVE PassTypes'
<1> DEFINE p == [pass[n] EXCEPT !.pc = "get", !.i = @ + 1, !.processed = @ + more, !.message = 0]
<1>1. End(n) \/ pass' = [pass EXCEPT ![n] = p]
  BY DEF NextLetter
<1>2. pass[n] \in Passes /\ Fits(pass[n])
  BY DEF Types, PassTypes
<1>3. pass[n].i + 1 \in Nat /\ pass[n].processed + more \in Nat
      /\ pass[n].processed + more <= pass[n].i + 1
  BY <1>2 DEF Passes, Fits
<1>4. p \in Passes
  BY <1>2, <1>3 DEF Passes
<1>5. p.pc = "get" /\ p.i = pass[n].i + 1 /\ p.processed = pass[n].processed + more
  BY <1>2 DEF Passes
<1>6. Fits(p)
  BY <1>3, <1>5 DEF Fits
<1> HIDE DEF p
<1> QED
  BY <1>1, <1>4, <1>6, EndTypes, PassStep

-----------------------------------------------------------------------------
(* The types: the world, and the start of an instance.                     *)

LEMMA WorldStepTypes ==
  Types /\ (Publish \/ AgeOne \/ ElapseOne \/ ExpireLock) => Types'
<1> SUFFICES ASSUME Types, Publish \/ AgeOne \/ ElapseOne \/ ExpireLock PROVE Types'
  OBVIOUS
<1>1. CASE Publish
  <2>1. nextMessage \in Messages /\ nextMessage' \in 1..(MaxMessages + 1)
    BY <1>1, BoundsAssumption DEF Publish, Types, WorldTypes, Messages
  <2>2. ListTypes'
    BY <1>1, <2>1, PushFacts DEF Publish, Types, ListTypes
  <2>3. WorldTypes'
    BY <1>1, <2>1 DEF Publish, Types, WorldTypes
  <2>4. PICK deaf \in SUBSET {n \in Instances : Subscribed(n)}, bad \in SUBSET {nextMessage} :
          /\ deaf # {} => "lost" \in Endings("notify")
          /\ bad # {} => "lost" \in Endings("read")
          /\ faults' = IF deaf \cup bad = {} THEN faults ELSE faults + 1
          /\ due' = [n \in Instances |->
                       IF Subscribed(n) /\ n \notin deaf THEN due[n] + 1 ELSE due[n]]
          /\ missed' = missed \cup deaf
    BY <1>1 DEF Publish
  <2>5. faults' \in 0..MaxFaults
    <3>1. deaf \cup bad # {} => faults # MaxFaults
      BY <2>4 DEF Endings
    <3> QED
      BY <2>4, <3>1, BoundsAssumption DEF Types, InstanceTypes
  <2>6. InstanceTypes'
    BY <1>1, <2>4, <2>5 DEF Publish, Types, InstanceTypes
  <2>7. PassTypes' /\ HistoryTypes'
    BY <1>1, <2>4 DEF Publish, Types, PassTypes, HistoryTypes, outcome
  <2> QED
    BY <2>2, <2>3, <2>6, <2>7 DEF Types
<1>2. CASE AgeOne
  BY <1>2 DEF AgeOne, Age, Note, Marks, Types, ListTypes, WorldTypes, InstanceTypes, PassTypes,
     HistoryTypes, lists, tasks, outcome
<1>3. CASE ElapseOne
  BY <1>3 DEF ElapseOne, Elapse, Types, ListTypes, WorldTypes, InstanceTypes, PassTypes,
     HistoryTypes, world, tasks, outcome, history
<1>4. CASE ExpireLock
  BY <1>4 DEF ExpireLock, Types, ListTypes, WorldTypes, InstanceTypes, PassTypes, HistoryTypes,
     lists, world, outcome, history
<1> QED
  BY <1>1, <1>2, <1>3, <1>4

LEMMA StartStepTypes ==
  ASSUME Types, NEW n \in Instances, SetAdd(n) \/ Subscribe(n) \/ CountAwaiting(n) \/ Crash(n)
  PROVE  Types'
<1>1. CASE SetAdd(n)
  BY <1>1 DEF SetAdd, Types, ListTypes, WorldTypes, InstanceTypes, PassTypes, HistoryTypes,
     lists, outcome, history
<1>2. CASE Subscribe(n)
  BY <1>2 DEF Subscribe, Types, ListTypes, WorldTypes, InstanceTypes, PassTypes, HistoryTypes,
     lists, world, outcome
<1>3. CASE CountAwaiting(n)
  <2>1. faults' \in 0..MaxFaults
    BY <1>3, CountTypes DEF CountAwaiting
  <2>2. Len(published) \in Nat
    BY DEF Types, ListTypes
  <2> QED
    BY <1>3, <2>1, <2>2 DEF CountAwaiting, Types, ListTypes, WorldTypes, InstanceTypes, PassTypes,
       HistoryTypes, lists, world, outcome
<1>4. CASE Crash(n)
  <2>1. PassTypes'
    BY <1>4, EndTypes DEF Crash, End
  <2>2. faults' \in 0..MaxFaults
    BY <1>4, BoundsAssumption DEF Crash, Types, InstanceTypes
  <2>3. InstanceTypes'
    BY <1>4, <2>2 DEF Crash, Types, InstanceTypes
  <2> QED
    BY <1>4, <2>1, <2>3 DEF Crash, Note, Marks, Types, ListTypes, WorldTypes, HistoryTypes,
       lists, world, outcome
<1> QED
  BY <1>1, <1>2, <1>3, <1>4

-----------------------------------------------------------------------------
(* The types: ExecuteCallback.                                             *)

LEMMA GoToTypes ==
  ASSUME Types, NEW n \in Instances, NEW m \in Messages,
         NEW pc \in {"none", "run", "bury", "remove"}, GoTo(n, m, pc)
  PROVE  callback' \in [Instances -> [Messages -> {"none", "run", "bury", "remove"}]]
<1>1. callback' = [callback EXCEPT ![n] = [callback[n] EXCEPT ![m] = pc]]
  BY DEF GoTo
<1>2. [callback[n] EXCEPT ![m] = pc] \in [Messages -> {"none", "run", "bury", "remove"}]
  BY DEF Types, InstanceTypes
<1> QED
  BY <1>1, <1>2 DEF Types, InstanceTypes

LEMMA ExecuteTypes == ASSUME Types, NEW n \in Instances, Execute(n) PROVE Types'
<1>1. CASE Pop(n)
  <2>1. PICK e \in Endings("pop"), retried \in BOOLEAN :
          /\ Count(e)
          /\ due' = IF retried THEN due ELSE [due EXCEPT ![n] = @ - 1]
          /\ missed' = IF Ran(e) \/ retried THEN missed ELSE missed \cup {n}
          /\ IF Ran(e) /\ published # <<>>
             THEN /\ published' = PopRight(published)
                  /\ processing' = PushLeft(Rightmost(published), processing)
                  /\ Note(IF age[Rightmost(published)] = "fresh" THEN {} ELSE {"twice"})
                  /\ IF Answered(e) /\ Rightmost(published) \notin unreadable
                     THEN GoTo(n, Rightmost(published), "run") /\ locked' = Acquire
                     ELSE UNCHANGED <<callback, locked>>
             ELSE UNCHANGED <<published, processing, callback, locked, happened>>
    BY <1>1 DEF Pop
  <2>2. faults' \in 0..MaxFaults
    BY <2>1, CountTypes
  <2>3. due' \in [Instances -> Nat]
    BY <1>1, <2>1 DEF Pop, Types, InstanceTypes
  <2>4. ListTypes'
    BY <1>1, <2>1, PopFacts, PushFacts DEF Pop, Types, ListTypes
  <2>5. InstanceTypes'
    <3>1. callback' \in [Instances -> [Messages -> {"none", "run", "bury", "remove"}]]
      <4>1. CASE UNCHANGED callback
        BY <4>1 DEF Types, InstanceTypes
      <4>2. CASE published # <<>> /\ GoTo(n, Rightmost(published), "run")
        <5>1. Rightmost(published) \in Messages
          BY <4>2, PopFacts DEF Types, ListTypes
        <5> QED
          BY <4>2, <5>1, GoToTypes
      <4> QED
        BY <2>1, <4>1, <4>2
    <3>2. locked' \in BOOLEAN
      BY <2>1 DEF Acquire, Types, WorldTypes, InstanceTypes
    <3> QED
      BY <1>1, <2>2, <2>3, <3>1, <3>2 DEF Pop, Types, InstanceTypes
  <2>6. HistoryTypes'
    BY <1>1, <2>1 DEF Pop, Note, Marks, Types, HistoryTypes, outcome
  <2> QED
    BY <1>1, <2>4, <2>5, <2>6 DEF Pop, Types, WorldTypes, PassTypes, world
<1>2. CASE GiveUp(n)
  BY <1>2 DEF GiveUp, Types, ListTypes, WorldTypes, InstanceTypes, PassTypes, HistoryTypes,
     lists, world, outcome
<1>3. ASSUME NEW m \in Messages, Invoke(n, m) PROVE Types'
  <2>1. handled' \subseteq Messages /\ again' \subseteq Messages
    BY <1>3 DEF Invoke, Complete, Types, HistoryTypes
  <2>2. callback' \in [Instances -> [Messages -> {"none", "run", "bury", "remove"}]]
    BY <1>3, GoToTypes DEF Invoke
  <2> QED
    BY <1>3, <2>1, <2>2 DEF Invoke, Types, ListTypes, WorldTypes, InstanceTypes, PassTypes,
       HistoryTypes, lists, world
<1>4. ASSUME NEW m \in Messages, Bury(n, m) PROVE Types'
  <2>1. faults' \in 0..MaxFaults
    BY <1>4, CountTypes DEF Bury
  <2>2. deadLetters' \in Seq(Messages)
    BY <1>4, PushFacts DEF Bury, Types, ListTypes
  <2>3. callback' \in [Instances -> [Messages -> {"none", "run", "bury", "remove"}]]
    BY <1>4, GoToTypes DEF Bury
  <2> QED
    BY <1>4, <2>1, <2>2, <2>3 DEF Bury, Note, NotRun, Marks, Types, ListTypes, WorldTypes,
       InstanceTypes, PassTypes, HistoryTypes, world, outcome
<1>5. ASSUME NEW m \in Messages, Remove(n, m) PROVE Types'
  <2>1. faults' \in 0..MaxFaults
    BY <1>5, CountTypes DEF Remove
  <2>2. processing' \in Seq(Messages)
    BY <1>5, WithoutFacts DEF Remove, Types, ListTypes
  <2>3. callback' \in [Instances -> [Messages -> {"none", "run", "bury", "remove"}]]
    BY <1>5, GoToTypes DEF Remove
  <2> QED
    BY <1>5, <2>1, <2>2, <2>3 DEF Remove, Note, NotRun, Marks, Types, ListTypes, WorldTypes,
       InstanceTypes, PassTypes, HistoryTypes, world, outcome
<1> QED
  BY <1>1, <1>2, <1>3, <1>4, <1>5 DEF Execute

-----------------------------------------------------------------------------
(* The types: RetryAsync.                                                  *)

LEMMA DeleteTypes ==
  ASSUME Types, NEW m \in Messages, NEW e, Delete(m, e)
  PROVE  deadLetters' \in Seq(Messages) /\ waiting' \subseteq {Id[k] : k \in Messages}
BY WithoutFacts DEF Delete, Types, ListTypes

LEMMA MoveTypes == ASSUME Types, NEW n \in Instances, Move(n) PROVE Types'
<1>1. pass[n] \in Passes /\ Fits(pass[n])
  BY DEF Types, PassTypes
<1>2. CASE OldestProcessing(n)
  <2> DEFINE found == Keep(Oldest(processing, StaleCount), {m \in Messages : Stale(m)} \cup unreadable)
             p == [pass[n] EXCEPT !.pc = "move", !.toMove = found]
  <2>1. faults' \in 0..MaxFaults
    BY <1>2, CountTypes DEF OldestProcessing
  <2>2. pass' = pass \/ pass' = [pass EXCEPT ![n] = p]
    BY <1>2 DEF OldestProcessing
  <2>3. found \in Seq(Messages)
    BY StaleAssumption, OldestFacts, KeepFacts DEF Types, ListTypes
  <2> HIDE DEF found
  <2>4. p \in Passes /\ Fits(p)
    BY <1>1, <2>3 DEF Passes, Fits
  <2> HIDE DEF p
  <2>5. PassTypes'
    BY <2>2, <2>4, PassStep DEF Types, PassTypes
  <2> QED
    BY <1>2, <2>1, <2>5 DEF OldestProcessing, Note, Marks, Types, ListTypes, WorldTypes,
       InstanceTypes, HistoryTypes, lists, world, outcome
<1>3. CASE MoveStale(n)
  <2> DEFINE m == Head(pass[n].toMove)
             p == [pass[n] EXCEPT !.toMove = Tail(@)]
  <2>1. pass[n].toMove \in Seq(Messages) /\ pass[n].toMove # <<>>
    BY <1>1, <1>3 DEF MoveStale, Passes
  <2>2. m \in Messages /\ Tail(pass[n].toMove) \in Seq(Messages)
    BY <2>1
  <2>3. /\ End(n) \/ pass' = [pass EXCEPT ![n] = p]
        /\ deadLetters' = deadLetters \/ deadLetters' = PushLeft(m, deadLetters)
        /\ processing' = processing \/ processing' = Without(processing, m)
    BY <1>3 DEF MoveStale
  <2>4. faults' \in 0..MaxFaults
    <3>1. faults' = faults \/ \E e \in Endings("move") : Count(e)
      BY <1>3 DEF MoveStale
    <3> QED
      BY <3>1, CountTypes DEF Types, InstanceTypes
  <2>5. p \in Passes /\ Fits(p)
    <3>1. p \in Passes
      BY <1>1, <2>2 DEF Passes
    <3>2. /\ p.pc = pass[n].pc /\ p.i = pass[n].i /\ p.processed = pass[n].processed
          /\ p.message = pass[n].message
      BY <1>1 DEF Passes
    <3> QED
      BY <1>1, <3>1, <3>2 DEF Fits
  <2> HIDE DEF m, p
  <2>6. PassTypes'
    BY <2>3, <2>5, EndTypes, PassStep
  <2>7. ListTypes'
    <3>1. UNCHANGED <<published, waiting>>
      BY <1>3 DEF MoveStale
    <3>2. deadLetters \in Seq(Messages) /\ processing \in Seq(Messages)
      BY DEF Types, ListTypes
    <3>3. deadLetters' \in Seq(Messages)
      BY <2>2, <2>3, <3>2, PushFacts
    <3>4. processing' \in Seq(Messages)
      BY <2>2, <2>3, <3>2, WithoutFacts
    <3> QED
      BY <3>1, <3>3, <3>4 DEF Types, ListTypes
  <2> QED
    BY <1>3, <2>4, <2>6, <2>7 DEF MoveStale, Types, WorldTypes, InstanceTypes, HistoryTypes,
       world, outcome, history
<1> QED
  BY <1>2, <1>3 DEF Move

LEMMA RetryTypes == ASSUME Types, NEW n \in Instances, Retry(n) PROVE Types'
<1>1. pass[n] \in Passes /\ Fits(pass[n])
  BY DEF Types, PassTypes
<1>2. \A pc \in {"decide", "expire", "retry", "delete", "update"} :
         pass[n].pc = pc => pass[n].message \in Messages
  BY <1>1 DEF Fits
<1>3. CASE CountLetters(n)
  <2> DEFINE p == [pass[n] EXCEPT !.pc = "get", !.length = Len(deadLetters)]
  <2>1. End(n) \/ pass' = [pass EXCEPT ![n] = p]
    BY <1>3 DEF CountLetters
  <2>2. Len(deadLetters) \in Nat
    BY DEF Types, ListTypes
  <2>3. p \in Passes /\ Fits(p)
    BY <1>1, <2>2 DEF Passes, Fits
  <2> HIDE DEF p
  <2>4. PassTypes' /\ faults' \in 0..MaxFaults
    BY <1>3, <2>1, <2>3, EndTypes, PassStep, CountTypes DEF CountLetters
  <2> QED
    BY <1>3, <2>4 DEF CountLetters, Types, ListTypes, WorldTypes, InstanceTypes, HistoryTypes,
       lists, world, outcome, history
<1>4. CASE GetLetter(n)
  <2> DEFINE m == deadLetters[IndexToGet(n) + 1]
             p == [pass[n] EXCEPT !.pc = "decide", !.message = m]
  <2>1. \/ End(n) \/ NextLetter(n, 0)
        \/ IndexToGet(n) < Len(deadLetters) /\ pass' = [pass EXCEPT ![n] = p]
    BY <1>4 DEF GetLetter
  <2>2. IndexToGet(n) < Len(deadLetters) => m \in Messages
    <3>1. IndexToGet(n) \in Nat
      BY <1>1 DEF IndexToGet, Passes, Fits
    <3>2. deadLetters \in Seq(Messages)
      BY DEF Types, ListTypes
    <3> QED
      BY <3>1, <3>2
  <2> HIDE DEF m
  <2>3. m \in Messages => p \in Passes /\ Fits(p)
    BY <1>1 DEF Passes, Fits
  <2> HIDE DEF p
  <2>4. PassTypes'
    <3>1. CASE End(n) \/ NextLetter(n, 0)
      BY <3>1, EndTypes, NextLetterTypes
    <3>2. CASE IndexToGet(n) < Len(deadLetters) /\ pass' = [pass EXCEPT ![n] = p]
      BY <2>2, <2>3, <3>2, PassStep
    <3> QED
      BY <2>1, <3>1, <3>2
  <2>5. faults' \in 0..MaxFaults
    BY <1>4, CountTypes DEF GetLetter
  <2> QED
    BY <1>4, <2>4, <2>5 DEF GetLetter, Types, ListTypes, WorldTypes, InstanceTypes, HistoryTypes,
       lists, world, outcome, history
<1>5. CASE ShouldRetry(n)
  <2>1. pass[n].message \in Messages
    BY <1>2, <1>5 DEF ShouldRetry, Doing
  <2>2. \/ NextLetter(n, 0) \/ OnTo(n, "update") \/ OnTo(n, "expire") \/ OnTo(n, "retry")
    BY <1>5 DEF ShouldRetry
  <2>3. PassTypes' /\ faults' \in 0..MaxFaults
    BY <1>5, <2>1, <2>2, NextLetterTypes, OnToTypes, CountTypes DEF ShouldRetry
  <2> QED
    BY <1>5, <2>3 DEF ShouldRetry, Types, ListTypes, WorldTypes, InstanceTypes, HistoryTypes,
       lists, world, outcome, history
<1>6. CASE Expire(n)
  <2>1. pass[n].message \in Messages
    BY <1>2, <1>6 DEF Expire, Doing
  <2>2. PassTypes' /\ faults' \in 0..MaxFaults
    BY <1>6, <2>1, NextLetterTypes, OnToTypes, CountTypes DEF Expire
  <2>3. deadLetters' \in Seq(Messages) /\ waiting' \subseteq {Id[k] : k \in Messages}
    BY <1>6, <2>1, DeleteTypes DEF Expire
  <2>4. expired' \subseteq Messages
    BY <1>6, <2>1 DEF Expire, Types, HistoryTypes
  <2> QED
    BY <1>6, <2>2, <2>3, <2>4 DEF Expire, Types, ListTypes, WorldTypes, InstanceTypes,
       HistoryTypes, world
<1>7. CASE RetryCallBack(n)
  <2>1. pass[n].message \in Messages
    BY <1>2, <1>7 DEF RetryCallBack, Doing
  <2>2. PassTypes'
    BY <1>7, <2>1, OnToTypes DEF RetryCallBack
  <2>3. handled' \subseteq Messages /\ again' \subseteq Messages
    BY <1>7, <2>1 DEF RetryCallBack, Complete, Types, HistoryTypes
  <2> QED
    BY <1>7, <2>2, <2>3 DEF RetryCallBack, Types, ListTypes, WorldTypes, InstanceTypes,
       HistoryTypes, lists, world
<1>8. CASE DeleteLetter(n)
  <2>1. pass[n].message \in Messages
    BY <1>2, <1>8 DEF DeleteLetter, Doing
  <2>2. PassTypes' /\ faults' \in 0..MaxFaults
    BY <1>8, <2>1, NextLetterTypes, OnToTypes, CountTypes DEF DeleteLetter
  <2>3. deadLetters' \in Seq(Messages) /\ waiting' \subseteq {Id[k] : k \in Messages}
    BY <1>8, <2>1, DeleteTypes DEF DeleteLetter
  <2> QED
    BY <1>8, <2>2, <2>3 DEF DeleteLetter, Note, NotRun, Marks, Types, ListTypes, WorldTypes,
       InstanceTypes, HistoryTypes, world, outcome
<1>9. CASE UpdateRetryData(n)
  <2>1. pass[n].message \in Messages
    BY <1>2, <1>9 DEF UpdateRetryData, Doing
  <2>2. PassTypes' /\ faults' \in 0..MaxFaults
    BY <1>9, EndTypes, NextLetterTypes, CountTypes DEF UpdateRetryData
  <2>3. waiting' \subseteq {Id[k] : k \in Messages}
    BY <1>9, <2>1 DEF UpdateRetryData, Types, ListTypes
  <2> QED
    BY <1>9, <2>2, <2>3 DEF UpdateRetryData, Types, ListTypes, WorldTypes, InstanceTypes,
       HistoryTypes, world, outcome, history
<1> QED
  BY <1>3, <1>4, <1>5, <1>6, <1>7, <1>8, <1>9 DEF Retry

LEMMA NextTypes == Types /\ [Next]_vars => Types'
<1> SUFFICES ASSUME Types, [Next]_vars PROVE Types'
  OBVIOUS
<1>1. CASE UNCHANGED vars
  BY <1>1 DEF vars, lists, world, tasks, history, outcome, Types, ListTypes, WorldTypes,
     InstanceTypes, PassTypes, HistoryTypes
<1>2. CASE Publish \/ AgeOne \/ ElapseOne \/ ExpireLock
  BY <1>2, WorldStepTypes
<1>3. ASSUME NEW n \in Instances,
             SetAdd(n) \/ Startup(n) \/ Execute(n) \/ Move(n) \/ Retry(n) \/ Crash(n)
      PROVE  Types'
  BY <1>3, StartStepTypes, ExecuteTypes, MoveTypes, RetryTypes DEF Startup
<1> QED
  BY <1>1, <1>2, <1>3 DEF Next

THEOREM TypesHold == Spec => []Types
BY InitTypes, NextTypes, PTL DEF Spec

(* The variables keep their types, and no pass asks for a negative index,  *)
(* whatever the other instances do to the list of dead letters meanwhile:  *)
(* RetryAsync.                                                             *)
THEOREM TypeCorrect == Spec => []TypeOK
BY TypesHold, TypesAreTypeOK, PTL

-----------------------------------------------------------------------------
(* Messages that wait are not forgotten.                                   *)

(* What a retrying instance leaves alone.                                  *)
LEMMA RetryFrame ==
  ASSUME NEW n \in Instances, Move(n) \/ Retry(n)
  PROVE  UNCHANGED <<published, world, status, due, callback, locked, missed>>
BY DEF Move, Retry, OldestProcessing, MoveStale, CountLetters, GetLetter, ShouldRetry, Expire,
   RetryCallBack, DeleteLetter, UpdateRetryData, lists, history, outcome

LEMMA NextNoneForgotten == Types /\ NoneForgotten /\ [Next]_vars => NoneForgotten'
<1> SUFFICES ASSUME Types, NoneForgotten, [Next]_vars PROVE NoneForgotten'
  OBVIOUS
<1> USE DEF NoneForgotten
<1>0. Len(published) \in Nat /\ due \in [Instances -> Nat] /\ DOMAIN status = Instances
  BY DEF Types, ListTypes, InstanceTypes
<1>1. CASE UNCHANGED <<published, status, due, missed>>
  BY <1>1
<1>2. CASE UNCHANGED vars \/ AgeOne \/ ElapseOne \/ ExpireLock
  BY <1>1, <1>2 DEF vars, AgeOne, Age, ElapseOne, Elapse, ExpireLock, lists, tasks, history
<1>3. CASE Publish
  <2>1. Len(published') = Len(published) + 1
    <3>1. nextMessage \in Messages
      BY <1>3, BoundsAssumption DEF Publish, Types, WorldTypes, Messages
    <3> QED
      BY <1>3, <3>1, PushFacts DEF Publish, Types, ListTypes
  <2>2. \E deaf : /\ due' = [n \in Instances |->
                              IF Subscribed(n) /\ n \notin deaf THEN due[n] + 1 ELSE due[n]]
                  /\ missed' = missed \cup deaf
    BY <1>3 DEF Publish
  <2> QED
    BY <1>0, <1>3, <2>1, <2>2 DEF Publish, Subscribed
<1>4. ASSUME NEW n \in Instances, SetAdd(n) \/ Startup(n) \/ Crash(n) PROVE NoneForgotten'
  <2>1. CASE SetAdd(n) \/ Subscribe(n) \/ Crash(n)
    BY <1>0, <2>1 DEF SetAdd, Subscribe, Crash, lists, history
  <2>2. CASE CountAwaiting(n)
    BY <1>0, <2>2 DEF CountAwaiting, lists
  <2> QED
    BY <1>4, <2>1, <2>2 DEF Startup
<1>5. ASSUME NEW n \in Instances, Pop(n) PROVE NoneForgotten'
  <2>1. PICK e \in Endings("pop"), retried \in BOOLEAN :
          /\ due' = IF retried THEN due ELSE [due EXCEPT ![n] = @ - 1]
          /\ missed' = IF Ran(e) \/ retried THEN missed ELSE missed \cup {n}
          /\ IF Ran(e) /\ published # <<>> THEN published' = PopRight(published)
                                           ELSE UNCHANGED published
    BY <1>5 DEF Pop
  <2>2. UNCHANGED status /\ due[n] > 0
    BY <1>5 DEF Pop
  <2>3. published # <<>> => Len(PopRight(published)) = Len(published) - 1
    BY PopFacts DEF Types, ListTypes
  <2>4. Len(published') <= Len(published)
    BY <1>0, <2>1, <2>3
  <2>5. ASSUME NEW o \in Instances, o # n, status[o] = "up", o \notin missed'
        PROVE  Len(published') <= due'[o]
    <3>1. due'[o] = due[o] /\ o \notin missed
      BY <1>0, <2>1, <2>5
    <3>2. Len(published) <= due[o]
      BY <2>5, <3>1
    <3>3. Len(published') \in Nat
      BY <1>0, <2>1, <2>3, <2>4 DEF Types, ListTypes, PopRight
    <3> QED
      BY <1>0, <2>4, <3>1, <3>2, <3>3
  <2>6. ASSUME status[n] = "up", n \notin missed' PROVE Len(published') <= due'[n]
    <3>1. n \notin missed /\ Len(published) <= due[n]
      BY <2>1, <2>6
    <3>2. CASE retried
      BY <1>0, <2>1, <2>3, <3>1, <3>2
    <3>3. CASE ~retried
      <4>1. Ran(e) /\ due'[n] = due[n] - 1
        BY <1>0, <2>1, <2>6, <3>3
      <4>2. CASE published = <<>>
        BY <1>0, <2>1, <2>2, <4>1, <4>2
      <4>3. CASE published # <<>>
        BY <1>0, <2>1, <2>3, <3>1, <4>1, <4>3
      <4> QED
        BY <4>2, <4>3
    <3> QED
      BY <3>2, <3>3
  <2> QED
    BY <2>2, <2>5, <2>6
<1>6. ASSUME NEW n \in Instances, Execute(n), ~Pop(n) PROVE NoneForgotten'
  <2>1. CASE GiveUp(n)
    BY <1>0, <2>1 DEF GiveUp, lists, world
  <2>2. ASSUME NEW m \in Messages, Invoke(n, m) \/ Bury(n, m) \/ Remove(n, m)
        PROVE  UNCHANGED <<published, status, due, missed>>
    BY <2>2 DEF Invoke, Bury, Remove, lists
  <2> QED
    BY <1>1, <1>6, <2>1, <2>2 DEF Execute
<1>7. ASSUME NEW n \in Instances, Move(n) \/ Retry(n) PROVE NoneForgotten'
  BY <1>1, <1>7, RetryFrame
<1> QED
  BY <1>2, <1>3, <1>4, <1>5, <1>6, <1>7 DEF Next

(* An instance that missed no notification and no pop has a callback to    *)
(* run for each message that waits: SubscribeAsync and ExecuteCallback.    *)
THEOREM NoMessageForgotten == Spec => []NoneForgotten
<1>1. Init => NoneForgotten
  BY DEF Init, NoneForgotten
<1> QED
  BY <1>1, TypesHold, NextNoneForgotten, PTL DEF Spec

-----------------------------------------------------------------------------
(* No message is lost.                                                     *)

(* Where a message may be taken from the processing list, and who may be   *)
(* about to take it from the dead letters.                                 *)
Safe == ToSet(deadLetters) \cup Ended
LossInv ==
    Never({"bury"}) =>
        /\ NothingLost
        /\ \A n \in Instances, m \in Messages : At(n, m, "remove") => m \in Safe
DeleteInv == \A n \in Instances : Doing(n, "delete") => pass[n].message \in handled

LEMMA LossStep ==
  ASSUME LossInv, nextMessage' = nextMessage, happened \subseteq happened',
         Never({"bury"})' =>
           /\ Held \cup Ended \subseteq (Held \cup Ended)'
           /\ Safe \subseteq Safe'
           /\ \A n \in Instances, m \in Messages :
                At(n, m, "remove")' => At(n, m, "remove") \/ m \in Safe'
  PROVE  LossInv'
BY DEF LossInv, NothingLost, Never

LEMMA InitLoss == Init => LossInv /\ DeleteInv
BY BoundsAssumption DEF Init, LossInv, DeleteInv, NothingLost, At, Doing, Idle

(* How a pass goes on: one instance at a time, and to "delete" only when   *)
(* the callback has completed.                                             *)
LEMMA PassMoves ==
  ASSUME Types, NEW n \in Instances, Move(n) \/ Retry(n)
  PROVE  /\ \A o \in Instances \ {n} : pass'[o] = pass[o]
         /\ Doing(n, "delete")' => RetryCallBack(n) \/ pass'[n] = pass[n]
<1>1. DOMAIN pass = Instances /\ pass[n] \in Passes
  BY DEF Types, PassTypes
<1> DEFINE Calm == /\ \A o \in Instances \ {n} : pass'[o] = pass[o]
                   /\ pass'[n].pc = "delete" => pass'[n] = pass[n]
<1>2. End(n) \/ NextLetter(n, 0) \/ NextLetter(n, 1) => Calm
  BY <1>1 DEF End, NextLetter, Idle, Passes
<1>3. \A pc \in {"update", "expire", "retry"} : OnTo(n, pc) => Calm
  BY <1>1 DEF OnTo, Passes
<1>4. CASE OldestProcessing(n)
  BY <1>1, <1>4 DEF OldestProcessing, Doing, Passes
<1>5. CASE MoveStale(n)
  <2> DEFINE q == [pass[n] EXCEPT !.toMove = Tail(@)]
  <2>1. End(n) \/ pass' = [pass EXCEPT ![n] = q]
    BY <1>5 DEF MoveStale
  <2>2. q.pc = "move"
    BY <1>1, <1>5 DEF MoveStale, Doing, Passes
  <2> HIDE DEF q
  <2>3. CASE pass' = [pass EXCEPT ![n] = q]
    BY <1>1, <2>2, <2>3 DEF Doing
  <2> QED
    BY <1>2, <2>1, <2>3 DEF Doing
<1>6. CASE CountLetters(n)
  <2>1. End(n) \/ pass' = [pass EXCEPT ![n].pc = "get", ![n].length = Len(deadLetters)]
    BY <1>6 DEF CountLetters
  <2> QED
    BY <1>1, <1>2, <2>1 DEF Doing, Passes
<1>7. CASE GetLetter(n)
  <2>1. \/ End(n) \/ NextLetter(n, 0)
        \/ pass' = [pass EXCEPT ![n].pc = "decide",
                                ![n].message = deadLetters[IndexToGet(n) + 1]]
    BY <1>7 DEF GetLetter
  <2> QED
    BY <1>1, <1>2, <2>1 DEF Doing, Passes
<1>8. CASE ShouldRetry(n)
  BY <1>2, <1>3, <1>8 DEF ShouldRetry, Doing
<1>9. CASE Expire(n)
  BY <1>2, <1>3, <1>9 DEF Expire, Doing
<1>10. CASE RetryCallBack(n)
  BY <1>1, <1>10 DEF RetryCallBack, OnTo
<1>11. CASE DeleteLetter(n)
  BY <1>2, <1>3, <1>11 DEF DeleteLetter, Doing
<1>12. CASE UpdateRetryData(n)
  BY <1>2, <1>12 DEF UpdateRetryData, Doing
<1> QED
  BY <1>4, <1>5, <1>6, <1>7, <1>8, <1>9, <1>10, <1>11, <1>12 DEF Move, Retry

LEMMA NextDelete == Types /\ DeleteInv /\ [Next]_vars => DeleteInv'
<1> SUFFICES ASSUME Types, DeleteInv, [Next]_vars PROVE DeleteInv'
  OBVIOUS
<1> USE DEF DeleteInv, Doing
<1>1. CASE pass' = pass /\ handled \subseteq handled'
  BY <1>1
<1>2. CASE UNCHANGED vars \/ Publish \/ AgeOne \/ ElapseOne \/ ExpireLock
  BY <1>1, <1>2 DEF vars, Publish, AgeOne, Age, ElapseOne, Elapse, ExpireLock, tasks, history,
     outcome
<1>3. ASSUME NEW n \in Instances, SetAdd(n) \/ Startup(n) \/ Execute(n) PROVE DeleteInv'
  <2>1. CASE SetAdd(n) \/ Startup(n) \/ Pop(n) \/ GiveUp(n)
    BY <1>1, <2>1 DEF SetAdd, Startup, Subscribe, CountAwaiting, Pop, GiveUp, history, outcome
  <2>2. ASSUME NEW m \in Messages, Invoke(n, m) \/ Bury(n, m) \/ Remove(n, m) PROVE DeleteInv'
    BY <1>1, <2>2 DEF Invoke, Complete, Bury, Remove, history, outcome
  <2> QED
    BY <1>3, <2>1, <2>2 DEF Execute
<1>4. ASSUME NEW n \in Instances, Crash(n) PROVE DeleteInv'
  BY <1>4 DEF Crash, Idle, outcome, Types, PassTypes
<1>5. ASSUME NEW n \in Instances, Move(n) \/ Retry(n) PROVE DeleteInv'
  <2>1. handled \subseteq handled'
    BY <1>5 DEF Move, Retry, OldestProcessing, MoveStale, CountLetters, GetLetter, ShouldRetry,
       Expire, RetryCallBack, Complete, DeleteLetter, UpdateRetryData, history, outcome
  <2>2. RetryCallBack(n) /\ Doing(n, "delete")' => pass'[n].message \in handled'
    <3> SUFFICES ASSUME RetryCallBack(n), Doing(n, "delete")' PROVE pass'[n].message \in handled'
      OBVIOUS
    <3>1. DOMAIN pass = Instances /\ pass[n] \in Passes
      BY DEF Types, PassTypes
    <3>2. ~OnTo(n, "update")
      BY <3>1 DEF OnTo, Passes
    <3>3. Complete(pass[n].message) /\ OnTo(n, "delete")
      BY <3>2 DEF RetryCallBack
    <3>4. pass'[n].message = pass[n].message
      BY <3>1, <3>3 DEF OnTo, Passes
    <3> QED
      BY <3>3, <3>4 DEF Complete
  <2> QED
    BY <1>5, <2>1, <2>2, PassMoves
<1> QED
  BY <1>2, <1>3, <1>4, <1>5 DEF Next

(* A step that leaves the lists and the callbacks alone.                   *)
LEMMA LossFrame ==
  ASSUME LossInv, UNCHANGED <<published, processing, deadLetters, nextMessage>>,
         happened \subseteq happened', handled \subseteq handled', expired \subseteq expired',
         \A n \in Instances, m \in Messages : At(n, m, "remove")' => At(n, m, "remove")
  PROVE  LossInv'
<1>1. /\ Held \cup Ended \subseteq (Held \cup Ended)'
      /\ Safe \subseteq Safe'
  BY DEF Held, Safe, Ended, ToSet
<1> QED
  BY <1>1, LossStep

(* Where a message is taken from one list it is in another one, or has     *)
(* ended.                                                                  *)
LEMMA LossMove ==
  ASSUME LossInv, nextMessage' = nextMessage, happened \subseteq happened',
         handled \subseteq handled', expired \subseteq expired',
         ToSet(published) \subseteq ToSet(published)' \cup ToSet(processing)',
         Never({"bury"})' =>
            /\ ToSet(processing) \subseteq ToSet(processing)' \cup Safe'
            /\ ToSet(deadLetters) \subseteq Safe',
         Never({"bury"})' => \A n \in Instances, m \in Messages :
            At(n, m, "remove")' => At(n, m, "remove") \/ m \in Safe'
  PROVE  LossInv'
<1>1. Ended \subseteq Ended'
  BY DEF Ended
<1>2. Never({"bury"})' => Safe \subseteq Safe'
  BY <1>1 DEF Safe
<1>3. Never({"bury"})' => Held \cup Ended \subseteq (Held \cup Ended)'
  <2>1. /\ Held = ToSet(published) \cup ToSet(processing) \cup ToSet(deadLetters)
        /\ Held' = ToSet(published)' \cup ToSet(processing)' \cup ToSet(deadLetters)'
    BY DEF Held
  <2> QED
    BY <1>1, <2>1 DEF Safe
<1> QED
  BY <1>2, <1>3, LossStep

LEMMA NextLoss == Types /\ DeleteInv /\ LossInv /\ [Next]_vars => LossInv'
<1> SUFFICES ASSUME Types, DeleteInv, LossInv, [Next]_vars PROVE LossInv'
  OBVIOUS
<1>0. /\ published \in Seq(Messages) /\ processing \in Seq(Messages)
      /\ deadLetters \in Seq(Messages)
      /\ callback \in [Instances -> [Messages -> {"none", "run", "bury", "remove"}]]
      /\ pass \in [Instances -> Passes] /\ \A n \in Instances : Fits(pass[n])
  BY DEF Types, ListTypes, InstanceTypes, PassTypes
<1>1. CASE UNCHANGED vars \/ AgeOne \/ ElapseOne \/ ExpireLock
  BY <1>1, LossFrame DEF vars, AgeOne, Age, ElapseOne, Elapse, ExpireLock, Note, lists, world,
     tasks, history, outcome, At
<1>2. CASE Publish
  <2>1. nextMessage \in Messages
    BY <1>2, BoundsAssumption DEF Publish, Types, WorldTypes, Messages
  <2>2. ToSet(published') = {nextMessage} \cup ToSet(published)
    BY <1>0, <1>2, <2>1, PushFacts DEF Publish
  <2>3. Held' = {nextMessage} \cup Held /\ Ended' = Ended /\ Safe' = Safe
    BY <1>2, <2>2 DEF Publish, Held, Ended, Safe, ToSet, outcome
  <2>4. 1..(nextMessage' - 1) = {nextMessage} \cup 1..(nextMessage - 1)
    BY <1>2, <2>1 DEF Publish, Messages
  <2> QED
    BY <1>2, <2>3, <2>4 DEF Publish, LossInv, NothingLost, Never, At
<1>3. ASSUME NEW n \in Instances, SetAdd(n) \/ Startup(n) PROVE LossInv'
  BY <1>3, LossFrame DEF SetAdd, Startup, Subscribe, CountAwaiting, lists, world, history,
     outcome, At
<1>4. ASSUME NEW n \in Instances, Crash(n) PROVE LossInv'
  <2>1. \A o \in Instances, m \in Messages : At(o, m, "remove")' => At(o, m, "remove")
    BY <1>0, <1>4 DEF Crash, At
  <2> QED
    BY <1>4, <2>1, LossFrame DEF Crash, Note, lists, world, outcome
<1>5. ASSUME NEW n \in Instances, Execute(n) PROVE LossInv'
  <2>0. \A m \in Messages : \A pc : GoTo(n, m, pc) =>
           \A o \in Instances, k \in Messages :
              callback'[o][k] = IF o = n /\ k = m THEN pc ELSE callback[o][k]
    BY <1>0 DEF GoTo
  <2>1. CASE Pop(n)
    <3> DEFINE m == Rightmost(published)
    <3>1. \/ UNCHANGED <<published, processing, callback>>
          \/ /\ published # <<>>
             /\ published' = PopRight(published) /\ processing' = PushLeft(m, processing)
             /\ GoTo(n, m, "run") \/ UNCHANGED callback
      BY <2>1 DEF Pop
    <3>2. /\ happened \subseteq happened'
          /\ UNCHANGED <<nextMessage, deadLetters, handled, expired>>
      BY <2>1 DEF Pop, Note, world, outcome
    <3>3. CASE UNCHANGED <<published, processing, callback>>
      BY <3>2, <3>3, LossFrame DEF At
    <3>4. CASE /\ published # <<>>
               /\ published' = PopRight(published) /\ processing' = PushLeft(m, processing)
               /\ GoTo(n, m, "run") \/ UNCHANGED callback
      <4>1. m \in Messages /\ ToSet(published) = {m} \cup ToSet(published')
        BY <1>0, <3>4, PopFacts
      <4>2. ToSet(processing') = {m} \cup ToSet(processing)
        BY <1>0, <3>4, <4>1, PushFacts
      <4>3. \A o \in Instances, k \in Messages : At(o, k, "remove")' => At(o, k, "remove")
        BY <2>0, <3>4, <4>1 DEF At
      <4>4. /\ ToSet(published)' = ToSet(published') /\ ToSet(processing)' = ToSet(processing')
            /\ ToSet(deadLetters)' = ToSet(deadLetters)
        BY <3>2 DEF ToSet
      <4> QED
        BY <3>2, <4>1, <4>2, <4>3, <4>4, LossMove DEF Safe
    <3> QED
      BY <3>1, <3>3, <3>4
  <2>2. CASE GiveUp(n)
    BY <2>2, LossFrame DEF GiveUp, lists, world, outcome, At
  <2>3. ASSUME NEW m \in Messages, Invoke(n, m) PROVE LossInv'
    <3>1. /\ UNCHANGED <<published, processing, deadLetters, nextMessage, happened, expired>>
          /\ handled \subseteq handled'
      BY <2>3 DEF Invoke, Complete, lists, world
    <3>2. \/ m \in handled' /\ GoTo(n, m, "remove")
          \/ GoTo(n, m, "bury")
      BY <2>3 DEF Invoke, Complete
    <3>3. \A o \in Instances, k \in Messages :
             At(o, k, "remove")' => At(o, k, "remove") \/ k \in Safe'
      BY <2>0, <3>2 DEF At, Safe, Ended
    <3> QED
      BY <3>1, <3>3, LossMove DEF Safe, ToSet
  <2>4. ASSUME NEW m \in Messages, Bury(n, m) PROVE LossInv'
    <3>1. PICK e \in Endings("bury") :
            /\ deadLetters' = IF Ran(e) THEN PushLeft(m, deadLetters) ELSE deadLetters
            /\ Note(NotRun(e, "bury"))
      BY <2>4 DEF Bury
    <3>2. /\ UNCHANGED <<published, processing, nextMessage, handled, expired>>
          /\ happened \subseteq happened' /\ GoTo(n, m, "remove")
      BY <2>4 DEF Bury, Note, world, outcome
    <3>3. Never({"bury"})' => Ran(e)
      BY <3>1 DEF Never, Note, NotRun
    <3>4. ToSet(deadLetters) \subseteq ToSet(deadLetters') /\ (Ran(e) => m \in ToSet(deadLetters'))
      BY <1>0, <3>1, PushFacts
    <3>5. ToSet(deadLetters)' = ToSet(deadLetters')
      BY DEF ToSet
    <3>6. Never({"bury"})' => \A o \in Instances, k \in Messages :
             At(o, k, "remove")' => At(o, k, "remove") \/ k \in Safe'
      BY <2>0, <3>2, <3>3, <3>4, <3>5 DEF At, Safe
    <3>7. /\ ToSet(published)' = ToSet(published) /\ ToSet(processing)' = ToSet(processing)
      BY <3>2 DEF ToSet
    <3>8. ToSet(deadLetters) \subseteq Safe'
      BY <3>4, <3>5 DEF Safe
    <3> QED
      BY <3>2, <3>6, <3>7, <3>8, LossMove
  <2>5. ASSUME NEW m \in Messages, Remove(n, m) PROVE LossInv'
    <3>1. /\ UNCHANGED <<published, deadLetters, nextMessage, handled, expired>>
          /\ happened \subseteq happened' /\ GoTo(n, m, "none") /\ At(n, m, "remove")
          /\ processing' = processing \/ processing' = Without(processing, m)
      BY <2>5 DEF Remove, Note, world, outcome
    <3>2. ToSet(processing) \subseteq ToSet(processing') \cup {m}
      BY <1>0, <3>1, WithoutFacts
    <3>3. Safe' = Safe /\ ToSet(published)' = ToSet(published)
          /\ ToSet(processing)' = ToSet(processing') /\ ToSet(deadLetters)' = ToSet(deadLetters)
      BY <3>1 DEF Safe, Ended, ToSet
    <3>4. Never({"bury"})' => m \in Safe
      BY <3>1 DEF LossInv, Never
    <3>5. \A o \in Instances, k \in Messages : At(o, k, "remove")' => At(o, k, "remove")
      BY <2>0, <3>1 DEF At
    <3> QED
      BY <3>1, <3>2, <3>3, <3>4, <3>5, LossMove DEF Safe
  <2> QED
    BY <1>5, <2>1, <2>2, <2>3, <2>4, <2>5 DEF Execute
<1>6. ASSUME NEW n \in Instances, Move(n) \/ Retry(n) PROVE LossInv'
  <2>0. /\ UNCHANGED <<published, nextMessage>> /\ ToSet(published)' = ToSet(published)
        /\ \A o \in Instances, m \in Messages : At(o, m, "remove")' => At(o, m, "remove")
    BY <1>6, RetryFrame DEF world, At, ToSet
  <2>1. CASE \/ OldestProcessing(n) \/ CountLetters(n) \/ GetLetter(n) \/ ShouldRetry(n)
             \/ RetryCallBack(n) \/ UpdateRetryData(n)
    <3>1. /\ UNCHANGED <<processing, deadLetters>> /\ happened \subseteq happened'
          /\ handled \subseteq handled' /\ expired \subseteq expired'
      BY <2>1 DEF OldestProcessing, CountLetters, GetLetter, ShouldRetry, RetryCallBack, Complete,
         UpdateRetryData, Note, lists, outcome, history
    <3> QED
      BY <2>0, <3>1, LossFrame
  <2>2. CASE MoveStale(n)
    <3> DEFINE m == Head(pass[n].toMove)
    <3>1. m \in Messages
      BY <1>0, <2>2 DEF MoveStale, Passes
    <3>2. /\ UNCHANGED <<happened, handled, expired>>
          /\ \/ UNCHANGED <<deadLetters, processing>>
             \/ /\ deadLetters' = PushLeft(m, deadLetters)
                /\ processing' = Without(processing, m)
      BY <2>2 DEF MoveStale, history, outcome
    <3> HIDE DEF m
    <3>3. /\ ToSet(processing) \subseteq ToSet(processing') \cup ToSet(deadLetters')
          /\ ToSet(deadLetters) \subseteq ToSet(deadLetters')
      <4>1. CASE UNCHANGED <<deadLetters, processing>>
        BY <4>1
      <4>2. CASE deadLetters' = PushLeft(m, deadLetters) /\ processing' = Without(processing, m)
        <5>1. ToSet(deadLetters') = {m} \cup ToSet(deadLetters)
          BY <1>0, <3>1, <4>2, PushFacts
        <5>2. ToSet(processing') = ToSet(processing) \ {m}
          BY <1>0, <3>1, <4>2, WithoutFacts
        <5> QED
          BY <5>1, <5>2
      <4> QED
        BY <3>2, <4>1, <4>2
    <3>4. ToSet(processing)' = ToSet(processing') /\ ToSet(deadLetters)' = ToSet(deadLetters')
      BY DEF ToSet
    <3> QED
      BY <2>0, <3>2, <3>3, <3>4, LossMove DEF Safe
  <2>3. CASE Expire(n) \/ DeleteLetter(n)
    <3> DEFINE m == pass[n].message
    <3>1. m \in Messages /\ (DeleteLetter(n) => m \in handled)
      BY <1>0, <2>3 DEF Expire, DeleteLetter, Doing, Fits, DeleteInv
    <3>2. PICK e : Delete(m, e) /\ (Expire(n) => expired' = IF Ran(e) THEN expired \cup {m} ELSE expired)
      <4>1. CASE Expire(n)
        BY <4>1 DEF Expire
      <4>2. CASE DeleteLetter(n)
        BY <4>2 DEF DeleteLetter, Expire, Doing
      <4> QED
        BY <2>3, <4>1, <4>2
    <3>3. /\ UNCHANGED <<processing, handled>> /\ happened \subseteq happened'
          /\ expired \subseteq expired'
      BY <2>3 DEF Expire, DeleteLetter, Note, outcome
    <3>4. deadLetters' = deadLetters \/ (m \in Ended' /\ deadLetters' = Without(deadLetters, m))
      BY <2>3, <3>1, <3>2, <3>3 DEF Delete, Ended
    <3> HIDE DEF m
    <3>5. ToSet(deadLetters) \subseteq ToSet(deadLetters') \cup Ended'
      BY <1>0, <3>1, <3>4, WithoutFacts
    <3>6. ToSet(processing)' = ToSet(processing) /\ ToSet(deadLetters)' = ToSet(deadLetters')
      BY <3>3 DEF ToSet
    <3> QED
      BY <2>0, <3>3, <3>5, <3>6, LossMove DEF Safe
  <2> QED
    BY <1>6, <2>1, <2>2, <2>3 DEF Move, Retry
<1> QED
  BY <1>1, <1>2, <1>3, <1>4, <1>5, <1>6 DEF Next

(* A message that was published is in a list until it is handled or has    *)
(* expired, whoever dies and whatever call fails, but for the push on the  *)
(* dead letter list: ExecuteCallback and RetryAsync.                       *)
THEOREM NoMessageLost == Spec => []NothingLost
<1>1. LossInv => NothingLost
  BY DEF LossInv, NothingLost
<1> QED
  BY <1>1, InitLoss, TypesHold, NextDelete, NextLoss, PTL DEF Spec

-----------------------------------------------------------------------------
(* The order of messages under the lock.                                   *)

(* The published list has its oldest message last.                         *)
QueueInv ==
    /\ \A i, j \in DOMAIN published : i < j => published[j] < published[i]
    /\ \A i \in DOMAIN published : published[i] < nextMessage

(* With the lock, one callback runs at a time, and what waits is younger.  *)
LockInv ==
    enableLock =>
        \A n \in Instances, m \in Messages :
            ~At(n, m, "none") =>
              /\ locked
              /\ \A o \in Instances, k \in Messages : ~At(o, k, "none") => o = n /\ k = m
              /\ m < nextMessage
              /\ \A k \in ToSet(published) : m < k

(* A step of a callback.                                                   *)
LEMMA GoToFacts ==
  ASSUME Types, NEW n \in Instances, NEW m \in Messages, NEW pc, GoTo(n, m, pc)
  PROVE  \A o \in Instances, k \in Messages :
            callback'[o][k] = IF o = n /\ k = m THEN pc ELSE callback[o][k]
BY DEF GoTo, Types, InstanceTypes

(* What is popped is the oldest message.                                   *)
LEMMA PopOldest ==
  ASSUME Types, QueueInv, published # <<>>
  PROVE  /\ Rightmost(published) < nextMessage
         /\ \A k \in ToSet(PopRight(published)) : Rightmost(published) < k
<1> DEFINE p == PopRight(published)
<1>1. /\ Len(published) \in DOMAIN published /\ DOMAIN published = 1..Len(published)
      /\ Rightmost(published) = published[Len(published)] /\ Len(published) \in Nat
      /\ p \in Seq(Messages) /\ Len(p) = Len(published) - 1
      /\ \A i \in 1..(Len(published) - 1) : p[i] = published[i]
  BY PopFacts DEF Types, ListTypes
<1> HIDE DEF p
<1>2. \A i \in DOMAIN p : i \in DOMAIN published /\ i < Len(published) /\ p[i] = published[i]
  BY <1>1
<1> QED
  BY <1>1, <1>2 DEF QueueInv, ToSet, p

LEMMA NextQueue == Types /\ QueueInv /\ [Next]_vars => QueueInv'
<1> SUFFICES ASSUME Types, QueueInv, [Next]_vars PROVE QueueInv'
  OBVIOUS
<1>0. published \in Seq(Messages) /\ nextMessage \in Nat /\ Messages \subseteq Nat
  BY BoundsAssumption DEF Types, ListTypes, WorldTypes, Messages
<1>1. CASE UNCHANGED <<published, nextMessage>>
  BY <1>1 DEF QueueInv
<1>2. CASE Publish
  <2>1. nextMessage \in Messages
    BY <1>2, BoundsAssumption DEF Publish, Types, WorldTypes, Messages
  <2>2. /\ published' \in Seq(Messages) /\ Len(published') = Len(published) + 1
        /\ published'[1] = nextMessage /\ nextMessage' = nextMessage + 1
        /\ \A i \in 1..Len(published) : published'[i + 1] = published[i]
    BY <1>0, <1>2, <2>1, PushFacts DEF Publish
  <2>3. \A i \in DOMAIN published' :
          \/ i = 1 /\ published'[i] = nextMessage
          \/ i > 1 /\ i - 1 \in DOMAIN published /\ published'[i] = published[i - 1]
    <3> SUFFICES ASSUME NEW i \in DOMAIN published', i # 1
                 PROVE  i > 1 /\ i - 1 \in DOMAIN published /\ published'[i] = published[i - 1]
      BY <2>2
    <3>1. i - 1 \in 1..Len(published) /\ i > 1 /\ (i - 1) + 1 = i
      BY <1>0, <2>2
    <3> QED
      BY <1>0, <2>2, <3>1
  <2>4. \A i \in DOMAIN published : published[i] \in Nat /\ published[i] < nextMessage
    <3>1. \A i \in DOMAIN published : published[i] \in Messages
      BY <1>0
    <3> QED
      BY <1>0, <3>1 DEF QueueInv
  <2>5. \A i \in DOMAIN published' : published'[i] < nextMessage'
    BY <1>0, <2>2, <2>3, <2>4
  <2>6. \A i, j \in DOMAIN published' : i < j => published'[j] < published'[i]
    <3> SUFFICES ASSUME NEW i \in DOMAIN published', NEW j \in DOMAIN published', i < j
                 PROVE  published'[j] < published'[i]
      OBVIOUS
    <3>1. i \in Nat \ {0} /\ j \in Nat \ {0} /\ j > 1
      BY <2>2
    <3>2. j - 1 \in DOMAIN published /\ published'[j] = published[j - 1]
      BY <2>3, <3>1
    <3>3. CASE i = 1
      BY <2>2, <2>4, <3>2, <3>3
    <3>4. CASE i # 1
      <4>1. i - 1 \in DOMAIN published /\ published'[i] = published[i - 1] /\ i - 1 < j - 1
        BY <2>3, <3>1, <3>4
      <4> QED
        BY <3>2, <4>1 DEF QueueInv
    <3> QED
      BY <3>3, <3>4
  <2> QED
    BY <2>5, <2>6 DEF QueueInv
<1>3. ASSUME NEW n \in Instances, Pop(n) PROVE QueueInv'
  <2>1. CASE UNCHANGED published
    BY <1>1, <1>3, <2>1 DEF Pop, world
  <2>2. CASE published # <<>> /\ published' = PopRight(published)
    <3>1. /\ published' \in Seq(Messages) /\ Len(published') = Len(published) - 1
          /\ \A i \in 1..(Len(published) - 1) : published'[i] = published[i]
      BY <1>0, <2>2, PopFacts
    <3>2. \A i \in DOMAIN published' : i \in DOMAIN published /\ published'[i] = published[i]
      BY <1>0, <3>1
    <3>3. nextMessage' = nextMessage
      BY <1>3 DEF Pop, world
    <3> QED
      BY <3>2, <3>3 DEF QueueInv
  <2> QED
    BY <1>3, <2>1, <2>2 DEF Pop
<1>4. ASSUME NEW n \in Instances, Execute(n), ~Pop(n) PROVE QueueInv'
  BY <1>1, <1>4 DEF Execute, GiveUp, Invoke, Bury, Remove, lists, world
<1>5. ASSUME NEW n \in Instances, Move(n) \/ Retry(n) PROVE QueueInv'
  BY <1>1, <1>5, RetryFrame DEF world
<1> QED
  BY <1>1, <1>2, <1>3, <1>4, <1>5 DEF Next, vars, AgeOne, Age, ElapseOne, Elapse, ExpireLock, SetAdd,
     Startup, Subscribe, CountAwaiting, Crash, lists, world

LEMMA NextLock == Types /\ QueueInv /\ LockInv /\ [Next]_vars => LockInv'
<1> SUFFICES ASSUME Types, QueueInv, LockInv, [Next]_vars PROVE LockInv'
  OBVIOUS
<1>0. /\ published \in Seq(Messages) /\ nextMessage \in Nat /\ Messages \subseteq Nat
      /\ callback \in [Instances -> [Messages -> {"none", "run", "bury", "remove"}]]
  BY BoundsAssumption DEF Types, ListTypes, WorldTypes, InstanceTypes, Messages
<1>1. CASE UNCHANGED <<published, nextMessage, enableLock, callback, locked>>
  BY <1>1 DEF LockInv, At, ToSet
<1>2. CASE Publish
  <2>1. nextMessage \in Messages
    BY <1>2, BoundsAssumption DEF Publish, Types, WorldTypes, Messages
  <2>2. /\ ToSet(published') = {nextMessage} \cup ToSet(published)
        /\ UNCHANGED <<enableLock, callback, locked>> /\ nextMessage' = nextMessage + 1
    BY <1>0, <1>2, <2>1, PushFacts DEF Publish
  <2>3. ToSet(published)' = ToSet(published')
    BY DEF ToSet
  <2> QED
    BY <1>0, <2>2, <2>3 DEF LockInv, At
<1>3. CASE ExpireLock
  BY <1>3 DEF ExpireLock, AnyCallback, LockInv, At, lists, world
<1>4. ASSUME NEW n \in Instances, Crash(n) PROVE LockInv'
  <2>1. /\ UNCHANGED <<published, nextMessage, enableLock, locked>>
        /\ \A o \in Instances, k \in Messages : ~At(o, k, "none")' => ~At(o, k, "none")
    BY <1>0, <1>4 DEF Crash, At, lists, world
  <2> QED
    BY <2>1 DEF LockInv, ToSet
<1>5. ASSUME NEW n \in Instances, Pop(n) PROVE LockInv'
  <2> DEFINE m == Rightmost(published)
  <2>1. /\ UNCHANGED <<nextMessage, enableLock>> /\ ~locked
        /\ \/ UNCHANGED <<published, callback, locked>>
           \/ /\ published # <<>> /\ published' = PopRight(published)
              /\ \/ UNCHANGED <<callback, locked>>
                 \/ GoTo(n, m, "run") /\ locked' = enableLock
    BY <1>5 DEF Pop, Acquire, world
  <2>2. enableLock => \A o \in Instances, k \in Messages : At(o, k, "none")
    BY <2>1 DEF LockInv
  <2>3. CASE UNCHANGED callback
    BY <2>1, <2>2, <2>3 DEF LockInv, At
  <2>4. CASE /\ published # <<>> /\ published' = PopRight(published)
             /\ GoTo(n, m, "run") /\ locked' = enableLock
    <3>1. m \in Messages /\ m < nextMessage /\ \A k \in ToSet(published') : m < k
      BY <1>0, <2>4, PopFacts, PopOldest
    <3> HIDE DEF m
    <3>2. \A o \in Instances, k \in Messages :
             callback'[o][k] = IF o = n /\ k = m THEN "run" ELSE callback[o][k]
      BY <2>4, <3>1, GoToFacts
    <3>3. enableLock => \A o \in Instances, k \in Messages : ~At(o, k, "none")' => o = n /\ k = m
      BY <2>2, <3>2 DEF At
    <3>4. ToSet(published)' = ToSet(published')
      BY DEF ToSet
    <3>5. enableLock => locked'
      BY <2>4
    <3> QED
      BY <2>1, <3>1, <3>3, <3>4, <3>5 DEF LockInv
  <2> QED
    BY <2>1, <2>3, <2>4
<1>6. ASSUME NEW n \in Instances, NEW m \in Messages, Invoke(n, m) \/ Bury(n, m) PROVE LockInv'
  <2>1. /\ UNCHANGED <<published, nextMessage, enableLock, locked>> /\ ~At(n, m, "none")
        /\ \E pc : GoTo(n, m, pc)
    BY <1>6 DEF Invoke, Bury, At, lists, world
  <2>2. \A o \in Instances, k \in Messages : ~At(o, k, "none")' => ~At(o, k, "none")
    BY <2>1, GoToFacts DEF At
  <2> QED
    BY <2>1, <2>2 DEF LockInv, ToSet
<1>7. ASSUME NEW n \in Instances, NEW m \in Messages, Remove(n, m) PROVE LockInv'
  <2>1. /\ enableLock' = enableLock /\ GoTo(n, m, "none") /\ ~At(n, m, "none")
    BY <1>7 DEF Remove, At, world
  <2>2. enableLock => \A o \in Instances, k \in Messages : At(o, k, "none")'
    BY <2>1, GoToFacts DEF LockInv, At
  <2> QED
    BY <2>1, <2>2 DEF LockInv
<1>8. ASSUME NEW n \in Instances, Move(n) \/ Retry(n) PROVE LockInv'
  BY <1>1, <1>8, RetryFrame DEF world
<1>9. CASE \/ UNCHANGED vars \/ AgeOne \/ ElapseOne
           \/ \E n \in Instances : SetAdd(n) \/ Startup(n) \/ GiveUp(n)
  BY <1>1, <1>9 DEF vars, AgeOne, Age, ElapseOne, Elapse, SetAdd, Startup, Subscribe, CountAwaiting,
     GiveUp, lists, world, tasks
<1> QED
  BY <1>2, <1>3, <1>4, <1>5, <1>6, <1>7, <1>8, <1>9 DEF Next, Execute

(* With the distributed lock the callbacks of all instances together take  *)
(* the messages in the order in which they were published: enableLock in   *)
(* SubscribeAsync.                                                         *)
THEOREM MessagesInOrder == Spec => []InOrderUnderLock
<1>1. Init => QueueInv /\ LockInv
  BY DEF Init, QueueInv, LockInv, At
<1>2. QueueInv /\ LockInv /\ Types => InOrderUnderLock
  <2> SUFFICES ASSUME LockInv, Types, enableLock, NEW n \in Instances, NEW o \in Instances,
                      NEW earlier \in Messages, NEW m \in Messages, earlier < m, ~At(n, m, "none")
               PROVE  earlier \notin ToSet(published) /\ At(o, earlier, "none")
    BY DEF InOrderUnderLock
  <2>1. earlier \in Nat /\ m \in Nat
    BY BoundsAssumption DEF Messages
  <2> QED
    BY <2>1 DEF LockInv
<1> QED
  BY <1>1, <1>2, TypesHold, NextQueue, NextLock, PTL DEF Spec

-----------------------------------------------------------------------------
(* Nothing is handled twice.                                               *)

Letters == ToSet(deadLetters)
Busy(n, m) == ~At(n, m, "none")
Active(n) == ~Doing(n, "idle")

(* A message is in one place at a time: it waits; or one callback has it,  *)
(* and the outcome is open until that is at its end; and nothing that is   *)
(* being processed is so old that a retry would take it.                   *)
PlaceInv ==
    /\ \A m \in ToSet(published) :
         /\ m \notin ToSet(processing) /\ m \notin handled /\ m \notin Letters
         /\ \A n \in Instances : ~Busy(n, m)
    /\ \A n, o \in Instances, m \in Messages : Busy(n, m) /\ Busy(o, m) => n = o
    /\ \A n \in Instances, m \in Messages :
         At(n, m, "run") \/ At(n, m, "bury") => m \notin handled /\ m \notin Letters
    /\ \A m \in ToSet(processing) : age[m] = "fresh"
    /\ \A m \in ToSet(processing) \cup Letters \cup handled : m < nextMessage
    /\ \A n \in Instances, m \in Messages : Busy(n, m) => m < nextMessage

(* One instance retries at a time.  A letter that has been handled is      *)
(* about to be deleted; the one in hand is still there; and what it read   *)
(* as stale it cannot move.                                                *)
RetryInv ==
    /\ \A n, o \in Instances : Active(n) /\ Active(o) => n = o
    /\ \A m \in Letters \cap handled :
         \E n \in Instances : Doing(n, "delete") /\ pass[n].message = m
    /\ \A n \in Instances :
         Doing(n, "decide") \/ Doing(n, "expire") \/ Doing(n, "retry") =>
            pass[n].message \in Letters
    /\ \A n \in Instances : Doing(n, "move") => ToSet(pass[n].toMove) \subseteq unreadable

OnceInv == Never({"twice"}) => PlaceInv /\ RetryInv /\ again = {}

LEMMA HappenedGrows == [Next]_vars => happened \subseteq happened'
BY DEF Next, vars, history, Publish, AgeOne, Age, ElapseOne, Elapse, ExpireLock, SetAdd, Startup,
   Subscribe, CountAwaiting, Execute, Pop, GiveUp, Invoke, Bury, Remove, Move, OldestProcessing,
   MoveStale, Retry, CountLetters, GetLetter, ShouldRetry, Expire, RetryCallBack, DeleteLetter,
   UpdateRetryData, Crash, Note

LEMMA InitOnce == Init => OnceInv
BY DEF Init, OnceInv, PlaceInv, RetryInv, ToSet, Letters, Busy, Active, At, Doing, Idle

(* What holds before a step after which still nothing has happened that    *)
(* could have a message handled again.                                     *)
Once == Types /\ QueueInv /\ PlaceInv /\ RetryInv /\ again = {} /\ Never({"twice"})'
Still == PlaceInv' /\ RetryInv' /\ again' = {}

LEMMA OnceFacts ==
  ASSUME Types
  PROVE  /\ published \in Seq(Messages) /\ processing \in Seq(Messages)
         /\ deadLetters \in Seq(Messages)
         /\ callback \in [Instances -> [Messages -> {"none", "run", "bury", "remove"}]]
         /\ pass \in [Instances -> Passes] /\ \A n \in Instances : Fits(pass[n])
         /\ handled \subseteq Messages /\ nextMessage \in Nat /\ Messages \subseteq Nat
         /\ age \in [Messages -> {"fresh", "stale", "expired"}]
BY BoundsAssumption DEF Types, ListTypes, WorldTypes, InstanceTypes, PassTypes, HistoryTypes,
   Messages

LEMMA PlaceFrame ==
  ASSUME PlaceInv, UNCHANGED <<published, processing, deadLetters, handled, age, nextMessage,
                               callback>>
  PROVE  PlaceInv'
BY DEF PlaceInv, ToSet, Letters, Busy, At

LEMMA RetryInvFrame ==
  ASSUME RetryInv, UNCHANGED <<deadLetters, handled, pass>>, unreadable \subseteq unreadable'
  PROVE  RetryInv'
BY DEF RetryInv, ToSet, Letters, Active, Doing

LEMMA WorldOnce ==
  ASSUME Once, Publish \/ AgeOne \/ ElapseOne \/ ExpireLock PROVE Still
<1>1. RetryInv'
  BY RetryInvFrame DEF Once, Publish, AgeOne, Age, ElapseOne, Elapse, ExpireLock, lists, world, tasks,
     history, outcome
<1>2. again' = {}
  BY DEF Once, Publish, AgeOne, Age, ElapseOne, Elapse, ExpireLock, history, outcome
<1>3. CASE ElapseOne \/ ExpireLock
  <2>1. UNCHANGED <<published, processing, deadLetters, handled, age, nextMessage, callback>>
    BY <1>3 DEF ElapseOne, Elapse, ExpireLock, lists, world, tasks, history, outcome
  <2> QED
    BY <1>1, <1>2, <2>1, PlaceFrame DEF Still, Once
<1>4. CASE AgeOne
  <2>1. PICK k \in Messages : Age(k)
    BY <1>4 DEF AgeOne
  <2>2. k \notin ToSet(processing)
    BY <2>1 DEF Once, Never, Age, Note, InProcess
  <2>3. \A m \in Messages \ {k} : age'[m] = age[m]
    BY <2>1, OnceFacts DEF Age, Once
  <2>4. ToSet(processing) \subseteq Messages
    BY OnceFacts DEF Once, ToSet
  <2>5. UNCHANGED <<published, processing, deadLetters, handled, nextMessage, callback>>
    BY <2>1 DEF Age, lists, tasks, outcome
  <2> QED
    BY <1>1, <1>2, <2>2, <2>3, <2>4, <2>5 DEF Still, Once, PlaceInv, ToSet, Letters, Busy, At
<1>5. CASE Publish
  <2>1. nextMessage \in Messages
    BY <1>5, BoundsAssumption DEF Publish, Once, Types, WorldTypes, Messages
  <2>2. ToSet(published') = {nextMessage} \cup ToSet(published)
    BY <1>5, <2>1, OnceFacts, PushFacts DEF Publish, Once
  <2>3. /\ UNCHANGED <<processing, deadLetters, handled, age, callback>>
        /\ nextMessage' = nextMessage + 1
    BY <1>5 DEF Publish, outcome
  <2>4. /\ \A m \in ToSet(processing) \cup Letters \cup handled : m # nextMessage /\ m < nextMessage'
        /\ \A n \in Instances, m \in Messages : Busy(n, m) => m # nextMessage /\ m < nextMessage'
    <3>1. ToSet(processing) \cup Letters \cup handled \subseteq Messages
      BY OnceFacts DEF Once, ToSet, Letters
    <3>2. \A m \in Messages : m < nextMessage => m # nextMessage /\ m < nextMessage + 1
      BY OnceFacts DEF Once
    <3> QED
      BY <2>3, <3>1, <3>2 DEF Once, PlaceInv
  <2>5. /\ ToSet(published)' = ToSet(published') /\ ToSet(processing)' = ToSet(processing)
        /\ Letters' = Letters /\ \A n \in Instances, m \in Messages : Busy(n, m)' <=> Busy(n, m)
        /\ \A n \in Instances, m \in Messages, pc \in {"run", "bury"} : At(n, m, pc)' <=> At(n, m, pc)
    BY <2>3 DEF ToSet, Letters, Busy, At
  <2>6. PlaceInv'
    <3>1. PlaceInv
      BY DEF Once
    <3>2. \A m \in ToSet(published)' :
            /\ m \notin ToSet(processing)' /\ m \notin handled' /\ m \notin Letters'
            /\ \A n \in Instances : ~Busy(n, m)'
      <4> SUFFICES ASSUME NEW m \in ToSet(published)'
                   PROVE  /\ m \notin ToSet(processing) /\ m \notin handled /\ m \notin Letters
                          /\ \A n \in Instances : ~Busy(n, m)'
        BY <2>3, <2>5
      <4>1. CASE m = nextMessage
        BY <2>1, <2>4, <2>5, <4>1
      <4>2. CASE m \in ToSet(published)
        <5>1. m \in Messages
          BY <4>2, OnceFacts DEF Once, ToSet
        <5> QED
          BY <2>5, <3>1, <4>2, <5>1 DEF PlaceInv
      <4> QED
        BY <2>2, <2>5, <4>1, <4>2
    <3>3. \A n, o \in Instances, m \in Messages : Busy(n, m)' /\ Busy(o, m)' => n = o
      BY <2>5, <3>1 DEF PlaceInv
    <3>4. \A n \in Instances, m \in Messages :
            At(n, m, "run")' \/ At(n, m, "bury")' => m \notin handled' /\ m \notin Letters'
      BY <2>3, <2>5, <3>1 DEF PlaceInv
    <3>5. \A m \in ToSet(processing)' : age'[m] = "fresh"
      BY <2>3, <2>5, <3>1 DEF PlaceInv
    <3>6. /\ \A m \in ToSet(processing)' \cup Letters' \cup handled' : m < nextMessage'
          /\ \A n \in Instances, m \in Messages : Busy(n, m)' => m < nextMessage'
      BY <2>3, <2>4, <2>5
    <3> QED
      BY <3>2, <3>3, <3>4, <3>5, <3>6 DEF PlaceInv
  <2> QED
    BY <1>1, <1>2, <2>6 DEF Still
<1> QED
  BY <1>1, <1>2, <1>3, <1>4, <1>5 DEF Still, Once

LEMMA StartOnce ==
  ASSUME Once, NEW n \in Instances, SetAdd(n) \/ Startup(n) \/ Crash(n) \/ GiveUp(n) PROVE Still
<1>1. ~Crash(n)
  BY DEF Once, Never, Crash, Note
<1>2. UNCHANGED <<published, processing, deadLetters, handled, age, nextMessage, callback, pass,
                  unreadable, again>>
  BY <1>1 DEF SetAdd, Startup, Subscribe, CountAwaiting, GiveUp, lists, world, outcome, history
<1> QED
  BY <1>2, PlaceFrame, RetryInvFrame DEF Still, Once

(* A message that is popped has been nowhere but on the published list.    *)
LEMMA PopOnce == ASSUME Once, NEW n \in Instances, Pop(n) PROVE Still
<1>1. /\ UNCHANGED <<deadLetters, handled, age, nextMessage, unreadable, pass, again>>
      /\ \/ UNCHANGED <<published, processing, callback>>
         \/ /\ published # <<>>
            /\ published' = PopRight(published) /\ processing' = PushLeft(Rightmost(published), processing)
            /\ Note(IF age[Rightmost(published)] = "fresh" THEN {} ELSE {"twice"})
            /\ UNCHANGED callback \/ GoTo(n, Rightmost(published), "run")
  BY DEF Pop, world, outcome
<1>2. RetryInv' /\ again' = {}
  BY <1>1, RetryInvFrame DEF Once
<1>3. CASE UNCHANGED <<published, processing, callback>>
  BY <1>1, <1>2, <1>3, PlaceFrame DEF Still, Once
<1>4. CASE /\ published # <<>>
           /\ published' = PopRight(published) /\ processing' = PushLeft(Rightmost(published), processing)
           /\ Note(IF age[Rightmost(published)] = "fresh" THEN {} ELSE {"twice"})
           /\ UNCHANGED callback \/ GoTo(n, Rightmost(published), "run")
  <2>0. PICK m \in Messages : m = Rightmost(published)
    BY <1>4, OnceFacts, PopFacts DEF Once
  <2>1. m \in Messages /\ ToSet(published) = {m} \cup ToSet(published')
    BY <1>4, <2>0, OnceFacts, PopFacts DEF Once
  <2>2. m < nextMessage /\ \A k \in ToSet(published') : m < k
    BY <1>4, <2>0, PopOldest DEF Once
  <2>3. ToSet(processing') = {m} \cup ToSet(processing)
    BY <1>4, <2>0, OnceFacts, PushFacts DEF Once
  <2>4. age[m] = "fresh"
    BY <1>4, <2>0 DEF Once, Never, Note
  <2>5. \A o \in Instances, k \in Messages :
           callback'[o][k] = callback[o][k] \/ (o = n /\ k = m /\ callback'[o][k] = "run")
    BY <1>4, <2>0, GoToFacts DEF Once
  <2>6. PlaceInv /\ m \in ToSet(published) /\ m \in Nat
    BY <2>1, OnceFacts DEF Once
  <2>7. /\ ToSet(published)' = ToSet(published') /\ ToSet(processing)' = ToSet(processing')
        /\ Letters' = Letters /\ handled' = handled
    BY <1>1 DEF ToSet, Letters
  <2>8. ToSet(published') \subseteq ToSet(published) /\ m \notin ToSet(published')
        /\ ToSet(published) \subseteq Messages
    <3>1. ToSet(published) \subseteq Messages
      BY OnceFacts DEF Once, ToSet
    <3> QED
      BY <2>1, <2>2, <2>6, <3>1
  <2>9. \A o \in Instances, k \in Messages \ {m} :
          (Busy(o, k)' <=> Busy(o, k)) /\ \A pc \in {"run", "bury"} : At(o, k, pc)' <=> At(o, k, pc)
    BY <2>5 DEF Busy, At
  <2>10. /\ \A k \in ToSet(published)' :
             /\ k \notin ToSet(processing)' /\ k \notin handled' /\ k \notin Letters'
             /\ \A o \in Instances : ~Busy(o, k)'
         /\ \A k \in ToSet(processing)' : age'[k] = "fresh"
         /\ \A k \in ToSet(processing)' \cup Letters' \cup handled' : k < nextMessage'
    <3>1. ASSUME NEW k \in ToSet(published)'
          PROVE  /\ k \notin ToSet(processing)' /\ k \notin handled' /\ k \notin Letters'
                 /\ \A o \in Instances : ~Busy(o, k)'
      <4>1. k \in ToSet(published) /\ k # m /\ k \in Messages
        BY <2>7, <2>8
      <4>2. /\ k \notin ToSet(processing) /\ k \notin handled /\ k \notin Letters
            /\ \A o \in Instances : ~Busy(o, k)
        BY <2>6, <4>1 DEF PlaceInv
      <4> QED
        BY <2>3, <2>7, <2>9, <4>1, <4>2
    <3>2. \A k \in ToSet(processing)' : age'[k] = "fresh"
      BY <1>1, <2>3, <2>4, <2>6, <2>7 DEF PlaceInv
    <3>3. \A k \in ToSet(processing)' \cup Letters' \cup handled' : k < nextMessage'
      BY <1>1, <2>2, <2>3, <2>6, <2>7 DEF PlaceInv
    <3> QED
      BY <3>1, <3>2, <3>3
  <2>11. m \notin handled /\ m \notin Letters /\ \A o \in Instances : ~Busy(o, m)
    BY <2>6 DEF PlaceInv
  <2>12. \A o \in Instances : Busy(o, m)' => o = n
    BY <2>1, <2>5, <2>11 DEF Busy, At
  <2>13. ASSUME NEW k \in Messages
         PROVE  /\ \A o, q \in Instances : Busy(o, k)' /\ Busy(q, k)' => o = q
                /\ \A o \in Instances :
                     At(o, k, "run")' \/ At(o, k, "bury")' => k \notin handled' /\ k \notin Letters'
                /\ \A o \in Instances : Busy(o, k)' => k < nextMessage'
    <3>1. CASE k = m
      <4>1. m \notin handled' /\ m \notin Letters' /\ m < nextMessage'
        BY <1>1, <2>2, <2>7, <2>11
      <4> QED
        BY <2>12, <3>1, <4>1
    <3>2. CASE k # m
      BY <1>1, <2>6, <2>7, <2>9, <3>2 DEF PlaceInv
    <3> QED
      BY <3>1, <3>2
  <2>14. PlaceInv'
    BY <2>10, <2>13 DEF PlaceInv
  <2> QED
    BY <1>2, <2>14 DEF Still
<1> QED
  BY <1>1, <1>3, <1>4

(* A callback that goes on, with what it has done to its message.          *)
LEMMA CallbackOnce ==
  ASSUME Once, NEW n \in Instances, NEW m \in Messages, Busy(n, m), NEW pc, GoTo(n, m, pc),
         UNCHANGED <<published, age, nextMessage, pass, unreadable, again>>,
         ToSet(processing)' \subseteq ToSet(processing),
         pc \notin {"run", "bury"} \/ (m \notin handled' /\ m \notin Letters'),
         Letters' \subseteq Letters \cup {m}, handled' \subseteq handled \cup {m},
         Letters \subseteq Letters',
         m \in Letters' /\ m \in handled' => m \in Letters /\ m \in handled
  PROVE  Still
<1>1. PlaceInv /\ RetryInv
  BY DEF Once
<1>2. \A o \in Instances, k \in Messages :
         callback'[o][k] = IF o = n /\ k = m THEN pc ELSE callback[o][k]
  BY GoToFacts DEF Once
<1>3. \A o \in Instances, k \in Messages : Busy(o, k)' => Busy(o, k)
  BY <1>2 DEF Busy, At
<1>4. m < nextMessage /\ m \notin ToSet(published)
  BY <1>1 DEF PlaceInv
<1>5. ToSet(published)' = ToSet(published) /\ ToSet(published) \subseteq Messages
  BY OnceFacts DEF Once, ToSet
<1>6. \A k \in ToSet(published)' :
        /\ k \notin ToSet(processing)' /\ k \notin handled' /\ k \notin Letters'
        /\ \A o \in Instances : ~Busy(o, k)'
  BY <1>1, <1>3, <1>4, <1>5 DEF PlaceInv
<1>7. /\ \A o, q \in Instances, k \in Messages : Busy(o, k)' /\ Busy(q, k)' => o = q
      /\ \A o \in Instances, k \in Messages : Busy(o, k)' => k < nextMessage'
      /\ \A k \in ToSet(processing)' : age'[k] = "fresh"
      /\ \A k \in ToSet(processing)' \cup Letters' \cup handled' : k < nextMessage'
  BY <1>1, <1>3, <1>4 DEF PlaceInv
<1>8. ASSUME NEW o \in Instances, NEW k \in Messages, At(o, k, "run")' \/ At(o, k, "bury")'
      PROVE  k \notin handled' /\ k \notin Letters'
  <2>1. CASE o = n /\ k = m
    BY <1>2, <1>8, <2>1 DEF At
  <2>2. CASE o # n /\ k = m
    <3>1. Busy(o, m)
      BY <1>2, <1>8, <2>2 DEF At, Busy
    <3> QED
      BY <1>1, <2>2, <3>1 DEF PlaceInv
  <2>3. CASE k # m
    <3>1. At(o, k, "run") \/ At(o, k, "bury")
      BY <1>2, <1>8, <2>3 DEF At
    <3>2. k \notin handled /\ k \notin Letters
      BY <1>1, <3>1 DEF PlaceInv
    <3> QED
      BY <2>3, <3>2
  <2> QED
    BY <2>1, <2>2, <2>3
<1>9. PlaceInv'
  BY <1>6, <1>7, <1>8 DEF PlaceInv
<1>10. RetryInv'
  <2>1. Letters' \cap handled' \subseteq Letters \cap handled
    OBVIOUS
  <2>2. \A o \in Instances, q \in {"idle", "delete", "decide", "expire", "retry", "move"} :
           Doing(o, q)' <=> Doing(o, q)
    BY DEF Doing
  <2> QED
    BY <1>1, <2>1, <2>2 DEF RetryInv, Active, ToSet
<1> QED
  BY <1>9, <1>10 DEF Still, Once

LEMMA ExecuteOnce == ASSUME Once, NEW n \in Instances, Execute(n) PROVE Still
<1>1. ASSUME NEW m \in Messages, Invoke(n, m) PROVE Still
  <2>1. /\ UNCHANGED <<published, processing, deadLetters, age, nextMessage, pass, unreadable>>
        /\ At(n, m, "run") /\ Busy(n, m)
    BY <1>1 DEF Invoke, At, Busy, lists, world
  <2>2. m \notin handled /\ m \notin Letters
    BY <2>1 DEF Once, PlaceInv
  <2>3. again' = again /\ handled' \subseteq handled \cup {m}
    BY <1>1, <2>2 DEF Invoke, Complete
  <2>4. GoTo(n, m, "remove") \/ (GoTo(n, m, "bury") /\ handled' = handled)
    BY <1>1 DEF Invoke
  <2>5. ToSet(processing)' = ToSet(processing) /\ Letters' = Letters
    BY <2>1 DEF ToSet, Letters
  <2> QED
    BY <2>1, <2>2, <2>3, <2>4, <2>5, CallbackOnce
<1>2. ASSUME NEW m \in Messages, Bury(n, m) PROVE Still
  <2>1. /\ UNCHANGED <<published, processing, handled, again, age, nextMessage, pass, unreadable>>
        /\ At(n, m, "bury") /\ Busy(n, m) /\ GoTo(n, m, "remove")
        /\ deadLetters' = PushLeft(m, deadLetters) \/ deadLetters' = deadLetters
    BY <1>2 DEF Bury, At, Busy, world, outcome
  <2>2. m \notin handled
    BY <2>1 DEF Once, PlaceInv
  <2>3. Letters \subseteq ToSet(deadLetters') /\ ToSet(deadLetters') \subseteq Letters \cup {m}
    BY <2>1, OnceFacts, PushFacts DEF Once, Letters
  <2>4. ToSet(processing)' = ToSet(processing) /\ Letters' = ToSet(deadLetters')
    BY <2>1 DEF ToSet, Letters
  <2> QED
    BY <2>1, <2>2, <2>3, <2>4, CallbackOnce
<1>3. ASSUME NEW m \in Messages, Remove(n, m) PROVE Still
  <2>1. /\ UNCHANGED <<published, deadLetters, handled, again, age, nextMessage, pass, unreadable>>
        /\ Busy(n, m) /\ GoTo(n, m, "none")
        /\ processing' = Without(processing, m) \/ processing' = processing
    BY <1>3 DEF Remove, At, Busy, world, outcome
  <2>2. ToSet(processing') \subseteq ToSet(processing)
    BY <2>1, OnceFacts, WithoutFacts DEF Once
  <2>3. ToSet(processing)' = ToSet(processing') /\ Letters' = Letters
    BY <2>1 DEF ToSet, Letters
  <2> QED
    BY <2>1, <2>2, <2>3, CallbackOnce
<1> QED
  BY <1>1, <1>2, <1>3, PopOnce, StartOnce DEF Execute

(* The pass of the one instance that retries goes on: it deletes letters,  *)
(* or completes for the one in hand.                                       *)
LEMMA PassOnce ==
  ASSUME Once, NEW n \in Instances, Move(n) \/ Retry(n),
         \A o \in Instances \ {n} : ~Active(o),
         again' = {}, ToSet(processing)' \subseteq ToSet(processing),
         Letters' \subseteq Letters, handled' \subseteq Letters \cup handled,
         \A m \in Letters' \cap handled' : Doing(n, "delete")' /\ pass'[n].message = m,
         pass'[n].pc \in {"decide", "expire", "retry"} => pass'[n].message \in Letters',
         pass'[n].pc = "move" => ToSet(pass'[n].toMove) \subseteq unreadable
  PROVE  Still
<1>1. PlaceInv /\ RetryInv
  BY DEF Once
<1>2. UNCHANGED <<published, age, nextMessage, unreadable, callback>>
  BY RetryFrame DEF world
<1>3. PlaceInv'
  <2>1. /\ ToSet(published)' = ToSet(published)
        /\ \A o \in Instances, m \in Messages : Busy(o, m)' <=> Busy(o, m)
        /\ \A o \in Instances, m \in Messages, pc \in {"run", "bury"} :
             At(o, m, pc)' <=> At(o, m, pc)
        /\ ToSet(published) \subseteq Messages
    BY <1>2, OnceFacts DEF ToSet, Busy, At, Once
  <2>2. \A m \in ToSet(published)' :
          /\ m \notin ToSet(processing)' /\ m \notin handled' /\ m \notin Letters'
          /\ \A o \in Instances : ~Busy(o, m)'
    BY <1>1, <2>1 DEF PlaceInv
  <2>3. \A o, q \in Instances, m \in Messages : Busy(o, m)' /\ Busy(q, m)' => o = q
    BY <1>1, <2>1 DEF PlaceInv
  <2>4. \A o \in Instances, m \in Messages :
          At(o, m, "run")' \/ At(o, m, "bury")' => m \notin handled' /\ m \notin Letters'
    <3> SUFFICES ASSUME NEW o \in Instances, NEW m \in Messages,
                        At(o, m, "run")' \/ At(o, m, "bury")'
                 PROVE  m \notin handled' /\ m \notin Letters'
      OBVIOUS
    <3>1. m \notin handled /\ m \notin Letters
      BY <1>1, <2>1 DEF PlaceInv
    <3> QED
      BY <3>1
  <2>5. /\ \A m \in ToSet(processing)' : age'[m] = "fresh"
        /\ \A m \in ToSet(processing)' \cup Letters' \cup handled' : m < nextMessage'
        /\ \A o \in Instances, m \in Messages : Busy(o, m)' => m < nextMessage'
    BY <1>1, <1>2, <2>1 DEF PlaceInv
  <2> QED
    BY <2>2, <2>3, <2>4, <2>5 DEF PlaceInv
<1>4. RetryInv'
  <2>1. \A o \in Instances \ {n} : pass'[o] = pass[o]
    BY PassMoves DEF Once
  <2>2. \A o \in Instances \ {n} : pass'[o].pc = "idle"
    BY <2>1 DEF Active, Doing
  <2>3. \A o, q \in Instances : Active(o)' /\ Active(q)' => o = q
    BY <2>2 DEF Active, Doing
  <2>4. \A m \in Letters' \cap handled' :
          \E o \in Instances : Doing(o, "delete")' /\ pass'[o].message = m
    OBVIOUS
  <2>5. \A o \in Instances :
          /\ Doing(o, "decide")' \/ Doing(o, "expire")' \/ Doing(o, "retry")' =>
                pass'[o].message \in Letters'
          /\ Doing(o, "move")' => ToSet(pass'[o].toMove) \subseteq unreadable'
    BY <1>2, <2>2 DEF Doing
  <2>6. \A o \in Instances : ToSet(pass[o].toMove)' = ToSet(pass'[o].toMove)
    BY DEF ToSet
  <2> QED
    BY <2>3, <2>4, <2>5, <2>6 DEF RetryInv
<1> QED
  BY <1>3, <1>4 DEF Still

LEMMA MoveOnce == ASSUME Once, NEW n \in Instances, Move(n) PROVE Still
<1>0. /\ DOMAIN pass = Instances /\ pass[n] \in Passes
      /\ processing \in Seq(Messages) /\ unreadable \subseteq Messages
  BY OnceFacts DEF Once, Types, WorldTypes
<1>1. again = {} /\ PlaceInv /\ RetryInv
  BY DEF Once
<1>2. CASE OldestProcessing(n)
  <2> DEFINE read == {m \in Messages : Stale(m)} \cup unreadable
             found == Keep(Oldest(processing, StaleCount), read)
  <2>1. \A o \in Instances : ~Active(o)
    BY <1>2 DEF Once, Never, OldestProcessing, Note, Active
  <2>2. /\ UNCHANGED <<processing, deadLetters, handled, again>>
        /\ pass' = pass \/ pass' = [pass EXCEPT ![n].pc = "move", ![n].toMove = found]
    BY <1>2 DEF OldestProcessing, lists, outcome
  <2>3. ToSet(found) \subseteq unreadable
    <3>1. ToSet(found) = ToSet(Oldest(processing, StaleCount)) \cap read
      BY <1>0, StaleAssumption, OldestFacts, KeepFacts
    <3>2. ToSet(Oldest(processing, StaleCount)) \subseteq ToSet(processing)
      BY <1>0, StaleAssumption, OldestFacts
    <3> QED
      BY <1>1, <3>1, <3>2 DEF PlaceInv, Stale
  <2> HIDE DEF found
  <2>4. /\ pass'[n].pc \in {"idle", "move"}
        /\ pass'[n].pc = "move" => pass'[n].toMove = found
    BY <1>0, <2>1, <2>2 DEF Active, Doing, Passes
  <2>5. Letters \cap handled = {}
    BY <1>1, <2>1 DEF RetryInv, Active, Doing
  <2>6. ToSet(processing)' = ToSet(processing) /\ Letters' = Letters
    BY <2>2 DEF ToSet, Letters
  <2> QED
    BY <1>1, <1>2, <2>1, <2>2, <2>3, <2>4, <2>5, <2>6, PassOnce DEF Move
<1>3. CASE MoveStale(n)
  <2>1. Doing(n, "move") /\ pass[n].toMove \in Seq(Messages) /\ pass[n].toMove # <<>>
    BY <1>0, <1>3 DEF MoveStale, Passes
  <2>2. Head(pass[n].toMove) \in ToSet(pass[n].toMove)
    <3>1. 1 \in DOMAIN pass[n].toMove /\ Head(pass[n].toMove) = pass[n].toMove[1]
      BY <2>1
    <3> QED
      BY <3>1 DEF ToSet
  <2>3. Head(pass[n].toMove) \in unreadable
    BY <1>1, <2>1, <2>2 DEF RetryInv
  <2>4. End(n) /\ UNCHANGED <<processing, deadLetters, handled, again>>
    BY <1>3, <2>3 DEF MoveStale, history, outcome
  <2>5. \A o \in Instances \ {n} : ~Active(o)
    BY <1>1, <2>1 DEF RetryInv, Active, Doing
  <2>6. Letters \cap handled = {}
    BY <1>1, <2>1, <2>5 DEF RetryInv, Active, Doing
  <2>7. pass'[n].pc = "idle"
    BY <1>0, <2>4 DEF End, Idle
  <2>8. ToSet(processing)' = ToSet(processing) /\ Letters' = Letters
    BY <2>4 DEF ToSet, Letters
  <2> QED
    BY <1>1, <1>3, <2>4, <2>5, <2>6, <2>7, <2>8, PassOnce DEF Move
<1> QED
  BY <1>2, <1>3 DEF Move

LEMMA RetryOnce == ASSUME Once, NEW n \in Instances, Retry(n) PROVE Still
<1>0. /\ DOMAIN pass = Instances /\ pass[n] \in Passes /\ Fits(pass[n])
      /\ deadLetters \in Seq(Messages)
  BY OnceFacts DEF Once
<1>1. again = {} /\ PlaceInv /\ RetryInv
  BY DEF Once
<1>2. Active(n) /\ UNCHANGED processing /\ ToSet(processing)' = ToSet(processing)
  BY DEF Retry, CountLetters, GetLetter, ShouldRetry, Expire, RetryCallBack, DeleteLetter,
     UpdateRetryData, Active, Doing, lists, ToSet
<1>3. \A o \in Instances \ {n} : ~Active(o)
  BY <1>1, <1>2 DEF RetryInv
<1>4. ~Doing(n, "delete") => Letters \cap handled = {}
  BY <1>1, <1>3 DEF RetryInv, Active, Doing
<1>5. End(n) \/ NextLetter(n, 0) \/ NextLetter(n, 1) => pass'[n].pc \in {"idle", "get"}
  BY <1>0 DEF End, NextLetter, Idle, Passes
<1>6. \A pc : OnTo(n, pc) => pass'[n].pc = pc /\ pass'[n].message = pass[n].message
  BY <1>0 DEF OnTo, Passes
<1>7. deadLetters' = deadLetters => Letters' = Letters
  BY DEF Letters, ToSet
<1>8. CASE CountLetters(n) \/ UpdateRetryData(n)
  <2>1. UNCHANGED <<deadLetters, handled, again>> /\ ~Doing(n, "delete")
    BY <1>8 DEF CountLetters, UpdateRetryData, Doing, lists, history, outcome
  <2>2. pass'[n].pc \in {"idle", "get"}
    <3>1. pass' = [pass EXCEPT ![n].pc = "get", ![n].length = Len(deadLetters)] =>
             pass'[n].pc = "get"
      BY <1>0 DEF Passes
    <3> QED
      BY <1>5, <1>8, <3>1 DEF CountLetters, UpdateRetryData
  <2> QED
    BY <1>1, <1>2, <1>3, <1>4, <1>7, <2>1, <2>2, PassOnce
<1>9. CASE GetLetter(n)
  <2>1. UNCHANGED <<deadLetters, handled, again>> /\ ~Doing(n, "delete")
    BY <1>9 DEF GetLetter, Doing, lists, history, outcome
  <2>2. \/ pass'[n].pc \in {"idle", "get"}
        \/ pass'[n].pc = "decide" /\ pass'[n].message \in Letters
    <3>1. CASE End(n) \/ NextLetter(n, 0)
      BY <1>5, <3>1
    <3>2. CASE /\ IndexToGet(n) < Len(deadLetters)
               /\ pass' = [pass EXCEPT ![n].pc = "decide",
                                       ![n].message = deadLetters[IndexToGet(n) + 1]]
      <4>1. IndexToGet(n) \in Nat
        BY <1>0 DEF IndexToGet, Passes, Fits
      <4>2. IndexToGet(n) + 1 \in DOMAIN deadLetters
        BY <1>0, <3>2, <4>1
      <4>3. pass'[n].pc = "decide" /\ pass'[n].message = deadLetters[IndexToGet(n) + 1]
        BY <1>0, <3>2 DEF Passes
      <4> QED
        BY <4>2, <4>3 DEF Letters, ToSet
    <3> QED
      BY <1>9, <3>1, <3>2 DEF GetLetter
  <2> QED
    BY <1>1, <1>2, <1>3, <1>4, <1>7, <2>1, <2>2, PassOnce
<1>10. CASE ShouldRetry(n)
  <2>1. UNCHANGED <<deadLetters, handled, again>> /\ Doing(n, "decide")
    BY <1>10 DEF ShouldRetry, lists, history, outcome
  <2>2. \/ pass'[n].pc \in {"idle", "get", "update"}
        \/ pass'[n].pc \in {"expire", "retry"} /\ pass'[n].message = pass[n].message
    <3>1. \/ NextLetter(n, 0) \/ OnTo(n, "update") \/ OnTo(n, "expire") \/ OnTo(n, "retry")
      BY <1>10 DEF ShouldRetry
    <3> QED
      BY <1>5, <1>6, <3>1
  <2>3. pass[n].message \in Letters /\ ~Doing(n, "delete")
    BY <1>1, <2>1 DEF RetryInv, Doing
  <2> QED
    BY <1>1, <1>2, <1>3, <1>4, <1>7, <2>1, <2>2, <2>3, PassOnce
<1>11. CASE Expire(n)
  <2>1. UNCHANGED <<handled, again>> /\ ~Doing(n, "delete")
    BY <1>11 DEF Expire, Doing
  <2>2. pass'[n].pc \in {"idle", "get", "update"}
    BY <1>5, <1>6, <1>11 DEF Expire
  <2>3. pass[n].message \in Messages
    BY <1>0, <1>11 DEF Expire, Doing, Fits
  <2>4. Letters' \subseteq Letters
    <3>1. deadLetters' = deadLetters \/ deadLetters' = Without(deadLetters, pass[n].message)
      BY <1>11 DEF Expire, Delete
    <3>2. ToSet(deadLetters') \subseteq ToSet(deadLetters)
      BY <1>0, <2>3, <3>1, WithoutFacts
    <3> QED
      BY <3>2 DEF Letters, ToSet
  <2> QED
    BY <1>1, <1>2, <1>3, <1>4, <2>1, <2>2, <2>4, PassOnce
<1>12. CASE RetryCallBack(n)
  <2>1. UNCHANGED deadLetters /\ Doing(n, "retry") /\ ~Doing(n, "delete")
    BY <1>12 DEF RetryCallBack, Doing, lists
  <2>2. pass[n].message \in Letters /\ pass[n].message \notin handled
    BY <1>1, <1>4, <2>1 DEF RetryInv
  <2>3. CASE OnTo(n, "update") /\ UNCHANGED <<handled, again>>
    <3>1. pass'[n].pc = "update"
      BY <1>6, <2>3
    <3> QED
      BY <1>1, <1>2, <1>3, <1>4, <1>7, <2>1, <2>3, <3>1, PassOnce
  <2>4. CASE OnTo(n, "delete") /\ Complete(pass[n].message)
    <3>1. Doing(n, "delete")' /\ pass'[n].pc = "delete" /\ pass'[n].message = pass[n].message
      BY <1>6, <2>4 DEF Doing
    <3>2. again' = {} /\ handled' = handled \cup {pass[n].message}
      BY <1>1, <2>2, <2>4 DEF Complete
    <3>3. \A m \in Letters' \cap handled' : m = pass[n].message
      BY <1>4, <1>7, <2>1, <3>2
    <3> QED
      BY <1>2, <1>3, <1>7, <2>1, <2>2, <3>1, <3>2, <3>3, PassOnce
  <2> QED
    BY <1>12, <2>3, <2>4 DEF RetryCallBack
<1>13. CASE DeleteLetter(n)
  <2>1. UNCHANGED <<handled, again>> /\ Doing(n, "delete")
    BY <1>13 DEF DeleteLetter, outcome
  <2>2. pass'[n].pc \in {"idle", "get", "update"}
    BY <1>5, <1>6, <1>13 DEF DeleteLetter
  <2>3. pass[n].message \in Messages
    BY <1>0, <2>1 DEF Doing, Fits
  <2>4. deadLetters' = Without(deadLetters, pass[n].message)
    BY <1>13 DEF DeleteLetter, Delete, Once, Never, Note, NotRun
  <2>5. Letters' = Letters \ {pass[n].message}
    <3>1. ToSet(deadLetters') = ToSet(deadLetters) \ {pass[n].message}
      BY <1>0, <2>3, <2>4, WithoutFacts
    <3> QED
      BY <3>1 DEF Letters, ToSet
  <2>6. \A m \in Letters \cap handled : m = pass[n].message
    BY <1>1, <1>3, <2>1 DEF RetryInv, Active, Doing
  <2>7. Letters' \cap handled' = {}
    BY <2>1, <2>5, <2>6
  <2> QED
    BY <1>1, <1>2, <1>3, <2>1, <2>2, <2>5, <2>7, PassOnce
<1> QED
  BY <1>8, <1>9, <1>10, <1>11, <1>12, <1>13 DEF Retry

LEMMA NextOnce == Types /\ QueueInv /\ OnceInv /\ [Next]_vars => OnceInv'
<1> SUFFICES ASSUME Types, QueueInv, OnceInv, [Next]_vars, Never({"twice"})' PROVE Still
  BY DEF OnceInv, Still
<1>1. Once
  BY HappenedGrows DEF Once, OnceInv, Never
<1>2. CASE UNCHANGED vars
  BY <1>1, <1>2, PlaceFrame, RetryInvFrame DEF Still, Once, vars, lists, world, tasks, history, outcome
<1>3. CASE Publish \/ AgeOne \/ ElapseOne \/ ExpireLock
  BY <1>1, <1>3, WorldOnce
<1>4. ASSUME NEW n \in Instances,
             SetAdd(n) \/ Startup(n) \/ Execute(n) \/ Move(n) \/ Retry(n) \/ Crash(n)
      PROVE  Still
  BY <1>1, <1>4, StartOnce, ExecuteOnce, MoveOnce, RetryOnce
<1> QED
  BY <1>2, <1>3, <1>4 DEF Next

(* No message is handled twice, unless an instance dies, the removal of a  *)
(* handled message is lost, a message gets stale while it is being         *)
(* processed or two instances retry at the same time: the finally block of *)
(* ExecuteCallback, and MoveStaleProcessingEventsToDeadLetters.            *)
THEOREM NoneHandledTwice == Spec => []HandledOnce
<1>1. Init => QueueInv
  BY DEF Init, QueueInv
<1>2. OnceInv => HandledOnce
  BY DEF OnceInv, HandledOnce
<1> QED
  BY <1>1, <1>2, InitOnce, TypesHold, NextQueue, NextOnce, PTL DEF Spec
=============================================================================
