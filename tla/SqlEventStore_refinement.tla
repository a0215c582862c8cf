----------------------- MODULE SqlEventStore_refinement -----------------------
(***************************************************************************)
(* The table of the SQL store is an EventStream, for any number of         *)
(* sessions, events and changes per commit, and any set of faults.         *)
(*                                                                         *)
(* SqlEventStore_proofs knows that the versions are in order.  What is     *)
(* missing is that no event is stored twice: the ids of different sessions *)
(* are different, and a session stores each of its own once.               *)
(***************************************************************************)
EXTENDS SqlEventStore_proofs

(* What a session has yet to save is new to the table, without repeats.    *)
NewInv(w) ==
    LET s == session[w] IN
      /\ \A k \in DOMAIN s.changes : s.changes[k].id < nextId
      /\ \A k \in DOMAIN s.changes : k > s.saved => s.changes[k].id \notin Stored
      /\ \A j, k \in DOMAIN s.changes : s.changes[j].id = s.changes[k].id => j = k

ApartInv(u, w) ==
    \A j \in DOMAIN session[u].changes, k \in DOMAIN session[w].changes :
      session[u].changes[j].id # session[w].changes[k].id

IdInv ==
    /\ \A id \in Stored : id < nextId
    /\ \A w \in Writers : NewInv(w)
    /\ \A u, w \in Writers : u # w => ApartInv(u, w)

-----------------------------------------------------------------------------
LEMMA InitIdInv == Init => IdInv
BY DEF Init, IdInv, NewInv, ApartInv, Stored, Idle

(* A step that stores nothing and makes no event.                          *)
LEMMA SameEvents ==
  ASSUME IdInv, UNCHANGED <<rows, nextId>>,
         \A u \in Writers : \/ session'[u].changes = session[u].changes
                               /\ session'[u].saved = session[u].saved
                            \/ session'[u].changes = <<>>
  PROVE  IdInv'
<1>1. Stored' = Stored
  BY DEF Stored
<1>2. ASSUME NEW u \in Writers PROVE NewInv(u)'
  BY <1>1 DEF IdInv, NewInv
<1>3. ASSUME NEW u \in Writers, NEW w \in Writers, u # w PROVE ApartInv(u, w)'
  BY <1>3 DEF IdInv, ApartInv
<1> QED
  BY <1>1, <1>2, <1>3 DEF IdInv

(* Most steps move a session on, or let go of what it held.                *)
LEMMA OneSession ==
  ASSUME IInv, IdInv, NEW w \in Writers, UNCHANGED <<rows, nextId>>,
         \/ Leave(w)
         \/ \E v \in Nat : session' = [session EXCEPT ![w] = OpenAt(v)]
         \/ \E call \in Saving : Goto(w, call)
  PROVE  IdInv'
<1>1. session \in [Writers -> Sessions]
  BY DEF IInv, TypeOK
<1>2. ASSUME NEW u \in Writers
      PROVE  \/ session'[u].changes = session[u].changes /\ session'[u].saved = session[u].saved
             \/ session'[u].changes = <<>>
  <2>1. CASE u # w
    BY <1>1, <2>1 DEF Leave, Goto
  <2>2. CASE u = w /\ \E call \in Saving : Goto(w, call)
    BY <1>1, <2>2 DEF Goto, Sessions
  <2>3. CASE u = w /\ ~\E call \in Saving : Goto(w, call)
    BY <1>1, <2>3 DEF Leave, Idle, OpenAt
  <2> QED
    BY <2>1, <2>2, <2>3
<1> QED
  BY <1>2, SameEvents

LEMMA CommitAsyncIdInv ==
  ASSUME IInv, IdInv, NEW w \in Writers, CommitAsync(w) PROVE IdInv'
<1>1. CASE Leave(w) /\ UNCHANGED nextId
  BY <1>1, OneSession DEF CommitAsync
<1>2. CASE ~(Leave(w) /\ UNCHANGED nextId)
  <2>1. PICK n \in 1..MaxBatch :
        /\ session' = [session EXCEPT ![w] =
              [pc |-> "insert", version |-> session[w].version + n, saved |-> 0,
               changes |-> [k \in 1..n |-> [id |-> nextId + k - 1,
                                            version |-> session[w].version + k]]]]
        /\ nextId' = nextId + n
        /\ UNCHANGED rows
    BY <1>2 DEF CommitAsync
  <2>2. n \in Nat /\ nextId \in Nat /\ Stored' = Stored
    BY <2>1, BoundsAssumption DEF IInv, TypeOK, Stored
  <2>3. ASSUME NEW u \in Writers \ {w}
        PROVE  /\ session'[u] = session[u]
               /\ \A k \in DOMAIN session[u].changes :
                    session[u].changes[k].id \in Nat /\ session[u].changes[k].id < nextId
    <3>1. session[u].changes \in Seq(Events) /\ session'[u] = session[u]
      BY <2>1 DEF IInv, TypeOK, Sessions
    <3>2. \A k \in DOMAIN session[u].changes : session[u].changes[k] \in Events
      BY <3>1
    <3> QED
      BY <3>1, <3>2 DEF IdInv, NewInv, Events, Ids
  <2>4. /\ DOMAIN session'[w].changes = 1..n
        /\ \A k \in 1..n : session'[w].changes[k].id = nextId + k - 1
    BY <2>1 DEF IInv, TypeOK
  <2>5. \A id \in Stored : id \in Nat /\ id < nextId
    <3>1. rows \in Seq(Events)
      BY DEF IInv, TypeOK
    <3>2. \A i \in DOMAIN rows : rows[i] \in Events
      BY <3>1
    <3>3. \A i \in DOMAIN rows : rows[i].id \in Nat
      BY <3>2 DEF Events, Ids
    <3> QED
      BY <3>3 DEF IdInv, Stored
  <2>6. NewInv(w)'
    <3>1. \A k \in 1..n : nextId + k - 1 < nextId' /\ nextId + k - 1 >= nextId
      BY <2>1, <2>2
    <3>2. \A k \in 1..n : nextId + k - 1 \notin Stored
      BY <2>2, <2>5, <3>1
    <3>3. \A j, k \in 1..n : nextId + j - 1 = nextId + k - 1 => j = k
      BY <2>2
    <3> QED
      BY <2>2, <2>4, <3>1, <3>2, <3>3 DEF NewInv
  <2>7. ASSUME NEW u \in Writers \ {w} PROVE NewInv(u)' /\ ApartInv(u, w)' /\ ApartInv(w, u)'
    <3>1. NewInv(u)'
      BY <2>1, <2>2, <2>3 DEF IdInv, NewInv
    <3>2. \A j \in DOMAIN session[u].changes, k \in 1..n :
            session[u].changes[j].id # nextId + k - 1
      BY <2>2, <2>3
    <3> QED
      BY <2>3, <2>4, <3>1, <3>2 DEF ApartInv
  <2>8. \A id \in Stored' : id < nextId'
    BY <2>1, <2>2, <2>5
  <2>9. ASSUME NEW u \in Writers \ {w}, NEW v \in Writers \ {w}, u # v PROVE ApartInv(u, v)'
    BY <2>3, <2>9 DEF IdInv, ApartInv
  <2> QED
    BY <2>6, <2>7, <2>8, <2>9 DEF IdInv
<1> QED
  BY <1>1, <1>2

(* A commit that ran stores an event the table did not have.               *)
LEMMA CommitRanIdInv ==
  ASSUME IInv, IdInv, NEW w \in Writers, session[w].pc = "commit",
         rows' = Append(rows, Current(w)), UNCHANGED nextId,
         \/ Leave(w)
         \/ session' = [session EXCEPT
              ![w].saved = @ + 1,
              ![w].pc = IF session[w].saved + 1 = Len(session[w].changes)
                        THEN "returned" ELSE "insert"]
  PROVE  IdInv' /\ Current(w).id \notin Stored /\ Current(w).version = Len(rows) + 1
<1> DEFINE s == session[w] at == session[w].saved + 1
<1>1. s.pc \in Saving \ {"returned"} /\ s.pc \in InTransaction
  BY DEF Saving, InTransaction
<1>2. /\ s.saved \in Nat /\ s.version \in Nat /\ at \in 1..Len(s.changes)
      /\ Len(s.changes) \in Nat /\ Current(w) \in Events /\ Current(w).version \in Nat
      /\ Current(w).version + Len(s.changes) = s.version + s.saved + 1
      /\ s.changes \in Seq(Events) /\ Current(w) = s.changes[at]
  BY <1>1, CurrentEvent DEF IInv, TypeOK, Sessions, Current
<1>3. Current(w).version = Len(rows) + 1
  <2>1. s.version + s.saved = Len(rows) + Len(s.changes) /\ Len(rows) \in Nat
    BY <1>1 DEF IInv, HoldsNext, TypeOK
  <2>2. /\ s.saved \in Nat /\ s.version \in Nat /\ Len(s.changes) \in Nat
        /\ Current(w).version \in Nat
        /\ Current(w).version + Len(s.changes) = s.version + s.saved + 1
    BY <1>2
  <2> QED
    BY <2>1, <2>2, EventVersion
<1>4. at \in DOMAIN s.changes /\ at > s.saved
  BY <1>2
<1>5. Current(w).id \notin Stored /\ Current(w).id < nextId
  BY <1>2, <1>4 DEF IdInv, NewInv
<1>6. Stored' = Stored \cup {Current(w).id}
  <2>1. /\ rows \in Seq(Events) /\ Len(rows) \in Nat
        /\ Len(rows') = Len(rows) + 1
        /\ \A i \in 1..Len(rows) : rows'[i] = rows[i]
        /\ rows'[Len(rows) + 1] = Current(w) /\ rows' \in Seq(Events)
    BY <1>2 DEF IInv, TypeOK
  <2> QED
    BY <2>1 DEF Stored
<1>7. /\ \/ session'[w].changes = <<>>
         \/ session'[w].changes = s.changes /\ session'[w].saved = s.saved + 1
      /\ \A u \in Writers \ {w} : session'[u] = session[u]
  BY DEF Leave, Idle, IInv, TypeOK, Sessions
<1>8. NewInv(w)'
  <2>1. CASE session'[w].changes = <<>>
    BY <2>1 DEF NewInv
  <2>2. CASE session'[w].changes = s.changes /\ session'[w].saved = s.saved + 1
    <3>1. ASSUME NEW k \in DOMAIN s.changes, k > s.saved + 1
          PROVE  s.changes[k].id \notin Stored'
      <4>1. k > s.saved /\ k # at
        BY <1>2, <3>1
      <4> QED
        BY <1>2, <1>4, <1>6, <4>1 DEF IdInv, NewInv
    <3> QED
      BY <2>2, <3>1 DEF IdInv, NewInv
  <2> QED
    BY <1>7, <2>1, <2>2
<1>9. ASSUME NEW u \in Writers \ {w} PROVE NewInv(u)' /\ ApartInv(u, w)' /\ ApartInv(w, u)'
  <2>1. NewInv(u) /\ ApartInv(u, w) /\ ApartInv(w, u)
    BY DEF IdInv
  <2>2. \A k \in DOMAIN session[u].changes : session[u].changes[k].id # Current(w).id
    BY <1>2, <1>4, <2>1 DEF ApartInv
  <2>3. NewInv(u)'
    BY <1>6, <1>7, <2>1, <2>2 DEF NewInv
  <2>4. ApartInv(u, w)' /\ ApartInv(w, u)'
    BY <1>7, <2>1 DEF ApartInv
  <2> QED
    BY <2>3, <2>4
<1>10. ASSUME NEW u \in Writers \ {w}, NEW v \in Writers \ {w}, u # v PROVE ApartInv(u, v)'
  BY <1>7, <1>10 DEF IdInv, ApartInv
<1> QED
  BY <1>3, <1>5, <1>6, <1>8, <1>9, <1>10 DEF IdInv

-----------------------------------------------------------------------------
(* A step either leaves the ids as they were, makes new ones or stores one.*)
LEMMA NextIdInv == IInv /\ IdInv /\ [Next]_vars => IdInv'
<1> SUFFICES ASSUME IInv, IdInv, [Next]_vars PROVE IdInv'
  OBVIOUS
<1>1. CASE UNCHANGED vars
  BY <1>1, SameEvents DEF vars
<1>2. ASSUME NEW w \in Writers, Open(w) \/ Crash(w) PROVE IdInv'
  <2>1. \/ Leave(w)
        \/ \E v \in Nat : session' = [session EXCEPT ![w] = OpenAt(v)]
    BY <1>2 DEF Open, AddNew, Load, Abandon, Crash, Visible, IInv, TypeOK
  <2>2. UNCHANGED <<rows, nextId>>
    BY <1>2 DEF Open, AddNew, Load, Abandon, Crash
  <2> QED
    BY <2>1, <2>2, OneSession
<1>3. ASSUME NEW w \in Writers, Insert(w) \/ Publish(w) \/ Rollback(w) PROVE IdInv'
  <2>1. UNCHANGED <<rows, nextId>> /\ (Leave(w) \/ \E call \in Saving : Goto(w, call))
    BY <1>3 DEF Insert, Publish, Rollback, Saving, InTransaction
  <2> QED
    BY <2>1, OneSession
<1>4. ASSUME NEW w \in Writers, Return(w) PROVE IdInv'
  <2>1. session[w].version \in Nat
    BY DEF IInv, TypeOK, Sessions
  <2> QED
    BY <1>4, <2>1, OneSession DEF Return
<1>5. ASSUME NEW w \in Writers, Commit(w) PROVE IdInv'
  <2>1. session[w].pc = "commit" /\ UNCHANGED nextId
    BY <1>5 DEF Commit, At
  <2>2. PICK e \in Endings("commit") :
          /\ rows' = IF Ran(e) THEN Append(rows, Current(w)) ELSE rows
          /\ IF Answered(e)
             THEN session' = [session EXCEPT
                     ![w].saved = @ + 1,
                     ![w].pc = IF session[w].saved + 1 = Len(session[w].changes)
                               THEN "returned" ELSE "insert"]
             ELSE IF Ran(e) THEN Leave(w) ELSE Goto(w, "rollback")
    BY <1>5 DEF Commit
  <2>3. CASE Ran(e)
    BY <2>1, <2>2, <2>3, CommitRanIdInv
  <2>4. CASE ~Ran(e)
    BY <2>1, <2>2, <2>4, OneSession DEF Ran, Answered, Saving, InTransaction
  <2> QED
    BY <2>3, <2>4
<1> QED
  BY <1>1, <1>2, <1>3, <1>4, <1>5, CommitAsyncIdInv DEF Next, Save

(* What a step does to the table and to the acknowledgements is a step of  *)
(* the abstract stream, or none.                                           *)
LEMMA StepRefines ==
  IInv /\ IdInv /\ [Next]_vars => [Stream!Next]_<<rows, acked>>
<1> SUFFICES ASSUME IInv, IdInv, [Next]_vars PROVE Stream!Next \/ UNCHANGED <<rows, acked>>
  OBVIOUS
<1>1. Stream!Logged = Stored
  BY DEF Stream!Logged, Stored
<1>2. ASSUME NEW w \in Writers, Commit(w) PROVE Stream!Next \/ UNCHANGED <<rows, acked>>
  <2>1. session[w].pc = "commit" /\ UNCHANGED <<acked, nextId>>
    BY <1>2 DEF Commit, At
  <2>2. PICK e \in Endings("commit") :
          /\ rows' = IF Ran(e) THEN Append(rows, Current(w)) ELSE rows
          /\ IF Answered(e)
             THEN session' = [session EXCEPT
                     ![w].saved = @ + 1,
                     ![w].pc = IF session[w].saved + 1 = Len(session[w].changes)
                               THEN "returned" ELSE "insert"]
             ELSE IF Ran(e) THEN Leave(w) ELSE Goto(w, "rollback")
    BY <1>2 DEF Commit
  <2>3. CASE Ran(e)
    <3>1. /\ rows' = Append(rows, Current(w))
          /\ Current(w).id \notin Stored /\ Current(w).version = Len(rows) + 1
      BY <2>1, <2>2, <2>3, CommitRanIdInv
    <3>2. Current(w) \in Events
      BY <2>1, CurrentEvent DEF Saving, InTransaction
    <3>3. Current(w) = [id |-> Current(w).id, version |-> Len(rows) + 1]
      BY <3>1, <3>2 DEF Events
    <3>4. Stream!Store(Current(w).id) /\ Current(w).id \in Ids
      BY <1>1, <2>1, <3>1, <3>2, <3>3 DEF Stream!Store, Events
    <3> QED
      BY <3>4 DEF Stream!Next
  <2>4. CASE ~Ran(e)
    BY <2>1, <2>2, <2>4
  <2> QED
    BY <2>3, <2>4
<1>3. ASSUME NEW w \in Writers, Return(w) PROVE Stream!Next
  <2> DEFINE ids == {session[w].changes[k].id : k \in DOMAIN session[w].changes}
  <2>1. session[w].changes \in Seq(Events) /\ session[w].pc = "returned" /\ SavingInv(w)
    BY <1>3 DEF Return, At, IInv, TypeOK, Sessions
  <2>2. ids \subseteq Ids
    <3>1. \A k \in DOMAIN session[w].changes : session[w].changes[k] \in Events
      BY <2>1
    <3> QED
      BY <3>1 DEF Events
  <2>3. ids \subseteq Stored
    BY <2>1 DEF SavingInv, Saving
  <2>4. Stream!Acknowledge(ids)
    BY <1>1, <1>3, <2>3 DEF Return, Stream!Acknowledge
  <2> QED
    BY <2>2, <2>4 DEF Stream!Next
<1>4. ASSUME NEW w \in Writers, Open(w) \/ CommitAsync(w) \/ Insert(w) \/ Publish(w)
                                \/ Rollback(w) \/ Crash(w)
      PROVE  UNCHANGED <<rows, acked>>
  BY <1>4 DEF Open, AddNew, Load, Abandon, CommitAsync, Insert, Publish, Rollback, Crash
<1>5. CASE UNCHANGED vars
  BY <1>5 DEF vars
<1> QED
  BY <1>2, <1>3, <1>4, <1>5 DEF Next, Save

(* The SQL store implements the abstract event stream: whatever its        *)
(* sessions do and wherever they fail, an outside observer of the table    *)
(* and of the acknowledgements sees versions appended one by one and       *)
(* commits reported only when all they changed is there.                   *)
THEOREM Refinement == Spec => ImplementsEventStream
<1>1. Init => Stream!Init
  BY DEF Init, Stream!Init
<1>2. Spec => []IdInv
  BY InitIdInv, NextIdInv, Invariance, PTL DEF Spec
<1>3. Spec => Stream!Spec
  BY <1>1, <1>2, StepRefines, Invariance, PTL DEF Spec, Stream!Spec
<1> QED
  BY <1>3 DEF ImplementsEventStream
=============================================================================
