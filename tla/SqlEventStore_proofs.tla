------------------------- MODULE SqlEventStore_proofs -------------------------
(***************************************************************************)
(* The SQL store keeps its promises for any number of sessions, events and *)
(* changes per commit, and any set of faults.                              *)
(***************************************************************************)
EXTENDS SqlEventStore, TLAPS

(* A session that is open has a version the stream has reached.            *)
OpenInv(w) == session[w].pc = "open" => session[w].version <= Len(rows)

(* What a session saves is numbered up to its version; what it has saved   *)
(* is stored, and so are all the versions before the event it is at.       *)
SavingInv(w) ==
    session[w].pc \in Saving =>
      LET s == session[w] n == Len(s.changes) IN
        /\ n <= s.version
        /\ \A k \in 1..n : s.changes[k].version + n = s.version + k
        /\ \A k \in 1..n : k <= s.saved => s.changes[k].id \in Stored
        /\ s.version + s.saved <= Len(rows) + n
        /\ s.pc = "returned" => s.saved = n

(* A session with an uncommitted row holds the very next version, ...      *)
HoldsNext(w) ==
    session[w].pc \in InTransaction =>
      session[w].version + session[w].saved = Len(rows) + Len(session[w].changes)

(* ... so no two of them do.                                               *)
OneTransaction ==
    \A u, w \in Writers :
      session[u].pc \in InTransaction /\ session[w].pc \in InTransaction => u = w

(* A row about to be committed has been announced.                         *)
CommitAnnounced(w) == session[w].pc = "commit" => Current(w).id \in announced

IInv ==
    /\ TypeOK
    /\ StreamInOrder
    /\ StoredIsAnnounced
    /\ AckedStored
    /\ \A w \in Writers : OpenInv(w) /\ SavingInv(w) /\ HoldsNext(w) /\ CommitAnnounced(w)
    /\ OneTransaction

-----------------------------------------------------------------------------
(* Nothing holds at the start that a session could break: there is none.   *)
LEMMA InitIInv == Init => IInv
<1> SUFFICES ASSUME Init PROVE IInv
  OBVIOUS
<1>1. TypeOK
  BY BoundsAssumption DEF Init, TypeOK, Sessions, Idle, Saving, InTransaction, Events
<1>2. QED
  BY <1>1 DEF Init, IInv, StreamInOrder, StoredIsAnnounced, AckedStored, Stored, OpenInv,
     SavingInv, HoldsNext, CommitAnnounced, OneTransaction, Idle, Saving, InTransaction

(* The records the actions leave behind are sessions.                      *)
LEMMA RestTypes == Idle \in Sessions /\ \A v \in Nat : OpenAt(v) \in Sessions
BY DEF Idle, OpenAt, Sessions

(* A step that only moves session w out of its transaction and of any save *)
(* keeps the invariant, provided that the session is open, if it is, at a  *)
(* version the stream has.                                                 *)
LEMMA LeaveIInv ==
  ASSUME IInv, NEW w \in Writers,
         session' = [session EXCEPT ![w] = session'[w]],
         session'[w] \in Sessions,
         session'[w].pc \in {"idle", "open"},
         session'[w].pc = "open" => session'[w].version <= Len(rows),
         UNCHANGED <<rows, announced, nextId>>, happened' \subseteq Marks,
         acked' \subseteq Ids, acked' \subseteq Stored
  PROVE  IInv'
<1>1. TypeOK'
  BY DEF IInv, TypeOK, Saving, InTransaction
<1>2. StreamInOrder' /\ StoredIsAnnounced' /\ AckedStored'
  BY DEF IInv, StreamInOrder, StoredIsAnnounced, AckedStored, Stored
<1>3. ASSUME NEW u \in Writers
      PROVE  OpenInv(u)' /\ SavingInv(u)' /\ HoldsNext(u)' /\ CommitAnnounced(u)'
  <2>1. CASE u = w
    BY <2>1 DEF IInv, TypeOK, OpenInv, SavingInv, HoldsNext, CommitAnnounced, Saving, InTransaction
  <2>2. CASE u # w
    <3>1. session'[u] = session[u]
      BY <2>2 DEF IInv, TypeOK
    <3>2. OpenInv(u) /\ SavingInv(u) /\ HoldsNext(u) /\ CommitAnnounced(u)
      BY DEF IInv
    <3>3. QED
      BY <3>1, <3>2 DEF OpenInv, SavingInv, HoldsNext, CommitAnnounced, Current, Stored
  <2>3. QED
    BY <2>1, <2>2
<1>4. OneTransaction'
  BY DEF IInv, TypeOK, OneTransaction, InTransaction
<1>5. QED
  BY <1>1, <1>2, <1>3, <1>4 DEF IInv

-----------------------------------------------------------------------------
(* Opening and letting go: a load sees at most the rows that are there.    *)
LEMMA OpenIInv ==
  ASSUME IInv, NEW w \in Writers, Open(w) PROVE IInv'
<1>1. /\ UNCHANGED <<rows, announced, nextId>> /\ happened' \subseteq Marks
      /\ acked' \subseteq Ids /\ acked' \subseteq Stored
  BY DEF Open, AddNew, Load, Abandon, IInv, TypeOK, AckedStored
<1>2. /\ session' = [session EXCEPT ![w] = session'[w]]
      /\ session'[w] \in Sessions
      /\ session'[w].pc \in {"idle", "open"}
      /\ session'[w].pc = "open" => session'[w].version <= Len(rows)
  <2>1. CASE AddNew(w)
    BY <2>1, RestTypes DEF AddNew, IInv, TypeOK, OpenAt
  <2>2. CASE Load(w)
    BY <2>2, RestTypes DEF Load, Visible, IInv, TypeOK, OpenAt
  <2>3. CASE Abandon(w)
    BY <2>3, RestTypes DEF Abandon, Leave, IInv, TypeOK, Idle
  <2> QED
    BY <2>1, <2>2, <2>3 DEF Open
<1> QED
  BY <1>1, <1>2, LeaveIInv

(* A failed or a crashed session lets go of its row and of its changes.    *)
LEMMA DropIInv ==
  ASSUME IInv, NEW w \in Writers, Leave(w), UNCHANGED <<rows, announced, acked, nextId>>,
         happened' \subseteq Marks
  PROVE  IInv'
<1>1. acked' \subseteq Ids /\ acked' \subseteq Stored
  BY DEF IInv, TypeOK, AckedStored
<1>2. /\ session' = [session EXCEPT ![w] = session'[w]]
      /\ session'[w] \in Sessions
      /\ session'[w].pc = "idle"
  BY RestTypes DEF Leave, IInv, TypeOK, Idle
<1> QED
  BY <1>1, <1>2, LeaveIInv

(* The end of a commit: all its changes are stored by now, and the version *)
(* the aggregate keeps is that of the last of them.                        *)
LEMMA ReturnIInv ==
  ASSUME IInv, NEW w \in Writers, Return(w) PROVE IInv'
<1>1. session[w] \in Sessions /\ SavingInv(w) /\ session[w].pc = "returned"
  BY DEF IInv, TypeOK, Return, At
<1>2. acked' \subseteq Ids /\ acked' \subseteq Stored
  <2>1. \A k \in DOMAIN session[w].changes :
           session[w].changes[k].id \in Ids /\ session[w].changes[k].id \in Stored
    <3>1. session[w].changes \in Seq(Events)
      BY <1>1 DEF Sessions
    <3>2. \A k \in DOMAIN session[w].changes : session[w].changes[k] \in Events
      BY <3>1
    <3>3. session[w].pc \in Saving /\ session[w].saved = Len(session[w].changes)
      BY <1>1 DEF SavingInv, Saving
    <3> QED
      BY <1>1, <3>1, <3>2, <3>3 DEF Events, SavingInv
  <2>2. acked \subseteq Ids /\ acked \subseteq Stored
    BY DEF IInv, TypeOK, AckedStored
  <2> QED
    BY <2>1, <2>2 DEF Return
<1>3. session[w].version \in Nat /\ session[w].version <= Len(rows)
  BY <1>1 DEF SavingInv, Saving, Sessions, IInv, TypeOK
<1>4. /\ session' = [session EXCEPT ![w] = session'[w]]
      /\ session'[w] \in Sessions
      /\ session'[w].pc \in {"idle", "open"}
      /\ session'[w].pc = "open" => session'[w].version <= Len(rows)
  <2>1. CASE Leave(w)
    BY <2>1, RestTypes DEF Leave, IInv, TypeOK, Idle
  <2>2. CASE session' = [session EXCEPT ![w] = OpenAt(session[w].version)]
    BY <2>2, <1>3, RestTypes DEF IInv, TypeOK, OpenAt
  <2> QED
    BY <2>1, <2>2 DEF Return
<1>5. UNCHANGED <<rows, announced, nextId>> /\ happened' \subseteq Marks
  BY DEF Return, IInv, TypeOK
<1> QED
  BY <1>2, <1>4, <1>5, LeaveIInv

-----------------------------------------------------------------------------
(* What a step of w leaves alone for the others: what is known of a        *)
(* session that does not move stays true while the stream does not change. *)
LEMMA OthersIInv ==
  ASSUME IInv, NEW w \in Writers, NEW u \in Writers \ {w},
         session'[u] = session[u], UNCHANGED rows, announced \subseteq announced'
  PROVE  OpenInv(u)' /\ SavingInv(u)' /\ HoldsNext(u)' /\ CommitAnnounced(u)'
BY DEF IInv, OpenInv, SavingInv, HoldsNext, CommitAnnounced, Current, Stored

(* A commit starts from a version the stream has, with versions from the   *)
(* next one up, whether or not the check before it saw the latest row.     *)
LEMMA CommitAsyncIInv ==
  ASSUME IInv, NEW w \in Writers, CommitAsync(w) PROVE IInv'
<1>1. CASE Leave(w) /\ UNCHANGED nextId
  BY <1>1, DropIInv DEF CommitAsync, IInv, TypeOK
<1>2. CASE \E n \in 1..MaxBatch :
        /\ nextId + n <= MaxIds + 1
        /\ session' = [session EXCEPT ![w] =
              [pc |-> "insert", version |-> session[w].version + n, saved |-> 0,
               changes |-> [k \in 1..n |-> [id |-> nextId + k - 1,
                                            version |-> session[w].version + k]]]]
        /\ nextId' = nextId + n
        /\ UNCHANGED <<rows, announced, acked, happened>>
  <2>1. PICK n \in 1..MaxBatch :
        /\ nextId + n <= MaxIds + 1
        /\ session' = [session EXCEPT ![w] =
              [pc |-> "insert", version |-> session[w].version + n, saved |-> 0,
               changes |-> [k \in 1..n |-> [id |-> nextId + k - 1,
                                            version |-> session[w].version + k]]]]
        /\ nextId' = nextId + n
        /\ UNCHANGED <<rows, announced, acked, happened>>
    BY <1>2
  <2> DEFINE batch == [k \in 1..n |-> [id |-> nextId + k - 1,
                                       version |-> session[w].version + k]]
  <2>2. n \in Nat \ {0} /\ session[w].version \in Nat /\ session[w].version <= Len(rows)
    BY <2>1, BoundsAssumption DEF IInv, TypeOK, Sessions, OpenInv, CommitAsync, At
  <2>3. batch \in Seq(Events) /\ Len(batch) = n
    <3>1. \A k \in 1..n : nextId + k - 1 \in Ids /\ session[w].version + k \in Nat
      BY <2>1, <2>2, BoundsAssumption DEF IInv, TypeOK, Ids
    <3> QED
      BY <2>2, <3>1 DEF Events
  <2>4. session'[w] = [pc |-> "insert", version |-> session[w].version + n, saved |-> 0,
                       changes |-> batch]
    BY <2>1 DEF IInv, TypeOK
  <2>5. session'[w] \in Sessions
    BY <2>2, <2>3, <2>4 DEF Sessions, Saving
  <2>6. TypeOK'
    BY <2>1, <2>2, <2>3, <2>4, <2>5, BoundsAssumption DEF IInv, TypeOK
  <2>7. StreamInOrder' /\ StoredIsAnnounced' /\ AckedStored'
    BY <2>1 DEF IInv, StreamInOrder, StoredIsAnnounced, AckedStored, Stored
  <2>8. OpenInv(w)' /\ SavingInv(w)' /\ HoldsNext(w)' /\ CommitAnnounced(w)'
    <3>1. \A k \in 1..n : batch[k].version + n = session[w].version + n + k
      BY <2>2
    <3>2. session[w].version + n + 0 <= Len(rows) + n
      BY <2>2 DEF IInv, TypeOK
    <3> QED
      BY <2>1, <2>2, <2>3, <2>4, <3>1, <3>2
         DEF OpenInv, SavingInv, HoldsNext, CommitAnnounced, InTransaction
  <2>9. ASSUME NEW u \in Writers \ {w}
        PROVE  OpenInv(u)' /\ SavingInv(u)' /\ HoldsNext(u)' /\ CommitAnnounced(u)'
    BY <2>1, OthersIInv DEF IInv, TypeOK
  <2>10. OneTransaction'
    BY <2>1, <2>4 DEF IInv, TypeOK, OneTransaction, InTransaction
  <2> QED
    BY <2>6, <2>7, <2>8, <2>9, <2>10 DEF IInv
<1> QED
  BY <1>1, <1>2 DEF CommitAsync

-----------------------------------------------------------------------------
(* Arithmetic on the numbers of a session: its version v is that of its    *)
(* last change, n is the size of its batch, s the number of changes saved, *)
(* e the version of the event it is at, and l the length of the stream.    *)
LEMMA FirstVersion ==
  \A v, n, s, e \in Nat : e + n = v + s + 1 /\ n <= v => e >= 1
OBVIOUS

LEMMA NextVersion ==
  \A v, n, s, e, l \in Nat : e + n = v + s + 1 /\ v + s <= l + n /\ e > l => v + s = l + n
OBVIOUS

LEMMA EventVersion ==
  \A v, n, s, e, l \in Nat : e + n = v + s + 1 /\ v + s = l + n => e = l + 1
OBVIOUS

LEMMA OneMore ==
  \A v, n, s, l \in Nat : v + s <= l + n => v + (s + 1) <= (l + 1) + n /\ v + s <= (l + 1) + n
OBVIOUS

(* The event a saving session is at, and its version.                      *)
LEMMA CurrentEvent ==
  ASSUME IInv, NEW w \in Writers, session[w].pc \in Saving \ {"returned"}
  PROVE  /\ session[w].saved \in Nat /\ session[w].version \in Nat
         /\ session[w].saved + 1 \in 1..Len(session[w].changes)
         /\ Len(session[w].changes) \in Nat
         /\ Current(w) \in Events /\ Current(w).version \in Nat /\ Current(w).id \in Ids
         /\ Current(w).version + Len(session[w].changes)
              = session[w].version + session[w].saved + 1
<1>1. /\ session[w].saved \in Nat /\ session[w].version \in Nat
      /\ session[w].changes \in Seq(Events)
  BY DEF IInv, TypeOK, Sessions
<1>2. session[w].saved < Len(session[w].changes) /\ SavingInv(w)
  BY DEF IInv, TypeOK
<1>3. session[w].saved + 1 \in 1..Len(session[w].changes) /\ Len(session[w].changes) \in Nat
  BY <1>1, <1>2
<1>4. Current(w).version + Len(session[w].changes)
        = session[w].version + (session[w].saved + 1)
  BY <1>1, <1>2, <1>3 DEF SavingInv, Current
<1>5. Current(w) \in Events
  BY <1>1, <1>3 DEF Current
<1>6. session[w].version + (session[w].saved + 1) = session[w].version + session[w].saved + 1
  BY <1>1
<1>7. Current(w).version \in Nat /\ Current(w).id \in Ids
  BY <1>5 DEF Events
<1> QED
  BY <1>1, <1>3, <1>4, <1>5, <1>6, <1>7

(* A step that moves session w to another point of its save, and touches   *)
(* neither the stream nor the batch.                                       *)
LEMMA GotoIInv ==
  ASSUME IInv, NEW w \in Writers, NEW call \in {"publish", "commit", "rollback"},
         session[w].pc \in Saving \ {"returned"},
         Goto(w, call), UNCHANGED <<rows, acked, nextId>>, happened' \subseteq Marks,
         announced \subseteq announced', announced' \subseteq Ids,
         call = "commit" => Current(w).id \in announced',
         session[w].version + session[w].saved = Len(rows) + Len(session[w].changes),
         \A u \in Writers \ {w} : session[u].pc \notin InTransaction
  PROVE  IInv'
<1>1. session'[w] = [session[w] EXCEPT !.pc = call]
  BY DEF Goto, IInv, TypeOK
<1>2. session'[w] \in Sessions /\ session' \in [Writers -> Sessions]
  BY DEF Goto, IInv, TypeOK, Sessions, Saving, InTransaction
<1>3. /\ session'[w].pc = call
      /\ session'[w].version = session[w].version
      /\ session'[w].changes = session[w].changes
      /\ session'[w].saved = session[w].saved
  BY DEF Goto, IInv, TypeOK, Sessions
<1>4. \A u \in Writers \ {w} : session'[u] = session[u]
  BY DEF Goto, IInv, TypeOK
<1>5. TypeOK'
  BY <1>2, <1>3, <1>4 DEF IInv, TypeOK
<1>6. StreamInOrder' /\ StoredIsAnnounced' /\ AckedStored'
  BY DEF IInv, StreamInOrder, StoredIsAnnounced, AckedStored, Stored
<1>7. OpenInv(w)' /\ SavingInv(w)' /\ HoldsNext(w)' /\ CommitAnnounced(w)'
  <2>1. SavingInv(w) /\ session[w].saved < Len(session[w].changes)
    BY DEF IInv, TypeOK
  <2> QED
    BY <1>3, <2>1 DEF OpenInv, SavingInv, HoldsNext, CommitAnnounced, Current, Stored,
       Saving, InTransaction
<1>8. ASSUME NEW u \in Writers \ {w}
      PROVE  OpenInv(u)' /\ SavingInv(u)' /\ HoldsNext(u)' /\ CommitAnnounced(u)'
  BY <1>4, OthersIInv
<1>9. OneTransaction'
  BY <1>3, <1>4 DEF OneTransaction
<1> QED
  BY <1>5, <1>6, <1>7, <1>8, <1>9 DEF IInv

(* An insert that neither waits nor collides is of the next version, and   *)
(* no other transaction is open.                                           *)
LEMMA InsertIInv ==
  ASSUME IInv, NEW w \in Writers, Insert(w) PROVE IInv'
<1>1. /\ session[w].pc = "insert" /\ UNCHANGED <<rows, announced, acked, nextId>>
      /\ happened' \subseteq Marks
  BY DEF Insert, At, IInv, TypeOK
<1>2. CASE Leave(w)
  BY <1>1, <1>2, DropIInv
<1>3. CASE /\ ~Blocked(w) /\ ~Taken(Current(w).version)
           /\ \E call \in {"publish", "rollback"} : Goto(w, call)
  <2>1. PICK call \in {"publish", "rollback"} : Goto(w, call)
    BY <1>3
  <2>2. session[w].pc \in Saving \ {"returned"}
    BY <1>1 DEF Saving
  <2>3. Len(rows) \in Nat
    BY DEF IInv, TypeOK
  <2>4. session[w].version + session[w].saved <= Len(rows) + Len(session[w].changes)
    BY <2>2 DEF IInv, SavingInv
  <2>5. Current(w).version > Len(rows)
    <3>1. Current(w).version \in Nat /\ Current(w).version >= 1
      <4>1. Len(session[w].changes) <= session[w].version
        BY <2>2 DEF IInv, SavingInv
      <4> QED
        BY <2>2, <4>1, CurrentEvent, FirstVersion
    <3>2. \A i \in 1..Len(rows) : Current(w).version # i
      BY <1>3 DEF Taken, IInv, StreamInOrder, TypeOK
    <3> QED
      BY <2>3, <3>1, <3>2
  <2>6. session[w].version + session[w].saved = Len(rows) + Len(session[w].changes)
    <3>1. /\ session[w].saved \in Nat /\ session[w].version \in Nat
          /\ Len(session[w].changes) \in Nat /\ Current(w).version \in Nat
          /\ Current(w).version + Len(session[w].changes)
               = session[w].version + session[w].saved + 1
      BY <2>2, CurrentEvent
    <3> QED
      BY <2>3, <2>4, <2>5, <3>1, NextVersion
  <2>7. ASSUME NEW u \in Writers \ {w}, session[u].pc \in InTransaction PROVE FALSE
    <3>1. session[u].pc \in Saving \ {"returned"}
      BY <2>7 DEF Saving, InTransaction
    <3>2. session[u].version + session[u].saved = Len(rows) + Len(session[u].changes)
      BY <2>7 DEF IInv, HoldsNext
    <3>3. Current(u).version = Len(rows) + 1
      BY <2>3, <3>1, <3>2, CurrentEvent, EventVersion
    <3>4. Current(w).version = Len(rows) + 1
      BY <2>2, <2>3, <2>6, CurrentEvent, EventVersion
    <3> QED
      BY <1>3, <2>7, <3>3, <3>4 DEF Blocked, Uncommitted
  <2>8. call \in {"publish", "commit", "rollback"} /\ call # "commit"
    OBVIOUS
  <2>9. announced \subseteq announced' /\ announced' \subseteq Ids
    BY <1>1 DEF IInv, TypeOK
  <2> QED
    BY <1>1, <2>1, <2>2, <2>6, <2>7, <2>8, <2>9, GotoIInv
<1> QED
  BY <1>2, <1>3 DEF Insert

(* Publishing leaves the transaction open, to be committed or rolled back. *)
LEMMA PublishIInv ==
  ASSUME IInv, NEW w \in Writers, Publish(w) PROVE IInv'
<1>1. /\ session[w].pc = "publish" /\ UNCHANGED <<rows, acked, nextId>>
      /\ happened' \subseteq Marks
  BY DEF Publish, At, Note, MarksOf, Marks, IInv, TypeOK
<1>2. session[w].pc \in Saving \ {"returned"} /\ session[w].pc \in InTransaction
  BY <1>1 DEF Saving, InTransaction
<1>3. PICK call \in {"commit", "rollback"} :
        Goto(w, call) /\ (call = "commit" => Current(w).id \in announced')
  BY DEF Publish, Answered, Ran
<1>4. call \in {"publish", "commit", "rollback"}
  OBVIOUS
<1>5. announced \subseteq announced' /\ announced' \subseteq Ids
  BY <1>2, CurrentEvent DEF Publish, IInv, TypeOK, Events
<1>6. session[w].version + session[w].saved = Len(rows) + Len(session[w].changes)
  BY <1>2 DEF IInv, HoldsNext
<1>7. \A u \in Writers \ {w} : session[u].pc \notin InTransaction
  BY <1>2 DEF IInv, OneTransaction
<1> QED
  BY <1>1, <1>2, <1>3, <1>4, <1>5, <1>6, <1>7, GotoIInv

(* A commit that did not run leaves the row to be rolled back.             *)
LEMMA CommitLostIInv ==
  ASSUME IInv, NEW w \in Writers, session[w].pc = "commit", Goto(w, "rollback"),
         UNCHANGED <<rows, announced, acked, nextId>>, happened' \subseteq Marks
  PROVE  IInv'
<1>1. session[w].pc \in Saving \ {"returned"} /\ session[w].pc \in InTransaction
  BY DEF Saving, InTransaction
<1>2. announced' \subseteq Ids
  BY DEF IInv, TypeOK
<1>3. session[w].version + session[w].saved = Len(rows) + Len(session[w].changes)
  BY <1>1 DEF IInv, HoldsNext
<1>4. \A u \in Writers \ {w} : session[u].pc \notin InTransaction
  BY <1>1 DEF IInv, OneTransaction
<1> QED
  BY <1>1, <1>2, <1>3, <1>4, GotoIInv

(* A commit that ran adds the next version, which has been announced, and  *)
(* changes nothing for the other sessions: none has an open transaction.   *)
LEMMA CommitRanIInv ==
  ASSUME IInv, NEW w \in Writers, session[w].pc = "commit",
         rows' = Append(rows, Current(w)), UNCHANGED <<announced, acked, nextId>>,
         happened' \subseteq Marks,
         \/ Leave(w)
         \/ session' = [session EXCEPT
              ![w].saved = @ + 1,
              ![w].pc = IF session[w].saved + 1 = Len(session[w].changes)
                        THEN "returned" ELSE "insert"]
  PROVE  IInv'
<1> DEFINE s == session[w] n == Len(session[w].changes)
<1>1. s.pc \in Saving \ {"returned"} /\ s.pc \in InTransaction
  BY DEF Saving, InTransaction
<1>2. /\ s.saved \in Nat /\ s.version \in Nat /\ n \in Nat /\ s.saved + 1 \in 1..n
      /\ Current(w) \in Events /\ Current(w).version \in Nat
      /\ Current(w).version + n = s.version + s.saved + 1
  BY <1>1, CurrentEvent
<1>3. s.version + s.saved = Len(rows) + n
  BY <1>1 DEF IInv, HoldsNext
<1>4. /\ rows \in Seq(Events) /\ rows' \in Seq(Events) /\ Len(rows) \in Nat
      /\ Len(rows') = Len(rows) + 1
      /\ \A i \in 1..Len(rows) : rows'[i] = rows[i]
      /\ rows'[Len(rows) + 1] = Current(w)
  BY <1>2 DEF IInv, TypeOK
<1>5. Current(w).version = Len(rows) + 1
  BY <1>2, <1>3, <1>4, EventVersion
<1>6. StreamInOrder'
  BY <1>4, <1>5 DEF IInv, StreamInOrder
<1>7. Stored' = Stored \cup {Current(w).id}
  BY <1>4 DEF Stored
<1>8. StoredIsAnnounced' /\ AckedStored'
  BY <1>7 DEF IInv, StoredIsAnnounced, AckedStored, CommitAnnounced
<1>9. /\ session' = [session EXCEPT ![w] = session'[w]]
      /\ session'[w] \in Sessions
      /\ \/ session'[w] = Idle
         \/ /\ session'[w].version = s.version /\ session'[w].changes = s.changes
            /\ session'[w].saved = s.saved + 1
            /\ session'[w].pc = IF s.saved + 1 = n THEN "returned" ELSE "insert"
  <2>1. CASE Leave(w)
    BY <2>1, RestTypes DEF Leave, IInv, TypeOK
  <2>2. CASE session' = [session EXCEPT ![w].saved = @ + 1,
                 ![w].pc = IF session[w].saved + 1 = Len(session[w].changes)
                           THEN "returned" ELSE "insert"]
    <3>1. /\ session'[w].version = s.version /\ session'[w].changes = s.changes
          /\ session'[w].saved = s.saved + 1
          /\ session'[w].pc = IF s.saved + 1 = n THEN "returned" ELSE "insert"
      BY <2>2 DEF IInv, TypeOK, Sessions
    <3>2. session' = [session EXCEPT ![w] = session'[w]]
      BY <2>2 DEF IInv, TypeOK
    <3>3. session'[w] = [s EXCEPT !.saved = s.saved + 1,
                                  !.pc = IF s.saved + 1 = n THEN "returned" ELSE "insert"]
      BY <2>2 DEF IInv, TypeOK
    <3>4. s \in Sessions
      BY DEF IInv, TypeOK
    <3>5. session'[w] \in Sessions
      <4>1. s.saved + 1 \in Nat
        BY <1>2
      <4>2. (IF s.saved + 1 = n THEN "returned" ELSE "insert")
              \in {"idle", "open"} \cup Saving
        BY DEF Saving
      <4> QED
        BY <3>3, <3>4, <4>1, <4>2 DEF Sessions
    <3> QED
      BY <3>1, <3>2, <3>5
  <2> QED
    BY <2>1, <2>2
<1>10. session'[w].pc \notin InTransaction
  BY <1>9 DEF Idle, InTransaction
<1>11. \A u \in Writers \ {w} : session'[u] = session[u] /\ session[u].pc \notin InTransaction
  BY <1>1, <1>9 DEF IInv, TypeOK, OneTransaction
<1>12. TypeOK'
  <2>1. session' \in [Writers -> Sessions]
    BY <1>9 DEF IInv, TypeOK
  <2>2. session'[w].pc \in Saving \ {"returned"} =>
            session'[w].saved < Len(session'[w].changes)
    BY <1>2, <1>9 DEF Idle, Saving, InTransaction
  <2> QED
    BY <1>4, <1>11, <2>1, <2>2 DEF IInv, TypeOK
<1>13. OpenInv(w)' /\ SavingInv(w)' /\ HoldsNext(w)' /\ CommitAnnounced(w)'
  <2>1. CASE session'[w] = Idle
    BY <2>1 DEF OpenInv, SavingInv, HoldsNext, CommitAnnounced, Idle, Saving, InTransaction
  <2>2. CASE session'[w] # Idle
    <3>1. SavingInv(w)
      BY DEF IInv
    <3>2. \A k \in 1..n : k <= s.saved + 1 => s.changes[k].id \in Stored'
      <4>1. ASSUME NEW k \in 1..n, k <= s.saved + 1 PROVE s.changes[k].id \in Stored'
        <5>1. CASE k = s.saved + 1
          BY <5>1, <1>7 DEF Current
        <5>2. CASE k # s.saved + 1
          <6>1. k <= s.saved
            BY <4>1, <5>2, <1>2
          <6> QED
            BY <6>1, <1>1, <1>7, <3>1 DEF SavingInv
        <5> QED
          BY <5>1, <5>2
      <4> QED
        BY <4>1
    <3>3. s.version + (s.saved + 1) <= Len(rows') + n
      <4>1. s.version + s.saved <= Len(rows) + n
        BY <1>2, <1>3, <1>4
      <4> QED
        BY <1>2, <1>4, <4>1, OneMore
    <3>4. /\ n <= s.version
          /\ \A k \in 1..n : s.changes[k].version + n = s.version + k
      BY <1>1, <3>1 DEF SavingInv
    <3>5. session'[w].pc = "returned" => s.saved + 1 = n
      BY <1>9, <2>2
    <3>6. SavingInv(w)'
      <4>1. /\ session'[w].version = s.version /\ session'[w].changes = s.changes
            /\ session'[w].saved = s.saved + 1
        BY <1>9, <2>2
      <4>2. session'[w].version + session'[w].saved <= Len(rows') + Len(session'[w].changes)
        BY <4>1, <3>3
      <4>3. session'[w].pc = "returned" => session'[w].saved = Len(session'[w].changes)
        BY <4>1, <3>5
      <4>4. Len(session'[w].changes) <= session'[w].version
        BY <4>1, <3>4
      <4>5. \A k \in 1..Len(session'[w].changes) :
               /\ session'[w].changes[k].version + Len(session'[w].changes)
                    = session'[w].version + k
               /\ k <= session'[w].saved => session'[w].changes[k].id \in Stored'
        BY <4>1, <3>2, <3>4
      <4> QED
        BY <4>2, <4>3, <4>4, <4>5 DEF SavingInv
    <3> QED
      BY <1>9, <1>10, <2>2, <3>6 DEF OpenInv, HoldsNext, CommitAnnounced
  <2> QED
    BY <2>1, <2>2
<1>14. ASSUME NEW u \in Writers \ {w}
       PROVE  OpenInv(u)' /\ SavingInv(u)' /\ HoldsNext(u)' /\ CommitAnnounced(u)'
  <2>1. /\ session'[u] = session[u] /\ session[u].pc \notin InTransaction
        /\ session[u].version \in Nat /\ session[u].saved \in Nat
        /\ session[u].changes \in Seq(Events)
    BY <1>11 DEF IInv, TypeOK, Sessions
  <2>2. OpenInv(u) /\ SavingInv(u)
    BY DEF IInv
  <2>3. OpenInv(u)'
    BY <1>4, <2>1, <2>2 DEF OpenInv
  <2>4. HoldsNext(u)' /\ CommitAnnounced(u)'
    BY <2>1 DEF HoldsNext, CommitAnnounced, InTransaction
  <2>5. SavingInv(u)'
    <3>1. CASE session[u].pc \in Saving
      <4>1. Len(session[u].changes) \in Nat
        BY <2>1
      <4>2. session[u].version + session[u].saved <= Len(rows) + Len(session[u].changes)
        BY <2>2, <3>1 DEF SavingInv
      <4>3. session[u].version + session[u].saved <= Len(rows') + Len(session[u].changes)
        BY <1>4, <2>1, <4>1, <4>2, OneMore
      <4> QED
        BY <1>7, <2>1, <2>2, <4>3 DEF SavingInv
    <3>2. CASE session[u].pc \notin Saving
      BY <2>1, <3>2 DEF SavingInv
    <3> QED
      BY <3>1, <3>2
  <2> QED
    BY <2>3, <2>4, <2>5
<1>15. OneTransaction'
  BY <1>10, <1>11 DEF OneTransaction
<1> QED
  BY <1>6, <1>8, <1>12, <1>13, <1>14, <1>15 DEF IInv

-----------------------------------------------------------------------------
(* The invariant is inductive: one case per action.                        *)
LEMMA NextIInv == IInv /\ [Next]_vars => IInv'
<1> SUFFICES ASSUME IInv, [Next]_vars PROVE IInv'
  OBVIOUS
<1>1. ASSUME NEW w \in Writers, Commit(w) PROVE IInv'
  <2>1. /\ session[w].pc = "commit" /\ UNCHANGED <<announced, acked, nextId>>
        /\ happened' \subseteq Marks
    BY <1>1 DEF Commit, At, Note, MarksOf, Marks, IInv, TypeOK
  <2>2. PICK e \in Endings("commit") :
          /\ rows' = IF Ran(e) THEN Append(rows, Current(w)) ELSE rows
          /\ IF Answered(e)
             THEN session' = [session EXCEPT
                     ![w].saved = @ + 1,
                     ![w].pc = IF session[w].saved + 1 = Len(session[w].changes)
                               THEN "returned" ELSE "insert"]
             ELSE IF Ran(e) THEN Leave(w) ELSE Goto(w, "rollback")
    BY <1>1 DEF Commit
  <2>3. CASE Ran(e)
    BY <2>1, <2>2, <2>3, CommitRanIInv
  <2>4. CASE ~Ran(e)
    BY <2>1, <2>2, <2>4, CommitLostIInv DEF Ran, Answered
  <2> QED
    BY <2>3, <2>4
<1>2. ASSUME NEW w \in Writers, Rollback(w) PROVE IInv'
  BY <1>2, DropIInv DEF Rollback, IInv, TypeOK
<1>3. ASSUME NEW w \in Writers, Crash(w) PROVE IInv'
  BY <1>3, DropIInv DEF Crash, Note, Marks, IInv, TypeOK
<1>4. CASE UNCHANGED vars
  BY <1>4 DEF vars, IInv, TypeOK, StreamInOrder, StoredIsAnnounced, AckedStored, Stored,
     OpenInv, SavingInv, HoldsNext, CommitAnnounced, Current, OneTransaction
<1> QED
  BY <1>1, <1>2, <1>3, <1>4, OpenIInv, CommitAsyncIInv, InsertIInv, PublishIInv, ReturnIInv
     DEF Next, Save

(* Every run of the store, from start to crash, stays in the invariant.    *)
THEOREM Invariance == Spec => []IInv
BY InitIInv, NextIInv, PTL DEF Spec

(* The variables keep their types.                                         *)
THEOREM TypeCorrect == Spec => []TypeOK
<1>1. IInv => TypeOK
  BY DEF IInv
<1> QED
  BY <1>1, Invariance, PTL

(* Versions 1, 2, 3, ... in the order of the commits: for any number of    *)
(* sessions, batches of any size, reads as stale as may be, any faults and *)
(* crashes, LoadFromHistory finds the history it asks for.  It is the      *)
(* unique constraint that does this: the proof does not use the check that *)
(* Repository.SaveAsync makes before it.                                   *)
THEOREM VersionsInOrder == Spec => []StreamInOrder
<1>1. IInv => StreamInOrder
  BY DEF IInv
<1> QED
  BY <1>1, Invariance, PTL

(* What CommitAsync reported as saved is stored.                           *)
THEOREM SavedIsSaved == Spec => []AckedStored
<1>1. IInv => AckedStored
  BY DEF IInv
<1> QED
  BY <1>1, Invariance, PTL

(* What is stored has been announced: Publish comes before Commit.         *)
THEOREM StoredWasAnnounced == Spec => []StoredIsAnnounced
<1>1. IInv => StoredIsAnnounced
  BY DEF IInv
<1> QED
  BY <1>1, Invariance, PTL

-----------------------------------------------------------------------------
(* A step of w keeps the messages true if its own row, in case it was      *)
(* about to be committed, is stored, and what it announces is about to be. *)
LEMMA StepAnnounced ==
  ASSUME IInv, AnnouncedStored, NEW w \in Writers,
         session' = [session EXCEPT ![w] = session'[w]],
         Stored \subseteq Stored', happened \subseteq happened',
         happened' = {} =>
           /\ session[w].pc = "commit" => Current(w).id \in Stored'
           /\ \A id \in announced' \ announced :
                session'[w].pc = "commit" /\ Current(w)'.id = id
  PROVE  AnnouncedStored'
<1> SUFFICES ASSUME happened' = {}, NEW id \in announced', id \notin Stored'
             PROVE  \E u \in Writers : session'[u].pc = "commit" /\ Current(u)'.id = id
  BY DEF AnnouncedStored
<1>1. \A u \in Writers \ {w} : session'[u] = session[u]
  BY DEF IInv, TypeOK
<1>2. CASE id \in announced
  <2>1. PICK u \in Writers : session[u].pc = "commit" /\ Current(u).id = id
    BY <1>2 DEF AnnouncedStored
  <2>2. u # w
    BY <2>1
  <2> QED
    BY <1>1, <2>1, <2>2 DEF Current
<1>3. CASE id \notin announced
  BY <1>3
<1> QED
  BY <1>2, <1>3

LEMMA NextAnnounced == IInv /\ AnnouncedStored /\ [Next]_vars => AnnouncedStored'
<1> SUFFICES ASSUME IInv, AnnouncedStored, [Next]_vars PROVE AnnouncedStored'
  OBVIOUS
<1>1. CASE UNCHANGED vars
  BY <1>1 DEF vars, AnnouncedStored, Stored, Current
<1>2. ASSUME NEW w \in Writers,
             Open(w) \/ CommitAsync(w) \/ Insert(w) \/ Rollback(w) \/ Return(w)
      PROVE  AnnouncedStored'
  <2>1. UNCHANGED <<rows, announced, happened>> /\ session[w].pc # "commit"
    BY <1>2 DEF Open, AddNew, Load, Abandon, CommitAsync, Insert, Rollback, Return, At
  <2>2. session' = [session EXCEPT ![w] = session'[w]]
    <3>1. CASE Open(w) \/ Rollback(w) \/ Return(w)
      BY <3>1 DEF Open, AddNew, Load, Abandon, Rollback, Return, Leave, IInv, TypeOK
    <3>2. CASE CommitAsync(w)
      BY <3>2 DEF CommitAsync, Leave, IInv, TypeOK
    <3>3. CASE Insert(w)
      BY <3>3 DEF Insert, Goto, Leave, IInv, TypeOK
    <3> QED
      BY <1>2, <3>1, <3>2, <3>3
  <2> QED
    BY <2>1, <2>2, StepAnnounced DEF Stored
<1>3. ASSUME NEW w \in Writers, Publish(w) PROVE AnnouncedStored'
  <2>1. PICK e \in Endings("publish") :
          /\ happened' = happened \cup MarksOf("publish", e)
          /\ announced' = IF Ran(e) THEN announced \cup {Current(w).id} ELSE announced
          /\ Goto(w, IF Answered(e) THEN "commit" ELSE "rollback")
    BY <1>3 DEF Publish, Note
  <2>2. UNCHANGED rows /\ session[w].pc # "commit"
    BY <1>3 DEF Publish, At
  <2>3. /\ session' = [session EXCEPT ![w] = session'[w]]
        /\ session'[w].pc = (IF Answered(e) THEN "commit" ELSE "rollback")
        /\ Current(w)' = Current(w)
    BY <2>1 DEF Goto, Current, IInv, TypeOK, Sessions
  <2>4. happened' = {} /\ Ran(e) => Answered(e)
    BY <2>1 DEF MarksOf, Ran, Answered, Endings
  <2> QED
    BY <2>1, <2>2, <2>3, <2>4, StepAnnounced DEF Stored
<1>4. ASSUME NEW w \in Writers, Commit(w) PROVE AnnouncedStored'
  <2>1. PICK e \in Endings("commit") :
          /\ happened' = happened \cup MarksOf("commit", e)
          /\ rows' = IF Ran(e) THEN Append(rows, Current(w)) ELSE rows
    BY <1>4 DEF Commit, Note
  <2>2. UNCHANGED announced /\ session' = [session EXCEPT ![w] = session'[w]]
    BY <1>4 DEF Commit, Goto, Leave, IInv, TypeOK
  <2>3. happened' = {} => Ran(e)
    BY <2>1 DEF MarksOf, Ran, Answered, Endings
  <2>4. Stored \subseteq Stored' /\ (Ran(e) => Current(w).id \in Stored')
    <3>1. session[w].pc \in Saving \ {"returned"}
      BY <1>4 DEF Commit, At, Saving, InTransaction
    <3>2. Current(w) \in Events /\ rows \in Seq(Events)
      BY <3>1, CurrentEvent DEF IInv, TypeOK
    <3> QED
      BY <2>1, <3>2 DEF Stored
  <2> QED
    BY <2>1, <2>2, <2>3, <2>4, StepAnnounced
<1>5. ASSUME NEW w \in Writers, Crash(w) PROVE AnnouncedStored'
  BY <1>5 DEF Crash, Note, AnnouncedStored
<1> QED
  BY <1>1, <1>2, <1>3, <1>4, <1>5 DEF Next, Save

(* A message describes an event that is stored or about to be committed,   *)
(* unless a publish threw after it ran, a commit threw without having run  *)
(* or a writer died: the transaction in SaveAsync around the publish.      *)
THEOREM AnnouncedIsStored == Spec => []AnnouncedStored
<1>1. Init => AnnouncedStored
  BY DEF Init, AnnouncedStored
<1> QED
  BY <1>1, NextAnnounced, Invariance, PTL DEF Spec
=============================================================================
