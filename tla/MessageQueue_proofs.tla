-------------------------- MODULE MessageQueue_proofs --------------------------
(***************************************************************************)
(* What PublishAsync keeps for any number of applications, publishers,     *)
(* messages and tries, any capacity and any set of faults.                 *)
(*                                                                         *)
(* The set of subscribers only grows.  So a publisher's copy of it is a    *)
(* part of it, and equal in size only if equal; and each refused try has   *)
(* met a set larger than the one it read.                                  *)
(***************************************************************************)
EXTENDS MessageQueue, FiniteSetTheorems, TLAPS

Active(p) == ~At(p, "idle")

(* A call that is tried has a message whose fate is open, and knows of as  *)
(* many subscribers more than there were at its start as it had tries.     *)
CallInv(p) ==
    /\ At(p, "idle") => call[p] = Idle
    /\ Active(p) => call[p].message \notin published \cup failed
    /\ At(p, "read") => call[p].before + call[p].i <= Cardinality(subscribers)
    /\ At(p, "push") => /\ call[p].seen \subseteq subscribers
                        /\ call[p].before + call[p].i <= Cardinality(call[p].seen)

(* A message has one call.                                                 *)
ApartInv == \A p, q \in Publishers :
    Active(p) /\ Active(q) /\ p # q => call[p].message # call[q].message

FateInv ==
    /\ published \cup failed \subseteq 1..(nextMessage - 1)
    /\ FailedIsUnpublished

IInv == FateInv /\ ApartInv /\ \A p \in Publishers : CallInv(p)

-----------------------------------------------------------------------------
(* Sizes.                                                                  *)
LEMMA Finite ==
  ASSUME TypeOK
  PROVE  /\ IsFiniteSet(subscribers) /\ Cardinality(subscribers) \in Nat
         /\ \A p \in Publishers : /\ IsFiniteSet(call[p].seen)
                                  /\ Cardinality(call[p].seen) \in Nat
<1>1. \A S \in SUBSET Applications : IsFiniteSet(S) /\ Cardinality(S) \in Nat
  BY SetsAssumption, FS_Subset, FS_CardinalityType
<1>2. subscribers \subseteq Applications
      /\ \A p \in Publishers : call[p].seen \subseteq Applications
  BY DEF TypeOK, PublishCall
<1> QED
  BY <1>1, <1>2

(* What a publisher sees of the set is smaller than the set, unless it is  *)
(* the set.                                                                *)
LEMMA SeenIsPart ==
  ASSUME TypeOK, NEW p \in Publishers, call[p].seen \subseteq subscribers
  PROVE  /\ Cardinality(call[p].seen) <= Cardinality(subscribers)
         /\ SetLengthEqual(p) => call[p].seen = subscribers
<1>1. IsFiniteSet(subscribers)
  BY Finite
<1> QED
  BY <1>1, FS_Subset DEF SetLengthEqual

-----------------------------------------------------------------------------
(* The type invariant.                                                     *)

LEMMA CountType ==
  ASSUME NEW c, NEW e \in Endings(c), faults \in Nat, faults <= MaxFaults, Count(e)
  PROVE  faults' \in Nat /\ faults' <= MaxFaults
BY BoundsAssumption DEF Count, Endings, Answered

(* The head of the loop, for a call c that is well typed.                  *)
LEMMA TryType ==
  ASSUME TypeOK, NEW p \in Publishers, NEW c \in PublishCall, NEW k \in Nat, Try(p, c, k),
         c.message \in 1..(nextMessage' - 1), nextMessage' \in Nat,
         nextMessage' >= nextMessage, nextMessage' <= MaxMessages + 1
  PROVE  /\ call' \in [Publishers -> PublishCall]
         /\ \A q \in Publishers : call'[q].pc # "idle" =>
              /\ call'[q].i < TransactionRetryCount
              /\ call'[q].message \in 1..(nextMessage' - 1)
              /\ call'[q].unchecked \subseteq call'[q].seen
         /\ failed' \subseteq Messages
<1>1. CASE k < TransactionRetryCount
  <2> DEFINE d == [c EXCEPT !.pc = "read", !.i = k, !.seen = {}, !.unchecked = {}]
  <2>1. call' = [call EXCEPT ![p] = d] /\ UNCHANGED failed
    BY <1>1 DEF Try
  <2>2. /\ d \in PublishCall /\ d.i = k /\ d.message = c.message
        /\ d.unchecked = {} /\ d.seen = {}
    BY DEF PublishCall
  <2> HIDE DEF d
  <2> QED
    BY <1>1, <2>1, <2>2, SettingsAssumption DEF TypeOK
<1>2. CASE ~(k < TransactionRetryCount)
  <2>1. call' = [call EXCEPT ![p] = Idle] /\ failed' = failed \cup {c.message}
    BY <1>2 DEF Try, Return
  <2>2. Idle \in PublishCall /\ Idle.pc = "idle"
    BY DEF Idle, PublishCall
  <2>3. c.message \in Messages
    BY BoundsAssumption DEF Messages
  <2> QED
    BY <2>1, <2>2, <2>3 DEF TypeOK
<1> QED
  BY <1>1, <1>2

LEMMA InitTypeOK == Init => TypeOK
BY BoundsAssumption, ChoicesAssumption DEF Init, TypeOK, Idle, PublishCall

(* A publisher returns, or goes on with a call d.                          *)
LEMMA OneCallType ==
  ASSUME TypeOK, NEW p \in Publishers, NEW d \in PublishCall,
         call' = [call EXCEPT ![p] = d],
         d.pc # "idle" => /\ d.i < TransactionRetryCount
                          /\ d.message \in 1..(nextMessage - 1)
                          /\ d.unchecked \subseteq d.seen
  PROVE  /\ call' \in [Publishers -> PublishCall]
         /\ \A q \in Publishers : call'[q].pc # "idle" =>
              /\ call'[q].i < TransactionRetryCount
              /\ call'[q].message \in 1..(nextMessage - 1)
              /\ call'[q].unchecked \subseteq call'[q].seen
BY DEF TypeOK

LEMMA PushType ==
  ASSUME NEW m \in Messages, NEW s \in Seq(Messages)
  PROVE  PushLeft(m, s) \in Seq(Messages) /\ Len(PushLeft(m, s)) = Len(s) + 1
<1>1. <<m>> \in Seq(Messages) /\ Len(<<m>>) = 1
  OBVIOUS
<1> QED
  BY <1>1 DEF PushLeft

LEMMA IdleCall == Idle \in PublishCall /\ Idle.pc = "idle"
BY DEF Idle, PublishCall

LEMMA ExecuteType == ASSUME TypeOK, NEW p \in Publishers, Execute(p) PROVE TypeOK'
<1> DEFINE c == call[p]
<1>1. /\ c \in PublishCall /\ c.i < TransactionRetryCount
      /\ c.message \in 1..(nextMessage - 1) /\ c.message \in Messages /\ c.i \in Nat
  BY BoundsAssumption DEF TypeOK, Execute, At, PublishCall, Messages
<1>2. PICK e \in Endings("execute") :
        /\ IF Ran(e) /\ SetLengthEqual(p)
           THEN /\ list' = [a \in Applications |->
                              IF a \in c.seen THEN PushLeft(c.message, list[a]) ELSE list[a]]
                /\ published' = published \cup {c.message}
           ELSE UNCHANGED <<list, published>>
        /\ IF Answered(e) /\ ~SetLengthEqual(p)
           THEN Try(p, c, c.i + 1)
           ELSE Return(p) /\ UNCHANGED failed
        /\ Count(e)
  BY DEF Execute
<1>3. UNCHANGED <<subscribers, nextMessage, hasCapacity>>
  BY DEF Execute
<1>4. faults' \in Nat /\ faults' <= MaxFaults
  BY <1>2, CountType DEF TypeOK
<1>5. list' \in [Applications -> Seq(Messages)] /\ published' \subseteq Messages
  <2>1. \A a \in Applications : /\ list[a] \in Seq(Messages)
                                 /\ PushLeft(c.message, list[a]) \in Seq(Messages)
    BY <1>1, PushType DEF TypeOK
  <2> QED
    BY <1>1, <1>2, <2>1 DEF TypeOK
<1>6. /\ call' \in [Publishers -> PublishCall]
      /\ \A q \in Publishers : call'[q].pc # "idle" =>
           /\ call'[q].i < TransactionRetryCount
           /\ call'[q].message \in 1..(nextMessage' - 1)
           /\ call'[q].unchecked \subseteq call'[q].seen
      /\ failed' \subseteq Messages
  <2>1. CASE Answered(e) /\ ~SetLengthEqual(p)
    <3>1. Try(p, c, c.i + 1) /\ c.i + 1 \in Nat
      BY <1>1, <1>2, <2>1
    <3> HIDE DEF c
    <3> QED
      BY <1>1, <1>3, <3>1, TryType DEF TypeOK
  <2>2. CASE ~(Answered(e) /\ ~SetLengthEqual(p))
    BY <1>2, <1>3, <2>2, IdleCall, OneCallType DEF Return, TypeOK
  <2> QED
    BY <2>1, <2>2
<1> QED
  BY <1>3, <1>4, <1>5, <1>6 DEF TypeOK

LEMMA NextTypeOK == TypeOK /\ [Next]_vars => TypeOK'
<1> SUFFICES ASSUME TypeOK, [Next]_vars PROVE TypeOK'
  OBVIOUS
<1>1. CASE UNCHANGED vars
  BY <1>1 DEF vars, TypeOK
<1>2. ASSUME NEW a \in Applications, Subscribe(a) PROVE TypeOK'
  BY <1>2 DEF Subscribe, TypeOK
<1>3. ASSUME NEW a \in Applications, Take(a) PROVE TypeOK'
  <2>1. PopRight(list[a]) \in Seq(Messages)
    BY <1>3 DEF Take, PopRight, TypeOK
  <2> QED
    BY <1>3, <2>1 DEF Take, TypeOK
<1>4. ASSUME NEW p \in Publishers, Call(p) PROVE TypeOK'
  <2> DEFINE c == [Idle EXCEPT !.message = nextMessage, !.before = Cardinality(subscribers)]
  <2>1. c \in PublishCall /\ c.message = nextMessage
    BY Finite DEF Idle, PublishCall, TypeOK
  <2>2. /\ nextMessage' = nextMessage + 1 /\ nextMessage <= MaxMessages
        /\ Try(p, c, 0) /\ UNCHANGED <<subscribers, list, hasCapacity, faults, published>>
    BY <1>4 DEF Call
  <2>3. /\ c.message \in 1..(nextMessage' - 1)
        /\ nextMessage' \in Nat /\ nextMessage' >= nextMessage /\ nextMessage' <= MaxMessages + 1
    BY <2>1, <2>2, BoundsAssumption DEF TypeOK
  <2> HIDE DEF c
  <2>4. /\ call' \in [Publishers -> PublishCall]
        /\ \A q \in Publishers : call'[q].pc # "idle" =>
             /\ call'[q].i < TransactionRetryCount
             /\ call'[q].message \in 1..(nextMessage' - 1)
             /\ call'[q].unchecked \subseteq call'[q].seen
        /\ failed' \subseteq Messages
    BY <2>1, <2>2, <2>3, TryType
  <2> QED
    BY <2>2, <2>3, <2>4 DEF TypeOK
<1>5. ASSUME NEW p \in Publishers, ReadSubscribers(p) PROVE TypeOK'
  <2> DEFINE d == [call[p] EXCEPT !.pc = "push", !.seen = subscribers,
                                  !.unchecked = IF hasCapacity THEN subscribers ELSE {}]
  <2>1. PICK e \in Endings("members") :
          /\ call' = [call EXCEPT ![p] = d] \/ call' = [call EXCEPT ![p] = Idle]
          /\ Count(e)
    BY <1>5 DEF ReadSubscribers, Return
  <2>2. UNCHANGED <<subscribers, list, nextMessage, hasCapacity, published, failed>>
    BY <1>5 DEF ReadSubscribers
  <2>3. /\ d \in PublishCall /\ d.unchecked \subseteq d.seen
        /\ d.i < TransactionRetryCount /\ d.message \in 1..(nextMessage - 1)
    BY <1>5 DEF ReadSubscribers, At, TypeOK, PublishCall
  <2>4. faults' \in Nat /\ faults' <= MaxFaults
    BY <2>1, CountType DEF TypeOK
  <2> HIDE DEF d
  <2> QED
    BY <2>1, <2>2, <2>3, <2>4, IdleCall, OneCallType DEF TypeOK
<1>6. ASSUME NEW p \in Publishers, AwaitRoom(p) PROVE TypeOK'
  <2>1. PICK a \in call[p].unchecked, e \in Endings("length") :
          /\ \/ call' = [call EXCEPT ![p].unchecked = @ \ {a}]
             \/ call' = [call EXCEPT ![p] = Idle]
          /\ Count(e)
    BY <1>6 DEF AwaitRoom, Return
  <2> DEFINE d == [call[p] EXCEPT !.unchecked = @ \ {a}]
  <2>2. UNCHANGED <<subscribers, list, nextMessage, hasCapacity, published, failed>>
    BY <1>6 DEF AwaitRoom
  <2>3. /\ d \in PublishCall /\ d.unchecked \subseteq d.seen
        /\ d.i < TransactionRetryCount /\ d.message \in 1..(nextMessage - 1)
    BY <1>6 DEF AwaitRoom, At, TypeOK, PublishCall
  <2>4. call' = [call EXCEPT ![p] = d] \/ call' = [call EXCEPT ![p] = Idle]
    BY <2>1
  <2>5. faults' \in Nat /\ faults' <= MaxFaults
    BY <2>1, CountType DEF TypeOK
  <2> HIDE DEF d
  <2> QED
    BY <2>2, <2>3, <2>4, <2>5, IdleCall, OneCallType DEF TypeOK
<1> QED
  BY <1>1, <1>2, <1>3, <1>4, <1>5, <1>6, ExecuteType DEF Next, Publish

(* The variables keep their types; a call that tries has a try left and    *)
(* waits only for lists it is going to push on.                            *)
THEOREM TypeCorrect == Spec => []TypeOK
BY InitTypeOK, NextTypeOK, PTL DEF Spec

-----------------------------------------------------------------------------
(* The fate of a message, and what a refused try has met.                  *)

LEMMA InitIInv == Init => IInv
BY DEF Init, IInv, FateInv, FailedIsUnpublished, ApartInv, CallInv, Active, At, Idle

(* The calls of the other publishers: nothing in Redis shrinks for them.   *)
LEMMA Others ==
  ASSUME TypeOK, IInv, NEW p \in Publishers, TypeOK',
         \A q \in Publishers : q # p => call'[q] = call[q],
         subscribers \subseteq subscribers',
         \/ (published' \cup failed') \ (published \cup failed) \subseteq {call[p].message}
              /\ Active(p)
         \/ (published' \cup failed') \ (published \cup failed) \subseteq {nextMessage}
  PROVE  \A q \in Publishers : q # p => CallInv(q)'
<1> SUFFICES ASSUME NEW q \in Publishers, q # p PROVE CallInv(q)'
  OBVIOUS
<1>1. call'[q] = call[q] /\ CallInv(q)
  BY DEF IInv
<1>2. Cardinality(subscribers) <= Cardinality(subscribers')
      /\ Cardinality(subscribers) \in Nat /\ Cardinality(subscribers') \in Nat
  <2>1. IsFiniteSet(subscribers') /\ Cardinality(subscribers') \in Nat
    <3>1. subscribers' \subseteq Applications
      BY DEF TypeOK
    <3> QED
      BY <3>1, SetsAssumption, FS_Subset, FS_CardinalityType
  <2> QED
    BY <2>1, Finite, FS_Subset
<1>3. call[q] \in PublishCall
  BY DEF TypeOK
<1>4. Active(q) => call[q].message \notin published' \cup failed'
  BY <1>1 DEF CallInv, IInv, ApartInv, Active, At, TypeOK
<1> QED
  BY <1>1, <1>2, <1>3, <1>4 DEF CallInv, Active, At, PublishCall

(* A step of a call that publishes nothing and does not fail.              *)
LEMMA QuietStep ==
  ASSUME TypeOK, TypeOK', IInv, NEW p \in Publishers, NEW d,
         call' = [call EXCEPT ![p] = d], d = Idle \/ (d.message = call[p].message /\ Active(p)),
         UNCHANGED <<subscribers, nextMessage, published, failed>>,
         CallInv(p)'
  PROVE  IInv'
<1>1. call'[p] = d /\ \A q \in Publishers : q # p => call'[q] = call[q]
  BY DEF TypeOK
<1>2. \A q \in Publishers : CallInv(q)'
  BY <1>1, Others
<1>3. ApartInv'
  BY <1>1 DEF IInv, ApartInv, Active, At, Idle
<1> QED
  BY <1>2, <1>3 DEF IInv, FateInv, FailedIsUnpublished

LEMMA ExecuteIInv ==
  ASSUME TypeOK, TypeOK', IInv, NEW p \in Publishers, Execute(p) PROVE IInv'
<1> DEFINE c == call[p]
<1>1. /\ c \in PublishCall /\ c.pc = "push" /\ c.pc # "idle"
      /\ c.message \in 1..(nextMessage - 1) /\ c.message \notin published \cup failed
      /\ c.seen \subseteq subscribers /\ c.before + c.i <= Cardinality(c.seen)
  BY DEF TypeOK, IInv, CallInv, Execute, Active, At
<1>2. PICK e \in Endings("execute") :
        /\ IF Ran(e) /\ SetLengthEqual(p)
           THEN published' = published \cup {c.message}
           ELSE UNCHANGED published
        /\ IF Answered(e) /\ ~SetLengthEqual(p)
           THEN Try(p, c, c.i + 1)
           ELSE Return(p) /\ UNCHANGED failed
  BY DEF Execute
<1>3. UNCHANGED <<subscribers, nextMessage, hasCapacity>>
  BY DEF Execute
<1>4. CASE Answered(e) /\ ~SetLengthEqual(p)
  <2>1. UNCHANGED published /\ Try(p, c, c.i + 1)
    BY <1>2, <1>4
  <2>2. c.before + c.i + 1 <= Cardinality(subscribers)
    BY <1>1, <1>4, Finite, SeenIsPart DEF SetLengthEqual, PublishCall
  <2>3. CASE c.i + 1 < TransactionRetryCount
    <3> DEFINE d == [c EXCEPT !.pc = "read", !.i = c.i + 1, !.seen = {}, !.unchecked = {}]
    <3>1. call' = [call EXCEPT ![p] = d] /\ UNCHANGED failed
      BY <2>1, <2>3 DEF Try
    <3>2. /\ d.pc = "read" /\ d.i = c.i + 1 /\ d.message = c.message /\ d.before = c.before
      BY <1>1 DEF PublishCall
    <3> HIDE DEF d
    <3>3. call'[p] = d
      BY <3>1 DEF TypeOK
    <3>4. CallInv(p)'
      BY <1>1, <1>3, <2>1, <2>2, <3>1, <3>2, <3>3 DEF CallInv, Active, At, PublishCall
    <3> QED
      BY <1>1, <1>3, <2>1, <3>1, <3>2, <3>4, QuietStep DEF Active, At
  <2>4. CASE ~(c.i + 1 < TransactionRetryCount)
    <3>1. call' = [call EXCEPT ![p] = Idle] /\ failed' = failed \cup {c.message}
      BY <2>1, <2>4 DEF Try, Return
    <3>2. call'[p] = Idle /\ \A q \in Publishers : q # p => call'[q] = call[q]
      BY <3>1 DEF TypeOK
    <3>3. CallInv(p)'
      BY <3>2 DEF CallInv, Active, At, Idle
    <3>4. \A q \in Publishers : CallInv(q)'
      BY <1>1, <1>3, <2>1, <3>1, <3>2, <3>3, Others DEF Active, At
    <3>5. ApartInv'
      BY <3>2 DEF IInv, ApartInv, Active, At, Idle
    <3>6. FateInv'
      BY <1>1, <1>3, <2>1, <3>1 DEF IInv, FateInv, FailedIsUnpublished
    <3> QED
      BY <3>4, <3>5, <3>6 DEF IInv
  <2> QED
    BY <2>3, <2>4
<1>5. CASE ~(Answered(e) /\ ~SetLengthEqual(p))
  <2>1. call' = [call EXCEPT ![p] = Idle] /\ UNCHANGED failed
    BY <1>2, <1>5 DEF Return
  <2>2. call'[p] = Idle /\ \A q \in Publishers : q # p => call'[q] = call[q]
    BY <2>1 DEF TypeOK
  <2>3. published' \subseteq published \cup {c.message} /\ published \subseteq published'
    BY <1>2
  <2>4. CallInv(p)'
    BY <2>2 DEF CallInv, Active, At, Idle
  <2>5. \A q \in Publishers : CallInv(q)'
    BY <1>1, <1>3, <2>1, <2>2, <2>3, <2>4, Others DEF Active, At
  <2>6. ApartInv'
    BY <2>2 DEF IInv, ApartInv, Active, At, Idle
  <2>7. FateInv'
    BY <1>1, <1>3, <2>1, <2>3 DEF IInv, FateInv, FailedIsUnpublished
  <2> QED
    BY <2>5, <2>6, <2>7 DEF IInv
<1> QED
  BY <1>4, <1>5

LEMMA CallIInv ==
  ASSUME TypeOK, TypeOK', IInv, NEW p \in Publishers, Call(p) PROVE IInv'
<1> DEFINE c == [Idle EXCEPT !.message = nextMessage, !.before = Cardinality(subscribers)]
<1>1. /\ call[p].pc = "idle" /\ nextMessage' = nextMessage + 1
      /\ Try(p, c, 0) /\ UNCHANGED <<subscribers, published>>
  BY DEF Call, At
<1>2. /\ c.message = nextMessage /\ c.before = Cardinality(subscribers)
      /\ Cardinality(subscribers) \in Nat /\ nextMessage \in Nat /\ nextMessage >= 1
  BY Finite DEF Idle, TypeOK
<1>3. nextMessage \notin published \cup failed
  BY <1>2 DEF IInv, FateInv
<1>4. \A q \in Publishers : q # p => call'[q] = call[q]
  BY <1>1 DEF Try, Return, TypeOK
<1>5. CASE 0 < TransactionRetryCount
  <2> DEFINE d == [c EXCEPT !.pc = "read", !.i = 0, !.seen = {}, !.unchecked = {}]
  <2>1. call'[p] = d /\ UNCHANGED failed
    BY <1>1, <1>5 DEF Try, TypeOK
  <2>2. /\ d.pc = "read" /\ d.i = 0 /\ d.message = nextMessage
        /\ d.before = Cardinality(subscribers)
    BY <1>2 DEF Idle
  <2> HIDE DEF d
  <2>3. CallInv(p)'
    BY <1>1, <1>2, <1>3, <2>1, <2>2 DEF CallInv, Active, At
  <2>4. \A q \in Publishers : CallInv(q)'
    BY <1>1, <1>4, <2>1, <2>3, Others
  <2>5. ApartInv'
    <3>1. \A q \in Publishers : Active(q) => call[q].message < nextMessage
      BY DEF TypeOK, Active, At
    <3>2. ASSUME NEW q \in Publishers, q # p, Active(q)'
          PROVE  call'[q].message # call'[p].message
      BY <1>2, <1>4, <2>1, <2>2, <3>1, <3>2 DEF Active, At, TypeOK, PublishCall
    <3>3. ASSUME NEW q \in Publishers, NEW r \in Publishers, q # p, r # p, q # r,
                 Active(q)', Active(r)'
          PROVE  call'[q].message # call'[r].message
      BY <1>4, <3>3 DEF IInv, ApartInv, Active, At
    <3> QED
      BY <3>2, <3>3 DEF ApartInv
  <2>6. FateInv'
    BY <1>1, <1>2, <2>1 DEF IInv, FateInv, FailedIsUnpublished
  <2> QED
    BY <2>4, <2>5, <2>6 DEF IInv
<1>6. CASE ~(0 < TransactionRetryCount)
  <2>1. call'[p] = Idle /\ failed' = failed \cup {nextMessage}
    BY <1>1, <1>2, <1>6 DEF Try, Return, TypeOK
  <2>2. CallInv(p)'
    BY <2>1 DEF CallInv, Active, At, Idle
  <2>3. \A q \in Publishers : CallInv(q)'
    BY <1>1, <1>4, <2>1, <2>2, Others
  <2>4. ApartInv'
    BY <1>4, <2>1 DEF IInv, ApartInv, Active, At, Idle
  <2>5. FateInv'
    BY <1>1, <1>2, <1>3, <2>1 DEF IInv, FateInv, FailedIsUnpublished
  <2> QED
    BY <2>3, <2>4, <2>5 DEF IInv
<1> QED
  BY <1>5, <1>6

LEMMA NextIInv == TypeOK /\ IInv /\ [Next]_vars => IInv'
<1> SUFFICES ASSUME TypeOK, IInv, [Next]_vars PROVE IInv'
  OBVIOUS
<1> TypeOK'
  BY NextTypeOK
<1>1. CASE UNCHANGED vars
  BY <1>1 DEF vars, IInv, FateInv, FailedIsUnpublished, ApartInv, CallInv, Active, At
<1>2. ASSUME NEW a \in Applications, Take(a) PROVE IInv'
  BY <1>2 DEF Take, IInv, FateInv, FailedIsUnpublished, ApartInv, CallInv, Active, At
<1>3. ASSUME NEW a \in Applications, Subscribe(a) PROVE IInv'
  <2>1. /\ UNCHANGED <<call, nextMessage, published, failed>>
        /\ subscribers' = subscribers \cup {a} /\ a \notin subscribers
    BY <1>3 DEF Subscribe
  <2>2. Cardinality(subscribers') = Cardinality(subscribers) + 1
    BY <2>1, Finite, FS_AddElement
  <2>3. ASSUME NEW p \in Publishers PROVE CallInv(p)'
    <3>1. CallInv(p) /\ call[p] \in PublishCall /\ Cardinality(subscribers) \in Nat
      BY Finite DEF IInv, TypeOK
    <3> QED
      BY <2>1, <2>2, <3>1 DEF CallInv, Active, At, PublishCall
  <2> QED
    BY <2>1, <2>3 DEF IInv, FateInv, FailedIsUnpublished, ApartInv, Active, At
<1>4. ASSUME NEW p \in Publishers, ReadSubscribers(p) PROVE IInv'
  <2> DEFINE d == [call[p] EXCEPT !.pc = "push", !.seen = subscribers,
                                  !.unchecked = IF hasCapacity THEN subscribers ELSE {}]
  <2>1. /\ call' = [call EXCEPT ![p] = d] \/ call' = [call EXCEPT ![p] = Idle]
        /\ UNCHANGED <<subscribers, nextMessage, published, failed>>
        /\ call[p].pc = "read" /\ Active(p)
    BY <1>4 DEF ReadSubscribers, Return, Active, At
  <2>2. /\ d.pc = "push" /\ d.message = call[p].message /\ d.seen = subscribers
        /\ d.before = call[p].before /\ d.i = call[p].i
    BY DEF TypeOK, PublishCall
  <2> HIDE DEF d
  <2>3. call'[p] = d \/ call'[p] = Idle
    BY <2>1 DEF TypeOK
  <2>4. CallInv(p)'
    BY <2>1, <2>2, <2>3 DEF IInv, CallInv, Active, At, Idle
  <2> QED
    BY <2>1, <2>2, <2>4, QuietStep
<1>5. ASSUME NEW p \in Publishers, AwaitRoom(p) PROVE IInv'
  <2>1. PICK a \in call[p].unchecked :
          \/ call' = [call EXCEPT ![p].unchecked = @ \ {a}]
          \/ call' = [call EXCEPT ![p] = Idle]
    BY <1>5 DEF AwaitRoom, Return
  <2> DEFINE d == [call[p] EXCEPT !.unchecked = @ \ {a}]
  <2>2. /\ call' = [call EXCEPT ![p] = d] \/ call' = [call EXCEPT ![p] = Idle]
        /\ UNCHANGED <<subscribers, nextMessage, published, failed>>
        /\ call[p].pc = "push" /\ Active(p)
    BY <1>5, <2>1 DEF AwaitRoom, Active, At
  <2>3. /\ d.pc = "push" /\ d.message = call[p].message /\ d.seen = call[p].seen
        /\ d.before = call[p].before /\ d.i = call[p].i
    BY <2>2 DEF TypeOK, PublishCall
  <2> HIDE DEF d
  <2>4. call'[p] = d \/ call'[p] = Idle
    BY <2>2 DEF TypeOK
  <2>5. CallInv(p)'
    BY <2>2, <2>3, <2>4 DEF IInv, CallInv, Active, At, Idle
  <2> QED
    BY <2>2, <2>3, <2>5, QuietStep
<1> QED
  BY <1>1, <1>2, <1>3, <1>4, <1>5, CallIInv, ExecuteIInv DEF Next, Publish

LEMMA Inductive == Spec => [](TypeOK /\ IInv)
BY InitTypeOK, InitIInv, NextTypeOK, NextIInv, PTL DEF Spec

(* A message for which PublishAsync threw MessagePublishFailedException is *)
(* on no queue, then or later.                                             *)
THEOREM FailureIsCertain == Spec => []FailedIsUnpublished
<1>1. TypeOK /\ IInv => FailedIsUnpublished
  BY DEF IInv, FateInv
<1> QED
  BY <1>1, Inductive, PTL

-----------------------------------------------------------------------------
(* Who gives up.                                                           *)

LEMMA FailsStep ==
  ASSUME TypeOK, IInv, [Next]_vars, NEW p \in Publishers,
         call[p].message \in failed' \ failed
  PROVE  Cardinality(subscribers) >= call[p].before + TransactionRetryCount
<1>1. CASE UNCHANGED failed
  BY <1>1
<1>2. ASSUME NEW q \in Publishers, Call(q) PROVE FALSE
  <2>1. failed' \subseteq failed \cup {nextMessage}
    BY <1>2 DEF Call, Try, Idle
  <2>2. call[p].message = nextMessage
    BY <2>1
  <2>3. CASE Active(p)
    BY <2>2, <2>3 DEF TypeOK, Active, At
  <2>4. CASE At(p, "idle")
    BY <2>2, <2>4 DEF TypeOK, IInv, CallInv, Idle
  <2> QED
    BY <2>3, <2>4 DEF Active
<1>3. ASSUME NEW q \in Publishers, Execute(q), ~UNCHANGED failed
      PROVE  Cardinality(subscribers) >= call[p].before + TransactionRetryCount
  <2>1. /\ Try(q, call[q], call[q].i + 1) /\ ~SetLengthEqual(q) /\ call[q].pc = "push"
        /\ failed' \subseteq failed \cup {call[q].message}
        /\ ~(call[q].i + 1 < TransactionRetryCount)
    BY <1>3 DEF Execute, Try, At
  <2>2. call[p].message = call[q].message
    BY <2>1
  <2>3. p = q
    <3>1. CASE Active(p)
      BY <2>1, <2>2, <3>1 DEF IInv, ApartInv, Active, At
    <3>2. CASE At(p, "idle")
      BY <2>1, <2>2, <3>2 DEF TypeOK, IInv, CallInv, Idle
    <3> QED
      BY <3>1, <3>2 DEF Active
  <2>4. /\ call[q].seen \subseteq subscribers
        /\ call[q].before + call[q].i <= Cardinality(call[q].seen)
        /\ call[q] \in PublishCall
    BY <2>1 DEF IInv, CallInv, At, TypeOK
  <2>5. Cardinality(call[q].seen) < Cardinality(subscribers)
    BY <2>1, <2>4, SeenIsPart, Finite DEF SetLengthEqual
  <2> QED
    BY <2>1, <2>3, <2>4, <2>5, Finite, SettingsAssumption DEF PublishCall
<1>4. \A q \in Publishers : ReadSubscribers(q) \/ AwaitRoom(q) => UNCHANGED failed
  BY DEF ReadSubscribers, AwaitRoom
<1>5. \A a \in Applications : Subscribe(a) \/ Take(a) => UNCHANGED failed
  BY DEF Subscribe, Take
<1> QED
  BY <1>1, <1>2, <1>3, <1>4, <1>5 DEF Next, Publish, vars

(* MessagePublishFailedException means that as many applications as there  *)
(* are tries have subscribed since PublishAsync was called, one or more    *)
(* during each try.                                                        *)
THEOREM GivesUpOnlyForNewcomers == Spec => FailsOnlyByRegistrations
<1>1. TypeOK /\ IInv /\ [Next]_vars =>
        [\A p \in Publishers :
           call[p].message \in failed' \ failed =>
             Cardinality(subscribers) >= call[p].before + TransactionRetryCount]_vars
  BY FailsStep
<1> QED
  BY <1>1, Inductive, PTL DEF Spec, FailsOnlyByRegistrations

-----------------------------------------------------------------------------
(* The refinement.                                                         *)

LEMMA StepRefines ==
  TypeOK /\ IInv /\ [Next]_vars => [MQ!Next]_<<subscribers, list, published>>
<1> SUFFICES ASSUME TypeOK, IInv, [Next]_vars
             PROVE  MQ!Next \/ UNCHANGED <<subscribers, list, published>>
  OBVIOUS
<1>1. ASSUME NEW a \in Applications, Subscribe(a) PROVE MQ!Join(a)
  BY <1>1 DEF Subscribe, MQ!Join
<1>2. ASSUME NEW a \in Applications, Take(a) PROVE MQ!Receive(a)
  BY <1>2 DEF Take, PopRight, MQ!Receive
<1>3. ASSUME NEW p \in Publishers, Execute(p)
      PROVE  \/ \E m \in Messages : MQ!Send(m)
             \/ UNCHANGED <<subscribers, list, published>>
  <2> DEFINE c == call[p]
  <2>1. /\ c.pc = "push" /\ c.message \in Messages /\ c.message \notin published
        /\ c.seen \subseteq subscribers
    BY <1>3, BoundsAssumption DEF Execute, At, TypeOK, IInv, CallInv, Active, Messages
  <2>2. UNCHANGED subscribers
    BY <1>3 DEF Execute
  <2>3. CASE UNCHANGED <<list, published>>
    BY <2>2, <2>3
  <2>4. CASE ~UNCHANGED <<list, published>>
    <3>1. /\ SetLengthEqual(p)
          /\ list' = [a \in Applications |->
                        IF a \in c.seen THEN PushLeft(c.message, list[a]) ELSE list[a]]
          /\ published' = published \cup {c.message}
      BY <1>3, <2>4 DEF Execute
    <3>2. c.seen = subscribers
      BY <2>1, <3>1, SeenIsPart
    <3>3. MQ!Send(c.message)
      BY <2>1, <2>2, <3>1, <3>2 DEF MQ!Send, PushLeft
    <3> QED
      BY <2>1, <3>3
  <2> QED
    BY <2>3, <2>4
<1>4. ASSUME NEW p \in Publishers, Call(p) \/ ReadSubscribers(p) \/ AwaitRoom(p)
      PROVE  UNCHANGED <<subscribers, list, published>>
  BY <1>4 DEF Call, ReadSubscribers, AwaitRoom
<1>5. CASE UNCHANGED vars
  BY <1>5 DEF vars
<1> QED
  BY <1>1, <1>2, <1>3, <1>4, <1>5 DEF Next, Publish, MQ!Next

(* PublishAsync implements Broadcast: each message is put in one step on   *)
(* the lists of exactly the applications that have subscribed by then, at  *)
(* most once, whichever applications subscribe meanwhile and whatever call *)
(* fails.                                                                  *)
THEOREM Refinement == Spec => ImplementsBroadcast
<1>1. Init => MQ!Init
  BY DEF Init, MQ!Init
<1>2. Spec => MQ!Spec
  BY <1>1, StepRefines, Inductive, PTL DEF Spec, MQ!Spec
<1> QED
  BY <1>2 DEF ImplementsBroadcast

-----------------------------------------------------------------------------
(* The capacity.  The invariant is inductive: a publisher is admitted when *)
(* the list is shorter than the capacity, however many others are; and     *)
(* each admission is used for one push.                                    *)

LEMMA AdmittedFinite ==
  ASSUME NEW a \in Applications
  PROVE  /\ IsFiniteSet(Admitted(a)) /\ Cardinality(Admitted(a)) \in Nat
         /\ Cardinality(Admitted(a)) <= Cardinality(Publishers)
         /\ Cardinality(Publishers) \in Nat
<1>1. Admitted(a) \subseteq Publishers
  BY DEF Admitted
<1> QED
  BY <1>1, SetsAssumption, FS_Subset, FS_CardinalityType

(* No more publishers are admitted, and the list is no longer.             *)
LEMMA NoMore ==
  ASSUME TypeOK, TypeOK', NEW a \in Applications, Admitted(a)' \subseteq Admitted(a),
         Len(list'[a]) <= Len(list[a]),
         Len(list[a]) + Cardinality(Admitted(a)) <= Capacity - 1 + Cardinality(Publishers)
  PROVE  Len(list'[a]) + Cardinality(Admitted(a)') <= Capacity - 1 + Cardinality(Publishers)
<1>1. Cardinality(Admitted(a)') <= Cardinality(Admitted(a)) /\ Cardinality(Admitted(a)') \in Nat
  BY AdmittedFinite, FS_Subset, FS_CardinalityType
<1>2. Len(list[a]) \in Nat /\ Len(list'[a]) \in Nat
  BY DEF TypeOK
<1> QED
  BY <1>1, <1>2, AdmittedFinite, SettingsAssumption

(* A call that returns, is tried anew or is still waiting for a's list is  *)
(* not admitted to it.                                                     *)
LEMMA LessAdmitted ==
  ASSUME TypeOK, NEW p \in Publishers, NEW a \in Applications,
         \A q \in Publishers : q # p => call'[q] = call[q],
         call'[p].pc = "push" /\ a \in call'[p].seen => a \in call'[p].unchecked
  PROVE  Admitted(a)' = Admitted(a) \ {p} /\ Admitted(a)' \subseteq Admitted(a)
BY DEF Admitted, At

LEMMA TryReads ==
  ASSUME TypeOK, NEW p \in Publishers, NEW c \in PublishCall, NEW k, Try(p, c, k)
  PROVE  call'[p].pc # "push" /\ \A q \in Publishers : q # p => call'[q] = call[q]
<1> DEFINE d == [c EXCEPT !.pc = "read", !.i = k, !.seen = {}, !.unchecked = {}]
<1>1. d.pc = "read" /\ Idle.pc = "idle"
  BY DEF PublishCall, Idle
<1>2. call' = [call EXCEPT ![p] = d] \/ call' = [call EXCEPT ![p] = Idle]
  BY DEF Try, Return
<1> HIDE DEF d
<1> QED
  BY <1>1, <1>2 DEF TypeOK

LEMMA NextWithinCapacity ==
  TypeOK /\ WithinCapacity /\ [Next]_vars => WithinCapacity'
<1> SUFFICES ASSUME TypeOK, WithinCapacity, [Next]_vars, hasCapacity', Capacity > 0,
                    NEW a \in Applications
             PROVE  Len(list'[a]) + Cardinality(Admitted(a)')
                      <= Capacity - 1 + Cardinality(Publishers)
  BY DEF WithinCapacity
<1> DEFINE Bounded == Len(list'[a]) + Cardinality(Admitted(a)')
                        <= Capacity - 1 + Cardinality(Publishers)
<1> TypeOK'
  BY NextTypeOK
<1> hasCapacity
  BY DEF Next, Publish, Subscribe, Take, Call, ReadSubscribers, AwaitRoom, Execute, vars
<1> Len(list[a]) + Cardinality(Admitted(a)) <= Capacity - 1 + Cardinality(Publishers)
  BY DEF WithinCapacity
<1>0. Len(list[a]) \in Nat /\ Len(list'[a]) \in Nat
  BY DEF TypeOK
<1>1. CASE UNCHANGED vars
  <2>1. Admitted(a)' = Admitted(a) /\ list' = list
    BY <1>1 DEF vars, Admitted, At
  <2> QED
    BY <2>1
<1>2. ASSUME NEW b \in Applications, Subscribe(b) PROVE Bounded
  <2>1. Admitted(a)' = Admitted(a) /\ list' = list
    BY <1>2 DEF Subscribe, Admitted, At
  <2> QED
    BY <2>1
<1>3. ASSUME NEW b \in Applications, Take(b) PROVE Bounded
  <2>1. Admitted(a)' = Admitted(a)
    BY <1>3 DEF Take, Admitted, At
  <2>2. Len(list'[a]) <= Len(list[a])
    BY <1>0, <1>3 DEF Take, PopRight, TypeOK
  <2> QED
    BY <2>1, <2>2, NoMore
<1>4. ASSUME NEW p \in Publishers, Call(p) PROVE Bounded
  <2>1. /\ \A q \in Publishers : q # p => call'[q] = call[q]
        /\ call'[p].pc # "push" /\ list' = list
    <3> DEFINE c == [Idle EXCEPT !.message = nextMessage, !.before = Cardinality(subscribers)]
    <3>1. Try(p, c, 0) /\ list' = list
      BY <1>4 DEF Call
    <3>2. c \in PublishCall
      BY Finite DEF Idle, PublishCall, TypeOK
    <3> HIDE DEF c
    <3> QED
      BY <3>1, <3>2, TryReads
  <2>2. Admitted(a)' = Admitted(a) \ {p} /\ Admitted(a)' \subseteq Admitted(a)
    BY <2>1, LessAdmitted
  <2> QED
    <3>1. Len(list'[a]) <= Len(list[a])
      BY <1>0, <2>1
    <3> QED
      BY <2>2, <3>1, NoMore
<1>5. ASSUME NEW p \in Publishers, ReadSubscribers(p) PROVE Bounded
  <2>1. /\ \A q \in Publishers : q # p => call'[q] = call[q]
        /\ call'[p].pc = "push" => call'[p].unchecked = call'[p].seen
        /\ list' = list
    BY <1>5 DEF ReadSubscribers, Return, Idle, TypeOK, PublishCall
  <2>2. Admitted(a)' = Admitted(a) \ {p} /\ Admitted(a)' \subseteq Admitted(a)
    BY <2>1, LessAdmitted
  <2> QED
    <3>1. Len(list'[a]) <= Len(list[a])
      BY <1>0, <2>1
    <3> QED
      BY <2>2, <3>1, NoMore
<1>6. ASSUME NEW p \in Publishers, AwaitRoom(p) PROVE Bounded
  <2>1. PICK b \in call[p].unchecked, e \in Endings("length") :
          IF Answered(e) THEN Room(b) /\ call' = [call EXCEPT ![p].unchecked = @ \ {b}]
          ELSE Return(p)
    BY <1>6 DEF AwaitRoom
  <2>2. list' = list /\ \A q \in Publishers : q # p => call'[q] = call[q]
    BY <1>6, <2>1 DEF AwaitRoom, Return, TypeOK
  <2>3. CASE Answered(e) /\ a = b
    <3>1. Len(list'[a]) <= Capacity - 1
      BY <1>0, <2>1, <2>2, <2>3, SettingsAssumption DEF Room
    <3>2. Cardinality(Admitted(a)') \in Nat /\ Cardinality(Admitted(a)') <= Cardinality(Publishers)
      <4>1. Admitted(a)' \subseteq Publishers
        BY DEF Admitted
      <4> QED
        BY <4>1, SetsAssumption, FS_Subset, FS_CardinalityType
    <3> QED
      BY <1>0, <3>1, <3>2, AdmittedFinite, SettingsAssumption
  <2>4. CASE Answered(e) /\ a # b
    <3>1. /\ call'[p].pc = call[p].pc /\ call'[p].seen = call[p].seen
          /\ call'[p].unchecked = call[p].unchecked \ {b}
      BY <2>1, <2>4 DEF TypeOK, PublishCall
    <3>2. Admitted(a)' = Admitted(a)
      BY <2>2, <2>4, <3>1 DEF Admitted, At
    <3> QED
      BY <2>2, <3>2
  <2>5. CASE ~Answered(e)
    <3>1. call'[p].pc # "push"
      BY <2>1, <2>5 DEF Return, Idle, TypeOK
    <3>2. Admitted(a)' = Admitted(a) \ {p} /\ Admitted(a)' \subseteq Admitted(a)
      BY <2>2, <3>1, LessAdmitted
    <3> QED
      <4>1. Len(list'[a]) <= Len(list[a])
        BY <1>0, <2>2
      <4> QED
        BY <3>2, <4>1, NoMore
  <2> QED
    BY <2>3, <2>4, <2>5
<1>7. ASSUME NEW p \in Publishers, Execute(p) PROVE Bounded
  <2>1. call[p].pc = "push" /\ call[p].unchecked = {} /\ call[p] \in PublishCall
    BY <1>7 DEF Execute, At, TypeOK
  <2>2. /\ \A q \in Publishers : q # p => call'[q] = call[q]
        /\ call'[p].pc # "push"
    <3>1. Try(p, call[p], call[p].i + 1) \/ call' = [call EXCEPT ![p] = Idle]
      BY <1>7 DEF Execute, Return
    <3>2. CASE Try(p, call[p], call[p].i + 1)
      BY <2>1, <3>2, TryReads
    <3>3. CASE call' = [call EXCEPT ![p] = Idle]
      BY <3>3 DEF Idle, TypeOK
    <3> QED
      BY <3>1, <3>2, <3>3
  <2>3. Admitted(a)' = Admitted(a) \ {p} /\ Admitted(a)' \subseteq Admitted(a)
    BY <2>2, LessAdmitted
  <2>4. CASE list'[a] = list[a]
    <3>1. Len(list'[a]) <= Len(list[a])
      BY <1>0, <2>4
    <3> QED
      BY <2>3, <3>1, NoMore
  <2>5. CASE list'[a] # list[a]
    <3>1. a \in call[p].seen /\ list'[a] = PushLeft(call[p].message, list[a])
      BY <1>7, <2>5 DEF Execute
    <3>2. call[p].message \in Messages /\ list[a] \in Seq(Messages)
      BY <2>1, BoundsAssumption DEF TypeOK, Messages
    <3>3. Len(list'[a]) = Len(list[a]) + 1
      BY <3>1, <3>2, PushType
    <3>4. p \in Admitted(a)
      BY <2>1, <3>1 DEF Admitted, At
    <3>5. Cardinality(Admitted(a)') = Cardinality(Admitted(a)) - 1
      BY <2>3, <3>4, AdmittedFinite, FS_RemoveElement
    <3> QED
      BY <1>0, <3>3, <3>5, AdmittedFinite, SettingsAssumption
  <2> QED
    BY <2>4, <2>5
<1> QED
  BY <1>1, <1>2, <1>3, <1>4, <1>5, <1>6, <1>7 DEF Next, Publish

LEMMA InitWithinCapacity == Init => WithinCapacity
<1> SUFFICES ASSUME Init, Capacity > 0, NEW a \in Applications
             PROVE  Len(list[a]) + Cardinality(Admitted(a)) <= Capacity - 1 + Cardinality(Publishers)
  BY DEF WithinCapacity
<1>1. Len(list[a]) = 0
  BY DEF Init
<1> QED
  BY <1>1, AdmittedFinite, SettingsAssumption

(* With a capacity no list gets longer than it by more than the number of  *)
(* the other publishers that run at a time, however long they run.         *)
THEOREM CapacityHolds == Spec => []WithinCapacity
<1>1. TypeOK /\ WithinCapacity /\ [Next]_vars => WithinCapacity'
  BY NextWithinCapacity
<1> QED
  BY <1>1, InitWithinCapacity, TypeCorrect, PTL DEF Spec
=============================================================================
