---------------------------- MODULE MessageQueue ----------------------------
(***************************************************************************)
(* RedisMessageQueue.PublishAsync for one event type, by publishers that   *)
(* run concurrently, while applications subscribe and take messages.       *)
(*                                                                         *)
(* A publisher reads the set of subscribers, waits for room in the list of *)
(* each if a capacity was given, and executes a transaction that pushes on *)
(* every list it read of, provided that the set still has as many members. *)
(* One action is one call to Redis with the code that runs up to the next. *)
(* A message is a number, in the order in which PublishAsync was called.   *)
(* The notification that goes with the pushes is followed in ReliableQueue.*)
(***************************************************************************)
EXTENDS Naturals, Sequences, FiniteSets

CONSTANTS
    Applications,           \* that may subscribe to the event type
    Publishers,             \* calls of PublishAsync that may run at a time
    MaxMessages,            \* bound: messages ever published
    TransactionRetryCount,  \* of RedisEventStoreSettings
    Capacity,               \* capacity of PublishAsync, where it is given
    CapacityChoices,        \* whether it is: the values an application may choose from
    LostRequests,           \* calls that may throw without having run
    LostReplies,            \* calls that may run and throw all the same
    MaxFaults               \* bound: calls that throw

Messages == 1..MaxMessages

Calls == {"members", "length", "execute"}

ASSUME BoundsAssumption == MaxMessages \in Nat /\ MaxFaults \in Nat
ASSUME SettingsAssumption == TransactionRetryCount \in Nat /\ Capacity \in Nat
ASSUME ChoicesAssumption == CapacityChoices \subseteq BOOLEAN
ASSUME FaultsAssumption == LostRequests \subseteq Calls /\ LostReplies \subseteq Calls
ASSUME SetsAssumption == IsFiniteSet(Applications) /\ IsFiniteSet(Publishers)

VARIABLES
    subscribers,  \* Redis: the set of applications that have subscribed
    list,         \* Redis: the published list of each, its left end first
    call,         \* of each publisher: its call of PublishAsync
    nextMessage,  \* the next message to be published
    hasCapacity,  \* capacity.HasValue
    faults,       \* calls that have thrown
    published,    \* history: messages whose transaction has run
    failed        \* history: messages MessagePublishFailedException was thrown for

vars == <<subscribers, list, call, nextMessage, hasCapacity, faults, published, failed>>

-----------------------------------------------------------------------------
PushLeft(m, s) == <<m>> \o s
PopRight(s) == SubSeq(s, 1, Len(s) - 1)

(* The ways a call can end: answered; thrown before it ran; thrown after.  *)
Endings(c) ==
    {"answered"} \cup
    IF faults = MaxFaults THEN {}
    ELSE (IF c \in LostRequests THEN {"lost"} ELSE {})
         \cup (IF c \in LostReplies THEN {"unanswered"} ELSE {})
Ran(ending) == ending # "lost"
Answered(ending) == ending = "answered"
Count(ending) == faults' = IF Answered(ending) THEN faults ELSE faults + 1

(* A call of PublishAsync: its message, the tries it has behind it, the    *)
(* subscribers it has read, and those whose list it has yet to wait for.   *)
(* History: how many there were when it was called.                        *)
Idle == [pc |-> "idle", message |-> 0, i |-> 0, seen |-> {}, unchecked |-> {}, before |-> 0]

Init ==
    /\ subscribers = {}
    /\ list = [a \in Applications |-> <<>>]
    /\ call = [p \in Publishers |-> Idle]
    /\ nextMessage = 1
    /\ hasCapacity \in CapacityChoices
    /\ faults = 0
    /\ published = {} /\ failed = {}

At(p, pc) == call[p].pc = pc
Return(p) == call' = [call EXCEPT ![p] = Idle]

-----------------------------------------------------------------------------
(* SubscribeAsync of some instance of the application; nothing ever takes  *)
(* an application out of the set.                                          *)
Subscribe(a) ==
    /\ a \notin subscribers
    /\ subscribers' = subscribers \cup {a}
    /\ UNCHANGED <<list, call, nextMessage, hasCapacity, faults, published, failed>>

(* Some instance of the application pops a message.                        *)
Take(a) ==
    /\ list[a] # <<>>
    /\ list' = [list EXCEPT ![a] = PopRight(@)]
    /\ UNCHANGED <<subscribers, call, nextMessage, hasCapacity, faults, published, failed>>

(* Mutant: one try too many.                                               *)
TryOnceMore(p, c, k) ==
    IF k <= TransactionRetryCount
    THEN /\ call' = [call EXCEPT ![p] =
                       [c EXCEPT !.pc = "read", !.i = k, !.seen = {}, !.unchecked = {}]]
         /\ UNCHANGED failed
    ELSE /\ Return(p)
         /\ failed' = failed \cup {c.message}

(* The head of the loop at its k-th turn, for the call c of p; it throws   *)
(* MessagePublishFailedException when the tries are used up.               *)
Try(p, c, k) ==
    IF k < TransactionRetryCount
    THEN /\ call' = [call EXCEPT ![p] =
                       [c EXCEPT !.pc = "read", !.i = k, !.seen = {}, !.unchecked = {}]]
         /\ UNCHANGED failed
    ELSE /\ Return(p)
         /\ failed' = failed \cup {c.message}

(* Mutant: the first try is already counted.                               *)
CallFromOne(p) ==
    /\ At(p, "idle")
    /\ nextMessage <= MaxMessages
    /\ nextMessage' = nextMessage + 1
    /\ Try(p, [Idle EXCEPT !.message = nextMessage, !.before = Cardinality(subscribers)], 1)
    /\ UNCHANGED <<subscribers, list, hasCapacity, faults, published>>

Call(p) ==
    /\ At(p, "idle")
    /\ nextMessage <= MaxMessages
    /\ nextMessage' = nextMessage + 1
    /\ Try(p, [Idle EXCEPT !.message = nextMessage, !.before = Cardinality(subscribers)], 0)
    /\ UNCHANGED <<subscribers, list, hasCapacity, faults, published>>

ReadSubscribers(p) ==
    /\ At(p, "read")
    /\ \E ending \in Endings("members") :
         /\ IF Answered(ending)
            THEN call' = [call EXCEPT ![p].pc = "push", ![p].seen = subscribers,
                            ![p].unchecked = IF hasCapacity THEN subscribers ELSE {}]
            ELSE Return(p)
         /\ Count(ending)
    /\ UNCHANGED <<subscribers, list, nextMessage, hasCapacity, published, failed>>

(* Mutant: a list that is full has room.                                   *)
RoomWhenFull(a) == Len(list[a]) <= Capacity

(* The condition AsyncConditionWaiter polls for.                           *)
Room(a) == Len(list[a]) < Capacity

(* Mutant: the wait goes on after there was room.                          *)
AwaitRoomAgain(p) ==
    /\ At(p, "push")
    /\ \E a \in call[p].unchecked : Room(a) /\ call' = call
    /\ UNCHANGED <<subscribers, list, nextMessage, hasCapacity, faults, published, failed>>

(* The waits for the lists follow one another, in the order in which Redis *)
(* lists the set.  Polls that find a list full change nothing.             *)
AwaitRoom(p) ==
    /\ At(p, "push")
    /\ \E a \in call[p].unchecked, ending \in Endings("length") :
         /\ IF Answered(ending)
            THEN Room(a) /\ call' = [call EXCEPT ![p].unchecked = @ \ {a}]
            ELSE Return(p)
         /\ Count(ending)
    /\ UNCHANGED <<subscribers, list, nextMessage, hasCapacity, published, failed>>

(* Mutant: the condition is that there are no fewer.                       *)
UnchangedEnough(p) == Cardinality(subscribers) >= Cardinality(call[p].seen)

(* Condition.SetLengthEqual.                                               *)
SetLengthEqual(p) == Cardinality(subscribers) = Cardinality(call[p].seen)

(* Mutant: a transaction that throws is tried again.                       *)
ExecuteUntilAnswered(p) ==
    /\ At(p, "push") /\ call[p].unchecked = {}
    /\ \E ending \in Endings("execute") :
         /\ IF Ran(ending) /\ SetLengthEqual(p)
            THEN /\ list' = [a \in Applications |->
                               IF a \in call[p].seen THEN PushLeft(call[p].message, list[a])
                               ELSE list[a]]
                 /\ published' = published \cup {call[p].message}
            ELSE UNCHANGED <<list, published>>
         /\ IF Answered(ending) /\ SetLengthEqual(p)
            THEN Return(p) /\ UNCHANGED failed
            ELSE Try(p, call[p], call[p].i + 1)
         /\ Count(ending)
    /\ UNCHANGED <<subscribers, nextMessage, hasCapacity>>

(* The transaction: refused, it has no effect, and is built anew.  Its     *)
(* call is not repeated by the client: if it throws, PublishAsync does.    *)
Execute(p) ==
    /\ At(p, "push") /\ call[p].unchecked = {}
    /\ \E ending \in Endings("execute") :
         /\ IF Ran(ending) /\ SetLengthEqual(p)
            THEN /\ list' = [a \in Applications |->
                               IF a \in call[p].seen THEN PushLeft(call[p].message, list[a])
                               ELSE list[a]]
                 /\ published' = published \cup {call[p].message}
            ELSE UNCHANGED <<list, published>>
         /\ IF Answered(ending) /\ ~SetLengthEqual(p)
            THEN Try(p, call[p], call[p].i + 1)
            ELSE Return(p) /\ UNCHANGED failed
         /\ Count(ending)
    /\ UNCHANGED <<subscribers, nextMessage, hasCapacity>>

Publish(p) == Call(p) \/ ReadSubscribers(p) \/ AwaitRoom(p) \/ Execute(p)

Next ==
    \/ \E a \in Applications : Subscribe(a) \/ Take(a)
    \/ \E p \in Publishers : Publish(p)

Spec == Init /\ [][Next]_vars

(* A publisher that is called goes on: its thread is scheduled and Redis   *)
(* answers.  Nobody has to call, to subscribe or to take messages.         *)
Continue(p) == ReadSubscribers(p) \/ AwaitRoom(p) \/ Execute(p)
FairSpec == Spec /\ \A p \in Publishers : WF_vars(Continue(p))

-----------------------------------------------------------------------------
PublishCall ==
    [pc : {"idle", "read", "push"}, message : Nat, i : Nat,
     seen : SUBSET Applications, unchecked : SUBSET Applications, before : Nat]

(* The type invariant: a call that tries has a try left, holds a message   *)
(* of its own, and waits for lists of applications it read.                *)
TypeOK ==
    /\ subscribers \subseteq Applications
    /\ list \in [Applications -> Seq(Messages)]
    /\ call \in [Publishers -> PublishCall]
    /\ \A p \in Publishers : call[p].pc # "idle" =>
         /\ call[p].i < TransactionRetryCount
         /\ call[p].message \in 1..(nextMessage - 1)
         /\ call[p].unchecked \subseteq call[p].seen
    /\ nextMessage \in Nat /\ nextMessage >= 1 /\ nextMessage <= MaxMessages + 1
    /\ hasCapacity \in BOOLEAN
    /\ faults \in Nat /\ faults <= MaxFaults
    /\ published \subseteq Messages /\ failed \subseteq Messages

(* Publishers that have found room in a's list and not pushed on it yet.   *)
Admitted(a) == {p \in Publishers : At(p, "push") /\ a \in call[p].seen \ call[p].unchecked}

(* The length is compared with the capacity before the push, but that      *)
(* overshoots the capacity by no more than one message for each other      *)
(* publisher, however often they publish: capacity, in PublishAsync, with  *)
(* AsyncConditionWaiter.                                                   *)
WithinCapacity ==
    hasCapacity /\ Capacity > 0 =>
        \A a \in Applications :
            Len(list[a]) + Cardinality(Admitted(a)) <= Capacity - 1 + Cardinality(Publishers)

(* MessagePublishFailedException tells the truth: the message is in no     *)
(* list and never gets there.  (Another exception does not tell: the       *)
(* transaction may have run.)                                              *)
FailedIsUnpublished == failed \cap published = {}

(* PublishAsync gives up only if an application subscribed during each of  *)
(* its tries: it needs as many new subscribers as TransactionRetryCount.   *)
FailsOnlyByRegistrations ==
    [][\A p \in Publishers :
         call[p].message \in failed' \ failed =>
             Cardinality(subscribers) >= call[p].before + TransactionRetryCount]_vars

(* That the set has the same size means that it is the same set, as it     *)
(* only grows: the message reaches every application that has subscribed   *)
(* when the transaction runs, each once, all in one order.                 *)
MQ == INSTANCE Broadcast WITH members <- subscribers, inbox <- list, sent <- published
ImplementsBroadcast == MQ!Spec

(* A call ends, unless a list of an application it waits for is full time  *)
(* and again: with a capacity, an application that takes no messages stops *)
(* every publisher for good, as AsyncConditionWaiter has no limit.         *)
EndsUnlessFull ==
    \A p \in Publishers :
        []<>At(p, "idle") \/ []<>(\E a \in call[p].unchecked : ~Room(a))
=============================================================================
