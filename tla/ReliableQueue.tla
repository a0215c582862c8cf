---------------------------- MODULE ReliableQueue ----------------------------
(***************************************************************************)
(* How one application takes the messages of one event type off the queue: *)
(* RedisEventSubscriber, the dead letters of MessageQueueRepository, and   *)
(* RetryAsync of the retryable subscriptions.                              *)
(*                                                                         *)
(* The application runs on several instances.  They share three lists in   *)
(* Redis: a message is pushed on the published list, popped from there     *)
(* into the processing list for as long as the callback works on it, and   *)
(* kept among the dead letters if the callback threw.  A notification on   *)
(* a channel, which Redis does not keep, makes each instance pop once.     *)
(*                                                                         *)
(* One action is one call to Redis, or one run of the application's        *)
(* callback, with the code that runs up to the next.  The callbacks of an  *)
(* instance run concurrently; that sequentialProcessing has some of them   *)
(* wait for one another only leaves interleavings out.  The variants for   *)
(* Action and for Func<T, Task> take the same steps.  A message is a       *)
(* number, in the order in which they are published; its TimeStamp is the  *)
(* class of its age.                                                       *)
(***************************************************************************)
EXTENDS Naturals, Sequences, FiniteSets

CONSTANTS
    Instances,    \* of the application
    Retriers,     \* those on which the application calls RetryAsync
    MaxMessages,  \* bound: messages ever published
    Id,           \* of each message: for an event, the id of its aggregate
    TimeToLive,   \* TimeToLiveHours is not zero
    StaleCount,   \* eventCount of MoveStaleProcessingEventsToDeadLetters
    LockChoices,  \* the values of enableLock an application may choose from
    LostRequests, \* calls that may throw without having run
    LostReplies,  \* calls that may run and throw all the same
    MaxFaults     \* bound: calls that throw and instances that die

Messages == 1..MaxMessages

Calls == {"notify", "length", "pop", "bury", "remove", "oldest", "move",
          "deadlength", "get", "data", "delete", "update", "read"}

ASSUME BoundsAssumption == MaxMessages \in Nat /\ MaxFaults \in Nat
ASSUME StaleAssumption == StaleCount \in Nat \ {0}
ASSUME RetriersAssumption == Retriers \subseteq Instances
ASSUME TimeToLiveAssumption == TimeToLive \in BOOLEAN
ASSUME IdAssumption == DOMAIN Id = Messages
ASSUME LockAssumption == LockChoices \subseteq BOOLEAN
ASSUME FaultsAssumption == LostRequests \subseteq Calls /\ LostReplies \subseteq Calls

VARIABLES
    registered,  \* Redis: the application is in the set of subscribers
    published,   \* Redis: the published list, its left end first
    processing,  \* Redis: the processing list
    deadLetters, \* Redis: the dead letter list
    waiting,     \* Redis: the retry data, as the ids that were retried too lately
    nextMessage, \* the next message to be published
    unreadable,  \* messages that DeserializeObject does not accept
    age,         \* of each message: "fresh", "stale" after five minutes, "expired"
    status,      \* of each instance: how far SubscribeAsync has come
    due,         \* of each instance: callbacks it has yet to run
    callback,    \* of each instance and message: where ExecuteCallback is
    pass,        \* of each instance: its run of RetryAsync
    enableLock,  \* of SubscribeAsync
    locked,      \* the distributed lock of the event type is taken
    faults,      \* calls that have thrown and instances that have died
    handled,     \* history: messages a callback has completed for
    again,       \* history: messages a callback has completed for twice
    expired,     \* history: messages deleted because their time to live was over
    missed,      \* history: instances that a notification or a pop failed for
    happened     \* history: the circumstances that promises depend on, see Marks

lists == <<published, processing, deadLetters, waiting>>
world == <<registered, nextMessage, unreadable, age, enableLock>>
tasks == <<status, due, callback, pass, locked, faults>>
outcome == <<handled, again, expired>>
history == <<outcome, missed, happened>>
vars == <<lists, world, tasks, history>>

-----------------------------------------------------------------------------
ToSet(s) == {s[i] : i \in DOMAIN s}
PushLeft(m, s) == <<m>> \o s
Rightmost(s) == s[Len(s)]
PopRight(s) == SubSeq(s, 1, Len(s) - 1)

(* The list with its entries in S alone.                                   *)
Keep(s, S) ==
    LET kept == {i \in DOMAIN s : s[i] \in S}
        Rank(i) == Cardinality({j \in kept : j <= i})
    IN  [k \in 1..Cardinality(kept) |-> s[CHOOSE i \in kept : Rank(i) = k]]

(* LREM key 0 m, or -1: the list without m, which was pushed once on it.   *)
Without(s, m) == Keep(s, Messages \ {m})

(* LRANGE key -n -1: the n messages that were popped first, or all.        *)
Oldest(s, n) == SubSeq(s, IF Len(s) > n THEN Len(s) - n + 1 ELSE 1, Len(s))

(* The ways a call can end: answered; thrown before it ran; thrown after.  *)
(* RedisClient tries a transaction that threw again with the same object,  *)
(* which has nothing left to execute: then it is answered and has not run. *)
(* (MoveProcessingEventToDeadLetterQueue awaits the parts, too.)           *)
Transactions == {"bury", "delete", "update"}
Endings(call) ==
    {"answered"} \cup
    IF faults = MaxFaults THEN {}
    ELSE (IF call \in LostRequests THEN {"lost"} ELSE {})
         \cup (IF call \in LostRequests \cap Transactions THEN {"skipped"} ELSE {})
         \cup (IF call \in LostReplies THEN {"unanswered"} ELSE {})
Ran(ending) == ending \in {"answered", "unanswered"}
Answered(ending) == ending \in {"answered", "skipped"}
Count(ending) == faults' = IF ending = "answered" THEN faults ELSE faults + 1

(* What is worth remembering: the dead letter transaction did not run; and *)
(* what may have a message handled again: it was not removed when it had   *)
(* been handled; it was stale while it was being processed; an instance    *)
(* died; two instances retried at the same time.                           *)
Marks == {"bury", "twice"}
Note(marks) == happened' = happened \cup marks
Never(marks) == happened \cap marks = {}
NotRun(ending, mark) == IF Ran(ending) THEN {} ELSE {mark}

Idle == [pc |-> "idle", toMove |-> <<>>, length |-> 0, i |-> 0, processed |-> 0, message |-> 0]

Init ==
    /\ registered = FALSE
    /\ published = <<>> /\ processing = <<>> /\ deadLetters = <<>>
    /\ waiting = {}
    /\ nextMessage = 1 /\ unreadable = {}
    /\ age = [m \in Messages |-> "fresh"]
    /\ status = [n \in Instances |-> "down"]
    /\ due = [n \in Instances |-> 0]
    /\ callback = [n \in Instances |-> [m \in Messages |-> "none"]]
    /\ pass = [n \in Instances |-> Idle]
    /\ enableLock \in LockChoices /\ locked = FALSE
    /\ faults = 0
    /\ handled = {} /\ again = {} /\ expired = {} /\ missed = {} /\ happened = {}

-----------------------------------------------------------------------------
(* The world around: the publisher, the clock, the hosts.                  *)

Subscribed(n) == status[n] \in {"subscribed", "up"}

(* The transaction of RedisMessageQueue.PublishAsync: it pushes on the     *)
(* list of every application that is registered, and notifies.  Redis does *)
(* not repeat a notification that does not get through.  What is published *)
(* need not be readable as the type that is subscribed to.                 *)
Publish ==
    /\ registered
    /\ nextMessage <= MaxMessages
    /\ published' = PushLeft(nextMessage, published)
    /\ nextMessage' = nextMessage + 1
    /\ \E deaf \in SUBSET {n \in Instances : Subscribed(n)}, bad \in SUBSET {nextMessage} :
         /\ deaf # {} => "lost" \in Endings("notify")
         /\ bad # {} => "lost" \in Endings("read")
         /\ faults' = IF deaf \cup bad = {} THEN faults ELSE faults + 1
         /\ due' = [n \in Instances |->
                      IF Subscribed(n) /\ n \notin deaf THEN due[n] + 1 ELSE due[n]]
         /\ missed' = missed \cup deaf
         /\ unreadable' = unreadable \cup bad
    /\ UNCHANGED <<processing, deadLetters, waiting, registered, age, enableLock, status,
                   callback, pass, locked, outcome, happened>>

InProcess(m) == m \in ToSet(processing)
Held == UNION {ToSet(published), ToSet(processing), ToSet(deadLetters)}

(* Five minutes have passed since the TimeStamp, or TimeToLiveHours have;  *)
(* for the oldest messages first.                                          *)
Age(m) ==
    /\ m < nextMessage
    /\ \A earlier \in 1..(m - 1) : age[earlier] # age[m]
    /\ \/ age[m] = "fresh" /\ age' = [age EXCEPT ![m] = "stale"]
       \/ age[m] = "stale" /\ TimeToLive /\ age' = [age EXCEPT ![m] = "expired"]
    /\ Note(IF InProcess(m) THEN {"twice"} ELSE {})
    /\ UNCHANGED <<lists, registered, nextMessage, unreadable, enableLock, tasks, outcome, missed>>

(* The interval since LastRetryTime, which grows with RetryCount, is over. *)
Elapse(id) ==
    /\ id \in waiting
    /\ waiting' = waiting \ {id}
    /\ UNCHANGED <<published, processing, deadLetters, world, tasks, history>>

(* An instance dies, with all it was at: its host does, or an exception    *)
(* leaves VoidRedisCallback, or SubscribeAsync throws and the application  *)
(* does not start.  A lock it held expires later.                          *)
Crash(n) ==
    /\ faults < MaxFaults
    /\ status[n] # "down"
    /\ faults' = faults + 1
    /\ status' = [status EXCEPT ![n] = "down"]
    /\ due' = [due EXCEPT ![n] = 0]
    /\ callback' = [callback EXCEPT ![n] = [m \in Messages |-> "none"]]
    /\ pass' = [pass EXCEPT ![n] = Idle]
    /\ Note({"twice"})
    /\ UNCHANGED <<lists, world, locked, outcome, missed>>

AnyCallback == \E n \in Instances, m \in Messages : callback[n][m] # "none"

(* The lock of an instance that died expires.  That of a live holder does  *)
(* not: RedLock renews it, and is taken to succeed in that.                *)
ExpireLock ==
    /\ locked /\ ~AnyCallback
    /\ locked' = FALSE
    /\ UNCHANGED <<lists, world, status, due, callback, pass, faults, history>>

-----------------------------------------------------------------------------
(* SubscribeAsync                                                          *)

(* The application enters the set of subscribers.                          *)
SetAdd(n) ==
    /\ status[n] = "down"
    /\ registered' = TRUE
    /\ status' = [status EXCEPT ![n] = "added"]
    /\ UNCHANGED <<lists, nextMessage, unreadable, age, enableLock, due, callback, pass, locked,
                   faults, history>>

(* From here on a notification reaches the instance.                       *)
Subscribe(n) ==
    /\ status[n] = "added"
    /\ status' = [status EXCEPT ![n] = "subscribed"]
    /\ missed' = missed \ {n}
    /\ UNCHANGED <<lists, world, due, callback, pass, locked, faults, outcome, happened>>

(* Mutant: the loop starts from one.                                       *)
CountAwaitingLess(n) ==
    /\ status[n] = "subscribed"
    /\ status' = [status EXCEPT ![n] = "up"]
    /\ due' = IF published = <<>> THEN due ELSE [due EXCEPT ![n] = @ + Len(published) - 1]
    /\ UNCHANGED <<lists, world, callback, pass, locked, faults, history>>
(* awaitingEvents callbacks for what was published before; when the call   *)
(* throws, SubscribeAsync throws, and the subscription stands.             *)
CountAwaiting(n) ==
    /\ status[n] = "subscribed"
    /\ status' = [status EXCEPT ![n] = "up"]
    /\ \E e \in Endings("length") :
         /\ Count(e)
         /\ due' = IF Answered(e) THEN [due EXCEPT ![n] = @ + Len(published)] ELSE due
         /\ missed' = IF Answered(e) THEN missed ELSE missed \cup {n}
    /\ UNCHANGED <<lists, world, callback, pass, locked, outcome, happened>>

-----------------------------------------------------------------------------
(* ExecuteCallback, under the lock or not                                  *)

At(n, m, pc) == callback[n][m] = pc
GoTo(n, m, pc) == callback' = [callback EXCEPT ![n][m] = pc]

(* Mutant: a lock that was acquired keeps nobody out.                      *)
AcquireNothing == FALSE
(* CreateLockAsync for the event type, released when ExecuteCallback ends. *)
Acquire == enableLock

(* ListRightPopLeftPush.  A call that threw may be tried again; when no    *)
(* attempt is left the callback ends, and the message of an attempt that   *)
(* ran has been moved for nobody.  An unreadable message makes             *)
(* DeserializeObject throw, outside the try.                               *)
Pop(n) ==
    /\ Subscribed(n) /\ due[n] > 0 /\ ~locked
    /\ \E e \in Endings("pop"), retried \in BOOLEAN :
         /\ Count(e)
         /\ retried => ~Answered(e)
         /\ due' = IF retried THEN due ELSE [due EXCEPT ![n] = @ - 1]
         /\ missed' = IF Ran(e) \/ retried THEN missed ELSE missed \cup {n}
         /\ IF Ran(e) /\ published # <<>>
            THEN LET m == Rightmost(published) IN
                 /\ published' = PopRight(published)
                 /\ processing' = PushLeft(m, processing)
                 /\ Note(IF age[m] = "fresh" THEN {} ELSE {"twice"})
                 /\ IF Answered(e) /\ m \notin unreadable
                    THEN GoTo(n, m, "run") /\ locked' = Acquire
                    ELSE UNCHANGED <<callback, locked>>
            ELSE UNCHANGED <<published, processing, callback, locked, happened>>
    /\ UNCHANGED <<deadLetters, waiting, world, status, pass, outcome>>

(* DistributedLockException after WaitSeconds: this callback is over.      *)
GiveUp(n) ==
    /\ Subscribed(n) /\ due[n] > 0 /\ locked
    /\ due' = [due EXCEPT ![n] = @ - 1]
    /\ missed' = missed \cup {n}
    /\ UNCHANGED <<lists, world, status, callback, pass, locked, faults, outcome, happened>>

(* A callback of the application completes for m.                          *)
Complete(m) ==
    /\ handled' = handled \cup {m}
    /\ again' = IF m \in handled THEN again \cup {m} ELSE again

(* Mutant: the exception of the callback goes straight to the finally.     *)
InvokeUncaught(n, m) ==
    /\ At(n, m, "run")
    /\ Complete(m) \/ UNCHANGED <<handled, again>>
    /\ GoTo(n, m, "remove")
    /\ UNCHANGED <<lists, world, status, due, pass, locked, faults, expired, missed, happened>>
(* callBack.Invoke returns or throws.                                      *)
Invoke(n, m) ==
    /\ At(n, m, "run")
    /\ \/ Complete(m) /\ GoTo(n, m, "remove")
       \/ UNCHANGED <<handled, again>> /\ GoTo(n, m, "bury")
    /\ UNCHANGED <<lists, world, status, due, pass, locked, faults, expired, missed, happened>>

(* AddToDeadLetterQueue.  The finally block runs even if it throws.        *)
Bury(n, m) ==
    /\ At(n, m, "bury")
    /\ \E e \in Endings("bury") :
         /\ Count(e)
         /\ deadLetters' = IF Ran(e) THEN PushLeft(m, deadLetters) ELSE deadLetters
         /\ Note(NotRun(e, "bury"))
    /\ GoTo(n, m, "remove")
    /\ UNCHANGED <<published, processing, waiting, world, status, due, pass, locked, outcome,
                   missed>>

(* The message leaves the processing list, and the lock is released.       *)
Remove(n, m) ==
    /\ At(n, m, "remove")
    /\ \E e \in Endings("remove") :
         /\ Count(e)
         /\ processing' = IF Ran(e) THEN Without(processing, m) ELSE processing
         /\ Note(NotRun(e, "twice"))
    /\ GoTo(n, m, "none")
    /\ locked' = FALSE
    /\ UNCHANGED <<published, deadLetters, waiting, world, status, due, pass, outcome, missed>>

-----------------------------------------------------------------------------
(* RetryAsync, called again and again by the application                   *)

Doing(n, pc) == pass[n].pc = pc
End(n) == pass' = [pass EXCEPT ![n] = Idle]
OnTo(n, pc) == pass' = [pass EXCEPT ![n].pc = pc]

(* The next turn of the loop over the dead letters, or its end.            *)
NextLetter(n, more) ==
    IF pass[n].i + 1 < pass[n].length
    THEN pass' = [pass EXCEPT ![n].pc = "get", ![n].i = @ + 1, ![n].processed = @ + more,
                              ![n].message = 0]
    ELSE End(n)

(* Mutants: every message read is moved, or none.                          *)
StaleAny(m) == TRUE
StaleNever(m) == FALSE
Stale(m) == age[m] # "fresh"

(* MoveStaleProcessingEventsToDeadLetters takes the time and reads the end *)
(* of the list.  It has to do with those that are stale by then, and with  *)
(* those it cannot read.                                                   *)
OldestProcessing(n) ==
    /\ n \in Retriers /\ status[n] = "up" /\ Doing(n, "idle")
    /\ \E e \in Endings("oldest") :
         /\ Count(e)
         /\ Note(IF \E o \in Instances : ~Doing(o, "idle") THEN {"twice"} ELSE {})
         /\ IF Answered(e)
            THEN pass' = [pass EXCEPT ![n].pc = "move",
                            ![n].toMove = Keep(Oldest(processing, StaleCount),
                                               {m \in Messages : Stale(m)} \cup unreadable)]
            ELSE UNCHANGED pass
    /\ UNCHANGED <<lists, world, status, due, callback, locked, outcome, missed>>

(* One of them goes to the dead letters, in one transaction.  One that is  *)
(* not readable throws, and the pass is over.                              *)
MoveStale(n) ==
    /\ Doing(n, "move") /\ pass[n].toMove # <<>>
    /\ LET m == Head(pass[n].toMove) IN
       IF m \in unreadable THEN End(n) /\ UNCHANGED <<deadLetters, processing, faults>>
       ELSE \E e \in Endings("move") :
              /\ Count(e)
              /\ deadLetters' = IF Ran(e) THEN PushLeft(m, deadLetters) ELSE deadLetters
              /\ processing' = IF Ran(e) THEN Without(processing, m) ELSE processing
              /\ IF Answered(e) THEN pass' = [pass EXCEPT ![n].toMove = Tail(@)] ELSE End(n)
    /\ UNCHANGED <<published, waiting, world, status, due, callback, locked, history>>

(* GetDeadLetterListLength: as many turns as there are letters now.        *)
CountLetters(n) ==
    /\ Doing(n, "move") /\ pass[n].toMove = <<>>
    /\ \E e \in Endings("deadlength") :
         /\ Count(e)
         /\ IF Answered(e) /\ deadLetters # <<>>
            THEN pass' = [pass EXCEPT ![n].pc = "get", ![n].length = Len(deadLetters)]
            ELSE End(n)
    /\ UNCHANGED <<lists, world, status, due, callback, locked, history>>

(* Mutant: counts the letter at hand as processed already.                 *)
IndexToGetAhead(n) == pass[n].i - (pass[n].processed + 1)
IndexToGet(n) == pass[n].i - pass[n].processed

(* GetDeadLetterMessage by index; others may have changed the list.        *)
GetLetter(n) ==
    /\ Doing(n, "get")
    /\ \E e \in Endings("get") :
         /\ Count(e)
         /\ IF ~Answered(e) THEN End(n)
            ELSE IF IndexToGet(n) < Len(deadLetters)
            THEN pass' = [pass EXCEPT ![n].pc = "decide",
                                      ![n].message = deadLetters[IndexToGet(n) + 1]]
            ELSE NextLetter(n, 0)
    /\ UNCHANGED <<lists, world, status, due, callback, locked, history>>

(* ShouldRetry: not before the interval has passed, and not when the time  *)
(* to live is over.                                                        *)
ShouldRetry(n) ==
    /\ Doing(n, "decide")
    /\ LET m == pass[n].message IN
       \E e \in Endings("data") :
         /\ Count(e)
         /\ IF ~Answered(e) THEN OnTo(n, "update")
            ELSE IF Id[m] \in waiting THEN NextLetter(n, 0)
            ELSE OnTo(n, IF age[m] = "expired" THEN "expire" ELSE "retry")
    /\ UNCHANGED <<lists, world, status, due, callback, locked, history>>

(* DeleteFromDeadLetterQueue: every occurrence, and the retry data.        *)
Delete(m, e) ==
    /\ deadLetters' = IF Ran(e) THEN Without(deadLetters, m) ELSE deadLetters
    /\ waiting' = IF Ran(e) THEN waiting \ {Id[m]} ELSE waiting

(* The message is given up.  This is not counted in eventsProcessed.       *)
Expire(n) ==
    /\ Doing(n, "expire")
    /\ \E e \in Endings("delete") :
         /\ Count(e)
         /\ Delete(pass[n].message, e)
         /\ expired' = IF Ran(e) THEN expired \cup {pass[n].message} ELSE expired
         /\ IF Answered(e) THEN NextLetter(n, 0) ELSE OnTo(n, "update")
    /\ UNCHANGED <<published, processing, world, status, due, callback, locked, handled, again,
                   missed, happened>>

(* RetryCallBackAsync returns or throws.                                   *)
RetryCallBack(n) ==
    /\ Doing(n, "retry")
    /\ \/ Complete(pass[n].message) /\ OnTo(n, "delete")
       \/ UNCHANGED <<handled, again>> /\ OnTo(n, "update")
    /\ UNCHANGED <<lists, world, status, due, callback, locked, faults, expired, missed, happened>>

(* The retry is over, and counted in eventsProcessed.                      *)
DeleteLetter(n) ==
    /\ Doing(n, "delete")
    /\ \E e \in Endings("delete") :
         /\ Count(e)
         /\ Delete(pass[n].message, e)
         /\ Note(NotRun(e, "twice"))
         /\ IF Answered(e) THEN NextLetter(n, 1) ELSE OnTo(n, "update")
    /\ UNCHANGED <<published, processing, world, status, due, callback, locked, outcome, missed>>

(* UpdateRetryData in the handler of whatever threw; should it throw too,  *)
(* RetryAsync does.                                                        *)
UpdateRetryData(n) ==
    /\ Doing(n, "update")
    /\ \E e \in Endings("update") :
         /\ Count(e)
         /\ waiting' = IF Ran(e) THEN waiting \cup {Id[pass[n].message]} ELSE waiting
         /\ IF Answered(e) THEN NextLetter(n, 0) ELSE End(n)
    /\ UNCHANGED <<published, processing, deadLetters, world, status, due, callback, locked,
                   history>>

-----------------------------------------------------------------------------
Startup(n) == Subscribe(n) \/ CountAwaiting(n)

Execute(n) == \/ Pop(n) \/ GiveUp(n)
              \/ \E m \in Messages : Invoke(n, m) \/ Bury(n, m) \/ Remove(n, m)

Move(n) == OldestProcessing(n) \/ MoveStale(n)

Retry(n) == \/ CountLetters(n) \/ GetLetter(n) \/ ShouldRetry(n) \/ Expire(n)
            \/ RetryCallBack(n) \/ DeleteLetter(n) \/ UpdateRetryData(n)

AgeOne == \E m \in Messages : Age(m)
ElapseOne == \E m \in Messages : Elapse(Id[m])

Next == \/ Publish \/ AgeOne \/ ElapseOne \/ ExpireLock
        \/ \E n \in Instances :
             SetAdd(n) \/ Startup(n) \/ Execute(n) \/ Move(n) \/ Retry(n) \/ Crash(n)

Spec == Init /\ [][Next]_vars

(* Time passes; an instance that is down starts again and goes on with     *)
(* what it began; the application calls RetryAsync over and over.          *)
FairSpec ==
    /\ Spec
    /\ WF_vars(AgeOne) /\ WF_vars(ElapseOne) /\ WF_vars(ExpireLock)
    /\ \A n \in Instances :
         /\ WF_vars(SetAdd(n) \/ Startup(n))
         /\ WF_vars(Execute(n))
         /\ WF_vars(Move(n) \/ Retry(n))

-----------------------------------------------------------------------------
(* The variables keep their types; a pass never asks for a negative index, *)
(* which LINDEX would count from the other end.                            *)
TypeOK ==
    /\ {registered, locked} \subseteq BOOLEAN
    /\ {published, processing, deadLetters} \subseteq Seq(Messages)
    /\ waiting \subseteq {Id[m] : m \in Messages}
    /\ nextMessage \in 1..(MaxMessages + 1) /\ unreadable \subseteq Messages
    /\ age \in [Messages -> {"fresh", "stale", "expired"}]
    /\ status \in [Instances -> {"down", "added", "subscribed", "up"}]
    /\ due \in [Instances -> Nat]
    /\ callback \in [Instances -> [Messages -> {"none", "run", "bury", "remove"}]]
    /\ pass \in [Instances ->
         [pc : {"idle", "move", "get", "decide", "expire", "retry", "delete", "update"},
          toMove : Seq(Messages), length : Nat, i : Nat, processed : Nat,
          message : {0} \cup Messages]]
    /\ \A n \in Instances : Doing(n, "get") => IndexToGet(n) \in Nat
    /\ faults \in 0..MaxFaults
    /\ {handled, again, expired} \subseteq SUBSET Messages
    /\ missed \subseteq Instances /\ happened \subseteq Marks

Ended == handled \cup expired

(* A message that was published is in one of the lists until a callback    *)
(* has completed for it or its time to live is over, whoever dies and      *)
(* whatever call fails, but for the push on the dead letter list.          *)
NothingLost == Never({"bury"}) => 1..(nextMessage - 1) \subseteq Held \cup Ended

(* Nothing is handled twice as long as no instance dies, no removal of a   *)
(* handled message is lost, no message is or gets stale while it is being  *)
(* processed and the instances do not retry at the same time.              *)
HandledOnce == Never({"twice"}) => again = {}

(* The same without exception: the comment at the push in                  *)
(* RedisMessageQueue.GeneratePublishTransaction.                           *)
OnlyOnce == again = {}

(* An instance that has missed nothing has a callback to run for each      *)
(* message that waits, those from before it started included.              *)
NoneForgotten ==
    \A n \in Instances :
        status[n] = "up" /\ n \notin missed => Len(published) <= due[n]

(* With the distributed lock, while a callback works on a message none     *)
(* published before it waits or is worked on by another: the callbacks     *)
(* maintain message order over all instances, as far as RedLock excludes.  *)
(* Retries take no lock.                                                   *)
InOrderUnderLock ==
    enableLock =>
        \A n, o \in Instances, earlier, m \in Messages :
            earlier < m /\ ~At(n, m, "none") =>
                earlier \notin ToSet(published) /\ At(o, earlier, "none")

(* Everything ends: a message that was published is handled or expires,    *)
(* whichever instances die and callbacks throw, as long as the messages    *)
(* can be read and no lock keeps a callback from running.                  *)
Settles ==
    \A m \in Messages :
        m < nextMessage ~> m \in Ended \/ unreadable # {} \/ enableLock
=============================================================================
