----------------------------- MODULE EventStream -----------------------------
(***************************************************************************)
(* What IEventStore promises of one aggregate's events, however they are   *)
(* stored: they form a log that only grows, one event at a time, each with *)
(* the version that follows the last one's, and a commit is reported as    *)
(* saved only when its events are in the log.  A session that committed    *)
(* from a version that is no longer the last has nothing it may append:    *)
(* this is optimistic concurrency.                                         *)
(***************************************************************************)
EXTENDS Naturals, Sequences

CONSTANT Ids   \* identities of the events

VARIABLES
    log,     \* the events of the aggregate, as [id, version]
    acked    \* ids of the events of commits reported as saved

Logged == {log[i].id : i \in DOMAIN log}

Init == log = <<>> /\ acked = {}

(* An event enters the log at its end, with the next version.              *)
Store(id) ==
    /\ id \notin Logged
    /\ log' = Append(log, [id |-> id, version |-> Len(log) + 1])
    /\ UNCHANGED acked

(* CommitAsync succeeds for changes that are all in the log.               *)
Acknowledge(ids) ==
    /\ ids \subseteq Logged
    /\ acked' = acked \cup ids
    /\ UNCHANGED log

Next == (\E id \in Ids : Store(id)) \/ (\E ids \in SUBSET Ids : Acknowledge(ids))

Spec == Init /\ [][Next]_<<log, acked>>
=============================================================================
