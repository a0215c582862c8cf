------------------------------ MODULE Broadcast ------------------------------
(***************************************************************************)
(* What IMessageQueue promises of one event type: a message is put, once   *)
(* and in one step, on the queue of every application that has subscribed, *)
(* so that all of them find the messages in the same order; an application *)
(* that subscribes later does not get it.                                  *)
(***************************************************************************)
EXTENDS Naturals, Sequences

CONSTANTS Applications, Messages

VARIABLES
    members,  \* applications that have subscribed
    inbox,    \* the queue of each application, its newest message first
    sent      \* messages that have been published

Init ==
    /\ members = {}
    /\ inbox = [a \in Applications |-> <<>>]
    /\ sent = {}

Join(a) ==
    /\ members' = members \cup {a}
    /\ UNCHANGED <<inbox, sent>>

Send(m) ==
    /\ m \notin sent
    /\ sent' = sent \cup {m}
    /\ inbox' = [a \in Applications |->
                   IF a \in members THEN <<m>> \o inbox[a] ELSE inbox[a]]
    /\ UNCHANGED members

(* The application takes its oldest message.                               *)
Receive(a) ==
    /\ inbox[a] # <<>>
    /\ inbox' = [inbox EXCEPT ![a] = SubSeq(@, 1, Len(@) - 1)]
    /\ UNCHANGED <<members, sent>>

Next ==
    \/ \E a \in Applications : Join(a) \/ Receive(a)
    \/ \E m \in Messages : Send(m)

Spec == Init /\ [][Next]_<<members, inbox, sent>>
=============================================================================
