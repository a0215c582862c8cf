--------------------------- MODULE MCReliableQueue ---------------------------
(* Instances of ReliableQueue for TLC.                                      *)
EXTENDS ReliableQueue, TLC

(* The instances of an application differ in nothing but their names.       *)
InstanceSymmetry == Permutations(Instances)

(* Which calls may fail: those after which the code does something else     *)
(* than end its pass of retries, and those that write, for which a lost     *)
(* reply is not a lost request; or none.                                    *)
Consequential == Calls \ {"oldest", "deadlength", "get"}
Writes == {"pop", "bury", "remove", "move", "delete", "update"}
None == {}

(* All messages are events of one aggregate.                                *)
OneAggregate == [m \in Messages |-> "aggregate"]
=============================================================================
