------------------------- MODULE MCSnapshotRepository -------------------------
(* Instances of SnapshotRepository for TLC.                                  *)
EXTENDS SnapshotRepository, TLC

(* Sessions differ in nothing but their names.                               *)
SessionSymmetry == Permutations(Sessions)

(* Calls that read have no reply worth losing; or no call fails.             *)
Writes == {"insert", "store"}
None == {}
=============================================================================
