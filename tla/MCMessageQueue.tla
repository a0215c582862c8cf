---------------------------- MODULE MCMessageQueue ----------------------------
(* Instances of MessageQueue for TLC.                                        *)
EXTENDS MessageQueue

(* Calls that read have no reply worth losing.                               *)
Writes == {"execute"}
=============================================================================
