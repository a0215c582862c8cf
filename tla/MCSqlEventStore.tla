--------------------------- MODULE MCSqlEventStore ---------------------------
(* An instance of SqlEventStore for TLC.                                    *)
EXTENDS SqlEventStore

(* Every call may fail in either way.                                       *)
AllCalls == Calls
=============================================================================
