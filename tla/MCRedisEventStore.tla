-------------------------- MODULE MCRedisEventStore --------------------------
(* Instances of RedisEventStore for TLC.                                    *)
EXTENDS RedisEventStore, TLC

(* Sessions differ in nothing but their names.                              *)
WriterSymmetry == Permutations(Writers)

(* Every call may fail in either way, ...                                   *)
AllCalls == Calls
(* ... or none does.                                                        *)
None == {}
=============================================================================
