-------------------------- MODULE MCCacheRepository --------------------------
(* Instances of CacheRepository for TLC.                                    *)
EXTENDS CacheRepository, TLC

(* Sessions differ in nothing but their names.                              *)
SessionSymmetry == Permutations(Sessions)

(* Calls that read, or put off an expiry, have no reply worth losing.       *)
Writes == {"insert", "set", "delete"}
=============================================================================
