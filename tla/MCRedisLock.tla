---------------------------- MODULE MCRedisLock ----------------------------
(* RedisLock for TLC: the long sessions are interchangeable. *)
EXTENDS RedisLock, TLC

Symmetry == Permutations(LongSessions)
=============================================================================
