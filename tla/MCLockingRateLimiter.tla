------------------------ MODULE MCLockingRateLimiter ------------------------
(* LockingRateLimiter for TLC: frames are interchangeable. *)
EXTENDS LockingRateLimiter, TLC

Symmetry == Permutations(Frames)
=============================================================================
