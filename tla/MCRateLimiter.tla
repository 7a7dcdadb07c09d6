---------------------------- MODULE MCRateLimiter ----------------------------
(* RateLimiter for TLC: the calls are interchangeable. *)
EXTENDS RateLimiter, TLC

Symmetry == Permutations(Calls)
=============================================================================
