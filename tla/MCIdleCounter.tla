---------------------------- MODULE MCIdleCounter ----------------------------
(* IdleCounter for TLC: one worker has two threads, the others none. *)
EXTENDS IdleCounter, TLC

CONSTANT Busy   \* the worker that gets requests

ThreadsOf == {<<Busy, 1>>, <<Busy, 2>>}
=============================================================================
