---------------------------- MODULE MCQueueWorker ----------------------------
(* QueueWorker for TLC: the constants are given in the configuration. *)
EXTENDS QueueWorker, TLC
=============================================================================
