--------------------------- MODULE MCTaskDispatch ---------------------------
(* TaskDispatch with its traces for TLC: the constants are given in the    *)
(* configurations.                                                         *)
EXTENDS TracedTasks, TLC
=============================================================================
