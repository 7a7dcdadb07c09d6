------------------------ MODULE MCMigratePredeploy ------------------------
(* MigratePredeploy for TLC: an app with two models and one with one. *)
EXTENDS MigratePredeploy

AppTables == {<<1, 1>>, <<1, 2>>, <<2, 1>>}
=============================================================================
