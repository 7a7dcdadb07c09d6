---------------------------- MODULE ObjectHistory ----------------------------
(***************************************************************************)
(* The history of a kind of Kubernetes object: a sequence of changes       *)
(* [type, uid].  A revision is a position in it.                           *)
(***************************************************************************)
EXTENDS Integers, Sequences

\* The revision at which object u was last changed, seen from revision r; 0
\* if it does not exist there.
StateAt(h, u, r) ==
  LET changes == {i \in 1 .. r : h[i].uid = u}
      last == CHOOSE i \in changes : \A j \in changes : j <= i
  IN  IF changes = {} THEN 0 ELSE IF h[last].type = "DELETED" THEN 0 ELSE last
=============================================================================
