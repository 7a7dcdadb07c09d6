---------------------------- MODULE ObjectMirror ----------------------------
(***************************************************************************)
(* What a consumer of utils/kubernetes/watch.py may rely on, apart from    *)
(* how the watcher brings it about: there is a history of the objects on    *)
(* the server, and a view that follows it, each object on its own.  The     *)
(* view of an object is what that object was at some revision, and only    *)
(* ever moves on to a later one.                                           *)
(***************************************************************************)
EXTENDS ObjectHistory

CONSTANTS Uids

VARIABLES
  history,  \* the server's changes, [type, uid], in order
  view,     \* uid -> the revision of the object as the consumer has it, or 0
  upTo      \* uid -> the revision of the history that this is true at

vars == <<history, view, upTo>>

Init ==
  /\ view = [u \in Uids |-> 0]
  /\ upTo = [u \in Uids |-> 0]

\* The server changes, and nothing that was is forgotten.
Change ==
  /\ Len(history') = Len(history) + 1
  /\ \A i \in 1 .. Len(history) : history'[i] = history[i]
  /\ UNCHANGED <<view, upTo>>

\* Some objects' views move on, at most one of them to something else.
Follow ==
  /\ history' = history
  /\ upTo' \in [Uids -> 0 .. Len(history)]
  /\ \A u \in Uids : upTo[u] <= upTo'[u]
  /\ view' = [u \in Uids |-> StateAt(history, u, upTo'[u])]
  /\ \A u, v \in Uids : view'[u] # view[u] /\ view'[v] # view[v] => u = v

Spec == Init /\ [][Change \/ Follow]_vars
=============================================================================
