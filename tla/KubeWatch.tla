------------------------------ MODULE KubeWatch ------------------------------
(***************************************************************************)
(* KubeWatcher of utils/kubernetes/watch.py: a generator of events that    *)
(* lists a kind of object, then watches it, and lists it again when the    *)
(* server no longer has the changes since the version it had reached.      *)
(*                                                                         *)
(* The server is external: a history of changes, of which it forgets a     *)
(* prefix now and then.  A revision is a position in it, and stands for    *)
(* the object that changed there as it then was.  A uid is created once.   *)
(*                                                                         *)
(* The generator runs between two calls of next(): every step that yields  *)
(* is one step together with what its consumer makes of the event, which   *)
(* is the view the consumer has.                                           *)
(***************************************************************************)
EXTENDS ObjectHistory

CONSTANTS
  Uids,    \* objects that may come to be; 0 is none
  MaxRev,  \* the server changes no more after so many revisions
  Faults   \* TRUE: requests may fail, and the server may send an ERROR

ASSUME ConstantAssumption == 0 \notin Uids /\ MaxRev \in Nat \ {0} /\ Faults \in BOOLEAN

VARIABLES
  history,    \* the server's changes
  compacted,  \* changes up to here can no longer be watched
  phase,      \* where the generator is
  rv,         \* resource_version, 0 for None
  db,         \* uid -> revision of the object in self.db, 0 if not there
  listed,     \* the resource_version of obj_list
  todo,       \* the objects of obj_list the loop has still to come to
  view,       \* what the consumer makes of the events
  event,      \* the last event yielded
  leftEarly   \* the initial events were left, and no restart has been through (history)

vars == <<history, compacted, phase, rv, db, listed, todo, view, event, leftEarly>>
server == <<history, compacted>>

\* The object as it is on the server at a revision.
AtRev(u, r) == StateAt(history, u, r)

NoEvent == [type |-> "none", uid |-> 0, rev |-> 0]

Init ==
  /\ \E u \in Uids : history = <<[type |-> "ADDED", uid |-> u]>>
  /\ compacted = 0
  /\ phase = "list"
  /\ rv = 0
  /\ db = [u \in Uids |-> 0]
  /\ listed = 0
  /\ todo = {}
  /\ view = [u \in Uids |-> 0]
  /\ event = NoEvent
  /\ leftEarly = FALSE

-----------------------------------------------------------------------------
(* The server. *)

Change(u) ==
  /\ Len(history) < MaxRev
  /\ \E type \in {"ADDED", "MODIFIED", "DELETED"} :
       /\ (type = "ADDED") <=> \A i \in DOMAIN history : history[i].uid # u
       /\ type # "ADDED" => AtRev(u, Len(history)) # 0
       /\ history' = Append(history, [type |-> type, uid |-> u])
  /\ UNCHANGED <<compacted, phase, rv, db, listed, todo, view, event, leftEarly>>

Compact ==
  /\ compacted' \in compacted + 1 .. Len(history)
  /\ UNCHANGED <<history, phase, rv, db, listed, todo, view, event, leftEarly>>

-----------------------------------------------------------------------------
(* The generator. *)

\* yield type, obj: the consumer gets the event and follows it.
Yield(type, u, rev) ==
  /\ event' = [type |-> type, uid |-> u, rev |-> rev]
  /\ view' = [view EXCEPT ![u] = IF type = "DELETED" THEN 0 ELSE rev]

\* _depaginate: the objects of a list, which is asked for without a limit and
\* has no pages.
Depaginated(r) == {u \in Uids : AtRev(u, r) # 0}

\* Faulty variant: the list may come from a cache (resource_version=0).
ListFromCache ==
  /\ phase = "list"
  /\ listed' \in 1 .. Len(history)
  /\ todo' = Depaginated(listed')
  /\ phase' = IF rv = 0 THEN "initial" ELSE "restart"
  /\ UNCHANGED <<server, rv, db, view, event, leftEarly>>

\* obj_list = self.list_func(): the server answers with what is there now.
List ==
  /\ phase = "list"
  /\ listed' = Len(history)
  /\ todo' = Depaginated(listed')
  /\ phase' = IF rv = 0 THEN "initial" ELSE "restart"
  /\ UNCHANGED <<server, rv, db, view, event, leftEarly>>

\* handle_initial: one object of the list.
InitialItem(u) ==
  /\ phase = "initial"
  /\ u \in todo
  /\ todo' = todo \ {u}
  /\ db' = [db EXCEPT ![u] = AtRev(u, listed)]
  /\ Yield("ADDED", u, AtRev(u, listed))
  /\ UNCHANGED <<server, phase, rv, listed, leftEarly>>

\* yield DONE_INITIAL
DoneInitial ==
  /\ phase = "initial"
  /\ todo = {}
  /\ event' = [type |-> "DONE_INITIAL", uid |-> 0, rev |-> 0]
  /\ phase' = "announced"
  /\ UNCHANGED <<server, rv, db, listed, todo, view, leftEarly>>

\* It is resumed: self.resource_version = obj_list.metadata.resource_version
InitialDone ==
  /\ phase = "announced"
  /\ rv' = listed
  /\ phase' = "connect"
  /\ UNCHANGED <<server, db, listed, todo, view, event, leftEarly>>

\* Faulty variant: an object that was there is taken to be the same.
RestartItemByUid(u) ==
  /\ phase = "restart"
  /\ u \in todo
  /\ todo' = todo \ {u}
  /\ db' = [db EXCEPT ![u] = AtRev(u, listed)]
  /\ IF db[u] = 0 THEN Yield("ADDED", u, db'[u]) ELSE UNCHANGED <<view, event>>
  /\ UNCHANGED <<server, phase, rv, listed, leftEarly>>

\* Faulty variant: every object of the new list is announced as new.
RestartItemAdded(u) ==
  /\ phase = "restart"
  /\ u \in todo
  /\ todo' = todo \ {u}
  /\ db' = [db EXCEPT ![u] = AtRev(u, listed)]
  /\ Yield("ADDED", u, db'[u])
  /\ UNCHANGED <<server, phase, rv, listed, leftEarly>>

\* handle_restart, the first loop: one object of the list, against what was
\* known of it.
RestartItem(u) ==
  /\ phase = "restart"
  /\ u \in todo
  /\ todo' = todo \ {u}
  /\ db' = [db EXCEPT ![u] = AtRev(u, listed)]
  /\ IF db[u] = 0 THEN Yield("ADDED", u, db'[u])
     ELSE IF db[u] # db'[u] THEN Yield("MODIFIED", u, db'[u])
     ELSE UNCHANGED <<view, event>>
  /\ UNCHANGED <<server, phase, rv, listed, leftEarly>>

\* alive_uids, once the first loop is over.
Alive(u) == AtRev(u, listed) # 0

\* The second loop comes to an object that is gone.  It deletes it from the
\* dictionary it iterates over, yields, and when it is resumed the iteration
\* raises RuntimeError: nothing catches it, and the generator is over.
RestartDelete(u) ==
  /\ phase = "restart"
  /\ todo = {}
  /\ db[u] # 0 /\ ~Alive(u)
  /\ db' = [db EXCEPT ![u] = 0]
  /\ Yield("DELETED", u, db[u])
  /\ phase' = "broken"
  /\ UNCHANGED <<server, rv, listed, todo, leftEarly>>

\* Faulty variant: the second loop is left out.
RestartDoneEarly ==
  /\ phase = "restart"
  /\ todo = {}
  /\ rv' = listed
  /\ phase' = "connect"
  /\ leftEarly' = FALSE
  /\ UNCHANGED <<server, db, listed, todo, view, event>>

\* There is none; self.resource_version = obj_list.metadata.resource_version
RestartDone ==
  /\ phase = "restart"
  /\ todo = {}
  /\ \A u \in Uids : db[u] # 0 => Alive(u)
  /\ rv' = listed
  /\ phase' = "connect"
  /\ leftEarly' = FALSE
  /\ UNCHANGED <<server, db, listed, todo, view, event>>

\* Watch().stream(..., resource_version=self.resource_version)
Connect ==
  /\ phase = "connect"
  /\ rv >= compacted
  /\ phase' = "watch"
  /\ UNCHANGED <<server, rv, db, listed, todo, view, event, leftEarly>>

\* The version is too old: ValueError, hence RestartWatchException.
TooOld ==
  /\ phase = "connect"
  /\ rv < compacted
  /\ phase' = "list"
  /\ UNCHANGED <<server, rv, db, listed, todo, view, event, leftEarly>>

\* Faulty variant: resource_version is not moved on.
ReceiveAgain ==
  /\ phase = "watch"
  /\ rv < Len(history)
  /\ LET change == history[rv + 1] IN
       /\ db' = [db EXCEPT ![change.uid] = IF change.type = "DELETED" THEN 0 ELSE rv + 1]
       /\ Yield(change.type, change.uid, rv + 1)
  /\ UNCHANGED <<server, phase, rv, listed, todo, leftEarly>>

\* The stream has the next change: handle_event, and on to its version.
Receive ==
  /\ phase = "watch"
  /\ rv < Len(history)
  /\ LET change == history[rv + 1] IN
       /\ db' = [db EXCEPT ![change.uid] = IF change.type = "DELETED" THEN 0 ELSE rv + 1]
       /\ Yield(change.type, change.uid, rv + 1)
  /\ rv' = rv + 1
  /\ UNCHANGED <<server, phase, listed, todo, leftEarly>>

\* StopIteration or ReadTimeoutError: _safe_stream is called again.
StreamCloses ==
  /\ phase = "watch"
  /\ phase' = "connect"
  /\ UNCHANGED <<server, rv, db, listed, todo, view, event, leftEarly>>

\* Any other exception from a request, or an ERROR or unknown event.
Fails ==
  /\ Faults
  /\ phase \in {"list", "connect", "watch"}
  /\ phase' = "failed"
  /\ UNCHANGED <<server, rv, db, listed, todo, view, event, leftEarly>>

\* The consumer gets an exception, and iterates over the same watcher again.
IterateAgain ==
  /\ phase \in {"broken", "failed"}
  /\ phase' = "list"
  /\ UNCHANGED <<server, rv, db, listed, todo, view, event, leftEarly>>

\* It had broken out of its loop at an event.  Among the initial events, with
\* no resource_version, it is to begin from nothing, but db is not.
BreakOut ==
  /\ Faults
  /\ event # NoEvent
  /\ phase \in {"initial", "announced", "restart", "watch"}
  /\ phase' = "list"
  /\ leftEarly' = (leftEarly \/ rv = 0)
  /\ UNCHANGED <<server, rv, db, listed, todo, view, event>>

Generator ==
  \/ List \/ DoneInitial \/ InitialDone \/ RestartDone \/ Connect \/ TooOld \/ Receive
  \/ \E u \in Uids : InitialItem(u) \/ RestartItem(u) \/ RestartDelete(u)

Next ==
  \/ \E u \in Uids : Change(u)
  \/ Compact
  \/ Generator
  \/ StreamCloses \/ Fails \/ IterateAgain \/ BreakOut

Spec == Init /\ [][Next]_vars

\* The consumer keeps calling next(), and iterates again when it gets an
\* exception.  A stream stays open for minutes, so that what is there to be
\* received is, though any one stream may close first.
FairSpec ==
  /\ Spec
  /\ WF_vars(Generator)
  /\ WF_vars(IterateAgain)
  /\ SF_vars(Receive)

-----------------------------------------------------------------------------

\* The types of the variables.
TypeOK ==
  /\ history \in Seq([type : {"ADDED", "MODIFIED", "DELETED"}, uid : Uids])
  /\ compacted \in Nat /\ rv \in Nat /\ listed \in Nat
  /\ phase \in {"list", "initial", "announced", "restart", "connect", "watch", "broken", "failed"}
  /\ db \in [Uids -> Nat]
  /\ todo \in SUBSET Uids
  /\ view \in [Uids -> Nat]

\* Whenever it is about to watch or watching, the database is the server's
\* at resource_version: nothing was missed or kept across a restart.  If the
\* consumer once left the loop among the initial events, there may be more in
\* it: what was gone when it came back, until the next restart.
DbIsSnapshot ==
  phase \in {"connect", "watch"} =>
    \A u \in Uids : db[u] = AtRev(u, rv) \/ (leftEarly /\ AtRev(u, rv) = 0)

\* Following the events gives the same as reading the database.
ViewIsDb == view = db

\* The events of an object make sense to one who has followed it: it is
\* added when it was not there, and else modified or deleted.  Only initial
\* events that come a second time add what is there.
EventsMakeSense ==
  [][event' # event /\ event'.uid \in Uids =>
       \/ event'.type = "ADDED" <=> view[event'.uid] = 0
       \/ leftEarly /\ rv = 0]_vars

\* The latest version of the server that the generator has heard of.
Seen == IF listed > rv THEN listed ELSE rv

MaxOf(S) == IF S = {} THEN 0 ELSE CHOOSE m \in S : \A r \in S : r <= m

\* An object's view only moves on along its history: never back to an older
\* state, and never from deleted to there again.
UpTo ==
  [u \in Uids |-> MaxOf({r \in 0 .. Seen : view[u] = AtRev(u, r)})]

Mirror == INSTANCE ObjectMirror WITH upTo <- UpTo

FollowsHistory == Mirror!Spec

\* When the server stops changing and requests stop failing, the consumer gets
\* to see the last state, if it does not keep breaking out and did not among
\* the initial events.
CatchesUp ==
  <>[](Len(history) = MaxRev) /\ <>[][~Fails /\ ~BreakOut]_vars /\ <>[]~leftEarly =>
    <>[](\A u \in Uids : view[u] = AtRev(u, Len(history)))

-----------------------------------------------------------------------------
(* The invariant the proofs use. *)

\* An object is added once, and changed or deleted only while it is there.
HistoryInv ==
  /\ Len(history) > 0 /\ rv <= Len(history) /\ listed <= Len(history)
  /\ \A i \in 1 .. Len(history) :
       /\ history[i].type = "ADDED" => \A j \in 1 .. i - 1 : history[j].uid # history[i].uid
       /\ history[i].type # "ADDED" => AtRev(history[i].uid, i - 1) # 0

\* Which of the list and the stream is ahead.
VersionsInv ==
  /\ phase \in {"initial", "announced"} => rv = 0 /\ listed > 0
  /\ phase \in {"restart", "broken"} => rv > 0 /\ listed >= rv
  /\ phase \in {"connect", "watch"} => rv > 0 /\ listed <= rv

\* What has come of the list is in the database.
ListInv ==
  /\ phase = "announced" => todo = {}
  /\ phase \in {"initial", "announced", "restart"} =>
       \A u \in Uids : AtRev(u, listed) # 0 => u \in todo \/ db[u] = AtRev(u, listed)

\* Before the first list is through there is nothing else in it.
FreshInv ==
  rv = 0 /\ ~leftEarly => \A u \in Uids : db[u] # 0 =>
    phase \in {"initial", "announced"} /\ u \notin todo /\ AtRev(u, listed) # 0

\* What is in the database was on the server.
KnownInv ==
  \A u \in Uids : db[u] # 0 =>
    db[u] <= Seen /\ history[db[u]].uid = u /\ history[db[u]].type # "DELETED"

IInv ==
  /\ TypeOK /\ HistoryInv /\ VersionsInv /\ ListInv /\ FreshInv /\ KnownInv
  /\ DbIsSnapshot /\ ViewIsDb
=============================================================================
