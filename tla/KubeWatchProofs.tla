--------------------------- MODULE KubeWatchProofs ---------------------------
(***************************************************************************)
(* What is proved of KubeWatch, for every set of objects and every number  *)
(* of changes: the database is a snapshot, the events make sense and tell  *)
(* the same as the database, and the watcher implements ObjectMirror.      *)
(***************************************************************************)
EXTENDS KubeWatch, WellFoundedInduction, TLAPS

-----------------------------------------------------------------------------
(* Sets of revisions. *)

\* A set of natural numbers that is not empty has a least one.
LEMMA NatMin ==
  ASSUME NEW T \in SUBSET Nat, T # {}
  PROVE  \E x \in T : \A y \in T : x <= y
  <1> DEFINE R == OpToRel(<, Nat)
  <1>1. IsWellFoundedOn(R, Nat)
    BY NatLessThanWellFounded
  <1>2. PICK x \in T : \A y \in T : <<y, x>> \notin R
    <2> HIDE DEF R
    <2> QED
      BY <1>1, WFMin
  <1>3. \A y \in T : ~(y < x)
    BY <1>2 DEF OpToRel
  <1> QED
    BY <1>3

\* A set of revisions that is not empty has a last one, MaxOf.
LEMMA RevMax ==
  ASSUME NEW n \in Nat, NEW S, S \subseteq 0 .. n, S # {}
  PROVE  \E m \in S : \A r \in S : r <= m
  <1> DEFINE T == {n - r : r \in S}
  <1>1. PICK x \in T : \A y \in T : x <= y
    <2>1. \A r \in S : r \in 0 .. n
      OBVIOUS
    <2>2. T \subseteq Nat
      BY <2>1
    <2>3. T # {}
      OBVIOUS
    <2> HIDE DEF T
    <2> QED
      BY <2>2, <2>3, NatMin
  <1>2. PICK m \in S : x = n - m
    BY <1>1
  <1>3. \A r \in S : x <= n - r /\ r \in 0 .. n
    BY <1>1
  <1> HIDE DEF T
  <1>4. \A r \in S : r <= m
    <2> TAKE r \in S
    <2>1. n - m <= n - r /\ r \in 0 .. n /\ m \in 0 .. n
      BY <1>2, <1>3
    <2> QED
      BY <2>1
  <1> QED
    BY <1>4

\* And MaxOf is what it is by being in the set and not before any in it.
LEMMA MaxOfMax ==
  ASSUME NEW n \in Nat, NEW S, S \subseteq 0 .. n, S # {}
  PROVE  MaxOf(S) \in S /\ \A r \in S : r <= MaxOf(S)
  BY RevMax DEF MaxOf

-----------------------------------------------------------------------------
(* The state of an object at a revision. *)

\* An object without a change up to revision n is not there at n.
LEMMA StateAtNone ==
  ASSUME NEW h, NEW u, NEW r \in Nat, \A i \in 1 .. r : h[i].uid # u
  PROVE  StateAt(h, u, r) = 0
  BY DEF StateAt

\* It is what the last change has made of it.
LEMMA StateAtLast ==
  ASSUME NEW h, NEW u, NEW r \in Nat, NEW m \in 1 .. r,
         h[m].uid = u, \A i \in 1 .. r : h[i].uid = u => i <= m
  PROVE  StateAt(h, u, r) = IF h[m].type = "DELETED" THEN 0 ELSE m
  <1> DEFINE changes == {i \in 1 .. r : h[i].uid = u}
             last == CHOOSE i \in changes : \A j \in changes : j <= i
  <1>1. m \in changes /\ \A j \in changes : j <= m
    OBVIOUS
  <1>2. last \in changes /\ \A j \in changes : j <= last
    <2> HIDE DEF changes
    <2> QED
      BY <1>1
  <1>3. last = m
    <2>1. last \in 1 .. r /\ last <= m /\ m <= last
      BY <1>1, <1>2
    <2> HIDE DEF last
    <2> QED
      BY <2>1
  <1>4. changes # {}
    BY <1>1
  <1>5. StateAt(h, u, r) = IF changes = {} THEN 0 ELSE IF h[last].type = "DELETED" THEN 0 ELSE last
    BY DEF StateAt
  <1> HIDE DEF changes, last
  <1> QED
    BY <1>3, <1>4, <1>5

\* With one, it is as its last change left it.
LEMMA LastChange ==
  ASSUME NEW h, NEW u, NEW r \in Nat, \E i \in 1 .. r : h[i].uid = u
  PROVE  \E m \in 1 .. r : h[m].uid = u /\ \A i \in 1 .. r : h[i].uid = u => i <= m
  <1> DEFINE S == {i \in 1 .. r : h[i].uid = u}
  <1>1. S \subseteq 0 .. r /\ S # {}
    OBVIOUS
  <1>2. \E m \in S : \A i \in S : i <= m
    <2> HIDE DEF S
    <2> QED
      BY <1>1, RevMax
  <1> QED
    BY <1>2

\* It is 0 or the revision of a change of that object.
LEMMA StateAtRange ==
  ASSUME NEW h, NEW u, NEW r \in Nat
  PROVE  /\ StateAt(h, u, r) \in 0 .. r
         /\ StateAt(h, u, r) # 0 =>
              h[StateAt(h, u, r)].uid = u /\ h[StateAt(h, u, r)].type # "DELETED"
  <1>1. CASE \A i \in 1 .. r : h[i].uid # u
    BY <1>1, StateAtNone
  <1>2. CASE \E i \in 1 .. r : h[i].uid = u
    <2>1. PICK m \in 1 .. r : h[m].uid = u /\ \A i \in 1 .. r : h[i].uid = u => i <= m
      BY <1>2, LastChange
    <2>2. StateAt(h, u, r) = IF h[m].type = "DELETED" THEN 0 ELSE m
      BY <2>1, StateAtLast
    <2> QED
      BY <2>1, <2>2
  <1> QED
    BY <1>1, <1>2

\* A revision that changes u leaves it as it says ...
LEMMA StateAtChange ==
  ASSUME NEW h, NEW u, NEW r \in Nat \ {0}, h[r].uid = u
  PROVE  StateAt(h, u, r) = IF h[r].type = "DELETED" THEN 0 ELSE r
  BY StateAtLast

\* ... and leaves all others as they were.
LEMMA StateAtOther ==
  ASSUME NEW h, NEW u, NEW r \in Nat, NEW s, s = r + 1, h[s].uid # u
  PROVE  StateAt(h, u, s) = StateAt(h, u, r)
  <1>1. CASE \A i \in 1 .. r : h[i].uid # u
    <2>1. \A i \in 1 .. s : h[i].uid # u
      BY <1>1
    <2> QED
      BY <1>1, <2>1, StateAtNone
  <1>2. CASE \E i \in 1 .. r : h[i].uid = u
    <2>1. PICK m \in 1 .. r : h[m].uid = u /\ \A i \in 1 .. r : h[i].uid = u => i <= m
      BY ONLY <1>2, r \in Nat, LastChange
    <2>2. StateAt(h, u, r) = IF h[m].type = "DELETED" THEN 0 ELSE m
      BY <2>1, StateAtLast
    <2>3. m \in 1 .. s /\ \A i \in 1 .. s : h[i].uid = u => i <= m
      BY <2>1
    <2>4. StateAt(h, u, s) = IF h[m].type = "DELETED" THEN 0 ELSE m
      BY <2>1, <2>3, StateAtLast
    <2> QED
      BY <2>2, <2>4
  <1> QED
    BY <1>1, <1>2

\* What comes later changes nothing in it.
LEMMA StateAtPrefix ==
  ASSUME NEW g, NEW h, NEW u, NEW r \in Nat, \A i \in 1 .. r : g[i] = h[i]
  PROVE  StateAt(g, u, r) = StateAt(h, u, r)
  <1>1. CASE \A i \in 1 .. r : h[i].uid # u
    BY <1>1, StateAtNone
  <1>2. CASE \E i \in 1 .. r : h[i].uid = u
    <2>1. PICK m \in 1 .. r : h[m].uid = u /\ \A i \in 1 .. r : h[i].uid = u => i <= m
      BY <1>2, LastChange
    <2>2. StateAt(h, u, r) = IF h[m].type = "DELETED" THEN 0 ELSE m
      BY <2>1, StateAtLast
    <2>3. StateAt(g, u, r) = IF g[m].type = "DELETED" THEN 0 ELSE m
      BY <2>1, StateAtLast
    <2> QED
      BY <2>2, <2>3
  <1> QED
    BY <1>1, <1>2

-----------------------------------------------------------------------------
(* The invariant. *)

\* A new watcher.
LEMMA InitInv == Init => IInv
  <1> SUFFICES ASSUME Init
               PROVE  IInv
    OBVIOUS
  <1>1. PICK w \in Uids : history = <<[type |-> "ADDED", uid |-> w]>>
    BY DEF Init
  <1>2. /\ Len(history) = 1
        /\ history[1] = [type |-> "ADDED", uid |-> w]
        /\ history \in Seq([type : {"ADDED", "MODIFIED", "DELETED"}, uid : Uids])
    BY <1>1
  <1> QED
    BY <1>2 DEF Init, IInv, TypeOK, HistoryInv, VersionsInv, ListInv, FreshInv, KnownInv,
                DbIsSnapshot, ViewIsDb

\* What the server has had for a revision stays so.
LEMMA ChangeKeeps ==
  ASSUME IInv, NEW u \in Uids, Change(u)
  PROVE  /\ Len(history') = Len(history) + 1
         /\ \A i \in 1 .. Len(history) : history'[i] = history[i]
         /\ history' \in Seq([type : {"ADDED", "MODIFIED", "DELETED"}, uid : Uids])
         /\ \A v \in Uids : \A r \in 0 .. Len(history) :
              StateAt(history', v, r) = StateAt(history, v, r)
  <1>1. PICK type \in {"ADDED", "MODIFIED", "DELETED"} :
          history' = Append(history, [type |-> type, uid |-> u])
    BY DEF Change
  <1>2. /\ Len(history') = Len(history) + 1
        /\ \A i \in 1 .. Len(history) : history'[i] = history[i]
        /\ history' \in Seq([type : {"ADDED", "MODIFIED", "DELETED"}, uid : Uids])
    BY <1>1 DEF IInv, TypeOK
  <1>3. ASSUME NEW v \in Uids, NEW r \in 0 .. Len(history)
        PROVE  StateAt(history', v, r) = StateAt(history, v, r)
    <2>1. r \in Nat /\ \A i \in 1 .. r : history'[i] = history[i]
      BY <1>2 DEF IInv, TypeOK
    <2> QED
      BY <2>1, StateAtPrefix
  <1> QED
    BY <1>2, <1>3

\* A change makes a longer history of the same kind.
LEMMA ChangeType ==
  ASSUME TypeOK, NEW i \in 1 .. Len(history)
  PROVE  history[i].uid \in Uids /\ history[i].type \in {"ADDED", "MODIFIED", "DELETED"}
  <1> DEFINE changes == [type : {"ADDED", "MODIFIED", "DELETED"}, uid : Uids]
  <1>1. history \in Seq(changes)
    BY DEF TypeOK
  <1>2. history[i] \in changes
    <2> HIDE DEF changes
    <2> QED
      BY <1>1
  <1> QED
    BY <1>2

\* The server changes: what was so at older revisions still is.
LEMMA ChangeInv ==
  ASSUME IInv, NEW u \in Uids, Change(u)
  PROVE  IInv'
  <1> DEFINE n == Len(history)
  <1>1. n \in Nat /\ n > 0 /\ rv \in 0 .. n /\ listed \in 0 .. n
    BY DEF IInv, TypeOK, HistoryInv
  <1>2. PICK type \in {"ADDED", "MODIFIED", "DELETED"} :
          /\ (type = "ADDED") <=> \A i \in DOMAIN history : history[i].uid # u
          /\ type # "ADDED" => AtRev(u, Len(history)) # 0
          /\ history' = Append(history, [type |-> type, uid |-> u])
    BY DEF Change
  <1>3. history'[n + 1] = [type |-> type, uid |-> u] /\ DOMAIN history = 1 .. n
    BY <1>2 DEF IInv, TypeOK
  <1>4. UNCHANGED <<compacted, phase, rv, db, listed, todo, view, event, leftEarly>>
    BY DEF Change
  <1>5. HistoryInv'
    <2>1. Len(history') > 0 /\ rv' <= Len(history') /\ listed' <= Len(history')
      BY <1>1, <1>4, ChangeKeeps
    <2>2. ASSUME NEW i \in 1 .. n
          PROVE  /\ history'[i].type = "ADDED" =>
                      \A j \in 1 .. i - 1 : history'[j].uid # history'[i].uid
                 /\ history'[i].type # "ADDED" => StateAt(history', history'[i].uid, i - 1) # 0
      <3>1. history'[i] = history[i] /\ history[i].uid \in Uids
        <4>1. history'[i] = history[i]
          BY ChangeKeeps
        <4>2. history[i].uid \in Uids
          BY ChangeType DEF IInv
        <4> QED
          BY <4>1, <4>2
      <3>2. \A j \in 1 .. i - 1 : history'[j] = history[j]
        BY <1>1, ChangeKeeps
      <3>3. i - 1 \in 0 .. Len(history)
        BY <1>1
      <3>4. StateAt(history', history[i].uid, i - 1) = StateAt(history, history[i].uid, i - 1)
        BY <3>1, <3>3, ChangeKeeps
      <3> QED
        BY <3>1, <3>2, <3>4 DEF IInv, HistoryInv, AtRev
    <2>3. /\ history'[n + 1].type = "ADDED" =>
               \A j \in 1 .. n : history'[j].uid # history'[n + 1].uid
          /\ history'[n + 1].type # "ADDED" => StateAt(history', history'[n + 1].uid, n) # 0
      <3>1. StateAt(history', u, n) = StateAt(history, u, n)
        BY <1>1, ChangeKeeps
      <3> QED
        BY <1>1, <1>2, <1>3, <3>1, ChangeKeeps DEF AtRev
    <2>4. ASSUME NEW i \in 1 .. Len(history')
          PROVE  i \in 1 .. n \/ i = n + 1
      BY <1>1, ChangeKeeps
    <2>5. n + 1 - 1 = n
      BY <1>1
    <2> QED
      BY <2>1, <2>2, <2>3, <2>4, <2>5 DEF HistoryInv, AtRev
  <1>6. TypeOK'
    BY <1>4, ChangeKeeps DEF IInv, TypeOK
  <1>7. VersionsInv'
    BY <1>4 DEF IInv, VersionsInv
  <1>8. \A v \in Uids : AtRev(v, listed)' = AtRev(v, listed) /\ AtRev(v, rv)' = AtRev(v, rv)
    BY <1>1, <1>4, ChangeKeeps DEF AtRev
  <1>9. ListInv' /\ FreshInv' /\ DbIsSnapshot'
    BY <1>4, <1>8 DEF IInv, ListInv, FreshInv, DbIsSnapshot
  <1>10. KnownInv'
    <2>1. ASSUME NEW v \in Uids, db[v] # 0
          PROVE  history'[db[v]] = history[db[v]]
      <3>1. db[v] \in 1 .. n
        BY <1>1, <2>1 DEF IInv, TypeOK, KnownInv, Seen
      <3> QED
        BY <3>1, ChangeKeeps
    <2> QED
      BY <1>4, <2>1 DEF IInv, KnownInv, Seen
  <1>11. ViewIsDb'
    BY <1>4 DEF IInv, ViewIsDb
  <1> QED
    BY <1>5, <1>6, <1>7, <1>9, <1>10, <1>11 DEF IInv

\* What the steps that leave the server alone keep of it.
LEMMA SameServer ==
  ASSUME IInv, UNCHANGED history, rv' \in 0 .. Len(history), listed' \in 0 .. Len(history)
  PROVE  HistoryInv'
  BY DEF IInv, TypeOK, HistoryInv, AtRev

\* The server forgets changes, which moves its oldest revision only.
LEMMA CompactInv ==
  ASSUME IInv, Compact
  PROVE  IInv'
  BY DEF IInv, TypeOK, HistoryInv, VersionsInv, ListInv, FreshInv, KnownInv, DbIsSnapshot,
         ViewIsDb, AtRev, Seen, Compact

\* The objects are listed, as they are at some revision.
LEMMA ListStepInv ==
  ASSUME IInv, List
  PROVE  IInv'
  <1>1. Len(history) \in Nat /\ Len(history) > 0 /\ rv \in 0 .. Len(history)
    BY DEF IInv, TypeOK, HistoryInv
  <1>2. HistoryInv'
    BY <1>1, SameServer DEF List, server
  <1>3. TypeOK'
    BY <1>1 DEF IInv, TypeOK, List, server, Depaginated
  <1>4. VersionsInv'
    BY <1>1 DEF VersionsInv, List, server
  <1>5. ListInv'
    BY DEF ListInv, List, server, Depaginated, AtRev
  <1>6. FreshInv'
    BY <1>1 DEF IInv, FreshInv, List, server, TypeOK
  <1>7. KnownInv'
    BY <1>1 DEF IInv, TypeOK, HistoryInv, KnownInv, List, server, Seen
  <1>8. DbIsSnapshot' /\ ViewIsDb'
    BY DEF IInv, DbIsSnapshot, ViewIsDb, List, server
  <1> QED
    BY <1>2, <1>3, <1>4, <1>5, <1>6, <1>7, <1>8 DEF IInv

\* An initial event, and what it puts into the database.
LEMMA InitialItemInv ==
  ASSUME IInv, NEW u \in Uids, InitialItem(u)
  PROVE  IInv'
  <1>1. rv \in 0 .. Len(history) /\ listed \in 0 .. Len(history) /\ rv = 0
    BY DEF IInv, TypeOK, HistoryInv, VersionsInv, InitialItem
  <1>2. HistoryInv'
    BY <1>1, SameServer DEF InitialItem, server
  <1>3. /\ AtRev(u, listed) \in 0 .. listed
        /\ AtRev(u, listed) # 0 =>
             history[AtRev(u, listed)].uid = u /\ history[AtRev(u, listed)].type # "DELETED"
    BY <1>1, StateAtRange DEF AtRev
  <1>4. TypeOK'
    BY <1>1, <1>3 DEF IInv, TypeOK, InitialItem, server, Yield
  <1>5. VersionsInv'
    BY DEF IInv, VersionsInv, InitialItem, server
  <1>6. ListInv'
    BY DEF IInv, TypeOK, ListInv, InitialItem, server, AtRev
  <1>7. FreshInv'
    BY DEF IInv, TypeOK, FreshInv, InitialItem, server, AtRev
  <1>8. KnownInv'
    BY <1>1, <1>3 DEF IInv, TypeOK, KnownInv, InitialItem, server, Seen
  <1>9. DbIsSnapshot' /\ ViewIsDb'
    BY DEF IInv, TypeOK, DbIsSnapshot, ViewIsDb, InitialItem, server, Yield
  <1> QED
    BY <1>2, <1>4, <1>5, <1>6, <1>7, <1>8, <1>9 DEF IInv

\* The initial events are over, or left early.
LEMMA InitialLeftInv ==
  ASSUME IInv, DoneInitial \/ InitialDone
  PROVE  IInv'
  <1>1. rv' \in 0 .. Len(history) /\ listed' \in 0 .. Len(history)
    BY DEF IInv, TypeOK, HistoryInv, VersionsInv, DoneInitial, InitialDone, server
  <1>2. HistoryInv'
    BY <1>1, SameServer DEF DoneInitial, InitialDone, server
  <1>3. TypeOK' /\ VersionsInv' /\ ViewIsDb'
    BY DEF IInv, TypeOK, VersionsInv, ViewIsDb, DoneInitial, InitialDone, server
  <1>4. ListInv'
    BY DEF IInv, TypeOK, ListInv, DoneInitial, InitialDone, server, AtRev
  <1>5. FreshInv'
    BY DEF IInv, TypeOK, FreshInv, VersionsInv, DoneInitial, InitialDone, server, AtRev
  <1>6. KnownInv'
    BY DEF IInv, TypeOK, KnownInv, VersionsInv, DoneInitial, InitialDone, server, Seen
  <1>7. DbIsSnapshot'
    BY DEF IInv, TypeOK, DbIsSnapshot, ListInv, FreshInv, VersionsInv, DoneInitial, InitialDone,
           server, AtRev
  <1> QED
    BY <1>2, <1>3, <1>4, <1>5, <1>6, <1>7 DEF IInv

\* A listed object is compared with what the database has.
LEMMA RestartItemInv ==
  ASSUME IInv, NEW u \in Uids, RestartItem(u)
  PROVE  IInv'
  <1>1. rv \in 0 .. Len(history) /\ listed \in 0 .. Len(history) /\ rv > 0 /\ listed >= rv
    BY DEF IInv, TypeOK, HistoryInv, VersionsInv, RestartItem
  <1>2. HistoryInv'
    BY <1>1, SameServer DEF RestartItem, server
  <1>3. /\ AtRev(u, listed) \in 0 .. listed
        /\ AtRev(u, listed) # 0 =>
             history[AtRev(u, listed)].uid = u /\ history[AtRev(u, listed)].type # "DELETED"
    BY <1>1, StateAtRange DEF AtRev
  <1>4. TypeOK' /\ ViewIsDb'
    <2>1. db' = [db EXCEPT ![u] = AtRev(u, listed)] /\ AtRev(u, listed) \in Nat
      BY <1>1, <1>3 DEF RestartItem
    <2>2. view' = [view EXCEPT ![u] = AtRev(u, listed)]
      BY <1>1, <1>3 DEF IInv, TypeOK, ViewIsDb, RestartItem, Yield
    <2> QED
      BY <2>1, <2>2 DEF IInv, TypeOK, ViewIsDb, RestartItem, server
  <1>5. VersionsInv' /\ FreshInv' /\ DbIsSnapshot'
    BY <1>1 DEF IInv, VersionsInv, FreshInv, DbIsSnapshot, RestartItem, server
  <1>6. ListInv'
    BY DEF IInv, TypeOK, ListInv, RestartItem, server, AtRev
  <1>7. KnownInv'
    BY <1>1, <1>3 DEF IInv, TypeOK, KnownInv, RestartItem, server, Seen
  <1> QED
    BY <1>2, <1>4, <1>5, <1>6, <1>7 DEF IInv

\* The restart is over: the database is what was listed.
LEMMA RestartLeftInv ==
  ASSUME IInv, RestartDone \/ \E u \in Uids : RestartDelete(u)
  PROVE  IInv'
  <1>1. /\ rv \in 0 .. Len(history) /\ listed \in 0 .. Len(history) /\ rv > 0 /\ listed >= rv
        /\ rv' \in 0 .. Len(history) /\ listed' \in 0 .. Len(history) /\ rv' > 0
    BY DEF IInv, TypeOK, HistoryInv, VersionsInv, RestartDone, RestartDelete, server
  <1>2. HistoryInv'
    BY <1>1, SameServer DEF RestartDone, RestartDelete, server
  <1>3. /\ TypeOK'
        /\ \/ phase' = "broken" /\ rv' = rv /\ listed' = listed
           \/ phase' = "connect" /\ rv' = listed'
    <2>1. CASE RestartDone
      BY <1>1, <2>1 DEF IInv, TypeOK, RestartDone, server
    <2>2. ASSUME NEW u \in Uids, RestartDelete(u)
          PROVE  TypeOK' /\ phase' = "broken" /\ rv' = rv /\ listed' = listed
      BY <1>1, <2>2 DEF IInv, TypeOK, RestartDelete, server, Yield
    <2> QED
      BY <2>1, <2>2
  <1>6. VersionsInv' /\ ListInv' /\ FreshInv'
    BY <1>1, <1>3 DEF VersionsInv, ListInv, FreshInv
  <1>4. ViewIsDb' /\ KnownInv'
    BY <1>1 DEF IInv, TypeOK, ViewIsDb, KnownInv, RestartDone, RestartDelete, server, Yield, Seen
  <1>5. DbIsSnapshot'
    BY <1>1 DEF IInv, TypeOK, ListInv, DbIsSnapshot, RestartDone, RestartDelete, server, AtRev,
                Alive
  <1> QED
    BY <1>2, <1>3, <1>4, <1>5, <1>6 DEF IInv

\* An event of the stream: no change of the object lies between the two revisions.
LEMMA ReceiveInv ==
  ASSUME IInv, Receive
  PROVE  IInv'
  <1> DEFINE r == rv + 1
             u == history[r].uid
             rev == IF history[r].type = "DELETED" THEN 0 ELSE r
  <1>1. /\ rv \in 0 .. Len(history) /\ listed \in 0 .. rv /\ rv > 0 /\ Len(history) \in Nat
        /\ r \in 1 .. Len(history) /\ rv' = r /\ phase = "watch"
    BY DEF IInv, TypeOK, HistoryInv, VersionsInv, Receive
  <1>2. u \in Uids /\ history[r].type \in {"ADDED", "MODIFIED", "DELETED"}
    BY <1>1, ChangeType DEF IInv
  <1>3. /\ db' = [db EXCEPT ![u] = rev] /\ view' = [view EXCEPT ![u] = rev]
        /\ UNCHANGED <<history, compacted, phase, listed, todo, leftEarly>>
    BY DEF Receive, Yield, server
  <1>4. StateAt(history, u, r) = rev
    BY <1>1, StateAtChange
  <1>5. \A v \in Uids \ {u} : StateAt(history, v, r) = StateAt(history, v, rv)
    BY <1>1, StateAtOther
  <1>6. HistoryInv'
    BY <1>1, <1>3, SameServer
  <1>7. rev \in 0 .. r /\ (rev # 0 => rev = r /\ history[r].type # "DELETED")
    BY <1>1
  <1> HIDE DEF r, u, rev
  <1>8. TypeOK' /\ ViewIsDb'
    BY <1>1, <1>2, <1>3, <1>7 DEF IInv, TypeOK, ViewIsDb
  <1>9. VersionsInv' /\ ListInv' /\ FreshInv'
    BY <1>1, <1>3 DEF IInv, VersionsInv, ListInv, FreshInv, r
  <1>10. KnownInv'
    <2>1. Seen = rv /\ Seen' = r
      BY <1>1, <1>3 DEF Seen, r
    <2>2. ASSUME NEW v \in Uids, db'[v] # 0
          PROVE  db'[v] <= r /\ history[db'[v]].uid = v /\ history[db'[v]].type # "DELETED"
      <3>1. CASE v = u
        BY <1>1, <1>2, <1>3, <1>7, <2>2, <3>1 DEF IInv, TypeOK, u
      <3>2. CASE v # u
        BY <1>1, <1>2, <1>3, <2>1, <2>2, <3>2 DEF IInv, TypeOK, KnownInv, r
      <3> QED
        BY <3>1, <3>2
    <2> QED
      BY <1>3, <2>1, <2>2 DEF KnownInv
  <1>11. DbIsSnapshot'
    BY <1>1, <1>2, <1>3, <1>4, <1>5 DEF IInv, TypeOK, DbIsSnapshot, AtRev
  <1> QED
    BY <1>6, <1>8, <1>9, <1>10, <1>11 DEF IInv

\* Between a list and a stream, and out of the generator and into it again.
LEMMA PhaseInv ==
  ASSUME IInv, Connect \/ TooOld \/ StreamCloses \/ Fails \/ IterateAgain \/ BreakOut
  PROVE  IInv'
  <1>1. /\ UNCHANGED <<history, rv, db, listed, todo, view>>
        /\ compacted' = compacted
        /\ leftEarly' = leftEarly \/ leftEarly' = (leftEarly \/ rv = 0)
        /\ \/ phase' \in {"list", "failed"}
           \/ phase \in {"connect", "watch"} /\ phase' \in {"connect", "watch"}
    BY DEF Connect, TooOld, StreamCloses, Fails, IterateAgain, BreakOut, server
  <1>2. rv \in 0 .. Len(history) /\ listed \in 0 .. Len(history)
    BY DEF IInv, TypeOK, HistoryInv
  <1>3. HistoryInv'
    BY <1>1, <1>2, SameServer
  <1>4. TypeOK' /\ ViewIsDb'
    BY <1>1 DEF IInv, TypeOK, ViewIsDb
  <1>5. VersionsInv' /\ ListInv'
    BY <1>1 DEF IInv, VersionsInv, ListInv
  <1>6. FreshInv'
    BY DEF IInv, TypeOK, FreshInv, VersionsInv, Connect, TooOld, StreamCloses, Fails, IterateAgain,
           BreakOut, server
  <1>7. KnownInv'
    BY <1>1 DEF IInv, KnownInv, Seen
  <1>8. DbIsSnapshot'
    BY DEF IInv, DbIsSnapshot, AtRev, Connect, TooOld, StreamCloses, Fails, IterateAgain,
           BreakOut, server
  <1> QED
    BY <1>3, <1>4, <1>5, <1>6, <1>7, <1>8 DEF IInv

\* Every step keeps the invariant.
LEMMA NextInv == IInv /\ [Next]_vars => IInv'
  <1> SUFFICES ASSUME IInv, [Next]_vars
               PROVE  IInv'
    OBVIOUS
  <1>1. CASE \E u \in Uids : Change(u)
    BY <1>1, ChangeInv
  <1>2. CASE Compact
    BY <1>2, CompactInv
  <1>3. CASE Generator
    BY <1>3, ListStepInv, InitialLeftInv, RestartLeftInv, PhaseInv, ReceiveInv, InitialItemInv,
       RestartItemInv DEF Generator
  <1>4. CASE StreamCloses \/ Fails \/ IterateAgain \/ BreakOut
    BY <1>4, PhaseInv
  <1>5. CASE UNCHANGED vars
    BY <1>5 DEF vars, IInv, TypeOK, HistoryInv, VersionsInv, ListInv, FreshInv, KnownInv,
                DbIsSnapshot, ViewIsDb, AtRev, Seen
  <1> QED
    BY <1>1, <1>2, <1>3, <1>4, <1>5 DEF Next

\* So it holds always.
LEMMA Invariant == Spec => []IInv
  BY InitInv, NextInv, PTL DEF Spec

\* Whenever the watcher is to watch or watching, its database is what the
\* server had at resource_version, for any number of objects and changes: a
\* restart, a failure or a consumer that comes back loses none of them.
THEOREM DatabaseIsSnapshot == Spec => []DbIsSnapshot
  <1>1. IInv => DbIsSnapshot
    BY DEF IInv
  <1> QED
    BY <1>1, Invariant, PTL

\* Who follows the events has what the database has.
THEOREM EventsTellDb == Spec => []ViewIsDb
  <1>1. IInv => ViewIsDb
    BY DEF IInv
  <1> QED
    BY <1>1, Invariant, PTL

-----------------------------------------------------------------------------
(* The events. *)

MakesSense ==
  event' # event /\ event'.uid \in Uids =>
    \/ event'.type = "ADDED" <=> view[event'.uid] = 0
    \/ leftEarly /\ rv = 0

\* An event of the stream fits what the consumer knows.
LEMMA ReceivedMakesSense ==
  ASSUME IInv, Receive
  PROVE  MakesSense
  <1> DEFINE r == rv + 1
             u == history[r].uid
  <1>1. /\ rv \in Nat /\ listed <= rv /\ rv = r - 1 /\ phase = "watch" /\ r \in 1 .. Len(history)
        /\ Seen = rv
    BY DEF IInv, TypeOK, HistoryInv, VersionsInv, Receive, Seen
  <1>2. u \in Uids
    BY <1>1, ChangeType DEF IInv
  <1>3. event' = [type |-> history[r].type, uid |-> u, rev |-> r]
    BY DEF Receive, Yield
  <1>4. view = db
    BY DEF IInv, ViewIsDb
  <1> HIDE DEF r
  <1>5. CASE history[r].type = "ADDED"
    <2>1. \A j \in 1 .. r - 1 : history[j].uid # u
      BY <1>1, <1>5 DEF IInv, HistoryInv
    <2>2. db[u] # 0 => db[u] \in 1 .. r - 1 /\ history[db[u]].uid = u
      BY <1>1, <1>2 DEF IInv, KnownInv, TypeOK
    <2>3. db[u] = 0
      BY <2>1, <2>2
    <2> QED
      BY <1>3, <1>4, <1>5, <2>3 DEF MakesSense
  <1>6. CASE history[r].type # "ADDED"
    <2>1. AtRev(u, rv) # 0
      BY <1>1, <1>6 DEF IInv, HistoryInv
    <2>2. db[u] # 0
      BY <1>1, <1>2, <2>1 DEF IInv, DbIsSnapshot
    <2> QED
      BY <1>3, <1>4, <1>6, <2>2 DEF MakesSense
  <1> QED
    BY <1>5, <1>6

\* So does what is told of a listed object.
LEMMA ListedMakesSense ==
  ASSUME IInv, NEW u \in Uids, InitialItem(u) \/ RestartItem(u) \/ RestartDelete(u)
  PROVE  MakesSense
  <1>1. view = db
    BY DEF IInv, ViewIsDb
  <1>2. CASE InitialItem(u)
    <2>1. event'.uid = u /\ event'.type = "ADDED"
      BY <1>2 DEF InitialItem, Yield
    <2>2. (leftEarly /\ rv = 0) \/ db[u] = 0
      BY <1>2 DEF IInv, TypeOK, VersionsInv, FreshInv, InitialItem
    <2> QED
      BY <1>1, <2>1, <2>2 DEF MakesSense
  <1>3. CASE RestartItem(u)
    BY <1>1, <1>3 DEF MakesSense, RestartItem, Yield
  <1>4. CASE RestartDelete(u)
    BY <1>1, <1>4 DEF MakesSense, RestartDelete, Yield
  <1> QED
    BY <1>2, <1>3, <1>4

\* To a consumer that follows them, an object is added exactly when it was
\* not there, other than by initial events that come a second time.
THEOREM EventsFollowOn == Spec => EventsMakeSense
  <1>1. ASSUME IInv, [Next]_vars
        PROVE  [MakesSense]_vars
    <2>1. CASE Receive
      BY <1>1, <2>1, ReceivedMakesSense
    <2>2. CASE \E u \in Uids : InitialItem(u) \/ RestartItem(u) \/ RestartDelete(u)
      BY <1>1, <2>2, ListedMakesSense
    <2>3. CASE DoneInitial
      BY <2>3, ConstantAssumption DEF MakesSense, DoneInitial
    <2>4. CASE event' = event
      BY <2>4 DEF MakesSense
    <2>5. ASSUME ~Receive, ~DoneInitial,
                 ~\E u \in Uids : InitialItem(u) \/ RestartItem(u) \/ RestartDelete(u)
          PROVE  event' = event
      BY <1>1, <2>5 DEF Next, Generator, vars, Change, Compact, List, InitialDone, RestartDone,
                       Connect, TooOld, StreamCloses, Fails, IterateAgain, BreakOut
    <2> QED
      BY <2>1, <2>2, <2>3, <2>4, <2>5
  <1>2. [][MakesSense]_vars => EventsMakeSense
    BY PTL DEF EventsMakeSense, MakesSense
  <1> QED
    BY <1>1, <1>2, Invariant, PTL DEF Spec

-----------------------------------------------------------------------------
(* The watcher implements ObjectMirror. *)

\* The last revision up to n that object u was as v says at.
LastAs(h, u, v, n) == MaxOf({r \in 0 .. n : v = StateAt(h, u, r)})

\* It is a revision at which the object is as it is at n.
LEMMA LastAsIs ==
  ASSUME NEW h, NEW u, NEW n \in Nat, NEW v \in 0 .. n,
         v # 0 => h[v].uid = u /\ h[v].type # "DELETED"
  PROVE  /\ LastAs(h, u, v, n) \in 0 .. n
         /\ v = StateAt(h, u, LastAs(h, u, v, n))
         /\ \A r \in 0 .. n : v = StateAt(h, u, r) => r <= LastAs(h, u, v, n)
  <1> DEFINE S == {r \in 0 .. n : v = StateAt(h, u, r)}
  <1>1. v = StateAt(h, u, v)
    <2>1. CASE v = 0
      BY <2>1, StateAtRange
    <2>2. CASE v # 0
      BY <2>2, StateAtChange
    <2> QED
      BY <2>1, <2>2
  <1>2. S \subseteq 0 .. n /\ S # {}
    BY <1>1
  <1>3. MaxOf(S) \in S /\ \A r \in S : r <= MaxOf(S)
    <2> HIDE DEF S
    <2> QED
      BY <1>2, MaxOfMax
  <1> QED
    BY <1>3 DEF LastAs

ViewKnown ==
  /\ Seen \in 0 .. Len(history) /\ Len(history) \in Nat
  /\ view \in [Uids -> Nat]
  /\ \A u \in Uids :
       /\ view[u] \in 0 .. Seen
       /\ view[u] # 0 => history[view[u]].uid = u /\ history[view[u]].type # "DELETED"

\* The invariant knows that of the consumer's view.
LEMMA InvViewKnown == IInv => ViewKnown
  <1> SUFFICES ASSUME IInv
               PROVE  ViewKnown
    OBVIOUS
  <1>1. Seen \in 0 .. Len(history) /\ Len(history) \in Nat /\ view \in [Uids -> Nat] /\ view = db
    BY DEF IInv, TypeOK, HistoryInv, ViewIsDb, Seen
  <1>2. \A u \in Uids : view[u] # 0 =>
          view[u] <= Seen /\ history[view[u]].uid = u /\ history[view[u]].type # "DELETED"
    BY <1>1 DEF IInv, KnownInv
  <1> QED
    BY <1>1, <1>2 DEF ViewKnown

\* The mirror's history is read as the watcher's is.
LEMMA MirrorStateAt ==
  ASSUME NEW h, NEW u, NEW r
  PROVE  Mirror!StateAt(h, u, r) = StateAt(h, u, r)
  BY DEF Mirror!StateAt, StateAt

\* What the refinement maps an object of the view to: the last revision it was so at.
LEMMA UpToIs ==
  UpTo = [u \in Uids |-> LastAs(history, u, view[u], Seen)]
  BY DEF UpTo, LastAs, AtRev

\* A step that is not the server's tells of one object, and what it tells is
\* the latest that has been heard of it.
LEMMA StepTells ==
  ASSUME IInv, [Next]_vars, ~\E u \in Uids : Change(u)
  PROVE  /\ history' = history
         /\ Seen <= Seen'
         /\ \A u, v \in Uids : view'[u] # view[u] /\ view'[v] # view[v] => u = v
         /\ \A u \in Uids : view'[u] # view[u] => view'[u] = StateAt(history, u, Seen')
  <1>1. /\ rv \in Nat /\ listed \in Nat /\ rv <= Len(history) /\ listed <= Len(history)
        /\ Len(history) \in Nat /\ view \in [Uids -> Nat] /\ db \in [Uids -> Nat]
    BY DEF IInv, TypeOK, HistoryInv
  <1>2. CASE Receive
    <2> DEFINE r == rv + 1
               u == history[r].uid
    <2>1. /\ Seen = rv /\ Seen' = r /\ history' = history /\ r \in 1 .. Len(history)
      BY <1>1, <1>2 DEF IInv, VersionsInv, Receive, Seen, server
    <2>2. view' = [view EXCEPT ![u] = IF history[r].type = "DELETED" THEN 0 ELSE r]
      BY <1>2 DEF Receive, Yield
    <2>3. StateAt(history, u, r) = IF history[r].type = "DELETED" THEN 0 ELSE r
      BY <2>1, StateAtChange
    <2> HIDE DEF u
    <2> QED
      BY <1>1, <2>1, <2>2, <2>3
  <1>3. ASSUME NEW u \in Uids, InitialItem(u) \/ RestartItem(u) \/ RestartDelete(u)
        PROVE  /\ history' = history /\ Seen <= Seen'
               /\ \A v \in Uids : view'[v] # view[v] => v = u
               /\ view'[u] # view[u] => view'[u] = StateAt(history, u, Seen')
    <2>1. /\ history' = history /\ rv' = rv /\ listed' = listed /\ Seen = listed
          /\ Seen' = Seen
      BY <1>1, <1>3 DEF IInv, VersionsInv, InitialItem, RestartItem, RestartDelete, server, Seen
    <2>2. CASE InitialItem(u)
      BY <1>1, <2>1, <2>2 DEF InitialItem, Yield, AtRev
    <2>3. CASE RestartItem(u)
      BY <1>1, <2>1, <2>3 DEF RestartItem, Yield, AtRev
    <2>4. CASE RestartDelete(u)
      BY <1>1, <2>1, <2>4 DEF RestartDelete, Yield, AtRev, Alive
    <2> QED
      BY <1>3, <2>1, <2>2, <2>3, <2>4
  <1>4. CASE List \/ InitialDone \/ RestartDone
    BY <1>1, <1>4 DEF IInv, VersionsInv, List, InitialDone, RestartDone, server, Seen
  <1>5. CASE \/ UNCHANGED vars \/ Compact \/ DoneInitial \/ Connect \/ TooOld
             \/ StreamCloses \/ Fails \/ IterateAgain \/ BreakOut
    <2>1. UNCHANGED <<history, rv, listed, view>>
      BY <1>5 DEF vars, Compact, DoneInitial, Connect, TooOld, StreamCloses, Fails, IterateAgain,
                  BreakOut, server
    <2> QED
      BY <1>1, <2>1 DEF Seen
  <1>6. CASE \E u \in Uids : InitialItem(u) \/ RestartItem(u) \/ RestartDelete(u)
    BY <1>3, <1>6
  <1> QED
    BY <1>2, <1>4, <1>5, <1>6 DEF Next, Generator

\* A change of the server is a change of the mirror's.
LEMMA ChangeRefines ==
  ASSUME IInv, IInv', NEW u \in Uids, Change(u)
  PROVE  Mirror!Change
  <1>1. /\ UNCHANGED <<view, listed, rv>> /\ Len(history') = Len(history) + 1
        /\ \A i \in 1 .. Len(history) : history'[i] = history[i]
    BY ChangeKeeps DEF Change
  <1>2. Seen' = Seen
    BY <1>1 DEF Seen
  <1>3. ASSUME NEW v \in Uids
        PROVE  LastAs(history', v, view'[v], Seen') = LastAs(history, v, view[v], Seen)
    <2>1. \A r \in 0 .. Seen : StateAt(history', v, r) = StateAt(history, v, r)
      BY ChangeKeeps, InvViewKnown DEF ViewKnown
    <2>2. {r \in 0 .. Seen : view[v] = StateAt(history', v, r)}
            = {r \in 0 .. Seen : view[v] = StateAt(history, v, r)}
      BY <2>1
    <2> QED
      BY <1>1, <1>2, <2>2 DEF LastAs
  <1>4. UpTo' = [v \in Uids |-> LastAs(history', v, view'[v], Seen')]
    BY DEF UpTo, LastAs, AtRev
  <1>5. UpTo' = UpTo
    BY <1>3, <1>4, UpToIs
  <1> QED
    BY <1>1, <1>5 DEF Mirror!Change

\* Any other step moves the view of one object forward, or is a stutter.
LEMMA OtherRefines ==
  ASSUME IInv, IInv', [Next]_vars, ~\E u \in Uids : Change(u)
  PROVE  Mirror!Follow
  <1>0. ViewKnown'
    BY InvViewKnown, PTL
  <1>1. UpTo' = [v \in Uids |-> LastAs(history', v, view'[v], Seen')]
    BY DEF UpTo, LastAs, AtRev
  <1>2. /\ Seen' \in 0 .. Len(history) /\ Seen \in 0 .. Len(history) /\ Len(history) \in Nat
        /\ history' = history /\ Seen <= Seen' /\ view' \in [Uids -> Nat]
    BY <1>0, InvViewKnown, StepTells DEF ViewKnown
  <1>3. ASSUME NEW u \in Uids
        PROVE  /\ UpTo'[u] \in 0 .. Len(history)
               /\ UpTo[u] <= UpTo'[u]
               /\ view'[u] = StateAt(history, u, UpTo'[u])
    <2>1. /\ UpTo[u] \in 0 .. Seen
          /\ view[u] = StateAt(history, u, UpTo[u])
      BY InvViewKnown, LastAsIs, UpToIs DEF ViewKnown
    <2>2. /\ view'[u] \in 0 .. Seen'
          /\ view'[u] # 0 => history[view'[u]].uid = u /\ history[view'[u]].type # "DELETED"
      BY <1>0, <1>2 DEF ViewKnown
    <2>3. /\ UpTo'[u] \in 0 .. Seen'
          /\ view'[u] = StateAt(history, u, UpTo'[u])
          /\ \A r \in 0 .. Seen' : view'[u] = StateAt(history, u, r) => r <= UpTo'[u]
      <3>1. UpTo'[u] = LastAs(history, u, view'[u], Seen') /\ Seen' \in Nat
        BY <1>1, <1>2
      <3> QED
        BY <2>2, <3>1, LastAsIs
    <2>4. CASE view'[u] = view[u]
      BY <1>2, <2>1, <2>3, <2>4
    <2>5. CASE view'[u] # view[u]
      BY <1>2, <2>1, <2>3, <2>5, StepTells
    <2> QED
      BY <1>2, <2>3, <2>4, <2>5
  <1>4. view' = [u \in Uids |-> StateAt(history, u, UpTo'[u])]
    BY <1>2, <1>3
  <1>5. UpTo' \in [Uids -> 0 .. Len(history)]
    BY <1>1, <1>3
  <1> QED
    BY <1>2, <1>3, <1>4, <1>5, StepTells, MirrorStateAt DEF Mirror!Follow

\* For the consumer, the watcher is a view that follows the server's history:
\* no object ever goes back to an older state, nor comes back once deleted.
THEOREM WatcherFollows == Spec => FollowsHistory
  <1>1. ASSUME Init
        PROVE  Mirror!Init
    <2>1. Seen = 0 /\ view = [u \in Uids |-> 0] /\ IInv
      BY <1>1, InitInv DEF Init, Seen
    <2>2. \A u \in Uids : LastAs(history, u, view[u], Seen) \in 0 .. 0
      BY <2>1, InvViewKnown, LastAsIs DEF ViewKnown
    <2>3. UpTo = [u \in Uids |-> 0]
      BY <2>2, UpToIs
    <2> QED
      BY <2>1, <2>3 DEF Mirror!Init
  <1>2. ASSUME IInv, [Next]_vars
        PROVE  [Mirror!Change \/ Mirror!Follow]_Mirror!vars
    BY <1>2, NextInv, ChangeRefines, OtherRefines
  <1> QED
    BY <1>1, <1>2, Invariant, PTL DEF Spec, FollowsHistory, Mirror!Spec
=============================================================================
