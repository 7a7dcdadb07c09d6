-------------------------- MODULE MigratePredeploy --------------------------
(***************************************************************************)
(* The command migrate_predeploy of utils/django/commands: which           *)
(* migrations of a new release it applies while the old one still runs.    *)
(*                                                                         *)
(* Migrations are numbered as they are written, each after those it needs. *)
(* One stands for a migration with a single operation, on a table of its   *)
(* app.  Around the command is how a release goes: migrations are written, *)
(* the command is run, the new code is deployed, `migrate' does the rest.  *)
(*                                                                         *)
(* Django's loader, graph and executor are external.  The flags on a       *)
(* migration are taken to be true: predeploy_safe is set only on what does *)
(* no harm.                                                                *)
(***************************************************************************)
EXTENDS Integers, FiniteSets, SequencesExt

CONSTANTS
  Size,    \* bound: migrations there may be
  Tables   \* the tables, pairs of an app and a model name; apps are numbers

ASSUME ReleaseConstants ==
  /\ Size \in Nat \ {0}
  /\ <<1, 1>> \in Tables /\ Tables \subseteq Nat \X Nat

VARIABLES
  migrations,  \* those on disk, in the order they were written
  applied,     \* the numbers of those applied
  code,        \* and of those that the running code was written with
  outcome      \* of the last migrate_predeploy on what is on disk

releaseVars == <<migrations, applied, code, outcome>>

OnDisk == DOMAIN migrations
App(m) == migrations[m].table[1]

-----------------------------------------------------------------------------
(* What a set of migrations makes of a table.  A field has the number of   *)
(* the migration that adds it.                                             *)

On(S, t) == {m \in S : migrations[m].table = t}

Exists(S, t) == \E m \in On(S, t) : migrations[m].op = "create"

Columns(S, t) ==
  {m \in On(S, t) : migrations[m].op \in {"create", "add_null", "add_required"}}
    \ {migrations[m].field : m \in {n \in On(S, t) : migrations[n].op = "remove"}}

Required(S, t) == {m \in Columns(S, t) : migrations[m].op # "add_null"}

\* Code written with the migrations S runs on a database that has D: it finds
\* its fields, and can insert rows.
Works(S, D) ==
  \A t \in Tables : Exists(S, t) =>
    Exists(D, t) /\ Columns(S, t) \subseteq Columns(D, t) /\ Required(D, t) \subseteq Columns(S, t)

-----------------------------------------------------------------------------
(* The command. *)

\* graph.forwards_plan(m), as a set: the least that has m and what is needed.
ForwardsPlan(m) ==
  LET closed == {S \in SUBSET (1 .. m) : m \in S /\ \A i \in S : migrations[i].needs \subseteq S}
  IN  {n \in 1 .. m : \A S \in closed : n \in S}

\* The migrations of S, each after those it needs: in the order of writing, which
\* may be another such order than that of Django's walk.
InOrder(S) ==
  CHOOSE s \in [1 .. Cardinality(S) -> S] :
    (\A i, j \in DOMAIN s : i < j => s[i] < s[j]) /\ Range(s) = S

\* graph.leaf_nodes(): the last migration of each app, and the apps in order.
Leaf(a) == CHOOSE m \in OnDisk : App(m) = a /\ \A n \in OnDisk : App(n) = a => n <= m
AppsInOrder == InOrder({App(m) : m \in OnDisk})

\* get_plan: what the leaves need, and is not applied, once.
Plan ==
  LET apps == AppsInOrder
      seen == [i \in 0 .. Len(apps) |-> UNION {ForwardsPlan(Leaf(apps[k])) : k \in 1 .. i}]
  IN  FlattenSeq([i \in DOMAIN apps |-> InOrder((seen[i] \ seen[i - 1]) \ applied)])

\* Faulty variant: they are left out wherever they are in the plan.
RStripAll(p) ==
  SelectSeq(p, LAMBDA m : ~migrations[m].postdeploy)

\* Faulty variant: one more is taken off.
RStripOneMore(p) ==
  LET kept == {i \in DOMAIN p : \E j \in i .. Len(p) : ~migrations[p[j]].postdeploy}
  IN  SubSeq(p, 1, Cardinality(kept) - 1)

\* rstrip_postdeploy_from_plan
RStrip(p) ==
  LET kept == {i \in DOMAIN p : \E j \in i .. Len(p) : ~migrations[p[j]].postdeploy}
  IN  SubSeq(p, 1, Cardinality(kept))

\* Faulty variant: models are told apart by their names alone.
CreatedByName(p, i) ==
  {t \in Tables : \E j \in 1 .. i - 1 :
     /\ migrations[p[j]].op = "create" /\ ~migrations[p[j]].safe
     /\ migrations[p[j]].table[2] = t[2]}

\* self.new_models when the check comes to the i-th migration of the plan; it
\* does not look into migrations marked as safe.
Created(p, i) ==
  {migrations[p[j]].table : j \in {k \in 1 .. i - 1 :
     migrations[p[k]].op = "create" /\ ~migrations[p[k]].safe}}

\* check_migration_safety and check_operation_safety
LooksSafe(p, i) ==
  LET m == migrations[p[i]] IN
    /\ ~m.postdeploy
    /\ \/ m.safe
       \/ m.op \in {"index", "add_null", "create"}
       \/ m.table \in Created(p, i)

\* call_command('migrate', m.app_label, m.name)
Migrated(m) == ForwardsPlan(m)

\* handle()
Predeploy ==
  LET p == RStrip(Plan) IN
    IF \E i \in DOMAIN p : ~LooksSafe(p, i)
      THEN outcome' = "refused" /\ UNCHANGED <<migrations, applied, code>>
      ELSE /\ outcome' = "ok"
           /\ applied' = IF p = <<>> THEN applied
                         ELSE applied \cup Migrated(p[Len(p)])
           /\ UNCHANGED <<migrations, code>>

-----------------------------------------------------------------------------
(* What is done around it. *)

Harmless == {"index", "extend", "add_null", "create"}

\* A migration is written: it needs the last one of its app, and perhaps one
\* of another.
Write ==
  /\ Len(migrations) < Size
  /\ \E t \in Tables, op \in Harmless \cup {"add_required", "remove"},
        postdeploy, safe \in BOOLEAN :
       LET own == {m \in OnDisk : App(m) = t[1]} IN
       \E field \in IF op = "remove" THEN Columns(OnDisk, t) ELSE {0},
          other \in {{}} \cup {{m} : m \in OnDisk \ own} :
         /\ op = "create" <=> ~Exists(OnDisk, t)
         /\ safe => op \in Harmless /\ ~postdeploy
         /\ migrations' = Append(migrations,
              [table |-> t, op |-> op, field |-> field, postdeploy |-> postdeploy, safe |-> safe,
               needs |-> other \cup {m \in own : \A n \in own : n <= m}])
  /\ outcome' = "none"
  /\ UNCHANGED <<applied, code>>

\* The new code takes over, once migrate_predeploy has been through.
Deploy ==
  /\ outcome = "ok"
  /\ code' = OnDisk
  /\ UNCHANGED <<migrations, applied, outcome>>

\* `migrate': after the deployment, or with the service stopped for both.
Migrate ==
  /\ applied' = OnDisk
  /\ code' = OnDisk
  /\ UNCHANGED <<migrations, outcome>>

ReleaseInit ==
  /\ migrations = <<[table |-> <<1, 1>>, op |-> "create", field |-> 0,
                     postdeploy |-> FALSE, safe |-> FALSE, needs |-> {}]>>
  /\ applied = {1}
  /\ code = {1}
  /\ outcome = "none"

ReleaseNext == Write \/ Predeploy \/ Deploy \/ Migrate

ReleaseSpec == ReleaseInit /\ [][ReleaseNext]_releaseVars

-----------------------------------------------------------------------------

\* A migration on disk.
Migration ==
  [table : Tables, op : Harmless \cup {"add_required", "remove"}, field : Nat,
   postdeploy : BOOLEAN, safe : BOOLEAN, needs : SUBSET Nat]

\* Nothing is applied without what it needs.
ReleaseTypeOK ==
  /\ migrations \in Seq(Migration)
  /\ \A m \in OnDisk : migrations[m].needs \subseteq 1 .. m - 1
  /\ code \subseteq OnDisk
  /\ outcome \in {"none", "ok", "refused"}
  /\ applied \subseteq OnDisk /\ \A m \in applied : migrations[m].needs \subseteq applied

\* `if it's safe to do it before deploy': the code that runs can go on with
\* the new schema, however the operations of the apps are spread over the plan
\* and whatever was left from earlier releases.
RunningCodeWorks ==
  [][code' = code /\ Works(code, applied) => Works(code, applied')]_releaseVars

\* `It ignores all migrations with postdeploy attribute behind': one that is
\* to be run after the deployment never is before it.
PostdeployWaits ==
  [][\A m \in applied' \ applied : migrations[m].postdeploy => code' = OnDisk]_releaseVars

\* `Migrates to latest safe pre-deploy db schema': when it goes through, and one
\* app alone had migrations to apply, only those for later are left of them,
\* and what needs them.  With several apps it is not so: those of all apps are
\* checked, and one app's are applied with what they need.
MigratesToLatest ==
  [][/\ Predeploy /\ outcome' = "ok"
     /\ \A m, n \in OnDisk \ applied : App(m) = App(n)
     => \A m \in OnDisk \ applied' : \E n \in ForwardsPlan(m) : migrations[n].postdeploy]_releaseVars

-----------------------------------------------------------------------------
(* The invariant the proofs use. *)

\* How migrations are written: the only one that creates a table, safe only if
\* it is, and after the last of the app.
HistoryInv ==
  /\ \A m, n \in OnDisk :
       /\ migrations[m].op = "create" /\ migrations[n].op = "create"
            /\ migrations[m].table = migrations[n].table => m = n
       /\ n < m /\ App(n) = App(m) => \E k \in migrations[m].needs : App(k) = App(m) /\ n <= k
  /\ \A m \in OnDisk : migrations[m].safe => migrations[m].op \in Harmless

ReleaseIInv == ReleaseTypeOK /\ HistoryInv
=============================================================================
