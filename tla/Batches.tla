------------------------------- MODULE Batches -------------------------------
(***************************************************************************)
(* The helpers a batch job is built from: chunks and retry_on_exception of *)
(* utils/__init__.py, retry_on_connection_close and bulk_save of           *)
(* utils/django/db.py, in the one way they nest: a function decorated with *)
(* both saves, in a bulk_save block, what it gets from chunks.             *)
(*                                                                         *)
(* The database is external, and one that returns the pks of a bulk insert *)
(* as PostgreSQL does.  A flush is one transaction.  It fails with         *)
(* InterfaceError when the connection is closed, with an error for what it *)
(* was given, or because the connection breaks before the answer comes,    *)
(* and then the transaction may be committed or not.  Django sets the pks  *)
(* before the commit, and does not take them back if that fails.  Nobody   *)
(* else touches the rows meanwhile.                                        *)
(***************************************************************************)
EXTENDS Integers, SequencesExt

CONSTANTS
  Items,       \* the objects to save, a sequence without repetition
  ModelOf,     \* object -> its model
  ChunkSize,
  BatchSizes,  \* what may be given as batch_size, 0 for None
  MaxTries,    \* of retry_on_exception
  ConnTries    \* max_tries of retry_on_connection_close

Objs == Range(Items)
Models == {ModelOf[o] : o \in Objs}

ASSUME JobConstants ==
  /\ Items \in Seq(Objs) /\ IsInjective(Items)
  /\ ChunkSize \in Nat \ {0} /\ MaxTries \in Nat \ {0} /\ ConnTries \in Nat \ {0}
  /\ BatchSizes \subseteq Nat

VARIABLES
  batchSize,
  sliced,    \* iterable has __getitem__
  pc,        \* where the job is
  todo,      \* objects the block has still to save
  lists,     \* <<TRUE, model>> -> list of to_create, <<FALSE, model>> -> of to_update
  flushing,  \* lists the finally clause has still to come to
  err,       \* the exception on its way, or "none"
  tryIdx, triesLeft,
  usable,    \* FALSE when the connection has to be closed first
  hasPk,     \* objects with a pk in memory
  hasRow,    \* those whose pk a row has
  saved,     \* those whose row is what they are in memory
  unheard,   \* objects this call inserted by a commit not heard of (history)
  calls,     \* of the function (history)
  clean      \* no flush of this call has failed (history)

job == <<pc, todo, err, calls>>
retries == <<tryIdx, triesLeft>>
buffers == <<lists, flushing>>
data == <<hasPk, hasRow, unheard>>
config == <<batchSize, sliced>>
jobVars == <<config, job, retries, buffers, usable, data, saved, clean>>

Kinds == BOOLEAN \X Models

-----------------------------------------------------------------------------
(* chunks *)

\* Faulty variant: a last slice that is not full is left out.
FullSlices(s, n) == [j \in 1 .. Len(s) \div n |-> SubSeq(s, (j - 1) * n + 1, j * n)]

\* The first branch: slices of what can be indexed.
Slices(s, n) ==
  [j \in 1 .. (Len(s) + n - 1) \div n |->
     SubSeq(s, (j - 1) * n + 1, IF j * n < Len(s) THEN j * n ELSE Len(s))]

\* The other: items are gathered until there are enough.
Gathered(s, n) ==
  LET gather[i \in 0 .. Len(s)] ==
        IF i = 0 THEN [done |-> <<>>, chunk |-> <<>>]
        ELSE LET chunk == Append(gather[i - 1].chunk, s[i])
             IN  IF Len(chunk) >= n THEN [done |-> Append(gather[i - 1].done, chunk), chunk |-> <<>>]
                 ELSE [done |-> gather[i - 1].done, chunk |-> chunk]
      all == gather[Len(s)]
  IN  IF all.chunk = <<>> THEN all.done ELSE Append(all.done, all.chunk)

Chunks == IF sliced THEN Slices(Items, ChunkSize) ELSE Gathered(Items, ChunkSize)

-----------------------------------------------------------------------------
(* The database. *)

\* An insert finds that a row has its pk already.
Clash(create, objs) == create /\ objs \cap hasRow # {}

\* bulk_create of some objects, with the pk that they have or a new one; or
\* bulk_update, which passes over an object whose pk no row has.
Written(create, objs) ==
  /\ ~Clash(create, objs)
  /\ hasPk' = hasPk \union objs
  /\ hasRow' = IF create THEN hasRow \union objs ELSE hasRow
  /\ saved' = saved \union (objs \cap hasRow')

FlushSucceeds(create, objs) ==
  /\ usable
  /\ Written(create, objs)
  /\ UNCHANGED <<usable, unheard, clean, err>>

\* IntegrityError and the like.
Refused == {"refused", "clash"}

\* No row is changed by it: the connection was found closed, or is now, or the
\* objects are refused.  If it comes to the commit, new pks are there all the same.
FlushFails(create, objs) ==
  /\ err' \in IF usable THEN {"closed", "lost", IF Clash(create, objs) THEN "clash" ELSE "refused"}
              ELSE {"closed"}
  /\ usable' \in IF err' \in Refused THEN {TRUE} ELSE {FALSE, usable}
  /\ hasPk' \in {hasPk} \union
       IF usable /\ create /\ ~Clash(create, objs) THEN {hasPk \union objs} ELSE {}
  /\ clean' = FALSE
  /\ UNCHANGED <<hasRow, unheard, saved>>

\* It is committed, but the answer to the commit is lost.
FlushLost(create, objs) ==
  /\ usable
  /\ Written(create, objs)
  /\ unheard' = IF create THEN unheard \union objs ELSE unheard
  /\ err' = "lost"
  /\ usable' \in BOOLEAN
  /\ clean' = FALSE

-----------------------------------------------------------------------------
(* bulk_save *)

\* finally, whichever way the block was left.
Leave(left) ==
  /\ pc' = "finally"
  /\ flushing' = {k \in Kinds : left[k] # <<>>}

\* Faulty variant: a list that was flushed is not emptied.
SaveKeeps ==
  /\ pc = "body" /\ todo # <<>>
  /\ todo' = Tail(todo)
  /\ LET obj == Head(todo)
         k == <<obj \notin hasPk, ModelOf[obj]>>
         objs == Append(lists[k], obj)
     IN  IF batchSize = 0 \/ Len(objs) < batchSize
         THEN /\ lists' = [lists EXCEPT ![k] = objs]
              /\ UNCHANGED <<pc, err, flushing, usable, data, saved, clean>>
         ELSE \/ /\ FlushSucceeds(k[1], Range(objs))
                 /\ lists' = [lists EXCEPT ![k] = objs]
                 /\ UNCHANGED <<pc, flushing>>
              \/ /\ FlushFails(k[1], Range(objs)) \/ FlushLost(k[1], Range(objs))
                 /\ lists' = [lists EXCEPT ![k] = objs]
                 /\ Leave(lists')
  /\ UNCHANGED <<config, calls, retries>>

\* save(obj)
SaveObj ==
  /\ pc = "body" /\ todo # <<>>
  /\ todo' = Tail(todo)
  /\ LET obj == Head(todo)
         k == <<obj \notin hasPk, ModelOf[obj]>>
         objs == Append(lists[k], obj)
     IN  IF batchSize = 0 \/ Len(objs) < batchSize
         THEN /\ lists' = [lists EXCEPT ![k] = objs]
              /\ UNCHANGED <<pc, err, flushing, usable, data, saved, clean>>
         ELSE \/ /\ FlushSucceeds(k[1], Range(objs))
                 /\ lists' = [lists EXCEPT ![k] = <<>>]
                 /\ UNCHANGED <<pc, flushing>>
              \/ /\ FlushFails(k[1], Range(objs)) \/ FlushLost(k[1], Range(objs))
                 /\ lists' = [lists EXCEPT ![k] = objs]
                 /\ Leave(lists')
  /\ UNCHANGED <<config, calls, retries>>

\* The block comes to its end, or raises an exception of its own.
BlockEnds ==
  /\ pc = "body"
  /\ err' \in IF todo = <<>> THEN {"none", "other"} ELSE {"other"}
  /\ Leave(lists)
  /\ UNCHANGED <<config, todo, calls, retries, lists, usable, data, saved, clean>>

\* What is left in the lists, all of to_create first.
Flush(k) ==
  /\ pc = "finally" /\ k \in flushing
  /\ k[1] \/ \A other \in flushing : ~other[1]
  /\ flushing' = flushing \ {k}
  /\ \/ FlushSucceeds(k[1], Range(lists[k])) /\ pc' = pc
     \/ /\ FlushFails(k[1], Range(lists[k])) \/ FlushLost(k[1], Range(lists[k]))
        /\ pc' = "raised"
  /\ UNCHANGED <<config, todo, calls, retries, lists>>

FlushedAll ==
  /\ pc = "finally" /\ flushing = {}
  /\ pc' = IF err = "none" THEN "done" ELSE "raised"
  /\ UNCHANGED <<config, todo, err, calls, retries, buffers, usable, data, saved, clean>>

-----------------------------------------------------------------------------
(* retry_on_exception and retry_on_connection_close *)

\* A call begins: it changes its objects, and has yet to save them.
Enter ==
  /\ pc' = "body"
  /\ todo' = FlattenSeq(Chunks)
  /\ lists' = [k \in Kinds |-> <<>>]
  /\ flushing' = {}
  /\ saved' = {} /\ unheard' = {}
  /\ err' = "none"
  /\ clean' = TRUE
  /\ calls' = calls + 1
  /\ UNCHANGED <<config, hasPk, hasRow>>

\* func(*args, **kwargs)
Call ==
  /\ pc = "call"
  /\ Enter
  /\ UNCHANGED <<retries, usable>>

\* Faulty variant: one try too many.
ConnectionErrorOnceMore ==
  /\ pc = "raised" /\ err = "closed" /\ triesLeft >= 0
  /\ triesLeft' = triesLeft - 1
  /\ usable' = TRUE
  /\ IF triesLeft' < 0
     THEN UNCHANGED <<config, job, buffers, data, saved, clean>>
     ELSE Enter
  /\ UNCHANGED tryIdx

\* except db.InterfaceError: connections that broke are closed.
ConnectionError ==
  /\ pc = "raised" /\ err = "closed" /\ triesLeft > 0
  /\ triesLeft' = triesLeft - 1
  /\ usable' = TRUE
  /\ IF triesLeft' <= 0
     THEN UNCHANGED <<config, job, buffers, data, saved, clean>>
     ELSE Enter
  /\ UNCHANGED tryIdx

\* It comes to retry_on_exception.
GetsOut == pc = "raised" /\ (err = "closed" => triesLeft <= 0)

\* but: what is wrong with the objects is not tried again.
TryAgain ==
  /\ GetsOut /\ err \notin Refused /\ tryIdx + 1 < MaxTries
  /\ tryIdx' = tryIdx + 1
  /\ triesLeft' = ConnTries
  /\ pc' = "call"
  /\ UNCHANGED <<config, todo, err, calls, buffers, usable, data, saved, clean>>

GiveUp ==
  /\ GetsOut /\ (err \in Refused \/ tryIdx + 1 >= MaxTries)
  /\ pc' = "failed"
  /\ UNCHANGED <<config, todo, err, calls, retries, buffers, usable, data, saved, clean>>

-----------------------------------------------------------------------------

JobInit ==
  /\ batchSize \in BatchSizes /\ sliced \in BOOLEAN
  /\ pc = "call" /\ todo = <<>> /\ err = "none" /\ calls = 0
  /\ tryIdx = 0 /\ triesLeft = ConnTries
  /\ lists = [k \in Kinds |-> <<>>] /\ flushing = {}
  /\ usable \in BOOLEAN
  /\ hasPk \in SUBSET Objs
  /\ hasRow \in SUBSET hasPk   \* a pk may have been chosen by the program
  /\ saved = {} /\ unheard = {} /\ clean = TRUE

JobNext ==
  \/ Call \/ ConnectionError \/ TryAgain \/ GiveUp
  \/ SaveObj \/ BlockEnds \/ FlushedAll
  \/ \E k \in Kinds : Flush(k)

JobSpec == JobInit /\ [][JobNext]_jobVars

-----------------------------------------------------------------------------

\* The types of the variables.
JobTypeOK ==
  /\ batchSize \in BatchSizes /\ sliced \in BOOLEAN
  /\ pc \in {"call", "body", "finally", "raised", "done", "failed"}
  /\ err \in {"none", "closed", "lost", "refused", "clash", "other"}
  /\ todo \in Seq(Objs)
  /\ lists \in [Kinds -> Seq(Objs)] /\ flushing \subseteq Kinds
  /\ hasPk \subseteq Objs /\ saved \subseteq Objs
  /\ hasRow \subseteq Objs /\ unheard \subseteq Objs
  /\ tryIdx \in 0 .. MaxTries - 1 /\ triesLeft \in 0 .. ConnTries
  /\ usable \in BOOLEAN /\ clean \in BOOLEAN /\ calls \in Nat

\* Objects with a pk that no row has: one that the program chose, or that a
\* commit left them when it failed.  save() takes them for rows to update.
Astray == hasPk \ hasRow

\* A job that ends well has saved every object that is not astray, whatever was
\* tried before; and so has a block that raises those that it was given, as long
\* as no flush failed.
GivenIsSaved ==
  /\ pc = "done" => Objs \ saved \subseteq Astray
  /\ pc = "raised" /\ clean => Objs \ (Range(todo) \union saved) \subseteq Astray

\* However often batches are flushed again and the function is called again, no
\* object is inserted whose row is there, but for a batch that is flushed again
\* on the way out after its commit was not heard of.
InsertedOnce == err = "clash" => unheard # {}

\* An error of the connection is raised only when every try has been used, and
\* there are never more calls than both decorators allow for together.
CallsBounded ==
  /\ calls <= MaxTries * ConnTries
  /\ pc = "failed" /\ err \notin Refused => calls >= MaxTries
  /\ pc = "failed" /\ err = "closed" => triesLeft = 0 /\ calls >= MaxTries + ConnTries - 1

-----------------------------------------------------------------------------
(* The invariant the proofs use. *)

\* Lists that will be flushed.
Awaited == CASE pc = "body" -> Kinds [] pc = "finally" -> flushing [] OTHER -> {}

\* They hold objects of their model: those to update have a pk, and those to
\* create no row that was heard of.
ListsInv ==
  \A k \in Awaited : \A o \in Range(lists[k]) :
    /\ ModelOf[o] = k[2]
    /\ IF k[1] THEN o \in hasRow => o \in unheard ELSE o \in hasPk

\* What has a row has its pk.
RowsInv == hasRow \subseteq hasPk

\* What is given is on its way, until a flush fails.
GivenInv ==
  /\ pc # "call" /\ clean =>
       Objs \subseteq Range(todo) \union saved \union Astray \union UNION {Range(lists[k]) : k \in Awaited}
  /\ pc = "body" => err = "none" /\ clean
  /\ pc = "finally" /\ err = "none" => clean /\ todo = <<>>
  /\ pc = "done" => clean /\ todo = <<>>

\* The calls that retry_on_connection_close has made since it was called.
Tried ==
  CASE pc = "call" -> 0 [] pc # "call" /\ triesLeft = 0 -> ConnTries [] OTHER -> ConnTries - triesLeft + 1

CallsInv ==
  /\ tryIdx + Tried <= calls /\ calls <= tryIdx * ConnTries + Tried
  /\ pc = "call" => triesLeft = ConnTries
  /\ pc = "failed" => /\ err \notin Refused => tryIdx = MaxTries - 1
                      /\ err = "closed" => triesLeft = 0

JobIInv == JobTypeOK /\ ListsInv /\ RowsInv /\ GivenInv /\ CallsInv /\ InsertedOnce
=============================================================================
