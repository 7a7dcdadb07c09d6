---------------------------- MODULE TaskDispatch ----------------------------
(***************************************************************************)
(* How the Celery tasks of utils/django/celery send each other: the class  *)
(* Task of module.py, with PostTransactionMixin and AtomicMixin (mixins.py) *)
(* and TimeClaimingMixin (utils/celery.py).                                *)
(*                                                                         *)
(* A job is one message and the execution it leads to.  The execution      *)
(* opens and closes transaction.atomic blocks of the database, sends other *)
(* jobs, and may claim a longer time limit, which sends a job that         *)
(* restarts it and raises Retry.  What is sent in an open block is sent    *)
(* when the outermost block commits.                                       *)
(*                                                                         *)
(* Celery, the broker and Django's transactions are external.  A message   *)
(* is acknowledged when it is taken (Celery's default), and a worker calls *)
(* the task.  The database alias `using' is set, task_always_eager is not, *)
(* and no body catches the Retry of its own claim.                         *)
(***************************************************************************)
EXTENDS TimeLimits

CONSTANTS
  MaxJobs,     \* bound: jobs there may ever be
  MaxDepth,    \* bound: open atomic blocks of an execution
  Given,       \* the time limits that senders may give
  Claims,      \* the time limits that executions may claim
  MaxRetries,  \* max_retries of a task
  Faults       \* TRUE: publications may fail and workers die

ASSUME DispatchAssumption ==
  /\ MaxJobs \in Nat \ {0} /\ MaxDepth \in Nat \ {0} /\ MaxRetries \in Nat
  /\ Given \subseteq Nat /\ Claims \subseteq Nat
  /\ Faults \in BOOLEAN

Jobs == 1 .. MaxJobs
Root == 1           \* sent from outside, by no task

Options == [soft : Given \cup {None}, hard : Given \cup {None}]
NoOptions == [soft |-> None, hard |-> None]

Undone == -1        \* the level of what was asked in a block rolled back

VARIABLES
  state,    \* where each job is
  atomic,   \* its task runs in a transaction of its own
  limits,   \* the time limits in its message
  retries,  \* and the number of times its task was restarted
  claimed,  \* the claim that it restarts its task for, or 0
  asker,    \* the job whose execution sent it
  depth,    \* the atomic blocks its execution has open
  level     \* history: how many open blocks of its asker it is bound to

vars == <<state, atomic, limits, retries, claimed, asker, depth, level>>

message == <<atomic, limits, retries, claimed, asker>>

Running == {"body", "raising", "retrying", "hooks", "ending"}
Over == {"done", "failed", "retried", "dead"}
Sent(j) == state[j] \in {"queued"} \cup Running \cup Over

Init ==
  /\ state = [j \in Jobs |-> IF j = Root THEN "queued" ELSE "new"]
  /\ \E a \in BOOLEAN, l \in Options :
       /\ atomic = [j \in Jobs |-> IF j = Root THEN a ELSE FALSE]
       /\ limits = [j \in Jobs |-> IF j = Root THEN l ELSE NoOptions]
  /\ retries = [j \in Jobs |-> 0]
  /\ claimed = [j \in Jobs |-> 0]
  /\ asker = [j \in Jobs |-> None]
  /\ depth = [j \in Jobs |-> 0]
  /\ level = [j \in Jobs |-> 0]

\* The next job there is none of yet.
Fresh(r) == state[r] = "new" /\ \A q \in 1 .. r - 1 : state[q] # "new"

AskedBy(j) == {r \in Jobs : asker[r] = j}

\* What its execution is to send on commit, in the order of the jobs' numbers.
Pending(j) == {r \in AskedBy(j) : state[r] = "deferred"}

\* AtomicMixin: the blocks open when the body starts.
Base(j) == IF atomic[j] THEN 1 ELSE 0

\* A worker takes the message and calls the task.
Start(j) ==
  /\ state[j] = "queued"
  /\ state' = [state EXCEPT ![j] = "body"]
  /\ depth' = [depth EXCEPT ![j] = Base(j)]
  /\ UNCHANGED <<message, level>>

-----------------------------------------------------------------------------
(* Sending. *)

\* Faulty variant: apply_async does not look for an open transaction.
SubmitNow(j, r, next) ==
  /\ state' = [state EXCEPT ![r] = "queued", ![j] = next]
  /\ level' = [level EXCEPT ![r] = depth[j]]

\* PostTransactionMixin.apply_async: at once, or on commit.
Submit(j, r, next) ==
  /\ state' = [state EXCEPT ![r] = IF depth[j] > 0 THEN "deferred" ELSE "queued",
                            ![j] = next]
  /\ level' = [level EXCEPT ![r] = depth[j]]

\* The body calls apply_async of some task.
ApplyAsync(j, r) ==
  /\ state[j] = "body"
  /\ Fresh(r)
  /\ Submit(j, r, "body")
  /\ \E a \in BOOLEAN : atomic' = [atomic EXCEPT ![r] = a]
  /\ \E l \in Options : limits' = [limits EXCEPT ![r] = l]
  /\ asker' = [asker EXCEPT ![r] = j]
  /\ UNCHANGED <<retries, claimed, depth>>

\* claim_time_limit(t) calls retry(), which calls apply_async for the same
\* task and raises Retry.
ClaimTimeLimit(j, r, t) ==
  /\ state[j] = "body"
  /\ Exceeds(t, limits[j])
  /\ retries[j] < MaxRetries
  /\ Fresh(r)
  /\ Submit(j, r, "retrying")
  /\ atomic' = [atomic EXCEPT ![r] = atomic[j]]
  /\ limits' = [limits EXCEPT ![r] = RestartLimits(t)]
  /\ retries' = [retries EXCEPT ![r] = retries[j] + 1]
  /\ claimed' = [claimed EXCEPT ![r] = t]
  /\ asker' = [asker EXCEPT ![r] = j]
  /\ UNCHANGED depth

\* It calls retry() once too often: MaxRetriesExceededError.
ClaimRefused(j, t) ==
  /\ state[j] = "body"
  /\ Exceeds(t, limits[j])
  /\ retries[j] = MaxRetries
  /\ state' = [state EXCEPT ![j] = "raising"]
  /\ UNCHANGED <<message, depth, level>>

-----------------------------------------------------------------------------
(* transaction.atomic *)

OpenBlock(j) ==
  /\ state[j] = "body"
  /\ depth[j] < MaxDepth
  /\ depth' = [depth EXCEPT ![j] = @ + 1]
  /\ UNCHANGED <<state, message, level>>

\* An inner block ends well: what it asked for is now up to the outer one.
CloseBlock(j) ==
  /\ state[j] = "body"
  /\ depth[j] > 1
  /\ depth' = [depth EXCEPT ![j] = @ - 1]
  /\ level' = [r \in Jobs |-> IF r \in AskedBy(j) /\ level[r] = depth[j]
                              THEN depth[j] - 1 ELSE level[r]]
  /\ UNCHANGED <<state, message>>

\* The outermost one ends well: COMMIT, and then the callbacks.
Commit(j, next) ==
  /\ state[j] = "body"
  /\ depth[j] = 1
  /\ depth' = [depth EXCEPT ![j] = 0]
  /\ level' = [r \in Jobs |-> IF r \in AskedBy(j) /\ level[r] > 0
                              THEN 0 ELSE level[r]]
  /\ state' = [state EXCEPT ![j] = next]
  /\ UNCHANGED message

\* A block that the body opened itself, not AtomicMixin's.
CommitBlock(j) == ~atomic[j] /\ Commit(j, "hooks")

\* One callback: the message goes to the broker.
RunHook(j) ==
  /\ state[j] \in {"hooks", "ending"}
  /\ \E r \in Pending(j) :
       /\ \A q \in Pending(j) : r <= q
       /\ state' = [state EXCEPT ![r] = "queued"]
  /\ UNCHANGED <<message, depth, level>>

\* It raises: Django does not call the others, and the block raises.
HookFails(j) ==
  /\ Faults
  /\ state[j] \in {"hooks", "ending"}
  /\ Pending(j) # {}
  /\ state' = [r \in Jobs |-> IF r = j THEN "raising"
                              ELSE IF r \in Pending(j) THEN "lost" ELSE state[r]]
  /\ UNCHANGED <<message, depth, level>>

\* Faulty variant: one callback is called, the others forgotten.
HooksDoneEarly(j) ==
  /\ state[j] \in {"hooks", "ending"}
  /\ state' = [state EXCEPT ![j] = IF @ = "hooks" THEN "body" ELSE "done"]
  /\ UNCHANGED <<message, depth, level>>

HooksDone(j) ==
  /\ state[j] \in {"hooks", "ending"}
  /\ Pending(j) = {}
  /\ state' = [state EXCEPT ![j] = IF @ = "hooks" THEN "body" ELSE "done"]
  /\ UNCHANGED <<message, depth, level>>

-----------------------------------------------------------------------------
(* How an execution ends. *)

\* The body returns; AtomicMixin commits.
Return(j) ==
  \/ ~atomic[j] /\ state[j] = "body" /\ depth[j] = 0
     /\ state' = [state EXCEPT ![j] = "done"]
     /\ UNCHANGED <<message, depth, level>>
  \/ atomic[j] /\ Commit(j, "ending")

\* The body raises, a publication or the database does, or time is up.
Raise(j) ==
  /\ state[j] = "body"
  /\ state' = [state EXCEPT ![j] = "raising"]
  /\ UNCHANGED <<message, depth, level>>

\* The body catches it.
Catch(j) ==
  /\ state[j] = "raising"
  /\ depth[j] >= Base(j)
  /\ state' = [state EXCEPT ![j] = "body"]
  /\ UNCHANGED <<message, depth, level>>

\* What the innermost block has to send on commit.
Bound(j) == {r \in Pending(j) : level[r] >= depth[j]}

\* Faulty variant: a rollback leaves the callbacks alone.
UnwindKeeping(j) ==
  /\ state[j] \in {"raising", "retrying"}
  /\ depth[j] > 0
  /\ depth' = [depth EXCEPT ![j] = @ - 1]
  /\ level' = [r \in Jobs |-> IF r \in AskedBy(j) /\ level[r] = depth[j]
                              THEN Undone ELSE level[r]]
  /\ UNCHANGED <<state, message>>

\* The exception leaves the innermost block, which rolls back and forgets its
\* callbacks.
Unwind(j) ==
  /\ state[j] \in {"raising", "retrying"}
  /\ depth[j] > 0
  /\ depth' = [depth EXCEPT ![j] = @ - 1]
  /\ level' = [r \in Jobs |-> IF r \in AskedBy(j) /\ level[r] = depth[j]
                              THEN Undone ELSE level[r]]
  /\ state' = [r \in Jobs |-> IF r \in Bound(j) THEN "dropped" ELSE state[r]]
  /\ UNCHANGED message

\* It leaves the task: Celery logs a failure, or for Retry a retry.
Fail(j) ==
  /\ state[j] \in {"raising", "retrying"}
  /\ depth[j] = 0
  /\ state' = [state EXCEPT ![j] = IF @ = "raising" THEN "failed" ELSE "retried"]
  /\ UNCHANGED <<message, depth, level>>

\* The worker is killed: the database rolls back what is open.
Die(j) ==
  /\ Faults
  /\ state[j] \in Running
  /\ state' = [r \in Jobs |-> IF r = j THEN "dead"
                              ELSE IF r \notin Pending(j) THEN state[r]
                              ELSE IF level[r] = 0 THEN "lost" ELSE "dropped"]
  /\ level' = [r \in Jobs |-> IF r \in AskedBy(j) /\ level[r] > 0
                              THEN Undone ELSE level[r]]
  /\ depth' = [depth EXCEPT ![j] = 0]
  /\ UNCHANGED message

-----------------------------------------------------------------------------

\* What Celery and Django do with an execution, whatever its body is.
Framework(j) == Start(j) \/ RunHook(j) \/ HooksDone(j) \/ Unwind(j) \/ Fail(j)

Next ==
  \E j \in Jobs :
    \/ Framework(j) \/ HookFails(j)
    \/ OpenBlock(j) \/ CloseBlock(j) \/ CommitBlock(j)
    \/ Return(j) \/ Raise(j) \/ Catch(j) \/ Die(j)
    \/ \E r \in Jobs : ApplyAsync(j, r)
    \/ \E r \in Jobs, t \in Claims : ClaimTimeLimit(j, r, t)
    \/ \E t \in Claims : ClaimRefused(j, t)

Spec == Init /\ [][Next]_vars

\* Workers go on taking messages, and Celery and Django on with what is theirs.
\* Nothing is assumed of bodies.
FairSpec == Spec /\ \A j \in Jobs : WF_vars(Framework(j))

-----------------------------------------------------------------------------

TypeOK ==
  /\ state \in [Jobs -> {"new", "deferred", "queued", "dropped", "lost"}
                          \cup Running \cup Over]
  /\ atomic \in [Jobs -> BOOLEAN]
  /\ limits \in [Jobs -> [soft : Limit, hard : Limit]]
  /\ retries \in [Jobs -> 0 .. MaxRetries]
  /\ claimed \in [Jobs -> Nat]
  /\ asker \in [Jobs -> Jobs \cup {None}]
  /\ depth \in [Jobs -> Nat]
  /\ level \in [Jobs -> Nat \cup {Undone}]

\* A task sent from a transaction is sent only if all of the transaction that
\* it was asked in is committed: nobody runs it who cannot see its data, or
\* for data that was rolled back in an inner block.
OnlyCommitted == \A r \in Jobs : Sent(r) => level[r] = 0

\* Nothing that was committed is forgotten: when an execution is over, what it
\* asked for in committed blocks or in none is sent, or its sending failed.
CommittedIsSent ==
  \A r \in Jobs \ {Root} :
    state[r] # "new" /\ level[r] = 0 /\ state[asker[r]] \in Over
      => Sent(r) \/ state[r] = "lost"

\* A restarted execution has the limit that was claimed, and more than the
\* one it restarts: the same claim never restarts it again.
RestartSuffices ==
  \A r \in Jobs :
    claimed[r] > 0 =>
      /\ ~Exceeds(claimed[r], limits[r])
      /\ Effective(limits[r]) > Effective(limits[asker[r]])

\* What was committed is run at last, if its sending does not fail.
CommittedRuns ==
  \A r \in Jobs :
    state[r] = "deferred" /\ level[r] = 0 ~> state[r] \in Running \cup Over \cup {"lost"}

\* `Restarting task with time limit %s': the restart is not forgotten.
RestartIsSent == \A r \in Jobs : claimed[r] > 0 => state[r] # "dropped"
-----------------------------------------------------------------------------
(* The invariant the proofs use. *)

\* A job is Root, or was asked for by one that there is.
Askers ==
  /\ Sent(Root)
  /\ \A r \in Jobs :
       IF r = Root \/ state[r] = "new" THEN asker[r] = None
       ELSE asker[r] \in Jobs /\ state[asker[r]] # "new"

\* Only an execution in its body, or on its way out, has blocks open.
Depths == \A j \in Jobs : depth[j] > 0 => state[j] \in {"body", "raising", "retrying"}

\* What a job is bound to is open.
Bounded == \A r \in Jobs : asker[r] \in Jobs => level[r] <= depth[asker[r]]

\* The level of a job says what becomes of it.
Levels ==
  \A r \in Jobs :
    /\ Sent(r) \/ state[r] \in {"new", "lost"} => level[r] = 0
    /\ state[r] = "dropped" => level[r] = Undone
    /\ state[r] = "deferred" =>
         \/ level[r] > 0
         \/ level[r] = 0 /\ state[asker[r]] \in {"hooks", "ending"}

DispatchInv == TypeOK /\ Askers /\ Depths /\ Bounded /\ Levels

ClaimsAsked == \A r \in Jobs : claimed[r] > 0 => r # Root /\ state[r] # "new"

IInv == DispatchInv /\ ClaimsAsked /\ RestartSuffices
=============================================================================
