----------------------------- MODULE TracedTasks -----------------------------
(***************************************************************************)
(* The log context of utils/log_context.py, and how TracingMixin of        *)
(* utils/celery.py carries it from the task that sends to the task that is  *)
(* sent: TaskDispatch with what each thread has in its `_context'.          *)
(*                                                                         *)
(* A context is a function from some of the keys trace, request and parent *)
(* (trace_id, request_id, parent_request_id) to ids.  Every execution runs  *)
(* in a log_context of its own; its body may open one more, a              *)
(* new_request_context.  A worker that dies is replaced by a new one.      *)
(*                                                                         *)
(* Root is sent from a web request, which wsgi_middleware.trace gave its    *)
(* ids, or from where there is no context at all.                          *)
(***************************************************************************)
EXTENDS TaskDispatch, Sequences

CONSTANTS
  Threads,   \* the workers' threads, numbered
  Inner      \* bound: the jobs whose bodies may open an inner context

ASSUME ThreadAssumption == Threads \subseteq Nat /\ Inner \subseteq Jobs

Keys == {"trace", "request", "parent"}

\* request.id of a job is its number; a uuid of new_request_context is that
\* of the job whose body opens it.
NewId(j) == MaxJobs + j
Ids == -2 .. 2 * MaxJobs
Contexts == UNION {[K -> Ids] : K \in SUBSET Keys}
Empty == [k \in {} |-> 0]
WebRequest == [trace |-> 0, request |-> -1, parent |-> -2]

VARIABLES
  context,  \* thread -> its _context
  thread,   \* job -> the thread that executes it
  blocks,   \* job -> the log_context blocks open: what each has saved
  id,       \* job -> the id of its task
  header,   \* job -> x_log_context of its message
  asked     \* history: the request_id that it was asked for under, or None

traced == <<context, thread, blocks, id, header, asked>>

Context(j) == context[thread[j]]

-----------------------------------------------------------------------------
(* log_context, the context manager. *)

Update(c, kwargs) ==
  [k \in DOMAIN c \cup DOMAIN kwargs |-> IF k \in DOMAIN kwargs THEN kwargs[k] ELSE c[k]]

Restricted(c, K) == [k \in DOMAIN c \cap K |-> c[k]]

\* What a block that sets kwargs keeps of the context it is entered in.
BlockOf(c, kwargs) == [keys |-> DOMAIN kwargs, saved |-> Restricted(c, DOMAIN kwargs)]

Enter(j, t, kwargs) ==
  /\ context' = [context EXCEPT ![t] = Update(@, kwargs)]
  /\ blocks' = [blocks EXCEPT ![j] = Append(@, BlockOf(context[t], kwargs))]

\* Faulty variant: variables that were not set before stay.
RestoredKeeping(c, block) == Update(c, block.saved)

\* What the innermost block leaves behind.
Restored(c, block) == Update(Restricted(c, DOMAIN c \ block.keys), block.saved)

Exit(j) ==
  LET block == blocks[j][Len(blocks[j])] IN
    /\ context' = [context EXCEPT ![thread[j]] = Restored(@, block)]
    /\ blocks' = [blocks EXCEPT ![j] = SubSeq(@, 1, Len(@) - 1)]

Outermost(j) == Len(blocks[j]) = 1

-----------------------------------------------------------------------------
(* TracingMixin *)

\* Faulty variant: the parent is handed on as it is.
HeaderOfParent(c) == Restricted(c, {"trace", "parent"})

\* What apply_async puts in the message: the request becomes the parent.
HeaderOf(c) ==
  IF "request" \in DOMAIN c
    THEN Update(Restricted(c, Keys \ {"request"}), [parent |-> c.request])
    ELSE c

\* Faulty variant: every task begins a trace.
ContextOfNew(h, i) == Update(h, [request |-> i, trace |-> i])

\* What __call__ makes of it.
ContextOf(h, i) ==
  Update(IF "trace" \in DOMAIN h THEN h ELSE Update(h, [trace |-> i]), [request |-> i])

\* Root is sent from a web request or from no context.
TracedInit ==
  /\ Init
  /\ context = [t \in Threads |-> Empty]
  /\ thread = [j \in Jobs |-> None]
  /\ blocks = [j \in Jobs |-> <<>>]
  /\ id = [j \in Jobs |-> IF j = Root THEN Root ELSE None]
  /\ \E c \in {Empty, WebRequest} :
       /\ header = [j \in Jobs |-> IF j = Root THEN HeaderOf(c) ELSE Empty]
       /\ asked = [j \in Jobs |-> IF j = Root /\ c # Empty THEN c.request ELSE None]

TracedStart(j) ==
  \E t \in Threads :
    /\ \A q \in Jobs : thread[q] # t
    /\ \A u \in Threads : u < t => \E q \in Jobs : thread[q] = u
    /\ Start(j)
    /\ thread' = [thread EXCEPT ![j] = t]
    /\ Enter(j, t, ContextOf(header[j], id[j]))
    /\ UNCHANGED <<id, header, asked>>

\* apply_async; a message that restarts a task has its id.
Send(j, r, i) ==
  /\ id' = [id EXCEPT ![r] = i]
  /\ header' = [header EXCEPT ![r] = HeaderOf(Context(j))]
  /\ asked' = [asked EXCEPT ![r] = Context(j).request]
  /\ UNCHANGED <<context, thread, blocks>>

TracedApplyAsync(j, r) == ApplyAsync(j, r) /\ Send(j, r, r)

TracedClaimTimeLimit(j, r, t) == ClaimTimeLimit(j, r, t) /\ Send(j, r, id[j])

NewRequest(c, j) == [parent |-> c.request, request |-> NewId(j)]

\* with new_request_context() in a body.
EnterRequest(j) ==
  /\ state[j] = "body"
  /\ j \in Inner
  /\ Outermost(j)
  /\ Enter(j, thread[j], NewRequest(Context(j), j))
  /\ UNCHANGED <<vars, thread, id, header, asked>>

\* It is left, normally or by an exception.
ExitRequest(j) ==
  /\ state[j] \in {"body", "raising", "retrying"}
  /\ ~Outermost(j) /\ blocks[j] # <<>>
  /\ Exit(j)
  /\ UNCHANGED <<vars, thread, id, header, asked>>

\* An execution goes on; when it is over, __call__ leaves its log_context.
Continue(j) ==
  /\ IF state'[j] \in Over
       THEN Exit(j) /\ thread' = [thread EXCEPT ![j] = None]
       ELSE UNCHANGED <<context, blocks, thread>>
  /\ UNCHANGED <<id, header, asked>>

\* With a block of its body still open, an execution does not end, nor leave
\* the transaction around it.
TracedReturn(j) == Outermost(j) /\ Return(j) /\ Continue(j)
TracedUnwind(j) == (depth[j] > Base(j) \/ Outermost(j)) /\ Unwind(j) /\ Continue(j)
TracedFail(j) == Outermost(j) /\ Fail(j) /\ Continue(j)

TracedDie(j) ==
  /\ Die(j)
  /\ context' = [context EXCEPT ![thread[j]] = Empty]
  /\ thread' = [thread EXCEPT ![j] = None]
  /\ blocks' = [blocks EXCEPT ![j] = <<>>]
  /\ UNCHANGED <<id, header, asked>>

-----------------------------------------------------------------------------

TracedFramework(j) ==
  \/ TracedStart(j) \/ TracedUnwind(j) \/ TracedFail(j)
  \/ (RunHook(j) \/ HooksDone(j)) /\ Continue(j)
  \/ state[j] # "body" /\ ExitRequest(j)

Body(j) ==
  \/ (HookFails(j) \/ OpenBlock(j) \/ CloseBlock(j) \/ CommitBlock(j) \/ Raise(j) \/ Catch(j))
       /\ Continue(j)
  \/ TracedReturn(j)
  \/ EnterRequest(j) \/ ExitRequest(j)
  \/ \E r \in Jobs : TracedApplyAsync(j, r)
  \/ \E r \in Jobs, t \in Claims : TracedClaimTimeLimit(j, r, t)
  \/ \E t \in Claims : ClaimRefused(j, t) /\ Continue(j)

TracedNext == \E j \in Jobs : TracedFramework(j) \/ Body(j) \/ TracedDie(j)

TracedSpec == TracedInit /\ [][TracedNext]_<<vars, traced>>

\* As FairSpec of TaskDispatch; a job that is queued needs a free thread.
TracedFairSpec ==
  TracedSpec /\ \A j \in Jobs : WF_<<vars, traced>>(TracedFramework(j))

-----------------------------------------------------------------------------

\* A thread that executes nothing has nothing left in its context.
TracedTypeOK ==
  /\ context \in [Threads -> Contexts]
  /\ thread \in [Jobs -> Threads \cup {None}]
  /\ blocks \in [Jobs -> Seq([keys : SUBSET Keys, saved : Contexts])]
  /\ id \in [Jobs -> Jobs \cup {None}]
  /\ header \in [Jobs -> Contexts]
  /\ asked \in [Jobs -> Ids \cup {None}]
  /\ \A j \in Jobs : thread[j] \in Threads <=> state[j] \in Running
  /\ \A t \in Threads : (\A j \in Jobs : thread[j] # t) => context[t] = Empty

RootTrace == IF "trace" \in DOMAIN header[Root] THEN header[Root].trace ELSE id[Root]

\* Whatever a task sends, at once or on commit, from its own context or an
\* inner one, and what they send in turn, runs under one trace_id.
OneTrace == \A j \in Jobs : state[j] \in Running => Context(j).trace = RootTrace

\* An execution's parent_request_id is the request_id it was asked for under,
\* also when the message waited for a commit in the meantime, after any inner
\* context has come and gone.
ParentAsked ==
  \A j \in Jobs : state[j] \in Running /\ Outermost(j) =>
    /\ Context(j).request = id[j]
    /\ IF asked[j] = None THEN "parent" \notin DOMAIN Context(j)
       ELSE Context(j).parent = asked[j]

-----------------------------------------------------------------------------
(* The invariant the proofs use. *)

\* What a message carries.
HeaderInv ==
  \A j \in Jobs : state[j] # "new" =>
    /\ id[j] \in Jobs /\ "request" \notin DOMAIN header[j]
    /\ IF asked[j] = None THEN "parent" \notin DOMAIN header[j]
       ELSE "parent" \in DOMAIN header[j] /\ header[j].parent = asked[j]
    /\ j # Root => "trace" \in DOMAIN header[j] /\ header[j].trace = RootTrace

ThreadsApart == \A i, j \in Jobs : thread[i] = thread[j] /\ thread[i] \in Threads => i = j

Own(j) == ContextOf(header[j], id[j])

\* The context is what the blocks say: none is open, that of the execution,
\* or a new_request_context in it as well.
BlocksInv ==
  \A j \in Jobs :
    \/ state[j] \notin Running /\ blocks[j] = <<>>
    \/ /\ state[j] \in Running
       /\ blocks[j] = <<BlockOf(Empty, Own(j))>>
       /\ Context(j) = Own(j)
    \/ /\ state[j] \in Running \ {"ending"}
       /\ blocks[j] = <<BlockOf(Empty, Own(j)), BlockOf(Own(j), NewRequest(Own(j), j))>>
       /\ Context(j) = Update(Own(j), NewRequest(Own(j), j))

TracedIInv == DispatchInv /\ TracedTypeOK /\ ThreadsApart /\ HeaderInv /\ BlocksInv
=============================================================================
