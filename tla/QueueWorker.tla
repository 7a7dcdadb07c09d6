----------------------------- MODULE QueueWorker -----------------------------
(***************************************************************************)
(* QueueWorkerThread of utils/queue_worker.py: a worker thread that runs   *)
(* queued jobs, started on demand by whoever queues one.                   *)
(*                                                                         *)
(* A producer is one call of queue(), and stands for its job; a stopper is *)
(* one call of stop(); an exiter is one run of main_thread_terminated.     *)
(* They and the worker threads interleave between any two accesses to what *)
(* they share.  What a call does while it holds _lock, and nobody reads    *)
(* without the lock, is one step.                                          *)
(*                                                                         *)
(* The constructor has run: a first thread is there.  The process does not *)
(* fork.  A job may call stop() on its own worker, once.                   *)
(***************************************************************************)
EXTENDS Integers, Sequences, FiniteSets

CONSTANTS
  Producers,     \* calls of queue()
  Stoppers,      \* calls of stop()
  Exiters,       \* runs of the atexit handler
  Workers,       \* the threads that may ever be started
  First,         \* the one the constructor started
  None,          \* _thread is None, or no record
  Terminator     \* the _terminator record

Callers == Producers \cup Stoppers \cup Exiters

ASSUME ConstantAssumption ==
  /\ IsFiniteSet(Workers)
  /\ First \in Workers /\ None \notin Workers
  /\ Terminator \notin Producers /\ None \notin Producers /\ None # Terminator
  /\ None \notin Callers /\ Workers \cap Callers = {}
  /\ Producers \cap (Stoppers \cup Exiters) = {}
  /\ Stoppers \cap Exiters = {}

VARIABLES
  pc,          \* where each call is
  lock,        \* who holds _lock: a call, or a thread whose job called stop()
  thread,      \* _thread
  forPid,      \* _thread_for_pid is our pid
  queue,       \* the records in _queue
  unfinished,  \* its unfinished_tasks
  worker,      \* where each thread is
  record,      \* the record it has
  ended,       \* history: the jobs whose callback is over
  ahead        \* history: the jobs not over when a stop() queued its record

vars == <<pc, lock, thread, forPid, queue, unfinished, worker, record, ended, ahead>>

Goto(c, step) == pc' = [pc EXCEPT ![c] = step]

ThreadAlive(w) == worker[w] \notin {"unborn", "dead", "killed"}

\* A job is queued; and then it may have called stop().
Accepted(j) == pc[j] \in {"queued", "stops"}

Init ==
  /\ pc = [c \in Callers |-> "idle"]
  /\ lock = None
  /\ thread = First
  /\ forPid = TRUE
  /\ queue = <<>>
  /\ unfinished = 0
  /\ worker = [w \in Workers |-> IF w = First THEN "get" ELSE "unborn"]
  /\ record = [w \in Workers |-> None]
  /\ ended = {}
  /\ ahead = [s \in Stoppers |-> {}]

-----------------------------------------------------------------------------
(* queue(callback) *)

\* is_alive(), up to the first reading of self._thread.
AskAlive(p) ==
  /\ pc[p] = "idle"
  /\ Goto(p, IF forPid /\ thread # None THEN "recheck" ELSE "start")
  /\ UNCHANGED <<lock, thread, forPid, queue, unfinished, worker, record, ended, ahead>>

\* Its second reading, `self._thread.is_alive()': a stop() in between makes
\* it an AttributeError, and the job is not queued.
RecheckAlive(p) ==
  /\ pc[p] = "recheck"
  /\ Goto(p, IF thread = None THEN "raised"
             ELSE IF ThreadAlive(thread) THEN "put" ELSE "start")
  /\ UNCHANGED <<lock, thread, forPid, queue, unfinished, worker, record, ended, ahead>>

\* Faulty variant: start() does not look again under the lock.
StartAnyway(p) ==
  /\ pc[p] = "start"
  /\ lock = None
  /\ \E w \in Workers :
       /\ worker[w] = "unborn"
       /\ worker' = [worker EXCEPT ![w] = "get"]
       /\ thread' = w
       /\ forPid' = TRUE
  /\ Goto(p, "put")
  /\ UNCHANGED <<lock, queue, unfinished, record, ended, ahead>>

\* start(): under the lock, start a new thread if there is none alive.
Start(p) ==
  /\ pc[p] = "start"
  /\ lock = None
  /\ IF forPid /\ thread # None /\ ThreadAlive(thread)
       THEN UNCHANGED <<worker, thread, forPid>>
       ELSE \E w \in Workers :
              /\ worker[w] = "unborn"
              /\ worker' = [worker EXCEPT ![w] = "get"]
              /\ thread' = w
              /\ forPid' = TRUE
  /\ Goto(p, "put")
  /\ UNCHANGED <<lock, queue, unfinished, record, ended, ahead>>

\* Queue.put_nowait
Put(r) ==
  /\ queue' = Append(queue, r)
  /\ unfinished' = unfinished + 1

PutJob(p) ==
  /\ pc[p] = "put"
  /\ Put(p)
  /\ Goto(p, "queued")
  /\ UNCHANGED <<lock, thread, forPid, worker, record, ended, ahead>>

-----------------------------------------------------------------------------
(* stop(timeout) *)

\* stop() takes the lock; without a thread it has nothing to do.
StopNothing(s) ==
  /\ pc[s] = "idle"
  /\ lock = None
  /\ thread = None
  /\ Goto(s, "returned")
  /\ UNCHANGED <<lock, thread, forPid, queue, unfinished, worker, record, ended, ahead>>

\* Faulty variant: the thread is joined without a terminator.
StopUnannounced(s) ==
  /\ pc[s] = "idle"
  /\ lock = None
  /\ thread # None
  /\ lock' = s
  /\ Goto(s, "joining")
  /\ UNCHANGED <<thread, forPid, queue, unfinished, worker, record, ended, ahead>>

\* Else it queues the terminator and joins the thread, with the lock held.
StopQueues(s) ==
  /\ pc[s] = "idle"
  /\ lock = None
  /\ thread # None
  /\ lock' = s
  /\ Put(Terminator)
  /\ ahead' = [ahead EXCEPT ![s] = {j \in Producers : Accepted(j)} \ ended]
  /\ Goto(s, "joining")
  /\ UNCHANGED <<thread, forPid, worker, record, ended>>

\* Faulty variant: stop() does not join.
StopAtOnce(s) ==
  /\ pc[s] = "joining"
  /\ thread' = None
  /\ forPid' = FALSE
  /\ lock' = None
  /\ Goto(s, "stopped")
  /\ UNCHANGED <<queue, unfinished, worker, record, ended, ahead>>

\* self._thread.join(timeout=timeout) returns: the thread is dead ...
StopReturns(s) ==
  /\ pc[s] = "joining"
  /\ ~ThreadAlive(thread)
  /\ thread' = None
  /\ forPid' = FALSE
  /\ lock' = None
  /\ Goto(s, "stopped")
  /\ UNCHANGED <<queue, unfinished, worker, record, ended, ahead>>

\* ... or there is a timeout, which ran out.
StopGivesUp(s) ==
  /\ pc[s] = "joining"
  /\ ThreadAlive(thread)
  /\ thread' = None
  /\ forPid' = FALSE
  /\ lock' = None
  /\ Goto(s, "gave_up")
  /\ UNCHANGED <<queue, unfinished, worker, record, ended, ahead>>

-----------------------------------------------------------------------------
(* main_thread_terminated *)

ExitNothing(e) ==
  /\ pc[e] = "idle"
  /\ lock = None
  /\ ~(forPid /\ thread # None /\ ThreadAlive(thread))
  /\ Goto(e, "returned")
  /\ UNCHANGED <<lock, thread, forPid, queue, unfinished, worker, record, ended, ahead>>

ExitQueues(e) ==
  /\ pc[e] = "idle"
  /\ lock = None
  /\ forPid /\ thread # None /\ ThreadAlive(thread)
  /\ lock' = e
  /\ Put(Terminator)
  /\ Goto(e, "joining")
  /\ UNCHANGED <<thread, forPid, worker, record, ended, ahead>>

\* _timed_queue_join, the two times together: unfinished_tasks is zero ...
ExitReturns(e) ==
  /\ pc[e] = "joining"
  /\ unfinished = 0
  /\ thread' = None
  /\ lock' = None
  /\ Goto(e, "drained")
  /\ UNCHANGED <<forPid, queue, unfinished, worker, record, ended, ahead>>

\* ... or shutdown_timeout has passed.
ExitGivesUp(e) ==
  /\ pc[e] = "joining"
  /\ unfinished # 0
  /\ thread' = None
  /\ lock' = None
  /\ Goto(e, "gave_up")
  /\ UNCHANGED <<forPid, queue, unfinished, worker, record, ended, ahead>>

-----------------------------------------------------------------------------
(* _target, the worker thread. *)

\* Faulty variant: the record counts as done when it is taken.
GetIsDone(w) ==
  /\ worker[w] = "get"
  /\ queue # <<>>
  /\ record' = [record EXCEPT ![w] = Head(queue)]
  /\ queue' = Tail(queue)
  /\ unfinished' = unfinished - 1
  /\ worker' = [worker EXCEPT ![w] = IF Head(queue) = Terminator THEN "break" ELSE "run"]
  /\ UNCHANGED <<pc, lock, thread, forPid, ended, ahead>>

\* record = self._queue.get()
Get(w) ==
  /\ worker[w] = "get"
  /\ queue # <<>>
  /\ record' = [record EXCEPT ![w] = Head(queue)]
  /\ queue' = Tail(queue)
  /\ worker' = [worker EXCEPT ![w] = IF Head(queue) = Terminator THEN "break" ELSE "run"]
  /\ UNCHANGED <<pc, lock, thread, forPid, unfinished, ended, ahead>>

\* callback(*args, **kwargs) returns, or raises an Exception, which is logged.
RunJob(w) ==
  /\ worker[w] = "run"
  /\ ended' = ended \cup {record[w]}
  /\ worker' = [worker EXCEPT ![w] = "next"]
  /\ UNCHANGED <<pc, lock, thread, forPid, queue, unfinished, record, ahead>>

\* It raises what is no Exception: that ends the thread.
JobKills(w) ==
  /\ worker[w] = "run"
  /\ ended' = ended \cup {record[w]}
  /\ worker' = [worker EXCEPT ![w] = "kill"]
  /\ UNCHANGED <<pc, lock, thread, forPid, queue, unfinished, record, ahead>>

\* The job calls stop() on its worker ...
JobAsksStop(w) ==
  /\ worker[w] = "run"
  /\ pc[record[w]] = "queued"
  /\ Goto(record[w], "stops")
  /\ worker' = [worker EXCEPT ![w] = "asks"]
  /\ UNCHANGED <<lock, thread, forPid, queue, unfinished, record, ended, ahead>>

\* ... and has the lock.  If it is of the thread it runs in, the terminator is
\* queued, and join() raises RuntimeError.
JobStops(w) ==
  /\ worker[w] = "asks"
  /\ lock = None
  /\ \/ thread = w /\ Put(Terminator)
     \/ thread = None /\ UNCHANGED <<queue, unfinished>>
  /\ worker' = [worker EXCEPT ![w] = "run"]
  /\ UNCHANGED <<pc, lock, thread, forPid, record, ended, ahead>>

\* Its own thread was forgotten, and it is another one that it stops.
JobJoins(w) ==
  /\ worker[w] = "asks"
  /\ lock = None
  /\ thread \notin {None, w}
  /\ lock' = w
  /\ Put(Terminator)
  /\ worker' = [worker EXCEPT ![w] = "joins"]
  /\ UNCHANGED <<pc, thread, forPid, record, ended, ahead>>

JobJoined(w) ==
  /\ thread' = None
  /\ forPid' = FALSE
  /\ lock' = None
  /\ worker' = [worker EXCEPT ![w] = "run"]
  /\ UNCHANGED <<pc, queue, unfinished, record, ended, ahead>>

\* As for any other stop(), the other thread is dead, or the timeout ran out.
JobReturns(w) == worker[w] = "joins" /\ ~ThreadAlive(thread) /\ JobJoined(w)
JobGivesUp(w) == worker[w] = "joins" /\ ThreadAlive(thread) /\ JobJoined(w)

\* Faulty variant: the loop is left after any record.
TaskDoneOnce(w) ==
  /\ worker[w] \in {"next", "break", "kill"}
  /\ unfinished' = unfinished - 1
  /\ record' = [record EXCEPT ![w] = None]
  /\ worker' = [worker EXCEPT ![w] = IF @ = "kill" THEN "dying" ELSE "exiting"]
  /\ UNCHANGED <<pc, lock, thread, forPid, queue, ended, ahead>>

\* finally: self._queue.task_done(); then the loop goes on or is left.
TaskDone(w) ==
  /\ worker[w] \in {"next", "break", "kill"}
  /\ unfinished' = unfinished - 1
  /\ record' = [record EXCEPT ![w] = None]
  /\ worker' = [worker EXCEPT ![w] = CASE @ = "next" -> "get"
                                         [] @ = "break" -> "exiting"
                                         [] OTHER -> "dying"]
  /\ UNCHANGED <<pc, lock, thread, forPid, queue, ended, ahead>>

\* The thread is over; until here its is_alive() is true.
ThreadEnds(w) ==
  /\ worker[w] \in {"exiting", "dying"}
  /\ worker' = [worker EXCEPT ![w] = IF @ = "exiting" THEN "dead" ELSE "killed"]
  /\ UNCHANGED <<pc, lock, thread, forPid, queue, unfinished, record, ended, ahead>>

-----------------------------------------------------------------------------

Queueing(p) == AskAlive(p) \/ RecheckAlive(p) \/ Start(p) \/ PutJob(p)

Working(w) ==
  \/ Get(w) \/ RunJob(w) \/ JobKills(w) \/ TaskDone(w) \/ ThreadEnds(w)
  \/ JobAsksStop(w) \/ JobStops(w) \/ JobJoins(w) \/ JobReturns(w)

Stopping(s) ==
  StopNothing(s) \/ StopQueues(s) \/ StopReturns(s) \/ StopGivesUp(s)

Exiting(e) ==
  ExitNothing(e) \/ ExitQueues(e) \/ ExitReturns(e) \/ ExitGivesUp(e)

Next ==
  \/ \E p \in Producers : Queueing(p)
  \/ \E s \in Stoppers : Stopping(s)
  \/ \E e \in Exiters : Exiting(e)
  \/ \E w \in Workers : Working(w) \/ JobGivesUp(w)

Spec == Init /\ [][Next]_vars

\* Threads are scheduled, and jobs end.  No wait need ever be given up.
FairSpec ==
  /\ Spec
  /\ \A w \in Workers : WF_vars(Working(w))
  /\ \A p \in Producers : WF_vars(Queueing(p))
  /\ \A s \in Stoppers : WF_vars(StopReturns(s))

-----------------------------------------------------------------------------

TypeOK ==
  /\ pc \in [Callers -> {"idle", "recheck", "raised", "start", "put", "queued", "stops",
                         "returned", "joining", "stopped", "gave_up", "drained"}]
  /\ lock \in Callers \cup Workers \cup {None}
  /\ thread \in Workers \cup {None}
  /\ forPid \in BOOLEAN
  /\ queue \in Seq(Producers \cup {Terminator})
  /\ unfinished \in Nat
  /\ worker \in [Workers -> {"unborn", "get", "run", "asks", "joins", "next", "break",
                              "kill", "exiting", "dying", "dead", "killed"}]
  /\ record \in [Workers -> Producers \cup {Terminator, None}]
  /\ ended \in SUBSET Producers
  /\ ahead \in [Stoppers -> SUBSET Producers]

\* What _timed_queue_join waits for is that every job accepted so far is
\* over, whoever queued it meanwhile and however many threads there are.
JoinMeansDone == unfinished = 0 => \A j \in Producers : Accepted(j) => j \in ended

\* A wait for the worker was given up.
GaveUp == \E c \in Callers : pc[c] = "gave_up"

\* A job has killed its thread.
Killed == \E w \in Workers : worker[w] \in {"kill", "dying", "killed"}

InLoop(w) == worker[w] \in {"get", "run", "asks", "joins", "next"}

\* A job has called stop() on its worker.
SelfStopped == \E j \in Producers : pc[j] = "stops"

\* Until somebody gives up waiting for it, no thread is forgotten: there is
\* never a second one to run jobs beside the first, out of order.
OneWorker == ~GaveUp => \A v, w \in Workers : InLoop(v) /\ InLoop(w) => v = w

\* `Stops the task thread. Synchronous!': when stop() returns without having
\* given up, every job queued before it is over, if none killed the thread or
\* has queued a terminator before that of the stop().
StopDrains ==
  ~GaveUp /\ ~Killed /\ ~SelfStopped =>
    \A s \in Stoppers : pc[s] = "stopped" => ahead[s] \subseteq ended

\* stop() returns without having to give up, whatever else is stopped, started
\* or queued and whatever jobs do, if nobody gives up: a thread that was given
\* up lives on, and may take the terminator meant for the next one.  But a job
\* that calls stop() may wait for the lock of the stop() that waits for it.
StopTerminates ==
  [](~GaveUp /\ ~SelfStopped) =>
    \A s \in Stoppers : pc[s] = "joining" ~> pc[s] = "stopped"

\* A job that queue() accepted is run, if nothing ends a worker and no job
\* waits for one that waits for it.
QueuedJobRuns ==
  [](~SelfStopped /\ \A w \in Workers : worker[w] \notin {"break", "kill"}) =>
    \A j \in Producers : pc[j] = "start" \/ Accepted(j) ~> j \in ended
-----------------------------------------------------------------------------
(* The invariant the proofs use. *)

Busy ==
  {w \in Workers : worker[w] \in {"run", "asks", "joins", "next", "break", "kill"}}

\* unfinished_tasks counts the records in the queue and with the threads.
Counted == unfinished = Len(queue) + Cardinality(Busy)

\* A job that was accepted is in the queue, with a thread, or over.
Queued(j) == \E i \in DOMAIN queue : queue[i] = j

JobsAccountedFor ==
  \A j \in Producers : Accepted(j) =>
    Queued(j) \/ (\E w \in Busy : record[w] = j) \/ j \in ended

\* A thread that has run its job and not yet said so has it in `ended'.
RunMeansEnded ==
  \A w \in Workers :
    /\ worker[w] \in {"run", "asks", "joins"} => record[w] \in Producers
    /\ worker[w] \in {"next", "kill"} => record[w] \in ended
    /\ worker[w] = "break" => record[w] = Terminator

CountInv == TypeOK /\ Counted /\ JobsAccountedFor /\ RunMeansEnded

\* While nobody has given up, a thread in its loop is the one in _thread, so that
\* no job joins another, and one being waited for has a terminator before it.
NoOrphan ==
  \A w \in Workers : InLoop(w) => thread = w /\ worker[w] # "joins"

TerminatorAhead ==
  \A e \in Exiters : pc[e] = "joining" =>
    \/ thread \in Workers /\ ~InLoop(thread)
    \/ \E i \in DOMAIN queue : queue[i] = Terminator

JoinersHoldLock ==
  \A c \in Stoppers \cup Exiters : pc[c] = "joining" => lock = c /\ thread # None

PidKnown == thread # None => forPid

ThreadInv ==
  ~GaveUp => NoOrphan /\ TerminatorAhead /\ JoinersHoldLock /\ PidKnown

IInv == CountInv /\ ThreadInv

\* While, besides, no job has killed its thread or stopped it, there is a terminator
\* in the queue only while its caller waits for the thread to get there, and only
\* that one, behind what had been queued: so the thread leaves its loop when
\* those jobs are over, and whoever stops it next meets a thread in its loop.
Calm == ~GaveUp /\ ~Killed /\ ~SelfStopped

Joining == {c \in Stoppers \cup Exiters : pc[c] = "joining"}

Terminators == {i \in DOMAIN queue : queue[i] = Terminator}

Settled == Joining = {} =>
  /\ Terminators = {}
  /\ thread # None => InLoop(thread)

\* The job is with the thread, or in the queue before the record at k.
ToRunBefore(j, k) ==
  \/ thread \in Busy /\ record[thread] = j
  \/ \E i \in 1 .. k - 1 : queue[i] = j

Announced == InLoop(thread) /\ \E k \in Terminators :
  /\ Terminators = {k}
  /\ \A s \in Joining \cap Stoppers : \A j \in ahead[s] \ ended : ToRunBefore(j, k)

TakenOut ==
  /\ ~InLoop(thread)
  /\ Terminators = {}
  /\ \A s \in Joining \cap Stoppers : ahead[s] \subseteq ended

AllOver == \A s \in Stoppers : pc[s] = "stopped" => ahead[s] \subseteq ended

StopsOf == \A w \in Workers : worker[w] \in {"asks", "joins"} => SelfStopped

Drained == Settled /\ AllOver /\ (Joining # {} => Announced \/ TakenOut)

DrainInv == StopsOf /\ (Calm => Drained)
=============================================================================
