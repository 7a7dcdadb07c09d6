# Verification of smpio/python-utils

`python-utils` is a library: helpers that Django, Celery and WSGI programs of one
team share.  Most of its 78 files are thin adapters.  What is hard in it is in
a few places where several threads, processes or servers meet: Redis locks, two
rate limiters, a queue worker thread, a Kubernetes watcher, the way Celery tasks
send each other across transactions, the contexts that carry request ids around,
the idle counter's socket files and its seconds, and view sets whose clients know
objects by a key.  Two more are hard for what they may be given: the check of
pre-deploy migrations, and the helpers that save batches and try again.  The repository has no
tests; what a component promises is taken from its docstrings, comments and log
messages, and where they say nothing, from what its callers cannot do without.

This directory holds TLA+ modules of these components, the configurations that
model-check them with TLC, and proofs that TLAPS checks.

- [Inventory](#inventory)
- [Modules and how they correspond to the code](#modules-and-how-they-correspond-to-the-code)
- [Runs, bounds and what they show](#runs-bounds-and-what-they-show)
- [Fairness](#fairness)
- [Where the code does not do what it says](#where-the-code-does-not-do-what-it-says)
- [Proofs](#proofs)
- [Only model-checked](#only-model-checked)
- [Not modelled](#not-modelled)
- [Plan](#plan)

## Inventory

| Component | Source | State | Operations | Interacts with | What is hard |
|---|---|---|---|---|---|
| Redis locks | `utils/lock.py:18-92` | in Redis, the value under the lock's name and its expiry; in the process, a `RedLock` and the `do_loop` flag of a daemon thread | `get_lock`, `get_long_lock`: acquire, deny, release; `LongLockUpdateThread`: run, stop | Redis, shared by all processes | leases that lapse; the refresher writes without looking at what is there and outlives its block; calls fail, processes die |
| Rate limiter | `utils/lock.py:95-181` | in Redis, the last slot and its expiry | `wait` | Redis | the clock is read in one round trip and used in another; the key expires in whole seconds |
| Locking rate limiter | `utils/lock.py:188-273` | in Redis, a list with a baton (the time the next frame may open) and a flag that there is one, each with an expiry; the queue of blocked `BLPOP`s | `get_time_frame`: enter, leave | Redis | seven commands that interleave; a holder that dies; timeouts that race a late baton |
| Queue worker | `utils/queue_worker.py` | `_thread`, `_thread_for_pid`, `_lock`, the queue with its `unfinished_tasks` | `queue`, `start`, `stop`, `main_thread_terminated`, the thread's `_target` | threads of one process; jobs that are callbacks | reads without the lock; a wait with the lock held; waits that are given up; jobs that kill their thread, or stop it |
| Kubernetes watcher | `utils/kubernetes/watch.py` | `db`, `resource_version`, where its generator is | iterate: list, initial events, restart, stream | the API server, a consumer | a generator that is left and taken up anywhere; compaction; objects that go while nobody watches |
| Celery tasks | `utils/celery.py`, `utils/django/celery/` | messages, open transactions and their `on_commit` callbacks, time limits | `apply_async`, atomic tasks, `claim_time_limit` | broker, database, each other | what is rolled back must not be sent, what is committed must; a worker dies in between |
| Idle counter | `utils/wsgi/middeware/idle_counter.py` | `_init`, `thread_status_map`, a server thread and its socket file per worker | requests, `_init`, `cleanup`, the handler, `read_all_metrics`, `MetriczView`; `WorkerStatus` counts | the threads of all workers, the file system, a scraper | first requests that race; files of the dead; a scrape that removes by name; files that cannot be removed; seconds read in the middle of a change |
| Supervised threads, watchdog, signals | `utils/threading.py`, `utils/watchdog.py`, `utils/signal.py` | a queue of results, `do_loop` | `start_all`, `wait_any`, `run`, `stop` | threads of one process | whose end is reported, and how often |
| Log context, tracing | `utils/log_context.py`, `utils/celery.py:10-47`, `utils/django/wsgi_middleware.py` | thread-local variables; headers of messages | `log_context`, `new_request_context`, `apply_async`, `__call__`, `trace` | each other, across processes | nesting, exceptions, and the ids' way from request to task to task |
| Pre-deploy migrations | `utils/django/commands/migrate_predeploy.py` | the database's tables, `new_models` | check a plan, run it | Django's migrations | a plan that old code cannot live with |
| Retries, batches, chunks | `utils/__init__.py`, `utils/django/db.py` | lists of objects to create and to update, counts of tries | `retry_on_exception`, `retry_on_connection_close`, `chunks`, `bulk_save` | the database, each other | a batch that fails, and is flushed again on the way out; commits that fail or are not heard of, and what they leave in memory; counts that nest |
| Redirecting and update-new view sets, write-once fields | `utils/django/viewsets.py`, `utils/django/serializers/mixins.py` | the rows; what a client remembers of a permanent redirect | `retrieve`, `update`, `partial_update`, `destroy`, `create` by key; the same by pk | HTTP clients, the database | other requests between the redirect and what follows it |
| HTTP client rate limit | `utils/httpapiclient.py` | none of its own | `request` | several locking rate limiters | limiters opened in turn, in other orders elsewhere |
| Other view sets and serializers, middleware, settings, log configuration, Sentry processors, users, commands, enumerations | the rest of `utils/` | none, or Django's | | Django | little: adapters, formats and declarations |

What makes each correct:

- **Locks**: two blocks never both hold the lock with reason to; a release never
  opens somebody else's lock; a name does not stay locked after its holder.
- **Rate limiter**: two calls are let through at least `1 / max_rate_hz` apart.
- **Locking rate limiter**: frames do not overlap, and keep the rate; a frame
  asked for opens at last though holders die.
- **Queue worker**: a job accepted is run, by one thread at a time, in order;
  `stop()` returns, with what was queued before it done; the exit handler's
  wait ends exactly when everything accepted is over.
- **Watcher**: the database is the server's at `resource_version`; a consumer of
  the events sees each object go forward along its history, with events that
  make sense, and catches up.
- **Tasks**: a message is sent if and only if everything it was asked for in is
  committed; a claim for time is granted once and for all.
- **Contexts**: a thread is left as it was found; all that one request leads to is in
  one trace, and each part names the one that asked for it.
- **Pre-deploy migrations**: the code that runs works on the schema it leaves;
  nothing is applied before its time, and all that may be is.
- **Idle counter**: a worker that listens can be found, a scrape that is answered
  with success reports everybody who lives through it, files of the dead go, and a
  second is counted once.
- **View sets**: a write goes to the object of the key it was sent to, makes one only
  when there is none, and leaves write-once fields alone.
- **Batches**: a job that ends well has saved everything that it could know to be
  unsaved, and inserts nothing again but what it could not know to be there; errors
  are given up only when every try is used.

## Modules and how they correspond to the code

Each module says in its head what it takes as external.  Redis, the `redlock`
library, Celery and its broker, Django's transactions, Python's `queue` and
`threading`, sockets, and the Kubernetes API server are not in the repository:
the operators for them (a `SET NX PX`, a `BLPOP`, `on_commit`, `bind`) are
modelled from how the code uses them.

**RedisLock** (`MCRedisLock`, `RedisLockProofs`).  A *session* is one execution
of a `with` block; since every `RedLock` object makes a value of its own, the
session stands for that value.  `key` and `ttl` are the Redis key, `pc` the
block's thread, `refresher` and `doLoop` the `LongLockUpdateThread`, and `timer`
the sleep it has left (or the lease of a plain lock, which nobody refreshes).
`Acquire`, `Deny`, `StartThread`, `Release`, `Stop` are the lines of
`get_long_lock` in their order, with what happens when each raises (`StartFails`,
`ReleaseLost`, `ReleaseRaises`, `Crash`); `RefreshCheck`, `RefreshSet`,
`RefreshFail`, `RefreshWake` are the loop of `run`.  A holder is *covered* while
its refresher has not failed, or its plain lease runs: the code cannot keep
others out any longer than that, and no holder is ever told.

**RateLimiter** (`MCRateLimiter`, `RateLimiterProofs`).  A call reads the clock
(`ReadTime`) and runs the Lua script (`RunScript`) in separate steps, between which
up to `MaxStale` passes; `RunScript` is also the start of the sleep (line 167),
so that the time the script's answer takes to arrive is left out: it makes its own call later, and
the next one closer to it by as much.  `NextSlot` and `KeyLife` are the script's arithmetic,
with `EXPIRE` in units of `Res`.

**LockingRateLimiter** (`MCLockingRateLimiter`, `LockingRateLimiterProofs`).  One
action per Redis command of `get_time_frame`, in the code's order, from `GetSet`
to `ExpireList`; `RPush` hands the baton to the longest blocked client, as Redis
does.  Times are countdowns.  `cool` is a history variable, the time to go until
a frame may open at the rate, and `lapsed` says that a `BLPOP` has timed out or
that the `exists` key has been let expire.

**QueueWorker** (`MCQueueWorker`, `QueueWorkerProofs`).  Calls of `queue()`,
`stop()` and the exit handler, and the threads, each with a program counter.
A job may itself call `stop()` (`JobAsksStop` to `JobGivesUp`): as any other caller, but
`join` raises when the thread is its own.
`AskAlive` and `RecheckAlive` are the two unlocked readings of `self._thread` in
`is_alive()`; what runs under `_lock`, and is read by nobody without it, is one
step.  `joining` keeps the lock, as the code does.

**ObjectHistory**, **ObjectMirror**, **KubeWatch** (`MCKubeWatch`, `KubeWatchProofs`).  The server is a
history of changes that may forget a prefix.  `KubeWatch` is the generator: each
step that yields is one with what the consumer makes of the event.  A consumer may
leave the loop at any event; `leftEarly` says that it did so among the initial ones,
before the generator had a `resource_version` (`InitialDone`).
`ObjectMirror` is the abstract specification, what a consumer may rely on: its
view of an object is what that object was at some revision, and only moves
forward.  `FollowsHistory` is the refinement.

**TimeLimits**, **TaskDispatch** (`MCTaskDispatch`, `TracedTasksProofs`).
`TimeLimits` is the arithmetic of `TimeLimitPropertiesMixin` and of
`claim_time_limit`, as operators over a message's limits and the constants of the
class and the configuration.  `TaskDispatch` is a tree of *jobs*, a message and
the execution it leads to.  `depth` counts the atomic blocks an execution has
open, `AtomicMixin`'s among them; `level` is the number of those that a job was
asked for in, and falls as they commit (0: nothing can undo it any more).
`Submit` is `PostTransactionMixin.apply_async`; `ClaimTimeLimit` is the whole of
`claim_time_limit` with the `retry()` it calls.

**TracedTasks** (`TracedTasksProofs`, and `MCTaskDispatch`, which extends it).  TaskDispatch
with the log contexts: each of its actions is conjoined with what `TracingMixin` and
`log_context` do in it.  `context` is `_context` of each thread, `blocks` the
`saved_ctx` of the `log_context` blocks an execution has open, `header` the
`x_log_context` of a message.  `TracingMixin` comes before `PostTransactionMixin` in
`Task`'s bases, so a header is made when the task is asked for, and `Send` stands in
the step of `Submit`, not in that of `RunHook`.  `EnterRequest` and `ExitRequest` are a
`with new_request_context()` in a body.

**MigratePredeploy** (`MCMigratePredeploy`, `DjangoProofs`).  `Plan`, `RStrip`, `LooksSafe` and `Migrated` are
the functions of the command; `Predeploy` is `handle()`.  A migration is one operation on
one table, of the kinds that the check tells apart: "index" stands for `safe_ops`, "extend"
for what only `predeploy_safe` lets through, "add_required" and "remove" for what may
hurt.  `Works` says when code that was written for some migrations runs on a database
that has others.  `ForwardsPlan`, Django's walk from a migration to all it needs, is the least set
with it that is closed, in the order of writing (`InOrder`) where Django walks depth-first: both
put a migration after those it needs, and no property depends on more.  Releases go on
around the command (`Write`, `Deploy`, `Migrate`).

**IdleCounter** (`MCIdleCounter`, `IdleCounterProofs`).  Request threads, the server threads they start,
and scrapes.  `AskInit`, `CallInit`, `ResetInit` and `Count` are the accesses of
`__call__` to what the threads share; `Stat`, `Remove`, `Bind`, `Listen` those of
the server thread's `run` and `cleanup`; `ListDir`, `Connect`, `RemoveStale`,
`Accept` and the rows those of a scrape and of the handler that answers it.  A worker's
name may be taken at first, by a dead process's socket or by what is no socket
(`Plain`, which `cleanup()` leaves alone).  `os.remove` may fail in both places (`Remove`, `KeepStale`), as the
comment at `idle_counter.py:123` expects, and `connect` may raise what nobody catches (`Denied`).
`kept` is a history variable: `cleanup()` has left a file that was not the worker's own.
`answer` is the HTTP response that a scrape has come to: `do_GET` has sent its 200 before
it reads anything ("streamed"), `MetriczView` answers with 200 or 500 when it is over.

**IdleSeconds** (`MCIdleSeconds.cfg` runs the module itself; `IdleCounterProofs`).  `WorkerStatus` of one thread: the
assignments of `count_request_time`, and the readings of `idle_seconds_total` and
`busy_seconds_total` by the handler, each access to an attribute or to the clock a step:
`LookAtClock` calls `time.time()`, and `Begin`, `CountBusy` and `End` store what it returned.
`spent` is what a stopwatch beside it would say, by the clock as the request thread reads it; a
reading is *quiet* if the request thread stores nothing in it, and `Pending` is how long that
thread has had a reading of the clock in hand that is not stored.

**Upsert** (`MCUpsert`, `DjangoProofs`).  A request is the redirect (`Redirect`, or `Remembered` when the client
was permanently redirected before), `Load` and `Save` or `Delete`, one query each, with other
clients between them.  `ReadOnly`, `Data`, `Partial` and `IsCreate` are what the mixins make of
the serializer: which fields may be written, from the query parameters or the body,
and whether it is a creation.  `missing` is a history variable: there was, at some
time of the request, no object with its key.

**Batches** (`MCBatches`, `DjangoProofs`).  One function decorated with `retry_on_exception` and
`retry_on_connection_close` that saves what `chunks` gives it in a `bulk_save` block.  `SaveObj`,
`BlockEnds`, `Flush` and `FlushedAll` are the block, `ConnectionError`, `TryAgain` and `GiveUp` the
decorators.  A flush succeeds, fails (`FlushFails`), or is committed without an answer (`FlushLost`).
Django sets the pks of a `bulk_create` before the commit and leaves them when that fails, so
that what has a pk in memory (`hasPk`) and what has a row (`hasRow`) are two sets; an object with a
pk and no row is *astray*, at first too, when the program chose its pk.  `unheard` is a
history variable, what this call inserted by a commit that it did not hear of.  The
database is taken to return pks, as PostgreSQL does, the only one that the settings
name (`django/settings.py:32`), and nobody else to touch the rows.

Where one module of proofs is about two or three components, the names that all of them have
carry a prefix in all but one: `StatusSpec` is the specification of `IdleSeconds`, `JobSpec`
that of `Batches`, `ReleaseSpec` that of `MigratePredeploy`, `TracedSpec` that of `TracedTasks`.

Definitions under a comment "Faulty variant" belong to no specification: each is
a plausible mistake in the code, in the place of the definition that follows it,
and shows that a property depends on that definition.

## Runs, bounds and what they show

| Run | Instance | Shows |
|---|---|---|
| `lock` | two long locks, a plain one, TTL 4, Slack 1, everything may fail | `Exclusion`, `HolderKeepsKey`, and that an abandoned key expires |
| `rate_stale` | 4 calls, delay 3, expiry in units of 2, readings up to 2 old, 9 units of time | the rate holds but for the age of one reading; the key forgets nothing when it expires |
| `frames` | 3 frames, delay 1, timeout 2, clients die | one frame at a time and at the rate until a wait lapses; every frame ends |
| `worker` | 2 jobs, 2 `stop()`, an exit handler, 3 threads; jobs may stop their worker | the count of the join is exact, one worker, `stop()` drains and returns, accepted jobs run |
| `watch` | 2 objects, 4 changes, compaction at any time, failures, a consumer that leaves anywhere | snapshot, events, refinement of `ObjectMirror`, catching up |
| `tasks` | 3 jobs on 3 threads, 2 nested blocks, two claims, one retry, an inner context, failures and kills | only what is committed is sent, all of it is, and it runs; a restart suffices; contexts do not leak, all is one trace and names its asker |
| `tasks_restart` | the same | (violated) a restart is not forgotten |
| `idle` | a worker with two threads, one with none, stale files and others, removals that fail, one scraper | a listening worker keeps its file, answers of success are complete, stale files go if they can be removed, initialization serves if the name can be had |
| `status` | one thread, one reader, a clock that goes to 6 | every second is counted once; quiet readings are off by no more than what is pending |
| `predeploy` | every project of up to 4 migrations, two apps, three tables | running code goes on working, post-deploy migrations wait, all that can be is applied |
| `upsert` | 2 clients, 2 keys, 2 values, 3 classes of view set, 2 pks | write-once fields stay, a write hits its key, what is missing is made whole and nothing else |
| `batches` | 3 objects of 2 models, chunks of 2, batches of all, 1 or 2, 2 tries of either kind | what was given is saved unless it is astray, nothing is inserted again but after a commit not heard of, tries are used up and not exceeded |

The inductive invariants (`IInv`) and type invariants of the modules are not among these
properties: the former are proved, and the latter are there for the proofs.

Why the bounds are enough:

- **Locks.** A long lock's refresher writes after its block has released (one
  session), over a key that another acquired (a second), while a plain lease runs
  out (the third).  TTL 4 is the least for which half of it, a lateness of 1 and a
  time left differ.  The key, the timers and the sessions are finite, so the run
  needs no bound on time.
- **Rate limiter.** Four calls: one that sets the key, one that is held back, one
  that finds it expired, and one with a stale reading among them.  `MaxTime` 9 is
  three delays.  The clock only grows, so the run stops there (`CHECK_DEADLOCK
  FALSE`).
- **Frames.** Three: a holder, one that is blocked first and one behind it.
- **Worker.** Two jobs are in order or not; two stops can wait for each other or
  take each other's terminators; three threads are the first, its successor, and
  one beside it.  When all calls are over the process just waits (`CHECK_DEADLOCK
  FALSE`).
- **A job that stops its worker.** Either of the two jobs may, while the other is queued
  before or behind the terminator, and a `stop()` has the lock or waits for it.
- **Watcher.** An object that is deleted while another is modified needs two
  objects and four changes, and leaves room for a compaction between any two.
- **Tasks.** Three jobs are one that sends twice, or a chain of two; two blocks are
  an inner and an outer.  When all jobs are over nothing is left to do
  (`CHECK_DEADLOCK FALSE`).  There is a thread for each job, since no body need end.
  Only Root opens an inner context (`Inner`): both what it sends from there and what it
  sends afterwards is then there.  The claims are one between the configured limit and
  the class's, and one beyond both.
- **Idle counter.** Two threads race for `_init`; a second worker without threads
  keeps the scrape going; one scraper is what a Prometheus target has.  Workers
  end at most once, scrapes go on for ever.
- **Migrations.** Four leave room for a table that is there already, one that is new,
  and two operations on them in either app; two tables of one app and one of another
  with the same model name are enough to take one for another.  When everything is
  written and applied nothing is left to do (`CHECK_DEADLOCK FALSE`).
- **Seconds.** A clock of 6 leaves moments before a request, in it and after it, between a
  reading of the clock and its store, and inside a scrape's reading, or several for one of
  these; when it stands at the end, requests and readings go on at that moment.
- **View sets.** One client's request, and another that creates, changes or deletes in
  between; two pks are the object and a second one for its key.  The three classes differ
  in everything the code looks at: redirects for good or not, keys unique or not, fixed or
  not, declared or not.  A request that would need a third pk waits (`CHECK_DEADLOCK FALSE`).
- **Batches.** Three objects are a full chunk and one that is not, a full batch and
  one that is not, and two lists; two tries of either kind, one nested in the other, are
  enough for a count that is off by one.  At first any objects have pks and any of these
  rows.  When the job is over nothing is left to do
  (`CHECK_DEADLOCK FALSE`).

The constants are small, but the exclusion, rate, counting and commit properties
are also proved for all values, see below.

## Fairness

- `RedisLock`: time passes, refreshers run, and a block that has released goes on
  to `stop()`, the next line.  Nothing is assumed of bodies: they may run for ever.
- `LockingRateLimiter`: time passes, and a client goes on with its commands; bodies
  end, since a frame that never ends is nobody's turn.
- `QueueWorker`: threads are scheduled and jobs end; no wait need ever be given up,
  and nobody has to call `stop()`.  `StopTerminates` and `QueuedJobRuns` name their
  premises in the formula: without them the code does not keep them (a thread that
  was given up takes the next one's terminator; a job put behind a terminator waits
  for the next `queue()`; a job that calls `stop()` may find the lock with a `stop()` that
  joins its own thread).
- `KubeWatch`: the consumer keeps asking for the next event and iterates again after
  an exception.  `Receive` is strongly fair: a stream may close before any event, but
  it stays open for minutes, so not before every event.  `CatchesUp` is of behaviours
  in which the server at last stops changing, requests at last stop failing and the
  consumer at last stops breaking out.
- `TaskDispatch`: workers take messages; Celery and Django go on with what is theirs
  (callbacks, rolling back, leaving contexts).  Bodies need not end.  `TracedFairSpec`
  is the same with the contexts.
- `IdleCounter`: server threads are scheduled and there is always another scrape;
  requests need not come.  Nothing is assumed of `os.remove` and `connect`: `StaleFilesGo`
  excepts behaviours in which a scrape again and again fails to connect to some file other than by
  refusal, or to remove this one, and `InitServes` workers with `kept`.
- `IdleSeconds`, `Upsert`, `Batches` and `MigratePredeploy` promise nothing that must happen, and
  assume no fairness.

## Where the code does not do what it says

- `tasks_restart`: `claim_time_limit` in an atomic task, or in any open transaction,
  is a restart that is never sent: `retry()` registers it for the commit, and the
  `Retry` it raises rolls the transaction back (`celery.py:119`, `mixins.py:15`).

More that the models show and keep as the code has it.  A property that such a case
would break names it as a premise, and holds in all others:

- **Watcher.** `handle_restart` deletes from `self.db` while it iterates over it
  (`watch.py:121`): a restart that finds an object gone yields its `DELETED` event and then
  raises `RuntimeError`.  The database stays good for another iteration.  A consumer
  that leaves among the initial events announces them as `ADDED` again when it comes back, and
  keeps in `db` what is gone by then until the next restart.
- **Idle counter.** A refused connection is taken for a dead worker's and the file removed
  (`idle_counter.py:171`).  Between `bind()` and `listen()` a living worker refuses too, and
  is never scraped again.  A scrape that raises has already been answered with 200 by `do_GET`, and
  any `OSError` of `connect` but a refusal makes it raise, for one file.
  `cleanup()` passes over an `os.remove` that fails and over what is no socket; if
  the name is still taken, `bind()` raises, the server thread ends, and since `_init` is not run
  again that worker is never scraped (`kept` in `InitServes`).
- **Idle seconds.** A reading that a request's beginning or end disturbs may count a gap
  twice or not at all.  One between `time.time()` and the store of its result (lines 70 and 73) is off by
  what has gone by since: a scrape may see idle seconds that the next does not have
  any more.  `OffByPending` says that there is nothing else.  A request that raises is counted neither as idle nor as busy, so
  that the busy seconds seen during it are taken back when it ends.
- **Pre-deploy migrations.** `get_plan` collects and checks what all apps have unapplied, and
  `handle` migrates to the plan's last migration only (`migrate_predeploy.py:51`).  What that one
  does not depend on is left out without an error.  `MigratesToLatest` is of plans of one app.
- **Queue worker.** A job that calls `stop()` while another `stop()` has the lock waits for it,
  and the other for the job's thread.  If it has the lock itself, its terminator is queued and
  `join` raises in the job: the thread goes on as far as the terminator, and what was queued
  behind that waits for the next `queue()`.
- **View sets.** A `PUT` or `PATCH` writes the whole instance as it was read, over
  what others changed meanwhile, and inserts the row again that another client
  deleted.  Two clients that find no object at the same time both make one, unless the key is unique.
- **Batches.** When a flush fails, `finally` flushes again what is left in the lists, the failed
  batch included.  If its commit went through and was only not heard of, its objects are
  inserted again by that, and the `IntegrityError` takes the place of the connection's error,
  which would have been tried again (`InsertedOnce` has it as its exception).  If its commit failed, its
  objects have pks all the same: when the function is called again, `save` takes them
  for rows to update, `bulk_update` matches none, and the job ends well with nothing saved.  So it
  does with objects whose pk the program chose (`Astray` in `GivenIsSaved`).

The docstring of `DistributedLockingRateLimiter` (`lock.py:190`) speaks of a rate and of locking.
When more frames queue than `timeout` has room for, a `BLPOP` gives up and its frame opens
without the baton; from then on there are two.  No failure is needed: four frames at
a delay of 1 and a timeout of 2 suffice.  `ExclusiveUntilLapse` and `RateKeptUntilLapse` say that
nothing else leads to it, `ExclusiveForever` and `RateForever` that without a timeout nothing
does; but then a dead holder stops everybody.

`DistributedRateLimiter` promises its rate (`lock.py:97`), and keeps it but for the time
between the reading of the clock at line 158 and the script: a stale reading makes the
script write an earlier slot than the caller's.  `RateKeptButForStaleness` says how much
that can be, and `AtRateIfFresh` that there is nothing else.

A restarted task keeps its id (`retry()` sends it again), so that its `parent_request_id` is
its own `request_id`: the chain of parents in the logs ends in a loop there.

## Proofs

| Module | Components | Theorems |
|---|---|---|
| `RedisLockProofs` | `RedisLock` | `TypeCorrect`, `MutualExclusion`, `KeyIsKept` |
| `RateLimiterProofs` | `RateLimiter` | `AlmostAtRate`, `AtRateIfFresh`, `ExpiryIsHarmless` |
| `LockingRateLimiterProofs` | `LockingRateLimiter` | `Exclusive`, `RateUntilLapse`, `ExclusiveForever`, `RateForever` |
| `QueueWorkerProofs` | `QueueWorker` | `JoinIsExact`, `NoSecondWorker`, `StopIsSynchronous` |
| `KubeWatchProofs` | `KubeWatch`, `ObjectMirror` | `DatabaseIsSnapshot`, `EventsTellDb`, `EventsFollowOn`, `WatcherFollows` |
| `TracedTasksProofs` | `TimeLimits`, `TaskDispatch`, `TracedTasks` | `SentIsCommitted`, `NothingForgotten`, `ClaimsAreGranted`, `TracedAreTasks`, `TracedKeepPromises`, `BlockRestores`, `ContextsAreLeft`, `TraceIsOne`, `ParentIsAsker` |
| `IdleCounterProofs` | `IdleCounter`, `IdleSeconds` | `OneHasTheFile`, `RowsAreThere`, `SecondsAreCounted`, `ReadingsAreClose` |
| `DjangoProofs` | `Upsert`, `Batches`, `MigratePredeploy` | `FixedStays`, `WritesWhereItWasSent`, `MadeIfMissing`, `ChunksAreItems`, `AllIsSaved`, `NoneIsInsertedTwice`, `CallsAreBounded`, `OldCodeGoesOn`, `LaterIsLater`, `GoesToTheLatest` |

They have one shape: an inductive invariant (`IInv`, or `StatusIInv`, `JobIInv` and so on) holds
initially, every action keeps it, one lemma per action or group of actions, and the theorems
follow from it.  It is under the heading "The invariant the proofs use" at the end of each
component's module, where TLC can check it as well.  The assumptions are the
named `ASSUME`s of the modules.  Every safety and action property that a passing run checks
is the conclusion of a theorem.

Where one would go by induction over a number or over data, the proofs take the least
number for which a statement fails and show that it holds there too: `LeastNat` (or `NatMin`)
is the only use of well-foundedness, and comes from the library's `WFMin`.

**RedisLock** (`MutualExclusion`, `KeyIsKept`), for every set of long and plain locks,
every TTL and every lateness with `2 * Slack < TTL`.  Exclusion alone is not inductive:
a key might expire under a holder.  `KeyOutlivesHorizon` says how long a covered
holder's key has still to live: its refresher is due `TTL \div 2` after the last write
and at most `Slack` late, so at the worst moment something is left.  So a covered
holder's key is there, nobody acquires, and a refresher or a release of another
session does not take it away.  The theorem needs two assumptions that the code leaves
to its user: the bound on lateness, and `MixAssumption`, that plain leases on a name are
no longer than the TTL of the long locks on it.

**RateLimiter** (`AlmostAtRate`, `AtRateIfFresh`, `ExpiryIsHarmless`), for every delay,
resolution and staleness.  `SlotRemembered` is the strengthening: a slot that can still
hold somebody back is no later than the one in the key, and the key lives until then;
`KeyLifeEnough` is the arithmetic of `math.ceil`.

**LockingRateLimiter** (`Exclusive`, `RateUntilLapse`, `ExclusiveForever`, `RateForever`),
for every number of clients, delay and timeout, with deaths.  Until a wait lapses the baton
is in one place, the list or one client (`OneBaton`); its ready time is not before the end
of the cool-down (`BatonHoldsBack`); and nobody has done anything while the `exists` key was
never set (`NothingBefore`), which is why the first client alone makes a baton.

**QueueWorker** (`JoinIsExact`, `NoSecondWorker`, `StopIsSynchronous`), for every number of
calls and every finite set of threads.  `Counted`: `unfinished_tasks` is the length of the
queue and the number of threads with a record, whatever threads die or are given up;
`JobsAccountedFor`: an accepted job is in one of these or over.  So zero means that
everything is over.  `ThreadInv`: while nobody gives up, a thread in its loop is the one
in `_thread`, and one that is waited for has a terminator before it.  Jobs that stop
their own worker are among the steps: `NoOrphan` says that, while nobody gives up, the thread
such a job finds in `_thread` is its own, so that it waits for nobody.  `stop()` drains by
`DrainInv`: while besides no job has killed or stopped its thread, there is a terminator in the
queue only while its caller waits, it is the only one, and what that caller found queued is
with the thread or before it.  A terminator that outlived its caller would make the next
`stop()` return too early; that is what giving up and the two kinds of jobs can leave behind.

**KubeWatch** (`DatabaseIsSnapshot`, `EventsTellDb`, `EventsFollowOn`, `WatcherFollows`), for every set
of objects and every number of changes.  `VersionsInv` says in which phase the list or the
stream is ahead, `ListInv` and `FreshInv` what the loops over `obj_list` have still to do, and
`KnownInv` that whatever is in `db` was on the server.  Stream events need `DbIsSnapshot` itself:
the next one makes the snapshot of the next revision out of that of `resource_version`.
`WatcherFollows` is the refinement, with a lemma per event that its step is one of
`ObjectMirror`'s or a stutter.  The one assumption beside the bounds is that 0, which stands for "not
there", is no object.

**TaskDispatch** (`SentIsCommitted`, `NothingForgotten`, `ClaimsAreGranted`), for every
number of jobs, depth of blocks, limits and claims.  `Levels` says what may become of a
job given the blocks it is still bound to; `Bounded` that these are open; `Depths` that only
an execution in its body or on its way out has any.  `ClaimsAreGranted` rests on
`ClaimGains`, the arithmetic of the time limits for every value of the class's, the
configuration's and the message's limits, missing or 0 included.

**TracedTasks**, for every set of threads and contexts.  `TracedAreTasks` is a refinement
by leaving out: each action of the traced tasks is one of the tasks or, if it only enters
or leaves a context, a stutter.  The theorems of TaskDispatch carry over (`TracedKeepPromises`).
`BlockRestores` is the lemma about `log_context` itself: what is saved on entry, put back, is
the context there was.  With it `BlocksInv` is inductive: a thread's context is `ContextOf` the
header and id of what it executes, or that with one new request in it, and empty without.
`HeaderInv` says what `TracingMixin` put in a message, and `ThreadsApart` that no two executions
share a thread; from these come `TraceIsOne` and `ParentIsAsker`.

**IdleCounter** (`OneHasTheFile`, `RowsAreThere`), for any workers, threads and scrapers.  A server
thread that has yet to bind is the only one that can leave the name without a socket, and it
then takes it, so when all are past `bind()` a listening one has the file, whether removals
succeed or not; a scrape that removed it (`RemoveStale`) is the exception.  For a scrape, each thread its workers had at its start
is still to come, being read, or in the answer.  `RowsAreThere` needs the premise that
the worker did not refuse the connection.

**IdleSeconds** (`SecondsAreCounted`, `ReadingsAreClose`), for every clock.  `TotalsSay`: each
total and the seconds since the last assignment to its row, up to the reading of the clock that
is in hand, are the time spent.  `ReadingHolds`: what a reading that is quiet so far
has taken is still so, and its sum is off by no more than what was pending when it read the clock.

**Upsert** (`FixedStays`, `WritesWhereItWasSent`, `MadeIfMissing`), for any clients, keys, values and
classes of view set.  `FixedInv`: a fixed field is the same in the row and with every
request that has read it, so that whoever saves last writes what was there.  `KeyInv`: where
keys are fixed, every request and every remembered redirect to an object has the key that it
has or had.  `Targets`: a `PUT` goes to `New` only if its key was missing at some time of
the request.  The proof of `HitsItsKey` showed that it has to
except a fixed data field, which no class of the run has.

**Batches** (`ChunksAreItems`, `AllIsSaved`, `NoneIsInsertedTwice`, `CallsAreBounded`), for any objects, models, sizes and
numbers of tries.  `ChunksAreItems` says that `chunks()` of a sequence, by slices, and of an
iterator, by gathering, are the same, and one after the other give every item once and in
order.  `GivenInv`: until a flush fails, what the call was given is still to come, in a list that
will be flushed, saved, or astray.  `RowsInv`: what has a row has a pk, so that it never joins a list
of objects to create; and `ListsInv`: what is in one has a row only by a commit not heard of.
A flush keeps that, since the lists to create are of different models.  `CallsInv` relates the calls to
both counters.

**MigratePredeploy** (`OldCodeGoesOn`, `LaterIsLater`, `GoesToTheLatest`), for any apps and tables and any
history of migrations.  `HistoryInv` is what Django gives: one migration creates a table, and
each needs the last of its app; and that `predeploy_safe` is set on harmless ones alone.
`PlanIs`: the command's plan has every migration that is not applied once, after all it
needs, however the apps' migrations need each other.  `PredeployApplies`: so whatever `migrate` does for
the last of the plan is in the plan and has been looked at; a table that is new to the
plan is in no code that runs, since nothing that is applied has made it.  `GoesToTheLatest` is of plans of one
app, whose migrations are a chain.

## Only model-checked

Liveness (`AbandonedKeyExpires`, `EveryFrameEnds`, `StopTerminates`, `QueuedJobRuns`, `CatchesUp`, `CommittedRuns`,
`StaleFilesGo`, `InitServes`): the proof system has no rules for fairness with `ENABLED` that would
serve here.  `tasks_restart` shows a violation, so that there is nothing to prove.

## Not modelled

`PROJECT.json` lists every part with its reason.  In the modelled parts these are left out:

- a fork of a process with a queue worker: the child has a copy of the queue, the count
  and the lock as they are between any two steps of threads that it does not have, so
  that nothing of what is checked of one process holds of it;
- eager tasks and `explicit_*` limits, which are Celery's calls without a broker;
- schema generation and lists in the view sets;
- migrations with several operations, and model names in mixed case, which the check
  only ever refuses (`model_name` is compared with a lower-case name).

`SupervisedThreadGroup`, `WatchdogThread` and the signal handlers are a few calls of Python's `queue`,
`threading` and `os._exit` each: a model of them would be one of the library.  `RateLimitMixin`
opens the frames of several limiters one inside the other; each is modelled, in
`LockingRateLimiter`, and the order of nesting is the caller's.  The cache helpers leave their
state to Django's cache.

What stays out for good: string layout (logs, Sentry, settings), the adapters of Django and
Django REST framework that keep no state, and the commands that replace their process.

## Plan

The models are as far as the plan had them, and every safety and action property of the passing
runs is proved.  What is left:

1. The safety parts of the liveness properties, stated without fairness: that a `stop()` that
   waits has its terminator ahead of a thread in its loop, as long as nobody gives up
   (`DrainInv` has it for calm behaviours), and that a frame that waits for a baton has somebody to
   push one, as long as no client dies.
2. `RestartIsSent` under the premise that the claim is made outside of every transaction, the case
   in which the code keeps it.
3. `MigratesToLatest`, in the model and then proved, for more than one app: what is left out is what the last migration of the plan does
   not need.
