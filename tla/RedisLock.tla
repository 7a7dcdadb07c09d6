----------------------------- MODULE RedisLock -----------------------------
(***************************************************************************)
(* The Redis locks of utils/lock.py: get_lock, get_long_lock and           *)
(* LongLockUpdateThread, for one lock name kept on one Redis node.         *)
(*                                                                         *)
(* A session is one execution of a `with get_lock(...)' or                 *)
(* `with get_long_lock(...)' block.  Each has a RedLock object of its own, *)
(* whose lock_key is a fresh UUID, so the session stands for the value it  *)
(* stores under the lock's name.  A long session also has a daemon thread  *)
(* that stores the value again every half TTL (the refresher); that thread *)
(* outlives the block, and is the source of most of the behaviour here.    *)
(*                                                                         *)
(* Time is discrete.  Expiry in Redis and time.sleep are countdowns that   *)
(* Tick moves; every other step takes no time.  Slack bounds how late the  *)
(* refresher of a live holder may run (thread start, wake-up and the round *)
(* trip to Redis together): the code needs such a bound and states none.   *)
(***************************************************************************)
EXTENDS Integers

CONSTANTS
  LongSessions,   \* with-blocks of get_long_lock
  PlainSessions,  \* with-blocks of get_lock
  NoKey,          \* the lock's key is absent from Redis
  TTL,            \* long_lock_ttl, the px of a long lock
  Timeout,        \* the px of a plain lock
  Slack,          \* the largest lateness of a refresher
  Faults          \* TRUE: processes and Redis calls may fail

Sessions == LongSessions \cup PlainSessions

ASSUME SessionAssumption ==
  /\ LongSessions \cap PlainSessions = {}
  /\ NoKey \notin Sessions
  /\ Faults \in BOOLEAN

ASSUME TimeAssumption ==
  /\ TTL \in Nat /\ Timeout \in Nat \ {0} /\ Slack \in Nat
  /\ 2 * Slack < TTL

\* A refresher shortens a plain lock's lease to TTL when it overwrites its
\* key, so the two kinds share a name only if a plain lease is no longer.
ASSUME MixAssumption ==
  LongSessions = {} \/ PlainSessions = {} \/ Timeout <= TTL

\* Faulty variant: the refresher sleeps for the whole ttl.
DelayWholeTTL == TTL

\* delay = self.lock.ttl * 0.5 / 1000
Delay == TTL \div 2

VARIABLES
  pc,         \* where the thread that runs the with-block is
  key,        \* the session whose value is stored under the lock's name
  ttl,        \* what is left of that key's life
  refresher,  \* where the session's LongLockUpdateThread is
  doLoop,     \* the thread's do_loop flag
  timer       \* long: sleep left before the next refresh is due, negative
              \* when it is late; plain: what is left of the lease

vars == <<pc, key, ttl, refresher, doLoop, timer>>

\* The block believes it has the lock.
Holding(s) == pc[s] \in {"acquired", "critical"}

\* It has reason to: its refresher did not fail, or its lease still runs.
Covered(s) ==
  /\ Holding(s)
  /\ IF s \in LongSessions THEN refresher[s] # "dead" ELSE timer[s] > 0

Init ==
  /\ pc = [s \in Sessions |-> "idle"]
  /\ key = NoKey
  /\ ttl = 0
  /\ refresher = [s \in Sessions |-> "none"]
  /\ doLoop = [s \in Sessions |-> TRUE]
  /\ timer = [s \in Sessions |-> 0]

-----------------------------------------------------------------------------
(* The thread that runs the with-block. *)

\* RedLock.acquire: SET name value NX PX ttl.
Acquire(s) ==
  /\ pc[s] = "idle"
  /\ key = NoKey
  /\ key' = s
  /\ IF s \in LongSessions
       THEN /\ pc' = [pc EXCEPT ![s] = "acquired"]
            /\ ttl' = TTL
            /\ timer' = [timer EXCEPT ![s] = 0]
       ELSE /\ pc' = [pc EXCEPT ![s] = "critical"]
            /\ ttl' = Timeout
            /\ timer' = [timer EXCEPT ![s] = Timeout]
  /\ UNCHANGED <<refresher, doLoop>>

\* The last of retry_times + 1 attempts fails: the block runs with
\* got_lock = False and its finally clause does nothing.
Deny(s) ==
  /\ pc[s] = "idle"
  /\ key # NoKey \/ Faults
  /\ pc' = [pc EXCEPT ![s] = "denied"]
  /\ UNCHANGED <<key, ttl, refresher, doLoop, timer>>

\* thread = LongLockUpdateThread(lock); thread.start()
StartThread(s) ==
  /\ pc[s] = "acquired"
  /\ pc' = [pc EXCEPT ![s] = "critical"]
  /\ refresher' = [refresher EXCEPT ![s] = "check"]
  /\ UNCHANGED <<key, ttl, doLoop, timer>>

\* thread.start() raises.  It is called before the try, so the lock is not
\* released.
StartFails(s) ==
  /\ Faults
  /\ pc[s] = "acquired"
  /\ pc' = [pc EXCEPT ![s] = "raised"]
  /\ UNCHANGED <<key, ttl, refresher, doLoop, timer>>

\* Faulty variant: release with a bare DEL.
DeleteAnyway(s) == key' = NoKey /\ ttl' = 0

\* RedLock's release script: delete the key if it still has our value.
DeleteIfOurs(s) ==
  IF key = s THEN key' = NoKey /\ ttl' = 0 ELSE UNCHANGED <<key, ttl>>

AfterRelease(s) == IF s \in LongSessions THEN "released" ELSE "done"

\* finally: lock.release(), whether the body returned or raised.
Release(s) ==
  /\ pc[s] = "critical"
  /\ DeleteIfOurs(s)
  /\ pc' = [pc EXCEPT ![s] = AfterRelease(s)]
  /\ UNCHANGED <<refresher, doLoop, timer>>

\* lock.release() does not reach Redis, and the library swallows the error.
ReleaseLost(s) ==
  /\ Faults
  /\ pc[s] = "critical"
  /\ pc' = [pc EXCEPT ![s] = AfterRelease(s)]
  /\ UNCHANGED <<key, ttl, refresher, doLoop, timer>>

\* lock.release() raises, so thread.stop() on the next line is not reached.
ReleaseRaises(s) ==
  /\ Faults
  /\ pc[s] = "critical"
  /\ pc' = [pc EXCEPT ![s] = "raised"]
  /\ UNCHANGED <<key, ttl, refresher, doLoop, timer>>

\* Faulty variant: stop() is empty.
StopNothing(s) ==
  /\ pc[s] = "released"
  /\ pc' = [pc EXCEPT ![s] = "done"]
  /\ UNCHANGED <<key, ttl, refresher, doLoop, timer>>

\* thread.stop()
Stop(s) ==
  /\ pc[s] = "released"
  /\ doLoop' = [doLoop EXCEPT ![s] = FALSE]
  /\ pc' = [pc EXCEPT ![s] = "done"]
  /\ UNCHANGED <<key, ttl, refresher, timer>>

\* The process dies, and its daemon thread with it.
Crash(s) ==
  /\ Faults
  /\ pc[s] \in {"acquired", "critical", "released"}
  /\ pc' = [pc EXCEPT ![s] = "crashed"]
  /\ refresher' = [refresher EXCEPT ![s] = "dead"]
  /\ UNCHANGED <<key, ttl, doLoop, timer>>

-----------------------------------------------------------------------------
(* LongLockUpdateThread.run *)

\* while self.do_loop
RefreshCheck(s) ==
  /\ refresher[s] = "check"
  /\ refresher' = [refresher EXCEPT ![s] = IF doLoop[s] THEN "set" ELSE "dead"]
  /\ UNCHANGED <<pc, key, ttl, doLoop, timer>>

\* node.set(resource, lock_key, px=ttl): no NX and no XX, whatever is stored.
RefreshSet(s) ==
  /\ refresher[s] = "set"
  /\ key' = s
  /\ ttl' = TTL
  /\ timer' = [timer EXCEPT ![s] = Delay]
  /\ refresher' = [refresher EXCEPT ![s] = "sleep"]
  /\ UNCHANGED <<pc, doLoop>>

\* node.set raises: nothing catches it, and the thread ends.
RefreshFail(s) ==
  /\ Faults
  /\ refresher[s] = "set"
  /\ refresher' = [refresher EXCEPT ![s] = "dead"]
  /\ UNCHANGED <<pc, key, ttl, doLoop, timer>>

\* time.sleep(delay) returns.
RefreshWake(s) ==
  /\ refresher[s] = "sleep"
  /\ timer[s] <= 0
  /\ refresher' = [refresher EXCEPT ![s] = "check"]
  /\ UNCHANGED <<pc, key, ttl, doLoop, timer>>

Refresher(s) ==
  RefreshCheck(s) \/ RefreshSet(s) \/ RefreshFail(s) \/ RefreshWake(s)

-----------------------------------------------------------------------------

\* What is left of a key's life after one unit of time.
Left(t) == IF t > 0 THEN t - 1 ELSE 0

\* One unit of time; no refresher of a covered holder gets later than Slack.
Tick ==
  /\ \A s \in LongSessions : Covered(s) => timer[s] > -Slack
  /\ ttl' = Left(ttl)
  /\ key' = IF ttl > 1 THEN key ELSE NoKey
  /\ timer' = [s \in Sessions |->
                 IF timer[s] > -Slack THEN timer[s] - 1 ELSE timer[s]]
  /\ UNCHANGED <<pc, refresher, doLoop>>

Next ==
  \/ \E s \in Sessions :
       \/ Acquire(s) \/ Deny(s)
       \/ Release(s) \/ ReleaseLost(s) \/ ReleaseRaises(s)
       \/ Crash(s)
  \/ \E s \in LongSessions :
       \/ StartThread(s) \/ StartFails(s) \/ Stop(s)
       \/ Refresher(s)
  \/ Tick

Spec == Init /\ [][Next]_vars

\* Time passes, threads are scheduled, and a block that has released goes on
\* to stop().  Nothing is assumed of the body of the block.
FairSpec ==
  /\ Spec
  /\ WF_vars(Tick)
  /\ \A s \in LongSessions :
       WF_vars(Refresher(s)) /\ WF_vars(Stop(s)) /\ WF_vars(StartThread(s))

-----------------------------------------------------------------------------

TypeOK ==
  /\ pc \in [Sessions -> {"idle", "denied", "acquired", "critical",
                          "released", "raised", "crashed", "done"}]
  /\ key \in Sessions \cup {NoKey}
  /\ ttl \in Nat
  /\ refresher \in [Sessions -> {"none", "check", "set", "sleep", "dead"}]
  /\ doLoop \in [Sessions -> BOOLEAN]
  /\ timer \in [Sessions -> Int]

\* Two blocks never both hold the lock with reason to.  The refresher writes
\* over whatever is stored and may do so after its block has released, and a
\* block whose lease lapsed still runs its release: neither may open the
\* lock to a second holder.
Exclusion == \A s, t \in Sessions : Covered(s) /\ Covered(t) => s = t

\* While a block holds the lock with reason to, the key exists, and the
\* value in it is not that of another block that could still delete it.
HolderKeepsKey ==
  \A s \in Sessions : Covered(s) =>
    /\ key # NoKey
    /\ \A u \in Sessions : Holding(u) /\ u # s => key # u

\* A block that ended, or whose process died, does not keep the name locked:
\* the refresher that may still write once after the release stops, and the
\* key it left expires.
AbandonedKeyExpires ==
  \A s \in Sessions : pc[s] \in {"done", "crashed"} ~> key # s

-----------------------------------------------------------------------------
(* The invariant the proofs use. *)

\* A covered holder's key lives at least this long.
Horizon(s) == IF s \in LongSessions THEN TTL - Delay + timer[s] ELSE timer[s]

TimerBounds ==
  \A s \in Sessions :
    /\ -Slack <= timer[s]
    /\ timer[s] <= IF s \in LongSessions THEN Delay ELSE Timeout

KeyOutlivesHorizon == \A s \in Sessions : Covered(s) => ttl >= Horizon(s)

\* A refresher runs only once its block has started it.
ThreadStartsOnce ==
  \A s \in Sessions : pc[s] \in {"idle", "acquired"} => refresher[s] = "none"

IInv ==
  /\ TypeOK
  /\ ThreadStartsOnce
  /\ (key = NoKey) <=> (ttl = 0)
  /\ TimerBounds
  /\ KeyOutlivesHorizon
  /\ Exclusion
  /\ HolderKeepsKey
=============================================================================
