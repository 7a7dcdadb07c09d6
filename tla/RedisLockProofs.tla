-------------------------- MODULE RedisLockProofs --------------------------
(***************************************************************************)
(* The locks of utils/lock.py exclude, for any number of blocks, any TTL   *)
(* and any refresher lateness below half of it.                            *)
(*                                                                         *)
(* The argument: the key of a covered holder has at least Horizon left, and *)
(* Horizon is positive because a refresher is due Delay after its last      *)
(* write and never more than Slack late, with Delay + Slack < TTL.  So the  *)
(* key never expires under a covered holder; only then could someone else   *)
(* acquire.                                                                *)
(***************************************************************************)
EXTENDS RedisLock, TLAPS

\* The refresh interval of LongLockUpdateThread.run and its lateness fit in
\* the lease.
LEMMA DelayFits == Delay \in Nat /\ 2 * Delay <= TTL /\ Delay + Slack < TTL
  BY TimeAssumption DEF Delay

\* A covered holder's key has time left, and at least two units when the
\* holder may still let time pass and stay covered.
LEMMA HorizonPositive ==
  ASSUME TypeOK, TimerBounds, KeyOutlivesHorizon,
         NEW s \in Sessions, Covered(s)
  PROVE  /\ ttl \in Nat /\ ttl > 0
         /\ (IF s \in LongSessions THEN timer[s] > -Slack ELSE timer[s] > 1)
              => ttl > 1
  <1>1. ttl \in Nat /\ timer[s] \in Int /\ ttl >= Horizon(s)
    BY DEF TypeOK, KeyOutlivesHorizon
  <1>2. CASE s \in LongSessions
    <2>1. Horizon(s) = TTL - Delay + timer[s] /\ -Slack <= timer[s]
      BY <1>2 DEF Horizon, TimerBounds
    <2> QED
      BY <1>1, <1>2, <2>1, DelayFits, TimeAssumption
  <1>3. CASE s \notin LongSessions
    <2>1. Horizon(s) = timer[s] /\ timer[s] > 0
      BY <1>3 DEF Horizon, Covered
    <2> QED
      BY <1>1, <1>3, <2>1
  <1> QED
    BY <1>2, <1>3

\* A step that changes neither the key nor any timer, and after which no
\* block is covered or holding that was not before, keeps the invariant.
LEMMA QuietStep ==
  ASSUME IInv, TypeOK', ThreadStartsOnce', UNCHANGED <<key, ttl, timer>>,
         \A s \in Sessions : (Covered(s)' => Covered(s)) /\ (Holding(s)' => Holding(s))
  PROVE  IInv'
  <1>1. TimerBounds'
    BY DEF IInv, TimerBounds
  <1>2. KeyOutlivesHorizon'
    BY DEF IInv, KeyOutlivesHorizon, Horizon
  <1>3. Exclusion'
    BY DEF IInv, Exclusion
  <1>4. HolderKeepsKey'
    BY DEF IInv, HolderKeepsKey
  <1> QED
    BY <1>1, <1>2, <1>3, <1>4 DEF IInv

\* Nobody has reason to believe in a lock whose key is gone.
LEMMA FreeKeyUncovered ==
  ASSUME IInv, key = NoKey, NEW s \in Sessions
  PROVE  ~Covered(s)
  BY DEF IInv, HolderKeepsKey

\* At first nobody holds the lock.
LEMMA InitIInv == Init => IInv
  BY SessionAssumption, TimeAssumption, DelayFits
     DEF Init, IInv, TypeOK, ThreadStartsOnce, TimerBounds,
         KeyOutlivesHorizon, Exclusion, HolderKeepsKey, Covered, Holding

\* Only a key that is gone is acquired, and then nobody is covered.
LEMMA AcquireStep ==
  ASSUME IInv, NEW s \in Sessions, Acquire(s)
  PROVE  IInv'
  <1> USE SessionAssumption, TimeAssumption, DelayFits
  <1>1. TypeOK' /\ ThreadStartsOnce'
    BY DEF IInv, TypeOK, ThreadStartsOnce, Acquire
  <1>2. key' = s /\ ttl' > 0 /\ key' # NoKey
    BY DEF Acquire, Sessions
  <1>3. TimerBounds'
    BY DEF IInv, TypeOK, TimerBounds, Acquire
  <1>4. \A u \in Sessions : u # s => ~Covered(u)'
    BY FreeKeyUncovered DEF Acquire, Covered, Holding, IInv, TypeOK
  <1>5. KeyOutlivesHorizon'
    <2>1. ttl' >= Horizon(s)'
      BY DEF IInv, TypeOK, Acquire, Horizon
    <2> QED
      BY <1>4, <2>1 DEF KeyOutlivesHorizon
  <1>6. Exclusion'
    BY <1>4 DEF Exclusion
  <1>7. HolderKeepsKey'
    BY <1>2, <1>4 DEF HolderKeepsKey
  <1> QED
    BY <1>1, <1>2, <1>3, <1>5, <1>6, <1>7 DEF IInv

\* A block that releases deletes the key only if it is its own.
LEMMA ReleaseStep ==
  ASSUME IInv, NEW s \in Sessions, Release(s)
  PROVE  IInv'
  <1> USE SessionAssumption
  <1>1. TypeOK' /\ ThreadStartsOnce'
    BY DEF IInv, TypeOK, ThreadStartsOnce, Release, DeleteIfOurs, AfterRelease
  <1>2. ~Holding(s)'
    BY DEF IInv, TypeOK, Release, Holding, AfterRelease
  <1>3. \A u \in Sessions : u # s =>
          (Covered(u)' <=> Covered(u)) /\ (Holding(u)' <=> Holding(u))
    BY DEF IInv, TypeOK, Release, Covered, Holding
  <1>4. CASE key # s
    <2>1. UNCHANGED <<key, ttl, timer>>
      BY <1>4 DEF Release, DeleteIfOurs
    <2> QED
      BY <1>1, <1>2, <1>3, <2>1, QuietStep DEF Covered
  <1>5. CASE key = s
    <2>1. \A u \in Sessions : u # s => ~Covered(u)
      BY <1>5 DEF IInv, HolderKeepsKey, Release, Holding
    <2>2. \A u \in Sessions : ~Covered(u)'
      BY <1>2, <1>3, <2>1 DEF Covered
    <2>3. key' = NoKey /\ ttl' = 0 /\ timer' = timer
      BY <1>5 DEF Release, DeleteIfOurs
    <2> QED
      BY <1>1, <2>2, <2>3
         DEF IInv, TimerBounds, KeyOutlivesHorizon, Exclusion, HolderKeepsKey
  <1> QED
    BY <1>4, <1>5

\* A refresh stores the value of a holder again, for a whole TTL.
LEMMA RefreshSetStep ==
  ASSUME IInv, NEW s \in LongSessions, RefreshSet(s)
  PROVE  IInv'
  <1> USE SessionAssumption, TimeAssumption, DelayFits
  <1>0. s \in Sessions /\ s # NoKey
    BY DEF Sessions
  <1>1. TypeOK' /\ ThreadStartsOnce'
    BY <1>0 DEF IInv, TypeOK, ThreadStartsOnce, RefreshSet
  <1>2. key' = s /\ ttl' = TTL /\ ttl' > 0
    BY DEF RefreshSet
  <1>3. TimerBounds'
    BY <1>0 DEF IInv, TypeOK, TimerBounds, RefreshSet
  <1>4. \A u \in Sessions : (Covered(u)' <=> Covered(u)) /\ (Holding(u)' <=> Holding(u))
    BY <1>0 DEF IInv, TypeOK, RefreshSet, Covered, Holding
  <1>5. Holding(s) => Covered(s)
    BY DEF RefreshSet, Covered
  <1>6. Exclusion'
    BY <1>4 DEF IInv, Exclusion
  <1>7. HolderKeepsKey'
    BY <1>0, <1>2, <1>4, <1>5 DEF IInv, HolderKeepsKey, Exclusion
  <1>8. ASSUME NEW u \in Sessions, Covered(u)'
        PROVE  ttl' >= Horizon(u)'
    <2>1. timer[u]' \in Int
      BY <1>1 DEF TypeOK
    <2>2. CASE u \in LongSessions
      BY <1>2, <1>3, <2>1, <2>2 DEF TimerBounds, Horizon
    <2>3. CASE u \notin LongSessions
      <3>1. timer[u]' <= Timeout /\ Horizon(u)' = timer[u]'
        BY <1>3, <2>3 DEF TimerBounds, Horizon
      <3>2. Timeout <= TTL
        BY <2>3, MixAssumption DEF Sessions
      <3> QED
        BY <1>2, <2>1, <3>1, <3>2
    <2> QED
      BY <2>2, <2>3
  <1> QED
    BY <1>0, <1>1, <1>2, <1>3, <1>6, <1>7, <1>8 DEF IInv, KeyOutlivesHorizon

\* A key does not expire before the time its holder may rely on.
LEMMA TickStep ==
  ASSUME IInv, Tick
  PROVE  IInv'
  <1> USE SessionAssumption, TimeAssumption, DelayFits
  <1>1. TypeOK' /\ ThreadStartsOnce'
    BY DEF IInv, TypeOK, ThreadStartsOnce, Tick, Left
  <1>2. (key' = NoKey) <=> (ttl' = 0)
    BY DEF IInv, TypeOK, Tick, Left
  <1>3. TimerBounds'
    BY DEF IInv, TypeOK, TimerBounds, Tick
  <1>4. ASSUME NEW u \in Sessions, Covered(u)'
        PROVE  /\ Covered(u)
               /\ timer[u]' = timer[u] - 1
               /\ IF u \in LongSessions THEN timer[u] > -Slack ELSE timer[u] > 1
    BY <1>4 DEF IInv, TypeOK, Tick, Covered, Holding
  <1>5. ASSUME NEW u \in Sessions, Covered(u)'
        PROVE  key' = key /\ ttl' = ttl - 1
    <2>1. ttl \in Nat /\ ttl > 1
      BY <1>4, <1>5, HorizonPositive DEF IInv
    <2> QED
      BY <2>1 DEF Tick, Left
  <1>6. KeyOutlivesHorizon'
    <2>1. ASSUME NEW u \in Sessions, Covered(u)'
          PROVE  ttl' >= Horizon(u)'
      <3>1. ttl >= Horizon(u) /\ ttl \in Nat /\ timer[u] \in Int
        BY <1>4, <2>1 DEF IInv, TypeOK, KeyOutlivesHorizon
      <3> QED
        BY <1>4, <1>5, <2>1, <3>1 DEF Horizon
    <2> QED
      BY <2>1 DEF KeyOutlivesHorizon
  <1>7. Exclusion'
    BY <1>4 DEF IInv, Exclusion
  <1>8. HolderKeepsKey'
    <2>1. \A u \in Sessions : Holding(u)' <=> Holding(u)
      BY DEF Tick, Holding
    <2> QED
      BY <1>4, <1>5, <2>1 DEF IInv, HolderKeepsKey
  <1> QED
    BY <1>1, <1>2, <1>3, <1>6, <1>7, <1>8 DEF IInv

\* Every other step leaves the key and the timers alone and makes nobody
\* covered.
LEMMA OtherSteps ==
  ASSUME IInv, NEW s \in Sessions,
         \/ Deny(s) \/ ReleaseLost(s) \/ ReleaseRaises(s) \/ Crash(s)
         \/ /\ s \in LongSessions
            /\ \/ StartThread(s) \/ StartFails(s) \/ Stop(s)
               \/ RefreshCheck(s) \/ RefreshFail(s) \/ RefreshWake(s)
  PROVE  IInv'
  <1>1. TypeOK'
    BY DEF IInv, TypeOK, Deny, ReleaseLost, ReleaseRaises, Crash, StartThread,
           StartFails, Stop, RefreshCheck, RefreshFail, RefreshWake, AfterRelease
  <1>2. ThreadStartsOnce'
    BY DEF IInv, TypeOK, ThreadStartsOnce, Deny, ReleaseLost, ReleaseRaises,
           Crash, StartThread, StartFails, Stop, RefreshCheck, RefreshFail,
           RefreshWake, AfterRelease
  <1>3. UNCHANGED <<key, ttl, timer>>
    BY DEF Deny, ReleaseLost, ReleaseRaises, Crash, StartThread, StartFails,
           Stop, RefreshCheck, RefreshFail, RefreshWake
  <1>4. \A u \in Sessions : Holding(u)' => Holding(u)
    BY DEF IInv, TypeOK, Holding, Deny, ReleaseLost, ReleaseRaises, Crash,
           StartThread, StartFails, Stop, RefreshCheck, RefreshFail,
           RefreshWake, AfterRelease
  <1>5. \A u \in LongSessions : Holding(u)' /\ refresher[u] = "dead"
                                  => refresher[u]' = "dead"
    BY DEF IInv, TypeOK, ThreadStartsOnce, Sessions, Holding, Deny,
           ReleaseLost, ReleaseRaises, Crash, StartThread, StartFails, Stop,
           RefreshCheck, RefreshFail, RefreshWake, AfterRelease
  <1>6. \A u \in Sessions : Covered(u)' => Covered(u)
    BY <1>3, <1>4, <1>5 DEF Covered
  <1> QED
    BY <1>1, <1>2, <1>3, <1>4, <1>6, QuietStep

\* Every step keeps the invariant.
LEMMA NextIInv == IInv /\ [Next]_vars => IInv'
  <1> SUFFICES ASSUME IInv, [Next]_vars PROVE IInv'
    OBVIOUS
  <1>1. ASSUME NEW s \in Sessions,
               \/ Acquire(s) \/ Deny(s) \/ Release(s) \/ ReleaseLost(s)
               \/ ReleaseRaises(s) \/ Crash(s)
        PROVE  IInv'
    BY <1>1, AcquireStep, ReleaseStep, OtherSteps
  <1>2. ASSUME NEW s \in LongSessions,
               StartThread(s) \/ StartFails(s) \/ Stop(s) \/ Refresher(s)
        PROVE  IInv'
    <2>1. s \in Sessions
      BY DEF Sessions
    <2> QED
      BY <1>2, <2>1, RefreshSetStep, OtherSteps DEF Refresher
  <1>3. CASE Tick
    BY <1>3, TickStep
  <1>4. CASE UNCHANGED vars
    BY <1>4 DEF vars, IInv, TypeOK, ThreadStartsOnce, TimerBounds,
                KeyOutlivesHorizon, Horizon, Exclusion, HolderKeepsKey,
                Covered, Holding
  <1> QED
    BY <1>1, <1>2, <1>3, <1>4 DEF Next

\* The invariant of the locks: a holder whose refresher is on time has the key,
\* and the key has time left.
THEOREM Invariance == Spec => []IInv
  BY InitIInv, NextIInv, PTL DEF Spec

\* The variables keep their types.
THEOREM TypeCorrect == Spec => []TypeOK
  <1>1. IInv => TypeOK
    BY DEF IInv
  <1> QED
    BY <1>1, Invariance, PTL

\* No two with-blocks of get_lock and get_long_lock both hold the lock with
\* reason to.
THEOREM MutualExclusion == Spec => []Exclusion
  <1>1. IInv => Exclusion
    BY DEF IInv
  <1> QED
    BY <1>1, Invariance, PTL

\* The key of a covered holder never goes, and no other holder can delete it.
THEOREM KeyIsKept == Spec => []HolderKeepsKey
  <1>1. IInv => HolderKeepsKey
    BY DEF IInv
  <1> QED
    BY <1>1, Invariance, PTL
=============================================================================
