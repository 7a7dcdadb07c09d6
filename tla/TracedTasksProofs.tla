-------------------------- MODULE TracedTasksProofs --------------------------
(***************************************************************************)
(* Proofs about the tasks: of TaskDispatch, for any number of jobs, depth  *)
(* of blocks, limits and claims, and of TracedTasks, for any number of     *)
(* processes besides.                                                      *)
(*                                                                         *)
(* First, what is sent and what is granted.  Then, that contexts and       *)
(* headers are carried along without a hand in what is sent, run or rolled *)
(* back, so that all this holds of traced tasks.  Last, what the contexts  *)
(* and headers are.                                                        *)
(***************************************************************************)
EXTENDS TracedTasks, SequenceTheorems, TLAPS

-----------------------------------------------------------------------------
(* Sending, transactions and claims. *)

\* What the proofs need of the constants.
LEMMA Constants ==
  /\ Root \in Jobs /\ Jobs \subseteq Int /\ None \notin Jobs
  /\ Undone \in Int /\ Undone < 0
  /\ MaxRetries \in Nat /\ Claims \subseteq Nat
  /\ None \in Limit /\ Given \subseteq Limit
BY DispatchAssumption, LimitAssumption DEF Jobs, Root, Undone, Limit

\* Restarted with RestartLimits(t), an execution has all of t.
LEMMA RestartIsEnough ==
  ASSUME NEW t \in Nat
  PROVE  /\ RestartLimits(t) \in [soft : Limit, hard : Limit]
         /\ Effective(RestartLimits(t)) \in Nat
         /\ Effective(RestartLimits(t)) >= t
BY LimitAssumption DEF Limit, RestartLimits, Effective, Soft, Hard, Or

\* Limits are numbers, if there are any.
LEMMA EffectiveIsInt ==
  ASSUME NEW l \in [soft : Limit, hard : Limit]
  PROVE  Effective(l) \in Int
BY LimitAssumption DEF Limit, Effective, Soft, Hard, Or

\* A claim that restarts an execution gives it more, and enough.
LEMMA ClaimGains ==
  ASSUME NEW t \in Nat, NEW l \in [soft : Limit, hard : Limit], Exceeds(t, l)
  PROVE  /\ RestartLimits(t) \in [soft : Limit, hard : Limit]
         /\ ~Exceeds(t, RestartLimits(t))
         /\ Effective(RestartLimits(t)) > Effective(l)
<1>1. Effective(l) \in Int /\ t > Effective(l)
  BY EffectiveIsInt DEF Exceeds
<1>2. /\ RestartLimits(t) \in [soft : Limit, hard : Limit]
      /\ Effective(RestartLimits(t)) \in Nat
      /\ Effective(RestartLimits(t)) >= t
  BY RestartIsEnough
<1>3. ~Exceeds(t, RestartLimits(t))
  BY <1>2 DEF Exceeds
<1>4. QED BY <1>1, <1>2, <1>3


\* The initial states have the invariant.
LEMMA InitIInv == Init => IInv
<1> SUFFICES ASSUME Init PROVE IInv
  OBVIOUS
<1> USE Constants DEF Init
<1>1. TypeOK
  <2>1. NoOptions \in [soft : Limit, hard : Limit] /\ Options \subseteq [soft : Limit, hard : Limit]
    BY DEF Options, NoOptions
  <2>2. limits \in [Jobs -> [soft : Limit, hard : Limit]]
    BY <2>1
  <2>3. state \in [Jobs -> {"new", "deferred", "queued", "dropped", "lost"} \cup Running \cup Over]
    OBVIOUS
  <2>4. atomic \in [Jobs -> BOOLEAN]
    OBVIOUS
  <2>5. asker \in [Jobs -> Jobs \cup {None}]
    OBVIOUS
  <2>6. /\ retries \in [Jobs -> 0 .. MaxRetries]
        /\ claimed \in [Jobs -> Nat] /\ depth \in [Jobs -> Nat]
        /\ level \in [Jobs -> Nat \cup {Undone}]
    OBVIOUS
  <2>7. QED BY <2>2, <2>3, <2>4, <2>5, <2>6 DEF TypeOK
<1>2. Askers /\ Depths /\ Bounded /\ Levels
  BY DEF Askers, Depths, Bounded, Levels, Sent, Running, Over
<1>3. ClaimsAsked /\ RestartSuffices
  BY DEF ClaimsAsked, RestartSuffices
<1>4. QED BY <1>1, <1>2, <1>3 DEF IInv, DispatchInv

(* Dispatch: one lemma for each action. *)

\* Asking for a job.
LEMMA SubmitKeeps ==
  ASSUME DispatchInv, NEW j \in Jobs, NEW r \in Jobs,
         NEW next \in {"body", "retrying"},
         state[j] = "body", Fresh(r), Submit(j, r, next),
         asker' = [asker EXCEPT ![r] = j],
         NEW l \in [soft : Limit, hard : Limit],
         limits' = [limits EXCEPT ![r] = l],
         atomic' \in [Jobs -> BOOLEAN],
         retries' \in [Jobs -> 0 .. MaxRetries],
         claimed' \in [Jobs -> Nat],
         UNCHANGED depth
  PROVE  DispatchInv'
<1> USE Constants DEF DispatchInv
<1>1. /\ r # j /\ state[r] = "new" /\ depth[j] \in Nat
      /\ r # Root
  BY DEF Askers, Fresh, Sent, Running, Over, TypeOK
<1>2. asker[r] = None /\ \A q \in Jobs : asker[q] # r
  BY <1>1 DEF Askers, TypeOK
<1>3. TypeOK'
  BY DEF TypeOK, Submit, Running, Over
<1>4. Askers'
  BY <1>1, <1>2 DEF TypeOK, Askers, Submit, Sent, Running, Over
<1>5. Depths'
  BY <1>1 DEF TypeOK, Depths, Submit
<1>6. Bounded'
  BY <1>1, <1>2 DEF TypeOK, Bounded, Submit
<1>7. Levels'
  <2> SUFFICES ASSUME NEW q \in Jobs
      PROVE /\ Sent(q)' \/ state'[q] \in {"new", "lost"} => level'[q] = 0
            /\ state'[q] = "dropped" => level'[q] = Undone
            /\ state'[q] = "deferred" =>
                 \/ level'[q] > 0
                 \/ level'[q] = 0 /\ state'[asker'[q]] \in {"hooks", "ending"}
    BY DEF Levels
  <2>1. CASE q = r
    BY <1>1, <2>1 DEF TypeOK, Submit, Sent, Running, Over
  <2>2. CASE q = j
    BY <1>1, <2>2 DEF TypeOK, Submit, Levels, Sent, Running, Over
  <2>3. CASE q # r /\ q # j
    <3>1. state'[q] = state[q] /\ level'[q] = level[q] /\ asker'[q] = asker[q]
      BY <2>3 DEF TypeOK, Submit
    <3>2. state[q] = "deferred" => asker[q] \in Jobs
      BY DEF Askers, Sent, Running, Over
    <3>3. state[q] = "deferred" /\ state[asker[q]] \in {"hooks", "ending"}
            => state'[asker[q]] = state[asker[q]]
      BY <1>1, <3>2 DEF TypeOK, Submit
    <3>4. QED BY <3>1, <3>3 DEF Levels, Sent
  <2>4. QED BY <2>1, <2>2, <2>3
<1>8. QED BY <1>3, <1>4, <1>5, <1>6, <1>7

\* A job is started.
LEMMA StartKeeps ==
  ASSUME DispatchInv, NEW j \in Jobs, Start(j)
  PROVE  DispatchInv'
<1> USE Constants DEF DispatchInv, Start, Base, message, AskedBy, Pending
<1>1. TypeOK'
  BY DEF TypeOK, Running, Over
<1>2. Askers'
  BY DEF TypeOK, Askers, Sent, Running, Over
<1>3. Depths'
  BY DEF TypeOK, Depths, Running
<1>4. Bounded'
  BY DEF TypeOK, Bounded, Depths
<1>5. Levels'
  BY DEF TypeOK, Levels, Bounded, Depths, Askers, Sent, Running, Over
<1>6. QED BY <1>1, <1>2, <1>3, <1>4, <1>5

\* A claim is refused.
LEMMA ClaimRefusedKeeps ==
  ASSUME DispatchInv, NEW j \in Jobs, NEW t \in Claims, ClaimRefused(j, t)
  PROVE  DispatchInv'
<1> USE Constants DEF DispatchInv, ClaimRefused, message, AskedBy, Pending
<1>1. TypeOK'
  BY DEF TypeOK, Running, Over
<1>2. Askers'
  BY DEF TypeOK, Askers, Sent, Running, Over
<1>3. Depths'
  BY DEF TypeOK, Depths, Running
<1>4. Bounded'
  BY DEF TypeOK, Bounded, Depths
<1>5. Levels'
  BY DEF TypeOK, Levels, Bounded, Depths, Askers, Sent, Running, Over
<1>6. QED BY <1>1, <1>2, <1>3, <1>4, <1>5

\* A block is opened.
LEMMA OpenBlockKeeps ==
  ASSUME DispatchInv, NEW j \in Jobs, OpenBlock(j)
  PROVE  DispatchInv'
<1> USE Constants DEF DispatchInv, OpenBlock, message, AskedBy, Pending
<1>1. TypeOK'
  BY DEF TypeOK, Running, Over
<1>2. Askers'
  BY DEF TypeOK, Askers, Sent, Running, Over
<1>3. Depths'
  BY DEF TypeOK, Depths, Running
<1>4. Bounded'
  BY DEF TypeOK, Bounded, Depths
<1>5. Levels'
  BY DEF TypeOK, Levels, Bounded, Depths, Askers, Sent, Running, Over
<1>6. QED BY <1>1, <1>2, <1>3, <1>4, <1>5

\* An inner block ends.
LEMMA CloseBlockKeeps ==
  ASSUME DispatchInv, NEW j \in Jobs, CloseBlock(j)
  PROVE  DispatchInv'
<1> USE Constants DEF DispatchInv, CloseBlock, message, AskedBy, Pending
<1>1. TypeOK'
  BY DEF TypeOK, Running, Over
<1>2. Askers'
  BY DEF TypeOK, Askers, Sent, Running, Over
<1>3. Depths'
  BY DEF TypeOK, Depths, Running
<1>4. Bounded'
  BY DEF TypeOK, Bounded, Depths
<1>5. Levels'
  BY DEF TypeOK, Levels, Bounded, Depths, Askers, Sent, Running, Over
<1>6. QED BY <1>1, <1>2, <1>3, <1>4, <1>5

\* The outermost block ends.
LEMMA CommitKeeps ==
  ASSUME DispatchInv, NEW j \in Jobs, NEW next \in {"hooks", "ending"}, Commit(j, next)
  PROVE  DispatchInv'
<1> USE Constants DEF DispatchInv, Commit, message, AskedBy, Pending
<1>1. TypeOK'
  BY DEF TypeOK, Running, Over
<1>2. Askers'
  BY DEF TypeOK, Askers, Sent, Running, Over
<1>3. Depths'
  BY DEF TypeOK, Depths, Running
<1>4. Bounded'
  BY DEF TypeOK, Bounded, Depths
<1>5. Levels'
  BY DEF TypeOK, Levels, Bounded, Depths, Askers, Sent, Running, Over
<1>6. QED BY <1>1, <1>2, <1>3, <1>4, <1>5

\* A callback sends its job.
LEMMA RunHookKeeps ==
  ASSUME DispatchInv, NEW j \in Jobs, RunHook(j)
  PROVE  DispatchInv'
<1> USE Constants DEF DispatchInv, RunHook, message, AskedBy, Pending
<1>1. TypeOK'
  BY DEF TypeOK, Running, Over
<1>2. Askers'
  BY DEF TypeOK, Askers, Sent, Running, Over
<1>3. Depths'
  BY DEF TypeOK, Depths, Running
<1>4. Bounded'
  BY DEF TypeOK, Bounded, Depths
<1>5. Levels'
  <2>1. PICK r \in Pending(j) : state' = [state EXCEPT ![r] = "queued"]
    BY DEF RunHook
  <2>2. r \in Jobs /\ r # j /\ level[r] = 0
    <3>1. depth[j] = 0
      BY DEF Depths, TypeOK
    <3>2. level[r] <= depth[j]
      BY DEF Bounded
    <3>3. QED BY <3>1, <3>2 DEF Levels, TypeOK
  <2>3. QED BY <2>1, <2>2 DEF TypeOK, Levels, Askers, Sent, Running, Over
<1>6. QED BY <1>1, <1>2, <1>3, <1>4, <1>5

\* A callback raises.
LEMMA HookFailsKeeps ==
  ASSUME DispatchInv, NEW j \in Jobs, HookFails(j)
  PROVE  DispatchInv'
<1> USE Constants DEF DispatchInv, HookFails, message, AskedBy, Pending
<1>1. TypeOK'
  BY DEF TypeOK, Running, Over
<1>2. Askers'
  BY DEF TypeOK, Askers, Sent, Running, Over
<1>3. Depths'
  BY DEF TypeOK, Depths, Running
<1>4. Bounded'
  BY DEF TypeOK, Bounded, Depths
<1>5. Levels'
  BY DEF TypeOK, Levels, Bounded, Depths, Askers, Sent, Running, Over
<1>6. QED BY <1>1, <1>2, <1>3, <1>4, <1>5

\* No callback is left.
LEMMA HooksDoneKeeps ==
  ASSUME DispatchInv, NEW j \in Jobs, HooksDone(j)
  PROVE  DispatchInv'
<1> USE Constants DEF DispatchInv, HooksDone, message, AskedBy, Pending
<1>1. TypeOK'
  BY DEF TypeOK, Running, Over
<1>2. Askers'
  BY DEF TypeOK, Askers, Sent, Running, Over
<1>3. Depths'
  BY DEF TypeOK, Depths, Running
<1>4. Bounded'
  BY DEF TypeOK, Bounded, Depths
<1>5. Levels'
  BY DEF TypeOK, Levels, Bounded, Depths, Askers, Sent, Running, Over
<1>6. QED BY <1>1, <1>2, <1>3, <1>4, <1>5

\* The body raises.
LEMMA RaiseKeeps ==
  ASSUME DispatchInv, NEW j \in Jobs, Raise(j)
  PROVE  DispatchInv'
<1> USE Constants DEF DispatchInv, Raise, message, AskedBy, Pending
<1>1. TypeOK'
  BY DEF TypeOK, Running, Over
<1>2. Askers'
  BY DEF TypeOK, Askers, Sent, Running, Over
<1>3. Depths'
  BY DEF TypeOK, Depths, Running
<1>4. Bounded'
  BY DEF TypeOK, Bounded, Depths
<1>5. Levels'
  BY DEF TypeOK, Levels, Bounded, Depths, Askers, Sent, Running, Over
<1>6. QED BY <1>1, <1>2, <1>3, <1>4, <1>5

\* The body catches.
LEMMA CatchKeeps ==
  ASSUME DispatchInv, NEW j \in Jobs, Catch(j)
  PROVE  DispatchInv'
<1> USE Constants DEF DispatchInv, Catch, message, AskedBy, Pending
<1>1. TypeOK'
  BY DEF TypeOK, Running, Over
<1>2. Askers'
  BY DEF TypeOK, Askers, Sent, Running, Over
<1>3. Depths'
  BY DEF TypeOK, Depths, Running
<1>4. Bounded'
  BY DEF TypeOK, Bounded, Depths
<1>5. Levels'
  BY DEF TypeOK, Levels, Bounded, Depths, Askers, Sent, Running, Over
<1>6. QED BY <1>1, <1>2, <1>3, <1>4, <1>5

\* An exception leaves a block.
LEMMA UnwindKeeps ==
  ASSUME DispatchInv, NEW j \in Jobs, Unwind(j)
  PROVE  DispatchInv'
<1> USE Constants DEF DispatchInv, Unwind, Bound, message, AskedBy, Pending
<1>1. TypeOK'
  BY DEF TypeOK, Running, Over
<1>2. Askers'
  BY DEF TypeOK, Askers, Sent, Running, Over
<1>3. Depths'
  BY DEF TypeOK, Depths, Running
<1>4. Bounded'
  BY DEF TypeOK, Bounded, Depths
<1>5. Levels'
  BY DEF TypeOK, Levels, Bounded, Depths, Askers, Sent, Running, Over
<1>6. QED BY <1>1, <1>2, <1>3, <1>4, <1>5

\* An exception leaves the task.
LEMMA FailKeeps ==
  ASSUME DispatchInv, NEW j \in Jobs, Fail(j)
  PROVE  DispatchInv'
<1> USE Constants DEF DispatchInv, Fail, message, AskedBy, Pending
<1>1. TypeOK'
  BY DEF TypeOK, Running, Over
<1>2. Askers'
  BY DEF TypeOK, Askers, Sent, Running, Over
<1>3. Depths'
  BY DEF TypeOK, Depths, Running
<1>4. Bounded'
  BY DEF TypeOK, Bounded, Depths
<1>5. Levels'
  BY DEF TypeOK, Levels, Bounded, Depths, Askers, Sent, Running, Over
<1>6. QED BY <1>1, <1>2, <1>3, <1>4, <1>5

\* The worker dies.
LEMMA DieKeeps ==
  ASSUME DispatchInv, NEW j \in Jobs, Die(j)
  PROVE  DispatchInv'
<1> USE Constants DEF DispatchInv, Die, message, AskedBy, Pending
<1>1. TypeOK'
  BY DEF TypeOK, Running, Over
<1>2. Askers'
  BY DEF TypeOK, Askers, Sent, Running, Over
<1>3. Depths'
  BY DEF TypeOK, Depths, Running
<1>4. Bounded'
  BY DEF TypeOK, Bounded, Depths
<1>5. Levels'
  BY DEF TypeOK, Levels, Bounded, Depths, Askers, Sent, Running, Over
<1>6. QED BY <1>1, <1>2, <1>3, <1>4, <1>5

(* Dispatch: all steps. *)

\* Every step keeps what relates jobs to the blocks they were asked in.
LEMMA NextDispatch == DispatchInv /\ [Next]_vars => DispatchInv'
<1> SUFFICES ASSUME DispatchInv, [Next]_vars PROVE DispatchInv'
  OBVIOUS
<1>1. CASE UNCHANGED vars
  BY <1>1 DEF vars, DispatchInv, TypeOK, Askers, Depths, Bounded, Levels, Sent
<1>2. ASSUME NEW j \in Jobs, NEW r \in Jobs, ApplyAsync(j, r) PROVE DispatchInv'
  <2>1. PICK l \in Options : limits' = [limits EXCEPT ![r] = l]
    BY <1>2 DEF ApplyAsync
  <2>2. l \in [soft : Limit, hard : Limit]
    BY Constants DEF Options
  <2>3. atomic' \in [Jobs -> BOOLEAN]
    <3>1. PICK a \in BOOLEAN : atomic' = [atomic EXCEPT ![r] = a]
      BY <1>2 DEF ApplyAsync
    <3>2. QED BY <3>1 DEF DispatchInv, TypeOK
  <2>4. retries' \in [Jobs -> 0 .. MaxRetries] /\ claimed' \in [Jobs -> Nat]
    BY <1>2 DEF ApplyAsync, DispatchInv, TypeOK
  <2>5. QED BY <1>2, <2>1, <2>2, <2>3, <2>4, SubmitKeeps DEF ApplyAsync
<1>3. ASSUME NEW j \in Jobs, NEW r \in Jobs, NEW t \in Claims, ClaimTimeLimit(j, r, t)
      PROVE  DispatchInv'
  <2>1. RestartLimits(t) \in [soft : Limit, hard : Limit]
    BY RestartIsEnough, Constants
  <2>2. atomic' \in [Jobs -> BOOLEAN]
    BY <1>3 DEF ClaimTimeLimit, DispatchInv, TypeOK
  <2>3. retries' \in [Jobs -> 0 .. MaxRetries] /\ claimed' \in [Jobs -> Nat]
    BY <1>3, Constants DEF ClaimTimeLimit, DispatchInv, TypeOK
  <2>4. QED BY <1>3, <2>1, <2>2, <2>3, SubmitKeeps DEF ClaimTimeLimit
<1>4. ASSUME NEW j \in Jobs, Return(j) PROVE DispatchInv'
  <2>1. CASE Commit(j, "ending")
    BY <2>1, CommitKeeps
  <2>2. CASE ~Commit(j, "ending")
    <3>1. /\ state[j] = "body" /\ depth[j] = 0
          /\ state' = [state EXCEPT ![j] = "done"]
          /\ UNCHANGED <<message, depth, level>>
      BY <1>4, <2>2 DEF Return
    <3> USE Constants, <3>1 DEF DispatchInv, message
    <3>2. TypeOK'
      BY DEF TypeOK, Running, Over
    <3>3. Askers' /\ Depths'
      BY DEF TypeOK, Askers, Depths, Sent, Running, Over
    <3>4. Bounded'
      BY DEF TypeOK, Bounded
    <3>5. Levels'
      BY DEF TypeOK, Levels, Bounded, Depths, Askers, Sent, Running, Over
    <3>6. QED BY <3>2, <3>3, <3>4, <3>5
  <2>3. QED BY <2>1, <2>2
<1>5. ASSUME NEW j \in Jobs,
             \/ Framework(j) \/ HookFails(j)
             \/ OpenBlock(j) \/ CloseBlock(j) \/ CommitBlock(j)
             \/ Raise(j) \/ Catch(j) \/ Die(j)
      PROVE  DispatchInv'
  BY <1>5, StartKeeps, RunHookKeeps, HooksDoneKeeps, UnwindKeeps, FailKeeps, HookFailsKeeps,
     OpenBlockKeeps, CloseBlockKeeps, CommitKeeps, RaiseKeeps, CatchKeeps, DieKeeps
     DEF Framework, CommitBlock
<1>6. ASSUME NEW j \in Jobs, NEW t \in Claims, ClaimRefused(j, t) PROVE DispatchInv'
  BY <1>6, ClaimRefusedKeeps
<1>7. QED BY <1>1, <1>2, <1>3, <1>4, <1>5, <1>6 DEF Next

(* Claims. *)

\* No action but ClaimTimeLimit and ApplyAsync writes what is in messages.
LEMMA MessagesStay ==
  ASSUME Next,
         \A j, r \in Jobs : ~ApplyAsync(j, r),
         \A j, r \in Jobs, t \in Claims : ~ClaimTimeLimit(j, r, t)
  PROVE  UNCHANGED message
BY DEF Next, Framework, Start, ClaimRefused, OpenBlock, CloseBlock, CommitBlock, Commit,
       RunHook, HookFails, HooksDone, Return, Raise, Catch, Unwind, Fail, Die

\* No job is unmade.
LEMMA JobsStay ==
  ASSUME DispatchInv, [Next]_vars, NEW r \in Jobs, state[r] # "new"
  PROVE  state'[r] # "new"
<1> USE DEF DispatchInv, TypeOK
<1>1. CASE UNCHANGED vars
  BY <1>1 DEF vars
<1>2. ASSUME NEW j \in Jobs, NEW q \in Jobs, NEW next \in {"body", "retrying"},
             Submit(j, q, next)
      PROVE  state'[r] # "new"
  BY <1>2 DEF Submit
<1>3. ASSUME NEW j \in Jobs, NEW next \in {"hooks", "ending"}, Commit(j, next)
      PROVE  state'[r] # "new"
  BY <1>3 DEF Commit
<1>4. ASSUME NEW j \in Jobs, Framework(j) \/ HookFails(j) \/ Die(j)
      PROVE  state'[r] # "new"
  BY <1>4 DEF Framework, Start, RunHook, HooksDone, Unwind, Fail, HookFails, Die
<1>5. ASSUME NEW j \in Jobs,
             OpenBlock(j) \/ CloseBlock(j) \/ Raise(j) \/ Catch(j)
      PROVE  state'[r] # "new"
  BY <1>5 DEF OpenBlock, CloseBlock, Raise, Catch
<1>6. ASSUME NEW j \in Jobs, NEW t \in Claims, ClaimRefused(j, t) PROVE state'[r] # "new"
  BY <1>6 DEF ClaimRefused
<1>7. ASSUME NEW j \in Jobs, Return(j) PROVE state'[r] # "new"
  BY <1>7, <1>3 DEF Return
<1>8. QED
  BY <1>1, <1>2, <1>3, <1>4, <1>5, <1>6, <1>7 DEF Next, ApplyAsync, ClaimTimeLimit, CommitBlock

\* Every step keeps what holds of claims.
LEMMA NextClaims ==
  ASSUME IInv, [Next]_vars
  PROVE  ClaimsAsked' /\ RestartSuffices'
<1> USE DEF IInv
<1>1. CASE UNCHANGED message
  <2>1. ClaimsAsked'
    BY <1>1, JobsStay DEF ClaimsAsked, message
  <2>2. RestartSuffices'
    BY <1>1 DEF RestartSuffices, message
  <2>3. QED BY <2>1, <2>2
<1>2. ASSUME NEW j \in Jobs, NEW r \in Jobs, ApplyAsync(j, r)
      PROVE  ClaimsAsked' /\ RestartSuffices'
  <2>1. state[r] = "new" /\ ~(claimed[r] > 0)
    BY <1>2 DEF ApplyAsync, Fresh, ClaimsAsked
  <2>2. \A q \in Jobs : claimed[q] > 0 => q # r /\ asker[q] # r
    BY <2>1 DEF ClaimsAsked, DispatchInv, Askers
  <2>3. PICK l \in Options : limits' = [limits EXCEPT ![r] = l]
    BY <1>2 DEF ApplyAsync
  <2>4. /\ claimed' = claimed /\ asker' = [asker EXCEPT ![r] = j]
    BY <1>2 DEF ApplyAsync
  <2>5. ClaimsAsked'
    BY <2>2, <2>4, JobsStay DEF ClaimsAsked
  <2>6. ASSUME NEW q \in Jobs, claimed[q] > 0
        PROVE  /\ limits'[q] = limits[q] /\ asker'[q] = asker[q]
               /\ asker[q] \in Jobs /\ limits'[asker[q]] = limits[asker[q]]
    BY <2>2, <2>3, <2>4, <2>6 DEF ClaimsAsked, DispatchInv, Askers, TypeOK
  <2>7. RestartSuffices'
    BY <2>4, <2>6 DEF RestartSuffices
  <2>8. QED BY <2>5, <2>7
<1>3. ASSUME NEW j \in Jobs, NEW r \in Jobs, NEW t \in Claims, ClaimTimeLimit(j, r, t)
      PROVE  ClaimsAsked' /\ RestartSuffices'
  <2> USE <1>3 DEF ClaimTimeLimit, DispatchInv, TypeOK
  <2>1. state[r] = "new" /\ r # j /\ r # Root
    BY DEF Fresh, Askers, Sent, Running, Over
  <2>2. \A q \in Jobs : claimed[q] > 0 => q # r /\ asker[q] # r /\ asker[q] \in Jobs
    BY <2>1 DEF ClaimsAsked, Askers
  <2>3. state'[r] # "new"
    BY <2>1 DEF Submit
  <2>4. ClaimsAsked'
    BY <2>1, <2>2, <2>3, JobsStay DEF ClaimsAsked
  <2>5. /\ limits'[r] = RestartLimits(t) /\ claimed'[r] = t /\ asker'[r] = j
        /\ limits'[j] = limits[j] /\ limits[j] \in [soft : Limit, hard : Limit]
    BY <2>1
  <2>6. /\ ~Exceeds(t, RestartLimits(t))
        /\ Effective(RestartLimits(t)) > Effective(limits[j])
    BY <2>5, ClaimGains, Constants
  <2>7. ASSUME NEW q \in Jobs, q # r, claimed'[q] > 0
        PROVE  /\ limits'[q] = limits[q] /\ asker'[q] = asker[q] /\ claimed'[q] = claimed[q]
               /\ limits'[asker[q]] = limits[asker[q]] /\ claimed[q] > 0
    BY <2>2, <2>7
  <2>8. RestartSuffices'
    BY <2>5, <2>6, <2>7 DEF RestartSuffices
  <2>9. QED BY <2>4, <2>8
<1>4. QED
  BY <1>1, <1>2, <1>3, MessagesStay DEF vars, message


\* The invariant holds in every reachable state.
THEOREM Invariance == Spec => []IInv
<1>1. IInv /\ [Next]_vars => IInv'
  BY NextDispatch, NextClaims DEF IInv
<1>2. QED BY InitIInv, <1>1, PTL DEF Spec

\* The variables keep their types.
THEOREM TypeCorrect == Spec => []TypeOK
<1>1. IInv => TypeOK
  BY DEF IInv, DispatchInv
<1>2. QED BY Invariance, <1>1, PTL

\* However transactions nest, fail and are rolled back, and whatever workers
\* die: a job is sent only if all that it was asked for in is committed.
THEOREM SentIsCommitted == Spec => []OnlyCommitted
<1>1. IInv => OnlyCommitted
  BY DEF IInv, DispatchInv, Levels, OnlyCommitted
<1>2. QED BY Invariance, <1>1, PTL

\* An execution that is over has forgotten none of the jobs that it asked for
\* and committed.
THEOREM NothingForgotten == Spec => []CommittedIsSent
<1>1. ASSUME IInv PROVE CommittedIsSent
  <2> SUFFICES ASSUME NEW r \in Jobs \ {Root}, state[r] # "new", level[r] = 0,
                      state[asker[r]] \in Over
               PROVE  Sent(r) \/ state[r] = "lost"
    BY DEF CommittedIsSent
  <2> USE <1>1 DEF IInv, DispatchInv
  <2>1. state[r] # "dropped"
    BY DEF Levels, Undone
  <2>2. state[r] # "deferred"
    BY DEF Levels, Over
  <2>3. QED BY <2>1, <2>2 DEF TypeOK, Sent
<1>2. QED BY Invariance, <1>1, PTL

\* Whatever the limits of the class, the configuration and the message are, a
\* claim is granted in full, and the same claim does not restart again.
THEOREM ClaimsAreGranted == Spec => []RestartSuffices
<1>1. IInv => RestartSuffices
  BY DEF IInv
<1>2. QED BY Invariance, <1>1, PTL

-----------------------------------------------------------------------------
(* Traced tasks are tasks. *)

\* An action of the log context alone is a stutter of the tasks, any other is
\* theirs.
LEMMA TracedStep ==
  ASSUME [TracedNext]_<<vars, traced>>
  PROVE  [Next]_vars
  <1>1. CASE UNCHANGED <<vars, traced>>
    BY <1>1
  <1>2. ASSUME NEW j \in Jobs, TracedFramework(j)
        PROVE  [Next]_vars
    <2>1. CASE TracedStart(j)
      BY <2>1 DEF TracedStart, Next, Framework
    <2>2. CASE TracedUnwind(j)
      BY <2>2 DEF TracedUnwind, Next, Framework
    <2>3. CASE TracedFail(j)
      BY <2>3 DEF TracedFail, Next, Framework
    <2>4. CASE RunHook(j) \/ HooksDone(j)
      BY <2>4 DEF Next, Framework
    <2>5. CASE ExitRequest(j)
      BY <2>5 DEF ExitRequest
    <2> QED
      BY <1>2, <2>1, <2>2, <2>3, <2>4, <2>5 DEF TracedFramework
  <1>3. ASSUME NEW j \in Jobs, Body(j)
        PROVE  [Next]_vars
    <2>1. CASE HookFails(j) \/ OpenBlock(j) \/ CloseBlock(j) \/ CommitBlock(j)
                 \/ Raise(j) \/ Catch(j)
      BY <2>1 DEF Next
    <2>2. CASE TracedReturn(j)
      BY <2>2 DEF TracedReturn, Next
    <2>3. CASE EnterRequest(j) \/ ExitRequest(j)
      BY <2>3 DEF EnterRequest, ExitRequest
    <2>4. ASSUME NEW r \in Jobs, TracedApplyAsync(j, r)
          PROVE  [Next]_vars
      BY <2>4 DEF TracedApplyAsync, Next
    <2>5. ASSUME NEW r \in Jobs, NEW t \in Claims, TracedClaimTimeLimit(j, r, t)
          PROVE  [Next]_vars
      BY <2>5 DEF TracedClaimTimeLimit, Next
    <2>6. ASSUME NEW t \in Claims, ClaimRefused(j, t)
          PROVE  [Next]_vars
      BY <2>6 DEF Next
    <2> QED
      BY <1>3, <2>1, <2>2, <2>3, <2>4, <2>5, <2>6 DEF Body
  <1>4. ASSUME NEW j \in Jobs, TracedDie(j)
        PROVE  [Next]_vars
    BY <1>4 DEF TracedDie, Next
  <1> QED
    BY <1>1, <1>2, <1>3, <1>4 DEF TracedNext

\* Traced tasks are tasks: every behaviour of TracedTasks, with what its
\* messages carry left out, is one of TaskDispatch.
THEOREM TracedAreTasks == TracedSpec => Spec
  <1>1. TracedInit => Init
    BY DEF TracedInit
  <1> QED
    BY <1>1, TracedStep, PTL DEF TracedSpec, Spec

\* So a traced task is sent only for what is committed (mixins.py:15), what is
\* committed is not forgotten, and a restart grants what was claimed.
THEOREM TracedKeepPromises ==
  TracedSpec => [](OnlyCommitted /\ CommittedIsSent /\ RestartSuffices)
  <1> QED
    BY TracedAreTasks, SentIsCommitted, NothingForgotten, ClaimsAreGranted, PTL

-----------------------------------------------------------------------------
(* Contexts. *)

\* Ids are numbers, that of no task among them not.
LEMMA KeysIds ==
  /\ Ids \subseteq Int /\ None \notin Ids /\ Jobs \subseteq Ids
  /\ \A j \in Jobs : NewId(j) \in Ids
  BY DispatchAssumption, LimitAssumption DEF Ids, Jobs, NewId

\* What a context is.
LEMMA ContextType ==
  ASSUME NEW c
  PROVE  c \in Contexts <=> DOMAIN c \subseteq Keys /\ c \in [DOMAIN c -> Ids]
  BY DEF Contexts

\* The empty one, of which there is one.
LEMMA EmptyIs ==
  /\ Empty \in Contexts /\ DOMAIN Empty = {}
  /\ \A c \in Contexts : DOMAIN c = {} => c = Empty
  <1>1. Empty \in [{} -> Ids] /\ DOMAIN Empty = {}
    BY DEF Empty
  <1>2. Empty \in Contexts
    BY <1>1, ContextType
  <1>3. ASSUME NEW c \in Contexts, DOMAIN c = {}
        PROVE  c = Empty
    BY <1>1, <1>3, ContextType
  <1> QED
    BY <1>1, <1>2, <1>3

\* What update() makes of two.
LEMMA UpdateIs ==
  ASSUME NEW c \in Contexts, NEW d \in Contexts
  PROVE  /\ Update(c, d) \in Contexts
         /\ DOMAIN Update(c, d) = DOMAIN c \cup DOMAIN d
         /\ \A k \in DOMAIN d : Update(c, d)[k] = d[k]
         /\ \A k \in DOMAIN c \ DOMAIN d : Update(c, d)[k] = c[k]
  <1>1. DOMAIN c \subseteq Keys /\ c \in [DOMAIN c -> Ids]
        /\ DOMAIN d \subseteq Keys /\ d \in [DOMAIN d -> Ids]
    BY ContextType
  <1>2. DOMAIN Update(c, d) = DOMAIN c \cup DOMAIN d
        /\ Update(c, d) \in [DOMAIN c \cup DOMAIN d -> Ids]
    BY <1>1 DEF Update
  <1> QED
    BY <1>1, <1>2, ContextType DEF Update

\* What is left of one.
LEMMA RestrictIs ==
  ASSUME NEW c \in Contexts, NEW K
  PROVE  /\ Restricted(c, K) \in Contexts
         /\ DOMAIN Restricted(c, K) = DOMAIN c \cap K
         /\ \A k \in DOMAIN c \cap K : Restricted(c, K)[k] = c[k]
  <1>1. DOMAIN c \subseteq Keys /\ c \in [DOMAIN c -> Ids]
    BY ContextType
  <1>2. DOMAIN Restricted(c, K) = DOMAIN c \cap K /\ Restricted(c, K) \in [DOMAIN c \cap K -> Ids]
    BY <1>1 DEF Restricted
  <1> QED
    BY <1>1, <1>2, ContextType DEF Restricted

\* Contexts are equal if they say the same.
LEMMA SameContext ==
  ASSUME NEW c \in Contexts, NEW d \in Contexts, DOMAIN c = DOMAIN d,
         \A k \in DOMAIN c : c[k] = d[k]
  PROVE  c = d
  <1>1. c \in [DOMAIN c -> Ids] /\ d \in [DOMAIN c -> Ids]
    BY ContextType
  <1> QED
    BY <1>1

Blocks == [keys : SUBSET Keys, saved : Contexts]

\* What a log_context block keeps of a context.
LEMMA BlockType ==
  ASSUME NEW c \in Contexts, NEW d \in Contexts
  PROVE  BlockOf(c, d) \in Blocks
  <1>1. DOMAIN d \subseteq Keys /\ Restricted(c, DOMAIN d) \in Contexts
    BY ContextType, RestrictIs
  <1> QED
    BY <1>1 DEF BlockOf, Blocks

\* In an empty context a block sets what it is told to.
LEMMA UpdateEmpty ==
  ASSUME NEW d \in Contexts
  PROVE  Update(Empty, d) = d
  <1> DEFINE u == Update(Empty, d)
  <1>1. Empty \in Contexts /\ DOMAIN Empty = {}
    BY EmptyIs
  <1>2. u \in Contexts /\ DOMAIN u = DOMAIN Empty \cup DOMAIN d /\ \A k \in DOMAIN d : u[k] = d[k]
    BY <1>1, UpdateIs
  <1> HIDE DEF u
  <1>3. u = d
    BY <1>1, <1>2, SameContext
  <1> QED
    BY <1>3 DEF u

\* log_context leaves the context as it found it (log_context.py), whatever it
\* was to set and whether or not that was set before.
THEOREM BlockRestores ==
  ASSUME NEW c \in Contexts, NEW kwargs \in Contexts
  PROVE  Restored(Update(c, kwargs), BlockOf(c, kwargs)) = c
  <1> DEFINE u == Update(c, kwargs)
             K == DOMAIN kwargs
             kept == Restricted(u, DOMAIN u \ K)
             saved == Restricted(c, K)
  <1>1. u \in Contexts /\ DOMAIN u = DOMAIN c \cup K /\ \A k \in DOMAIN c \ K : u[k] = c[k]
    BY UpdateIs
  <1>2. saved \in Contexts /\ DOMAIN saved = DOMAIN c \cap K /\ \A k \in DOMAIN c \cap K : saved[k] = c[k]
    BY RestrictIs
  <1> HIDE DEF u, saved
  <1>3. kept \in Contexts /\ DOMAIN kept = DOMAIN c \ K /\ \A k \in DOMAIN c \ K : kept[k] = c[k]
    <2>1. DOMAIN u \cap (DOMAIN u \ K) = DOMAIN c \ K
      BY <1>1
    <2> QED
      BY <1>1, <2>1, RestrictIs
  <1> HIDE DEF kept
  <1>4. Update(kept, saved) = c
    <2>1. /\ Update(kept, saved) \in Contexts
          /\ DOMAIN Update(kept, saved) = DOMAIN kept \cup DOMAIN saved
          /\ \A k \in DOMAIN saved : Update(kept, saved)[k] = saved[k]
          /\ \A k \in DOMAIN kept \ DOMAIN saved : Update(kept, saved)[k] = kept[k]
      BY <1>2, <1>3, UpdateIs
    <2>2. DOMAIN Update(kept, saved) = DOMAIN c
      BY <1>2, <1>3, <2>1
    <2>3. \A k \in DOMAIN c : Update(kept, saved)[k] = c[k]
      BY <1>2, <1>3, <2>1
    <2> QED
      BY <2>1, <2>2, <2>3, SameContext
  <1> QED
    BY <1>4 DEF Restored, BlockOf, u, kept, saved

\* The context an execution is in gets its trace and parent from the message.
LEMMA ContextOfIs ==
  ASSUME NEW h \in Contexts, NEW i \in Ids
  PROVE  /\ ContextOf(h, i) \in Contexts
         /\ DOMAIN ContextOf(h, i) = DOMAIN h \cup {"trace", "request"}
         /\ ContextOf(h, i).request = i
         /\ ContextOf(h, i).trace = IF "trace" \in DOMAIN h THEN h.trace ELSE i
         /\ "parent" \in DOMAIN h => ContextOf(h, i).parent = h.parent
  <1> DEFINE t == [trace |-> i]
             r == [request |-> i]
             g == IF "trace" \in DOMAIN h THEN h ELSE Update(h, t)
  <1>1. /\ t \in [{"trace"} -> Ids] /\ DOMAIN t = {"trace"} /\ t["trace"] = i
        /\ r \in [{"request"} -> Ids] /\ DOMAIN r = {"request"} /\ r["request"] = i
    OBVIOUS
  <1>2. t \in Contexts /\ r \in Contexts
    BY <1>1, ContextType DEF Keys
  <1> HIDE DEF t, r
  <1>3. /\ g \in Contexts /\ DOMAIN g = DOMAIN h \cup {"trace"}
        /\ g["trace"] = IF "trace" \in DOMAIN h THEN h["trace"] ELSE i
        /\ "parent" \in DOMAIN h => g["parent"] = h["parent"]
    <2>1. /\ Update(h, t) \in Contexts
          /\ DOMAIN Update(h, t) = DOMAIN h \cup DOMAIN t
          /\ \A k \in DOMAIN t : Update(h, t)[k] = t[k]
          /\ \A k \in DOMAIN h \ DOMAIN t : Update(h, t)[k] = h[k]
      BY <1>2, UpdateIs
    <2> QED
      BY <1>1, <2>1
  <1>4. ContextOf(h, i) = Update(g, r)
    BY DEF ContextOf, t, r
  <1> HIDE DEF g
  <1>5. /\ Update(g, r) \in Contexts
        /\ DOMAIN Update(g, r) = DOMAIN g \cup DOMAIN r
        /\ \A k \in DOMAIN r : Update(g, r)[k] = r[k]
        /\ \A k \in DOMAIN g \ DOMAIN r : Update(g, r)[k] = g[k]
    BY <1>2, <1>3, UpdateIs
  <1> QED
    BY <1>1, <1>3, <1>4, <1>5

\* The context of a request made in another one.
LEMMA NewRequestIs ==
  ASSUME NEW c \in Contexts, "request" \in DOMAIN c, NEW j \in Jobs
  PROVE  /\ NewRequest(c, j) \in Contexts
         /\ DOMAIN NewRequest(c, j) = {"parent", "request"}
         /\ Update(c, NewRequest(c, j)) \in Contexts
         /\ DOMAIN Update(c, NewRequest(c, j)) = DOMAIN c \cup {"parent", "request"}
         /\ Update(c, NewRequest(c, j)).request = NewId(j)
         /\ "trace" \in DOMAIN c => Update(c, NewRequest(c, j)).trace = c.trace
  <1> DEFINE n == NewRequest(c, j)
  <1>1. c.request \in Ids /\ NewId(j) \in Ids
    BY ContextType, KeysIds
  <1>2. n \in [{"parent", "request"} -> Ids] /\ DOMAIN n = {"parent", "request"}
        /\ n["request"] = NewId(j)
    BY <1>1 DEF NewRequest
  <1>3. n \in Contexts
    BY <1>2, ContextType DEF Keys
  <1> HIDE DEF n
  <1>4. /\ Update(c, n) \in Contexts
        /\ DOMAIN Update(c, n) = DOMAIN c \cup {"parent", "request"}
        /\ Update(c, n)["request"] = NewId(j)
        /\ "trace" \in DOMAIN c => Update(c, n)["trace"] = c["trace"]
    <2>1. /\ Update(c, n) \in Contexts
          /\ DOMAIN Update(c, n) = DOMAIN c \cup DOMAIN n
          /\ \A k \in DOMAIN n : Update(c, n)[k] = n[k]
          /\ \A k \in DOMAIN c \ DOMAIN n : Update(c, n)[k] = c[k]
      BY <1>3, UpdateIs
    <2> QED
      BY <1>2, <2>1
  <1> QED
    BY <1>2, <1>3, <1>4 DEF n

\* What a message takes along: the trace, and the request as the parent.
LEMMA HeaderOfIs ==
  ASSUME NEW c \in Contexts, {"trace", "request"} \subseteq DOMAIN c
  PROVE  /\ HeaderOf(c) \in Contexts
         /\ DOMAIN HeaderOf(c) = {"trace", "parent"}
         /\ HeaderOf(c).trace = c.trace
         /\ HeaderOf(c).parent = c.request
  <1> DEFINE p == [parent |-> c.request]
             r == Restricted(c, Keys \ {"request"})
  <1>1. DOMAIN c \subseteq Keys /\ c.request \in Ids
    BY ContextType
  <1>2. p \in [{"parent"} -> Ids] /\ DOMAIN p = {"parent"} /\ p["parent"] = c["request"]
    BY <1>1
  <1>3. p \in Contexts
    BY <1>2, ContextType DEF Keys
  <1>4. r \in Contexts /\ DOMAIN r = DOMAIN c \ {"request"} /\ r["trace"] = c["trace"]
    <2>1. DOMAIN c \cap (Keys \ {"request"}) = DOMAIN c \ {"request"}
      BY <1>1
    <2> QED
      BY <2>1, RestrictIs
  <1>5. HeaderOf(c) = Update(r, p)
    BY DEF HeaderOf
  <1> HIDE DEF p, r
  <1>6. DOMAIN r \cup {"parent"} = {"trace", "parent"}
    BY <1>1, <1>4 DEF Keys
  <1>7. /\ Update(r, p) \in Contexts
        /\ DOMAIN Update(r, p) = DOMAIN r \cup DOMAIN p
        /\ \A k \in DOMAIN p : Update(r, p)[k] = p[k]
        /\ \A k \in DOMAIN r \ DOMAIN p : Update(r, p)[k] = r[k]
    BY <1>3, <1>4, UpdateIs
  <1> QED
    BY <1>2, <1>4, <1>5, <1>6, <1>7

-----------------------------------------------------------------------------
(* What the steps of the tasks do to the states of others. *)

Same(q) ==
  /\ state'[q] \in Running <=> state[q] \in Running
  /\ state'[q] = "ending" <=> state[q] = "ending"
  /\ state'[q] = "new" <=> state[q] = "new"

\* Only what an execution has pending changes with it.
LEMMA WorkIsOwn ==
  ASSUME DispatchInv, NEW j \in Jobs,
         \/ RunHook(j) \/ HooksDone(j) \/ Unwind(j) \/ Fail(j) \/ HookFails(j)
         \/ OpenBlock(j) \/ CloseBlock(j) \/ CommitBlock(j) \/ Return(j)
         \/ Raise(j) \/ Catch(j) \/ Die(j) \/ \E t \in Claims : ClaimRefused(j, t)
  PROVE  /\ state[j] \in Running /\ state'[j] \in Running \cup Over
         /\ \A q \in Jobs \ {j} : Same(q)
  <1> USE DEF DispatchInv, TypeOK, Same, Running, Over, message, Pending, AskedBy
  <1>1. CASE RunHook(j)
    BY <1>1 DEF RunHook
  <1>2. CASE HooksDone(j)
    BY <1>2 DEF HooksDone
  <1>3. CASE Unwind(j)
    BY <1>3 DEF Unwind, Bound
  <1>4. CASE Fail(j)
    BY <1>4 DEF Fail
  <1>5. CASE HookFails(j)
    BY <1>5 DEF HookFails
  <1>6. CASE OpenBlock(j) \/ CloseBlock(j)
    BY <1>6 DEF OpenBlock, CloseBlock
  <1>7. CASE CommitBlock(j) \/ Return(j)
    BY <1>7 DEF CommitBlock, Return, Commit
  <1>8. CASE Raise(j) \/ Catch(j) \/ \E t \in Claims : ClaimRefused(j, t)
    BY <1>8 DEF Raise, Catch, ClaimRefused
  <1>9. CASE Die(j)
    BY <1>9 DEF Die
  <1> QED
    BY <1>1, <1>2, <1>3, <1>4, <1>5, <1>6, <1>7, <1>8, <1>9

\* What an execution asks for is a new job of its own.
LEMMA SubmitIsOwn ==
  ASSUME DispatchInv, NEW j \in Jobs, NEW r \in Jobs, NEW next \in {"body", "retrying"},
         state[j] = "body", Fresh(r), Submit(j, r, next)
  PROVE  /\ r # j /\ r # Root /\ state[r] = "new" /\ state'[r] \in {"deferred", "queued"}
         /\ state'[j] = next
         /\ \A q \in Jobs \ {r} : Same(q)
  BY DEF DispatchInv, TypeOK, Askers, Sent, Same, Running, Over, Fresh, Submit

-----------------------------------------------------------------------------
(* The invariant. *)

\* A thread is told from none.
LEMMA NoneNoThread == None \notin Threads
  <1>1. Threads \subseteq Int
    BY ThreadAssumption
  <1>2. None \notin Int
    BY LimitAssumption
  <1> QED
    BY <1>1, <1>2

\* What an execution's context holds, inner or not.
LEMMA OwnIs ==
  ASSUME TracedIInv, NEW j \in Jobs, state[j] # "new"
  PROVE  /\ Own(j) \in Contexts
         /\ DOMAIN Own(j) = DOMAIN header[j] \cup {"trace", "request"}
         /\ Own(j).request = id[j]
         /\ Own(j).trace = RootTrace
         /\ "parent" \in DOMAIN header[j] => Own(j).parent = header[j].parent
  <1>1. header[j] \in Contexts /\ id[j] \in Ids
    BY KeysIds DEF TracedIInv, TracedTypeOK, HeaderInv
  <1>2. /\ Own(j) \in Contexts
        /\ DOMAIN Own(j) = DOMAIN header[j] \cup {"trace", "request"}
        /\ Own(j).request = id[j]
        /\ Own(j).trace = IF "trace" \in DOMAIN header[j] THEN header[j].trace ELSE id[j]
        /\ "parent" \in DOMAIN header[j] => Own(j).parent = header[j].parent
    BY <1>1, ContextOfIs DEF Own
  <1>3. Own(j).trace = RootTrace
    BY <1>2 DEF TracedIInv, HeaderInv, RootTrace
  <1> QED
    BY <1>2, <1>3

\* An execution has a trace and a request in its context.
LEMMA ContextIs ==
  ASSUME TracedIInv, NEW j \in Jobs, state[j] \in Running
  PROVE  /\ Context(j) \in Contexts
         /\ {"trace", "request"} \subseteq DOMAIN Context(j)
         /\ Context(j).trace = RootTrace
  <1>1. state[j] # "new"
    BY DEF Running
  <1>2. CASE Context(j) = Own(j)
    BY <1>1, <1>2, OwnIs
  <1>3. CASE Context(j) = Update(Own(j), NewRequest(Own(j), j))
    <2>1. Own(j) \in Contexts /\ {"trace", "request"} \subseteq DOMAIN Own(j) /\ Own(j).trace = RootTrace
      BY <1>1, OwnIs
    <2> QED
      BY <1>3, <2>1, NewRequestIs
  <1> QED
    BY <1>2, <1>3 DEF TracedIInv, BlocksInv

\* A step of execution j on its thread t, which leaves it with the context c
\* and the blocks b, and on the thread s.
OneSteps(j, t, s, c, b) ==
  /\ state[j] # "new" /\ state'[j] # "new" /\ thread[j] \in {t, None}
  /\ \A q \in Jobs \ {j} : Same(q) /\ thread[q] # t
  /\ context' = [context EXCEPT ![t] = c]
  /\ thread' = [thread EXCEPT ![j] = s]
  /\ blocks' = [blocks EXCEPT ![j] = b]
  /\ UNCHANGED <<id, header, asked>>
  /\ s = t <=> state'[j] \in Running
  /\ s = None => c = Empty
  /\ \/ state'[j] \notin Running /\ b = <<>>
     \/ state'[j] \in Running /\ b = <<BlockOf(Empty, Own(j))>> /\ c = Own(j)
     \/ /\ state'[j] \in Running \ {"ending"}
        /\ b = <<BlockOf(Empty, Own(j)), BlockOf(Own(j), NewRequest(Own(j), j))>>
        /\ c = Update(Own(j), NewRequest(Own(j), j))

\* A step of one execution, that touches no thread but its own, keeps the invariant
\* if what it does to that thread's context and to its own blocks agree.
LEMMA OneExecution ==
  ASSUME TracedIInv, DispatchInv', NEW j \in Jobs, NEW t \in Threads, NEW s \in {t, None},
         NEW c \in Contexts, NEW b, OneSteps(j, t, s, c, b)
  PROVE  TracedIInv'
  <1> USE NoneNoThread DEF TracedIInv, OneSteps
  <1>1. /\ context \in [Threads -> Contexts] /\ thread \in [Jobs -> Threads \cup {None}]
        /\ blocks \in [Jobs -> Seq(Blocks)]
        /\ \A q \in Jobs : thread[q] \in Threads <=> state[q] \in Running
    BY DEF TracedTypeOK, Blocks
  <1>2. TracedTypeOK'
    <2>1. context' \in [Threads -> Contexts] /\ thread' \in [Jobs -> Threads \cup {None}]
      BY <1>1
    <2>2. id' \in [Jobs -> Jobs \cup {None}] /\ header' \in [Jobs -> Contexts]
          /\ asked' \in [Jobs -> Ids \cup {None}]
      BY DEF TracedTypeOK
    <2>3. \A q \in Jobs : thread'[q] \in Threads <=> state'[q] \in Running
      BY <1>1 DEF Same
    <2>4. ASSUME NEW u \in Threads, \A q \in Jobs : thread'[q] # u
          PROVE  context'[u] = Empty
      BY <1>1, <2>4 DEF TracedTypeOK
    <2>5. b \in Seq(Blocks)
      <3>1. /\ BlockOf(Empty, Own(j)) \in Blocks
            /\ BlockOf(Own(j), NewRequest(Own(j), j)) \in Blocks
        BY EmptyIs, OwnIs, NewRequestIs, BlockType
      <3>2. \A x, y \in Blocks : {<<>>, <<x>>, <<x, y>>} \subseteq Seq(Blocks)
        OBVIOUS
      <3>3. b \in {<<>>, <<BlockOf(Empty, Own(j))>>,
                  <<BlockOf(Empty, Own(j)), BlockOf(Own(j), NewRequest(Own(j), j))>>}
        OBVIOUS
      <3> QED
        BY <3>1, <3>2, <3>3
    <2>6. blocks' \in [Jobs -> Seq(Blocks)]
      BY <1>1, <2>5
    <2> QED
      BY <2>1, <2>2, <2>3, <2>4, <2>6 DEF TracedTypeOK, Blocks
  <1>3. ThreadsApart'
    BY <1>1 DEF ThreadsApart
  <1>4. HeaderInv'
    BY DEF HeaderInv, RootTrace, Same
  <1>5. BlocksInv'
    <2>1. \A q \in Jobs : Own(q)' = Own(q)
      BY DEF Own
    <2>2. DOMAIN blocks' = Jobs /\ blocks'[j] = b
      BY <1>1
    <2>3. \A q \in Jobs \ {j} : blocks'[q] = blocks[q]
      BY <1>1
    <2>4. ASSUME NEW q \in Jobs \ {j}, state[q] \in Running
          PROVE  Context(q)' = Context(q)
      BY <1>1, <2>4 DEF Context
    <2>5. state'[j] \in Running => Context(j)' = c
      BY <1>1 DEF Context
    <2>6. ASSUME NEW q \in Jobs \ {j}
          PROVE  \/ state'[q] \notin Running /\ blocks'[q] = <<>>
                 \/ /\ state'[q] \in Running
                    /\ blocks'[q] = <<BlockOf(Empty, Own(q)')>>
                    /\ Context(q)' = Own(q)'
                 \/ /\ state'[q] \in Running \ {"ending"}
                    /\ blocks'[q] = <<BlockOf(Empty, Own(q)'), BlockOf(Own(q)', NewRequest(Own(q)', q))>>
                    /\ Context(q)' = Update(Own(q)', NewRequest(Own(q)', q))
      BY <2>1, <2>3, <2>4 DEF BlocksInv, Same
    <2>7. \/ state'[j] \notin Running /\ blocks'[j] = <<>>
          \/ /\ state'[j] \in Running
             /\ blocks'[j] = <<BlockOf(Empty, Own(j)')>>
             /\ Context(j)' = Own(j)'
          \/ /\ state'[j] \in Running \ {"ending"}
             /\ blocks'[j] = <<BlockOf(Empty, Own(j)'), BlockOf(Own(j)', NewRequest(Own(j)', j))>>
             /\ Context(j)' = Update(Own(j)', NewRequest(Own(j)', j))
      BY <2>1, <2>2, <2>5
    <2> QED
      BY <2>2, <2>6, <2>7 DEF BlocksInv
  <1> QED
    BY <1>2, <1>3, <1>4, <1>5

\* Two sequences of one element ...
LEMMA SameOne ==
  ASSUME NEW S, NEW s \in Seq(S), NEW t \in Seq(S), Len(s) = 1, Len(t) = 1, s[1] = t[1]
  PROVE  s = t
  <1>1. \A i \in 1 .. Len(s) : s[i] = t[i]
    OBVIOUS
  <1> QED
    BY <1>1, SeqEqual

\* ... or two are equal if their elements are.
LEMMA SameTwo ==
  ASSUME NEW S, NEW s \in Seq(S), NEW t \in Seq(S), Len(s) = 2, Len(t) = 2,
         s[1] = t[1], s[2] = t[2]
  PROVE  s = t
  <1>1. \A i \in 1 .. Len(s) : i = 1 \/ i = 2
    OBVIOUS
  <1> QED
    BY <1>1, SeqEqual

\* A block is pushed on a stack of at most one, or popped.
LEMMA Tuples ==
  ASSUME NEW x, NEW y
  PROVE  /\ Append(<<>>, x) = <<x>> /\ Append(<<x>>, y) = <<x, y>>
         /\ Len(<<>>) = 0 /\ Len(<<x>>) = 1 /\ Len(<<x, y>>) = 2
         /\ <<x>>[1] = x /\ <<x, y>>[2] = y
         /\ SubSeq(<<x>>, 1, 0) = <<>> /\ SubSeq(<<x, y>>, 1, 1) = <<x>>
  <1> DEFINE S == {x, y}
  <1>1. <<x>> \in Seq(S) /\ <<x, y>> \in Seq(S) /\ x \in S /\ y \in S
    OBVIOUS
  <1>2. /\ Len(<<>>) = 0 /\ Len(<<x>>) = 1 /\ Len(<<x, y>>) = 2
        /\ <<x, y>>[1] = x /\ <<x, y>>[2] = y /\ <<x>>[1] = x
    OBVIOUS
  <1>3. Append(<<>>, x) = <<x>> /\ SubSeq(<<x>>, 1, 0) = <<>>
    OBVIOUS
  <1> HIDE DEF S
  <1>4. Append(<<x>>, y) = <<x, y>>
    <2>1. /\ Append(<<x>>, y) \in Seq(S) /\ Len(Append(<<x>>, y)) = 2
          /\ Append(<<x>>, y)[1] = x /\ Append(<<x>>, y)[2] = y
      BY <1>1, <1>2, AppendProperties
    <2> QED
      BY <1>1, <1>2, <2>1, SameTwo
  <1>5. SubSeq(<<x, y>>, 1, 1) = <<x>>
    <2>1. /\ SubSeq(<<x, y>>, 1, 1) \in Seq(S) /\ Len(SubSeq(<<x, y>>, 1, 1)) = 1
          /\ SubSeq(<<x, y>>, 1, 1)[1] = x
      BY <1>1, <1>2, SubSeqProperties
    <2> QED
      BY <1>1, <1>2, <2>1, SameOne
  <1> QED
    BY <1>2, <1>3, <1>4, <1>5

\* Nothing is executed, and Root is on its way.
LEMMA TracedInitInv == TracedInit => TracedIInv
  <1> SUFFICES ASSUME TracedInit
               PROVE  TracedIInv
    OBVIOUS
  <1>1. DispatchInv
    BY InitIInv DEF TracedInit, IInv
  <1>2. PICK c \in {Empty, WebRequest} :
          /\ header = [j \in Jobs |-> IF j = Root THEN HeaderOf(c) ELSE Empty]
          /\ asked = [j \in Jobs |-> IF j = Root /\ c # Empty THEN c.request ELSE None]
    BY DEF TracedInit
  <1>3. /\ HeaderOf(Empty) = Empty /\ DOMAIN Empty = {} /\ Empty \in Contexts
    BY EmptyIs DEF HeaderOf
  <1>4. /\ WebRequest \in Contexts /\ DOMAIN WebRequest = Keys /\ WebRequest # Empty
        /\ WebRequest.request = -1 /\ -1 \in Ids
    <2>1. -2 \in Ids /\ -1 \in Ids /\ 0 \in Ids
      BY DispatchAssumption DEF Ids
    <2>2. WebRequest \in [Keys -> Ids] /\ DOMAIN WebRequest = Keys
      BY <2>1 DEF WebRequest, Keys
    <2> QED
      BY <1>3, <2>1, <2>2, ContextType DEF WebRequest, Keys
  <1>5. /\ HeaderOf(WebRequest) \in Contexts /\ DOMAIN HeaderOf(WebRequest) = {"trace", "parent"}
        /\ HeaderOf(WebRequest).parent = -1
    BY <1>4, HeaderOfIs DEF Keys
  <1>6. /\ state = [j \in Jobs |-> IF j = Root THEN "queued" ELSE "new"]
        /\ context = [t \in Threads |-> Empty]
        /\ thread = [j \in Jobs |-> None]
        /\ blocks = [j \in Jobs |-> <<>>]
        /\ id = [j \in Jobs |-> IF j = Root THEN Root ELSE None]
        /\ Root \in Jobs /\ None \notin Ids
    BY Constants, KeysIds DEF TracedInit, Init
  <1>7. TracedTypeOK
    <2>1. header \in [Jobs -> Contexts] /\ asked \in [Jobs -> Ids \cup {None}]
      BY <1>2, <1>3, <1>4, <1>5
    <2>2. /\ context \in [Threads -> Contexts] /\ thread \in [Jobs -> Threads \cup {None}]
          /\ id \in [Jobs -> Jobs \cup {None}]
          /\ blocks \in [Jobs -> Seq([keys : SUBSET Keys, saved : Contexts])]
      BY <1>3, <1>6
    <2>3. \A j \in Jobs : thread[j] \in Threads <=> state[j] \in Running
      BY <1>6, NoneNoThread DEF Running
    <2> QED
      BY <1>6, <2>1, <2>2, <2>3 DEF TracedTypeOK
  <1>8. ThreadsApart
    BY <1>6, NoneNoThread DEF ThreadsApart
  <1>9. HeaderInv
    <2>1. CASE c = Empty
      BY <1>2, <1>3, <1>6, <2>1 DEF HeaderInv
    <2>2. CASE c = WebRequest
      BY <1>2, <1>4, <1>5, <1>6, <2>2 DEF HeaderInv
    <2> QED
      BY <2>1, <2>2
  <1>10. BlocksInv
    BY <1>6 DEF BlocksInv, Running
  <1> QED
    BY <1>1, <1>7, <1>8, <1>9, <1>10 DEF TracedIInv

\* An execution begins, in a context of its own.
LEMMA TracedStartInv ==
  ASSUME TracedIInv, DispatchInv', NEW j \in Jobs, TracedStart(j)
  PROVE  TracedIInv'
  <1> USE NoneNoThread DEF TracedIInv
  <1>1. PICK t \in Threads :
          /\ \A q \in Jobs : thread[q] # t
          /\ Start(j)
          /\ thread' = [thread EXCEPT ![j] = t]
          /\ Enter(j, t, ContextOf(header[j], id[j]))
          /\ UNCHANGED <<id, header, asked>>
    BY DEF TracedStart
  <1>2. /\ state[j] = "queued" /\ state'[j] = "body" /\ \A q \in Jobs \ {j} : Same(q)
    BY <1>1 DEF DispatchInv, TypeOK, Start, Same
  <1>3. context[t] = Empty /\ thread[j] = None /\ Own(j) \in Contexts
    BY <1>1, <1>2, OwnIs DEF TracedTypeOK, Running
  <1>4. Update(Empty, Own(j)) = Own(j)
    BY <1>3, UpdateEmpty
  <1>5. context' = [context EXCEPT ![t] = Own(j)]
    BY <1>1, <1>3, <1>4 DEF Enter, Own, TracedTypeOK
  <1>6. blocks' = [blocks EXCEPT ![j] = <<BlockOf(Empty, Own(j))>>]
    <2>1. blocks[j] = <<>>
      BY <1>2 DEF BlocksInv, Running
    <2> QED
      BY <1>1, <1>3, <2>1, Tuples DEF Enter, Own, BlocksInv
  <1>7. state'[j] \in Running
    BY <1>2 DEF Running
  <1>8. OneSteps(j, t, t, Own(j), <<BlockOf(Empty, Own(j))>>)
    BY <1>1, <1>2, <1>3, <1>5, <1>6, <1>7 DEF OneSteps
  <1> QED
    BY <1>3, <1>8, OneExecution

\* An execution has a thread to itself.
LEMMA ThreadOf ==
  ASSUME TracedIInv, NEW j \in Jobs, state[j] \in Running
  PROVE  thread[j] \in Threads /\ \A q \in Jobs \ {j} : thread[q] # thread[j]
  BY DEF TracedIInv, TracedTypeOK, ThreadsApart

\* A body enters a new_request_context ...
LEMMA EnterRequestInv ==
  ASSUME TracedIInv, DispatchInv', NEW j \in Jobs, EnterRequest(j)
  PROVE  TracedIInv'
  <1> USE DEF TracedIInv
  <1> DEFINE t == thread[j]
             c == Update(Own(j), NewRequest(Own(j), j))
             b == <<BlockOf(Empty, Own(j)), BlockOf(Own(j), NewRequest(Own(j), j))>>
  <1>1. /\ state[j] = "body" /\ state' = state /\ UNCHANGED <<thread, id, header, asked>>
        /\ Outermost(j) /\ state[j] \in Running
        /\ Enter(j, t, NewRequest(Context(j), j))
    BY DEF EnterRequest, vars, Running
  <1>2. t \in Threads /\ \A q \in Jobs \ {j} : thread[q] # t
    BY <1>1, ThreadOf
  <1>3. blocks[j] = <<BlockOf(Empty, Own(j))>> /\ Context(j) = Own(j)
    BY <1>1 DEF BlocksInv, Outermost
  <1>4. /\ context' = [context EXCEPT ![t] = Update(@, NewRequest(Own(j), j))]
        /\ blocks' = [blocks EXCEPT ![j] = Append(@, BlockOf(Own(j), NewRequest(Own(j), j)))]
    BY <1>1, <1>3 DEF Enter, Context
  <1>5. context' = [context EXCEPT ![t] = c] /\ blocks' = [blocks EXCEPT ![j] = b]
    <2>1. Append(blocks[j], BlockOf(Own(j), NewRequest(Own(j), j))) = b
      BY <1>3, Tuples
    <2>2. context[t] = Own(j)
      BY <1>3 DEF Context
    <2> QED
      BY <1>4, <2>1, <2>2
  <1>6. c \in Contexts
    BY <1>1, OwnIs, NewRequestIs
  <1>7. thread' = [thread EXCEPT ![j] = t] /\ \A q \in Jobs : Same(q)
    BY <1>1, <1>2 DEF TracedTypeOK, Same
  <1>8. t # None
    BY <1>2, NoneNoThread
  <1>9. OneSteps(j, t, t, c, b)
    BY <1>1, <1>2, <1>5, <1>7, <1>8 DEF OneSteps
  <1> HIDE DEF t, c, b
  <1> QED
    BY <1>2, <1>6, <1>9, OneExecution

\* What leaving a block does to a stack of two, and of one.
LEMMA Popped ==
  ASSUME NEW j \in Jobs, Exit(j)
  PROVE  /\ \A x, y : blocks[j] = <<x, y>> =>
              /\ context' = [context EXCEPT ![thread[j]] = Restored(Context(j), y)]
              /\ blocks' = [blocks EXCEPT ![j] = <<x>>]
         /\ \A x : blocks[j] = <<x>> =>
              /\ context' = [context EXCEPT ![thread[j]] = Restored(Context(j), x)]
              /\ blocks' = [blocks EXCEPT ![j] = <<>>]
  <1>1. /\ context' = [context EXCEPT ![thread[j]] = Restored(Context(j), blocks[j][Len(blocks[j])])]
        /\ blocks' = [blocks EXCEPT ![j] = SubSeq(blocks[j], 1, Len(blocks[j]) - 1)]
    BY DEF Exit, Context
  <1>2. ASSUME NEW x, NEW y, blocks[j] = <<x, y>>
        PROVE  blocks[j][Len(blocks[j])] = y /\ SubSeq(blocks[j], 1, Len(blocks[j]) - 1) = <<x>>
    <2>1. Len(blocks[j]) = 2 /\ <<x, y>>[2] = y /\ SubSeq(<<x, y>>, 1, 1) = <<x>>
      BY <1>2, Tuples
    <2> QED
      BY <1>2, <2>1
  <1>3. ASSUME NEW x, blocks[j] = <<x>>
        PROVE  blocks[j][Len(blocks[j])] = x /\ SubSeq(blocks[j], 1, Len(blocks[j]) - 1) = <<>>
    <2>1. Len(blocks[j]) = 1 /\ <<x>>[1] = x /\ SubSeq(<<x>>, 1, 0) = <<>>
      BY <1>3, Tuples
    <2> QED
      BY <1>3, <2>1
  <1> QED
    BY <1>1, <1>2, <1>3

\* ... and leaves it, and is back in its own.
LEMMA ExitRequestInv ==
  ASSUME TracedIInv, DispatchInv', NEW j \in Jobs, ExitRequest(j)
  PROVE  TracedIInv'
  <1> USE DEF TracedIInv
  <1> DEFINE t == thread[j]
             b == <<BlockOf(Empty, Own(j))>>
             n == NewRequest(Own(j), j)
  <1>1. /\ state' = state /\ UNCHANGED <<thread, id, header, asked>>
        /\ ~Outermost(j) /\ blocks[j] # <<>>
        /\ state[j] \in Running \ {"ending"} /\ state[j] # "new"
        /\ Exit(j)
    BY DEF ExitRequest, vars, Running
  <1>2. t \in Threads /\ \A q \in Jobs \ {j} : thread[q] # t
    BY <1>1, ThreadOf
  <1>3. blocks[j] = <<BlockOf(Empty, Own(j)), BlockOf(Own(j), n)>> /\ Context(j) = Update(Own(j), n)
    BY <1>1, Tuples DEF BlocksInv, Outermost
  <1>4. Own(j) \in Contexts /\ n \in Contexts
    BY <1>1, OwnIs, NewRequestIs
  <1>5. Restored(Update(Own(j), n), BlockOf(Own(j), n)) = Own(j)
    BY <1>4, BlockRestores
  <1>6. context' = [context EXCEPT ![t] = Own(j)] /\ blocks' = [blocks EXCEPT ![j] = b]
    BY <1>1, <1>2, <1>3, <1>5, Popped DEF Context, TracedTypeOK
  <1>7. thread' = [thread EXCEPT ![j] = t] /\ \A q \in Jobs : Same(q)
    BY <1>1, <1>2 DEF TracedTypeOK, Same
  <1>8. t # None
    BY <1>2, NoneNoThread
  <1>9. OneSteps(j, t, t, Own(j), b)
    BY <1>1, <1>2, <1>6, <1>7, <1>8 DEF OneSteps
  <1> HIDE DEF t, b
  <1> QED
    BY <1>2, <1>4, <1>9, OneExecution

\* An execution goes on.
LEMMA GoesOnInv ==
  ASSUME TracedIInv, DispatchInv', NEW j \in Jobs, Continue(j), state[j] \in Running,
         \A q \in Jobs \ {j} : Same(q),
         state'[j] \in Running,
         state'[j] = "ending" => state[j] = "ending" \/ Outermost(j)
  PROVE  TracedIInv'
  <1> USE DEF TracedIInv
  <1> DEFINE t == thread[j]
             c == context[t]
             b == blocks[j]
  <1>1. UNCHANGED <<context, blocks, thread, id, header, asked>>
    BY DEF Continue, Running, Over
  <1>2. t \in Threads /\ \A q \in Jobs \ {j} : thread[q] # t
    BY ThreadOf
  <1>3. /\ context' = [context EXCEPT ![t] = c] /\ blocks' = [blocks EXCEPT ![j] = b]
        /\ thread' = [thread EXCEPT ![j] = t] /\ c \in Contexts
    BY <1>1, <1>2 DEF BlocksInv, TracedTypeOK
  <1>4. t # None
    BY <1>2, NoneNoThread
  <1>5. \/ b = <<BlockOf(Empty, Own(j))>> /\ c = Own(j)
        \/ /\ state'[j] \in Running \ {"ending"}
           /\ b = <<BlockOf(Empty, Own(j)), BlockOf(Own(j), NewRequest(Own(j), j))>>
           /\ c = Update(Own(j), NewRequest(Own(j), j))
    BY Tuples DEF BlocksInv, Outermost, Context
  <1>6. state[j] # "new" /\ state'[j] # "new"
    BY DEF Running
  <1>7. OneSteps(j, t, t, c, b)
    BY <1>1, <1>2, <1>3, <1>4, <1>5, <1>6 DEF OneSteps
  <1> HIDE DEF t, c, b
  <1> QED
    BY <1>2, <1>3, <1>7, OneExecution

\* It is over: its own block is left, and its thread is free.
LEMMA EndsInv ==
  ASSUME TracedIInv, DispatchInv', NEW j \in Jobs, Continue(j), state[j] \in Running,
         \A q \in Jobs \ {j} : Same(q),
         state'[j] \in Over,
         state[j] = "ending" \/ Outermost(j)
  PROVE  TracedIInv'
  <1> USE DEF TracedIInv
  <1> DEFINE t == thread[j]
  <1>1. Exit(j) /\ thread' = [thread EXCEPT ![j] = None] /\ UNCHANGED <<id, header, asked>>
    BY DEF Continue
  <1>2. t \in Threads /\ \A q \in Jobs \ {j} : thread[q] # t
    BY ThreadOf
  <1>3. blocks[j] = <<BlockOf(Empty, Own(j))>> /\ Context(j) = Own(j)
    BY Tuples DEF BlocksInv, Outermost
  <1>4. state[j] # "new" /\ state'[j] # "new" /\ state'[j] \notin Running
    BY DEF Running, Over
  <1>5. Restored(Own(j), BlockOf(Empty, Own(j))) = Empty
    BY <1>4, OwnIs, EmptyIs, UpdateEmpty, BlockRestores
  <1>6. context' = [context EXCEPT ![t] = Empty] /\ blocks' = [blocks EXCEPT ![j] = <<>>]
    BY <1>1, <1>2, <1>3, <1>5, Popped DEF Context, TracedTypeOK
  <1>7. t # None /\ Empty \in Contexts
    BY <1>2, NoneNoThread, EmptyIs
  <1>8. OneSteps(j, t, None, Empty, <<>>)
    BY <1>1, <1>2, <1>4, <1>6, <1>7 DEF OneSteps
  <1> HIDE DEF t
  <1> QED
    BY <1>2, <1>7, <1>8, OneExecution

\* A worker dies, and another comes with nothing in its context.
LEMMA TracedDieInv ==
  ASSUME TracedIInv, DispatchInv', NEW j \in Jobs, TracedDie(j)
  PROVE  TracedIInv'
  <1> USE DEF TracedIInv
  <1> DEFINE t == thread[j]
  <1>1. /\ state[j] \in Running /\ state'[j] = "dead" /\ \A q \in Jobs \ {j} : Same(q)
    <2>1. Die(j)
      BY DEF TracedDie
    <2>2. state'[j] = "dead" /\ state[j] \in Running
      BY <2>1 DEF Die
    <2> QED
      BY <2>1, <2>2, WorkIsOwn
  <1>2. t \in Threads /\ \A q \in Jobs \ {j} : thread[q] # t
    BY <1>1, ThreadOf
  <1>3. t # None /\ Empty \in Contexts
    BY <1>2, NoneNoThread, EmptyIs
  <1>4. state[j] # "new" /\ state'[j] \notin Running
    BY <1>1 DEF Running
  <1>5. OneSteps(j, t, None, Empty, <<>>)
    BY <1>1, <1>2, <1>3, <1>4 DEF OneSteps, TracedDie
  <1> HIDE DEF t
  <1> QED
    BY <1>2, <1>3, <1>5, OneExecution

\* A message carries the trace on and names its asker.
LEMMA SendInv ==
  ASSUME TracedIInv, DispatchInv', NEW j \in Jobs, NEW r \in Jobs, NEW i \in Jobs,
         NEW next \in {"body", "retrying"},
         state[j] = "body", Fresh(r), Submit(j, r, next), Send(j, r, i)
  PROVE  TracedIInv'
  <1> USE DEF TracedIInv
  <1>1. /\ r # j /\ r # Root /\ state[r] = "new" /\ state'[r] \in {"deferred", "queued"}
        /\ state'[j] = next /\ \A q \in Jobs \ {r} : Same(q)
    BY SubmitIsOwn
  <1>2. state[j] \in Running /\ state[r] \notin Running /\ state'[r] \notin Running
    BY <1>1 DEF Running
  <1>3. Context(j) \in Contexts /\ {"trace", "request"} \subseteq DOMAIN Context(j)
        /\ Context(j).trace = RootTrace
    BY <1>2, ContextIs
  <1> DEFINE h == HeaderOf(Context(j))
             request == Context(j).request
  <1>4. /\ id' = [id EXCEPT ![r] = i] /\ header' = [header EXCEPT ![r] = h]
        /\ asked' = [asked EXCEPT ![r] = request]
        /\ UNCHANGED <<context, thread, blocks>>
    BY DEF Send
  <1>5. /\ h \in Contexts /\ DOMAIN h = {"trace", "parent"} /\ h.trace = RootTrace
        /\ h.parent = request
    BY <1>3, HeaderOfIs
  <1>6. request \in Ids /\ None \notin Ids
    BY <1>3, ContextType, KeysIds
  <1> HIDE DEF h, request
  <1>7. \A q \in Jobs \ {r} : id'[q] = id[q] /\ header'[q] = header[q] /\ asked'[q] = asked[q]
    BY <1>4 DEF TracedTypeOK
  <1>8. id'[r] = i /\ header'[r] = h /\ asked'[r] = request
    BY <1>4 DEF TracedTypeOK
  <1>9. TracedTypeOK'
    <2>1. /\ id' \in [Jobs -> Jobs \cup {None}] /\ header' \in [Jobs -> Contexts]
          /\ asked' \in [Jobs -> Ids \cup {None}]
      BY <1>4, <1>5, <1>6 DEF TracedTypeOK
    <2>2. \A q \in Jobs : thread'[q] \in Threads <=> state'[q] \in Running
      BY <1>1, <1>2, <1>4 DEF TracedTypeOK, Same
    <2> QED
      BY <1>4, <2>1, <2>2 DEF TracedTypeOK
  <1>10. ThreadsApart'
    BY <1>4 DEF ThreadsApart
  <1>11. HeaderInv'
    <2>1. RootTrace' = RootTrace
      BY <1>1, <1>7, Constants DEF RootTrace
    <2>2. ASSUME NEW q \in Jobs \ {r}, state'[q] # "new"
          PROVE  /\ id'[q] \in Jobs /\ "request" \notin DOMAIN header'[q]
                 /\ IF asked'[q] = None THEN "parent" \notin DOMAIN header'[q]
                    ELSE "parent" \in DOMAIN header'[q] /\ header'[q].parent = asked'[q]
                 /\ q # Root => "trace" \in DOMAIN header'[q] /\ header'[q].trace = RootTrace'
      BY <1>1, <1>7, <2>1, <2>2 DEF HeaderInv, Same
    <2>3. /\ id'[r] \in Jobs /\ "request" \notin DOMAIN header'[r]
          /\ IF asked'[r] = None THEN "parent" \notin DOMAIN header'[r]
             ELSE "parent" \in DOMAIN header'[r] /\ header'[r].parent = asked'[r]
          /\ r # Root => "trace" \in DOMAIN header'[r] /\ header'[r].trace = RootTrace'
      BY <1>5, <1>6, <1>8, <2>1
    <2> QED
      BY <2>2, <2>3 DEF HeaderInv
  <1>12. BlocksInv'
    <2>1. blocks'[r] = <<>>
      BY <1>2, <1>4 DEF BlocksInv
    <2>2. ASSUME NEW q \in Jobs \ {r}
          PROVE  /\ Own(q)' = Own(q) /\ Context(q)' = Context(q) /\ blocks'[q] = blocks[q]
                 /\ state'[q] \in Running <=> state[q] \in Running
                 /\ state'[q] = "ending" <=> state[q] = "ending"
      BY <1>1, <1>4, <1>7 DEF Own, Context, Same
    <2> QED
      BY <1>2, <2>1, <2>2 DEF BlocksInv
  <1> QED
    BY <1>9, <1>10, <1>11, <1>12

\* An execution goes on, or ends and leaves its context.
LEMMA WorkInv ==
  ASSUME TracedIInv, DispatchInv', NEW j \in Jobs, Continue(j),
         \/ RunHook(j) \/ HooksDone(j) \/ Unwind(j) \/ HookFails(j)
         \/ OpenBlock(j) \/ CloseBlock(j) \/ CommitBlock(j)
         \/ Raise(j) \/ Catch(j) \/ \E t \in Claims : ClaimRefused(j, t)
         \/ Outermost(j) /\ (Return(j) \/ Fail(j))
  PROVE  TracedIInv'
  <1> USE DEF TracedIInv
  <1>1. /\ state[j] \in Running /\ state'[j] \in Running \cup Over
        /\ \A q \in Jobs \ {j} : Same(q)
    BY WorkIsOwn
  <1>2. ~Outermost(j) =>
          \/ state'[j] = state[j] \/ state'[j] \in Running \ {"ending"} \/ state[j] = "ending"
    <2>1. DOMAIN state = Jobs
      BY DEF DispatchInv, TypeOK
    <2> QED
      BY <2>1 DEF Running, RunHook, HooksDone, Unwind, HookFails, OpenBlock, CloseBlock, CommitBlock,
             Commit, Raise, Catch, ClaimRefused, Pending, AskedBy, Bound
  <1>3. CASE state'[j] \in Running
    BY <1>1, <1>2, <1>3, GoesOnInv
  <1>4. CASE state'[j] \in Over
    <2>1. state'[j] \notin Running
      BY <1>4 DEF Running, Over
    <2> QED
      BY <1>1, <1>2, <1>4, <2>1, EndsInv
  <1> QED
    BY <1>1, <1>3, <1>4

\* Every step keeps the invariant.
LEMMA TracedNextInv == TracedIInv /\ [TracedNext]_<<vars, traced>> => TracedIInv'
  <1> SUFFICES ASSUME TracedIInv, [TracedNext]_<<vars, traced>>
               PROVE  TracedIInv'
    OBVIOUS
  <1>1. DispatchInv'
    BY TracedStep, NextDispatch DEF TracedIInv
  <1>2. CASE UNCHANGED <<vars, traced>>
    BY <1>1, <1>2 DEF vars, traced, TracedIInv, TracedTypeOK, ThreadsApart, HeaderInv, BlocksInv,
                      RootTrace, Own, Context
  <1>3. ASSUME NEW j \in Jobs, TracedFramework(j)
        PROVE  TracedIInv'
    BY <1>1, <1>3, TracedStartInv, ExitRequestInv, WorkInv
       DEF TracedFramework, TracedUnwind, TracedFail
  <1>4. ASSUME NEW j \in Jobs, NEW r \in Jobs, TracedApplyAsync(j, r)
        PROVE  TracedIInv'
    BY <1>1, <1>4, SendInv DEF TracedApplyAsync, ApplyAsync
  <1>5. ASSUME NEW j \in Jobs, NEW r \in Jobs, NEW t \in Claims, TracedClaimTimeLimit(j, r, t)
        PROVE  TracedIInv'
    <2>1. id[j] \in Jobs
      BY <1>5 DEF TracedClaimTimeLimit, ClaimTimeLimit, TracedIInv, HeaderInv
    <2> QED
      BY <1>1, <1>5, <2>1, SendInv DEF TracedClaimTimeLimit, ClaimTimeLimit
  <1>6. ASSUME NEW j \in Jobs, Body(j)
        PROVE  TracedIInv'
    BY <1>1, <1>4, <1>5, <1>6, EnterRequestInv, ExitRequestInv, WorkInv DEF Body, TracedReturn
  <1>7. ASSUME NEW j \in Jobs, TracedDie(j)
        PROVE  TracedIInv'
    BY <1>1, <1>7, TracedDieInv
  <1> QED
    BY <1>2, <1>3, <1>6, <1>7 DEF TracedNext

\* So it holds always.
LEMMA TracedInvariant == TracedSpec => []TracedIInv
  BY TracedInitInv, TracedNextInv, PTL DEF TracedSpec

\* Contexts are what they should be, and a thread that executes nothing has
\* nothing left in its context: no task sees that of an earlier one.
THEOREM ContextsAreLeft == TracedSpec => []TracedTypeOK
  <1>1. TracedIInv => TracedTypeOK
    BY DEF TracedIInv
  <1> QED
    BY <1>1, TracedInvariant, PTL

\* Everything that comes of a request runs under its trace_id, for any number
\* of tasks and threads.
THEOREM TraceIsOne == TracedSpec => []OneTrace
  <1>1. TracedIInv => OneTrace
    BY ContextIs DEF OneTrace
  <1> QED
    BY <1>1, TracedInvariant, PTL

\* An execution's parent is the request that asked for it, when it was asked.
THEOREM ParentIsAsker == TracedSpec => []ParentAsked
  <1>1. ASSUME TracedIInv, NEW j \in Jobs, state[j] \in Running, Outermost(j)
        PROVE  /\ Context(j).request = id[j]
               /\ IF asked[j] = None THEN "parent" \notin DOMAIN Context(j)
                  ELSE Context(j).parent = asked[j]
    <2>1. state[j] # "new" /\ Context(j) = Own(j)
      BY <1>1, Tuples DEF TracedIInv, BlocksInv, Outermost, Running
    <2>2. /\ DOMAIN Own(j) = DOMAIN header[j] \cup {"trace", "request"} /\ Own(j).request = id[j]
          /\ "parent" \in DOMAIN header[j] => Own(j).parent = header[j].parent
      BY <1>1, <2>1, OwnIs
    <2>3. IF asked[j] = None THEN "parent" \notin DOMAIN header[j]
          ELSE "parent" \in DOMAIN header[j] /\ header[j].parent = asked[j]
      BY <1>1, <2>1 DEF TracedIInv, HeaderInv
    <2> QED
      BY <2>1, <2>2, <2>3
  <1>2. TracedIInv => ParentAsked
    BY <1>1 DEF ParentAsked
  <1> QED
    BY <1>2, TracedInvariant, PTL
=============================================================================
