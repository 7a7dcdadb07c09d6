-------------------------- MODULE QueueWorkerProofs --------------------------
(***************************************************************************)
(* Three facts about QueueWorkerThread, for any number of calls and        *)
(* threads: the join of the exit handler waits for every accepted job;     *)
(* until somebody gives up waiting, there is never a second thread to run  *)
(* jobs; and stop() returns after the jobs queued before it.               *)
(*                                                                         *)
(* The argument for the first: unfinished_tasks counts the records in the  *)
(* queue and with the threads, and every accepted job not over is one of   *)
(* them.  For the second: _thread is replaced only after its thread has    *)
(* left the loop, which is what join() and a drained queue, with the       *)
(* terminator in it, both tell.  For the third: the queue has a terminator *)
(* only while its caller waits, and then one, behind the jobs it found.    *)
(***************************************************************************)
EXTENDS QueueWorker, FiniteSetTheorems, SequenceTheorems, TLAPS

Records == Producers \cup {Terminator}

\* The threads that have a record can be counted.
LEMMA BusyFinite == IsFiniteSet(Busy) /\ Cardinality(Busy) \in Nat
  BY ConstantAssumption, FS_Subset, FS_CardinalityType DEF Busy

\* What queueing a record does to the count and to the queue.
LEMMA PutKeepsCount ==
  ASSUME CountInv, NEW r \in Records, Put(r), UNCHANGED <<worker, record, ended>>
  PROVE  /\ queue' \in Seq(Records) /\ unfinished' \in Nat
         /\ Counted' /\ RunMeansEnded'
         /\ \A j \in Producers : Queued(j) => Queued(j)'
         /\ Queued(r)'
  <1>1. queue \in Seq(Records) /\ unfinished \in Nat
    BY DEF CountInv, TypeOK, Records
  <1>2. /\ queue' \in Seq(Records) /\ Len(queue') = Len(queue) + 1
        /\ \A i \in 1 .. Len(queue) : queue'[i] = queue[i]
        /\ queue'[Len(queue) + 1] = r
    BY <1>1, AppendProperties DEF Put
  <1>3. Busy' = Busy
    BY DEF Busy
  <1>4. unfinished' = unfinished + 1
    BY DEF Put
  <1>5. Counted'
    BY <1>1, <1>2, <1>3, <1>4, BusyFinite DEF CountInv, Counted
  <1>6. RunMeansEnded'
    BY DEF CountInv, RunMeansEnded
  <1>7. Queued(r)' /\ \A j \in Producers : Queued(j) => Queued(j)'
    BY <1>1, <1>2 DEF Queued
  <1> QED
    BY <1>1, <1>2, <1>4, <1>5, <1>6, <1>7

\* The invariant holds after the constructor.
LEMMA InitIInv == Init => IInv
  <1> SUFFICES ASSUME Init PROVE IInv
    OBVIOUS
  <1>1. TypeOK
    <2>1. queue \in Seq(Producers \cup {Terminator})
      BY EmptySeq DEF Init
    <2> QED
      BY <2>1, ConstantAssumption DEF Init, TypeOK
  <1>2. Counted
    <2>1. Busy = {}
      BY DEF Init, Busy
    <2> QED
      BY <2>1, FS_EmptySet DEF Init, Counted
  <1>3. JobsAccountedFor /\ RunMeansEnded
    BY ConstantAssumption DEF Init, JobsAccountedFor, RunMeansEnded, Accepted, Callers
  <1>4. ThreadInv
    BY ConstantAssumption
       DEF Init, ThreadInv, NoOrphan, InLoop, TerminatorAhead, JoinersHoldLock,
           PidKnown, Callers
  <1> QED
    BY <1>1, <1>2, <1>3, <1>4 DEF IInv, CountInv

-----------------------------------------------------------------------------
(* Counting. *)

\* Steps that touch neither the queue nor the count.
LEMMA QuietCount ==
  ASSUME CountInv, TypeOK',
         UNCHANGED <<queue, unfinished, record>>, ended \subseteq ended',
         Busy' = Busy, RunMeansEnded',
         \A j \in Producers : Accepted(j)' => Accepted(j)
  PROVE  CountInv'
  <1>1. Counted'
    BY DEF CountInv, Counted
  <1>2. JobsAccountedFor'
    BY DEF CountInv, JobsAccountedFor, Queued
  <1> QED
    BY <1>1, <1>2 DEF CountInv

\* What calls do besides queueing a record leaves the count alone.
LEMMA CallerCount ==
  ASSUME CountInv, NEW c \in Callers,
         \/ c \in Producers /\ (AskAlive(c) \/ RecheckAlive(c) \/ Start(c))
         \/ c \in Stoppers /\ (StopNothing(c) \/ StopReturns(c) \/ StopGivesUp(c))
         \/ c \in Exiters /\ (ExitNothing(c) \/ ExitReturns(c) \/ ExitGivesUp(c))
  PROVE  CountInv'
  <1> USE ConstantAssumption
  <1>1. TypeOK'
    BY DEF CountInv, TypeOK, Goto, AskAlive, RecheckAlive, Start, StopNothing,
           StopReturns, StopGivesUp, ExitNothing, ExitReturns, ExitGivesUp
  <1>2. UNCHANGED <<queue, unfinished, record, ended>>
    BY DEF AskAlive, RecheckAlive, Start, StopNothing, StopReturns,
           StopGivesUp, ExitNothing, ExitReturns, ExitGivesUp
  <1>3. \A w \in Workers : \/ worker'[w] = worker[w]
                           \/ worker[w] = "unborn" /\ worker'[w] = "get"
    BY DEF CountInv, TypeOK, AskAlive, RecheckAlive, Start, StopNothing,
           StopReturns, StopGivesUp, ExitNothing, ExitReturns, ExitGivesUp
  <1>4. Busy' = Busy
    BY <1>3 DEF Busy
  <1>5. RunMeansEnded'
    BY <1>2, <1>3 DEF CountInv, RunMeansEnded
  <1>6. \A j \in Producers : Accepted(j)' => Accepted(j)
    BY DEF CountInv, TypeOK, Callers, Accepted, Goto, AskAlive, RecheckAlive,
           Start, StopNothing, StopReturns, StopGivesUp, ExitNothing,
           ExitReturns, ExitGivesUp
  <1> QED
    BY <1>1, <1>2, <1>4, <1>5, <1>6, QuietCount

\* queue() adds its job, and 1.
LEMMA PutJobCount ==
  ASSUME CountInv, NEW p \in Producers, PutJob(p)
  PROVE  CountInv'
  <1>1. /\ queue' \in Seq(Records) /\ unfinished' \in Nat
        /\ Counted' /\ RunMeansEnded'
        /\ \A j \in Producers : Queued(j) => Queued(j)'
        /\ Queued(p)'
    BY PutKeepsCount DEF PutJob, Records
  <1>2. TypeOK'
    BY <1>1 DEF CountInv, TypeOK, PutJob, Goto, Records, Callers
  <1>3. \A j \in Producers : Accepted(j)' => Accepted(j) \/ j = p
    BY DEF CountInv, TypeOK, PutJob, Goto, Accepted, Callers
  <1>4. Busy' = Busy /\ UNCHANGED <<record, ended>>
    BY DEF PutJob, Busy
  <1>5. JobsAccountedFor'
    BY <1>1, <1>3, <1>4 DEF CountInv, JobsAccountedFor
  <1> QED
    BY <1>1, <1>2, <1>5 DEF CountInv

\* stop() and the exit handler add a terminator, and 1.
LEMMA PutTerminatorCount ==
  ASSUME CountInv, NEW c \in Stoppers \cup Exiters,
         \/ c \in Stoppers /\ StopQueues(c)
         \/ c \in Exiters /\ ExitQueues(c)
  PROVE  CountInv'
  <1> USE ConstantAssumption
  <1>1. Put(Terminator) /\ UNCHANGED <<worker, record, ended>>
    BY DEF StopQueues, ExitQueues
  <1>2. /\ queue' \in Seq(Records) /\ unfinished' \in Nat
        /\ Counted' /\ RunMeansEnded'
        /\ \A j \in Producers : Queued(j) => Queued(j)'
    BY <1>1, PutKeepsCount DEF Records
  <1>3. TypeOK'
    <2>1. CASE c \in Stoppers /\ StopQueues(c)
      BY <1>2, <2>1 DEF CountInv, TypeOK, StopQueues, Goto, Records, Callers
    <2>2. CASE c \in Exiters /\ ExitQueues(c)
      BY <1>2, <2>2 DEF CountInv, TypeOK, ExitQueues, Goto, Records, Callers
    <2> QED
      BY <2>1, <2>2
  <1>4. \A j \in Producers : Accepted(j)' => Accepted(j)
    BY DEF CountInv, TypeOK, StopQueues, ExitQueues, Goto, Accepted, Callers
  <1>5. Busy' = Busy
    BY <1>1 DEF Busy
  <1>6. JobsAccountedFor'
    BY <1>1, <1>2, <1>4, <1>5 DEF CountInv, JobsAccountedFor
  <1> QED
    BY <1>2, <1>3, <1>6 DEF CountInv

\* A record taken moves from the queue to its thread.
LEMMA GetCount ==
  ASSUME CountInv, NEW w \in Workers, Get(w)
  PROVE  CountInv'
  <1> USE ConstantAssumption
  <1>1. queue \in Seq(Records) /\ queue # <<>> /\ unfinished \in Nat
    BY DEF CountInv, TypeOK, Get, Records
  <1>2. /\ Head(queue) \in Records /\ Head(queue) = queue[1]
        /\ queue' \in Seq(Records) /\ Len(queue') = Len(queue) - 1
        /\ \A i \in 1 .. Len(queue') : queue'[i] = queue[i + 1]
    BY <1>1, HeadTailProperties DEF Get
  <1>3. TypeOK'
    BY <1>2 DEF CountInv, TypeOK, Get, Records
  <1>4. record'[w] = Head(queue) /\ worker'[w] = IF Head(queue) = Terminator THEN "break" ELSE "run"
    BY DEF CountInv, TypeOK, Get
  <1>5. \A v \in Workers : v # w => worker'[v] = worker[v] /\ record'[v] = record[v]
    BY DEF CountInv, TypeOK, Get
  <1>6. w \notin Busy /\ Busy' = Busy \cup {w}
    BY <1>4, <1>5 DEF Busy, Get
  <1>7. Counted'
    <2>1. Cardinality(Busy') = Cardinality(Busy) + 1
      BY <1>6, BusyFinite, FS_AddElement
    <2> QED
      BY <1>1, <1>2, <2>1, BusyFinite DEF CountInv, Counted, Get
  <1>8. ASSUME NEW j \in Producers, Accepted(j)'
        PROVE  Queued(j)' \/ (\E v \in Busy' : record'[v] = j) \/ j \in ended'
    <2>1. Accepted(j) /\ ended' = ended
      BY <1>8 DEF Accepted, Get
    <2>2. CASE Queued(j)
      <3>1. PICK i \in 1 .. Len(queue) : queue[i] = j
        BY <1>1, <2>2 DEF Queued
      <3>2. CASE i = 1
        BY <1>2, <1>4, <1>6, <3>1, <3>2
      <3>3. CASE i # 1
        <4>1. i - 1 \in 1 .. Len(queue') /\ queue'[i - 1] = j
          BY <1>1, <1>2, <3>1, <3>3
        <4> QED
          BY <1>2, <4>1 DEF Queued
      <3> QED
        BY <3>2, <3>3
    <2>3. CASE \E v \in Busy : record[v] = j
      BY <1>5, <1>6, <2>3 DEF Busy
    <2> QED
      BY <2>1, <2>2, <2>3 DEF CountInv, JobsAccountedFor
  <1>9. RunMeansEnded'
    BY <1>2, <1>4, <1>5 DEF CountInv, RunMeansEnded, Records, Get
  <1> QED
    BY <1>3, <1>7, <1>8, <1>9 DEF CountInv, JobsAccountedFor

\* A job that is over is in `ended\' before its thread says so.
LEMMA RunJobCount ==
  ASSUME CountInv, NEW w \in Workers, RunJob(w) \/ JobKills(w)
  PROVE  CountInv'
  <1>1. record[w] \in Producers
    BY DEF CountInv, RunMeansEnded, RunJob, JobKills
  <1>2. TypeOK'
    BY <1>1 DEF CountInv, TypeOK, RunJob, JobKills
  <1>3. /\ worker'[w] \in {"next", "kill"} /\ worker[w] = "run"
        /\ \A v \in Workers : v # w => worker'[v] = worker[v]
        /\ UNCHANGED <<pc, queue, unfinished, record>>
        /\ ended' = ended \cup {record[w]}
    BY DEF CountInv, TypeOK, RunJob, JobKills
  <1>4. Busy' = Busy
    BY <1>3 DEF Busy
  <1>5. RunMeansEnded'
    BY <1>3 DEF CountInv, RunMeansEnded
  <1> QED
    BY <1>2, <1>3, <1>4, <1>5, QuietCount DEF Accepted

\* A job that calls stop() has its record all the while.
LEMMA JobStopCount ==
  ASSUME CountInv, NEW w \in Workers,
         JobAsksStop(w) \/ JobReturns(w) \/ JobGivesUp(w)
  PROVE  CountInv'
  <1> USE ConstantAssumption
  <1>1. record[w] \in Producers
    BY DEF CountInv, RunMeansEnded, JobAsksStop, JobReturns, JobGivesUp
  <1>2. TypeOK'
    BY <1>1 DEF CountInv, TypeOK, Goto, Callers, JobAsksStop, JobReturns, JobGivesUp, JobJoined
  <1>3. /\ worker[w] \in {"run", "joins"} /\ worker'[w] \in {"run", "asks"}
        /\ \A v \in Workers : v # w => worker'[v] = worker[v]
        /\ UNCHANGED <<queue, unfinished, record, ended>>
    BY DEF CountInv, TypeOK, JobAsksStop, JobReturns, JobGivesUp, JobJoined
  <1>4. Busy' = Busy
    BY <1>3 DEF Busy
  <1>5. RunMeansEnded'
    BY <1>1, <1>3 DEF CountInv, RunMeansEnded
  <1>6. \A j \in Producers : Accepted(j)' => Accepted(j)
    BY DEF CountInv, TypeOK, Callers, Accepted, Goto, JobAsksStop, JobReturns,
           JobGivesUp, JobJoined
  <1> QED
    BY <1>2, <1>3, <1>4, <1>5, <1>6, QuietCount

\* The terminator that it queues is counted.
LEMMA JobPutsCount ==
  ASSUME CountInv, NEW w \in Workers, JobStops(w) \/ JobJoins(w)
  PROVE  CountInv'
  <1> USE ConstantAssumption
  <1>1. /\ worker[w] = "asks" /\ worker'[w] \in {"run", "joins"}
        /\ \A v \in Workers : v # w => worker'[v] = worker[v]
        /\ UNCHANGED <<pc, record, ended>>
    BY DEF CountInv, TypeOK, JobStops, JobJoins
  <1>2. Busy' = Busy
    BY <1>1 DEF Busy
  <1>3. record[w] \in Producers /\ RunMeansEnded'
    BY <1>1 DEF CountInv, RunMeansEnded
  <1>4. CASE UNCHANGED <<queue, unfinished>>
    <2>1. TypeOK'
      BY <1>4 DEF CountInv, TypeOK, JobStops, JobJoins
    <2> QED
      BY <1>1, <1>2, <1>3, <1>4, <2>1, QuietCount DEF Accepted
  <1>5. CASE Put(Terminator)
    <2>1. queue \in Seq(Records) /\ unfinished \in Nat /\ Terminator \in Records
      BY DEF CountInv, TypeOK, Records
    <2>2. /\ queue' \in Seq(Records) /\ Len(queue') = Len(queue) + 1
          /\ \A i \in 1 .. Len(queue) : queue'[i] = queue[i]
      BY <1>5, <2>1, AppendProperties DEF Put
    <2>3. unfinished' = unfinished + 1
      BY <1>5 DEF Put
    <2>4. Counted'
      BY <1>2, <2>1, <2>2, <2>3, BusyFinite DEF CountInv, Counted
    <2>5. TypeOK'
      BY <2>1, <2>2, <2>3 DEF CountInv, TypeOK, JobStops, JobJoins, Records
    <2>6. \A j \in Producers : Queued(j) => Queued(j)'
      BY <2>1, <2>2 DEF Queued
    <2>7. JobsAccountedFor'
      BY <1>1, <1>2, <2>6 DEF CountInv, JobsAccountedFor, Accepted
    <2> QED
      BY <1>3, <2>4, <2>5, <2>7 DEF CountInv
  <1> QED
    BY <1>4, <1>5 DEF JobStops, JobJoins

\* task_done() takes 1 off for a record that a thread had.
LEMMA TaskDoneCount ==
  ASSUME CountInv, NEW w \in Workers, TaskDone(w)
  PROVE  CountInv'
  <1> USE ConstantAssumption
  <1>1. /\ worker[w] \in {"next", "break", "kill"}
        /\ worker'[w] \in {"get", "exiting", "dying"}
        /\ \A v \in Workers : v # w => worker'[v] = worker[v] /\ record'[v] = record[v]
        /\ UNCHANGED <<pc, queue, ended>>
        /\ unfinished' = unfinished - 1
    BY DEF CountInv, TypeOK, TaskDone
  <1>2. w \in Busy /\ Busy' = Busy \ {w}
    BY <1>1 DEF Busy
  <1>3. Cardinality(Busy') = Cardinality(Busy) - 1 /\ Cardinality(Busy') \in Nat
    <2>1. IsFiniteSet(Busy')
      BY <1>2, BusyFinite, FS_Subset
    <2> QED
      BY <1>2, <2>1, BusyFinite, FS_RemoveElement, FS_CardinalityType
  <1>4. Counted' /\ unfinished' \in Nat
    BY <1>1, <1>3, BusyFinite DEF CountInv, TypeOK, Counted
  <1>5. TypeOK'
    BY <1>4 DEF CountInv, TypeOK, TaskDone
  <1>6. RunMeansEnded'
    BY <1>1 DEF CountInv, RunMeansEnded
  <1>7. record[w] \in ended \/ record[w] = Terminator
    BY <1>1 DEF CountInv, RunMeansEnded
  <1>8. \A j \in Producers : (\E v \in Busy : record[v] = j)
                                => (\E v \in Busy' : record'[v] = j) \/ j \in ended'
    BY <1>1, <1>2, <1>7 DEF Busy
  <1>9. JobsAccountedFor'
    BY <1>1, <1>8 DEF CountInv, JobsAccountedFor, Queued, Accepted
  <1> QED
    BY <1>4, <1>5, <1>6, <1>9 DEF CountInv

\* A thread that ends has no record.
LEMMA ThreadEndsCount ==
  ASSUME CountInv, NEW w \in Workers, ThreadEnds(w)
  PROVE  CountInv'
  <1>1. TypeOK'
    BY DEF CountInv, TypeOK, ThreadEnds
  <1>2. /\ worker[w] \in {"exiting", "dying"} /\ worker'[w] \in {"dead", "killed"}
        /\ \A v \in Workers : v # w => worker'[v] = worker[v]
        /\ UNCHANGED <<pc, queue, unfinished, record, ended>>
    BY DEF CountInv, TypeOK, ThreadEnds
  <1>3. Busy' = Busy /\ RunMeansEnded'
    BY <1>2 DEF Busy, CountInv, RunMeansEnded
  <1> QED
    BY <1>1, <1>2, <1>3, QuietCount DEF Accepted

\* Every step keeps the count.
LEMMA NextCount == CountInv /\ [Next]_vars => CountInv'
  <1> SUFFICES ASSUME CountInv, [Next]_vars PROVE CountInv'
    OBVIOUS
  <1>1. CASE UNCHANGED vars
    BY <1>1 DEF vars, CountInv, TypeOK, Counted, Busy, JobsAccountedFor, Queued,
                Accepted, RunMeansEnded
  <1>2. ASSUME NEW p \in Producers, Queueing(p)
        PROVE  CountInv'
    BY <1>2, CallerCount, PutJobCount DEF Queueing, Callers
  <1>3. ASSUME NEW s \in Stoppers, Stopping(s)
        PROVE  CountInv'
    BY <1>3, CallerCount, PutTerminatorCount DEF Callers, Stopping
  <1>4. ASSUME NEW e \in Exiters, Exiting(e)
        PROVE  CountInv'
    BY <1>4, CallerCount, PutTerminatorCount DEF Callers, Exiting
  <1>5. ASSUME NEW w \in Workers, Working(w) \/ JobGivesUp(w)
        PROVE  CountInv'
    BY <1>5, GetCount, RunJobCount, TaskDoneCount, ThreadEndsCount, JobStopCount,
       JobPutsCount DEF Working
  <1> QED
    BY <1>1, <1>2, <1>3, <1>4, <1>5 DEF Next

-----------------------------------------------------------------------------
(* Threads. *)

\* queue() starts a thread only when the one there was has left its loop.
LEMMA ProducerThread ==
  ASSUME IInv, ~GaveUp, NEW p \in Producers, Queueing(p)
  PROVE  NoOrphan' /\ TerminatorAhead' /\ JoinersHoldLock' /\ PidKnown'
  <1> USE ConstantAssumption
  <1>1. TypeOK /\ NoOrphan /\ TerminatorAhead /\ JoinersHoldLock /\ PidKnown
    BY DEF IInv, CountInv, ThreadInv
  <1>2. /\ \A c \in Stoppers \cup Exiters : pc'[c] = pc[c]
        /\ lock' = lock
    BY <1>1 DEF TypeOK, Callers, Goto, Queueing, AskAlive, RecheckAlive, Start, PutJob
  <1>3. CASE Start(p) /\ ~(forPid /\ thread # None /\ ThreadAlive(thread))
    <2>1. PICK w \in Workers :
            /\ worker[w] = "unborn" /\ worker' = [worker EXCEPT ![w] = "get"]
            /\ thread' = w /\ forPid'
      BY <1>3 DEF Start
    <2>2. \A c \in Stoppers \cup Exiters : pc[c] # "joining"
      BY <1>1, <1>3 DEF JoinersHoldLock, Start, Callers
    <2>3. \A v \in Workers : ~InLoop(v)
      BY <1>1, <1>3 DEF NoOrphan, InLoop, PidKnown, ThreadAlive
    <2>4. NoOrphan'
      BY <1>1, <2>1, <2>3 DEF TypeOK, NoOrphan, InLoop
    <2> QED
      BY <1>2, <2>1, <2>2, <2>4 DEF TerminatorAhead, JoinersHoldLock, PidKnown
  <1>4. CASE UNCHANGED <<thread, forPid, worker>>
    <2>1. \A i \in DOMAIN queue : i \in DOMAIN queue' /\ queue'[i] = queue[i]
      BY <1>1 DEF TypeOK, Queueing, AskAlive, RecheckAlive, Start, PutJob, Put
    <2> QED
      BY <1>1, <1>2, <1>4, <2>1
         DEF NoOrphan, InLoop, TerminatorAhead, JoinersHoldLock, PidKnown
  <1> QED
    BY <1>3, <1>4 DEF Queueing, AskAlive, RecheckAlive, Start, PutJob

\* Whoever waits for the thread has put a terminator before it.
LEMMA QueuesThread ==
  ASSUME IInv, ~GaveUp, NEW c \in Stoppers \cup Exiters,
         \/ c \in Stoppers /\ (StopNothing(c) \/ StopQueues(c))
         \/ c \in Exiters /\ (ExitNothing(c) \/ ExitQueues(c))
  PROVE  NoOrphan' /\ TerminatorAhead' /\ JoinersHoldLock' /\ PidKnown'
  <1> USE ConstantAssumption
  <1>1. TypeOK /\ NoOrphan /\ TerminatorAhead /\ JoinersHoldLock /\ PidKnown
    BY DEF IInv, CountInv, ThreadInv
  <1>2. UNCHANGED <<thread, forPid, worker>> /\ lock = None
    BY DEF StopNothing, StopQueues, ExitNothing, ExitQueues
  <1>3. \A d \in Stoppers \cup Exiters : pc[d] # "joining"
    BY <1>1, <1>2 DEF JoinersHoldLock, Callers
  <1>4. \A d \in Stoppers \cup Exiters : pc'[d] = "joining" =>
          d = c /\ lock' = c /\ thread # None /\ Put(Terminator)
    BY <1>1, <1>3
       DEF TypeOK, Callers, Goto, StopNothing, StopQueues, ExitNothing, ExitQueues
  <1>5. Put(Terminator) => \E i \in DOMAIN queue' : queue'[i] = Terminator
    <2>1. queue \in Seq(Records)
      BY <1>1 DEF TypeOK, Records
    <2> QED
      BY <2>1, AppendProperties DEF Put, Records
  <1>6. TerminatorAhead'
    BY <1>4, <1>5 DEF TerminatorAhead
  <1>7. JoinersHoldLock'
    BY <1>2, <1>4 DEF JoinersHoldLock
  <1> QED
    BY <1>1, <1>2, <1>6, <1>7 DEF NoOrphan, InLoop, PidKnown

\* When a wait is over, no thread is in its loop.
LEMMA ReturnsThread ==
  ASSUME IInv, ~GaveUp, NEW c \in Stoppers \cup Exiters,
         \/ c \in Stoppers /\ StopReturns(c)
         \/ c \in Exiters /\ ExitReturns(c)
  PROVE  NoOrphan' /\ TerminatorAhead' /\ JoinersHoldLock' /\ PidKnown'
  <1> USE ConstantAssumption
  <1>1. /\ TypeOK /\ Counted
        /\ NoOrphan /\ TerminatorAhead /\ JoinersHoldLock /\ PidKnown
    BY DEF IInv, CountInv, ThreadInv
  <1>2. thread' = None /\ UNCHANGED <<worker, queue>> /\ pc[c] = "joining"
    BY DEF StopReturns, ExitReturns
  <1>3. \A v \in Workers : ~InLoop(v)
    <2>1. CASE StopReturns(c)
      BY <1>1, <2>1 DEF NoOrphan, InLoop, StopReturns, ThreadAlive
    <2>2. CASE ExitReturns(c) /\ c \in Exiters
      <3>1. unfinished = 0 /\ queue \in Seq(Records)
        BY <1>1, <2>2 DEF ExitReturns, TypeOK, Records
      <3>2. Len(queue) = 0 /\ Cardinality(Busy) = 0
        BY <1>1, <3>1, BusyFinite DEF Counted
      <3>3. Busy = {} /\ queue = <<>>
        BY <3>1, <3>2, BusyFinite, FS_EmptySet
      <3>4. thread \in Workers /\ ~InLoop(thread)
        BY <1>1, <1>2, <2>2, <3>3 DEF TerminatorAhead
      <3> QED
        BY <1>1, <3>4 DEF NoOrphan, InLoop
    <2> QED
      BY <2>1, <2>2
  <1>4. \A d \in Stoppers \cup Exiters : pc'[d] # "joining"
    BY <1>1, <1>2 DEF TypeOK, JoinersHoldLock, Callers, Goto, StopReturns, ExitReturns
  <1> QED
    BY <1>2, <1>3, <1>4 DEF NoOrphan, InLoop, TerminatorAhead, JoinersHoldLock, PidKnown

\* A thread leaves its loop at a terminator, or killed by a job.
LEMMA WorkerThread ==
  ASSUME IInv, ~GaveUp, NEW w \in Workers, Working(w) \/ JobGivesUp(w)
  PROVE  NoOrphan' /\ TerminatorAhead' /\ JoinersHoldLock' /\ PidKnown'
  <1> USE ConstantAssumption
  <1>1. TypeOK /\ NoOrphan /\ TerminatorAhead /\ JoinersHoldLock /\ PidKnown
    BY DEF IInv, CountInv, ThreadInv
  <1>2. \/ Get(w) \/ RunJob(w) \/ JobKills(w) \/ TaskDone(w) \/ ThreadEnds(w)
        \/ JobAsksStop(w) \/ JobStops(w)
    BY <1>1 DEF NoOrphan, InLoop, JobJoins, JobReturns, JobGivesUp, Working
  <1>3. /\ UNCHANGED <<lock, thread, forPid>>
        /\ \A c \in Stoppers \cup Exiters : pc'[c] = "joining" => pc[c] = "joining"
    BY <1>1, <1>2
       DEF TypeOK, Callers, Goto, Get, RunJob, JobKills, TaskDone, ThreadEnds,
           JobAsksStop, JobStops
  <1>4. /\ \A v \in Workers : v # w => worker'[v] = worker[v]
        /\ InLoop(w)' => InLoop(w) /\ worker'[w] # "joins"
    BY <1>1, <1>2
       DEF TypeOK, InLoop, Get, RunJob, JobKills, TaskDone, ThreadEnds, JobAsksStop, JobStops
  <1>5. NoOrphan'
    BY <1>1, <1>3, <1>4 DEF NoOrphan, InLoop
  <1>6. JoinersHoldLock' /\ PidKnown'
    BY <1>1, <1>3 DEF JoinersHoldLock, PidKnown
  <1>7. TerminatorAhead'
    <2> SUFFICES ASSUME NEW e \in Exiters, pc[e] = "joining"
                 PROVE  \/ thread \in Workers /\ ~InLoop(thread)'
                        \/ \E i \in DOMAIN queue' : queue'[i] = Terminator
      BY <1>3 DEF TerminatorAhead
    <2>1. CASE thread \in Workers /\ ~InLoop(thread)
      BY <1>3, <1>4, <2>1 DEF InLoop
    <2>2. CASE \E i \in DOMAIN queue : queue[i] = Terminator
      <3>1. CASE UNCHANGED queue
        BY <2>2, <3>1
      <3>2. CASE Put(Terminator)
        <4>1. queue \in Seq(Records) /\ Terminator \in Records
          BY <1>1 DEF TypeOK, Records
        <4>2. queue'[Len(queue) + 1] = Terminator /\ Len(queue) + 1 \in DOMAIN queue'
          BY <3>2, <4>1, AppendProperties DEF Put
        <4> QED
          BY <4>2
      <3>3. CASE Get(w)
        <4>1. queue \in Seq(Records) /\ queue # <<>>
          BY <1>1, <3>3 DEF TypeOK, Records, Get
        <4>2. /\ Head(queue) = queue[1] /\ Len(queue') = Len(queue) - 1
              /\ queue' \in Seq(Records)
              /\ \A i \in 1 .. Len(queue') : queue'[i] = queue[i + 1]
          BY <3>3, <4>1, HeadTailProperties DEF Get
        <4>3. PICK i \in 1 .. Len(queue) : queue[i] = Terminator
          BY <2>2, <4>1
        <4>4. CASE i = 1
          <5>1. worker'[w] = "break" /\ InLoop(w)
            BY <1>1, <3>3, <4>2, <4>3, <4>4 DEF TypeOK, Get, InLoop
          <5>2. thread = w /\ thread' = w
            BY <1>1, <1>3, <5>1 DEF NoOrphan
          <5> QED
            BY <5>1, <5>2 DEF InLoop
        <4>5. CASE i # 1
          <5>1. i - 1 \in 1 .. Len(queue') /\ queue'[i - 1] = Terminator
            BY <4>1, <4>2, <4>3, <4>5
          <5> QED
            BY <4>2, <5>1
        <4> QED
          BY <4>4, <4>5
      <3> QED
        BY <1>2, <3>1, <3>2, <3>3
           DEF RunJob, JobKills, TaskDone, ThreadEnds, JobAsksStop, JobStops
    <2> QED
      BY <1>1, <2>1, <2>2 DEF TerminatorAhead
  <1> QED
    BY <1>5, <1>6, <1>7

\* Who has given up has given up for good.
LEMMA GaveUpStays == TypeOK /\ [Next]_vars => (GaveUp => GaveUp')
  <1> SUFFICES ASSUME TypeOK, [Next]_vars, NEW c \in Callers, pc[c] = "gave_up"
               PROVE  pc'[c] = "gave_up"
    BY DEF GaveUp
  <1>1. CASE UNCHANGED vars
    BY <1>1 DEF vars
  <1>2. ASSUME NEW p \in Producers, Queueing(p) PROVE pc'[c] = "gave_up"
    BY <1>2 DEF TypeOK, Goto, Queueing, AskAlive, RecheckAlive, Start, PutJob
  <1>3. ASSUME NEW s \in Stoppers, Stopping(s) PROVE pc'[c] = "gave_up"
    BY <1>3 DEF TypeOK, Goto, Stopping, StopNothing, StopQueues, StopReturns, StopGivesUp
  <1>4. ASSUME NEW e \in Exiters, Exiting(e) PROVE pc'[c] = "gave_up"
    BY <1>4 DEF TypeOK, Goto, Exiting, ExitNothing, ExitQueues, ExitReturns, ExitGivesUp
  <1>5. ASSUME NEW w \in Workers, Working(w) \/ JobGivesUp(w) PROVE pc'[c] = "gave_up"
    BY <1>5
       DEF TypeOK, Goto, Working, Get, RunJob, JobKills, TaskDone, ThreadEnds,
           JobAsksStop, JobStops, JobJoins, JobReturns, JobGivesUp, JobJoined
  <1> QED
    BY <1>1, <1>2, <1>3, <1>4, <1>5 DEF Next

\* A step that gives up does so.
LEMMA GivingUpShows ==
  ASSUME TypeOK, NEW c \in Stoppers \cup Exiters,
         \/ c \in Stoppers /\ StopGivesUp(c)
         \/ c \in Exiters /\ ExitGivesUp(c)
  PROVE  GaveUp'
  BY DEF TypeOK, GaveUp, Callers, Goto, StopGivesUp, ExitGivesUp

\* Every step keeps the invariant.
LEMMA NextIInv == IInv /\ [Next]_vars => IInv'
  <1> SUFFICES ASSUME IInv, [Next]_vars PROVE IInv'
    OBVIOUS
  <1>1. CountInv'
    BY NextCount DEF IInv
  <1>2. ThreadInv'
    <2> SUFFICES ASSUME ~GaveUp'
                 PROVE  NoOrphan' /\ TerminatorAhead' /\ JoinersHoldLock' /\ PidKnown'
      BY DEF ThreadInv
    <2>1. TypeOK /\ ~GaveUp
      BY GaveUpStays DEF IInv, CountInv
    <2>2. CASE UNCHANGED vars
      BY <2>1, <2>2 DEF vars, IInv, ThreadInv, NoOrphan, InLoop, TerminatorAhead,
                        JoinersHoldLock, PidKnown
    <2>3. ASSUME NEW s \in Stoppers, Stopping(s)
          PROVE  NoOrphan' /\ TerminatorAhead' /\ JoinersHoldLock' /\ PidKnown'
      BY <2>1, <2>3, QueuesThread, ReturnsThread, GivingUpShows DEF Stopping
    <2>4. ASSUME NEW e \in Exiters, Exiting(e)
          PROVE  NoOrphan' /\ TerminatorAhead' /\ JoinersHoldLock' /\ PidKnown'
      BY <2>1, <2>4, QueuesThread, ReturnsThread, GivingUpShows DEF Exiting
    <2> QED
      BY <2>1, <2>2, <2>3, <2>4, ProducerThread, WorkerThread DEF Next
  <1> QED
    BY <1>1, <1>2 DEF IInv

\* The invariant of the proofs holds in every reachable state.
THEOREM Invariance == Spec => []IInv
  BY InitIInv, NextIInv, PTL DEF Spec

\* When the exit handler's join succeeds, every accepted job is over.
THEOREM JoinIsExact == Spec => []JoinMeansDone
  <1>1. IInv => JoinMeansDone
    <2> SUFFICES ASSUME IInv, unfinished = 0, NEW j \in Producers, Accepted(j)
                 PROVE  j \in ended
      BY DEF JoinMeansDone
    <2>1. queue \in Seq(Records) /\ Len(queue) = 0 /\ Cardinality(Busy) = 0
      BY BusyFinite DEF IInv, CountInv, TypeOK, Counted, Records
    <2>2. Busy = {} /\ DOMAIN queue = {}
      BY <2>1, BusyFinite, FS_EmptySet
    <2> QED
      BY <2>2 DEF IInv, CountInv, JobsAccountedFor, Queued
  <1> QED
    BY <1>1, Invariance, PTL

\* Until somebody gives up waiting, jobs are never run by two threads at a time.
THEOREM NoSecondWorker == Spec => []OneWorker
  <1>1. IInv => OneWorker
    BY DEF IInv, ThreadInv, NoOrphan, OneWorker
  <1> QED
    BY <1>1, Invariance, PTL

-----------------------------------------------------------------------------
(* Stopping.                                                               *)
(*                                                                         *)
(* While nobody gives up and no job kills or stops its thread, a caller    *)
(* that waits for the thread has the one terminator of the queue behind    *)
(* the jobs it found there, until the thread has taken it.                 *)

\* A job that has called stop() has done so for good.
LEMMA SelfStoppedStays == IInv /\ [Next]_vars => (SelfStopped => SelfStopped')
  <1> SUFFICES ASSUME IInv, [Next]_vars, NEW j \in Producers, pc[j] = "stops"
               PROVE  pc'[j] = "stops"
    BY DEF SelfStopped
  <1> USE ConstantAssumption
  <1>0. TypeOK /\ RunMeansEnded
    BY DEF IInv, CountInv
  <1>1. CASE UNCHANGED vars
    BY <1>1 DEF vars
  <1>2. ASSUME NEW p \in Producers, Queueing(p) PROVE pc'[j] = "stops"
    BY <1>0, <1>2 DEF TypeOK, Callers, Goto, Queueing, AskAlive, RecheckAlive, Start, PutJob
  <1>3. ASSUME NEW s \in Stoppers, Stopping(s) PROVE pc'[j] = "stops"
    BY <1>0, <1>3
       DEF TypeOK, Callers, Goto, Stopping, StopNothing, StopQueues, StopReturns, StopGivesUp
  <1>4. ASSUME NEW e \in Exiters, Exiting(e) PROVE pc'[j] = "stops"
    BY <1>0, <1>4
       DEF TypeOK, Callers, Goto, Exiting, ExitNothing, ExitQueues, ExitReturns, ExitGivesUp
  <1>5. ASSUME NEW w \in Workers, Working(w) \/ JobGivesUp(w) PROVE pc'[j] = "stops"
    BY <1>0, <1>5
       DEF TypeOK, Callers, Goto, Working, Get, RunJob, JobKills, TaskDone, ThreadEnds,
           JobAsksStop, JobStops, JobJoins, JobReturns, JobGivesUp, JobJoined
  <1> QED
    BY <1>1, <1>2, <1>3, <1>4, <1>5 DEF Next

\* A thread whose job asks for the lock belongs to a job that stops its worker.
LEMMA NextStopsOf == IInv /\ StopsOf /\ [Next]_vars => StopsOf'
  <1> SUFFICES ASSUME IInv, StopsOf, [Next]_vars PROVE StopsOf'
    OBVIOUS
  <1> USE ConstantAssumption
  <1>1. TypeOK /\ RunMeansEnded
    BY DEF IInv, CountInv
  <1>2. SelfStopped => SelfStopped'
    BY SelfStoppedStays
  <1>3. ASSUME NEW v \in Workers, worker'[v] \in {"asks", "joins"},
               worker[v] \notin {"asks", "joins"}
        PROVE  SelfStopped'
    <2>1. PICK w \in Workers : Working(w) \/ JobGivesUp(w)
      <3>1. ~ UNCHANGED vars
        BY <1>3 DEF vars
      <3>2. ASSUME NEW p \in Producers, Queueing(p) PROVE FALSE
        BY <1>1, <1>3, <3>2 DEF TypeOK, Queueing, AskAlive, RecheckAlive, Start, PutJob
      <3>3. ASSUME NEW s \in Stoppers, Stopping(s) PROVE FALSE
        BY <1>3, <3>3 DEF Stopping, StopNothing, StopQueues, StopReturns, StopGivesUp
      <3>4. ASSUME NEW e \in Exiters, Exiting(e) PROVE FALSE
        BY <1>3, <3>4 DEF Exiting, ExitNothing, ExitQueues, ExitReturns, ExitGivesUp
      <3> QED
        BY <3>1, <3>2, <3>3, <3>4 DEF Next
    <2>2. JobAsksStop(w) /\ w = v
      BY <1>1, <1>3, <2>1
         DEF TypeOK, Working, Get, RunJob, JobKills, TaskDone, ThreadEnds,
             JobAsksStop, JobStops, JobJoins, JobReturns, JobGivesUp, JobJoined
    <2>3. record[w] \in Producers /\ pc'[record[w]] = "stops"
      BY <1>1, <2>2 DEF TypeOK, RunMeansEnded, Callers, JobAsksStop, Goto
    <2> QED
      BY <2>3 DEF SelfStopped
  <1> QED
    BY <1>2, <1>3 DEF StopsOf

\* Who has killed a thread, or given up, or stopped its worker, has for good.
LEMMA CalmBefore == IInv /\ StopsOf /\ [Next]_vars => (Calm' => Calm)
  <1> SUFFICES ASSUME IInv, StopsOf, [Next]_vars, Calm' PROVE Calm
    OBVIOUS
  <1> USE ConstantAssumption
  <1>1. TypeOK /\ RunMeansEnded
    BY DEF IInv, CountInv
  <1>2. ~GaveUp
    BY <1>1, GaveUpStays DEF Calm
  <1>3. ASSUME NEW w \in Workers, worker[w] \in {"kill", "dying", "killed"}
        PROVE  worker'[w] \in {"kill", "dying", "killed"}
    <2>1. CASE UNCHANGED vars
      BY <1>3, <2>1 DEF vars
    <2>2. ASSUME NEW p \in Producers, Queueing(p)
          PROVE  worker'[w] \in {"kill", "dying", "killed"}
      BY <1>1, <1>3, <2>2 DEF TypeOK, Queueing, AskAlive, RecheckAlive, Start, PutJob
    <2>3. ASSUME NEW c \in Callers, Stopping(c) \/ Exiting(c)
          PROVE  worker'[w] \in {"kill", "dying", "killed"}
      BY <1>3, <2>3
         DEF Stopping, StopNothing, StopQueues, StopReturns, StopGivesUp,
             Exiting, ExitNothing, ExitQueues, ExitReturns, ExitGivesUp
    <2>4. ASSUME NEW v \in Workers, Working(v) \/ JobGivesUp(v)
          PROVE  worker'[w] \in {"kill", "dying", "killed"}
      BY <1>1, <1>3, <2>4
         DEF TypeOK, Working, Get, RunJob, JobKills, TaskDone, ThreadEnds,
             JobAsksStop, JobStops, JobJoins, JobReturns, JobGivesUp, JobJoined
    <2> QED
      BY <2>1, <2>2, <2>3, <2>4 DEF Next, Callers
  <1>4. ~SelfStopped
    BY SelfStoppedStays DEF Calm
  <1> QED
    BY <1>2, <1>3, <1>4 DEF Calm, Killed, SelfStopped

\* What queueing a record does to the terminators and to what is before them.
LEMMA PutTerminators ==
  ASSUME TypeOK, NEW r \in Records, Put(r), UNCHANGED <<worker, record, thread>>
  PROVE  /\ Terminators' = IF r = Terminator THEN Terminators \cup {Len(queue) + 1}
                                             ELSE Terminators
         /\ Terminators \subseteq 1 .. Len(queue)
         /\ \A j \in Producers, k \in 1 .. Len(queue) + 1 :
              ToRunBefore(j, k) => ToRunBefore(j, k)'
         /\ \A j \in Producers, k \in {Len(queue) + 1} : Queued(j) => ToRunBefore(j, k)'
  <1>1. queue \in Seq(Records)
    BY DEF TypeOK, Records
  <1>2. /\ queue' \in Seq(Records) /\ Len(queue') = Len(queue) + 1
        /\ Len(queue) \in Nat
        /\ \A i \in 1 .. Len(queue) : queue'[i] = queue[i]
        /\ queue'[Len(queue) + 1] = r
    BY <1>1, AppendProperties DEF Put
  <1>3. /\ DOMAIN queue = 1 .. Len(queue)
        /\ DOMAIN queue' = (1 .. Len(queue)) \cup {Len(queue) + 1}
    BY <1>1, <1>2
  <1>4. Busy' = Busy
    BY DEF Busy
  <1>5. Terminators \subseteq 1 .. Len(queue)
    BY <1>3 DEF Terminators
  <1>6. Terminators' = IF r = Terminator THEN Terminators \cup {Len(queue) + 1}
                                         ELSE Terminators
    BY <1>2, <1>3 DEF Terminators
  <1>7. ASSUME NEW j \in Producers, NEW k \in 1 .. Len(queue) + 1, ToRunBefore(j, k)
        PROVE  ToRunBefore(j, k)'
    BY <1>2, <1>4, <1>7 DEF ToRunBefore
  <1>8. ASSUME NEW j \in Producers, NEW k \in {Len(queue) + 1}, Queued(j)
        PROVE  ToRunBefore(j, k)'
    BY <1>2, <1>3, <1>8 DEF ToRunBefore, Queued
  <1> QED
    BY <1>5, <1>6, <1>7, <1>8

\* Steps that leave the callers, and the thread's place in its loop, as they were.
LEMMA QuietDrain ==
  ASSUME TypeOK, Drained, ended \subseteq ended',
         UNCHANGED <<thread, ahead, Joining, Terminators>>,
         thread # None => (InLoop(thread)' <=> InLoop(thread)),
         Joining # {} => thread # None,
         \A s \in Stoppers : pc'[s] = "stopped" => pc[s] = "stopped",
         InLoop(thread) =>
           \A s \in Stoppers, k \in Terminators : \A j \in ahead[s] \ ended' :
             ToRunBefore(j, k) => ToRunBefore(j, k)'
  PROVE  Drained'
  <1>1. Settled'
    BY DEF Drained, Settled
  <1>2. AllOver'
    BY DEF Drained, AllOver
  <1>3. ASSUME Joining # {}, Announced PROVE Announced'
    <2>1. PICK k \in Terminators :
            /\ Terminators = {k}
            /\ \A s \in Joining \cap Stoppers : \A j \in ahead[s] \ ended : ToRunBefore(j, k)
      BY <1>3 DEF Announced
    <2>2. \A s \in Joining \cap Stoppers : \A j \in ahead[s] \ ended' : ToRunBefore(j, k)'
      BY <1>3, <2>1 DEF Announced
    <2>3. InLoop(thread)'
      BY <1>3 DEF Announced
    <2> QED
      BY <2>1, <2>2, <2>3 DEF Announced
  <1>4. ASSUME Joining # {}, TakenOut PROVE TakenOut'
    BY <1>4 DEF TakenOut
  <1> QED
    BY <1>1, <1>2, <1>3, <1>4 DEF Drained

\* queue() puts its job behind the terminator, if there is one.
LEMMA ProducerDrain ==
  ASSUME IInv, Calm, Drained, NEW p \in Producers, Queueing(p)
  PROVE  Drained'
  <1> USE ConstantAssumption
  <1>1. TypeOK /\ NoOrphan /\ JoinersHoldLock /\ PidKnown
    BY DEF IInv, CountInv, ThreadInv, Calm
  <1>2. /\ \A c \in Stoppers \cup Exiters : pc'[c] = pc[c]
        /\ UNCHANGED <<lock, ahead, ended, record>>
    BY <1>1 DEF TypeOK, Callers, Goto, Queueing, AskAlive, RecheckAlive, Start, PutJob
  <1>3. Joining' = Joining
    BY <1>2 DEF Joining
  <1>4. Joining # {} => thread # None /\ lock # None
    BY <1>1 DEF Joining, JoinersHoldLock, Callers
  <1>5. CASE Start(p) /\ ~(forPid /\ thread # None /\ ThreadAlive(thread))
    <2>1. PICK w \in Workers :
            /\ worker[w] = "unborn" /\ worker' = [worker EXCEPT ![w] = "get"]
            /\ thread' = w /\ queue' = queue
      BY <1>5 DEF Start
    <2>2. Joining = {}
      BY <1>4, <1>5 DEF Start
    <2>3. InLoop(thread)'
      BY <1>1, <2>1 DEF TypeOK, InLoop
    <2>4. Settled'
      BY <2>1, <2>2, <2>3 DEF Drained, Settled, Terminators
    <2> QED
      BY <1>2, <1>3, <2>2, <2>4 DEF Drained, AllOver
  <1>6. CASE UNCHANGED <<thread, worker, queue>>
    <2>1. Terminators' = Terminators /\ (InLoop(thread)' <=> InLoop(thread))
      BY <1>6 DEF Terminators, InLoop
    <2>2. \A j, k : ToRunBefore(j, k) => ToRunBefore(j, k)'
      BY <1>2, <1>6 DEF ToRunBefore, Busy
    <2> QED
      BY <1>1, <1>2, <1>3, <1>4, <1>6, <2>1, <2>2, QuietDrain
  <1>7. CASE PutJob(p)
    <2>1. Put(p) /\ UNCHANGED <<worker, record, thread>> /\ p \in Records
      BY <1>7 DEF PutJob, Records
    <2>2. /\ Terminators' = Terminators
          /\ Terminators \subseteq 1 .. Len(queue)
          /\ \A j \in Producers, k \in 1 .. Len(queue) + 1 :
               ToRunBefore(j, k) => ToRunBefore(j, k)'
      BY <1>1, <2>1, PutTerminators
    <2>3. InLoop(thread)' <=> InLoop(thread)
      BY <2>1 DEF InLoop
    <2>4. \A s \in Stoppers : ahead[s] \subseteq Producers
      BY <1>1 DEF TypeOK
    <2>5. \A k \in Terminators : k \in 1 .. Len(queue) + 1
      BY <1>1, <2>2 DEF TypeOK
    <2> QED
      BY <1>1, <1>2, <1>3, <1>4, <2>1, <2>2, <2>3, <2>4, <2>5, QuietDrain
  <1> QED
    BY <1>5, <1>6, <1>7 DEF Queueing, AskAlive, RecheckAlive, Start

\* A caller that has nothing to wait for changes nothing.
LEMMA NothingDrain ==
  ASSUME IInv, Calm, Drained, NEW c \in Stoppers \cup Exiters,
         \/ c \in Stoppers /\ StopNothing(c)
         \/ c \in Exiters /\ ExitNothing(c)
  PROVE  Drained'
  <1> USE ConstantAssumption
  <1>1. TypeOK /\ JoinersHoldLock
    BY DEF IInv, CountInv, ThreadInv, Calm
  <1>2. UNCHANGED <<lock, thread, queue, worker, record, ended, ahead>>
    BY DEF StopNothing, ExitNothing
  <1>3. \A d \in Stoppers \cup Exiters :
          /\ pc'[d] = "joining" <=> pc[d] = "joining"
          /\ pc'[d] = "stopped" <=> pc[d] = "stopped"
    BY <1>1 DEF TypeOK, Callers, Goto, StopNothing, ExitNothing
  <1>4. Joining' = Joining /\ Terminators' = Terminators
    BY <1>2, <1>3 DEF Joining, Terminators
  <1>5. Joining # {} => thread # None
    BY <1>1 DEF Joining, JoinersHoldLock
  <1>6. InLoop(thread)' <=> InLoop(thread)
    BY <1>2 DEF InLoop
  <1>7. \A j, k : ToRunBefore(j, k) => ToRunBefore(j, k)'
    BY <1>2 DEF ToRunBefore, Busy
  <1> QED
    BY <1>1, <1>2, <1>3, <1>4, <1>5, <1>6, <1>7, QuietDrain

\* A terminator is put behind every job that is not over, before a thread that
\* is in its loop.
LEMMA QueuesDrain ==
  ASSUME IInv, Calm, Drained, NEW c \in Stoppers \cup Exiters,
         \/ c \in Stoppers /\ StopQueues(c)
         \/ c \in Exiters /\ ExitQueues(c)
  PROVE  Drained'
  <1> USE ConstantAssumption
  <1>1. /\ TypeOK /\ JobsAccountedFor /\ RunMeansEnded
        /\ NoOrphan /\ JoinersHoldLock
    BY DEF IInv, CountInv, ThreadInv, Calm
  <1>2. /\ UNCHANGED <<thread, worker, record, ended>> /\ thread # None
        /\ lock = None /\ Put(Terminator) /\ pc[c] = "idle"
    BY DEF StopQueues, ExitQueues
  <1>3. Joining = {}
    BY <1>1, <1>2 DEF JoinersHoldLock, Joining, Callers
  <1>4. Terminators = {} /\ InLoop(thread) /\ thread \in Workers
    BY <1>1, <1>2, <1>3 DEF Drained, Settled, TypeOK
  <1>5. Joining' = {c}
    BY <1>1, <1>3 DEF Joining, TypeOK, Callers, Goto, StopQueues, ExitQueues
  <1>6. InLoop(thread)'
    BY <1>2, <1>4 DEF InLoop
  <1>7. /\ Terminators' = {Len(queue) + 1}
        /\ \A j \in Producers, k \in {Len(queue) + 1} : Queued(j) => ToRunBefore(j, k)'
        /\ \A j \in Producers, k \in 1 .. Len(queue) + 1 :
             ToRunBefore(j, k) => ToRunBefore(j, k)'
    BY <1>1, <1>2, <1>4, PutTerminators DEF Records
  <1>8. ASSUME NEW k \in {Len(queue) + 1},
               NEW s \in {c} \cap Stoppers, NEW j \in ahead'[s] \ ended'
        PROVE  ToRunBefore(j, k)'
    <2>1. StopQueues(s)
      BY <1>8 DEF ConstantAssumption
    <2>2. j \in Producers /\ Accepted(j) /\ j \notin ended
      BY <1>1, <1>2, <1>8, <2>1 DEF TypeOK, StopQueues
    <2>3. ASSUME NEW v \in Busy, record[v] = j PROVE v = thread
      <3>1. worker[v] \in {"run", "asks", "joins", "next", "break", "kill"} /\ v \in Workers
        BY <2>3 DEF Busy
      <3>2. worker[v] # "break"
        BY <1>1, <2>2, <2>3, <3>1 DEF RunMeansEnded
      <3>3. worker[v] # "kill"
        BY <3>1 DEF Calm, Killed
      <3> QED
        BY <1>1, <3>1, <3>2, <3>3 DEF NoOrphan, InLoop
    <2>4. CASE \E v \in Busy : record[v] = j
      BY <1>2, <2>3, <2>4 DEF ToRunBefore, Busy
    <2> QED
      BY <1>1, <1>7, <2>2, <2>4 DEF JobsAccountedFor
  <1>9. Announced'
    BY <1>5, <1>6, <1>7, <1>8 DEF Announced
  <1>10. AllOver'
    <2>1. \A s \in Stoppers : pc'[s] = "stopped" => pc[s] = "stopped" /\ ahead'[s] = ahead[s]
      BY <1>1, <1>2 DEF TypeOK, Callers, Goto, StopQueues, ExitQueues
    <2> QED
      BY <1>2, <2>1 DEF Drained, AllOver
  <1> QED
    BY <1>5, <1>9, <1>10 DEF Drained, Settled

\* When the wait is over the thread has left its loop, and the jobs before the
\* terminator are over.
LEMMA ReturnsDrain ==
  ASSUME IInv, Calm, Drained, NEW c \in Stoppers \cup Exiters,
         \/ c \in Stoppers /\ StopReturns(c)
         \/ c \in Exiters /\ ExitReturns(c)
  PROVE  Drained'
  <1> USE ConstantAssumption
  <1>1. TypeOK /\ Counted /\ NoOrphan /\ JoinersHoldLock
    BY DEF IInv, CountInv, ThreadInv, Calm
  <1>2. thread' = None /\ UNCHANGED <<queue, ended, ahead>> /\ pc[c] = "joining"
    BY DEF StopReturns, ExitReturns
  <1>3. c \in Joining /\ Joining' = {}
    BY <1>1, <1>2 DEF TypeOK, JoinersHoldLock, Joining, Callers, Goto, StopReturns, ExitReturns
  <1>4. Terminators = {}
    <2>1. CASE c \in Stoppers /\ StopReturns(c)
      <3>1. ~InLoop(thread)
        BY <2>1 DEF StopReturns, ThreadAlive, InLoop
      <3> QED
        BY <1>3, <3>1 DEF Drained, Announced, TakenOut
    <2>2. CASE c \in Exiters /\ ExitReturns(c)
      <3>1. unfinished = 0 /\ queue \in Seq(Records)
        BY <1>1, <2>2 DEF ExitReturns, TypeOK, Records
      <3>2. Len(queue) = 0
        BY <1>1, <3>1, BusyFinite DEF Counted
      <3> QED
        BY <3>1, <3>2 DEF Terminators
    <2> QED
      BY <2>1, <2>2
  <1>5. Settled'
    BY <1>2, <1>4 DEF Settled, Terminators
  <1>6. AllOver'
    <2> SUFFICES ASSUME NEW s \in Stoppers, pc'[s] = "stopped"
                 PROVE  ahead[s] \subseteq ended
      BY <1>2 DEF AllOver
    <2>1. CASE pc[s] = "stopped"
      BY <2>1 DEF Drained, AllOver
    <2>2. CASE pc[s] # "stopped"
      <3>1. s = c /\ StopReturns(s)
        BY <1>1, <2>2 DEF TypeOK, Callers, Goto, StopReturns, ExitReturns
      <3>2. ~InLoop(thread)
        BY <3>1 DEF StopReturns, ThreadAlive, InLoop
      <3> QED
        BY <1>3, <3>1, <3>2 DEF Drained, Announced, TakenOut
    <2> QED
      BY <2>1, <2>2
  <1> QED
    BY <1>3, <1>5, <1>6 DEF Drained

\* The thread takes the records in their order.
LEMMA GetDrain ==
  ASSUME IInv, Calm, Drained, NEW w \in Workers, Get(w)
  PROVE  Drained'
  <1> USE ConstantAssumption
  <1>1. TypeOK /\ NoOrphan /\ JoinersHoldLock
    BY DEF IInv, CountInv, ThreadInv, Calm
  <1>2. UNCHANGED <<pc, lock, thread, ended, ahead>> /\ w = thread /\ InLoop(w) /\ w \notin Busy
    BY <1>1 DEF Get, NoOrphan, InLoop, Busy
  <1>3. Joining' = Joining /\ AllOver'
    BY <1>2 DEF Joining, Drained, AllOver
  <1>4. queue \in Seq(Records) /\ queue # <<>>
    BY <1>1 DEF TypeOK, Get, Records
  <1>5. /\ Head(queue) \in Records /\ Head(queue) = queue[1]
        /\ queue' \in Seq(Records) /\ Len(queue') = Len(queue) - 1
        /\ Len(queue) \in Nat \ {0}
        /\ \A i \in 1 .. Len(queue') : queue'[i] = queue[i + 1]
    BY <1>4, HeadTailProperties DEF Get
  <1>6. /\ record'[w] = queue[1]
        /\ worker'[w] = IF queue[1] = Terminator THEN "break" ELSE "run"
    BY <1>1, <1>5 DEF TypeOK, Get
  <1>7. w \in Busy'
    BY <1>6 DEF Busy
  <1>8. \A i : i \in Terminators' <=> i \in 1 .. Len(queue) - 1 /\ i + 1 \in Terminators
    BY <1>4, <1>5 DEF Terminators
  <1>9. Terminators \subseteq 1 .. Len(queue)
    BY <1>4 DEF Terminators
  <1>10. CASE Terminators = {}
    <2>1. queue[1] # Terminator /\ Terminators' = {}
      BY <1>4, <1>5, <1>8, <1>10 DEF Terminators
    <2>2. Joining = {}
      BY <1>2, <1>10 DEF Drained, Announced, TakenOut
    <2>3. InLoop(thread)'
      BY <1>2, <1>6, <2>1 DEF InLoop
    <2> QED
      BY <1>3, <2>1, <2>2, <2>3 DEF Drained, Settled
  <1>11. CASE Terminators # {}
    <2>1. Joining # {} /\ Announced
      BY <1>11 DEF Drained, Settled, TakenOut
    <2>2. PICK k \in Terminators :
            /\ Terminators = {k}
            /\ \A s \in Joining \cap Stoppers : \A j \in ahead[s] \ ended : ToRunBefore(j, k)
      BY <2>1 DEF Announced
    <2>3. k \in 1 .. Len(queue) /\ queue[k] = Terminator
      BY <1>9, <2>2 DEF Terminators
    <2>4. \A s \in Joining \cap Stoppers : \A j \in ahead[s] \ ended :
            \E i \in 1 .. k - 1 : queue[i] = j
      BY <1>2, <2>2 DEF ToRunBefore
    <2>5. CASE k = 1
      <3>1. Terminators' = {}
        BY <1>8, <1>9, <2>2, <2>5
      <3>2. ~InLoop(thread)'
        BY <1>2, <1>6, <2>3, <2>5 DEF InLoop
      <3>3. \A s \in Joining \cap Stoppers : ahead[s] \subseteq ended
        BY <2>4, <2>5
      <3>4. TakenOut'
        BY <1>2, <1>3, <3>1, <3>2, <3>3 DEF TakenOut
      <3> QED
        BY <1>3, <2>1, <3>4 DEF Drained, Settled
    <2>6. CASE k # 1
      <3>1. Terminators' = {k - 1}
        BY <1>8, <2>2, <2>3, <2>6
      <3>2. queue[1] # Terminator
        BY <1>4, <1>5, <2>2, <2>6 DEF Terminators
      <3>3. InLoop(thread)'
        BY <1>2, <1>6, <3>2 DEF InLoop
      <3>4. ASSUME NEW s \in Joining \cap Stoppers, NEW j \in ahead[s] \ ended
            PROVE  ToRunBefore(j, k - 1)'
        <4>1. PICK i \in 1 .. k - 1 : queue[i] = j
          BY <2>4, <3>4
        <4>2. CASE i = 1
          BY <1>2, <1>6, <1>7, <4>1, <4>2 DEF ToRunBefore
        <4>3. CASE i # 1
          <5>1. i - 1 \in 1 .. (k - 1) - 1 /\ queue'[i - 1] = j
            BY <1>5, <2>3, <4>1, <4>3
          <5> QED
            BY <5>1 DEF ToRunBefore
        <4> QED
          BY <4>2, <4>3
      <3>5. Announced'
        BY <1>2, <1>3, <3>1, <3>3, <3>4 DEF Announced
      <3> QED
        BY <1>3, <2>1, <3>5 DEF Drained, Settled
    <2> QED
      BY <2>5, <2>6
  <1> QED
    BY <1>10, <1>11

\* A job leaves its thread when it is over; a thread that is out stays out.
LEMMA WorkerDrain ==
  ASSUME IInv, StopsOf, Calm, Calm', Drained, NEW w \in Workers,
         Working(w) \/ JobGivesUp(w)
  PROVE  Drained'
  <1> USE ConstantAssumption
  <1>1. /\ TypeOK /\ RunMeansEnded /\ IInv
        /\ NoOrphan /\ JoinersHoldLock
    BY DEF IInv, CountInv, ThreadInv, Calm
  <1>2. Get(w) \/ RunJob(w) \/ TaskDone(w) \/ ThreadEnds(w)
    <2>1. worker[w] \notin {"asks", "joins"}
      BY DEF StopsOf, Calm
    <2>2. worker'[w] \notin {"kill", "dying", "killed"}
      BY DEF Calm, Killed
    <2>3. ~JobKills(w)
      BY <1>1, <2>2 DEF TypeOK, JobKills
    <2>4. ~JobAsksStop(w)
      <3> SUFFICES ASSUME JobAsksStop(w) PROVE FALSE
        OBVIOUS
      <3>1. record[w] \in Producers /\ pc'[record[w]] = "stops"
        BY <1>1 DEF TypeOK, RunMeansEnded, Callers, JobAsksStop, Goto
      <3> QED
        BY <3>1 DEF Calm, SelfStopped
    <2> QED
      BY <2>1, <2>3, <2>4 DEF Working, JobStops, JobJoins, JobReturns, JobGivesUp
  <1>3. CASE RunJob(w) \/ TaskDone(w) \/ ThreadEnds(w)
    <2>1. UNCHANGED <<pc, thread, queue, ahead>> /\ ended \subseteq ended'
      BY <1>3 DEF RunJob, TaskDone, ThreadEnds
    <2>2. Joining' = Joining /\ Terminators' = Terminators
      BY <2>1 DEF Joining, Terminators
    <2>3. /\ \A v \in Workers : v # w => worker'[v] = worker[v] /\ record'[v] = record[v]
          /\ InLoop(w)' <=> InLoop(w)
      BY <1>1, <1>3 DEF TypeOK, InLoop, RunJob, TaskDone, ThreadEnds
    <2>4. thread # None => (InLoop(thread)' <=> InLoop(thread))
      BY <1>1, <2>1, <2>3 DEF TypeOK, InLoop
    <2>5. Joining # {} => thread # None
      BY <1>1 DEF Joining, JoinersHoldLock
    <2>6. ASSUME NEW j, NEW k, j \notin ended', j # Terminator, ToRunBefore(j, k)
          PROVE  ToRunBefore(j, k)'
      <3>1. CASE thread \in Busy /\ record[thread] = j /\ thread # w
        BY <2>1, <2>3, <3>1 DEF ToRunBefore, Busy
      <3>2. CASE thread \in Busy /\ record[thread] = j /\ thread = w
        BY <1>1, <1>3, <2>1, <2>6, <3>2
           DEF TypeOK, RunMeansEnded, RunJob, TaskDone, ThreadEnds, Busy
      <3>3. CASE \E i \in 1 .. k - 1 : queue[i] = j
        BY <2>1, <3>3 DEF ToRunBefore
      <3> QED
        BY <2>6, <3>1, <3>2, <3>3 DEF ToRunBefore
    <2>7. \A s \in Stoppers : \A j \in ahead[s] : j # Terminator
      BY <1>1 DEF TypeOK
    <2> QED
      BY <1>1, <2>1, <2>2, <2>4, <2>5, <2>6, <2>7, QuietDrain
  <1> QED
    BY <1>2, <1>3, GetDrain

\* Every step keeps the invariant of stopping.
LEMMA NextDrain == IInv /\ DrainInv /\ [Next]_vars => DrainInv'
  <1> SUFFICES ASSUME IInv, DrainInv, [Next]_vars, Calm' PROVE Drained'
    BY NextStopsOf DEF DrainInv
  <1>1. StopsOf /\ Calm /\ Drained /\ ~GaveUp'
    BY CalmBefore DEF DrainInv, Calm
  <1>2. CASE UNCHANGED vars
    BY <1>1, <1>2
       DEF vars, Drained, Settled, AllOver, Announced, TakenOut, Joining, Terminators,
           InLoop, ToRunBefore, Busy
  <1>3. ASSUME NEW s \in Stoppers, Stopping(s) PROVE Drained'
    BY <1>1, <1>3, NothingDrain, QueuesDrain, ReturnsDrain, GivingUpShows
       DEF Stopping, IInv, CountInv
  <1>4. ASSUME NEW e \in Exiters, Exiting(e) PROVE Drained'
    BY <1>1, <1>4, NothingDrain, QueuesDrain, ReturnsDrain, GivingUpShows
       DEF Exiting, IInv, CountInv
  <1> QED
    BY <1>1, <1>2, <1>3, <1>4, ProducerDrain, WorkerDrain DEF Next

\* The constructor's thread has nothing to do and no one waits for it.
LEMMA InitDrain == Init => DrainInv
  <1> SUFFICES ASSUME Init PROVE DrainInv
    OBVIOUS
  <1> USE ConstantAssumption
  <1>1. Joining = {} /\ Terminators = {}
    BY DEF Init, Joining, Terminators, Callers
  <1>2. InLoop(thread)
    BY DEF Init, InLoop
  <1>3. AllOver /\ StopsOf
    BY DEF Init, AllOver, StopsOf, Callers
  <1> QED
    BY <1>1, <1>2, <1>3 DEF DrainInv, Drained, Settled

\* When stop() returns without having given up, every job queued before it is
\* over, if no job has killed the thread or stopped it.
THEOREM StopIsSynchronous == Spec => []StopDrains
  <1>1. Spec => [](IInv /\ DrainInv)
    BY InitIInv, NextIInv, InitDrain, NextDrain, PTL DEF Spec
  <1>2. DrainInv => StopDrains
    BY DEF DrainInv, Calm, Drained, AllOver, StopDrains
  <1> QED
    BY <1>1, <1>2, PTL
=============================================================================
