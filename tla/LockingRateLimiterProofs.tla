---------------------- MODULE LockingRateLimiterProofs ----------------------
(***************************************************************************)
(* Until a wait lapses, the frames of DistributedLockingRateLimiter exclude *)
(* each other and keep the rate, for any number of clients, any delay and  *)
(* timeout and any deaths; without a timeout a wait never lapses.          *)
(*                                                                         *)
(* The argument: the only baton is in one place, the list or one client,   *)
(* and its ready_time is never before the end of the cool-down.            *)
(***************************************************************************)
EXTENDS LockingRateLimiter, SequenceTheorems, TLAPS

\* Removing an element from the queue of blocked clients.
LEMMA RemoveAtProperties ==
  ASSUME NEW S, NEW q \in Seq(S), NEW i \in DOMAIN q
  PROVE  /\ RemoveAt(q, i) \in Seq(S)
         /\ Len(RemoveAt(q, i)) = Len(q) - 1
         /\ \A j \in 1 .. Len(q) - 1 :
              RemoveAt(q, i)[j] = IF j < i THEN q[j] ELSE q[j + 1]
  <1> DEFINE front == SubSeq(q, 1, i - 1)
             back == SubSeq(q, i + 1, Len(q))
  <1>1. i \in 1 .. Len(q) /\ Len(q) \in Nat /\ \A j \in 1 .. Len(q) : q[j] \in S
    OBVIOUS
  <1>2. /\ front \in Seq(S) /\ Len(front) = i - 1
        /\ \A j \in 1 .. i - 1 : front[j] = q[j]
    BY <1>1, SubSeqProperties
  <1>3. /\ back \in Seq(S) /\ Len(back) = Len(q) - i
        /\ \A j \in 1 .. Len(q) - i : back[j] = q[i + j]
    BY <1>1, SubSeqProperties
  <1> HIDE DEF front, back
  <1>4. /\ front \o back \in Seq(S)
        /\ Len(front \o back) = Len(q) - 1
        /\ \A j \in 1 .. Len(q) - 1 :
             (front \o back)[j] = IF j <= i - 1 THEN front[j] ELSE back[j - (i - 1)]
    BY <1>1, <1>2, <1>3, ConcatProperties
  <1>5. ASSUME NEW j \in 1 .. Len(q) - 1
        PROVE  (front \o back)[j] = IF j < i THEN q[j] ELSE q[j + 1]
    BY <1>1, <1>2, <1>3, <1>4
  <1>6. RemoveAt(q, i) = front \o back
    BY DEF RemoveAt, front, back
  <1> QED
    BY <1>4, <1>5, <1>6

\* Whoever is in the queue is a frame.
LEMMA WaitersAreFrames ==
  ASSUME TypeOK
  PROVE  \A j \in DOMAIN waitQ : j \in Nat /\ waitQ[j] \in Frames
  BY DEF TypeOK

\* A client that leaves the queue leaves only itself.
LEMMA LeaveQueueProperties ==
  ASSUME TypeOK, WaitersBlocked, NEW c \in Frames, LeaveQueue(c)
  PROVE  /\ waitQ' \in Seq(Frames)
         /\ \A j \in DOMAIN waitQ' : waitQ'[j] # c /\ pc[waitQ'[j]] = "blocked"
         /\ \A j, k \in DOMAIN waitQ' : waitQ'[j] = waitQ'[k] => j = k
  <1>1. PICK i \in DOMAIN waitQ : waitQ[i] = c /\ waitQ' = RemoveAt(waitQ, i)
    BY DEF LeaveQueue
  <1>2. waitQ \in Seq(Frames)
    BY DEF TypeOK
  <1>3. /\ waitQ' \in Seq(Frames)
        /\ Len(waitQ') = Len(waitQ) - 1
        /\ \A j \in 1 .. Len(waitQ) - 1 :
             waitQ'[j] = IF j < i THEN waitQ[j] ELSE waitQ[j + 1]
    BY <1>1, <1>2, RemoveAtProperties
  <1>4. ASSUME NEW j \in DOMAIN waitQ'
        PROVE  waitQ'[j] # c /\ pc[waitQ'[j]] = "blocked"
    BY <1>1, <1>2, <1>3, <1>4 DEF WaitersBlocked
  <1>5. ASSUME NEW j \in DOMAIN waitQ', NEW k \in DOMAIN waitQ', waitQ'[j] = waitQ'[k]
        PROVE  j = k
    <2> DEFINE at(m) == IF m < i THEN m ELSE m + 1
    <2>1. i \in Nat /\ j \in 1 .. Len(waitQ) - 1 /\ k \in 1 .. Len(waitQ) - 1
      BY <1>1, <1>2, <1>3, <1>5
    <2>2. at(j) \in DOMAIN waitQ /\ at(k) \in DOMAIN waitQ
      BY <1>2, <2>1
    <2>3. waitQ[at(j)] = waitQ[at(k)]
      BY <1>3, <1>5, <2>1
    <2>4. at(j) = at(k)
      BY <2>2, <2>3 DEF WaitersBlocked
    <2> QED
      BY <2>1, <2>4
  <1> QED
    BY <1>3, <1>4, <1>5

\* The client that RPUSH serves was blocked, and the others stay so.
LEMMA HeadLeavesQueue ==
  ASSUME TypeOK, WaitersBlocked, waitQ # <<>>
  PROVE  /\ Head(waitQ) \in Frames /\ pc[Head(waitQ)] = "blocked"
         /\ Tail(waitQ) \in Seq(Frames)
         /\ \A j \in DOMAIN Tail(waitQ) :
              /\ Tail(waitQ)[j] # Head(waitQ)
              /\ pc[Tail(waitQ)[j]] = "blocked"
         /\ \A j, k \in DOMAIN Tail(waitQ) : Tail(waitQ)[j] = Tail(waitQ)[k] => j = k
  <1>1. waitQ \in Seq(Frames)
    BY DEF TypeOK
  <1>2. Head(waitQ) = waitQ[1] /\ 1 \in DOMAIN waitQ
    BY <1>1
  <1>3. \A j \in DOMAIN Tail(waitQ) : j + 1 \in DOMAIN waitQ /\ Tail(waitQ)[j] = waitQ[j + 1]
    BY <1>1
  <1> QED
    BY <1>1, <1>2, <1>3 DEF WaitersBlocked

\* At first there is no baton, and nobody has one.
LEMMA InitIInv == Init => IInv
  <1> SUFFICES ASSUME Init PROVE IInv
    OBVIOUS
  <1>1. TypeOK
    <2>1. batons \in Seq(Nat) /\ waitQ \in Seq(Frames)
      BY EmptySeq DEF Init
    <2>2. pc \in [Frames -> Steps]
      BY DEF Init, Steps
    <2> QED
      BY <2>1, <2>2 DEF Init, TypeOK
  <1>2. WaitersBlocked
    BY DEF Init, WaitersBlocked
  <1>3. OneBaton
    BY DEF Init, OneBaton, Carries
  <1>4. NoLapseWithoutTimeout /\ BatonHoldsBack /\ NothingBefore
    BY DEF Init, NoLapseWithoutTimeout, BatonHoldsBack, NothingBefore
  <1> QED
    BY <1>1, <1>2, <1>3, <1>4 DEF IInv

\* Steps of one client that leave the list and the queue alone.
LEMMA PlainSteps ==
  ASSUME IInv, NEW c \in Frames,
         GetSet(c) \/ ExpireExists(c) \/ Open(c) \/ Close(c) \/ MarkExists(c)
           \/ ExpireList(c)
  PROVE  IInv'
  <1> USE ConstantAssumption DEF Goto, Persistent
  <1>1. TypeOK'
    BY DEF IInv, TypeOK, Steps, GetSet, ExpireExists, Open, Close, MarkExists, ExpireList
  <1>2. WaitersBlocked'
    <2>1. waitQ' = waitQ /\ pc[c] # "blocked"
      BY DEF GetSet, ExpireExists, Open, Close, MarkExists, ExpireList
    <2>2. \A d \in Frames : pc[d] = "blocked" => pc'[d] = "blocked"
      BY <2>1 DEF IInv, TypeOK, GetSet, ExpireExists, Open, Close, MarkExists, ExpireList
    <2> QED
      BY <2>1, <2>2, WaitersAreFrames DEF IInv, WaitersBlocked
  <1>3. NoLapseWithoutTimeout'
    BY DEF IInv, NoLapseWithoutTimeout, GetSet, ExpireExists, Open, Close,
           MarkExists, ExpireList
  <1>4. ASSUME ~lapsed'
        PROVE  OneBaton' /\ BatonHoldsBack' /\ NothingBefore'
    <2>1. ~lapsed /\ batons' = batons
      BY <1>4 DEF GetSet, ExpireExists, Open, Close, MarkExists, ExpireList
    <2>2. OneBaton'
      <3>1. CASE GetSet(c)
        BY <2>1, <3>1 DEF IInv, TypeOK, OneBaton, NothingBefore, Carries, GetSet
      <3>2. CASE ExpireExists(c) \/ Open(c) \/ Close(c) \/ MarkExists(c) \/ ExpireList(c)
        <4>1. \A d \in Frames : Carries(d)' => Carries(d)
          BY <3>2 DEF IInv, TypeOK, Carries, ExpireExists, Open, Close, MarkExists, ExpireList
        <4> QED
          BY <2>1, <4>1 DEF IInv, OneBaton
      <3> QED
        BY <3>1, <3>2
    <2>3. BatonHoldsBack'
      <3>1. CASE GetSet(c)
        BY <2>1, <3>1 DEF IInv, TypeOK, BatonHoldsBack, NothingBefore, GetSet
      <3>2. CASE ExpireExists(c)
        BY <2>1, <3>2 DEF IInv, TypeOK, BatonHoldsBack, ExpireExists
      <3>3. CASE Open(c) \/ MarkExists(c) \/ ExpireList(c)
        BY <2>1, <3>3 DEF IInv, TypeOK, BatonHoldsBack, Open, MarkExists, ExpireList
      <3>4. CASE Close(c)
        BY <2>1, <3>4 DEF IInv, TypeOK, OneBaton, BatonHoldsBack, Carries, Close
      <3> QED
        BY <3>1, <3>2, <3>3, <3>4
    <2>4. NothingBefore'
      BY <2>1 DEF IInv, TypeOK, NothingBefore, GetSet, ExpireExists, Open, Close,
             MarkExists, ExpireList
    <2> QED
      BY <2>2, <2>3, <2>4
  <1> QED
    BY <1>1, <1>2, <1>3, <1>4 DEF IInv

\* Creating the baton, or passing it on, leaves one baton in one place.
LEMMA PushSteps ==
  ASSUME IInv, NEW c \in Frames, CreateBaton(c) \/ PassBaton(c)
  PROVE  IInv'
  <1> USE ConstantAssumption DEF Goto, Persistent
  <1>1. PICK v \in Nat, step \in {"ask", "extend"} :
          /\ RPush(c, v, step)
          /\ pc[c] \in {"init", "push"}
          /\ pc[c] = "init" => v = 0
          /\ pc[c] = "push" => v = ready[c]
          /\ UNCHANGED <<exists, existsTtl, patience, cool, lapsed>>
    BY DEF IInv, TypeOK, CreateBaton, PassBaton
  <1>2. TypeOK' /\ WaitersBlocked'
    <2>1. CASE waitQ = <<>>
      <3>1. /\ UNCHANGED <<waitQ, ready>>
            /\ batons' = Append(batons, v)
            /\ listTtl' = IF batons = <<>> THEN Persistent ELSE listTtl
            /\ pc' = [pc EXCEPT ![c] = step]
        BY <1>1, <2>1 DEF RPush
      <3> QED
        BY <1>1, <2>1, <3>1 DEF IInv, TypeOK, Steps, WaitersBlocked
    <2>2. CASE waitQ # <<>>
      <3> DEFINE w == Head(waitQ)
      <3>1. /\ UNCHANGED <<batons, listTtl>>
            /\ waitQ' = Tail(waitQ)
            /\ ready' = [ready EXCEPT ![w] = v]
            /\ pc' = [pc EXCEPT ![c] = step, ![w] = "ready"]
        BY <1>1, <2>2 DEF RPush
      <3>2. /\ w \in Frames /\ pc[w] = "blocked"
            /\ Tail(waitQ) \in Seq(Frames)
            /\ \A j \in DOMAIN Tail(waitQ) :
                 Tail(waitQ)[j] # w /\ pc[Tail(waitQ)[j]] = "blocked"
            /\ \A j, k \in DOMAIN Tail(waitQ) :
                 Tail(waitQ)[j] = Tail(waitQ)[k] => j = k
        BY <2>2, HeadLeavesQueue DEF IInv
      <3> HIDE DEF w
      <3>3. TypeOK'
        BY <1>1, <3>1, <3>2 DEF IInv, TypeOK, Steps
      <3>4. \A j \in DOMAIN waitQ' : waitQ'[j] \in Frames
        BY <3>1, <3>2
      <3>5. \A j \in DOMAIN waitQ' : waitQ'[j] # c
        BY <1>1, <3>1, <3>2
      <3>6. WaitersBlocked'
        BY <1>1, <3>1, <3>2, <3>4, <3>5 DEF IInv, TypeOK, WaitersBlocked
      <3> QED
        BY <3>3, <3>6
    <2> QED
      BY <2>1, <2>2
  <1>3. NoLapseWithoutTimeout'
    BY <1>1 DEF IInv, NoLapseWithoutTimeout
  <1>4. ASSUME ~lapsed'
        PROVE  OneBaton' /\ BatonHoldsBack' /\ NothingBefore'
    <2>1. /\ ~lapsed /\ Carries(c) /\ batons = <<>>
          /\ \A d \in Frames : Carries(d) => d = c
          /\ cool <= v
      BY <1>1, <1>4 DEF IInv, OneBaton, BatonHoldsBack, Carries
    <2>2. CASE waitQ = <<>>
      <3>1. /\ batons' = <<v>>
            /\ ready' = ready
            /\ pc' = [pc EXCEPT ![c] = step]
        BY <1>1, <2>1, <2>2 DEF RPush
      <3>2. \A d \in Frames : ~Carries(d)'
        BY <2>1, <3>1 DEF IInv, TypeOK, Carries
      <3> QED
        BY <1>1, <2>1, <3>1, <3>2
           DEF IInv, OneBaton, BatonHoldsBack, NothingBefore, Carries, TypeOK
    <2>3. CASE waitQ # <<>>
      <3> DEFINE w == Head(waitQ)
      <3>1. /\ w \in Frames /\ w # c
            /\ batons' = <<>>
            /\ ready' = [ready EXCEPT ![w] = v]
            /\ pc' = [pc EXCEPT ![c] = step, ![w] = "ready"]
        BY <1>1, <2>1, <2>3, HeadLeavesQueue DEF RPush, IInv
      <3>2. \A d \in Frames : Carries(d)' => d = w
        BY <2>1, <3>1 DEF IInv, TypeOK, Carries
      <3>3. \A d \in Frames : d # w => pc'[d] \notin {"ready", "mark", "push", "fresh", "init"}
        BY <3>2 DEF Carries
      <3>4. pc'[w] = "ready" /\ ready'[w] = v
        BY <3>1 DEF IInv, TypeOK
      <3> HIDE DEF w
      <3>5. OneBaton'
        BY <3>1, <3>2 DEF OneBaton
      <3>6. \A d \in Frames : pc'[d] \in {"ready", "mark", "push"} => cool <= ready'[d]
        BY <2>1, <3>3, <3>4
      <3>7. \A d \in Frames : pc'[d] \notin {"fresh", "init"}
        BY <3>3, <3>4
      <3>8. BatonHoldsBack'
        BY <1>1, <3>1, <3>6, <3>7 DEF BatonHoldsBack
      <3>9. NothingBefore'
        BY <1>1, <2>1 DEF IInv, NothingBefore
      <3> QED
        BY <3>5, <3>8, <3>9
    <2> QED
      BY <2>2, <2>3
  <1> QED
    BY <1>2, <1>3, <1>4 DEF IInv

\* Taking the baton from the list moves it to the client.
LEMMA PopStep ==
  ASSUME IInv, NEW c \in Frames, Pop(c)
  PROVE  IInv'
  <1> USE DEF Goto, Persistent
  <1>1. batons \in Seq(Nat) /\ batons # <<>> /\ Head(batons) \in Nat /\ batons' \in Seq(Nat)
    BY DEF IInv, TypeOK, Pop
  <1>2. TypeOK'
    BY <1>1 DEF IInv, TypeOK, Steps, Pop
  <1>3. WaitersBlocked' /\ NoLapseWithoutTimeout'
    BY DEF IInv, TypeOK, WaitersBlocked, NoLapseWithoutTimeout, Pop
  <1>4. ASSUME ~lapsed'
        PROVE  OneBaton' /\ BatonHoldsBack' /\ NothingBefore'
    <2>1. /\ ~lapsed /\ batons' = <<>>
          /\ \A d \in Frames : ~Carries(d)
          /\ cool <= Head(batons)
      BY <1>1, <1>4 DEF IInv, OneBaton, BatonHoldsBack, Pop
    <2>2. \A d \in Frames : Carries(d)' => d = c
      BY <2>1 DEF IInv, TypeOK, Carries, Pop
    <2>3. pc'[c] = "ready" /\ ready'[c] = Head(batons) /\ cool' = cool
      BY DEF IInv, TypeOK, Pop
    <2>4. NothingBefore'
      BY <2>1 DEF IInv, NothingBefore, Pop
    <2> QED
      BY <2>1, <2>2, <2>3, <2>4 DEF OneBaton, BatonHoldsBack, Carries
  <1> QED
    BY <1>2, <1>3, <1>4 DEF IInv

\* A client that finds the list empty joins the queue, once.
LEMMA BlockStep ==
  ASSUME IInv, NEW c \in Frames, Block(c)
  PROVE  IInv'
  <1> USE ConstantAssumption DEF Goto, Persistent
  <1>1. TypeOK' /\ NoLapseWithoutTimeout'
    BY DEF IInv, TypeOK, Steps, NoLapseWithoutTimeout, Block
  <1>2. WaitersBlocked'
    <2>1. /\ waitQ \in Seq(Frames) /\ waitQ' = Append(waitQ, c)
          /\ pc' = [pc EXCEPT ![c] = "blocked"] /\ pc[c] = "ask"
      BY DEF IInv, TypeOK, Block
    <2>2. /\ DOMAIN waitQ' = 1 .. Len(waitQ) + 1
          /\ waitQ'[Len(waitQ) + 1] = c
          /\ \A j \in 1 .. Len(waitQ) : waitQ'[j] = waitQ[j]
      BY <2>1, AppendProperties
    <2>3. \A j \in 1 .. Len(waitQ) :
            waitQ[j] \in Frames /\ pc[waitQ[j]] = "blocked" /\ waitQ[j] # c
      BY <2>1 DEF IInv, WaitersBlocked
    <2>4. \A j \in DOMAIN waitQ' : pc'[waitQ'[j]] = "blocked"
      BY <2>1, <2>2, <2>3 DEF IInv, TypeOK
    <2>5. \A j, k \in DOMAIN waitQ' : waitQ'[j] = waitQ'[k] => j = k
      BY <2>1, <2>2, <2>3 DEF IInv, WaitersBlocked
    <2> QED
      BY <2>4, <2>5 DEF WaitersBlocked
  <1>3. \A d \in Frames : /\ Carries(d)' <=> Carries(d)
                          /\ Carries(d) => pc'[d] = pc[d]
    BY DEF IInv, TypeOK, Carries, Block
  <1>4. ASSUME ~lapsed'
        PROVE  OneBaton' /\ BatonHoldsBack' /\ NothingBefore'
    BY <1>3, <1>4
       DEF IInv, TypeOK, OneBaton, BatonHoldsBack, NothingBefore, Carries, Block
  <1> QED
    BY <1>1, <1>2, <1>4 DEF IInv

\* A BLPOP whose timeout passes is what makes a wait lapse.
LEMMA TimeOutStep ==
  ASSUME IInv, NEW c \in Frames, PopTimesOut(c)
  PROVE  IInv'
  <1>1. TypeOK' /\ WaitersBlocked'
    BY LeaveQueueProperties DEF IInv, TypeOK, Steps, WaitersBlocked, PopTimesOut, Goto
  <1>2. NoLapseWithoutTimeout' /\ lapsed'
    BY DEF NoLapseWithoutTimeout, PopTimesOut
  <1> QED
    BY <1>1, <1>2 DEF IInv

\* A client that dies takes the baton with it, and never makes another.
LEMMA DieStep ==
  ASSUME IInv, NEW c \in Frames, Die(c)
  PROVE  IInv'
  <1> USE DEF Goto
  <1>1. /\ waitQ' \in Seq(Frames)
        /\ \A j \in DOMAIN waitQ' : waitQ'[j] # c /\ pc[waitQ'[j]] = "blocked"
        /\ \A j, k \in DOMAIN waitQ' : waitQ'[j] = waitQ'[k] => j = k
    BY LeaveQueueProperties DEF IInv, TypeOK, WaitersBlocked, Die
  <1>2. TypeOK' /\ WaitersBlocked' /\ NoLapseWithoutTimeout'
    BY <1>1 DEF IInv, TypeOK, Steps, WaitersBlocked, NoLapseWithoutTimeout, Die
  <1>3. \A d \in Frames : Carries(d)' => Carries(d) /\ pc'[d] = pc[d]
    BY DEF IInv, TypeOK, Carries, Die
  <1>4. ASSUME ~lapsed'
        PROVE  OneBaton' /\ BatonHoldsBack' /\ NothingBefore'
    BY <1>3, <1>4
       DEF IInv, TypeOK, OneBaton, BatonHoldsBack, NothingBefore, Carries, Die
  <1> QED
    BY <1>2, <1>4 DEF IInv

\* Time takes batons away when the list expires, and never brings the end of
\* the cool-down past a ready_time.
LEMMA TickStep ==
  ASSUME IInv, Tick
  PROVE  IInv'
  <1> USE DEF Left, Persistent
  <1>1. /\ batons' \in Seq(Nat)
        /\ batons' = <<>> \/ (/\ Len(batons') = Len(batons)
                              /\ \A i \in DOMAIN batons : batons'[i] = Left(batons[i]))
    <2>1. batons \in Seq(Nat)
      BY DEF IInv, TypeOK
    <2>2. CASE listTtl = 1
      BY <2>2 DEF Tick
    <2>3. CASE listTtl # 1
      <3>1. batons' = [i \in 1 .. Len(batons) |-> Left(batons[i])]
        BY <2>1, <2>3 DEF Tick
      <3>2. \A i \in 1 .. Len(batons) : Left(batons[i]) \in Nat
        BY <2>1
      <3>3. batons' \in Seq(Nat)
        BY <2>1, <3>1, <3>2, IsASeq
      <3> QED
        BY <2>1, <3>1, <3>3
    <2> QED
      BY <2>2, <2>3
  <1>2. TypeOK'
    BY <1>1 DEF IInv, TypeOK, Tick
  <1>3. WaitersBlocked' /\ NoLapseWithoutTimeout'
    BY DEF IInv, TypeOK, WaitersBlocked, NoLapseWithoutTimeout, Tick
  <1>4. ASSUME ~lapsed'
        PROVE  OneBaton' /\ BatonHoldsBack' /\ NothingBefore'
    <2>1. ~lapsed /\ (exists' <=> exists) /\ pc' = pc
      BY <1>4 DEF Tick, IInv, TypeOK
    <2>2. OneBaton'
      BY <1>1, <2>1 DEF IInv, TypeOK, OneBaton, Carries
    <2>3. batons' # <<>> => batons # <<>> /\ Head(batons') = Left(Head(batons)) /\ Head(batons) \in Nat
      BY <1>1 DEF IInv, TypeOK
    <2>4. BatonHoldsBack'
      BY <2>1, <2>3 DEF IInv, TypeOK, BatonHoldsBack, Tick
    <2>5. NothingBefore'
      BY <1>1, <2>1 DEF IInv, TypeOK, NothingBefore, Tick
    <2> QED
      BY <2>2, <2>4, <2>5
  <1> QED
    BY <1>2, <1>3, <1>4 DEF IInv

\* Every step keeps the invariant.
LEMMA NextIInv == IInv /\ [Next]_vars => IInv'
  <1> SUFFICES ASSUME IInv, [Next]_vars PROVE IInv'
    OBVIOUS
  <1>1. ASSUME NEW c \in Frames, GetSet(c) \/ Enter(c) \/ Leave(c) \/ Die(c)
        PROVE  IInv'
    BY <1>1, PlainSteps, PushSteps, PopStep, BlockStep, TimeOutStep, DieStep
       DEF Enter, Leave
  <1>2. CASE Tick
    BY <1>2, TickStep
  <1>3. CASE UNCHANGED vars
    BY <1>3 DEF vars, IInv, TypeOK, WaitersBlocked, NoLapseWithoutTimeout,
                OneBaton, BatonHoldsBack, NothingBefore, Carries
  <1> QED
    BY <1>1, <1>2, <1>3 DEF Next

\* The invariant of enter and exit of the limiter: one baton in one place,
\* not ready before the cool-down is over, unless a wait has lapsed.
THEOREM Invariance == Spec => []IInv
  BY InitIInv, NextIInv, PTL DEF Spec

\* No two frames run at once as long as no wait has lapsed.
THEOREM Exclusive == Spec => []ExclusiveUntilLapse
  <1>1. IInv => ExclusiveUntilLapse
    BY DEF IInv, OneBaton, Carries, ExclusiveUntilLapse, OneFrameAtATime
  <1> QED
    BY <1>1, Invariance, PTL

\* A frame that opens while no wait has lapsed does so at the rate.
LEMMA OpeningIsCold ==
  ASSUME IInv, [Next]_vars, ~lapsed, NEW c \in Frames,
         pc[c] # "body", pc'[c] = "body"
  PROVE  cool = 0
  <1>1. Open(c)
    <2>1. ASSUME NEW d \in Frames, Open(d)
          PROVE  d = c
      BY <2>1 DEF IInv, TypeOK, Open, Goto
    <2>2. ASSUME NEW d \in Frames,
                 \/ GetSet(d) \/ ExpireExists(d) \/ Pop(d) \/ Block(d)
                 \/ PopTimesOut(d) \/ Close(d) \/ MarkExists(d)
                 \/ ExpireList(d) \/ Die(d)
          PROVE  FALSE
      BY <2>2 DEF IInv, TypeOK, Goto, GetSet, ExpireExists, Pop, Block,
                  PopTimesOut, Close, MarkExists, ExpireList, Die
    <2>3. ASSUME NEW d \in Frames, CreateBaton(d) \/ PassBaton(d)
          PROVE  FALSE
      BY <2>3 DEF IInv, TypeOK, Goto, CreateBaton, PassBaton, RPush
    <2>4. ~Tick /\ ~UNCHANGED vars
      BY DEF Tick, vars
    <2> QED
      BY <2>1, <2>2, <2>3, <2>4 DEF Next, Enter, Leave
  <1> QED
    BY <1>1, ConstantAssumption DEF Open, IInv, TypeOK, BatonHoldsBack

\* Frames keep the rate as long as no wait has lapsed.
THEOREM RateUntilLapse == Spec => RateKeptUntilLapse
  <1>1. IInv /\ [Next]_vars =>
          [\A c \in Frames :
             ~lapsed /\ pc[c] # "body" /\ pc'[c] = "body" => cool = 0]_vars
    BY OpeningIsCold
  <1> QED
    BY <1>1, Invariance, PTL DEF Spec, RateKeptUntilLapse

\* A limiter with timeout=None always excludes and keeps the rate.
THEOREM ExclusiveForever ==
  ASSUME ~HasTimeout
  PROVE  Spec => []OneFrameAtATime
  <1>1. IInv => OneFrameAtATime
    BY DEF IInv, NoLapseWithoutTimeout, OneBaton, Carries, OneFrameAtATime
  <1> QED
    BY <1>1, Invariance, PTL

\* A limiter without a timeout never starts a frame before delay has passed
\* since the last one ended.
THEOREM RateForever ==
  ASSUME ~HasTimeout
  PROVE  Spec => RateKept
  <1>1. IInv /\ [Next]_vars =>
          [\A c \in Frames : pc[c] # "body" /\ pc'[c] = "body" => cool = 0]_vars
    BY OpeningIsCold DEF IInv, NoLapseWithoutTimeout
  <1> QED
    BY <1>1, Invariance, PTL DEF Spec, RateKept
=============================================================================
