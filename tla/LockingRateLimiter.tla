------------------------- MODULE LockingRateLimiter -------------------------
(***************************************************************************)
(* DistributedLockingRateLimiter.get_time_frame of utils/lock.py, for one   *)
(* key: a baton that says when the next time frame may open is kept in a   *)
(* Redis list, and whoever pops it with BLPOP runs and pushes the next one.*)
(*                                                                         *)
(* A frame is one `with limiter.get_time_frame(key)' block.  The key        *)
(* `...:exists' tells the first frame to create the baton.  Each Redis     *)
(* command is a step of its own, as nothing makes them atomic together.    *)
(*                                                                         *)
(* An absolute ready_time is kept as the time left until it.  A BLPOP that *)
(* runs out of its timeout opens a frame without the baton, and that frame *)
(* pushes a baton too: `lapsed' records that this, or the expiry of the    *)
(* `exists' key, has happened, from when on batons may be several.         *)
(***************************************************************************)
EXTENDS Integers, Sequences, SequencesExt

CONSTANTS
  Frames,      \* with-blocks that ask for a time frame
  MinDelay,    \* _min_delay: 1 / max_rate_hz
  HasTimeout,  \* self.timeout is not None
  Timeout,     \* self.timeout
  Faults       \* TRUE: a client may die at any step

ASSUME ConstantAssumption ==
  /\ MinDelay \in Nat
  /\ Timeout \in Nat \ {0}
  /\ HasTimeout \in BOOLEAN /\ Faults \in BOOLEAN

Persistent == -1    \* the reply of TTL for a key with no expiry

VARIABLES
  pc,         \* where each frame is
  exists,     \* the `exists' key is set
  existsTtl,  \* what is left of its life
  batons,     \* the list lock_key: time left until each ready_time
  listTtl,    \* what is left of the list's life
  waitQ,      \* the clients blocked in BLPOP, first come first served
  patience,   \* time left of a blocked client's BLPOP
  ready,      \* time left until the ready_time the frame holds
  cool,       \* history: time left until MinDelay since the last frame's end
  lapsed      \* history: a BLPOP timed out or the `exists' key expired

vars == <<pc, exists, existsTtl, batons, listTtl, waitQ, patience, ready,
          cool, lapsed>>

Steps == {"idle", "fresh", "known", "init", "ask", "blocked", "ready", "body",
          "mark", "push", "extend", "done", "dead"}

Goto(c, step) == pc' = [pc EXCEPT ![c] = step]

Init ==
  /\ pc = [c \in Frames |-> "idle"]
  /\ exists = FALSE
  /\ existsTtl = Persistent
  /\ batons = <<>>
  /\ listTtl = Persistent
  /\ waitQ = <<>>
  /\ patience = [c \in Frames |-> 0]
  /\ ready = [c \in Frames |-> 0]
  /\ cool = 0
  /\ lapsed = FALSE

-----------------------------------------------------------------------------
(* Entering the block. *)

\* exists = getset(exists_key, 1), which also drops the key's expiry.
GetSet(c) ==
  /\ pc[c] = "idle"
  /\ Goto(c, IF exists THEN "known" ELSE "fresh")
  /\ exists' = TRUE
  /\ existsTtl' = Persistent
  /\ UNCHANGED <<batons, listTtl, waitQ, patience, ready, cool, lapsed>>

\* Faulty variant: every client creates a baton.
ExpireAndInit(c) ==
  /\ pc[c] \in {"fresh", "known"}
  /\ Goto(c, "init")
  /\ existsTtl' = IF HasTimeout /\ exists THEN Timeout ELSE existsTtl
  /\ UNCHANGED <<exists, batons, listTtl, waitQ, patience, ready, cool, lapsed>>

\* if self.timeout is not None: expire(exists_key, self.timeout)
ExpireExists(c) ==
  /\ pc[c] \in {"fresh", "known"}
  /\ Goto(c, IF pc[c] = "fresh" THEN "init" ELSE "ask")
  /\ existsTtl' = IF HasTimeout /\ exists THEN Timeout ELSE existsTtl
  /\ UNCHANGED <<exists, batons, listTtl, waitQ, patience, ready, cool, lapsed>>

\* RPUSH lock_key v: Redis hands the element to the longest waiting client,
\* and only else does the list get it; a new list has no expiry.
RPush(c, v, step) ==
  \/ /\ waitQ = <<>>
     /\ batons' = Append(batons, v)
     /\ listTtl' = IF batons = <<>> THEN Persistent ELSE listTtl
     /\ Goto(c, step)
     /\ UNCHANGED <<waitQ, ready>>
  \/ /\ waitQ # <<>>
     /\ pc' = [pc EXCEPT ![c] = step, ![Head(waitQ)] = "ready"]
     /\ ready' = [ready EXCEPT ![Head(waitQ)] = v]
     /\ waitQ' = Tail(waitQ)
     /\ UNCHANGED <<batons, listTtl>>

\* if exists is None: rpush(lock_key, 0)
CreateBaton(c) ==
  /\ pc[c] = "init"
  /\ RPush(c, 0, "ask")
  /\ UNCHANGED <<exists, existsTtl, patience, cool, lapsed>>

\* blpop(lock_key, self.timeout) finds a baton.
Pop(c) ==
  /\ pc[c] = "ask"
  /\ batons # <<>>
  /\ batons' = Tail(batons)
  /\ listTtl' = IF Len(batons) = 1 THEN Persistent ELSE listTtl
  /\ ready' = [ready EXCEPT ![c] = Head(batons)]
  /\ Goto(c, "ready")
  /\ UNCHANGED <<exists, existsTtl, waitQ, patience, cool, lapsed>>

\* It finds none, and blocks.
Block(c) ==
  /\ pc[c] = "ask"
  /\ batons = <<>>
  /\ waitQ' = Append(waitQ, c)
  /\ patience' = [patience EXCEPT ![c] = Timeout]
  /\ Goto(c, "blocked")
  /\ UNCHANGED <<exists, existsTtl, batons, listTtl, ready, cool, lapsed>>

\* The client is no longer among those that wait.
LeaveQueue(c) ==
  \E i \in DOMAIN waitQ : waitQ[i] = c /\ waitQ' = RemoveAt(waitQ, i)

\* Faulty variant: after a timeout the client asks again.
PopAgain(c) ==
  /\ HasTimeout
  /\ pc[c] = "blocked"
  /\ patience[c] = 0
  /\ LeaveQueue(c)
  /\ Goto(c, "ask")
  /\ UNCHANGED <<exists, existsTtl, batons, listTtl, patience, ready, cool, lapsed>>

\* blpop returns None: `Timeout hit', ready_time = 0.
PopTimesOut(c) ==
  /\ HasTimeout
  /\ pc[c] = "blocked"
  /\ patience[c] = 0
  /\ LeaveQueue(c)
  /\ ready' = [ready EXCEPT ![c] = 0]
  /\ lapsed' = TRUE
  /\ Goto(c, "ready")
  /\ UNCHANGED <<exists, existsTtl, batons, listTtl, patience, cool>>

\* delay = ready_time - redis_time; sleep(delay) if it is positive; yield.
Open(c) ==
  /\ pc[c] = "ready"
  /\ ready[c] = 0
  /\ Goto(c, "body")
  /\ UNCHANGED <<exists, existsTtl, batons, listTtl, waitQ, patience, ready,
                 cool, lapsed>>

-----------------------------------------------------------------------------
(* Leaving it, normally or by an exception: the finally clause. *)

\* ready_time = redis_time + self._min_delay
Close(c) ==
  /\ pc[c] = "body"
  /\ Goto(c, "mark")
  /\ ready' = [ready EXCEPT ![c] = MinDelay]
  /\ cool' = MinDelay
  /\ UNCHANGED <<exists, existsTtl, batons, listTtl, waitQ, patience, lapsed>>

\* set(exists_key, 1, ex=self.timeout)
MarkExists(c) ==
  /\ pc[c] = "mark"
  /\ Goto(c, "push")
  /\ exists' = TRUE
  /\ existsTtl' = IF HasTimeout THEN Timeout ELSE Persistent
  /\ UNCHANGED <<batons, listTtl, waitQ, patience, ready, cool, lapsed>>

\* Faulty variant: the baton is pushed with a ready_time of 0.
PassReadyBaton(c) ==
  /\ pc[c] = "push"
  /\ RPush(c, 0, "extend")
  /\ UNCHANGED <<exists, existsTtl, patience, cool, lapsed>>

\* rpush(lock_key, str(ready_time))
PassBaton(c) ==
  /\ pc[c] = "push"
  /\ RPush(c, ready[c], "extend")
  /\ UNCHANGED <<exists, existsTtl, patience, cool, lapsed>>

\* if self.timeout is not None: expire(lock_key, self.timeout)
ExpireList(c) ==
  /\ pc[c] = "extend"
  /\ Goto(c, "done")
  /\ listTtl' = IF HasTimeout /\ batons # <<>> THEN Timeout ELSE listTtl
  /\ UNCHANGED <<exists, existsTtl, batons, waitQ, patience, ready, cool, lapsed>>

-----------------------------------------------------------------------------

\* The client dies, or a Redis command raises: no later step is taken.
\* Redis forgets a blocked client whose connection closed.
Die(c) ==
  /\ Faults
  /\ pc[c] \notin {"idle", "done", "dead"}
  /\ IF pc[c] = "blocked" THEN LeaveQueue(c) ELSE UNCHANGED waitQ
  /\ Goto(c, "dead")
  /\ UNCHANGED <<exists, existsTtl, batons, listTtl, patience, ready, cool, lapsed>>

Left(t) == IF t > 0 THEN t - 1 ELSE t

\* One unit of time: sleeps and expiries.
Tick ==
  /\ exists' = (exists /\ existsTtl # 1)
  /\ existsTtl' = IF existsTtl = 1 THEN Persistent ELSE Left(existsTtl)
  /\ lapsed' = (lapsed \/ (exists /\ existsTtl = 1))
  /\ batons' = IF listTtl = 1 THEN <<>>
               ELSE [i \in DOMAIN batons |-> Left(batons[i])]
  /\ listTtl' = IF listTtl = 1 THEN Persistent ELSE Left(listTtl)
  /\ patience' = [c \in Frames |-> Left(patience[c])]
  /\ ready' = [c \in Frames |-> Left(ready[c])]
  /\ cool' = Left(cool)
  /\ UNCHANGED <<pc, waitQ>>

Enter(c) ==
  ExpireExists(c) \/ CreateBaton(c) \/ Pop(c) \/ Block(c) \/ PopTimesOut(c) \/ Open(c)

Leave(c) == Close(c) \/ MarkExists(c) \/ PassBaton(c) \/ ExpireList(c)

Next ==
  \/ \E c \in Frames : GetSet(c) \/ Enter(c) \/ Leave(c) \/ Die(c)
  \/ Tick

Spec == Init /\ [][Next]_vars

\* Time passes, a client that runs goes on, and bodies end.
FairSpec ==
  /\ Spec
  /\ WF_vars(Tick)
  /\ \A c \in Frames : WF_vars(Enter(c)) /\ WF_vars(Leave(c))

-----------------------------------------------------------------------------

TypeOK ==
  /\ pc \in [Frames -> Steps]
  /\ exists \in BOOLEAN /\ lapsed \in BOOLEAN
  /\ existsTtl \in Nat \cup {Persistent}
  /\ listTtl \in Nat \cup {Persistent}
  /\ batons \in Seq(Nat)
  /\ waitQ \in Seq(Frames)
  /\ patience \in [Frames -> Nat]
  /\ ready \in [Frames -> Nat]
  /\ cool \in Nat

\* `... and locking during operation': no two frames run at once.
OneFrameAtATime ==
  \A c, d \in Frames : pc[c] = "body" /\ pc[d] = "body" => c = d

\* `... at specified rate': a frame opens only when MinDelay has passed since
\* the last one that ran has ended.
RateKept ==
  [][\A c \in Frames : pc[c] # "body" /\ pc'[c] = "body" => cool = 0]_vars

\* What the algorithm does promise: until a wait has timed out or the
\* `exists' key was let expire, both hold, whatever clients die and however
\* their commands interleave.
ExclusiveUntilLapse == ~lapsed => OneFrameAtATime

RateKeptUntilLapse ==
  [][\A c \in Frames :
       ~lapsed /\ pc[c] # "body" /\ pc'[c] = "body" => cool = 0]_vars

\* Every frame asked for opens and is over at last, or its client dies,
\* though any holder of the baton may die with it: that is what the timeout
\* is for.
EveryFrameEnds ==
  \A c \in Frames : pc[c] = "fresh" \/ pc[c] = "known" ~> pc[c] \in {"done", "dead"}
-----------------------------------------------------------------------------
(* The invariant the proofs use. *)

\* The frame has the baton, or is about to create it.
Carries(c) == pc[c] \in {"fresh", "init", "ready", "body", "mark", "push"}

OneBaton ==
  /\ \A c, d \in Frames : Carries(c) /\ Carries(d) => c = d
  /\ Len(batons) <= 1
  /\ batons # <<>> => \A c \in Frames : ~Carries(c)

\* The baton holds its next frame back for as long as the rate asks.
BatonHoldsBack ==
  /\ \A c \in Frames : pc[c] \in {"ready", "mark", "push"} => cool <= ready[c]
  /\ \A c \in Frames : pc[c] \in {"fresh", "init"} => cool = 0
  /\ batons # <<>> => cool <= Head(batons)

\* Nothing happened as long as the `exists' key was never set.
NothingBefore ==
  ~exists => /\ \A c \in Frames : pc[c] = "idle"
             /\ batons = <<>>
             /\ cool = 0

WaitersBlocked ==
  /\ \A i \in DOMAIN waitQ : pc[waitQ[i]] = "blocked"
  /\ \A i, j \in DOMAIN waitQ : waitQ[i] = waitQ[j] => i = j

NoLapseWithoutTimeout == ~HasTimeout => ~lapsed /\ existsTtl = Persistent

IInv ==
  /\ TypeOK
  /\ WaitersBlocked
  /\ NoLapseWithoutTimeout
  /\ ~lapsed => OneBaton /\ BatonHoldsBack /\ NothingBefore
=============================================================================
