----------------------------- MODULE RateLimiter -----------------------------
(***************************************************************************)
(* DistributedRateLimiter.wait of utils/lock.py, for one Redis key: a Lua   *)
(* script hands out time slots MinDelay apart, and each caller sleeps until *)
(* its slot.                                                               *)
(*                                                                         *)
(* The script does not read the clock: the caller reads it with TIME in a   *)
(* round trip before, so the time the script computes with is up to        *)
(* MaxStale old, and the caller sleeps for a wait that was due to start    *)
(* then.  Time is counted in units of 1/Res second, because EXPIRE takes   *)
(* whole seconds.                                                          *)
(***************************************************************************)
EXTENDS Integers

CONSTANTS
  Calls,     \* calls of wait()
  MinDelay,  \* _min_delay, in time units
  Res,       \* time units in a second
  MaxStale,  \* the longest time from TIME to the run of the script
  MaxTime    \* the clock stops here

ASSUME ConstantAssumption ==
  /\ MinDelay \in Nat \ {0} /\ Res \in Nat \ {0}
  /\ MaxStale \in Nat /\ MaxTime \in Nat

VARIABLES
  now,       \* the clock of Redis
  last,      \* the value of the key: the last slot handed out
  expireAt,  \* when the key expires; it does not exist from then on
  pc,        \* where each call is
  read,      \* redis_time, as the call read it
  slot,      \* the slot it got (next_call_time)
  due        \* when its sleep is over

vars == <<now, last, expireAt, pc, read, slot, due>>

Init ==
  /\ now = 0
  /\ last = 0
  /\ expireAt = 0
  /\ pc = [c \in Calls |-> "idle"]
  /\ read = [c \in Calls |-> 0]
  /\ slot = [c \in Calls |-> 0]
  /\ due = [c \in Calls |-> 0]

\* redis_time = self._client.time()
ReadTime(c) ==
  /\ pc[c] = "idle"
  /\ pc' = [pc EXCEPT ![c] = "read"]
  /\ read' = [read EXCEPT ![c] = now]
  /\ UNCHANGED <<now, last, expireAt, slot, due>>

\* redis.call('GET', KEYS[1]) finds the key.
Present == now < expireAt

\* Faulty variant: the delay is counted from the caller's own time.
SlotFromNow(t) ==
  IF Present /\ last + MinDelay > t THEN t + MinDelay ELSE t

\* next_call_time, for a caller whose current_time is t.
NextSlot(t) ==
  IF Present /\ last + MinDelay > t THEN last + MinDelay ELSE t

\* Faulty variant: the expiry leaves out the wait.
KeyLifeWithoutWait(wait) == ((MinDelay + Res - 1) \div Res) * Res

\* math.ceil(wait + min_delay), in whole seconds.
KeyLife(wait) == ((wait + MinDelay + Res - 1) \div Res) * Res

\* The script, which Redis runs atomically, and the start of time.sleep(delay),
\* as if its answer took no time.
RunScript(c) ==
  /\ pc[c] = "read"
  /\ LET next == NextSlot(read[c])
         wait == next - read[c]
     IN  /\ last' = next
         /\ expireAt' = now + KeyLife(wait)
         /\ slot' = [slot EXCEPT ![c] = next]
         /\ due' = [due EXCEPT ![c] = now + wait]
  /\ pc' = [pc EXCEPT ![c] = "sleep"]
  /\ UNCHANGED <<now, read>>

\* wait() returns.
Return(c) ==
  /\ pc[c] = "sleep"
  /\ now >= due[c]
  /\ pc' = [pc EXCEPT ![c] = "returned"]
  /\ UNCHANGED <<now, last, expireAt, read, slot, due>>

Tick ==
  /\ now < MaxTime
  /\ \A c \in Calls : pc[c] = "read" => now < read[c] + MaxStale
  /\ now' = now + 1
  /\ UNCHANGED <<last, expireAt, pc, read, slot, due>>

Next ==
  \/ \E c \in Calls : ReadTime(c) \/ RunScript(c) \/ Return(c)
  \/ Tick

Spec == Init /\ [][Next]_vars

-----------------------------------------------------------------------------

TypeOK ==
  /\ now \in Nat /\ last \in Nat /\ expireAt \in Nat
  /\ pc \in [Calls -> {"idle", "read", "sleep", "returned"}]
  /\ read \in [Calls -> Nat]
  /\ slot \in [Calls -> Nat]
  /\ due \in [Calls -> Nat]

Granted(c) == pc[c] \in {"sleep", "returned"}

Apart(s, t, d) == s + d <= t \/ t + d <= s

\* `Allows you to run some code at specified rate': no two calls are let
\* through less than MinDelay apart.  It needs MaxStale = 0.
RateKept ==
  \A c, d \in Calls : Granted(c) /\ Granted(d) /\ c # d => Apart(due[c], due[d], MinDelay)

\* What the limiter does promise: the time between two calls falls short of
\* MinDelay by no more than the age of one reading of the clock, whether the
\* key expired between them or not.
RateKeptButForStaleness ==
  \A c, d \in Calls :
    Granted(c) /\ Granted(d) /\ c # d => Apart(due[c], due[d], MinDelay - MaxStale)

\* The key expires only when the slot in it can hold nobody back any more,
\* so that losing it forgets nothing.
ExpiryForgetsNothing ==
  ~Present => \A c \in Calls : Granted(c) => slot[c] + MinDelay <= now

-----------------------------------------------------------------------------
(* The invariant the proofs use. *)

\* A slot that still holds others back is remembered.
SlotRemembered ==
  \A c \in Calls : Granted(c) =>
    \/ slot[c] + MinDelay <= now
    \/ slot[c] <= last /\ slot[c] + MinDelay <= expireAt

DueNearSlot ==
  \A c \in Calls : Granted(c) => slot[c] <= due[c] /\ due[c] <= slot[c] + MaxStale

ReadingFresh ==
  \A c \in Calls : pc[c] = "read" => read[c] <= now /\ now <= read[c] + MaxStale

IInv ==
  /\ TypeOK
  /\ ReadingFresh
  /\ DueNearSlot
  /\ SlotRemembered
  /\ RateKeptButForStaleness
=============================================================================
