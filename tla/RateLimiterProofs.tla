-------------------------- MODULE RateLimiterProofs --------------------------
(***************************************************************************)
(* How far DistributedRateLimiter keeps its rate, for any number of calls, *)
(* any MinDelay, any clock resolution and any staleness.                   *)
(***************************************************************************)
EXTENDS RateLimiter, TLAPS

\* The key lives at least until its slot, and the delay after it, are over.
LEMMA KeyLifeEnough ==
  ASSUME NEW w \in Nat
  PROVE  KeyLife(w) \in Nat /\ w + MinDelay <= KeyLife(w)
  <1> DEFINE x == w + MinDelay + Res - 1
             q == x \div Res
             r == x % Res
  <1>1. x \in Nat /\ Res \in Nat \ {0}
    BY ConstantAssumption
  <1>2. q \in Nat /\ x = q * Res + r /\ r <= Res - 1 /\ r >= 0 /\ r \in Int
    <2> HIDE DEF x
    <2> QED BY <1>1
  <1>3. KeyLife(w) = q * Res
    BY DEF KeyLife
  <1>4. q * Res \in Nat
    <2> HIDE DEF q
    <2> QED BY <1>1, <1>2
  <1>5. w + MinDelay \in Nat
    BY ConstantAssumption
  <1>6. q * Res = x - r
    <2> HIDE DEF x, q, r
    <2> QED BY <1>1, <1>2, <1>4
  <1>7. x - r >= w + MinDelay
    <2> HIDE DEF r
    <2> QED BY <1>1, <1>2, <1>5
  <1> QED
    BY <1>3, <1>4, <1>6, <1>7

\* The invariant holds when nobody has called yet.
LEMMA InitIInv == Init => IInv
  BY ConstantAssumption
     DEF Init, IInv, TypeOK, ReadingFresh, DueNearSlot, SlotRemembered,
         RateKeptButForStaleness, Granted

\* The script gives a slot MinDelay after the last one that is remembered.
LEMMA ScriptStep ==
  ASSUME IInv, NEW c \in Calls, RunScript(c)
  PROVE  IInv'
  <1> DEFINE next == NextSlot(read[c])
             wait == next - read[c]
  <1> USE ConstantAssumption
  <1>1. /\ now \in Nat /\ last \in Nat /\ expireAt \in Nat /\ read[c] \in Nat
        /\ read[c] <= now /\ now <= read[c] + MaxStale
        /\ pc[c] = "read"
    BY DEF IInv, TypeOK, ReadingFresh, RunScript
  <1>2. next \in Nat /\ wait \in Nat /\ (Present => last + MinDelay <= next)
    BY <1>1 DEF NextSlot
  <1>3. /\ last' = next
        /\ expireAt' = now + KeyLife(wait)
        /\ slot' = [slot EXCEPT ![c] = next]
        /\ due' = [due EXCEPT ![c] = now + wait]
        /\ pc' = [pc EXCEPT ![c] = "sleep"]
        /\ UNCHANGED <<now, read>>
    BY DEF RunScript
  <1> HIDE DEF next
  <1>4. KeyLife(wait) \in Nat /\ wait + MinDelay <= KeyLife(wait)
    BY <1>2, KeyLifeEnough
  <1>5. TypeOK'
    BY <1>1, <1>2, <1>3, <1>4 DEF IInv, TypeOK
  <1>6. ReadingFresh'
    BY <1>3 DEF IInv, TypeOK, ReadingFresh
  <1>7. slot'[c] = next /\ due'[c] = now + wait /\ Granted(c)'
    BY <1>3 DEF IInv, TypeOK, Granted
  <1>8. \A d \in Calls : d # c =>
          slot'[d] = slot[d] /\ due'[d] = due[d] /\ (Granted(d)' <=> Granted(d))
    BY <1>3 DEF IInv, TypeOK, Granted
  <1>9. DueNearSlot'
    BY <1>1, <1>2, <1>7, <1>8 DEF IInv, DueNearSlot
  <1>10. next + MinDelay <= expireAt'
    BY <1>1, <1>2, <1>3, <1>4
  <1>11. ASSUME NEW d \in Calls, d # c, Granted(d)
         PROVE  \/ slot[d] + MinDelay <= now
                \/ slot[d] + MinDelay <= next
    <2>1. slot[d] \in Nat
      BY DEF IInv, TypeOK
    <2> QED
      BY <1>1, <1>2, <1>11, <2>1 DEF IInv, SlotRemembered, Present
  <1>12. SlotRemembered'
    <2>1. ASSUME NEW d \in Calls, Granted(d)'
          PROVE  \/ slot'[d] + MinDelay <= now'
                 \/ slot'[d] <= last' /\ slot'[d] + MinDelay <= expireAt'
      <3>1. CASE d = c
        BY <1>2, <1>3, <1>7, <1>10, <3>1
      <3>2. CASE d # c
        <4>1. slot[d] \in Nat /\ expireAt' \in Nat
          BY <1>5 DEF IInv, TypeOK
        <4> QED
          BY <1>2, <1>3, <1>8, <1>10, <1>11, <2>1, <3>2, <4>1
      <3> QED
        BY <3>1, <3>2
    <2> QED
      BY <2>1 DEF SlotRemembered
  <1>13. ASSUME NEW d \in Calls, d # c, Granted(d)
         PROVE  due[d] + (MinDelay - MaxStale) <= now + wait
    <2>1. slot[d] \in Nat /\ due[d] \in Nat /\ due[d] <= slot[d] + MaxStale
      BY <1>13 DEF IInv, TypeOK, DueNearSlot
    <2> QED
      BY <1>1, <1>2, <1>11, <1>13, <2>1
  <1>14. RateKeptButForStaleness'
    BY <1>7, <1>8, <1>13 DEF IInv, RateKeptButForStaleness, Apart
  <1> QED
    BY <1>5, <1>6, <1>9, <1>12, <1>14 DEF IInv

\* Reading the clock, sleeping and running do not touch slots.
LEMMA OtherSteps ==
  ASSUME IInv, NEW c \in Calls, ReadTime(c) \/ Return(c)
  PROVE  IInv'
  <1>1. TypeOK'
    BY DEF IInv, TypeOK, ReadTime, Return
  <1>2. \A d \in Calls : Granted(d)' <=> Granted(d)
    BY DEF IInv, TypeOK, Granted, ReadTime, Return
  <1>3. UNCHANGED <<now, last, expireAt, slot, due>>
    BY DEF ReadTime, Return
  <1>4. ReadingFresh'
    BY ConstantAssumption DEF IInv, TypeOK, ReadingFresh, ReadTime, Return
  <1>5. DueNearSlot' /\ SlotRemembered'
    BY <1>2, <1>3 DEF IInv, DueNearSlot, SlotRemembered
  <1>6. RateKeptButForStaleness'
    BY <1>2, <1>3 DEF IInv, RateKeptButForStaleness
  <1> QED
    BY <1>1, <1>4, <1>5, <1>6 DEF IInv

\* The key is gone only when its slot and the delay after it are over.
LEMMA TickStep ==
  ASSUME IInv, Tick
  PROVE  IInv'
  <1> USE ConstantAssumption
  <1>1. TypeOK' /\ ReadingFresh'
    BY DEF IInv, TypeOK, ReadingFresh, Tick
  <1>2. DueNearSlot' /\ RateKeptButForStaleness'
    BY DEF IInv, DueNearSlot, RateKeptButForStaleness, Granted, Tick
  <1>3. SlotRemembered'
    BY DEF IInv, TypeOK, SlotRemembered, Granted, Tick
  <1> QED
    BY <1>1, <1>2, <1>3 DEF IInv

\* Every step keeps the invariant.
LEMMA NextIInv == IInv /\ [Next]_vars => IInv'
  <1> SUFFICES ASSUME IInv, [Next]_vars PROVE IInv'
    OBVIOUS
  <1>1. CASE UNCHANGED vars
    BY <1>1 DEF vars, IInv, TypeOK, ReadingFresh, DueNearSlot, SlotRemembered,
                RateKeptButForStaleness, Granted
  <1> QED
    BY <1>1, ScriptStep, OtherSteps, TickStep DEF Next

\* The invariant of DistributedRateLimiter: the key remembers the last slot as
\* long as that may matter, and slots are given in order.
THEOREM Invariance == Spec => []IInv
  BY InitIInv, NextIInv, PTL DEF Spec

\* Two calls are never closer than MinDelay less one staleness.
THEOREM AlmostAtRate == Spec => []RateKeptButForStaleness
  <1>1. IInv => RateKeptButForStaleness
    BY DEF IInv
  <1> QED
    BY <1>1, Invariance, PTL

\* If the clock reading were never stale, the rate would be exact.
THEOREM AtRateIfFresh ==
  ASSUME MaxStale = 0
  PROVE  Spec => []RateKept
  <1>1. IInv => RateKept
    BY ConstantAssumption DEF IInv, RateKeptButForStaleness, RateKept
  <1> QED
    BY <1>1, Invariance, PTL

\* The key never expires while its slot holds somebody back.
THEOREM ExpiryIsHarmless == Spec => []ExpiryForgetsNothing
  <1>1. IInv => ExpiryForgetsNothing
    <2> SUFFICES ASSUME IInv, ~Present, NEW c \in Calls, Granted(c)
                 PROVE  slot[c] + MinDelay <= now
      BY DEF ExpiryForgetsNothing
    <2>1. slot[c] \in Nat /\ now \in Nat /\ expireAt \in Nat
      BY DEF IInv, TypeOK
    <2> QED
      BY <2>1, ConstantAssumption DEF IInv, SlotRemembered, Present
  <1> QED
    BY <1>1, Invariance, PTL
=============================================================================
