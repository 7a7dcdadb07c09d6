----------------------------- MODULE DjangoProofs -----------------------------
(***************************************************************************)
(* What utils/django promises, with chunks() of utils under it:            *)
(* the view sets, the job that saves objects, and migrate_predeploy, each  *)
(* for every value of its constants.                                       *)
(*                                                                         *)
(* The view sets: a request on its way, and a redirect that is remembered, *)
(* is of New or of an object that is or was there; where keys are fixed,   *)
(* whoever knows an object's key knows the one that it has or had; and a   *)
(* request that has read an object has its fixed fields as they are, since *)
(* no write of another request changes them.                               *)
(*                                                                         *)
(* The job: an object that the call has been given is in a list of its     *)
(* model until it is saved or taken for a row that is not there, or a      *)
(* flush fails; what has a row has a pk, so that a list to create gets no  *)
(* object with one, and has one only by a commit not heard of.             *)
(*                                                                         *)
(* The command: its plan has each migration once, after those it needs;    *)
(* what is applied is in the plan up to the last that is not for later,    *)
(* and all of that has been looked at.                                     *)
(***************************************************************************)
EXTENDS Upsert, Batches, MigratePredeploy,
        SequenceTheorems, FiniteSetTheorems, WellFoundedInduction, TLAPS

(* Numbers and sequences. *)

\* The least of the numbers that have a property has it, and no number below.
LEMMA LeastNat ==
  ASSUME NEW S \in SUBSET Nat, S # {}
  PROVE  \E m \in S : \A k \in S : m <= k
<1> DEFINE R == OpToRel(<, Nat)
<1>1. IsWellFoundedOn(R, Nat)
  BY NatLessThanWellFounded
<1>2. PICK x \in S : \A y \in S : <<y, x>> \notin R
  <2> HIDE DEF R
  <2> QED
    BY <1>1, WFMin
<1>3. ASSUME NEW y \in S PROVE x <= y
  <2>1. ~(y < x)
    BY <1>2, <1>3 DEF OpToRel
  <2> QED
    BY <2>1
<1> QED
  BY <1>3

\* The greatest of the numbers up to n that have a property.
LEMMA GreatestNat ==
  ASSUME NEW n \in Nat, NEW S \in SUBSET (0 .. n), S # {}
  PROVE  \E m \in S : \A k \in S : k <= m
<1> DEFINE B == {b \in Nat : \A k \in S : k <= b}
<1>1. n \in B
  OBVIOUS
<1>2. PICK b \in B : \A c \in B : b <= c
  BY <1>1, LeastNat
<1>3. CASE b \in S
  BY <1>2, <1>3
<1>4. CASE b \notin S
  <2>1. \A k \in S : k <= b - 1
    BY <1>2, <1>4
  <2>2. b - 1 \in Nat
    <3>1. PICK k \in S : TRUE
      OBVIOUS
    <3> QED
      BY <2>1, <3>1
  <2>3. b - 1 \in B
    BY <2>1, <2>2
  <2> QED
    BY <1>2, <2>2, <2>3
<1> QED
  BY <1>3, <1>4

\* FlattenSeq() is what comes of one concatenation after the other.
LEMMA FlattenIs ==
  ASSUME NEW T, NEW N \in Nat, NEW ss \in [1 .. N -> Seq(T)]
  PROVE  \E g \in [0 .. N -> Seq(T)] :
           /\ g[0] = <<>> /\ \A i \in 1 .. N : g[i] = g[i - 1] \o ss[i]
           /\ FlattenSeq(ss) = g[N]
<1> DEFINE Upto(k, g) == g[0] = <<>> /\ \A i \in 1 .. k : g[i] = g[i - 1] \o ss[i]
           Good(k) == \E g \in [0 .. k -> Seq(T)] : Upto(k, g)
           Bad == {k \in 0 .. N : ~Good(k)}
<1>1. Good(0)
  <2> DEFINE g == [i \in 0 .. 0 |-> <<>>]
  <2>1. g \in [0 .. 0 -> Seq(T)] /\ g[0] = <<>>
    OBVIOUS
  <2>2. 1 .. 0 = {}
    OBVIOUS
  <2> HIDE DEF g
  <2> QED
    BY <2>1, <2>2
<1>2. ASSUME NEW k \in 1 .. N, Good(k - 1) PROVE Good(k)
  <2>1. PICK h \in [0 .. k - 1 -> Seq(T)] : Upto(k - 1, h)
    BY <1>2
  <2> DEFINE g == [i \in 0 .. k |-> IF i = k THEN h[k - 1] \o ss[k] ELSE h[i]]
  <2>2. h[k - 1] \o ss[k] \in Seq(T)
    BY ConcatProperties
  <2>3. g \in [0 .. k -> Seq(T)]
    BY <2>2
  <2>4. \A i \in 0 .. k - 1 : g[i] = h[i]
    OBVIOUS
  <2>5. g[k] = h[k - 1] \o ss[k]
    OBVIOUS
  <2> HIDE DEF g
  <2>6. g[0] = <<>>
    BY <2>1, <2>4
  <2>7. ASSUME NEW i \in 1 .. k PROVE g[i] = g[i - 1] \o ss[i]
    <3>1. CASE i = k
      <4>1. g[k - 1] = h[k - 1]
        BY <2>4
      <4>2. g[k] = g[k - 1] \o ss[k]
        BY <2>5, <4>1
      <4> QED
        BY <3>1, <4>2
    <3>2. CASE i # k
      <4>1. i \in 1 .. k - 1 /\ i \in 0 .. k - 1 /\ i - 1 \in 0 .. k - 1
        BY <3>2
      <4>2. h[i] = h[i - 1] \o ss[i]
        BY <2>1, <4>1
      <4>3. g[i] = h[i] /\ g[i - 1] = h[i - 1]
        BY <2>4, <4>1
      <4> QED
        BY <4>2, <4>3
    <3> QED
      BY <3>1, <3>2
  <2> QED
    BY <2>3, <2>6, <2>7
<1> HIDE DEF Good
<1>3. Good(N)
  <2> SUFFICES ASSUME ~Good(N) PROVE FALSE
    OBVIOUS
  <2>1. Bad \in SUBSET Nat /\ Bad # {}
    OBVIOUS
  <2>2. PICK k \in Bad : \A j \in Bad : k <= j
    BY <2>1, LeastNat
  <2>3. k # 0
    BY <1>1
  <2>4. k - 1 \in 0 .. N /\ k - 1 \notin Bad
    BY <2>2, <2>3
  <2>5. Good(k - 1)
    BY <2>4
  <2> QED
    BY <1>2, <2>3, <2>5
<1>4. PICK g \in [0 .. N -> Seq(T)] : Upto(N, g)
  BY <1>3 DEF Good
<1>5. Len(ss) = N
  OBVIOUS
<1>6. CASE N = 0
  <2>1. FlattenSeq(ss) = ss
    BY <1>5, <1>6 DEF FlattenSeq
  <2>2. ss = <<>>
    BY <1>6
  <2> QED
    BY <1>4, <1>6, <2>1, <2>2
<1>7. CASE N # 0
  <2> DEFINE G == [i \in 1 .. N |-> g[i]]
             f == CHOOSE e : e = [i \in 1 .. N |-> IF i = 1 THEN ss[i] ELSE e[i - 1] \o ss[i]]
  <2>1. FlattenSeq(ss) = f[N]
    BY <1>5, <1>7 DEF FlattenSeq
  <2>2. ASSUME NEW i \in 1 .. N PROVE g[i] = IF i = 1 THEN ss[i] ELSE G[i - 1] \o ss[i]
    <3>1. CASE i = 1
      <4>1. g[1] = g[0] \o ss[1] /\ g[0] = <<>>
        <5>1. 1 \in 1 .. N /\ 1 - 1 = 0
          BY <3>1
        <5> QED
          BY <1>4, <5>1
      <4>2. ss[1] \in Seq(T)
        BY <3>1
      <4> QED
        BY <3>1, <4>1, <4>2, ConcatEmptySeq
    <3>2. CASE i # 1
      <4>1. G[i - 1] = g[i - 1]
        BY <3>2
      <4>2. g[i] = g[i - 1] \o ss[i]
        BY <1>4
      <4> QED
        BY <3>2, <4>1, <4>2
    <3> QED
      BY <3>1, <3>2
  <2>3. G = [i \in 1 .. N |-> IF i = 1 THEN ss[i] ELSE G[i - 1] \o ss[i]]
    <3>1. \A i \in 1 .. N : G[i] = g[i]
      OBVIOUS
    <3> QED
      BY <2>2
  <2>4. f = [i \in 1 .. N |-> IF i = 1 THEN ss[i] ELSE f[i - 1] \o ss[i]]
    <3> HIDE DEF G
    <3> QED
      BY <2>3
  <2>5. ASSUME NEW i \in 1 .. N, f[i] # G[i] PROVE FALSE
    <3> HIDE DEF f, G
    <3> DEFINE Wrong == {j \in 1 .. N : f[j] # G[j]}
    <3>1. Wrong \in SUBSET Nat /\ Wrong # {}
      <4>1. i \in Wrong
        BY <2>5
      <4>2. Wrong \in SUBSET Nat
        OBVIOUS
      <4> QED
        BY <4>1, <4>2
    <3>2. PICK m \in Wrong : \A j \in Wrong : m <= j
      BY <3>1, LeastNat
    <3>3. m \in 1 .. N /\ f[m] # G[m] /\ m # 1
      BY <2>3, <2>4
    <3>4. m - 1 \in 1 .. N /\ m - 1 \notin Wrong
      BY <3>2, <3>3
    <3>5. f[m] = f[m - 1] \o ss[m] /\ G[m] = G[m - 1] \o ss[m]
      BY <2>3, <2>4, <3>3
    <3> QED
      BY <3>3, <3>4, <3>5
  <2>6. N \in 1 .. N
    BY <1>7
  <2>7. f[N] = G[N]
    <3> HIDE DEF f, G
    <3> QED
      BY <2>5, <2>6
  <2> HIDE DEF f
  <2> QED
    BY <1>4, <2>1, <2>6, <2>7
<1> QED
  BY <1>6, <1>7

-----------------------------------------------------------------------------
(* The view sets. *)

\* Records of the two fields are functions on them.
LEMMA FieldsRecord ==
  ASSUME NEW K, NEW D, NEW o, o = [f \in Fields |-> o[f]], o.key \in K, o.data \in D
  PROVE  o \in [key : K, data : D]
BY DEF Fields

\* What every class gives.
LEMMA ClassIs ==
  ASSUME TypeOK
  PROVE  /\ cls.permanent \in BOOLEAN /\ cls.unique \in BOOLEAN
         /\ cls.writeOnce \subseteq Fields
         /\ "key" \in cls.writable \union cls.declared
BY ConstantAssumption DEF TypeOK

\* A set of numbers that is not empty has a least one.
LEMMA MinIs ==
  ASSUME NEW S \in SUBSET Nat, S # {}
  PROVE  Min(S) \in S
BY LeastNat DEF Min

\* The redirect finds an object with the key, or there is none.
LEMMA PkIs ==
  ASSUME TypeOK, NEW k \in Keys
  PROVE  /\ Present \subseteq 1 .. nextPk - 1
         /\ IF WithKey(k) = {} THEN PkFromLookup(k) = New
            ELSE /\ PkFromLookup(k) \in Present /\ PkFromLookup(k) # New
                 /\ objects[PkFromLookup(k)].key = k
<1>1. Present \subseteq 1 .. nextPk - 1
  BY ConstantAssumption DEF Present, TypeOK
<1>2. ASSUME WithKey(k) # {}
      PROVE  PkFromLookup(k) \in WithKey(k)
  BY <1>2, MinIs, ConstantAssumption DEF WithKey, Present, PkFromLookup
<1> QED
  BY <1>1, <1>2, ConstantAssumption DEF WithKey, PkFromLookup, Present, New, TypeOK

\* What a request that has read its instance is.
LEMMA LoadedIs ==
  ASSUME IInv, NEW c \in Clients, Loaded(c)
  PROVE  /\ client[c] \in Requests
         /\ client[c].was = [f \in Fields |-> client[c].was[f]]
         /\ client[c].pk = New => client[c].was = Blank
         /\ client[c].pk # New => client[c].was \in Object
<1>1. client[c] \in Requests
  BY DEF IInv, TypeOK, Loaded, Busy
<1>2. client[c].pk = New => client[c].was = Blank
  BY DEF IInv, ReadInv
<1>3. client[c].pk # New => client[c].was \in Object
  BY DEF IInv, ReadInv
<1>4. \A o \in Object : o = [f \in Fields |-> o[f]]
  BY DEF Object, Fields
<1>5. Blank = [f \in Fields |-> Blank[f]]
  BY DEF Blank
<1> QED
  BY <1>1, <1>2, <1>3, <1>4, <1>5

\* What is written: an object, that has of fixed fields what was read.
LEMMA ChangedIs ==
  ASSUME IInv, NEW c \in Clients, Loaded(c), client[c].method # "DELETE", ~Invalid(client[c])
  PROVE  LET r == client[c] IN
         /\ Changed(r) \in Object
         /\ r.pk # New => \A f \in cls.writeOnce : Changed(r)[f] = r.was[f]
         /\ IsPut(r) => Changed(r).key =
              IF r.body.key # None /\ Writable("key", r) THEN r.body.key
              ELSE IF Writable("key", r) THEN r.lookup ELSE r.was.key
         /\ r.body.data # None /\ Writable("data", r) => Changed(r).data = r.body.data
<1> DEFINE r == client[c]
<1>1. /\ r \in Requests /\ r.was = [f \in Fields |-> r.was[f]]
      /\ r.pk = New => r.was = Blank
      /\ r.pk # New => r.was \in Object
  BY LoadedIs
<1>2. /\ r.method \in {"PUT", "PATCH", "POST"}
      /\ r.method = "POST" => r.pk = New
      /\ r.lookup = None => r.method = "POST"
      /\ r.lookup \in Keys \union {None}
      /\ r.body.key \in Keys \union {None} /\ r.body.data \in Values \union {None}
  BY <1>1 DEF IInv, Targets, ReadInv, Loaded, Busy, Requests, Body
<1>3. IsCreate(r) <=> r.pk = New
  BY <1>2, ConstantAssumption DEF IsCreate, ContextAction, IsPut
<1>4. \A f \in Fields : ReadOnly(f, r) <=> ~Writable(f, r)
  BY <1>3 DEF ReadOnly, NotWritable, WrittenOnce, Writable
<1>5. /\ Data(r).key = IF IsPut(r) /\ r.body.key = None THEN r.lookup ELSE r.body.key
      /\ Data(r).data = r.body.data
  BY DEF Data, Fields
<1>6. \A f \in Fields : Changed(r)[f] = IF ReadOnly(f, r) \/ Data(r)[f] = None THEN r.was[f] ELSE Data(r)[f]
  BY DEF Changed
<1>7. /\ Changed(r).key = IF ReadOnly("key", r) \/ Data(r).key = None THEN r.was.key ELSE Data(r).key
      /\ Changed(r).data = IF ReadOnly("data", r) \/ Data(r).data = None THEN r.was.data ELSE Data(r).data
  BY <1>6 DEF Fields
<1>8. r.pk # New => \A f \in cls.writeOnce : Changed(r)[f] = r.was[f]
  BY <1>4, <1>6, ClassIs DEF Writable, IInv
<1>9. IsPut(r) => Data(r).key # None /\ Data(r).key \in Keys
  BY <1>2, <1>5, ConstantAssumption DEF IsPut
<1>10. IsPut(r) => Changed(r).key =
              IF r.body.key # None /\ Writable("key", r) THEN r.body.key
              ELSE IF Writable("key", r) THEN r.lookup ELSE r.was.key
  <2>1. ReadOnly("key", r) <=> ~Writable("key", r)
    BY <1>4 DEF Fields
  <2>2. CASE Writable("key", r)
    BY <1>5, <1>7, <1>9, <2>1, <2>2
  <2>3. CASE ~Writable("key", r)
    BY <1>7, <2>1, <2>3
  <2> QED
    BY <2>2, <2>3
<1>11. r.body.data # None /\ Writable("data", r) => Changed(r).data = r.body.data
  BY <1>4, <1>5, <1>7 DEF Fields
<1>12. Changed(r).key \in Keys
  <2>1. CASE r.pk # New
    BY <1>1, <1>2, <1>5, <1>7, <2>1 DEF Object
  <2>2. CASE r.pk = New
    <3>1. ~ReadOnly("key", r)
      BY <1>4, <2>2, ClassIs DEF IInv, Writable, Fields
    <3>2. Data(r).key # None
      BY <2>2, <3>1 DEF Invalid, Partial, Fields
    <3> QED
      BY <1>2, <1>5, <1>7, <3>1, <3>2
  <2> QED
    BY <2>1, <2>2
<1>13. Changed(r).data \in Values \union {Default}
  <2>1. CASE r.pk # New
    BY <1>1, <1>2, <1>5, <1>7, <2>1 DEF Object
  <2>2. CASE r.pk = New
    <3>1. CASE ReadOnly("data", r)
      <4>1. "data" \notin cls.writable \union cls.declared
        BY <1>4, <2>2, <3>1 DEF Writable, Fields
      <4> QED
        BY <1>1, <1>7, <2>2, <3>1, <4>1 DEF Blank, Fields
    <3>2. CASE ~ReadOnly("data", r)
      <4>1. Data(r).data # None
        BY <2>2, <3>2 DEF Invalid, Partial, Fields
      <4> QED
        BY <1>2, <1>5, <1>7, <3>2, <4>1
    <3> QED
      BY <3>1, <3>2
  <2> QED
    BY <2>1, <2>2
<1>14. Changed(r) = [f \in Fields |-> Changed(r)[f]]
  BY DEF Changed
<1>15. Changed(r) \in Object
  BY <1>12, <1>13, <1>14, FieldsRecord DEF Object
<1> QED
  BY <1>8, <1>10, <1>11, <1>15

-----------------------------------------------------------------------------
(* The steps. *)

\* What Next notes of each step.
Notes ==
  missing' = [c \in Clients |-> KeyMissing(c)' \/ (missing[c] /\ client'[c] # Idle)]

\* Somebody knows, or knew, that the object pk has the key k; or it has.
Known(pk, k) ==
  \/ \E z \in Claims : z.pk = pk /\ z.lookup = k
  \/ pk \in Present /\ objects[pk].key = k

\* A client sends the request x, and remembers m from now on.
Sends(c, x, m) ==
  /\ client[c] = Idle
  /\ x \in Requests /\ m \in Memories \union {Idle}
  /\ client' = [client EXCEPT ![c] = x]
  /\ memory' = [memory EXCEPT ![c] = m]
  /\ UNCHANGED <<cls, objects, nextPk>>
  /\ x.step = "sent" /\ x.pk < nextPk
  /\ x.method \in {"GET", "DELETE"} => x.pk # New
  /\ x.method = "POST" => x.pk = New
  /\ x.lookup = None => x.method = "POST"
  /\ IsPut(x) /\ x.pk = New => WithKey(x.lookup) = {}
  /\ x.pk # New => Known(x.pk, x.lookup)
  /\ m # Idle => m.pk < nextPk /\ Known(m.pk, m.lookup)

\* The record that Send makes.
LEMMA SendIs ==
  ASSUME NEW c \in Clients, NEW method, NEW lookup, NEW body, NEW pk,
         Send(c, method, lookup, body, pk),
         method \in {"GET", "PUT", "PATCH", "DELETE", "POST"},
         lookup \in Keys \union {None}, body \in Body, pk \in 0 .. MaxPk
  PROVE  \E x \in Requests :
           /\ client' = [client EXCEPT ![c] = x]
           /\ x.step = "sent" /\ x.method = method /\ x.lookup = lookup /\ x.pk = pk
<1> DEFINE x == [step |-> "sent", method |-> method, lookup |-> lookup, body |-> body,
                 pk |-> pk, was |-> None]
<1>1. x \in Requests
  BY DEF Requests
<1>2. client' = [client EXCEPT ![c] = x]
  BY DEF Send
<1>3. x.step = "sent" /\ x.method = method /\ x.lookup = lookup /\ x.pk = pk
  OBVIOUS
<1> QED
  BY <1>1, <1>2, <1>3

\* It is redirected ...
LEMMA RedirectSends ==
  ASSUME IInv, NEW c \in Clients, NEW method \in {"GET", "PUT", "PATCH", "DELETE"},
         NEW lookup \in Keys, NEW body \in Body, Redirect(c, method, lookup, body)
  PROVE  \E x, m : Sends(c, x, m)
<1> DEFINE pk == PkFromLookup(lookup)
<1>1. TypeOK
  BY DEF IInv
<1>2. pk \in 0 .. MaxPk /\ pk < nextPk
  BY <1>1, PkIs, ConstantAssumption DEF New, TypeOK
<1>3. pk # New => pk \in Present /\ objects[pk].key = lookup
  BY <1>1, PkIs
<1>4. pk = New => WithKey(lookup) = {}
  BY <1>1, PkIs
<1>5. /\ method \in {"GET", "DELETE"} => pk # New
      /\ \/ RedirectTo(c, method, lookup, body, pk, cls.permanent) /\ pk # New
         \/ RedirectTo(c, method, lookup, body, pk, FALSE)
      /\ client[c] = Idle /\ UNCHANGED <<cls, objects, nextPk>>
  BY DEF Redirect
<1>6. /\ Send(c, method, lookup, body, pk)
      /\ \/ memory' = memory
         \/ memory' = [memory EXCEPT ![c] = [method |-> method, lookup |-> lookup, pk |-> pk]] /\ pk # New
  BY <1>1, <1>5, ClassIs DEF RedirectTo
<1>7. PICK x \in Requests :
        /\ client' = [client EXCEPT ![c] = x]
        /\ x.step = "sent" /\ x.method = method /\ x.lookup = lookup /\ x.pk = pk
  BY <1>2, <1>6, SendIs
<1>8. lookup # None
  BY ConstantAssumption
<1> DEFINE m0 == [method |-> method, lookup |-> lookup, pk |-> pk]
<1>9. CASE memory' = memory
  <2>1. memory' = [memory EXCEPT ![c] = memory[c]] /\ memory[c] \in Memories \union {Idle}
    BY <1>1, <1>9 DEF TypeOK
  <2>2. memory[c] # Idle => memory[c].pk < nextPk /\ Known(memory[c].pk, memory[c].lookup)
    BY <1>1 DEF IInv, Targets, Known, Claims, Range, TypeOK, Memories, New
  <2>3. Sends(c, x, memory[c])
    BY <1>2, <1>3, <1>4, <1>5, <1>7, <1>8, <2>1, <2>2 DEF Sends, Known
  <2> QED
    BY <2>3
<1>10. CASE memory' = [memory EXCEPT ![c] = m0] /\ pk # New
  <2>1. m0 \in Memories
    BY <1>2, <1>10 DEF Memories, New
  <2>2. Sends(c, x, m0)
    BY <1>2, <1>3, <1>4, <1>5, <1>7, <1>8, <1>10, <2>1 DEF Sends, Known
  <2> QED
    BY <2>2
<1> QED
  BY <1>6, <1>9, <1>10

\* ... or remembers where it was redirected to ...
LEMMA RememberedSends ==
  ASSUME IInv, NEW c \in Clients, NEW body \in Body, Remembered(c, body)
  PROVE  \E x, m : Sends(c, x, m)
<1> DEFINE m == memory[c]
<1>1. /\ client[c] = Idle /\ UNCHANGED <<cls, objects, nextPk, memory>>
      /\ Send(c, m.method, m.lookup, body, m.pk)
  BY DEF Remembered
<1>2. m \in Memories /\ m # Idle
  BY DEF IInv, TypeOK, Remembered
<1>3. /\ m.method \in {"GET", "PUT", "PATCH", "DELETE"} /\ m.lookup \in Keys
      /\ m.pk \in 1 .. MaxPk /\ m.pk < nextPk
  BY <1>2 DEF Memories, IInv, Targets
<1>4. PICK x \in Requests :
        /\ client' = [client EXCEPT ![c] = x]
        /\ x.step = "sent" /\ x.method = m.method /\ x.lookup = m.lookup /\ x.pk = m.pk
  BY <1>1, <1>3, SendIs
<1>5. m.pk # New /\ m.lookup # None
  BY <1>3, ConstantAssumption DEF New
<1>6. m \in Claims
  BY <1>2, <1>5 DEF Claims, Range, IInv, TypeOK
<1>7. memory' = [memory EXCEPT ![c] = m]
  BY <1>1 DEF IInv, TypeOK
<1>8. Known(m.pk, m.lookup)
  BY <1>6 DEF Known
<1>9. Sends(c, x, m)
  BY <1>1, <1>2, <1>3, <1>4, <1>5, <1>7, <1>8 DEF Sends
<1> QED
  BY <1>9

\* ... or posts to the list.
LEMMA PostSends ==
  ASSUME IInv, NEW c \in Clients, NEW body \in Body, Post(c, body)
  PROVE  \E x, m : Sends(c, x, m)
<1>1. /\ client[c] = Idle /\ UNCHANGED <<cls, objects, nextPk, memory>>
      /\ Send(c, "POST", body.key, body, New)
  BY DEF Post
<1>2. body.key \in Keys \union {None} /\ New \in 0 .. MaxPk /\ New < nextPk
  BY ConstantAssumption DEF Body, New, IInv, TypeOK
<1>3. PICK x \in Requests :
        /\ client' = [client EXCEPT ![c] = x]
        /\ x.step = "sent" /\ x.method = "POST" /\ x.pk = New
  BY <1>1, <1>2, SendIs
<1>4. memory' = [memory EXCEPT ![c] = memory[c]] /\ memory[c] \in Memories \union {Idle}
  BY <1>1 DEF IInv, TypeOK
<1>5. memory[c] # Idle => memory[c].pk < nextPk /\ Known(memory[c].pk, memory[c].lookup)
  BY DEF IInv, Targets, Known, Claims, Range, TypeOK, Memories, New
<1>6. Sends(c, x, memory[c])
  BY <1>1, <1>2, <1>3, <1>4, <1>5 DEF Sends, IsPut
<1> QED
  BY <1>6

-----------------------------------------------------------------------------
(* They keep the invariant. *)

\* Whatever is claimed, or written, is known already: then it agrees.
LEMMA ClaimsAgree ==
  ASSUME KeyInv, "key" \in cls.writeOnce,
         \A y \in Claims' : Known(y.pk, y.lookup),
         \A pk \in Present' : Known(pk, objects'[pk].key) \/ \A y \in Claims' : y.pk # pk
  PROVE  /\ \A x \in Claims' : x.pk \in Present' => objects'[x.pk].key = x.lookup
         /\ \A x, y \in Claims' : x.pk = y.pk => x.lookup = y.lookup
<1>1. ASSUME NEW pk, NEW k, NEW l, Known(pk, k), Known(pk, l)
      PROVE  k = l
  BY <1>1 DEF KeyInv, Known
<1> QED
  BY <1>1

\* A step that changes one client's request and what it remembers.
LEMMA ClaimsOf ==
  ASSUME TypeOK, NEW c \in Clients, NEW x, NEW m,
         client' = [client EXCEPT ![c] = x], memory' = [memory EXCEPT ![c] = m]
  PROVE  \A y \in Claims' : y \in Claims \/ (y \in {x, m} /\ y # Idle /\ y.pk # New)
BY DEF Claims, Range, TypeOK

\* What requests of New have missed stays noted.
LEMMA MissedStays ==
  ASSUME TypeOK, Targets, Notes, NEW d \in Clients, Busy(d)',
         \/ Busy(d) /\ IsPut(client[d]) /\ client[d].pk = New
         \/ WithKey(client[d].lookup)' = {}
  PROVE  missing'[d]
<1>1. missing'[d] = (KeyMissing(d)' \/ (missing[d] /\ client'[d] # Idle))
  BY DEF Notes
<1>2. CASE WithKey(client[d].lookup)' = {}
  BY <1>1, <1>2 DEF KeyMissing, Busy
<1>3. CASE Busy(d) /\ IsPut(client[d]) /\ client[d].pk = New
  BY <1>1, <1>3 DEF Targets, Busy
<1> QED
  BY <1>2, <1>3

\* The types of what is noted.
LEMMA NotesType ==
  ASSUME TypeOK, Notes
  PROVE  missing' \in [Clients -> BOOLEAN]
<1>1. \A c \in Clients : (KeyMissing(c)' \/ (missing[c] /\ client'[c] # Idle)) \in BOOLEAN
  BY DEF KeyMissing, TypeOK
<1> QED
  BY <1>1 DEF Notes

\* A request is sent.
LEMMA SendsInv ==
  ASSUME IInv, Notes, NEW c \in Clients, NEW x, NEW m, Sends(c, x, m)
  PROVE  IInv'
<1>1. TypeOK /\ Targets /\ ReadInv /\ FixedInv /\ KeyInv
  BY DEF IInv
<1>2. /\ client'[c] = x /\ \A d \in Clients \ {c} : client'[d] = client[d]
      /\ memory'[c] = m /\ \A d \in Clients \ {c} : memory'[d] = memory[d]
      /\ objects' = objects /\ cls' = cls /\ nextPk' = nextPk
      /\ x # Idle /\ Present' = Present
  BY <1>1, ConstantAssumption DEF Sends, TypeOK, Present
<1>3. TypeOK'
  <2>1. client' \in [Clients -> Requests \union {Idle}] /\ memory' \in [Clients -> Memories \union {Idle}]
    BY <1>1 DEF Sends, TypeOK
  <2> QED
    BY <1>1, <1>2, <2>1, NotesType DEF TypeOK
<1>4. ~Loaded(c)' /\ \A d \in Clients \ {c} : Loaded(d)' <=> Loaded(d)
  BY <1>2 DEF Loaded, Busy, Sends
<1>5. Targets'
  <2>1. ASSUME NEW d \in Clients, Busy(d)', IsPut(client[d])', client'[d].pk = New
        PROVE  missing'[d]
    <3>1. CASE d = c
      <4>1. WithKey(client[d].lookup)' = {}
        BY <1>2, <2>1, <3>1 DEF Sends, WithKey, IsPut, Present
      <4> QED
        BY <1>1, <2>1, <4>1, MissedStays
    <3>2. CASE d # c
      BY <1>1, <1>2, <2>1, <3>2, MissedStays DEF Busy, IsPut
    <3> QED
      BY <3>1, <3>2
  <2>2. ASSUME NEW d \in Clients, Busy(d)'
        PROVE  /\ client'[d].pk < nextPk'
               /\ client'[d].method \in {"GET", "DELETE"} => client'[d].pk # New
               /\ client'[d].method = "POST" => client'[d].pk = New
               /\ client'[d].lookup = None => client'[d].method = "POST"
    BY <1>1, <1>2, <2>2 DEF Targets, Sends, Busy
  <2>3. ASSUME NEW d \in Clients, memory'[d] # Idle
        PROVE  memory'[d].pk < nextPk'
    BY <1>1, <1>2, <2>3 DEF Targets, Sends
  <2> QED
    BY <2>1, <2>2, <2>3 DEF Targets
<1>6. ReadInv'
  BY <1>1, <1>2, <1>4 DEF ReadInv, Blank
<1>7. FixedInv'
  BY <1>1, <1>2, <1>4 DEF FixedInv
<1>8. KeyInv'
  <2> SUFFICES ASSUME ("key" \in cls.writeOnce)' PROVE KeyInv'
    BY DEF KeyInv
  <2>1. \A y \in Claims' : Known(y.pk, y.lookup)
    <3>1. \A y \in Claims' : y \in Claims \/ (y \in {x, m} /\ y # Idle /\ y.pk # New)
      BY <1>1, ClaimsOf DEF Sends
    <3>2. ASSUME NEW y \in Claims' PROVE Known(y.pk, y.lookup)
      <4>1. CASE y \in Claims
        BY <4>1 DEF Known
      <4>2. CASE y \in {x, m} /\ y # Idle /\ y.pk # New
        BY <4>2 DEF Sends
      <4> QED
        BY <3>1, <4>1, <4>2
    <3> QED
      BY <3>2
  <2>2. \A pk \in Present' : Known(pk, objects'[pk].key)
    BY <1>2 DEF Known
  <2>3. \A d \in Clients : Loaded(d)' /\ client'[d].pk # New => client'[d].was.key = client'[d].lookup
    BY <1>1, <1>2, <1>4 DEF KeyInv
  <2> QED
    BY <1>1, <1>2, <2>1, <2>2, <2>3, ClaimsAgree DEF KeyInv
<1> QED
  BY <1>3, <1>5, <1>6, <1>7, <1>8 DEF IInv

\* A request is answered, and nothing is written.
LEMMA AnswerInv ==
  ASSUME IInv, Notes, NEW c \in Clients, client' = [client EXCEPT ![c] = Idle],
         UNCHANGED <<cls, nextPk, memory>>,
         \A pk \in Present' : pk \in Present /\ objects'[pk] = objects[pk],
         objects' \in [1 .. MaxPk -> Object \union {None}]
  PROVE  IInv'
<1>1. TypeOK /\ Targets /\ ReadInv /\ FixedInv /\ KeyInv
  BY DEF IInv
<1>2. /\ client'[c] = Idle /\ \A d \in Clients \ {c} : client'[d] = client[d]
      /\ memory' = memory /\ cls' = cls /\ nextPk' = nextPk
  BY <1>1 DEF TypeOK
<1>3. TypeOK'
  <2>1. client' \in [Clients -> Requests \union {Idle}]
    BY <1>1 DEF TypeOK
  <2>2. \A pk \in nextPk' .. MaxPk : objects'[pk] = None
    BY <1>1, <1>2, ConstantAssumption DEF Present, TypeOK
  <2> QED
    BY <1>1, <1>2, <2>1, <2>2, NotesType DEF TypeOK
<1>4. \A d \in Clients : (Busy(d)' => Busy(d) /\ d # c) /\ (Loaded(d)' => Loaded(d) /\ d # c)
  BY <1>2 DEF Loaded, Busy
<1>5. Targets'
  <2>1. ASSUME NEW d \in Clients, Busy(d)', IsPut(client[d])', client'[d].pk = New
        PROVE  missing'[d]
    BY <1>1, <1>2, <1>4, <2>1, MissedStays DEF Busy, IsPut
  <2> QED
    BY <1>1, <1>2, <1>4, <2>1 DEF Targets
<1>6. ReadInv'
  BY <1>1, <1>2, <1>4 DEF ReadInv, Blank
<1>7. FixedInv'
  BY <1>1, <1>2, <1>4 DEF FixedInv
<1>8. KeyInv'
  <2> SUFFICES ASSUME ("key" \in cls.writeOnce)' PROVE KeyInv'
    BY DEF KeyInv
  <2>0. memory' = [memory EXCEPT ![c] = memory[c]]
    BY <1>1, <1>2 DEF TypeOK
  <2>1. \A y \in Claims' : Known(y.pk, y.lookup)
    <3>1. \A y \in Claims' : y \in Claims \/ (y \in {Idle, memory[c]} /\ y # Idle /\ y.pk # New)
      BY <1>1, <2>0, ClaimsOf
    <3>2. memory[c] \in Range(memory)
      BY <1>1 DEF Range, TypeOK
    <3>3. \A y \in Claims' : y \in Claims
      BY <3>1, <3>2 DEF Claims
    <3> QED
      BY <3>3 DEF Known
  <2>2. \A pk \in Present' : Known(pk, objects'[pk].key)
    BY DEF Known
  <2>3. \A d \in Clients : Loaded(d)' /\ client'[d].pk # New => client'[d].was.key = client'[d].lookup
    BY <1>1, <1>2, <1>4 DEF KeyInv
  <2> QED
    BY <1>1, <1>2, <2>1, <2>2, <2>3, ClaimsAgree DEF KeyInv
<1> QED
  BY <1>3, <1>5, <1>6, <1>7, <1>8 DEF IInv

\* A request reads its instance.
LEMMA LoadInv ==
  ASSUME IInv, Notes, NEW c \in Clients, Load(c)
  PROVE  IInv'
<1> DEFINE r == client[c]
           loaded(w) == [r EXCEPT !.step = "loaded", !.was = w]
<1>1. TypeOK /\ Targets /\ ReadInv /\ FixedInv /\ KeyInv
  BY DEF IInv
<1>2. /\ r # Idle /\ r.step = "sent" /\ r \in Requests
      /\ UNCHANGED <<cls, objects, nextPk, memory>> /\ Present' = Present
  BY <1>1 DEF Load, TypeOK, Present
<1>3. CASE client' = [client EXCEPT ![c] = Idle]
  <2>1. \A pk \in Present' : pk \in Present /\ objects'[pk] = objects[pk]
    BY <1>2
  <2>2. objects' \in [1 .. MaxPk -> Object \union {None}]
    BY <1>1, <1>2 DEF TypeOK
  <2> QED
    BY <1>2, <1>3, <2>1, <2>2, AnswerInv
<1>4. ASSUME NEW w, client' = [client EXCEPT ![c] = loaded(w)],
             IF r.pk = New THEN w = Blank ELSE r.pk \in Present /\ w = objects[r.pk],
             r.method # "GET"
      PROVE  IInv'
  <2>1. w \in Instances /\ (r.pk # New => w \in Object)
    <3>1. CASE r.pk = New
      <4>1. Blank.key \in Keys \union {None, Default} /\ Blank.data \in Values \union {None, Default}
        BY DEF Blank, Fields
      <4>2. Blank = [f \in Fields |-> Blank[f]]
        BY DEF Blank
      <4>3. Blank \in Instances
        BY <4>1, <4>2, FieldsRecord DEF Instances
      <4> QED
        BY <1>4, <3>1, <4>3
    <3>2. CASE r.pk # New
      BY <1>1, <1>4, <3>2 DEF TypeOK, Present, Object, Instances
    <3> QED
      BY <3>1, <3>2
  <2>2. loaded(w) \in Requests
    BY <1>2, <2>1 DEF Requests
  <2>3. /\ loaded(w).step = "loaded" /\ loaded(w).was = w /\ loaded(w).pk = r.pk
        /\ loaded(w).method = r.method /\ loaded(w).lookup = r.lookup /\ loaded(w) # Idle
    BY <1>2, <2>2, ConstantAssumption DEF Requests
  <2> HIDE DEF loaded
  <2>4. client'[c] = loaded(w) /\ \A d \in Clients \ {c} : client'[d] = client[d]
    BY <1>1, <1>4 DEF TypeOK
  <2>5. TypeOK'
    <3>1. client' \in [Clients -> Requests \union {Idle}]
      BY <1>1, <1>4, <2>2 DEF TypeOK
    <3> QED
      BY <1>1, <1>2, <3>1, NotesType DEF TypeOK
  <2>6. \A d \in Clients : /\ Busy(d)' <=> Busy(d)
                           /\ Loaded(d)' <=> Loaded(d) \/ d = c
    BY <1>2, <2>3, <2>4 DEF Loaded, Busy
  <2>7. Targets'
    <3>1. ASSUME NEW d \in Clients, Busy(d)', IsPut(client[d])', client'[d].pk = New
          PROVE  missing'[d]
      BY <1>1, <2>3, <2>4, <2>6, <3>1, MissedStays DEF Busy, IsPut
    <3>2. ASSUME NEW d \in Clients, Busy(d)'
          PROVE  /\ client'[d].pk < nextPk'
                 /\ client'[d].method \in {"GET", "DELETE"} => client'[d].pk # New
                 /\ client'[d].method = "POST" => client'[d].pk = New
                 /\ client'[d].lookup = None => client'[d].method = "POST"
      BY <1>1, <1>2, <2>3, <2>4, <2>6, <3>2 DEF Targets, Busy
    <3> QED
      BY <1>1, <1>2, <3>1, <3>2 DEF Targets
  <2>8. ReadInv'
    BY <1>1, <1>2, <1>4, <2>1, <2>3, <2>4, <2>6 DEF ReadInv, Blank
  <2>9. FixedInv'
    <3>1. ASSUME NEW d \in Clients \ {c}, Loaded(d), client[d].pk = r.pk, r.pk # New,
                 NEW f \in cls.writeOnce
          PROVE  client[d].was[f] = w[f]
      BY <1>1, <1>4, <3>1 DEF FixedInv
    <3>2. r.pk # New => \A f \in cls.writeOnce : objects[r.pk][f] = w[f]
      BY <1>4
    <3>3. ASSUME NEW d \in Clients, NEW e \in Clients, Loaded(d)', Loaded(e)',
                 client'[d].pk # New, client'[e].pk = client'[d].pk, NEW f \in cls.writeOnce
          PROVE  client'[e].was[f] = client'[d].was[f]
      BY <1>1, <2>3, <2>4, <2>6, <3>1, <3>3 DEF FixedInv
    <3>4. ASSUME NEW d \in Clients, Loaded(d)', client'[d].pk # New, client'[d].pk \in Present,
                 NEW f \in cls.writeOnce
          PROVE  objects[client'[d].pk][f] = client'[d].was[f]
      BY <1>1, <2>3, <2>4, <2>6, <3>2, <3>4 DEF FixedInv
    <3> QED
      BY <1>2, <3>3, <3>4 DEF FixedInv
  <2>10. KeyInv'
    <3> SUFFICES ASSUME ("key" \in cls.writeOnce)' PROVE KeyInv'
      BY DEF KeyInv
    <3>1. memory' = [memory EXCEPT ![c] = memory[c]]
      BY <1>1, <1>2 DEF TypeOK
    <3>2. \A y \in Claims' : y \in Claims \/ (y \in {loaded(w), memory[c]} /\ y # Idle /\ y.pk # New)
      BY <1>1, <1>4, <3>1, ClaimsOf
    <3>3. memory[c] \in Range(memory) /\ r \in Range(client)
      BY <1>1 DEF Range, TypeOK
    <3>4. \A y \in Claims' : Known(y.pk, y.lookup)
      <4>1. ASSUME loaded(w).pk # New PROVE Known(loaded(w).pk, loaded(w).lookup)
        BY <1>2, <2>3, <3>3, <4>1 DEF Known, Claims
      <4>2. ASSUME memory[c] # Idle, memory[c].pk # New PROVE Known(memory[c].pk, memory[c].lookup)
        BY <3>3, <4>2 DEF Known, Claims
      <4>3. ASSUME NEW y \in Claims PROVE Known(y.pk, y.lookup)
        BY DEF Known
      <4> QED
        BY <3>2, <4>1, <4>2, <4>3
    <3>5. \A pk \in Present' : Known(pk, objects'[pk].key)
      BY <1>2 DEF Known
    <3>6. r.pk # New => w.key = r.lookup
      BY <1>1, <1>2, <1>4, <3>3 DEF KeyInv, Claims
    <3>7. \A d \in Clients : Loaded(d)' /\ client'[d].pk # New => client'[d].was.key = client'[d].lookup
      BY <1>1, <1>2, <2>3, <2>4, <2>6, <3>6 DEF KeyInv
    <3> QED
      BY <1>1, <1>2, <3>4, <3>5, <3>7, ClaimsAgree DEF KeyInv
  <2> QED
    BY <2>5, <2>7, <2>8, <2>9, <2>10 DEF IInv
<1>5. \/ client' = [client EXCEPT ![c] = Idle]
      \/ r.pk = New /\ client' = [client EXCEPT ![c] = loaded(Blank)]
      \/ r.pk # New /\ r.pk \in Present /\ r.method # "GET" /\ client' = [client EXCEPT ![c] = loaded(objects[r.pk])]
  BY DEF Load
<1>6. r.pk = New => r.method # "GET"
  BY <1>1, <1>2 DEF Targets, Busy
<1> QED
  BY <1>3, <1>4, <1>5, <1>6

\* A request deletes its object.
LEMMA DeleteInv ==
  ASSUME IInv, Notes, NEW c \in Clients, Delete(c)
  PROVE  IInv'
<1>1. client[c] \in Requests
  BY DEF Delete, IInv, TypeOK
<1>2. \A pk \in Present' : pk \in Present /\ objects'[pk] = objects[pk]
  BY DEF Delete, Present, IInv, TypeOK
<1>3. objects' \in [1 .. MaxPk -> Object \union {None}]
  BY DEF Delete, IInv, TypeOK
<1>4. client' = [client EXCEPT ![c] = Idle] /\ UNCHANGED <<cls, nextPk, memory>>
  BY DEF Delete
<1> QED
  BY <1>2, <1>3, <1>4, AnswerInv

\* A request writes its instance.
LEMMA SaveInv ==
  ASSUME IInv, Notes, NEW c \in Clients, Save(c)
  PROVE  IInv'
<1> DEFINE r == client[c]
           pk == IF r.pk = New THEN nextPk ELSE r.pk
<1>1. TypeOK /\ Targets /\ ReadInv /\ FixedInv /\ KeyInv
  BY DEF IInv
<1>2. /\ Loaded(c) /\ r.method # "DELETE" /\ r \in Requests
      /\ client' = [client EXCEPT ![c] = Idle] /\ UNCHANGED <<cls, memory>>
  BY <1>1 DEF Save, Loaded, Busy, TypeOK
<1>3. CASE UNCHANGED <<objects, nextPk>>
  <2>1. \A q \in Present' : q \in Present /\ objects'[q] = objects[q]
    BY <1>3 DEF Present
  <2>2. objects' \in [1 .. MaxPk -> Object \union {None}]
    BY <1>1, <1>3 DEF TypeOK
  <2> QED
    BY <1>2, <1>3, <2>1, <2>2, AnswerInv
<1>4. CASE /\ ~Invalid(r) /\ pk <= MaxPk
           /\ objects' = [objects EXCEPT ![pk] = Changed(r)]
           /\ nextPk' = IF r.pk = New THEN nextPk + 1 ELSE nextPk
  <2> DEFINE o == Changed(r)
  <2>1. /\ o \in Object
        /\ r.pk # New => \A f \in cls.writeOnce : o[f] = r.was[f]
    BY <1>2, <1>4, ChangedIs
  <2>2. r.pk # New /\ "key" \in cls.writeOnce => o.key = r.lookup
    BY <1>1, <1>2, <2>1 DEF KeyInv
  <2> HIDE DEF o
  <2>3. pk \in 1 .. MaxPk /\ nextPk \in Nat /\ pk < nextPk' /\ nextPk <= nextPk' /\ nextPk' \in 1 .. MaxPk + 1
    BY <1>1, <1>2, <1>4, ConstantAssumption DEF TypeOK, Targets, Loaded, Requests, New, Busy
  <2>4. objects'[pk] = o /\ \A q \in 1 .. MaxPk : q # pk => objects'[q] = objects[q]
    BY <1>1, <1>4, <2>3 DEF TypeOK, o
  <2>5. Present' = Present \union {pk}
    BY <1>1, <2>1, <2>3, <2>4, ConstantAssumption DEF Present
  <2>6. client'[c] = Idle /\ \A d \in Clients \ {c} : client'[d] = client[d]
    BY <1>1, <1>2 DEF TypeOK
  <2>7. \A d \in Clients : (Busy(d)' => Busy(d) /\ d # c) /\ (Loaded(d)' => Loaded(d) /\ d # c)
    BY <2>6 DEF Loaded, Busy
  <2>8. TypeOK'
    <3>1. client' \in [Clients -> Requests \union {Idle}]
      BY <1>1, <1>2 DEF TypeOK
    <3>2. objects' \in [1 .. MaxPk -> Object \union {None}]
      BY <1>1, <1>4, <2>1, <2>3 DEF TypeOK, o
    <3>3. \A q \in nextPk' .. MaxPk : objects'[q] = None
      BY <1>1, <2>3, <2>4, ConstantAssumption DEF TypeOK
    <3> QED
      BY <1>1, <1>2, <2>3, <3>1, <3>2, <3>3, NotesType DEF TypeOK
  <2>9. Targets'
    <3>1. ASSUME NEW d \in Clients, Busy(d)', IsPut(client[d])', client'[d].pk = New
          PROVE  missing'[d]
      BY <1>1, <2>6, <2>7, <3>1, MissedStays DEF Busy, IsPut
    <3>2. ASSUME NEW d \in Clients, Busy(d)'
          PROVE  /\ client'[d].pk < nextPk'
                 /\ client'[d].method \in {"GET", "DELETE"} => client'[d].pk # New
                 /\ client'[d].method = "POST" => client'[d].pk = New
                 /\ client'[d].lookup = None => client'[d].method = "POST"
      <4>1. client[d] \in Requests /\ client[d].pk \in Nat
        BY <1>1, <2>7, <3>2 DEF TypeOK, Requests, Busy
      <4> QED
        BY <1>1, <2>3, <2>6, <2>7, <3>2, <4>1 DEF Targets
    <3>3. ASSUME NEW d \in Clients, memory'[d] # Idle
          PROVE  memory'[d].pk < nextPk'
      <4>1. memory[d] \in Memories /\ memory[d].pk \in Nat
        BY <1>1, <1>2, <3>3 DEF TypeOK, Memories
      <4> QED
        BY <1>1, <1>2, <2>3, <3>3, <4>1 DEF Targets
    <3> QED
      BY <3>1, <3>2, <3>3 DEF Targets
  <2>10. ReadInv'
    BY <1>1, <1>2, <2>6, <2>7 DEF ReadInv, Blank
  <2>11. FixedInv'
    <3>1. ASSUME NEW d \in Clients, Loaded(d)', client'[d].pk # New, client'[d].pk \in Present',
                 NEW f \in cls.writeOnce
          PROVE  objects'[client'[d].pk][f] = client'[d].was[f]
      <4>1. client'[d] = client[d] /\ Loaded(d) /\ client[d].pk < nextPk /\ client[d].pk \in Nat
        BY <1>1, <2>6, <2>7, <3>1 DEF Targets, Loaded, Busy, TypeOK, Requests
      <4>2. CASE client[d].pk = pk
        <5>1. r.pk # New /\ r.pk = pk
          BY <2>3, <4>1, <4>2
        <5> QED
          BY <1>1, <1>2, <2>1, <2>4, <3>1, <4>1, <4>2, <5>1 DEF FixedInv, o
      <4>3. CASE client[d].pk # pk
        BY <1>1, <2>4, <2>5, <3>1, <4>1, <4>3 DEF FixedInv, Present
      <4> QED
        BY <4>2, <4>3
    <3> QED
      BY <1>1, <1>2, <2>6, <2>7, <3>1 DEF FixedInv
  <2>12. KeyInv'
    <3> SUFFICES ASSUME ("key" \in cls.writeOnce)' PROVE KeyInv'
      BY DEF KeyInv
    <3>1. memory' = [memory EXCEPT ![c] = memory[c]]
      BY <1>1, <1>2 DEF TypeOK
    <3>2. \A y \in Claims' : y \in Claims \/ (y \in {Idle, memory[c]} /\ y # Idle /\ y.pk # New)
      BY <1>1, <1>2, <3>1, ClaimsOf
    <3>3. memory[c] \in Range(memory) /\ r \in Range(client)
      BY <1>1 DEF Range, TypeOK
    <3>4. \A y \in Claims' : y \in Claims
      BY <3>2, <3>3 DEF Claims
    <3>5. \A y \in Claims : y.pk < nextPk /\ y.pk \in Nat
      BY <1>1 DEF Claims, Range, Targets, Busy, TypeOK, Requests, Memories
    <3>6. \A q \in Present' : Known(q, objects'[q].key) \/ \A y \in Claims' : y.pk # q
      <4>1. CASE r.pk = New
        BY <2>3, <2>4, <2>5, <3>4, <3>5, <4>1 DEF Known, Present
      <4>2. CASE r.pk # New
        <5>1. r \in Claims
          BY <1>2, <3>3, <4>2 DEF Claims, Loaded, Busy
        <5> QED
          BY <1>2, <2>2, <2>4, <2>5, <4>2, <5>1 DEF Known, Present
      <4> QED
        BY <4>1, <4>2
    <3>7. \A d \in Clients : Loaded(d)' /\ client'[d].pk # New => client'[d].was.key = client'[d].lookup
      BY <1>1, <1>2, <2>6, <2>7 DEF KeyInv
    <3>8. \A y \in Claims' : Known(y.pk, y.lookup)
      BY <3>4 DEF Known
    <3> QED
      BY <1>1, <1>2, <3>6, <3>7, <3>8, ClaimsAgree DEF KeyInv
  <2> QED
    BY <2>8, <2>9, <2>10, <2>11, <2>12 DEF IInv
<1> QED
  BY <1>3, <1>4 DEF Save

\* What a client does is one of these.
LEMMA StepIs ==
  ASSUME IInv, NEW c \in Clients, Step(c)
  PROVE  (\E x, m : Sends(c, x, m)) \/ Load(c) \/ Save(c) \/ Delete(c)
<1>1. NoBody \in Body
  <2>1. NoBody = [f \in Fields |-> NoBody[f]] /\ NoBody.key = None /\ NoBody.data = None
    BY DEF NoBody, Fields
  <2> QED
    BY <2>1, FieldsRecord DEF Body
<1>2. CASE \E method \in {"PUT", "PATCH"}, lookup \in Keys, body \in Body : Redirect(c, method, lookup, body)
  BY <1>2, RedirectSends
<1>3. CASE \E method \in {"GET", "DELETE"}, lookup \in Keys : Redirect(c, method, lookup, NoBody)
  BY <1>1, <1>3, RedirectSends
<1>4. CASE \E body \in Body : Remembered(c, body) \/ Post(c, body)
  BY <1>4, RememberedSends, PostSends
<1> QED
  BY <1>2, <1>3, <1>4 DEF Step

\* Every step keeps the invariant.
LEMMA NextInv == IInv /\ [Next]_vars => IInv'
<1> SUFFICES ASSUME IInv, [Next]_vars PROVE IInv'
  OBVIOUS
<1>1. CASE Next
  <2>1. Notes /\ \E c \in Clients : Step(c)
    BY <1>1 DEF Next, Notes
  <2> QED
    BY <2>1, StepIs, SendsInv, LoadInv, SaveInv, DeleteInv
<1>2. CASE UNCHANGED vars
  BY <1>2 DEF vars, IInv, TypeOK, Targets, ReadInv, FixedInv, KeyInv, Loaded, Busy, Present, Claims, Blank
<1> QED
  BY <1>1, <1>2

\* It holds at first.
LEMMA InitInv == Init => IInv
<1> SUFFICES ASSUME Init PROVE IInv
  OBVIOUS
<1>1. \A c \in Clients : client[c] = Idle /\ memory[c] = Idle
  BY DEF Init
<1>2. TypeOK
  BY ConstantAssumption DEF Init, TypeOK
<1>3. Claims = {}
  BY <1>1, <1>2 DEF Claims, Range, TypeOK
<1> QED
  BY <1>1, <1>2, <1>3 DEF IInv, Targets, ReadInv, FixedInv, KeyInv, Loaded, Busy

\* It holds in every reachable state.
THEOREM Invariance == Spec => []IInv
BY InitInv, NextInv, PTL DEF Spec

\* Who saves has saved, or deleted, and no one else has.
LEMMA SavesIs ==
  ASSUME IInv, [Next]_vars, NEW c \in Clients, Saves(c)
  PROVE  /\ Loaded(c)
         /\ Save(c) \/ Delete(c)
<1>1. Loaded(c) /\ client'[c] = Idle /\ client[c] # Idle /\ objects' # objects
  BY DEF Saves, Loaded, Busy
<1>2. PICK d \in Clients : Step(d)
  BY <1>1 DEF Next, vars
<1>3. client \in [Clients -> Requests \union {Idle}]
  BY DEF IInv, TypeOK
<1>4. Save(d) \/ Delete(d)
  BY <1>1, <1>2, StepIs DEF Sends, Load
<1>5. client' = [client EXCEPT ![d] = Idle]
  BY <1>4 DEF Save, Delete
<1>6. c = d
  BY <1>1, <1>3, <1>5
<1> QED
  BY <1>1, <1>4, <1>6

\* What a Save that saves something has done.
LEMMA SaveIs ==
  ASSUME IInv, NEW c \in Clients, Loaded(c), Save(c), objects' # objects
  PROVE  LET r == client[c]
             pk == IF r.pk = New THEN nextPk ELSE r.pk
         IN  /\ r.method # "DELETE" /\ ~Invalid(r)
             /\ pk \in 1 .. MaxPk
             /\ objects'[pk] = Changed(r)
             /\ \A q \in 1 .. MaxPk : q # pk => objects'[q] = objects[q]
             /\ nextPk' = IF r.pk = New THEN nextPk + 1 ELSE nextPk
<1> DEFINE r == client[c]
           pk == IF r.pk = New THEN nextPk ELSE r.pk
<1>1. /\ r.method # "DELETE" /\ ~Invalid(r) /\ pk <= MaxPk
      /\ objects' = [objects EXCEPT ![pk] = Changed(r)]
      /\ nextPk' = IF r.pk = New THEN nextPk + 1 ELSE nextPk
  BY DEF Save
<1>2. r \in Requests
  BY DEF IInv, TypeOK, Loaded, Busy
<1>3. pk \in 1 .. MaxPk
  BY <1>1, <1>2, ConstantAssumption DEF IInv, TypeOK, Requests, New
<1>4. objects'[pk] = Changed(r) /\ \A q \in 1 .. MaxPk : q # pk => objects'[q] = objects[q]
  BY <1>1, <1>3 DEF IInv, TypeOK
<1> QED
  BY <1>1, <1>3, <1>4

\* A fixed field stays as it is.
THEOREM FixedStays == Spec => WriteOnceKept
<1>1. ASSUME IInv, [Next]_vars, NEW pk \in Present, objects'[pk] # None, NEW f \in cls.writeOnce
      PROVE  objects'[pk][f] = objects[pk][f]
  <2>1. CASE objects' = objects
    BY <2>1
  <2>2. CASE objects' # objects
    <3>1. PICK c \in Clients : Step(c)
      BY <1>1, <2>2 DEF Next, vars
    <3>2. Save(c) \/ Delete(c)
      BY <1>1, <2>2, <3>1, StepIs DEF Sends, Load
    <3>3. Loaded(c)
      BY <3>2 DEF Save, Delete, Loaded, Busy
    <3>4. CASE Delete(c)
      BY <1>1, <3>4 DEF Delete, Present, IInv, TypeOK
    <3>5. CASE Save(c)
      <4> DEFINE r == client[c]
                 q == IF r.pk = New THEN nextPk ELSE r.pk
      <4>1. /\ r.method # "DELETE" /\ ~Invalid(r) /\ q \in 1 .. MaxPk
            /\ objects'[q] = Changed(r)
            /\ \A p \in 1 .. MaxPk : p # q => objects'[p] = objects[p]
        BY <1>1, <2>2, <3>3, <3>5, SaveIs
      <4>2. CASE pk # q
        BY <1>1, <4>1, <4>2 DEF Present
      <4>3. CASE pk = q
        <5>1. r.pk # New
          BY <1>1, <4>1, <4>3 DEF Present, IInv, TypeOK
        <5>2. Changed(r)[f] = r.was[f]
          BY <1>1, <3>3, <4>1, <5>1, ChangedIs
        <5>3. objects[r.pk][f] = r.was[f]
          BY <1>1, <3>3, <4>3, <5>1 DEF IInv, FixedInv
        <5> QED
          BY <4>1, <4>3, <5>1, <5>2, <5>3
      <4> QED
        BY <4>2, <4>3
    <3> QED
      BY <3>2, <3>4, <3>5
  <2> QED
    BY <2>1, <2>2
<1>2. IInv /\ [Next]_vars => [\A pk \in Present : objects'[pk] # None =>
                                \A f \in cls.writeOnce : objects'[pk][f] = objects[pk][f]]_vars
  BY <1>1
<1> QED
  BY <1>2, Invariance, PTL DEF Spec, WriteOnceKept

\* A write, a deletion and an answer are of the key that was asked for.
THEOREM WritesWhereItWasSent == Spec => HitsItsKey
<1> DEFINE At(c) == IF client[c].pk = New THEN nextPk ELSE client[c].pk
           Renames(c) == client[c].body.key # None /\ Writable("key", client[c])
<1>1. ASSUME IInv, [Next]_vars, NEW c \in Clients, Saves(c), IsPut(client[c])
      PROVE  /\ objects'[At(c)].key = IF Renames(c) THEN client[c].body.key ELSE client[c].lookup
             /\ client[c].body.data # None /\ Writable("data", client[c])
                  => objects'[At(c)].data = client[c].body.data
  <2> DEFINE r == client[c]
  <2>1. Loaded(c) /\ objects' # objects /\ (Save(c) \/ Delete(c))
    BY <1>1, SavesIs DEF Saves
  <2>2. Save(c)
    BY <1>1, <2>1 DEF Delete, IsPut
  <2>3. r.method # "DELETE" /\ ~Invalid(r) /\ objects'[At(c)] = Changed(r)
    BY <1>1, <2>1, <2>2, SaveIs
  <2>4. /\ Changed(r).key = IF r.body.key # None /\ Writable("key", r) THEN r.body.key
                             ELSE IF Writable("key", r) THEN r.lookup ELSE r.was.key
        /\ r.body.data # None /\ Writable("data", r) => Changed(r).data = r.body.data
    BY <1>1, <2>1, <2>3, ChangedIs
  <2>5. ~Writable("key", r) => r.pk # New /\ "key" \in cls.writeOnce
    BY <1>1, ClassIs DEF Writable, IInv
  <2>6. ~Writable("key", r) => r.was.key = r.lookup
    BY <1>1, <2>1, <2>5 DEF IInv, KeyInv
  <2> QED
    BY <2>3, <2>4, <2>6
<1>2. ASSUME IInv, NEW c \in Clients, client[c] # Idle, client[c].pk \in Present,
             "key" \in cls.writeOnce
      PROVE  objects[client[c].pk].key = client[c].lookup
  <2>1. client[c] \in Claims
    BY <1>2 DEF Claims, Range, IInv, TypeOK, Present, New
  <2> QED
    BY <1>2, <2>1 DEF IInv, KeyInv
<1>3. ASSUME IInv, [Next]_vars, NEW c \in Clients, "key" \in cls.writeOnce,
             Reads(c) \/ (Saves(c) /\ client[c].method = "DELETE" /\ At(c) \in Present)
      PROVE  objects[At(c)].key = client[c].lookup
  <2>1. client[c] # Idle
    BY <1>3 DEF Reads, Saves
  <2>2. client[c].pk # New
    BY <1>3, <2>1 DEF Reads, Busy, IInv, Targets
  <2> QED
    BY <1>2, <1>3, <2>1, <2>2 DEF Reads
<1> HIDE DEF At, Renames
<1>4. IInv /\ [Next]_vars =>
        [\A c \in Clients :
           /\ Saves(c) /\ IsPut(client[c]) =>
                /\ objects'[At(c)].key = IF Renames(c) THEN client[c].body.key ELSE client[c].lookup
                /\ client[c].body.data # None /\ Writable("data", client[c])
                     => objects'[At(c)].data = client[c].body.data
           /\ "key" \in cls.writeOnce
                /\ (Reads(c) \/ (Saves(c) /\ client[c].method = "DELETE" /\ At(c) \in Present))
                => objects[At(c)].key = client[c].lookup]_vars
  BY <1>1, <1>3
<1> USE DEF At, Renames
<1> QED
  BY <1>4, Invariance, PTL DEF Spec, HitsItsKey

\* What is made was missing, and is whole.
THEOREM MadeIfMissing == Spec => MakesWhatIsMissing
<1>1. ASSUME IInv, [Next]_vars, NEW c \in Clients, Saves(c), IsPut(client[c]), nextPk' # nextPk
      PROVE  missing[c] /\ objects'[nextPk] \in Object
  <2> DEFINE r == client[c]
  <2>1. Loaded(c) /\ objects' # objects /\ (Save(c) \/ Delete(c))
    BY <1>1, SavesIs DEF Saves
  <2>2. Save(c)
    BY <1>1, <2>1 DEF Delete, IsPut
  <2>3. /\ r.method # "DELETE" /\ ~Invalid(r)
        /\ r.pk = New /\ objects'[nextPk] = Changed(r)
    BY <1>1, <2>1, <2>2, SaveIs
  <2>4. Changed(r) \in Object
    BY <1>1, <2>1, <2>3, ChangedIs
  <2>5. missing[c]
    BY <1>1, <2>1, <2>3 DEF IInv, Targets, Loaded
  <2> QED
    BY <2>3, <2>4, <2>5
<1>2. IInv /\ [Next]_vars =>
        [\A c \in Clients : Saves(c) /\ IsPut(client[c]) /\ nextPk' # nextPk =>
           missing[c] /\ objects'[nextPk] \in Object]_vars
  BY <1>1
<1> QED
  BY <1>2, Invariance, PTL DEF Spec, MakesWhatIsMissing

-----------------------------------------------------------------------------
(* Sequences. *)

\* Nothing is in the empty sequence.
LEMMA RangeEmpty == Range(<<>>) = {}
  BY DEF Range

\* An element is appended.
LEMMA RangeAppend ==
  ASSUME NEW S, NEW s \in Seq(S), NEW e \in S
  PROVE  Range(Append(s, e)) = Range(s) \union {e}
<1>1. Range(<<e>>) = {e} /\ <<e>> \in Seq(S)
  BY DEF Range
<1>2. Append(s, e) = s \o <<e>>
  BY AppendIsConcat
<1>3. Range(s \o <<e>>) = Range(s) \union Range(<<e>>)
  BY <1>1, RangeConcatenation
<1> QED
  BY <1>1, <1>2, <1>3

\* What a sequence has is its head and what its tail has.
LEMMA RangeHeadTail ==
  ASSUME NEW S, NEW s \in Seq(S), s # <<>>
  PROVE  Range(s) = {Head(s)} \union Range(Tail(s))
<1>1. /\ Tail(s) \in Seq(S) /\ Len(Tail(s)) = Len(s) - 1 /\ Len(s) \in Nat \ {0}
      /\ \A i \in 1 .. Len(s) - 1 : Tail(s)[i] = s[i + 1]
      /\ Head(s) = s[1]
  BY HeadTailProperties, EmptySeq
<1>2. Range(s) = {s[i] : i \in 1 .. Len(s)} /\ Range(Tail(s)) = {Tail(s)[i] : i \in 1 .. Len(Tail(s))}
  BY <1>1, RangeEquality
<1>3. ASSUME NEW x \in Range(s), x # Head(s) PROVE x \in Range(Tail(s))
  <2>1. PICK i \in 1 .. Len(s) : x = s[i]
    BY <1>2, <1>3
  <2>2. i - 1 \in 1 .. Len(s) - 1 /\ Tail(s)[i - 1] = x
    BY <1>1, <1>3, <2>1
  <2> QED
    BY <1>1, <1>2, <2>2
<1>4. Head(s) \in Range(s)
  BY <1>1, <1>2
<1>5. ASSUME NEW x \in Range(Tail(s)) PROVE x \in Range(s)
  <2>1. PICK i \in 1 .. Len(s) - 1 : x = s[i + 1]
    BY <1>1, <1>2, <1>5
  <2>2. i + 1 \in 1 .. Len(s)
    BY <1>1, <2>1
  <2> QED
    BY <1>2, <2>1, <2>2
<1> QED
  BY <1>3, <1>4, <1>5

(* chunks *)

\* Where the j-th slice ends.
End(s, n, j) == IF j * n < Len(s) THEN j * n ELSE Len(s)

\* The number of slices.
LEMMA Count ==
  ASSUME NEW l \in Nat, NEW n \in Nat \ {0}
  PROVE  /\ (l + n - 1) \div n \in Nat
         /\ ((l + n - 1) \div n) * n >= l
         /\ ((l + n - 1) \div n) * n < l + n
<1> DEFINE a == l + n - 1
<1>1. a \in Nat
  OBVIOUS
<1>2. a = n * (a \div n) + (a % n) /\ a % n \in 0 .. n - 1 /\ a \div n \in Int
  BY <1>1
<1>3. a \div n >= 0
  BY <1>1
<1> QED
  BY <1>2, <1>3

\* Where a slice begins.
LEMMA Between ==
  ASSUME NEW n \in Nat \ {0}, NEW N \in Nat, NEW l \in Nat, N * n < l + n, NEW i \in 1 .. N
  PROVE  /\ (i - 1) * n \in Nat /\ (i - 1) * n < l
         /\ i * n = (i - 1) * n + n
<1>1. i * n = (i - 1) * n + n /\ (i - 1) * n \in Nat
  OBVIOUS
<1>2. (N - i) * n \in Nat /\ N * n = i * n + (N - i) * n
  OBVIOUS
<1> QED
  BY <1>1, <1>2

\* The slices, one after the other, are the sequence.
LEMMA SlicesFlat ==
  ASSUME NEW S, NEW s \in Seq(S), NEW n \in Nat \ {0}
  PROVE  FlattenSeq(Slices(s, n)) = s
<1> DEFINE N == (Len(s) + n - 1) \div n
           sl == Slices(s, n)
<1>1. Len(s) \in Nat /\ N \in Nat /\ N * n >= Len(s) /\ N * n < Len(s) + n
  <2>1. Len(s) \in Nat
    OBVIOUS
  <2> QED
    BY <2>1, Count
<1>2. sl = [j \in 1 .. N |-> SubSeq(s, (j - 1) * n + 1, End(s, n, j))]
  BY <1>1 DEF Slices, End
<1> HIDE DEF N, sl
<1>3. ASSUME NEW i \in 1 .. N
      PROVE  /\ sl[i] = SubSeq(s, (i - 1) * n + 1, End(s, n, i)) /\ sl[i] \in Seq(S)
             /\ SubSeq(s, 1, End(s, n, i)) = SubSeq(s, 1, End(s, n, i - 1)) \o sl[i]
  <2> DEFINE k == (i - 1) * n
  <2>1. k \in Nat /\ k < Len(s) /\ i * n = k + n
    BY <1>1, Between
  <2>2. End(s, n, i) \in k .. Len(s) /\ End(s, n, i - 1) = k
    BY <1>1, <2>1 DEF End
  <2>3. sl[i] = SubSeq(s, k + 1, End(s, n, i))
    BY <1>2
  <2> HIDE DEF k
  <2>4. SubSeq(s, 1, k) \o SubSeq(s, k + 1, End(s, n, i)) = SubSeq(s, 1, End(s, n, i))
    <3>1. 1 \in 1 .. Len(s) + 1 /\ k \in 1 - 1 .. Len(s) /\ End(s, n, i) \in k .. Len(s)
      BY <1>1, <2>1, <2>2
    <3> QED
      BY <3>1, ConcatAdjacentSubSeq
  <2>5. sl[i] \in Seq(S)
    <3>1. \A j \in k + 1 .. End(s, n, i) : s[j] \in S
      BY <1>1, <2>1, <2>2
    <3>2. k + 1 \in Int /\ End(s, n, i) \in Int
      BY <1>1, <2>1, <2>2
    <3> QED
      BY <2>3, <3>1, <3>2, SubSeqProperties
  <2> QED
    BY <2>2, <2>3, <2>4, <2>5 DEF k
<1>4. sl \in [1 .. N -> Seq(S)]
  BY <1>2, <1>3
<1>5. PICK g \in [0 .. N -> Seq(S)] :
        /\ g[0] = <<>> /\ \A i \in 1 .. N : g[i] = g[i - 1] \o sl[i]
        /\ FlattenSeq(sl) = g[N]
  BY <1>1, <1>4, FlattenIs
<1> DEFINE Bad == {i \in 0 .. N : g[i] # SubSeq(s, 1, End(s, n, i))}
<1>6. End(s, n, 0) = 0 /\ SubSeq(s, 1, 0) = <<>>
  <2>1. End(s, n, 0) = 0
    BY <1>1 DEF End
  <2> QED
    BY <2>1, SubSeqEmpty
<1>7. Bad = {}
  <2> SUFFICES ASSUME Bad # {} PROVE FALSE
    OBVIOUS
  <2>1. Bad \in SUBSET Nat
    BY <1>1
  <2>2. PICK m \in Bad : \A j \in Bad : m <= j
    BY <2>1, LeastNat
  <2>3. m \in 1 .. N
    BY <1>1, <1>5, <1>6, <2>2
  <2>4. m - 1 \in 0 .. N /\ m - 1 \notin Bad
    BY <1>1, <2>2, <2>3
  <2>5. g[m - 1] = SubSeq(s, 1, End(s, n, m - 1))
    BY <2>4
  <2> QED
    BY <1>3, <1>5, <2>2, <2>3, <2>5
<1>8. End(s, n, N) = Len(s) /\ SubSeq(s, 1, Len(s)) = s
  <2>1. End(s, n, N) = Len(s)
    BY <1>1 DEF End
  <2> QED
    BY <2>1, SubSeqFull
<1>9. N \in 0 .. N
  BY <1>1
<1> QED
  BY <1>5, <1>7, <1>8, <1>9 DEF sl

\* What a quotient is between.
LEMMA LongerBy ==
  ASSUME NEW q \in Nat, NEW F, F = [j \in 1 .. q + 1 |-> F[j]]
  PROVE  F = Append([j \in 1 .. q |-> F[j]], F[q + 1])
<1> DEFINE T == {F[j] : j \in 1 .. q + 1}
           front == [j \in 1 .. q |-> F[j]]
<1>0. F \in [1 .. q + 1 -> T]
  <2>1. \A j \in 1 .. q + 1 : F[j] \in T
    OBVIOUS
  <2> HIDE DEF T
  <2> QED
    BY <2>1
<1> HIDE DEF T
<1>1. F \in Seq(T) /\ Len(F) = q + 1
  BY <1>0
<1>2. front \in Seq(T) /\ Len(front) = q /\ F[q + 1] \in T
  BY <1>0
<1>3. \A j \in 1 .. q : front[j] = F[j]
  OBVIOUS
<1> HIDE DEF front
<1>4. /\ Append(front, F[q + 1]) \in Seq(T) /\ Len(Append(front, F[q + 1])) = q + 1
      /\ \A j \in 1 .. q : Append(front, F[q + 1])[j] = F[j]
      /\ Append(front, F[q + 1])[q + 1] = F[q + 1]
  BY <1>2, <1>3, AppendProperties
<1>5. \A j \in 1 .. q + 1 : j \in 1 .. q \/ j = q + 1
  OBVIOUS
<1>6. \A j \in 1 .. q + 1 : Append(front, F[q + 1])[j] = F[j]
  BY <1>4, <1>5
<1> QED
  BY <1>1, <1>4, <1>6, SeqEqual DEF front

\* A number is between two multiples of n.
LEMMA DivBounds ==
  ASSUME NEW a \in Nat, NEW n \in Nat \ {0}
  PROVE  LET d == a \div n IN d \in Nat /\ d * n \in Nat /\ d * n <= a /\ a < d * n + n
<1> DEFINE d == a \div n
<1>1. a = n * d + (a % n) /\ a % n \in 0 .. n - 1 /\ d \in Int
  OBVIOUS
<1>2. d >= 0
  OBVIOUS
<1>3. n * d = d * n /\ d * n \in Nat
  BY <1>1, <1>2
<1> QED
  BY <1>1, <1>2, <1>3

\* What a quotient is.
LEMMA DivIs ==
  ASSUME NEW a \in Nat, NEW n \in Nat \ {0}, NEW q \in Nat, q * n <= a, a < q * n + n
  PROVE  a \div n = q
<1> DEFINE d == a \div n
<1>1. d \in Nat /\ d * n <= a /\ a < d * n + n
  BY DivBounds
<1> HIDE DEF d
<1>2. ASSUME NEW x \in Nat, NEW y \in Nat, x < y PROVE y * n >= x * n + n
  <2>1. y - x - 1 \in Nat
    BY <1>2
  <2>2. (y - x - 1) * n >= 0 /\ (y - x - 1) * n = y * n - x * n - n
    BY <2>1
  <2>3. y * n \in Int /\ x * n \in Int
    OBVIOUS
  <2> QED
    BY <2>2, <2>3
<1>3. ~(d < q)
  <2>1. ASSUME d < q PROVE FALSE
    <3>1. q * n >= d * n + n
      BY <1>1, <1>2, <2>1
    <3> QED
      BY <1>1, <3>1
  <2> QED
    BY <2>1
<1>4. ~(q < d)
  <2>1. ASSUME q < d PROVE FALSE
    <3>1. d * n >= q * n + n
      BY <1>1, <1>2, <2>1
    <3> QED
      BY <1>1, <3>1
  <2> QED
    BY <2>1
<1> QED
  BY <1>1, <1>3, <1>4 DEF d

\* chunks() gives the same of an iterator as of what has __getitem__: after i
\* items, the whole slices of them are done and the rest is the chunk.
LEMMA GatheredSlices ==
  ASSUME NEW S, NEW s \in Seq(S), NEW n \in Nat \ {0}
  PROVE  Gathered(s, n) = Slices(s, n)
<1> DEFINE L == Len(s)
           Gathering(g, i) ==
             LET chunk == Append(g.chunk, s[i])
             IN  IF Len(chunk) >= n THEN [done |-> Append(g.done, chunk), chunk |-> <<>>]
                 ELSE [done |-> g.done, chunk |-> chunk]
           Full(q) == [j \in 1 .. q |-> SubSeq(s, (j - 1) * n + 1, j * n)]
           At(i) == [done |-> Full(i \div n), chunk |-> SubSeq(s, (i \div n) * n + 1, i)]
           G == [i \in 0 .. L |-> At(i)]
           first == [done |-> <<>>, chunk |-> <<>>]
           f == CHOOSE g : g = [i \in 0 .. L |-> IF i = 0 THEN first ELSE Gathering(g[i - 1], i)]
           all == f[L]
<1>1. Gathered(s, n) = IF all.chunk = <<>> THEN all.done ELSE Append(all.done, all.chunk)
  BY DEF Gathered
<1>2. L \in Nat
  OBVIOUS
<1>3. ASSUME NEW i \in 1 .. L
      PROVE  At(i) = Gathering(At(i - 1), i)
  <2> DEFINE q == (i - 1) \div n
             c == SubSeq(s, q * n + 1, i - 1)
             d == Append(c, s[i])
  <2>1. q \in Nat /\ q * n \in Nat /\ q * n <= i - 1 /\ i - 1 < q * n + n
    BY <1>2, DivBounds
  <2>2. /\ c \in Seq(S) /\ d = SubSeq(s, q * n + 1, i)
        /\ Len(d) = i - q * n
    <3>1. c = SubSeq(s, q * n + 1, i - 1) /\ SubSeq(s, i, i) = <<s[i]>>
      <4>1. SubSeq(s, i, i) = <<s[i]>>
        <5>1. s[i] \in S /\ i \in Int
          BY <1>2
        <5>2. SubSeq(s, i, i) \in Seq(S) /\ Len(SubSeq(s, i, i)) = 1 /\ SubSeq(s, i, i)[1] = s[i]
          BY <1>2, <5>1, SubSeqProperties
        <5>3. <<s[i]>> \in Seq(S) /\ Len(<<s[i]>>) = 1 /\ <<s[i]>>[1] = s[i]
          BY <5>1
        <5>4. \A k \in 1 .. Len(SubSeq(s, i, i)) : SubSeq(s, i, i)[k] = <<s[i]>>[k]
          <6>1. \A k \in 1 .. 1 : k = 1
            OBVIOUS
          <6> QED
            BY <5>2, <5>3, <6>1
        <5>5. Len(SubSeq(s, i, i)) = Len(<<s[i]>>)
          BY <5>2, <5>3
        <5> QED
          BY <5>2, <5>3, <5>4, <5>5, SeqEqual
      <4> QED
        BY <4>1
    <3>2. c \in Seq(S) /\ s[i] \in S /\ Len(c) = i - 1 - q * n
      <4>1. q * n \in Nat /\ q * n <= i - 1 /\ q * n + 1 \in 1 .. (i - 1) + 1
        BY <2>1
      <4>2. c \in Seq(S) /\ Len(c) = IF q * n + 1 <= i - 1 THEN (i - 1) - (q * n + 1) + 1 ELSE 0
        BY <1>2, <4>1, SubSeqProperties
      <4>3. Len(c) = i - 1 - q * n
        BY <4>1, <4>2
      <4> QED
        BY <1>2, <4>2, <4>3
    <3>3. c \o SubSeq(s, (i - 1) + 1, i) = SubSeq(s, q * n + 1, i)
      <4>1. q * n + 1 \in 1 .. L + 1 /\ i - 1 \in (q * n + 1) - 1 .. L /\ i \in (i - 1) .. L
        BY <1>2, <2>1
      <4> HIDE DEF q
      <4> QED
        BY <4>1, ConcatAdjacentSubSeq
    <3>4. d = c \o <<s[i]>> /\ Len(d) = Len(c) + 1
      <4> HIDE DEF c
      <4>1. d = c \o <<s[i]>>
        BY <3>2, AppendIsConcat
      <4>2. Len(d) = Len(c) + 1
        BY <3>2, AppendProperties
      <4> QED
        BY <4>1, <4>2
    <3>5. (i - 1) + 1 = i
      BY <1>2
    <3>6. Len(d) = i - q * n
      <4> HIDE DEF c, d, q
      <4> QED
        BY <1>2, <2>1, <3>2, <3>4
    <3>7. d = SubSeq(s, q * n + 1, i)
      <4> HIDE DEF c, d, q
      <4> QED
        BY <3>1, <3>3, <3>4, <3>5
    <3> QED
      BY <3>2, <3>6, <3>7
  <2>3. Gathering(At(i - 1), i) =
          IF Len(d) >= n THEN [done |-> Append(Full(q), d), chunk |-> <<>>]
          ELSE [done |-> Full(q), chunk |-> d]
    <3> HIDE DEF Full
    <3> QED
      OBVIOUS
  <2>4. CASE Len(d) >= n
    <3>1. i = (q + 1) * n /\ (q + 1) * n = q * n + n /\ q + 1 \in Nat
      <4>1. (q + 1) * n = q * n + n
        BY <2>1
      <4> HIDE DEF d, q
      <4> QED
        BY <1>2, <2>1, <2>2, <2>4, <4>1
    <3>2. i \div n = q + 1
      <4>1. (q + 1) * n <= i /\ i < (q + 1) * n + n
        BY <3>1
      <4> HIDE DEF q
      <4> QED
        BY <3>1, <4>1, DivIs
    <3>3. SubSeq(s, (q + 1) * n + 1, i) = <<>>
      <4> HIDE DEF q
      <4> QED
        BY <1>2, <3>1, SubSeqEmpty
    <3>4. Full(q + 1) = Append(Full(q), SubSeq(s, q * n + 1, (q + 1) * n))
      <4> HIDE DEF q
      <4>1. Full(q + 1) = [j \in 1 .. q + 1 |-> Full(q + 1)[j]]
        OBVIOUS
      <4>2. Full(q) = [j \in 1 .. q |-> Full(q + 1)[j]]
        BY <2>1
      <4>3. Full(q + 1)[q + 1] = SubSeq(s, q * n + 1, (q + 1) * n)
        BY <2>1
      <4> HIDE DEF Full
      <4> QED
        BY <2>1, <4>1, <4>2, <4>3, LongerBy
    <3>5. At(i) = [done |-> Full(q + 1), chunk |-> <<>>]
      <4> HIDE DEF Full, q
      <4> QED
        BY <3>2, <3>3
    <3> HIDE DEF Full, d, q, At
    <3> QED
      BY <2>2, <2>3, <2>4, <3>1, <3>4, <3>5
  <2>5. CASE ~(Len(d) >= n)
    <3>1. i \div n = q
      <4> HIDE DEF d, q
      <4>1. i < q * n + n /\ q * n <= i
        BY <1>2, <2>1, <2>2, <2>5
      <4> QED
        BY <1>2, <2>1, <4>1, DivIs
    <3>2. At(i) = [done |-> Full(q), chunk |-> SubSeq(s, q * n + 1, i)]
      <4> HIDE DEF Full, q
      <4> QED
        BY <3>1
    <3> HIDE DEF Full, d, q, At
    <3> QED
      BY <2>2, <2>3, <2>5, <3>2
  <2> QED
    BY <2>4, <2>5
<1>4. G = [i \in 0 .. L |-> IF i = 0 THEN first ELSE Gathering(G[i - 1], i)]
  <2>1. At(0) = first
    <3>1. 0 \div n = 0
      BY DivIs
    <3>2. SubSeq(s, 0 * n + 1, 0) = <<>>
      <4>1. 0 * n + 1 = 1
        OBVIOUS
      <4> QED
        BY <4>1, SubSeqEmpty
    <3>3. Full(0) = <<>>
      OBVIOUS
    <3> HIDE DEF Full
    <3> QED
      BY <3>1, <3>2, <3>3
  <2>2. \A i \in 1 .. L : i - 1 \in 0 .. L /\ G[i] = At(i) /\ G[i - 1] = At(i - 1)
    <3> HIDE DEF At
    <3> QED
      BY <1>2
  <2> HIDE DEF At, Gathering, first
  <2> QED
    BY <1>2, <1>3, <2>1, <2>2
<1>5. f = [i \in 0 .. L |-> IF i = 0 THEN first ELSE Gathering(f[i - 1], i)]
  <2> HIDE DEF G, Gathering, first, L
  <2> QED
    BY <1>4
<1>6. ASSUME NEW i \in 0 .. L, f[i] # G[i] PROVE FALSE
  <2> HIDE DEF f, G, Gathering, first
  <2> DEFINE Bad == {j \in 0 .. L : f[j] # G[j]}
  <2>1. PICK m \in Bad : \A j \in Bad : m <= j
    <3>1. Bad \in SUBSET Nat /\ Bad # {}
      BY <1>2, <1>6
    <3> QED
      BY <3>1, LeastNat
  <2>2. m \in 0 .. L /\ f[m] # G[m] /\ m # 0
    BY <1>4, <1>5
  <2>3. m - 1 \in 0 .. L /\ m - 1 \notin Bad
    BY <1>2, <2>1, <2>2
  <2>4. f[m - 1] = G[m - 1]
    BY <2>3
  <2>5. f[m] = Gathering(f[m - 1], m)
    BY <1>5, <2>2
  <2>6. G[m] = Gathering(G[m - 1], m)
    BY <1>4, <2>2
  <2> QED
    BY <2>2, <2>4, <2>5, <2>6
<1>7. all = At(L)
  <2>1. L \in 0 .. L
    BY <1>2
  <2>2. f[L] = G[L]
    <3> HIDE DEF f, G, L
    <3> QED
      BY <1>6, <2>1
  <2> HIDE DEF At, f
  <2> QED
    BY <2>1, <2>2
<1>8. PICK q \in Nat : q = L \div n /\ q * n \in Nat /\ q * n <= L /\ L < q * n + n
  BY <1>2, DivBounds
<1> DEFINE c == SubSeq(s, q * n + 1, L)
<1>9. all = [done |-> Full(q), chunk |-> c]
  <2> HIDE DEF all, Full
  <2> QED
    BY <1>7, <1>8
<1>10. Len(c) = L - q * n
  BY <1>2, <1>8, SubSeqProperties
<1>11. ASSUME NEW j \in 1 .. q PROVE j * n <= L /\ j * n \in Nat
  <2>1. (q - j) * n \in Nat /\ (q - j) * n = q * n - j * n /\ j * n \in Nat
    BY <1>8
  <2> QED
    BY <1>2, <1>8, <2>1
<1>12. CASE L = q * n
  <2>1. (L + n - 1) \div n = q
    BY <1>2, <1>12, DivIs
  <2>2. c = <<>>
    BY <1>2, <1>12, SubSeqEmpty
  <2>3. Slices(s, n) = Full(q)
    <3>1. Slices(s, n) = [j \in 1 .. q |-> SubSeq(s, (j - 1) * n + 1, End(s, n, j))]
      BY <2>1 DEF Slices, End
    <3>2. \A j \in 1 .. q : End(s, n, j) = j * n
      BY <1>2, <1>11 DEF End
    <3> QED
      BY <3>1, <3>2
  <2> HIDE DEF c, all, Full
  <2> QED
    BY <1>1, <1>9, <2>2, <2>3
<1>13. CASE L # q * n
  <2>1. (L + n - 1) \div n = q + 1
    <3>1. (q + 1) * n = q * n + n
      BY <1>8
    <3>2. (q + 1) * n <= L + n - 1 /\ L + n - 1 < (q + 1) * n + n
      BY <1>2, <1>8, <1>13, <3>1
    <3>3. L + n - 1 \in Nat /\ q + 1 \in Nat
      BY <1>2, <1>8
    <3> QED
      BY <3>2, <3>3, DivIs
  <2>2. c # <<>>
    <3>1. Len(c) # 0
      BY <1>2, <1>8, <1>10, <1>13
    <3> HIDE DEF c
    <3> QED
      BY <3>1
  <2> DEFINE F == Slices(s, n)
  <2>3. /\ F = [j \in 1 .. q + 1 |-> F[j]]
        /\ \A j \in 1 .. q : F[j] = Full(q)[j]
        /\ F[q + 1] = c
    <3>1. F = [j \in 1 .. q + 1 |-> SubSeq(s, (j - 1) * n + 1, End(s, n, j))]
      BY <2>1 DEF Slices, End
    <3>2. \A j \in 1 .. q + 1 : (j - 1) * n + 1 \in Int /\ End(s, n, j) \in Int
      BY <1>2 DEF End
    <3>3. \A j \in 1 .. q : End(s, n, j) = j * n
      BY <1>2, <1>11 DEF End
    <3>4. (q + 1) - 1 = q /\ End(s, n, q + 1) = L
      <4>1. (q + 1) * n = q * n + n
        BY <1>8
      <4> QED
        BY <1>2, <1>8, <4>1 DEF End
    <3>7. F = [j \in 1 .. q + 1 |-> F[j]]
      BY <3>1
    <3>8. \A j \in 1 .. q : F[j] = Full(q)[j]
      <4> HIDE DEF F
      <4> QED
        BY <1>8, <3>1, <3>3
    <3>9. F[q + 1] = c
      <4> DEFINE Slice(j, k) == SubSeq(s, k * n + 1, End(s, n, j))
      <4>1. \A j \in 1 .. q + 1 : F[j] = Slice(j, j - 1)
        BY <3>1
      <4>2. Slice(q + 1, q) = c
        BY <3>4
      <4> HIDE DEF F, Slice, c
      <4> QED
        BY <1>8, <3>4, <4>1, <4>2
    <3> HIDE DEF F, Full, c
    <3> QED
      BY <3>7, <3>8, <3>9
  <2>4. Full(q) = [j \in 1 .. q |-> F[j]]
    <3> HIDE DEF F
    <3> QED
      BY <2>3
  <2> HIDE DEF c, all, Full, F
  <2>5. F = Append(Full(q), c)
    BY <2>3, <2>4, LongerBy
  <2> QED
    BY <1>1, <1>9, <2>2, <2>5 DEF F
<1> QED
  BY <1>12, <1>13

\* Whatever can be indexed or not, and whatever the size: chunks() gives every
\* item once and in order, so that a call of the job has all of them to save.
THEOREM ChunksAreItems == FlattenSeq(Chunks) = Items
<1>1. Items \in Seq(Objs) /\ ChunkSize \in Nat \ {0}
  BY JobConstants
<1>2. Chunks = Slices(Items, ChunkSize)
  BY <1>1, GatheredSlices DEF Chunks
<1> QED
  BY <1>1, <1>2, SlicesFlat

-----------------------------------------------------------------------------
(* The job. *)

\* A flush, as it ends: it did what it was to, or not, and the job knows or not.
Flushes(create, objs) ==
  \/ FlushSucceeds(create, objs)
  \/ FlushFails(create, objs)
  \/ FlushLost(create, objs)

\* Objects that need no more flush of this call.
Settled == saved \union Astray

\* Where an object may wait.
Fits(k, o) ==
  /\ ModelOf[o] = k[2]
  /\ IF k[1] THEN o \in hasRow => o \in unheard ELSE o \in hasPk

\* The types of what a flush of one list changes.
LEMMA FlushTypes ==
  ASSUME JobTypeOK, NEW create \in BOOLEAN, NEW objs \in SUBSET Objs, Flushes(create, objs)
  PROVE  /\ err' \in {"none", "closed", "lost", "refused", "clash", "other"}
         /\ usable' \in BOOLEAN /\ clean' \in BOOLEAN
         /\ hasPk' \subseteq Objs /\ saved' \subseteq Objs
         /\ hasRow' \subseteq Objs /\ unheard' \subseteq Objs
<1>1. CASE FlushSucceeds(create, objs)
  BY <1>1 DEF JobTypeOK, FlushSucceeds, Written
<1>2. CASE FlushFails(create, objs)
  <2>1. hasPk' = hasPk \/ hasPk' = hasPk \union objs
    BY <1>2 DEF FlushFails
  <2>2. err' \in {"closed", "lost", "refused", "clash"}
    BY <1>2 DEF FlushFails
  <2>3. usable' \in BOOLEAN
    BY <1>2 DEF FlushFails, JobTypeOK
  <2>4. UNCHANGED <<hasRow, unheard, saved>> /\ clean' = FALSE
    BY <1>2 DEF FlushFails
  <2> QED
    BY <2>1, <2>2, <2>3, <2>4 DEF JobTypeOK
<1>3. CASE FlushLost(create, objs)
  BY <1>3 DEF JobTypeOK, FlushLost, Written
<1> QED
  BY <1>1, <1>2, <1>3 DEF Flushes

\* What it does: pks and rows are only added; it settles its objects, or fails,
\* and then has inserted at most what is not heard of; and it is a clash only
\* when there are rows of what it is to create.
LEMMA FlushIs ==
  ASSUME RowsInv, NEW create \in BOOLEAN, NEW objs \in SUBSET Objs, Flushes(create, objs)
  PROVE  /\ RowsInv'
         /\ hasPk \subseteq hasPk' /\ hasRow \subseteq hasRow' /\ unheard \subseteq unheard'
         /\ hasRow' \subseteq hasRow \union IF create THEN objs ELSE {}
         /\ err' = "clash" => err = "clash" \/ (create /\ objs \cap hasRow # {})
         /\ \/ FlushSucceeds(create, objs) /\ Settled \union objs \subseteq Settled' /\ UNCHANGED <<err, clean>>
            \/ err' # "none" /\ ~clean' /\ hasRow' \subseteq hasRow \union unheard'
<1>1. CASE FlushSucceeds(create, objs)
  BY <1>1 DEF FlushSucceeds, Written, RowsInv, Settled, Astray
<1>2. CASE FlushFails(create, objs)
  <2>1. hasPk' = hasPk \/ hasPk' = hasPk \union objs
    BY <1>2 DEF FlushFails
  <2>2. err' \in {"closed", "lost", "refused", "clash"} /\ (err' = "clash" => Clash(create, objs))
    BY <1>2 DEF FlushFails
  <2>3. UNCHANGED <<hasRow, unheard, saved>> /\ clean' = FALSE
    BY <1>2 DEF FlushFails
  <2> QED
    BY <2>1, <2>2, <2>3 DEF RowsInv, Clash
<1>3. CASE FlushLost(create, objs)
  BY <1>3 DEF FlushLost, Written, RowsInv
<1> QED
  BY <1>1, <1>2, <1>3 DEF Flushes

\* A list to create that clashes has an object whose commit was not heard of.
LEMMA FlushClash ==
  ASSUME RowsInv, InsertedOnce, NEW k \in Kinds, NEW objs \in SUBSET Objs, Flushes(k[1], objs),
         \A o \in objs : Fits(k, o)
  PROVE  InsertedOnce'
<1>1. k[1] \in BOOLEAN
  BY DEF Kinds
<1>2. unheard \subseteq unheard' /\ (err' = "clash" => err = "clash" \/ (k[1] /\ objs \cap hasRow # {}))
  BY <1>1, FlushIs
<1> QED
  BY <1>2 DEF InsertedOnce, Fits

\* A call begins.
LEMMA EnterIs ==
  ASSUME JobIInv, Enter, triesLeft' \in 0 .. ConnTries, usable' \in BOOLEAN
  PROVE  /\ (tryIdx' = tryIdx => JobTypeOK') /\ ListsInv' /\ RowsInv' /\ GivenInv' /\ InsertedOnce'
         /\ calls' = calls + 1
<1>1. todo' = Items /\ Range(Items) = Objs /\ Items \in Seq(Objs)
  BY ChunksAreItems, JobConstants DEF Enter, Objs
<1>2. lists' \in [Kinds -> Seq(Objs)]
  BY DEF Enter
<1>3. tryIdx' = tryIdx => JobTypeOK'
  BY <1>1, <1>2 DEF JobIInv, JobTypeOK, Enter, config
<1>4. ListsInv'
  BY RangeEmpty DEF ListsInv, Enter, Awaited
<1>5. RowsInv'
  BY DEF JobIInv, RowsInv, Enter
<1>6. GivenInv'
  BY <1>1 DEF GivenInv, Enter
<1> QED
  BY <1>3, <1>4, <1>5, <1>6 DEF Enter, InsertedOnce

\* The function is called: what it was given before is settled.
LEMMA CallKeeps ==
  ASSUME JobIInv, Call
  PROVE  JobIInv'
<1>1. UNCHANGED <<tryIdx, triesLeft, usable>> /\ pc = "call" /\ pc' = "body"
  BY DEF Call, Enter, retries
<1>2. triesLeft \in 0 .. ConnTries /\ usable \in BOOLEAN
  BY DEF JobIInv, JobTypeOK
<1>3. JobTypeOK' /\ ListsInv' /\ RowsInv' /\ GivenInv' /\ InsertedOnce' /\ calls' = calls + 1
  BY <1>1, <1>2, EnterIs DEF Call
<1>4. CallsInv'
  BY <1>1, <1>3, JobConstants DEF JobIInv, JobTypeOK, CallsInv, Tried
<1> QED
  BY <1>3, <1>4 DEF JobIInv

\* The connection was closed, and the function is called once more.
LEMMA ConnectionErrorKeeps ==
  ASSUME JobIInv, ConnectionError
  PROVE  JobIInv'
<1>1. /\ pc = "raised" /\ triesLeft > 0 /\ triesLeft' = triesLeft - 1 /\ usable' = TRUE
      /\ tryIdx' = tryIdx /\ triesLeft \in 0 .. ConnTries /\ ConnTries \in Nat \ {0}
  BY JobConstants DEF ConnectionError, JobIInv, JobTypeOK
<1>2. triesLeft' \in 0 .. ConnTries
  BY <1>1
<1>3. CASE triesLeft' <= 0
  <2>1. UNCHANGED <<config, job, buffers, data, saved, clean>>
    BY <1>3 DEF ConnectionError
  <2>2. JobTypeOK'
    BY <1>1, <1>2, <2>1 DEF JobIInv, JobTypeOK, config, job, buffers, data
  <2>3. ListsInv' /\ RowsInv' /\ GivenInv' /\ InsertedOnce'
    BY <2>1 DEF JobIInv, ListsInv, RowsInv, GivenInv, InsertedOnce, Astray, Awaited, job, buffers, data
  <2>4. Tried' = Tried /\ calls' = calls /\ pc' = pc
    BY <1>1, <1>3, <2>1 DEF Tried, job
  <2>5. CallsInv'
    BY <1>1, <2>4 DEF JobIInv, CallsInv
  <2> QED
    BY <2>2, <2>3, <2>5 DEF JobIInv
<1>4. CASE ~(triesLeft' <= 0)
  <2>1. Enter
    BY <1>4 DEF ConnectionError
  <2>2. JobTypeOK' /\ ListsInv' /\ RowsInv' /\ GivenInv' /\ InsertedOnce' /\ calls' = calls + 1
    BY <1>1, <1>2, <2>1, EnterIs
  <2>3. pc' = "body"
    BY <2>1 DEF Enter
  <2>4. Tried' = Tried + 1
    BY <1>1, <1>4, <2>3 DEF Tried
  <2>5. CallsInv'
    <3>1. Tried \in Nat /\ tryIdx \in Nat /\ calls \in Nat /\ tryIdx * ConnTries \in Nat
      BY <1>1 DEF Tried, JobIInv, JobTypeOK
    <3> QED
      BY <1>1, <2>2, <2>3, <2>4, <3>1 DEF JobIInv, CallsInv
  <2> QED
    BY <2>2, <2>5 DEF JobIInv
<1> QED
  BY <1>3, <1>4

\* Another error, and another try.
LEMMA TryAgainKeeps ==
  ASSUME JobIInv, TryAgain
  PROVE  JobIInv'
<1>1. /\ pc = "raised" /\ pc' = "call" /\ tryIdx' = tryIdx + 1 /\ triesLeft' = ConnTries
      /\ tryIdx + 1 < MaxTries
      /\ UNCHANGED <<config, todo, err, calls, buffers, usable, data, saved, clean>>
  BY DEF TryAgain, GetsOut
<1>2. ConnTries \in Nat \ {0} /\ MaxTries \in Nat \ {0}
  BY JobConstants
<1>3. JobTypeOK'
  BY <1>1, <1>2 DEF JobIInv, JobTypeOK, config, buffers, data
<1>4. ListsInv' /\ RowsInv' /\ GivenInv' /\ InsertedOnce'
  BY <1>1 DEF JobIInv, ListsInv, RowsInv, GivenInv, InsertedOnce, Astray, Awaited, buffers, data
<1>5. CallsInv'
  <2>1. Tried \in 1 .. ConnTries /\ Tried' = 0
    BY <1>1, <1>2 DEF Tried, JobIInv, JobTypeOK
  <2>2. (tryIdx + 1) * ConnTries = tryIdx * ConnTries + ConnTries /\ tryIdx * ConnTries \in Nat /\ tryIdx \in Nat
    BY <1>2 DEF JobIInv, JobTypeOK
  <2>3. tryIdx + Tried <= calls /\ calls <= tryIdx * ConnTries + Tried /\ calls \in Nat
    BY DEF JobIInv, CallsInv, JobTypeOK
  <2>4. tryIdx' + Tried' <= calls /\ calls <= tryIdx' * ConnTries + Tried'
    BY <1>1, <1>2, <2>1, <2>2, <2>3
  <2> QED
    BY <1>1, <2>4 DEF CallsInv
<1> QED
  BY <1>3, <1>4, <1>5 DEF JobIInv

\* No try is left.
LEMMA GiveUpKeeps ==
  ASSUME JobIInv, GiveUp
  PROVE  JobIInv'
<1>1. /\ pc = "raised" /\ pc' = "failed" /\ (err = "closed" => triesLeft <= 0)
      /\ err \in Refused \/ tryIdx + 1 >= MaxTries
      /\ UNCHANGED <<config, todo, err, calls, retries, buffers, usable, data, saved, clean>>
  BY DEF GiveUp, GetsOut
<1>2. JobTypeOK'
  BY <1>1 DEF JobIInv, JobTypeOK, config, buffers, data, retries
<1>3. ListsInv' /\ RowsInv' /\ GivenInv' /\ InsertedOnce'
  BY <1>1 DEF JobIInv, ListsInv, RowsInv, GivenInv, InsertedOnce, Astray, Awaited, buffers, data
<1>4. Tried' = Tried
  BY <1>1 DEF Tried, retries
<1>5. CallsInv'
  BY <1>1, <1>4, JobConstants DEF JobIInv, CallsInv, JobTypeOK, retries
<1> QED
  BY <1>2, <1>3, <1>5 DEF JobIInv

\* The calls are counted when they begin.
LEMMA LeaveKeepsCalls ==
  ASSUME JobIInv, pc \in {"body", "finally"}, pc' \in {"body", "finally", "raised", "done"},
         UNCHANGED <<tryIdx, triesLeft, calls>>
  PROVE  CallsInv'
<1>1. Tried' = Tried
  BY DEF Tried
<1> QED
  BY <1>1 DEF JobIInv, CallsInv

\* The block ends or raises; the lists are as they were.
LEMMA BlockEndsKeeps ==
  ASSUME JobIInv, BlockEnds
  PROVE  JobIInv'
<1>1. /\ pc = "body" /\ pc' = "finally"
      /\ err' \in (IF todo = <<>> THEN {"none", "other"} ELSE {"other"})
      /\ flushing' = {k \in Kinds : lists[k] # <<>>}
      /\ UNCHANGED <<config, todo, calls, retries, lists, usable, data, saved, clean>>
  BY DEF BlockEnds, Leave
<1>2. JobTypeOK'
  BY <1>1 DEF JobIInv, JobTypeOK, config, data, retries
<1>3. ListsInv' /\ RowsInv' /\ InsertedOnce'
  BY <1>1 DEF JobIInv, ListsInv, RowsInv, InsertedOnce, Awaited, data
<1>4. GivenInv'
  <2>1. UNION {Range(lists[k]) : k \in Kinds} = UNION {Range(lists[k]) : k \in flushing'}
    BY <1>1, RangeEmpty
  <2>2. Objs \subseteq Range(todo) \union saved \union Astray \union UNION {Range(lists[k]) : k \in Kinds}
    BY <1>1 DEF JobIInv, GivenInv, Awaited
  <2>3. Awaited' = flushing'
    BY <1>1 DEF Awaited
  <2> QED
    BY <1>1, <2>1, <2>2, <2>3 DEF JobIInv, GivenInv, Astray, data
<1>5. CallsInv'
  BY <1>1, LeaveKeepsCalls DEF retries
<1> QED
  BY <1>2, <1>3, <1>4, <1>5 DEF JobIInv

\* No list is left, so if nothing failed all are saved.
LEMMA FlushedAllKeeps ==
  ASSUME JobIInv, FlushedAll
  PROVE  JobIInv'
<1>1. /\ pc = "finally" /\ flushing = {} /\ pc' = (IF err = "none" THEN "done" ELSE "raised")
      /\ UNCHANGED <<config, todo, err, calls, retries, buffers, usable, data, saved, clean>>
  BY DEF FlushedAll
<1>2. JobTypeOK'
  BY <1>1 DEF JobIInv, JobTypeOK, config, data, retries, buffers
<1>3. ListsInv' /\ RowsInv' /\ InsertedOnce'
  BY <1>1 DEF JobIInv, ListsInv, RowsInv, InsertedOnce, Awaited, data, buffers
<1>4. GivenInv'
  BY <1>1 DEF JobIInv, GivenInv, Astray, Awaited, buffers, data
<1>5. CallsInv'
  BY <1>1, LeaveKeepsCalls DEF retries
<1> QED
  BY <1>2, <1>3, <1>4, <1>5 DEF JobIInv

\* The other lists, when one of them is flushed: their objects are of another
\* model, or are not to be created.
LEMMA FlushLists ==
  ASSUME RowsInv, NEW K \in SUBSET Kinds, NEW k \in Kinds, NEW objs \in SUBSET Objs,
         Flushes(k[1], objs),
         \A j \in K \ {k} : \A o \in Range(lists[j]) : Fits(j, o),
         \A o \in objs : Fits(k, o)
  PROVE  \A j \in K \ {k} : \A o \in Range(lists[j]) : Fits(j, o)'
<1> SUFFICES ASSUME NEW j \in K \ {k}, NEW o \in Range(lists[j])
             PROVE  Fits(j, o)'
  OBVIOUS
<1>1. k[1] \in BOOLEAN /\ j[1] \in BOOLEAN /\ j = <<j[1], j[2]>> /\ k = <<k[1], k[2]>> /\ j # k
  BY DEF Kinds
<1>2. /\ hasPk \subseteq hasPk' /\ unheard \subseteq unheard'
      /\ hasRow' \subseteq hasRow \union IF k[1] THEN objs ELSE {}
  BY <1>1, FlushIs
<1>3. Fits(j, o)
  OBVIOUS
<1>4. CASE ~j[1]
  BY <1>2, <1>3, <1>4 DEF Fits
<1>5. CASE j[1]
  <2>1. o \in hasRow' => o \in hasRow
    <3>1. ASSUME o \in objs, k[1] PROVE FALSE
      <4>1. j[2] = k[2]
        BY <1>3, <3>1 DEF Fits
      <4>2. j[1] = k[1]
        BY <1>1, <1>5, <3>1
      <4> QED
        BY <1>1, <4>1, <4>2
    <3> QED
      BY <1>2, <3>1
  <2> QED
    BY <1>2, <1>3, <1>5, <2>1 DEF Fits
<1> QED
  BY <1>1, <1>4, <1>5

\* A list is flushed in the finally clause.
LEMMA FlushKeeps ==
  ASSUME JobIInv, NEW k \in Kinds, Flush(k)
  PROVE  JobIInv'
<1> DEFINE objs == Range(lists[k])
<1>1. /\ pc = "finally" /\ k \in flushing /\ flushing' = flushing \ {k}
      /\ \/ FlushSucceeds(k[1], objs) /\ pc' = pc
         \/ (FlushFails(k[1], objs) \/ FlushLost(k[1], objs)) /\ pc' = "raised"
      /\ UNCHANGED <<config, todo, calls, retries, lists>>
  BY DEF Flush
<1>2. /\ k[1] \in BOOLEAN /\ objs \in SUBSET Objs /\ Flushes(k[1], objs)
      /\ pc' \in {"finally", "raised"}
  <2>1. lists[k] \in Seq(Objs)
    BY DEF JobIInv, JobTypeOK
  <2>2. objs \in SUBSET Objs
    BY <2>1, RangeOfSeq
  <2>3. k[1] \in BOOLEAN
    BY DEF Kinds
  <2> QED
    BY <1>1, <2>2, <2>3 DEF Flushes
<1>3. \A j \in flushing : \A o \in Range(lists[j]) : Fits(j, o)
  BY <1>1 DEF JobIInv, ListsInv, Awaited, Fits
<1>4. \A o \in objs : Fits(k, o)
  BY <1>1, <1>3
<1>5. UNION {Range(lists[j]) : j \in flushing} \subseteq
        objs \union UNION {Range(lists[j]) : j \in flushing \ {k}}
  OBVIOUS
<1> HIDE DEF objs
<1>6. JobTypeOK'
  BY <1>1, <1>2, FlushTypes DEF JobIInv, JobTypeOK, config, retries
<1>7. RowsInv' /\ InsertedOnce'
  BY <1>2, <1>4, FlushIs, FlushClash DEF JobIInv
<1>8. ListsInv'
  <2>1. \A j \in flushing \ {k} : \A o \in Range(lists[j]) : Fits(j, o)'
    <3>1. flushing \in SUBSET Kinds
      BY DEF JobIInv, JobTypeOK
    <3> QED
      BY <1>2, <1>3, <1>4, <3>1, FlushLists DEF JobIInv
  <2>2. Awaited' \subseteq flushing \ {k}
    BY <1>1, <1>2 DEF Awaited
  <2> QED
    BY <1>1, <2>1, <2>2 DEF ListsInv, Fits
<1>9. GivenInv'
  <2>1. CASE err' # "none" /\ ~clean'
    BY <1>2, <2>1 DEF GivenInv
  <2>2. CASE FlushSucceeds(k[1], objs) /\ Settled \union objs \subseteq Settled' /\ UNCHANGED <<err, clean>>
    <3>1. CASE pc' = "raised"
      <4>1. clean' = FALSE
        BY <1>1, <3>1 DEF FlushFails, FlushLost
      <4> QED
        BY <3>1, <4>1 DEF GivenInv
    <3>2. CASE pc' = "finally"
      <4>1. Awaited = flushing /\ Awaited' = flushing \ {k}
        BY <1>1, <3>2 DEF Awaited
      <4>2. clean => Objs \subseteq Range(todo) \union Settled \union UNION {Range(lists[j]) : j \in flushing}
        BY <1>1, <4>1 DEF JobIInv, GivenInv, Settled
      <4>3. UNION {Range(lists'[j]) : j \in Awaited'} = UNION {Range(lists[j]) : j \in flushing \ {k}}
        BY <1>1, <4>1
      <4>4. clean' => Objs \subseteq Range(todo') \union Settled' \union UNION {Range(lists'[j]) : j \in Awaited'}
        BY <1>1, <1>5, <2>2, <4>2, <4>3
      <4>5. err' = "none" => clean' /\ todo' = <<>>
        BY <1>1, <2>2 DEF JobIInv, GivenInv
      <4> QED
        BY <3>2, <4>4, <4>5 DEF GivenInv, Settled
    <3> QED
      BY <1>2, <3>1, <3>2
  <2> QED
    BY <1>2, <2>1, <2>2, FlushIs DEF JobIInv
<1>10. CallsInv'
  BY <1>1, <1>2, LeaveKeepsCalls DEF retries
<1> QED
  BY <1>6, <1>7, <1>8, <1>9, <1>10 DEF JobIInv

\* save(obj), whichever way it goes: the object joins its list; if it makes that
\* full, the list is flushed.
LEMMA SaveObjIs ==
  ASSUME JobIInv, SaveObj
  PROVE  LET obj == Head(todo)
             k == <<obj \notin hasPk, ModelOf[obj]>>
             objs == Append(lists[k], obj)
         IN  /\ pc = "body" /\ obj \in Objs /\ k \in Kinds
             /\ lists[k] \in Seq(Objs) /\ objs \in Seq(Objs)
             /\ Range(objs) = Range(lists[k]) \union {obj}
             /\ Range(todo) = {obj} \union Range(todo')
             /\ todo' \in Seq(Objs)
             /\ UNCHANGED <<config, calls, retries>>
             /\ \/ /\ lists' = [lists EXCEPT ![k] = objs]
                   /\ UNCHANGED <<pc, err, flushing, usable, data, saved, clean>>
                \/ /\ FlushSucceeds(k[1], Range(objs))
                   /\ lists' = [lists EXCEPT ![k] = <<>>]
                   /\ UNCHANGED <<pc, flushing>>
                \/ /\ FlushFails(k[1], Range(objs)) \/ FlushLost(k[1], Range(objs))
                   /\ lists' = [lists EXCEPT ![k] = objs]
                   /\ pc' = "finally" /\ flushing' \subseteq Kinds
<1> DEFINE obj == Head(todo)
           k == <<obj \notin hasPk, ModelOf[obj]>>
           objs == Append(lists[k], obj)
<1>1. pc = "body" /\ todo # <<>> /\ todo' = Tail(todo) /\ todo \in Seq(Objs)
      /\ lists \in [Kinds -> Seq(Objs)]
  BY DEF SaveObj, JobIInv, JobTypeOK
<1>2. obj \in Objs /\ todo' \in Seq(Objs) /\ Range(todo) = {obj} \union Range(todo')
  BY <1>1, HeadTailProperties, RangeHeadTail
<1>3. k \in Kinds
  BY <1>2 DEF Kinds, Models
<1>4. lists[k] \in Seq(Objs)
  BY <1>1, <1>3
<1>5. objs \in Seq(Objs) /\ Range(objs) = Range(lists[k]) \union {obj}
  <2> HIDE DEF obj, k
  <2> QED
    BY <1>2, <1>4, AppendProperties, RangeAppend
<1>6. \/ /\ lists' = [lists EXCEPT ![k] = objs]
         /\ UNCHANGED <<pc, err, flushing, usable, data, saved, clean>>
      \/ /\ FlushSucceeds(k[1], Range(objs))
         /\ lists' = [lists EXCEPT ![k] = <<>>]
         /\ UNCHANGED <<pc, flushing>>
      \/ /\ FlushFails(k[1], Range(objs)) \/ FlushLost(k[1], Range(objs))
         /\ lists' = [lists EXCEPT ![k] = objs]
         /\ pc' = "finally" /\ flushing' \subseteq Kinds
  BY DEF SaveObj, Leave
<1>7. UNCHANGED <<config, calls, retries>>
  BY DEF SaveObj
<1> HIDE DEF obj, k, objs
<1> QED
  BY <1>1, <1>2, <1>3, <1>4, <1>5, <1>6, <1>7 DEF obj, k, objs

\* An object is put on the list of its model, which is flushed when it is full.
LEMMA SaveObjKeeps ==
  ASSUME JobIInv, SaveObj
  PROVE  JobIInv'
<1> DEFINE obj == Head(todo)
           k == <<obj \notin hasPk, ModelOf[obj]>>
           objs == Append(lists[k], obj)
<1>1. /\ pc = "body" /\ obj \in Objs /\ k \in Kinds
      /\ lists[k] \in Seq(Objs) /\ objs \in Seq(Objs)
      /\ Range(objs) = Range(lists[k]) \union {obj}
      /\ Range(todo) = {obj} \union Range(todo')
      /\ todo' \in Seq(Objs)
      /\ UNCHANGED <<config, calls, retries>>
      /\ \/ /\ lists' = [lists EXCEPT ![k] = objs]
            /\ UNCHANGED <<pc, err, flushing, usable, data, saved, clean>>
         \/ /\ FlushSucceeds(k[1], Range(objs))
            /\ lists' = [lists EXCEPT ![k] = <<>>]
            /\ UNCHANGED <<pc, flushing>>
         \/ /\ FlushFails(k[1], Range(objs)) \/ FlushLost(k[1], Range(objs))
            /\ lists' = [lists EXCEPT ![k] = objs]
            /\ pc' = "finally" /\ flushing' \subseteq Kinds
  BY SaveObjIs
<1>2. k[1] = (obj \notin hasPk) /\ k[2] = ModelOf[obj] /\ k[1] \in BOOLEAN
  OBVIOUS
<1> HIDE DEF obj, k, objs
<1>3. lists \in [Kinds -> Seq(Objs)] /\ flushing \subseteq Kinds /\ JobTypeOK
  BY DEF JobIInv, JobTypeOK
<1>4. Range(objs) \in SUBSET Objs
  BY <1>1, RangeOfSeq
<1>5. \A j \in Kinds : \A o \in Range(lists[j]) : Fits(j, o)
  BY <1>1 DEF JobIInv, ListsInv, Awaited, Fits
<1>6. \A o \in Range(objs) : Fits(k, o)
  BY <1>1, <1>2, <1>5 DEF JobIInv, RowsInv, Fits
<1>7. /\ err = "none" /\ clean
      /\ Objs \subseteq Range(todo) \union Settled \union UNION {Range(lists[j]) : j \in Kinds}
  BY <1>1 DEF JobIInv, GivenInv, Awaited, Settled
<1>8. CallsInv'
  BY <1>1, LeaveKeepsCalls DEF retries
<1>9. CASE lists' = [lists EXCEPT ![k] = objs] /\ UNCHANGED <<pc, err, flushing, usable, data, saved, clean>>
  <2>1. \A j \in Kinds : lists'[j] = IF j = k THEN objs ELSE lists[j]
    BY <1>1, <1>3, <1>9
  <2>2. JobTypeOK'
    BY <1>1, <1>3, <1>9 DEF JobTypeOK, config, data, retries
  <2>3. ListsInv'
    BY <1>1, <1>5, <1>6, <1>9, <2>1 DEF ListsInv, Awaited, Fits, data
  <2>4. RowsInv' /\ InsertedOnce'
    BY <1>9 DEF JobIInv, RowsInv, InsertedOnce, data
  <2>5. GivenInv'
    <3>1. obj \in UNION {Range(lists'[j]) : j \in Kinds}
      BY <1>1, <2>1
    <3>2. \A o \in UNION {Range(lists[j]) : j \in Kinds} : o \in UNION {Range(lists'[j]) : j \in Kinds}
      BY <1>1, <2>1
    <3>3. Awaited' = Kinds /\ pc' = "body"
      BY <1>1, <1>9 DEF Awaited
    <3>4. Settled' = Settled
      BY <1>9 DEF Settled, Astray, data
    <3> QED
      BY <1>1, <1>7, <1>9, <3>1, <3>2, <3>3, <3>4 DEF GivenInv, Settled
  <2> QED
    BY <1>8, <2>2, <2>3, <2>4, <2>5 DEF JobIInv
<1>10. CASE /\ FlushSucceeds(k[1], Range(objs))
            /\ lists' = [lists EXCEPT ![k] = <<>>]
            /\ UNCHANGED <<pc, flushing>>
  <2>1. \A j \in Kinds : lists'[j] = IF j = k THEN <<>> ELSE lists[j]
    BY <1>1, <1>3, <1>10
  <2>2. Flushes(k[1], Range(objs))
    BY <1>10 DEF Flushes
  <2>3. JobTypeOK'
    <3>1. lists' \in [Kinds -> Seq(Objs)]
      BY <1>3, <1>10, EmptySeq
    <3> QED
      BY <1>1, <1>2, <1>3, <1>4, <1>10, <2>2, <3>1, FlushTypes DEF JobTypeOK, config, retries
  <2>4. RowsInv' /\ InsertedOnce'
    BY <1>1, <1>2, <1>4, <1>6, <2>2, FlushIs, FlushClash DEF JobIInv
  <2>5. ListsInv'
    <3>1. \A j \in Kinds \ {k} : \A o \in Range(lists[j]) : Fits(j, o)'
      BY <1>1, <1>4, <1>5, <1>6, <2>2, FlushLists DEF JobIInv
    <3>2. Awaited' = Kinds
      BY <1>1, <1>10 DEF Awaited
    <3> QED
      BY <2>1, <3>1, <3>2, RangeEmpty DEF ListsInv, Fits
  <2>6. GivenInv'
    <3>1. Settled \union Range(objs) \subseteq Settled' /\ UNCHANGED <<err, clean>>
      <4>1. err' = err /\ err = "none"
        BY <1>7, <1>10 DEF FlushSucceeds
      <4> QED
        BY <1>2, <1>4, <2>2, <4>1, FlushIs DEF JobIInv
    <3>2. \A o \in UNION {Range(lists[j]) : j \in Kinds} :
            o \in Range(objs) \/ o \in UNION {Range(lists'[j]) : j \in Kinds}
      BY <1>1, <2>1
    <3>3. Awaited' = Kinds /\ pc' = "body"
      BY <1>1, <1>10 DEF Awaited
    <3> QED
      BY <1>1, <1>7, <3>1, <3>2, <3>3 DEF GivenInv, Settled
  <2> QED
    BY <1>8, <2>3, <2>4, <2>5, <2>6 DEF JobIInv
<1>11. CASE /\ FlushFails(k[1], Range(objs)) \/ FlushLost(k[1], Range(objs))
            /\ lists' = [lists EXCEPT ![k] = objs]
            /\ pc' = "finally" /\ flushing' \subseteq Kinds
  <2>1. \A j \in Kinds : lists'[j] = IF j = k THEN objs ELSE lists[j]
    BY <1>1, <1>3, <1>11
  <2>2. Flushes(k[1], Range(objs))
    BY <1>11 DEF Flushes
  <2>3. JobTypeOK'
    <3>1. lists' \in [Kinds -> Seq(Objs)]
      BY <1>1, <1>3, <1>11
    <3> QED
      BY <1>1, <1>2, <1>3, <1>4, <1>11, <2>2, <3>1, FlushTypes DEF JobTypeOK, config, retries
  <2>4. RowsInv' /\ InsertedOnce'
    BY <1>1, <1>2, <1>4, <1>6, <2>2, FlushIs, FlushClash DEF JobIInv
  <2>5. clean' = FALSE
    BY <1>11 DEF FlushFails, FlushLost
  <2>6. err' # "none" /\ hasRow' \subseteq hasRow \union unheard'
    BY <1>2, <1>4, <1>7, <2>2, <2>5, FlushIs DEF JobIInv
  <2>7. ListsInv'
    <3>1. \A j \in Kinds \ {k} : \A o \in Range(lists[j]) : Fits(j, o)'
      BY <1>1, <1>4, <1>5, <1>6, <2>2, FlushLists DEF JobIInv
    <3>2. \A j \in {k} : \A o \in Range(objs) : Fits(j, o)'
      <4>1. hasPk \subseteq hasPk' /\ unheard \subseteq unheard'
        BY <1>2, <1>4, <2>2, FlushIs DEF JobIInv
      <4> QED
        BY <1>6, <2>6, <4>1 DEF Fits
    <3>3. Awaited' \subseteq Kinds
      BY <1>11 DEF Awaited
    <3> QED
      BY <2>1, <3>1, <3>2, <3>3 DEF ListsInv, Fits
  <2>8. GivenInv'
    BY <1>11, <2>5, <2>6 DEF GivenInv
  <2> QED
    BY <1>8, <2>3, <2>4, <2>7, <2>8 DEF JobIInv
<1> QED
  BY <1>1, <1>9, <1>10, <1>11

\* Every step keeps the invariant.
LEMMA JobStep == JobIInv /\ [JobNext]_jobVars => JobIInv'
<1>1. ASSUME JobIInv, UNCHANGED jobVars PROVE JobIInv'
  <2>1. JobTypeOK'
    BY <1>1 DEF JobIInv, JobTypeOK, jobVars, config, job, retries, buffers, data
  <2>2. ListsInv' /\ RowsInv' /\ GivenInv' /\ InsertedOnce'
    BY <1>1 DEF JobIInv, ListsInv, RowsInv, GivenInv, InsertedOnce, Astray, Awaited, jobVars, config, job, buffers, data
  <2>3. CallsInv'
    BY <1>1 DEF JobIInv, CallsInv, Tried, jobVars, job, retries
  <2> QED
    BY <2>1, <2>2, <2>3 DEF JobIInv
<1> QED
  BY <1>1, CallKeeps, ConnectionErrorKeeps, TryAgainKeeps, GiveUpKeeps, SaveObjKeeps,
     BlockEndsKeeps, FlushedAllKeeps, FlushKeeps DEF JobNext

\* It holds at first.
LEMMA JobInitInv == JobInit => JobIInv
<1> SUFFICES ASSUME JobInit PROVE JobIInv
  OBVIOUS
<1>1. JobTypeOK
  BY JobConstants DEF JobInit, JobTypeOK
<1>2. ListsInv /\ RowsInv /\ GivenInv /\ InsertedOnce
  BY RangeEmpty DEF JobInit, ListsInv, RowsInv, GivenInv, InsertedOnce, Awaited
<1>3. CallsInv
  BY JobConstants DEF JobInit, CallsInv, Tried
<1> QED
  BY <1>1, <1>2, <1>3 DEF JobIInv

\* It holds in every reachable state.
THEOREM JobInvariance == JobSpec => []JobIInv
  BY JobInitInv, JobStep, PTL DEF JobSpec

\* Whatever was tried before, a job that ends well has saved all but the objects
\* whose pk no row has, and a block that raises what it was given until a flush
\* failed.
THEOREM AllIsSaved == JobSpec => []GivenIsSaved
<1>1. JobIInv => GivenIsSaved
  <2> SUFFICES ASSUME JobIInv PROVE GivenIsSaved
    OBVIOUS
  <2>1. pc = "done" => Objs \ saved \subseteq Astray
    BY RangeEmpty DEF JobIInv, JobTypeOK, GivenInv, Awaited
  <2>2. pc = "raised" /\ clean => Objs \ (Range(todo) \union saved) \subseteq Astray
    BY DEF JobIInv, GivenInv, Awaited
  <2> QED
    BY <2>1, <2>2 DEF GivenIsSaved
<1> QED
  BY <1>1, JobInvariance, PTL

\* However often batches are flushed and the function is called, an object whose
\* row is there is inserted only where the commit of that row was not heard of.
THEOREM NoneIsInsertedTwice == JobSpec => []InsertedOnce
<1>1. JobIInv => InsertedOnce
  BY DEF JobIInv
<1> QED
  BY <1>1, JobInvariance, PTL

\* Both decorators together call the function as often as they allow for, and
\* no more.
THEOREM CallsAreBounded == JobSpec => []CallsBounded
<1>1. ASSUME JobIInv PROVE CallsBounded
  <2>1. /\ tryIdx \in 0 .. MaxTries - 1 /\ triesLeft \in 0 .. ConnTries /\ calls \in Nat
        /\ MaxTries \in Nat \ {0} /\ ConnTries \in Nat \ {0}
    BY <1>1, JobConstants DEF JobIInv, JobTypeOK
  <2>2. /\ tryIdx + Tried <= calls /\ calls <= tryIdx * ConnTries + Tried
        /\ pc = "call" => triesLeft = ConnTries
        /\ pc = "failed" => /\ err \notin Refused => tryIdx = MaxTries - 1
                            /\ err = "closed" => triesLeft = 0
    BY <1>1 DEF JobIInv, CallsInv
  <2>3. /\ Tried \in 0 .. ConnTries
        /\ pc = "failed" => Tried \in 1 .. ConnTries
        /\ pc = "failed" /\ triesLeft = 0 => Tried = ConnTries
    BY <2>1 DEF Tried
  <2>4. calls <= MaxTries * ConnTries
    <3>1. (MaxTries - 1 - tryIdx) * ConnTries >= 0
      BY <2>1
    <3>2. /\ (MaxTries - 1 - tryIdx) * ConnTries = MaxTries * ConnTries - ConnTries - tryIdx * ConnTries
          /\ MaxTries * ConnTries \in Nat /\ tryIdx * ConnTries \in Nat
      BY <2>1
    <3> HIDE DEF Tried
    <3> QED
      BY <2>1, <2>2, <2>3, <3>1, <3>2
  <2>5. pc = "failed" /\ err \notin Refused => calls >= MaxTries
    BY <2>1, <2>2, <2>3
  <2>6. pc = "failed" /\ err = "closed" => triesLeft = 0 /\ calls >= MaxTries + ConnTries - 1
    BY <2>1, <2>2, <2>3 DEF Refused
  <2> QED
    BY <2>4, <2>5, <2>6 DEF CallsBounded
<1> QED
  BY <1>1, JobInvariance, PTL

-----------------------------------------------------------------------------
\* A set of numbers in order.
LEMMA InOrderIs ==
  ASSUME NEW n \in Nat, NEW S \in SUBSET (0 .. n)
  PROVE  /\ Cardinality(S) \in Nat
         /\ InOrder(S) \in [1 .. Cardinality(S) -> S]
         /\ Range(InOrder(S)) = S
         /\ \A i, j \in 1 .. Cardinality(S) : i < j => InOrder(S)[i] < InOrder(S)[j]
<1> DEFINE Ordered(Q, s) ==
             /\ s \in [1 .. Cardinality(Q) -> Q] /\ Range(s) = Q
             /\ \A i, j \in 1 .. Cardinality(Q) : i < j => s[i] < s[j]
           Good(k) == \A Q \in SUBSET (0 .. k - 1) : \E s : Ordered(Q, s)
           Bad == {k \in Nat : ~Good(k)}
<1>1. \A Q : Q \in SUBSET Nat /\ (\E k \in Nat : Q \subseteq 0 .. k) => IsFiniteSet(Q) /\ Cardinality(Q) \in Nat
  <2> SUFFICES ASSUME NEW Q \in SUBSET Nat, NEW k \in Nat, Q \subseteq 0 .. k
               PROVE  IsFiniteSet(Q) /\ Cardinality(Q) \in Nat
    OBVIOUS
  <2>1. \A q \in Q : q <= k
    OBVIOUS
  <2> QED
    BY <2>1, FS_BoundedSetOfNaturals, FS_CardinalityType
<1>2. Good(0)
  <2>1. ASSUME NEW Q \in SUBSET (0 .. 0 - 1) PROVE Ordered(Q, <<>>)
    <3>1. Q = {}
      OBVIOUS
    <3>2. Cardinality(Q) = 0
      BY <3>1, FS_EmptySet
    <3> QED
      BY <3>1, <3>2 DEF Range
  <2> HIDE DEF Ordered
  <2> QED
    BY <2>1
<1>3. ASSUME NEW k \in Nat, Good(k) PROVE Good(k + 1)
  <2> SUFFICES ASSUME NEW Q \in SUBSET (0 .. (k + 1) - 1)
               PROVE  \E s : Ordered(Q, s)
    OBVIOUS
  <2>1. CASE k \notin Q
    <3>1. Q \in SUBSET (0 .. k - 1)
      BY <2>1
    <3> QED
      BY <1>3, <3>1
  <2>2. CASE k \in Q
    <3> DEFINE P == Q \ {k}
               c == Cardinality(P)
    <3>1. P \in SUBSET (0 .. k - 1) /\ P \in SUBSET Nat /\ P \subseteq 0 .. k
      OBVIOUS
    <3>2. PICK p : Ordered(P, p)
      BY <1>3, <3>1
    <3>3. IsFiniteSet(P) /\ c \in Nat
      BY <1>1, <3>1
    <3>4. Q = P \cup {k} /\ k \notin P
      BY <2>2
    <3>5. Cardinality(Q) = c + 1
      <4> HIDE DEF P
      <4> QED
        BY <3>3, <3>4, FS_AddElement
    <3> DEFINE s == [i \in 1 .. c + 1 |-> IF i = c + 1 THEN k ELSE p[i]]
    <3>6. p \in [1 .. c -> P] /\ Range(p) = P /\ \A i, j \in 1 .. c : i < j => p[i] < p[j]
      BY <3>2
    <3> HIDE DEF P, c
    <3>7. /\ s \in [1 .. c + 1 -> Q] /\ s[c + 1] = k
          /\ \A i \in 1 .. c : s[i] = p[i] /\ s[i] \in P
      BY <3>3, <3>4, <3>6
    <3>8. Range(s) = Q
      <4>1. \A q \in P : \E i \in 1 .. c : p[i] = q
        BY <3>6 DEF Range
      <4>2. DOMAIN s = 1 .. c + 1 /\ \A i \in 1 .. c : i \in 1 .. c + 1
        BY <3>3
      <4>3. \A q \in P : q \in Range(s)
        BY <3>7, <4>1, <4>2 DEF Range
      <4>4. k \in Range(s)
        BY <3>3, <3>7 DEF Range
      <4>5. Range(s) \subseteq Q
        BY <3>7 DEF Range
      <4> QED
        BY <3>4, <4>3, <4>4, <4>5
    <3>9. \A i, j \in 1 .. c + 1 : i < j => s[i] < s[j]
      <4> SUFFICES ASSUME NEW i \in 1 .. c + 1, NEW j \in 1 .. c + 1, i < j PROVE s[i] < s[j]
        OBVIOUS
      <4>1. i \in 1 .. c
        BY <3>3
      <4>2. CASE j = c + 1
        <5>1. s[i] \in 0 .. k - 1
          BY <3>1, <3>7, <4>1
        <5> HIDE DEF s
        <5> QED
          BY <3>7, <4>2, <5>1
      <4>3. CASE j # c + 1
        BY <3>3, <3>6, <3>7, <4>1, <4>3
      <4> QED
        BY <4>2, <4>3
    <3> HIDE DEF s
    <3> QED
      BY <3>5, <3>7, <3>8, <3>9
  <2> QED
    BY <2>1, <2>2
<1>4. \A k \in Nat : Good(k)
  <2> HIDE DEF Good
  <2> SUFFICES ASSUME NEW l \in Nat, ~Good(l) PROVE FALSE
    OBVIOUS
  <2>1. Bad \in SUBSET Nat /\ Bad # {}
    OBVIOUS
  <2>2. PICK k \in Bad : \A j \in Bad : k <= j
    BY <2>1, LeastNat
  <2>3. k # 0
    BY <1>2
  <2>4. k - 1 \in Nat /\ k - 1 \notin Bad /\ (k - 1) + 1 = k
    BY <2>2, <2>3
  <2>5. Good(k - 1)
    BY <2>4
  <2> QED
    BY <1>3, <2>4, <2>5
<1>5. \E s : Ordered(S, s)
  <2>1. S \in SUBSET (0 .. (n + 1) - 1) /\ n + 1 \in Nat
    OBVIOUS
  <2>2. Good(n + 1)
    BY <1>4, <2>1
  <2> QED
    BY <2>1, <2>2
<1>6. Cardinality(S) \in Nat
  <2>1. S \in SUBSET Nat /\ S \subseteq 0 .. n
    OBVIOUS
  <2> QED
    BY <1>1, <2>1
<1>7. \E s \in [1 .. Cardinality(S) -> S] : (\A i, j \in DOMAIN s : i < j => s[i] < s[j]) /\ Range(s) = S
  BY <1>5
<1>8. /\ InOrder(S) \in [1 .. Cardinality(S) -> S]
      /\ (\A i, j \in DOMAIN InOrder(S) : i < j => InOrder(S)[i] < InOrder(S)[j]) /\ Range(InOrder(S)) = S
  BY <1>7 DEF InOrder
<1>9. DOMAIN InOrder(S) = 1 .. Cardinality(S)
  BY <1>8
<1> QED
  BY <1>6, <1>8, <1>9

-----------------------------------------------------------------------------
(* Plans. *)

\* What is on disk, and what one migration is.
LEMMA DiskIs ==
  ASSUME ReleaseTypeOK
  PROVE  /\ Len(migrations) \in Nat /\ OnDisk = 1 .. Len(migrations)
         /\ \A m \in OnDisk : /\ migrations[m] \in Migration /\ App(m) \in Nat
                             /\ migrations[m].needs \subseteq 1 .. m - 1
<1>1. migrations \in Seq(Migration)
  BY DEF ReleaseTypeOK
<1>2. Len(migrations) \in Nat /\ OnDisk = 1 .. Len(migrations)
  BY <1>1, LenProperties DEF OnDisk
<1>3. ASSUME NEW m \in OnDisk PROVE migrations[m] \in Migration /\ App(m) \in Nat
  <2>1. migrations[m] \in Migration
    BY <1>1, <1>2, <1>3
  <2>2. migrations[m].table \in Nat \X Nat
    BY <2>1, ReleaseConstants DEF Migration
  <2> QED
    BY <2>1, <2>2 DEF App
<1> QED
  BY <1>2, <1>3 DEF ReleaseTypeOK

\* A plan is closed, and the least that is.
LEMMA ForwardsPlanIs ==
  ASSUME ReleaseTypeOK, NEW m \in OnDisk
  PROVE  /\ m \in ForwardsPlan(m) /\ ForwardsPlan(m) \subseteq 1 .. m /\ 1 .. m \subseteq OnDisk
         /\ \A i \in ForwardsPlan(m) : migrations[i].needs \subseteq ForwardsPlan(m)
         /\ \A S \in SUBSET (1 .. m) :
              m \in S /\ (\A i \in S : migrations[i].needs \subseteq S) => ForwardsPlan(m) \subseteq S
<1>1. m \in 1 .. m /\ 1 .. m \subseteq OnDisk /\ m \in Nat
  BY DiskIs
<1>2. ASSUME NEW i \in ForwardsPlan(m), NEW z \in migrations[i].needs PROVE z \in ForwardsPlan(m)
  <2>1. i \in 1 .. m
    BY <1>2 DEF ForwardsPlan
  <2>2. z \in 1 .. m
    BY <1>1, <1>2, <2>1, DiskIs
  <2> QED
    BY <1>2, <2>2 DEF ForwardsPlan
<1>3. m \in ForwardsPlan(m)
  BY <1>1 DEF ForwardsPlan
<1> QED
  BY <1>1, <1>2, <1>3 DEF ForwardsPlan

\* The plan of what is in a plan is in it.
LEMMA PlanInPlan ==
  ASSUME ReleaseTypeOK, NEW m \in OnDisk, NEW n \in ForwardsPlan(m)
  PROVE  n \in OnDisk /\ n <= m /\ ForwardsPlan(n) \subseteq ForwardsPlan(m)
<1>1. n \in 1 .. m /\ n \in OnDisk /\ m \in Nat
  BY ForwardsPlanIs, DiskIs
<1> DEFINE S == ForwardsPlan(m) \cap (1 .. n)
<1>2. S \in SUBSET (1 .. n) /\ n \in S
  BY <1>1
<1>3. ASSUME NEW i \in S PROVE migrations[i].needs \subseteq S
  <2>1. migrations[i].needs \subseteq ForwardsPlan(m)
    BY <1>3, ForwardsPlanIs
  <2>2. i \in 1 .. n /\ i \in OnDisk
    BY <1>1, <1>3, DiskIs
  <2>3. migrations[i].needs \subseteq 1 .. i - 1
    BY <2>2, DiskIs
  <2>4. 1 .. i - 1 \subseteq 1 .. n
    BY <1>1, <2>2
  <2> QED
    BY <2>1, <2>3, <2>4
<1>4. ForwardsPlan(n) \subseteq S
  BY <1>1, <1>2, <1>3, ForwardsPlanIs
<1> QED
  BY <1>1, <1>4

\* A migration needs all the earlier ones of its app.
LEMMA AppInPlan ==
  ASSUME ReleaseIInv, NEW m \in OnDisk, NEW n \in OnDisk, n <= m, App(n) = App(m)
  PROVE  n \in ForwardsPlan(m)
<1> USE DEF ReleaseIInv
<1>0. OnDisk \subseteq Nat
  BY DiskIs
<1> DEFINE Bad == {k \in OnDisk : n <= k /\ App(k) = App(n) /\ n \notin ForwardsPlan(k)}
<1> SUFFICES ASSUME m \in Bad PROVE FALSE
  OBVIOUS
<1>1. PICK k \in Bad : \A j \in Bad : k <= j
  BY <1>0, LeastNat
<1>2. n # k
  BY <1>1, ForwardsPlanIs
<1>3. n < k
  BY <1>0, <1>1, <1>2
<1>4. PICK j \in migrations[k].needs : App(j) = App(k) /\ n <= j
  BY <1>1, <1>3 DEF HistoryInv
<1>5. j \in ForwardsPlan(k) /\ k \in OnDisk
  BY <1>1, <1>4, ForwardsPlanIs
<1>6. j < k /\ j \in OnDisk
  <2>1. j \in 1 .. k - 1 /\ k \in Nat
    BY <1>0, <1>4, <1>5, DiskIs
  <2> QED
    BY <1>5, <2>1, PlanInPlan
<1>7. j \notin Bad
  <2>1. j \in Nat /\ k \in Nat
    BY <1>0, <1>1, <1>6
  <2>2. ~(k <= j)
    BY <1>6, <2>1
  <2> HIDE DEF Bad
  <2> QED
    BY <1>1, <2>2
<1>8. n \in ForwardsPlan(j)
  BY <1>1, <1>4, <1>6, <1>7
<1> QED
  BY <1>1, <1>5, <1>8, PlanInPlan

\* The last migration of an app.
LEMMA LeafIs ==
  ASSUME ReleaseTypeOK, NEW n \in OnDisk
  PROVE  LET l == Leaf(App(n))
         IN  l \in OnDisk /\ App(l) = App(n) /\ \A m \in OnDisk : App(m) = App(n) => m <= l
<1> DEFINE S == {m \in OnDisk : App(m) = App(n)}
<1>1. PICK l \in S : \A m \in S : m <= l
  <2>1. Len(migrations) \in Nat /\ S \in SUBSET (0 .. Len(migrations)) /\ S # {}
    BY DiskIs
  <2> QED
    BY <2>1, GreatestNat
<1>2. l \in OnDisk /\ App(l) = App(n) /\ \A m \in OnDisk : App(m) = App(n) => m <= l
  BY <1>1
<1> QED
  BY <1>2 DEF Leaf

\* The apps, each once.
LEMMA AppsIs ==
  ASSUME ReleaseTypeOK
  PROVE  /\ Len(AppsInOrder) \in Nat /\ DOMAIN AppsInOrder = 1 .. Len(AppsInOrder)
         /\ \A i \in DOMAIN AppsInOrder : \E m \in OnDisk : AppsInOrder[i] = App(m)
         /\ \A m \in OnDisk : \E i \in DOMAIN AppsInOrder : AppsInOrder[i] = App(m)
<1> DEFINE S == {App(m) : m \in OnDisk}
           L == Len(migrations)
           Bounded(k) == \E b \in Nat : \A m \in 1 .. k : m \in OnDisk => App(m) <= b
           Bad == {k \in Nat : ~Bounded(k)}
<1>0. L \in Nat /\ OnDisk = 1 .. L /\ \A m \in OnDisk : App(m) \in Nat
  BY DiskIs
<1>1. Bounded(0)
  OBVIOUS
<1>2. ASSUME NEW k \in Nat, Bounded(k) PROVE Bounded(k + 1)
  <2>1. PICK b \in Nat : \A m \in 1 .. k : m \in OnDisk => App(m) <= b
    BY <1>2
  <2>2. \A m \in 1 .. k + 1 : m \in 1 .. k \/ m = k + 1
    OBVIOUS
  <2>3. CASE k + 1 \notin OnDisk
    BY <2>1, <2>2, <2>3
  <2>4. CASE k + 1 \in OnDisk
    <3>1. App(k + 1) \in Nat
      BY <1>0, <2>4
    <3> DEFINE c == IF b < App(k + 1) THEN App(k + 1) ELSE b
    <3>2. c \in Nat /\ b <= c /\ App(k + 1) <= c
      BY <3>1
    <3>3. \A m \in 1 .. k + 1 : m \in OnDisk => App(m) <= c
      <4> HIDE DEF c
      <4> QED
        BY <1>0, <2>1, <2>2, <3>2
    <3> QED
      BY <3>2, <3>3
  <2> QED
    BY <2>3, <2>4
<1>3. Bounded(L)
  <2> HIDE DEF Bounded
  <2> SUFFICES ASSUME ~Bounded(L) PROVE FALSE
    OBVIOUS
  <2>1. Bad \in SUBSET Nat /\ Bad # {}
    BY <1>0
  <2>2. PICK k \in Bad : \A j \in Bad : k <= j
    BY <2>1, LeastNat
  <2>3. k # 0
    BY <1>1
  <2>4. k - 1 \in Nat /\ k - 1 \notin Bad /\ (k - 1) + 1 = k
    BY <2>2, <2>3
  <2> QED
    BY <1>2, <2>2, <2>4
<1>4. PICK b \in Nat : \A m \in OnDisk : App(m) <= b
  BY <1>0, <1>3
<1>5. S \in SUBSET (0 .. b)
  BY <1>0, <1>4
<1>6. /\ Cardinality(S) \in Nat
      /\ AppsInOrder \in [1 .. Cardinality(S) -> S] /\ Range(AppsInOrder) = S
  BY <1>5, InOrderIs DEF AppsInOrder
<1>7. Len(AppsInOrder) = Cardinality(S)
  BY <1>6
<1> QED
  BY <1>6, <1>7 DEF Range

\* A plan for the migrations S: those that are not applied, each once and
\* after those it needs.
PlanFor(p, S) ==
  /\ p \in Seq(OnDisk) /\ Range(p) = S \ applied
  /\ \A j \in DOMAIN p, x \in OnDisk :
       x \in ForwardsPlan(p[j]) \ applied => \E i \in DOMAIN p : i <= j /\ p[i] = x
  /\ \A i, j \in DOMAIN p : p[i] = p[j] => i = j

\* After a plan for the migrations of the first apps come those that one more
\* needs.
LEMMA PlanGrows ==
  ASSUME ReleaseTypeOK, NEW Before \in SUBSET OnDisk, NEW After \in SUBSET OnDisk, Before \subseteq After,
         \A m \in After : ForwardsPlan(m) \subseteq After,
         NEW a, PlanFor(a, Before), NEW b \in Seq(OnDisk), Range(b) = (After \ Before) \ applied,
         \A i, j \in DOMAIN b : i < j => b[i] < b[j]
  PROVE  PlanFor(a \o b, After)
<1> DEFINE p == a \o b
           A == Len(a)
           B == Len(b)
<1>1. a \in Seq(OnDisk) /\ A \in Nat /\ B \in Nat /\ DOMAIN a = 1 .. A /\ DOMAIN b = 1 .. B
  BY DEF PlanFor
<1>2. /\ p \in Seq(OnDisk) /\ Len(p) = A + B /\ DOMAIN p = 1 .. A + B
      /\ \A i \in 1 .. A : p[i] = a[i]
      /\ \A i \in 1 .. B : p[A + i] = b[i]
  <2>1. p \in Seq(OnDisk) /\ Len(p) = A + B
    BY <1>1
  <2>2. \A i \in 1 .. A : p[i] = a[i]
    BY <1>1
  <2>3. \A i \in 1 .. B : p[A + i] = b[i]
    BY <1>1
  <2> QED
    BY <2>1, <2>2, <2>3
<1>3. ASSUME NEW j \in DOMAIN p, j \notin 1 .. A
      PROVE  j - A \in 1 .. B /\ p[j] = b[j - A] /\ b[j - A] \in (After \ Before) \ applied
  <2>1. j - A \in 1 .. B /\ A + (j - A) = j
    BY <1>1, <1>2, <1>3
  <2> QED
    BY <1>1, <1>2, <2>1 DEF Range
<1>4. \A i \in 1 .. A : a[i] \in Before \ applied
  BY <1>1 DEF PlanFor, Range
<1> HIDE DEF p, A, B
<1>5. Range(p) = After \ applied
  <2>1. \A x \in Before \ applied : \E i \in DOMAIN p : p[i] = x
    <3> TAKE x \in Before \ applied
    <3>1. PICK i \in 1 .. A : a[i] = x
      BY <1>1 DEF PlanFor, Range
    <3> QED
      BY <1>1, <1>2, <3>1
  <2>2. \A x \in (After \ Before) \ applied : \E i \in DOMAIN p : p[i] = x
    <3> TAKE x \in (After \ Before) \ applied
    <3>1. PICK i \in 1 .. B : b[i] = x
      BY <1>1 DEF Range
    <3>2. A + i \in DOMAIN p /\ p[A + i] = x
      BY <1>1, <1>2, <3>1
    <3> QED
      BY <3>2
  <2>3. \A i \in DOMAIN p : p[i] \in After \ applied
    BY <1>2, <1>3, <1>4
  <2> QED
    BY <2>1, <2>2, <2>3 DEF Range
<1>6. ASSUME NEW j \in DOMAIN p, NEW x \in OnDisk, x \in ForwardsPlan(p[j]) \ applied
      PROVE  \E i \in DOMAIN p : i <= j /\ p[i] = x
  <2>1. CASE j \in 1 .. A
    <3>1. PICK i \in 1 .. A : i <= j /\ a[i] = x
      BY <1>1, <1>2, <1>6, <2>1 DEF PlanFor
    <3> QED
      BY <1>1, <1>2, <3>1
  <2>2. CASE j \notin 1 .. A
    <3>1. j - A \in 1 .. B /\ p[j] = b[j - A] /\ p[j] \in After /\ j \in Int
      BY <1>2, <1>3, <2>2, <1>1
    <3>2. x \in After
      BY <1>6, <3>1
    <3>3. CASE x \in Before
      <4>1. PICK i \in 1 .. A : a[i] = x
        BY <1>1, <1>6, <3>3 DEF PlanFor, Range
      <4>2. i <= j /\ i \in DOMAIN p
        BY <1>1, <1>2, <2>2
      <4> QED
        BY <1>2, <4>1, <4>2
    <3>4. CASE x \notin Before
      <4>1. PICK i \in 1 .. B : b[i] = x
        BY <1>1, <1>6, <3>2, <3>4 DEF Range
      <4>2. x <= p[j] /\ x \in Int /\ p[j] \in Int
        <5>1. p[j] \in OnDisk
          BY <3>1
        <5> QED
          BY <1>6, <5>1, PlanInPlan, DiskIs
      <4>3. ~(j - A < i)
        BY <1>1, <3>1, <4>1, <4>2
      <4>4. A + i <= j /\ A + i \in DOMAIN p
        BY <1>1, <1>2, <3>1, <4>3
      <4> QED
        BY <1>2, <4>1, <4>4
    <3> QED
      BY <3>3, <3>4
  <2> QED
    BY <2>1, <2>2
<1>7. ASSUME NEW i \in DOMAIN p, NEW j \in DOMAIN p, p[i] = p[j] PROVE i = j
  <2>1. CASE i \in 1 .. A /\ j \in 1 .. A
    BY <1>1, <1>2, <1>7, <2>1 DEF PlanFor
  <2>2. CASE i \notin 1 .. A /\ j \notin 1 .. A
    <3>1. /\ i - A \in 1 .. B /\ j - A \in 1 .. B /\ b[i - A] = b[j - A]
          /\ b[i - A] \in OnDisk
      BY <1>3, <1>7, <2>2
    <3>2. b[i - A] \in Int
      BY <3>1, DiskIs
    <3>3. ~(i - A < j - A) /\ ~(j - A < i - A)
      BY <1>1, <3>1, <3>2
    <3> QED
      BY <1>1, <1>2, <3>3
  <2>3. CASE i \in 1 .. A /\ j \notin 1 .. A
    BY <1>2, <1>3, <1>4, <1>7, <2>3
  <2>4. CASE i \notin 1 .. A /\ j \in 1 .. A
    BY <1>2, <1>3, <1>4, <1>7, <2>4
  <2> QED
    BY <2>1, <2>2, <2>3, <2>4
<1> QED
  BY <1>2, <1>5, <1>6, <1>7 DEF PlanFor, p

\* The plan of the command is a plan for all that is on disk.
LEMMA PlanIs ==
  ASSUME ReleaseIInv
  PROVE  PlanFor(Plan, OnDisk)
<1> DEFINE apps == AppsInOrder
           N == Len(apps)
           seen == [i \in 0 .. N |-> UNION {ForwardsPlan(Leaf(apps[k])) : k \in 1 .. i}]
           ss == [i \in DOMAIN apps |-> InOrder((seen[i] \ seen[i - 1]) \ applied)]
<1>0. ReleaseTypeOK
  BY DEF ReleaseIInv
<1>1. Plan = FlattenSeq(ss)
  BY DEF Plan
<1>2. N \in Nat /\ DOMAIN apps = 1 .. N
  BY <1>0, AppsIs
<1>3. \A k \in 1 .. N : Leaf(apps[k]) \in OnDisk
  BY <1>0, <1>2, AppsIs, LeafIs
<1>4. /\ \A i \in 0 .. N : \A x : x \in seen[i] <=> \E k \in 1 .. i : x \in ForwardsPlan(Leaf(apps[k]))
      /\ ss \in [1 .. N -> {ss[i] : i \in 1 .. N}]
      /\ \A i \in 1 .. N : ss[i] = InOrder((seen[i] \ seen[i - 1]) \ applied)
  BY <1>2
<1> HIDE DEF apps, N, seen, ss
<1>5. ASSUME NEW i \in 0 .. N, NEW x \in seen[i]
      PROVE  x \in OnDisk /\ ForwardsPlan(x) \subseteq seen[i]
  <2>1. PICK k \in 1 .. i : x \in ForwardsPlan(Leaf(apps[k]))
    BY <1>4, <1>5
  <2>2. Leaf(apps[k]) \in OnDisk
    BY <1>2, <1>3, <2>1
  <2>3. x \in OnDisk /\ ForwardsPlan(x) \subseteq ForwardsPlan(Leaf(apps[k]))
    BY <1>0, <2>1, <2>2, PlanInPlan
  <2> QED
    BY <1>4, <2>1, <2>3
<1>6. ASSUME NEW i \in 1 .. N PROVE i - 1 \in 0 .. N /\ i \in 0 .. N /\ seen[i - 1] \subseteq seen[i]
  <2>1. i - 1 \in 0 .. N /\ i \in 0 .. N /\ 1 .. i - 1 \subseteq 1 .. i
    BY <1>2
  <2> QED
    BY <1>4, <2>1
<1>7. OnDisk \subseteq seen[N]
  <2> SUFFICES ASSUME NEW m \in OnDisk PROVE m \in seen[N]
    OBVIOUS
  <2>1. PICK k \in 1 .. N : apps[k] = App(m)
    BY <1>0, <1>2, AppsIs DEF apps
  <2>2. Leaf(apps[k]) \in OnDisk /\ App(Leaf(apps[k])) = App(m) /\ m <= Leaf(apps[k])
    BY <1>0, <2>1, LeafIs
  <2>3. m \in ForwardsPlan(Leaf(apps[k]))
    BY <2>2, AppInPlan
  <2>4. N \in 0 .. N
    BY <1>2
  <2> QED
    BY <1>4, <2>1, <2>3, <2>4
<1>8. ASSUME NEW i \in 1 .. N
      PROVE  /\ ss[i] \in Seq(OnDisk) /\ Range(ss[i]) = (seen[i] \ seen[i - 1]) \ applied
             /\ \A j, k \in DOMAIN ss[i] : j < k => ss[i][j] < ss[i][k]
  <2> DEFINE S == (seen[i] \ seen[i - 1]) \ applied
  <2>1. S \subseteq OnDisk
    BY <1>5, <1>6
  <2>2. Len(migrations) \in Nat /\ S \in SUBSET (0 .. Len(migrations))
    BY <1>0, <2>1, DiskIs
  <2>3. ss[i] = InOrder(S)
    BY <1>4
  <2> HIDE DEF S
  <2>4. /\ Cardinality(S) \in Nat
        /\ InOrder(S) \in [1 .. Cardinality(S) -> S]
        /\ Range(InOrder(S)) = S
        /\ \A j, k \in 1 .. Cardinality(S) : j < k => InOrder(S)[j] < InOrder(S)[k]
    BY <2>2, InOrderIs
  <2>5. ss[i] \in [1 .. Cardinality(S) -> OnDisk] /\ DOMAIN ss[i] = 1 .. Cardinality(S)
    BY <2>1, <2>3, <2>4
  <2>6. ss[i] \in Seq(OnDisk)
    BY <2>4, <2>5
  <2> QED
    BY <2>3, <2>4, <2>5, <2>6 DEF S
<1>9. ss \in [1 .. N -> Seq(OnDisk)]
  BY <1>4, <1>8
<1>10. PICK g \in [0 .. N -> Seq(OnDisk)] :
         /\ g[0] = <<>> /\ \A i \in 1 .. N : g[i] = g[i - 1] \o ss[i]
         /\ FlattenSeq(ss) = g[N]
  BY <1>2, <1>9, FlattenIs
<1> DEFINE Bad == {k \in 0 .. N : ~PlanFor(g[k], seen[k])}
<1>11. 0 \notin Bad
  <2>1. seen[0] = {}
    <3>1. 0 \in 0 .. N /\ 1 .. 0 = {}
      BY <1>2
    <3> QED
      BY <1>4, <3>1
  <2>2. Range(<<>>) = {} /\ <<>> \in Seq(OnDisk) /\ DOMAIN <<>> = {}
    BY DEF Range
  <2>3. PlanFor(<<>>, {})
    BY <2>2 DEF PlanFor
  <2> QED
    BY <1>10, <2>1, <2>3
<1>12. ASSUME NEW k \in 1 .. N, PlanFor(g[k - 1], seen[k - 1]) PROVE PlanFor(g[k], seen[k])
  <2>1. seen[k] \in SUBSET OnDisk /\ \A m \in seen[k] : ForwardsPlan(m) \subseteq seen[k]
    BY <1>5, <1>6
  <2>2. seen[k - 1] \in SUBSET OnDisk /\ seen[k - 1] \subseteq seen[k]
    BY <1>6, <2>1
  <2>3. PlanFor(g[k - 1] \o ss[k], seen[k])
    BY <1>0, <1>8, <1>12, <2>1, <2>2, PlanGrows
  <2> QED
    BY <1>10, <2>3
<1>13. PlanFor(g[N], seen[N])
  <2> SUFFICES ASSUME ~PlanFor(g[N], seen[N]) PROVE FALSE
    OBVIOUS
  <2>1. Bad \in SUBSET Nat /\ Bad # {}
    <3>1. N \in Bad
      BY <1>2
    <3> QED
      BY <3>1
  <2>2. PICK k \in Bad : \A j \in Bad : k <= j
    BY <2>1, LeastNat
  <2>3. k # 0 /\ k \in 0 .. N /\ ~PlanFor(g[k], seen[k])
    BY <1>11, <2>2
  <2>4. k \in 1 .. N /\ k - 1 \in 0 .. N /\ k - 1 \notin Bad
    BY <1>2, <2>2, <2>3
  <2> QED
    BY <1>12, <2>3, <2>4
<1>14. seen[N] = OnDisk
  <2>1. N \in 0 .. N
    BY <1>2
  <2> QED
    BY <1>5, <1>7, <2>1
<1> QED
  BY <1>1, <1>10, <1>13, <1>14

\* What is left when the migrations for later are taken off the end.
LEMMA RStripIs ==
  ASSUME NEW p \in Seq(OnDisk)
  PROVE  \E K \in 0 .. Len(p) :
           /\ RStrip(p) = SubSeq(p, 1, K)
           /\ K # 0 => ~migrations[p[K]].postdeploy
           /\ \A i \in K + 1 .. Len(p) : migrations[p[i]].postdeploy
<1> DEFINE L == Len(p)
           Early == {j \in 1 .. L : ~migrations[p[j]].postdeploy}
           kept == {i \in DOMAIN p : \E j \in i .. L : ~migrations[p[j]].postdeploy}
<1>1. L \in Nat /\ DOMAIN p = 1 .. L
  OBVIOUS
<1>2. RStrip(p) = SubSeq(p, 1, Cardinality(kept))
  BY DEF RStrip
<1> HIDE DEF L
<1>3. CASE Early = {}
  <2>1. kept = {}
    <3> SUFFICES ASSUME NEW i \in kept PROVE FALSE
      OBVIOUS
    <3>1. PICK j \in i .. L : ~migrations[p[j]].postdeploy
      OBVIOUS
    <3>2. j \in 1 .. L
      BY <1>1, <3>1
    <3> QED
      BY <1>3, <3>1, <3>2
  <2>2. Cardinality(kept) = 0
    <3> HIDE DEF kept
    <3> QED
      BY <2>1, FS_EmptySet
  <2>3. \A i \in 0 + 1 .. L : migrations[p[i]].postdeploy
    BY <1>3
  <2>4. 0 \in 0 .. L /\ RStrip(p) = SubSeq(p, 1, 0)
    <3> HIDE DEF kept
    <3> QED
      BY <1>1, <1>2, <2>2
  <2> HIDE DEF Early, kept
  <2> QED
    BY <2>3, <2>4 DEF L
<1>4. CASE Early # {}
  <2>1. Early \in SUBSET (0 .. L)
    BY <1>1
  <2>2. PICK K \in Early : \A j \in Early : j <= K
    BY <1>1, <1>4, <2>1, GreatestNat
  <2>3. K \in 1 .. L /\ ~migrations[p[K]].postdeploy
    BY <2>2
  <2>4. kept = 1 .. K
    <3>1. ASSUME NEW i \in kept PROVE i \in 1 .. K
      <4>1. PICK j \in i .. L : ~migrations[p[j]].postdeploy
        BY <3>1
      <4>2. j \in Early /\ i \in 1 .. L
        BY <1>1, <3>1, <4>1
      <4> QED
        BY <1>1, <2>2, <2>3, <4>1, <4>2
    <3>2. ASSUME NEW i \in 1 .. K PROVE i \in kept
      <4>1. i \in 1 .. L /\ K \in i .. L
        BY <1>1, <2>3
      <4> QED
        BY <1>1, <2>3, <4>1
    <3> HIDE DEF kept
    <3> QED
      BY <3>1, <3>2
  <2>5. Cardinality(kept) = K
    <3> HIDE DEF kept
    <3>1. K \in Int /\ 1 \in Int /\ 1 <= K
      BY <1>1, <2>3
    <3>2. Cardinality(1 .. K) = K - 1 + 1
      BY <3>1, FS_Interval
    <3> QED
      BY <1>1, <2>3, <2>4, <3>2
  <2>6. ASSUME NEW i \in K + 1 .. L PROVE migrations[p[i]].postdeploy
    <3>1. i \in 1 .. L /\ ~(i <= K)
      BY <1>1, <2>3
    <3> QED
      BY <2>2, <3>1
  <2>7. K \in 0 .. L
    BY <1>1, <2>3
  <2> HIDE DEF Early, kept
  <2> QED
    BY <1>2, <2>3, <2>5, <2>6, <2>7 DEF L
<1> QED
  BY <1>3, <1>4

\* What the command does, if anything: it applies what the last of its plan
\* needs, all of it in the plan and safe by its look.
LEMMA PredeployIs ==
  ASSUME ReleaseIInv, Predeploy
  PROVE  \E K \in 0 .. Len(Plan) :
           LET p == SubSeq(Plan, 1, K) IN
           /\ p \in Seq(OnDisk) /\ Len(p) = K /\ \A i \in 1 .. K : p[i] = Plan[i]
           /\ migrations' = migrations /\ code' = code /\ outcome' \in {"ok", "refused"}
           /\ \A i \in K + 1 .. Len(Plan) : migrations[Plan[i]].postdeploy
           /\ outcome' = "ok" /\ K # 0 => applied' = applied \cup ForwardsPlan(Plan[K])
           /\ \/ applied' = applied
              \/ /\ K # 0 /\ applied' = applied \cup ForwardsPlan(Plan[K])
                 /\ \A i \in 1 .. K : LooksSafe(p, i)
                 /\ \A x \in ForwardsPlan(Plan[K]) \ applied : \E i \in 1 .. K : p[i] = x
<1> DEFINE L == Len(Plan)
           p == RStrip(Plan)
<1>1. PlanFor(Plan, OnDisk)
  BY PlanIs
<1>2. Plan \in Seq(OnDisk) /\ L \in Nat /\ DOMAIN Plan = 1 .. L
  BY <1>1 DEF PlanFor
<1>3. PICK K \in 0 .. L :
        /\ p = SubSeq(Plan, 1, K)
        /\ K # 0 => ~migrations[Plan[K]].postdeploy
        /\ \A i \in K + 1 .. L : migrations[Plan[i]].postdeploy
  BY <1>2, RStripIs
<1> HIDE DEF L
<1>4. p \in Seq(OnDisk) /\ Len(p) = K /\ DOMAIN p = 1 .. K /\ \A i \in 1 .. K : p[i] = Plan[i]
  <2>1. K \in Nat /\ K <= L
    BY <1>2, <1>3
  <2>2. SubSeq(Plan, 1, K) \in Seq(OnDisk) /\ Len(SubSeq(Plan, 1, K)) = K
        /\ \A i \in 1 .. K : SubSeq(Plan, 1, K)[i] = Plan[i]
    BY <1>2, <2>1 DEF L
  <2> HIDE DEF p
  <2>3. p \in Seq(OnDisk) /\ Len(p) = K /\ \A i \in 1 .. K : p[i] = Plan[i]
    BY <1>3, <2>2
  <2> QED
    BY <2>3
<1>5. p = <<>> <=> K = 0
  <2> HIDE DEF p
  <2> QED
    BY <1>4, EmptySeq
<1>6. migrations' = migrations /\ code' = code /\ outcome' \in {"ok", "refused"}
  BY DEF Predeploy
<1>7. /\ outcome' = "ok" => applied' = IF p = <<>> THEN applied ELSE applied \cup ForwardsPlan(p[Len(p)])
      /\ \/ applied' = applied
         \/ /\ applied' = IF p = <<>> THEN applied ELSE applied \cup ForwardsPlan(p[Len(p)])
            /\ \A i \in DOMAIN p : LooksSafe(p, i)
  BY DEF Predeploy, Migrated
<1> HIDE DEF p
<1>8. K # 0 => p[Len(p)] = Plan[K] /\ p # <<>> /\ Plan[K] \in OnDisk /\ K \in DOMAIN Plan
  BY <1>2, <1>3, <1>4, <1>5
<1>9. K # 0 => \A x \in ForwardsPlan(Plan[K]) \ applied : \E i \in 1 .. K : p[i] = x
  <2> SUFFICES ASSUME K # 0, NEW x \in ForwardsPlan(Plan[K]) \ applied
               PROVE  \E i \in 1 .. K : p[i] = x
    OBVIOUS
  <2>1. x \in OnDisk
    BY <1>8, PlanInPlan DEF ReleaseIInv
  <2>2. PICK i \in DOMAIN Plan : i <= K /\ Plan[i] = x
    BY <1>1, <1>8, <2>1 DEF PlanFor
  <2>3. i \in 1 .. K
    BY <1>2, <1>3, <2>2
  <2> QED
    BY <1>4, <2>2, <2>3
<1>10. outcome' = "ok" /\ K # 0 => applied' = applied \cup ForwardsPlan(Plan[K])
  BY <1>7, <1>8
<1>11. \/ applied' = applied
       \/ /\ K # 0 /\ applied' = applied \cup ForwardsPlan(Plan[K])
          /\ \A i \in 1 .. K : LooksSafe(p, i)
          /\ \A x \in ForwardsPlan(Plan[K]) \ applied : \E i \in 1 .. K : p[i] = x
  BY <1>4, <1>5, <1>7, <1>8, <1>9
<1> QED
  BY <1>3, <1>4, <1>6, <1>10, <1>11 DEF L

\* What the command applies is in its plan, was not applied, and looks safe.
LEMMA PredeployApplies ==
  ASSUME ReleaseIInv, Predeploy, NEW m \in applied' \ applied
  PROVE  \E p \in Seq(OnDisk), i \in Nat :
           /\ i \in DOMAIN p /\ p[i] = m /\ LooksSafe(p, i)
           /\ \A j \in DOMAIN p : p[j] \in OnDisk \ applied
<1>1. PICK K \in 0 .. Len(Plan) :
        LET p == SubSeq(Plan, 1, K) IN
        /\ p \in Seq(OnDisk) /\ Len(p) = K /\ \A i \in 1 .. K : p[i] = Plan[i]
        /\ \/ applied' = applied
           \/ /\ K # 0 /\ applied' = applied \cup ForwardsPlan(Plan[K])
              /\ \A i \in 1 .. K : LooksSafe(p, i)
              /\ \A x \in ForwardsPlan(Plan[K]) \ applied : \E i \in 1 .. K : p[i] = x
  BY PredeployIs
<1> DEFINE p == SubSeq(Plan, 1, K)
<1>2. p \in Seq(OnDisk) /\ Len(p) = K /\ \A i \in 1 .. K : p[i] = Plan[i]
  BY <1>1
<1>3. m \in ForwardsPlan(Plan[K]) \ applied
  BY <1>1
<1>4. PICK i \in 1 .. K : p[i] = m /\ LooksSafe(p, i)
  BY <1>1, <1>3
<1> HIDE DEF p
<1>5. PlanFor(Plan, OnDisk)
  BY PlanIs
<1>6. Len(Plan) \in Nat /\ DOMAIN Plan = 1 .. Len(Plan) /\ DOMAIN p = 1 .. K /\ i \in Nat
  <2>1. Plan \in Seq(OnDisk)
    BY <1>5 DEF PlanFor
  <2>2. Len(Plan) \in Nat /\ DOMAIN Plan = 1 .. Len(Plan)
    BY <2>1
  <2> QED
    BY <1>2, <2>2
<1>7. \A j \in DOMAIN p : p[j] \in OnDisk \ applied
  <2> TAKE j \in DOMAIN p
  <2>1. j \in DOMAIN Plan /\ p[j] = Plan[j]
    BY <1>2, <1>6
  <2> QED
    BY <1>5, <2>1 DEF PlanFor, Range
<1> QED
  BY <1>2, <1>4, <1>6, <1>7

-----------------------------------------------------------------------------
(* The release. *)

\* The invariant holds at the start.
LEMMA ReleaseInitInv == ReleaseInit => ReleaseIInv
<1> SUFFICES ASSUME ReleaseInit PROVE ReleaseIInv
  OBVIOUS
<1> DEFINE r == [table |-> <<1, 1>>, op |-> "create", field |-> 0,
                 postdeploy |-> FALSE, safe |-> FALSE, needs |-> {}]
<1>1. migrations = <<r>> /\ applied = {1} /\ code = {1} /\ outcome = "none"
  BY DEF ReleaseInit
<1>2. r \in Migration
  BY ReleaseConstants DEF Migration, Harmless
<1>3. r.needs = {} /\ r.safe = FALSE
  OBVIOUS
<1> HIDE DEF r
<1>4. migrations \in Seq(Migration) /\ OnDisk = {1} /\ migrations[1] = r
  BY <1>1, <1>2 DEF OnDisk
<1>5. ReleaseTypeOK
  BY <1>1, <1>3, <1>4 DEF ReleaseTypeOK
<1>6. HistoryInv
  BY <1>3, <1>4 DEF HistoryInv
<1> QED
  BY <1>5, <1>6 DEF ReleaseIInv

\* A migration that is written keeps it.
LEMMA WriteKeeps ==
  ASSUME ReleaseIInv, Write
  PROVE  ReleaseIInv'
<1>0. ReleaseTypeOK /\ HistoryInv
  BY DEF ReleaseIInv
<1>1. PICK t \in Tables, op \in Harmless \cup {"add_required", "remove"},
           postdeploy \in BOOLEAN, safe \in BOOLEAN :
        LET own == {m \in OnDisk : App(m) = t[1]} IN
        \E field \in IF op = "remove" THEN Columns(OnDisk, t) ELSE {0},
           other \in {{}} \cup {{m} : m \in OnDisk \ own} :
          /\ op = "create" <=> ~Exists(OnDisk, t)
          /\ safe => op \in Harmless /\ ~postdeploy
          /\ migrations' = Append(migrations,
               [table |-> t, op |-> op, field |-> field, postdeploy |-> postdeploy, safe |-> safe,
                needs |-> other \cup {m \in own : \A n \in own : n <= m}])
  BY DEF Write
<1> DEFINE own == {m \in OnDisk : App(m) = t[1]}
<1>2. PICK field \in IF op = "remove" THEN Columns(OnDisk, t) ELSE {0},
           other \in {{}} \cup {{m} : m \in OnDisk \ own} :
          /\ op = "create" <=> ~Exists(OnDisk, t)
          /\ safe => op \in Harmless /\ ~postdeploy
          /\ migrations' = Append(migrations,
               [table |-> t, op |-> op, field |-> field, postdeploy |-> postdeploy, safe |-> safe,
                needs |-> other \cup {m \in own : \A n \in own : n <= m}])
  BY <1>1
<1> DEFINE needs == other \cup {m \in own : \A n \in own : n <= m}
           r == [table |-> t, op |-> op, field |-> field, postdeploy |-> postdeploy, safe |-> safe,
                 needs |-> needs]
<1>3. PICK L \in Nat : L = Len(migrations) /\ OnDisk = 1 .. L /\ migrations \in Seq(Migration)
  BY <1>0, DiskIs DEF ReleaseTypeOK
<1>4. applied' = applied /\ code' = code /\ outcome' = "none"
  BY DEF Write
<1>5. needs \subseteq 1 .. L
  BY <1>3
<1>6. field \in Nat
  BY <1>3 DEF Columns, On
<1>7. /\ r \in Migration /\ r.needs = needs /\ r.table = t /\ r.op = op /\ r.safe = safe
  <2>1. needs \subseteq Nat
    BY <1>3, <1>5
  <2> HIDE DEF needs
  <2> QED
    BY <1>6, <2>1 DEF Migration
<1>8. migrations' = Append(migrations, r)
  BY <1>2
<1>9. r.table[1] = t[1]
  BY <1>7
<1> HIDE DEF r
<1>10. /\ migrations' \in Seq(Migration) /\ OnDisk' = 1 .. L + 1
       /\ \A m \in OnDisk : migrations'[m] = migrations[m]
       /\ migrations'[L + 1] = r
  <2>1. /\ migrations' \in Seq(Migration) /\ Len(migrations') = L + 1
        /\ \A m \in 1 .. L : migrations'[m] = migrations[m]
        /\ migrations'[L + 1] = r
    BY <1>3, <1>7, <1>8, AppendProperties
  <2>2. OnDisk' = 1 .. L + 1
    BY <2>1 DEF OnDisk
  <2> QED
    BY <1>3, <2>1, <2>2
<1> HIDE DEF needs
<1>11. /\ \A m \in OnDisk' : m \in OnDisk \/ m = L + 1
       /\ \A m \in OnDisk : m \in OnDisk' /\ m \in Nat /\ m < L + 1 /\ App(m)' = App(m)
       /\ L + 1 \notin OnDisk /\ App(L + 1)' = t[1]
  <2>1. \A m \in OnDisk : App(m)' = App(m)
    BY <1>10 DEF App
  <2>2. App(L + 1)' = t[1]
    BY <1>9, <1>10 DEF App
  <2> QED
    BY <1>3, <1>10, <2>1, <2>2
<1>12. ReleaseTypeOK'
  <2>1. \A m \in OnDisk' : migrations'[m].needs \subseteq 1 .. m - 1
    <3> TAKE m \in OnDisk'
    <3>1. CASE m \in OnDisk
      BY <1>0, <1>10, <3>1 DEF ReleaseTypeOK
    <3>2. CASE m = L + 1
      <4>1. migrations'[m].needs = needs /\ 1 .. m - 1 = 1 .. L
        BY <1>7, <1>10, <3>2
      <4>2. needs \subseteq 1 .. L
        BY <1>3, <1>5
      <4> QED
        BY <4>1, <4>2
    <3> QED
      BY <1>11, <3>1, <3>2
  <2>2. code' \subseteq OnDisk' /\ applied' \subseteq OnDisk'
    BY <1>0, <1>4, <1>11 DEF ReleaseTypeOK
  <2>3. \A m \in applied' : migrations'[m].needs \subseteq applied'
    BY <1>0, <1>4, <1>10 DEF ReleaseTypeOK
  <2> QED
    BY <1>4, <1>10, <2>1, <2>2, <2>3 DEF ReleaseTypeOK
<1>13. \A m \in OnDisk' : migrations'[m].safe => migrations'[m].op \in Harmless
  <2> TAKE m \in OnDisk'
  <2>1. CASE m \in OnDisk
    BY <1>0, <1>10, <2>1 DEF HistoryInv
  <2>2. CASE m = L + 1
    BY <1>2, <1>7, <1>10, <2>2
  <2> QED
    BY <1>11, <2>1, <2>2
<1>14. ASSUME NEW m \in OnDisk', NEW n \in OnDisk',
              migrations'[m].op = "create", migrations'[n].op = "create",
              migrations'[m].table = migrations'[n].table
       PROVE  m = n
  <2>1. ASSUME NEW k \in OnDisk, migrations[k].op = "create", migrations[k].table = t, op = "create"
        PROVE  FALSE
    BY <1>2, <2>1 DEF Exists, On
  <2>2. CASE m \in OnDisk /\ n \in OnDisk
    BY <1>0, <1>10, <1>14, <2>2 DEF HistoryInv
  <2>3. CASE m = L + 1 /\ n \in OnDisk
    BY <1>7, <1>10, <1>14, <2>1, <2>3
  <2>4. CASE m \in OnDisk /\ n = L + 1
    BY <1>7, <1>10, <1>14, <2>1, <2>4
  <2> QED
    BY <1>11, <2>2, <2>3, <2>4
<1>15. ASSUME NEW m \in OnDisk', NEW n \in OnDisk', n < m, App(n)' = App(m)'
       PROVE  \E k \in migrations'[m].needs : App(k)' = App(m)' /\ n <= k
  <2>1. CASE m \in OnDisk
    <3>1. n \in OnDisk
      BY <1>3, <1>11, <1>15, <2>1
    <3>2. PICK k \in migrations[m].needs : App(k) = App(m) /\ n <= k
      BY <1>0, <1>11, <1>15, <2>1, <3>1 DEF HistoryInv
    <3>3. k \in OnDisk
      BY <1>0, <1>3, <2>1, DiskIs
    <3> QED
      BY <1>10, <1>11, <2>1, <3>2, <3>3
  <2>2. CASE m = L + 1
    <3>1. n \in own
      BY <1>3, <1>11, <1>15, <2>2
    <3>2. own \in SUBSET (0 .. L) /\ own # {}
      BY <1>3, <3>1
    <3>3. PICK k \in own : \A j \in own : j <= k
      BY <1>3, <3>2, GreatestNat
    <3>4. k \in migrations'[m].needs
      BY <1>7, <1>10, <2>2, <3>3 DEF needs
    <3>5. App(k)' = App(m)' /\ n <= k
      BY <1>11, <2>2, <3>1, <3>3
    <3> QED
      BY <3>4, <3>5
  <2> QED
    BY <1>11, <2>1, <2>2
<1>16. HistoryInv'
  BY <1>13, <1>14, <1>15 DEF HistoryInv
<1> QED
  BY <1>12, <1>16 DEF ReleaseIInv

\* The command keeps it.
LEMMA PredeployKeeps ==
  ASSUME ReleaseIInv, Predeploy
  PROVE  ReleaseIInv'
<1>0. ReleaseTypeOK /\ HistoryInv
  BY DEF ReleaseIInv
<1>1. PICK K \in 0 .. Len(Plan) :
        /\ migrations' = migrations /\ code' = code /\ outcome' \in {"ok", "refused"}
        /\ \/ applied' = applied
           \/ K # 0 /\ applied' = applied \cup ForwardsPlan(Plan[K])
  BY PredeployIs
<1>2. OnDisk' = OnDisk /\ \A m : App(m)' = App(m)
  BY <1>1 DEF OnDisk, App
<1>3. applied' \subseteq OnDisk /\ \A m \in applied' : migrations[m].needs \subseteq applied'
  <2>1. CASE applied' = applied
    BY <1>0, <2>1 DEF ReleaseTypeOK
  <2>2. CASE K # 0 /\ applied' = applied \cup ForwardsPlan(Plan[K])
    <3>1. Plan \in Seq(OnDisk)
      BY PlanIs DEF PlanFor
    <3>2. Plan[K] \in OnDisk
      BY <2>2, <3>1
    <3>3. ForwardsPlan(Plan[K]) \subseteq OnDisk
          /\ \A m \in ForwardsPlan(Plan[K]) : migrations[m].needs \subseteq ForwardsPlan(Plan[K])
      BY <1>0, <3>2, ForwardsPlanIs
    <3> QED
      BY <1>0, <2>2, <3>3 DEF ReleaseTypeOK
  <2> QED
    BY <1>1, <2>1, <2>2
<1>4. ReleaseTypeOK'
  BY <1>0, <1>1, <1>2, <1>3 DEF ReleaseTypeOK
<1>5. HistoryInv'
  BY <1>0, <1>1, <1>2 DEF HistoryInv
<1> QED
  BY <1>4, <1>5 DEF ReleaseIInv

\* Type correctness, and what is known of the migrations: every step keeps it.
THEOREM ReleaseInvariance == ReleaseSpec => []ReleaseIInv
<1>1. ReleaseIInv /\ [ReleaseNext]_releaseVars => ReleaseIInv'
  <2> SUFFICES ASSUME ReleaseIInv, [ReleaseNext]_releaseVars PROVE ReleaseIInv'
    OBVIOUS
  <2>1. CASE Write
    BY <2>1, WriteKeeps
  <2>2. CASE Predeploy
    BY <2>2, PredeployKeeps
  <2>3. CASE Deploy
    <3>1. migrations' = migrations /\ applied' = applied /\ outcome' = outcome /\ code' = OnDisk
      BY <2>3 DEF Deploy
    <3> QED
      BY <3>1 DEF ReleaseIInv, ReleaseTypeOK, HistoryInv, OnDisk, App
  <2>4. CASE Migrate
    <3>1. migrations' = migrations /\ applied' = OnDisk /\ outcome' = outcome /\ code' = OnDisk
      BY <2>4 DEF Migrate
    <3>2. \A m \in OnDisk : migrations[m].needs \subseteq OnDisk
      <4> TAKE m \in OnDisk
      <4>1. migrations[m].needs \subseteq 1 .. m - 1 /\ m \in 1 .. Len(migrations)
            /\ OnDisk = 1 .. Len(migrations) /\ Len(migrations) \in Nat
        BY DiskIs DEF ReleaseIInv
      <4>2. 1 .. m - 1 \subseteq OnDisk
        BY <4>1
      <4> QED
        BY <4>1, <4>2
    <3> QED
      BY <3>1, <3>2 DEF ReleaseIInv, ReleaseTypeOK, HistoryInv, OnDisk, App
  <2>5. CASE UNCHANGED releaseVars
    BY <2>5 DEF releaseVars, ReleaseIInv, ReleaseTypeOK, HistoryInv, OnDisk, App
  <2> QED
    BY <2>1, <2>2, <2>3, <2>4, <2>5 DEF ReleaseNext
<1> QED
  BY ReleaseInitInv, <1>1, PTL DEF ReleaseSpec

\* RunningCodeWorks: no table that the running code uses is changed by what the
\* command applies but by operations that do no harm, since a table is new to
\* the plan only when nothing has made it.
THEOREM OldCodeGoesOn == ReleaseSpec => RunningCodeWorks
<1> DEFINE A == code' = code /\ Works(code, applied) => Works(code, applied')
<1>1. ReleaseIInv /\ [ReleaseNext]_releaseVars => [A]_releaseVars
  <2> SUFFICES ASSUME ReleaseIInv, ReleaseNext, code' = code, Works(code, applied)
               PROVE  Works(code, applied')
    OBVIOUS
  <2>0. ReleaseTypeOK /\ HistoryInv
    BY DEF ReleaseIInv
  <2>1. CASE Predeploy
    <3> SUFFICES ASSUME NEW t \in Tables, Exists(code, t)
                 PROVE  Exists(applied', t) /\ Columns(code, t) \subseteq Columns(applied', t)
                        /\ Required(applied', t) \subseteq Columns(code, t)
      BY DEF Works
    <3>1. Exists(applied, t) /\ Columns(code, t) \subseteq Columns(applied, t)
          /\ Required(applied, t) \subseteq Columns(code, t)
      BY DEF Works
    <3>2. PICK c \in applied : migrations[c].table = t /\ migrations[c].op = "create"
      BY <3>1 DEF Exists, On
    <3>3. c \in OnDisk
      BY <2>0 DEF ReleaseTypeOK
    <3>4. applied \subseteq applied'
      BY <2>1, PredeployIs
    <3>5. ASSUME NEW m \in applied' \ applied, migrations[m].table = t
          PROVE  migrations[m].op \in {"index", "extend", "add_null"}
      <4>1. PICK p \in Seq(OnDisk), i \in Nat :
              /\ i \in DOMAIN p /\ p[i] = m /\ LooksSafe(p, i)
              /\ \A j \in DOMAIN p : p[j] \in OnDisk \ applied
        BY <2>1, PredeployApplies
      <4>2. m \in OnDisk
        BY <4>1
      <4>3. migrations[m].op # "create"
        BY <2>0, <3>2, <3>3, <3>5, <4>2 DEF HistoryInv
      <4>4. t \notin Created(p, i)
        <5> SUFFICES ASSUME t \in Created(p, i) PROVE FALSE
          OBVIOUS
        <5>1. PICK j \in 1 .. i - 1 : migrations[p[j]].op = "create" /\ migrations[p[j]].table = t
          BY DEF Created
        <5>2. j \in DOMAIN p
          <6>1. DOMAIN p = 1 .. Len(p) /\ Len(p) \in Nat
            OBVIOUS
          <6> QED
            BY <4>1, <6>1
        <5>3. p[j] \in OnDisk \ applied
          BY <4>1, <5>2
        <5> QED
          BY <2>0, <3>2, <3>3, <5>1, <5>3 DEF HistoryInv
      <4>5. migrations[m].safe \/ migrations[m].op \in {"index", "add_null", "create"}
        BY <3>5, <4>1, <4>4 DEF LooksSafe
      <4> QED
        BY <2>0, <4>2, <4>3, <4>5 DEF HistoryInv, Harmless
    <3>6. Exists(applied', t)
      BY <3>2, <3>4 DEF Exists, On
    <3>7. Columns(applied, t) \subseteq Columns(applied', t)
      BY <3>4, <3>5 DEF Columns, On
    <3>8. Required(applied', t) \subseteq Required(applied, t)
      BY <3>4, <3>5 DEF Required, Columns, On
    <3> QED
      BY <3>1, <3>6, <3>7, <3>8
  <2>2. CASE Write \/ Deploy
    BY <2>2 DEF Write, Deploy
  <2>3. CASE Migrate
    <3>1. code = OnDisk /\ applied' = OnDisk
      BY <2>3 DEF Migrate
    <3> QED
      BY <3>1 DEF Works, Required
  <2> QED
    BY <2>1, <2>2, <2>3 DEF ReleaseNext
<1> QED
  BY ReleaseInvariance, <1>1, PTL DEF ReleaseSpec, RunningCodeWorks

\* PostdeployWaits: a migration for later makes the whole plan unsafe, unless
\* it is one of those that are left off the end.
THEOREM LaterIsLater == ReleaseSpec => PostdeployWaits
<1> DEFINE A == \A m \in applied' \ applied : migrations[m].postdeploy => code' = OnDisk
<1>1. ReleaseIInv /\ [ReleaseNext]_releaseVars => [A]_releaseVars
  <2> SUFFICES ASSUME ReleaseIInv, ReleaseNext, NEW m \in applied' \ applied, migrations[m].postdeploy
               PROVE  code' = OnDisk
    OBVIOUS
  <2>1. CASE Predeploy
    <3>1. PICK p \in Seq(OnDisk), i \in Nat : i \in DOMAIN p /\ p[i] = m /\ LooksSafe(p, i)
      BY <2>1, PredeployApplies
    <3> QED
      BY <3>1 DEF LooksSafe
  <2>2. CASE Write \/ Deploy
    BY <2>2 DEF Write, Deploy
  <2>3. CASE Migrate
    BY <2>3 DEF Migrate
  <2> QED
    BY <2>1, <2>2, <2>3 DEF ReleaseNext
<1> QED
  BY ReleaseInvariance, <1>1, PTL DEF ReleaseSpec, PostdeployWaits

\* MigratesToLatest: the migrations of one app are in a chain, so the last of
\* the plan that is not for later needs all before it.
THEOREM GoesToTheLatest == ReleaseSpec => MigratesToLatest
<1> DEFINE A == /\ Predeploy /\ outcome' = "ok"
                /\ \A m, n \in OnDisk \ applied : App(m) = App(n)
                => \A m \in OnDisk \ applied' : \E n \in ForwardsPlan(m) : migrations[n].postdeploy
<1>1. ReleaseIInv => A
  <2> SUFFICES ASSUME ReleaseIInv, Predeploy, outcome' = "ok",
                      \A m, n \in OnDisk \ applied : App(m) = App(n),
                      NEW m \in OnDisk \ applied'
               PROVE  \E n \in ForwardsPlan(m) : migrations[n].postdeploy
    OBVIOUS
  <2>0. ReleaseTypeOK
    BY DEF ReleaseIInv
  <2>1. PlanFor(Plan, OnDisk)
    BY PlanIs
  <2>2. PICK K \in 0 .. Len(Plan) :
          /\ \A i \in K + 1 .. Len(Plan) : migrations[Plan[i]].postdeploy
          /\ outcome' = "ok" /\ K # 0 => applied' = applied \cup ForwardsPlan(Plan[K])
          /\ \/ applied' = applied
             \/ K # 0 /\ applied' = applied \cup ForwardsPlan(Plan[K])
    BY PredeployIs
  <2>3. Len(Plan) \in Nat /\ DOMAIN Plan = 1 .. Len(Plan)
    <3>1. Plan \in Seq(OnDisk)
      BY <2>1 DEF PlanFor
    <3> QED
      BY <3>1
  <2>4. m \notin applied
    BY <2>2
  <2>5. PICK j \in DOMAIN Plan : Plan[j] = m
    BY <2>1, <2>4 DEF PlanFor, Range
  <2>6. m \in ForwardsPlan(m)
    BY <2>0, ForwardsPlanIs
  <2>7. CASE K < j
    <3>1. j \in K + 1 .. Len(Plan)
      BY <2>3, <2>7
    <3> QED
      BY <2>2, <2>5, <2>6, <3>1
  <2>8. CASE j <= K
    <3>1. K # 0 /\ K \in DOMAIN Plan
      BY <2>3, <2>8
    <3> DEFINE last == Plan[K]
    <3>2. last \in OnDisk \ applied
      BY <2>1, <3>1 DEF PlanFor, Range
    <3>3. App(last) = App(m)
      BY <2>4, <3>2
    <3>4. applied' = applied \cup ForwardsPlan(last)
      BY <2>2, <3>1
    <3>5. last \in Nat /\ m \in Nat
      BY <2>0, <3>2, DiskIs
    <3>6. CASE m <= last
      <4>1. m \in ForwardsPlan(last)
        BY <3>2, <3>3, <3>6, AppInPlan
      <4> QED
        BY <3>4, <4>1
    <3>7. CASE last < m
      <4>1. last \in ForwardsPlan(m)
        BY <3>2, <3>3, <3>5, <3>7, AppInPlan
      <4>2. PICK i \in DOMAIN Plan : i <= j /\ Plan[i] = last
        BY <2>1, <2>5, <3>2, <4>1 DEF PlanFor
      <4>3. i = K
        BY <2>1, <3>1, <4>2 DEF PlanFor
      <4>4. j = K
        BY <2>3, <2>8, <4>2, <4>3
      <4> QED
        BY <2>5, <3>5, <3>7, <4>4
    <3> HIDE DEF last
    <3> QED
      BY <3>5, <3>6, <3>7
  <2> QED
    BY <2>3, <2>7, <2>8
<1> QED
  BY ReleaseInvariance, <1>1, PTL DEF ReleaseSpec, MigratesToLatest
=============================================================================
