------------------------------- MODULE Upsert -------------------------------
(***************************************************************************)
(* RedirectViewSet and UpdateNewMixin of utils/django/viewsets.py with the *)
(* mixins of utils/django/serializers/mixins.py: clients that know objects *)
(* by a key are redirected to them by pk, or to `_new' if there is none.   *)
(*                                                                         *)
(* A request is three steps, each of them one query: the redirect, reading *)
(* the object at the new location, and writing it.  Django and the REST    *)
(* framework are external: an instance is written whole, as it was read    *)
(* and then changed, and inserted again if its row is gone by then.        *)
(***************************************************************************)
EXTENDS Integers, FiniteSetsExt, Functions

CONSTANTS
  Clients, Keys, Values,
  Classes,  \* the attributes a project may give to the view set and serializer
  MaxPk,    \* objects are created until this pk is given
  Default,  \* what a field has that nobody writes
  None, Idle

Fields == {"key", "data"}
Object == [key : Keys, data : Values \union {Default}]
Body == [key : Keys \union {None}, data : Values \union {None}]
New == 0  \* update_new_pk

\* A request on its way, and a permanent redirect that a client remembers.
Instances == [key : Keys \union {None, Default}, data : Values \union {None, Default}]
Requests ==
  [step : {"sent", "loaded"}, method : {"GET", "PUT", "PATCH", "DELETE", "POST"},
   lookup : Keys \union {None}, body : Body, pk : 0 .. MaxPk, was : Instances \union {None}]
Memories == [method : {"GET", "PUT", "PATCH", "DELETE"}, lookup : Keys, pk : 1 .. MaxPk]

ASSUME ConstantAssumption ==
  /\ MaxPk \in Nat \ {0}
  /\ None \notin Keys \union Values \union Object \union {"create"}
  /\ Idle \notin Requests \union Memories
  /\ \A a \in Classes :
       /\ a.permanent \in BOOLEAN /\ a.unique \in BOOLEAN
       /\ a.writable \union a.writeOnce \union a.declared \subseteq Fields
       /\ "key" \in a.writable \union a.declared  \* or none is made by its key

VARIABLES
  cls,      \* the member of Classes it is
  objects,  \* pk -> the row, or None
  nextPk,   \* of the sequence: no pk is given twice
  client,   \* client -> its request on the way, or Idle
  memory,   \* client -> the last permanent redirect it was given, or Idle
  missing   \* client -> its key has been without object during the request (history)

vars == <<cls, objects, nextPk, client, memory, missing>>

Present == {pk \in 1 .. MaxPk : objects[pk] # None}
WithKey(k) == {pk \in Present : objects[pk].key = k}

-----------------------------------------------------------------------------
(* What the serializer makes of a request. *)

IsPut(r) == r.method \in {"PUT", "PATCH"}

\* Faulty variant: context['action'] is 'create' for every update.
ContextActionAlways(r) == IF IsPut(r) THEN "create" ELSE None

\* context['action'] of UpdateNewMixin
ContextAction(r) == IF IsPut(r) /\ r.pk = New THEN "create" ELSE None

\* _is_create: context['action'] comes before the view's own.
IsCreate(r) == ContextAction(r) = "create" \/ (ContextAction(r) = None /\ r.method = "POST")

\* WriteableFieldsMixin, by extra_kwargs, that do not affect declared fields.
NotWritable(f) == f \notin cls.writable \union cls.declared

\* WriteOnceFieldsMixin, declared or not.
WrittenOnce(f, r) == f \in cls.writeOnce /\ ~IsCreate(r)

ReadOnly(f, r) == NotWritable(f) \/ WrittenOnce(f, r)

\* Faulty variant: the body, then query parameters.
DataOfQuery(r) ==
  [f \in Fields |-> IF f = "key" /\ IsPut(r) THEN r.lookup ELSE r.body[f]]

\* Query parameters, then the body.
Data(r) ==
  [f \in Fields |-> IF f = "key" /\ IsPut(r) /\ r.body.key = None THEN r.lookup ELSE r.body[f]]

\* kwargs['partial']
Partial(r) == r.method = "PATCH" /\ r.pk # New

Invalid(r) == ~Partial(r) /\ \E f \in Fields : ~ReadOnly(f, r) /\ Data(r)[f] = None

\* The instance as it will be written.
Changed(r) ==
  [f \in Fields |-> IF ReadOnly(f, r) \/ Data(r)[f] = None THEN r.was[f] ELSE Data(r)[f]]

-----------------------------------------------------------------------------
(* The steps of a request. *)

\* get_pk_from_lookup: the first by pk.
PkFromLookup(k) == IF WithKey(k) = {} THEN New ELSE Min(WithKey(k))

Send(c, method, lookup, body, pk) ==
  client' = [client EXCEPT ![c] =
    [step |-> "sent", method |-> method, lookup |-> lookup, body |-> body, pk |-> pk, was |-> None]]

\* _redirect, with 308 or 307; the client follows it, with what it has sent.
RedirectTo(c, method, lookup, body, pk, permanent) ==
  /\ Send(c, method, lookup, body, pk)
  /\ memory' = IF permanent
       THEN [memory EXCEPT ![c] = [method |-> method, lookup |-> lookup, pk |-> pk]]
       ELSE memory

\* Faulty variant: the redirect to `_new' is permanent as well.
RedirectPermanently(c, method, lookup, body) ==
  /\ client[c] = Idle
  /\ LET pk == PkFromLookup(lookup) IN
       /\ method \in {"GET", "DELETE"} => pk # New
       /\ RedirectTo(c, method, lookup, body, pk, cls.permanent)
  /\ UNCHANGED <<cls, objects, nextPk>>

\* retrieve, update, partial_update and destroy of RedirectViewSet.
Redirect(c, method, lookup, body) ==
  /\ client[c] = Idle
  /\ LET pk == PkFromLookup(lookup) IN
       IF pk = New
       THEN /\ method \notin {"GET", "DELETE"}  \* 404
            /\ RedirectTo(c, method, lookup, body, New, FALSE)
       ELSE RedirectTo(c, method, lookup, body, pk, cls.permanent)
  /\ UNCHANGED <<cls, objects, nextPk>>

\* A GET or DELETE has no body.
NoBody == [f \in Fields |-> None]

\* The client goes where the same request was permanently redirected to.
Remembered(c, body) ==
  /\ client[c] = Idle
  /\ memory[c] # Idle
  /\ memory[c].method \in {"GET", "DELETE"} => body = NoBody
  /\ Send(c, memory[c].method, memory[c].lookup, body, memory[c].pk)
  /\ UNCHANGED <<cls, objects, nextPk, memory>>

\* create of RedirectViewSet: to the list.
Post(c, body) ==
  /\ client[c] = Idle
  /\ Send(c, "POST", body.key, body, New)
  /\ UNCHANGED <<cls, objects, nextPk, memory>>

\* A new instance.
Blank == [f \in Fields |-> IF f \in cls.writable \union cls.declared THEN None ELSE Default]

\* get_object; a GET is answered with it.
Load(c) ==
  LET r == client[c] IN
  /\ r # Idle /\ r.step = "sent"
  /\ client' = [client EXCEPT ![c] =
       IF r.pk = New THEN [r EXCEPT !.step = "loaded", !.was = Blank]
       ELSE IF r.pk \in Present /\ r.method # "GET" THEN [r EXCEPT !.step = "loaded", !.was = objects[r.pk]]
       ELSE Idle]
  /\ UNCHANGED <<cls, objects, nextPk, memory>>

\* IntegrityError, or the framework's own check for the same.
Conflict(r, pk) == cls.unique /\ \E other \in Present \ {pk} : objects[other].key = Changed(r).key

\* serializer.is_valid and save
Save(c) ==
  LET r == client[c]
      pk == IF r.pk = New THEN nextPk ELSE r.pk
  IN
  /\ r # Idle /\ r.step = "loaded" /\ r.method # "DELETE"
  /\ client' = [client EXCEPT ![c] = Idle]
  /\ IF Invalid(r) \/ Conflict(r, pk)
     THEN UNCHANGED <<objects, nextPk>>
     ELSE /\ pk <= MaxPk
          /\ objects' = [objects EXCEPT ![pk] = Changed(r)]
          /\ nextPk' = IF r.pk = New THEN nextPk + 1 ELSE nextPk
  /\ UNCHANGED <<cls, memory>>

\* instance.delete
Delete(c) ==
  LET r == client[c] IN
  /\ r # Idle /\ r.step = "loaded" /\ r.method = "DELETE"
  /\ objects' = [objects EXCEPT ![r.pk] = None]
  /\ client' = [client EXCEPT ![c] = Idle]
  /\ UNCHANGED <<cls, nextPk, memory>>

-----------------------------------------------------------------------------

Init ==
  /\ cls \in Classes
  /\ nextPk \in {1, 2}
  /\ objects \in [1 .. MaxPk -> Object \union {None}]
  /\ \A pk \in nextPk .. MaxPk : objects[pk] = None
  /\ nextPk = 2 => objects[1] # None
  /\ client = [c \in Clients |-> Idle]
  /\ memory = [c \in Clients |-> Idle]
  /\ missing = [c \in Clients |-> FALSE]

Step(c) ==
  \/ \E method \in {"PUT", "PATCH"}, lookup \in Keys, body \in Body : Redirect(c, method, lookup, body)
  \/ \E method \in {"GET", "DELETE"}, lookup \in Keys : Redirect(c, method, lookup, NoBody)
  \/ \E body \in Body : Remembered(c, body) \/ Post(c, body)
  \/ Load(c) \/ Save(c) \/ Delete(c)

KeyMissing(c) == client[c] # Idle /\ WithKey(client[c].lookup) = {}

Next ==
  /\ \E c \in Clients : Step(c)
  /\ missing' = [c \in Clients |->
       KeyMissing(c)' \/ (missing[c] /\ client'[c] # Idle)]

Spec == Init /\ [][Next]_vars

-----------------------------------------------------------------------------

\* A request that has saved its instance, and where.
Saves(c) == client[c] # Idle /\ client[c].step = "loaded" /\ client'[c] = Idle /\ objects' # objects

\* The types of the variables.
TypeOK ==
  /\ cls \in Classes
  /\ objects \in [1 .. MaxPk -> Object \union {None}]
  /\ nextPk \in 1 .. MaxPk + 1
  /\ \A pk \in nextPk .. MaxPk : objects[pk] = None
  /\ client \in [Clients -> Requests \union {Idle}]
  /\ memory \in [Clients -> Memories \union {Idle}]
  /\ missing \in [Clients -> BOOLEAN]

\* A write-once field of an object never changes, however the object was come
\* to, and whatever was in the way meanwhile.
WriteOnceKept ==
  [][\A pk \in Present : objects'[pk] # None =>
       \A f \in cls.writeOnce : objects'[pk][f] = objects[pk][f]]_vars

\* A GET that is about to be answered with an object.
Reads(c) == client[c] # Idle /\ client[c].method = "GET" /\ client[c].pk \in Present

\* A field that a request may write: one that the class declares or lists, and
\* that is not fixed, or is of an object that the request is to make.
Writable(f, r) ==
  f \in cls.writable \union cls.declared /\ (r.pk = New \/ f \notin cls.writeOnce)

\* A PUT or PATCH that succeeds leaves at its end an object with the key it
\* was sent to, or the one its body gives unless that is fixed; and with the
\* data of its body, unless that is.  A GET is answered with no other key's object, and a
\* DELETE does away with none, if the key of an object is fixed.
HitsItsKey ==
  [][\A c \in Clients :
       LET r == client[c]
           renames == r.body.key # None /\ Writable("key", r)
           pk == IF r.pk = New THEN nextPk ELSE r.pk
       IN  /\ Saves(c) /\ IsPut(r) =>
                /\ objects'[pk].key = IF renames THEN r.body.key ELSE r.lookup
                /\ r.body.data # None /\ Writable("data", r) => objects'[pk].data = r.body.data
           /\ "key" \in cls.writeOnce /\ (Reads(c) \/ (Saves(c) /\ r.method = "DELETE" /\ pk \in Present))
                => objects[pk].key = r.lookup]_vars

\* A PUT or PATCH makes an object only if there was none with the key it was
\* sent to at some time since it was sent: by one client, or by any if they
\* come one after the other, there is one object for one key.  What it makes
\* is whole, also when it was a PATCH.
MakesWhatIsMissing ==
  [][\A c \in Clients : Saves(c) /\ IsPut(client[c]) /\ nextPk' # nextPk =>
       missing[c] /\ objects'[nextPk] \in Object]_vars

-----------------------------------------------------------------------------
(* The invariant the proofs use. *)

Busy(c) == client[c] # Idle
Loaded(c) == Busy(c) /\ client[c].step = "loaded"

\* Where requests go: to New, or to an object that there is or was.
Targets ==
  /\ \A c \in Clients : Busy(c) =>
       /\ client[c].pk < nextPk
       /\ client[c].method \in {"GET", "DELETE"} => client[c].pk # New
       /\ client[c].method = "POST" => client[c].pk = New
       /\ client[c].lookup = None => client[c].method = "POST"
       /\ IsPut(client[c]) /\ client[c].pk = New => missing[c]
  /\ \A c \in Clients : memory[c] # Idle => memory[c].pk < nextPk

\* What they have read.
ReadInv ==
  \A c \in Clients : Loaded(c) =>
    /\ client[c].method # "GET"
    /\ IF client[c].pk = New THEN client[c].was = Blank ELSE client[c].was \in Object

\* A fixed field is the same wherever an object is: in its row, and with each
\* request that has read it.
FixedInv ==
  \A c \in Clients : Loaded(c) /\ client[c].pk # New => \A f \in cls.writeOnce :
    /\ client[c].pk \in Present => objects[client[c].pk][f] = client[c].was[f]
    /\ \A d \in Clients : Loaded(d) /\ client[d].pk = client[c].pk =>
         client[d].was[f] = client[c].was[f]

\* Who knows, or knew, that an object has a key.
Claims == {x \in Range(client) \union Range(memory) : x # Idle /\ x.pk # New}

\* If keys are fixed, what they know is so.
KeyInv ==
  "key" \in cls.writeOnce =>
    /\ \A x \in Claims : x.pk \in Present => objects[x.pk].key = x.lookup
    /\ \A x, y \in Claims : x.pk = y.pk => x.lookup = y.lookup
    /\ \A c \in Clients : Loaded(c) /\ client[c].pk # New => client[c].was.key = client[c].lookup

IInv == TypeOK /\ Targets /\ ReadInv /\ FixedInv /\ KeyInv
=============================================================================
