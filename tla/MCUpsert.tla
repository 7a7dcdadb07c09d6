------------------------------ MODULE MCUpsert ------------------------------
(* Upsert for TLC: clients, keys and values are interchangeable. *)
EXTENDS Upsert, TLC

Symmetry == Permutations(Clients) \union Permutations(Keys) \union Permutations(Values)

\* An ordinary class, one whose keys are fixed, unique and permanently
\* redirected to, and one with a declared key and data that nobody writes.
MCClasses == {
  [permanent |-> FALSE, unique |-> FALSE, writable |-> Fields, declared |-> {}, writeOnce |-> {}],
  [permanent |-> TRUE, unique |-> TRUE, writable |-> Fields, declared |-> {}, writeOnce |-> {"key"}],
  [permanent |-> TRUE, unique |-> FALSE, writable |-> {}, declared |-> {"key"}, writeOnce |-> {"key"}]}
=============================================================================
