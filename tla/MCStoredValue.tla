---------------------------- MODULE MCStoredValue ----------------------------
(* Stored value on a small instance: one account of each kind, two clerks. *)
EXTENDS StoredValue, TLC

\* Redemption rounds up (2 cents a point), with and without a programme.
MCPrograms ==
  { [active |-> TRUE, per |-> 1, value |-> 2, minimum |-> 1],
    [active |-> FALSE, per |-> 1, value |-> 2, minimum |-> 1] }

Symmetry == Permutations(Clerks)
==============================================================================
