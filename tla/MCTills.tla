------------------------------- MODULE MCTills -------------------------------
(* Register sessions on a small instance: two tills, two sessions, two sales. *)
EXTENDS Tills, TLC

\* In part by card, with change, and too little.
TendersValue == { [cash |-> 2, other |-> 1], [cash |-> 1, other |-> 0] }

Symmetry == Permutations(Registers) \cup Permutations(Sessions) \cup Permutations(SaleRefs)
==============================================================================
