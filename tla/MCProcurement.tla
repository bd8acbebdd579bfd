---------------------------- MODULE MCProcurement ----------------------------
(* Procurement on a small instance: two items, one of them maybe for free. *)
EXTENDS Procurement, TLC

MCOpeningStock == {0}
MCQuantities == {1, 2}
MCCosts == {0, 3}
MCExtras == {0, 2}
Symmetry == Permutations(Keys)
==============================================================================
