------------------------------ MODULE MCOrders ------------------------------
(* Orders on a small instance: two orders that compete for one item.      *)
EXTENDS Orders, TLC

MCOpeningStock == {2}
MCQuantities == {1}
MCTotals == {2}
MCAmounts == {1, 2}
Symmetry == Permutations(Orders)
==============================================================================
