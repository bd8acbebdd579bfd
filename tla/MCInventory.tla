----------------------------- MODULE MCInventory -----------------------------
(* Inventory on a small instance.                                          *)
EXTENDS Inventory, TLC

MCOpeningStock == {0, 1}
MCQuantities == {1, 2}
Symmetry == Permutations(Keys) \cup Permutations(SaleRefs)
==============================================================================
