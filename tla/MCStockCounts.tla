---------------------------- MODULE MCStockCounts ----------------------------
(* StockCounts on a small instance: a count of two items, two entries and   *)
(* two submissions in flight, while the shop trades the items.             *)
EXTENDS StockCounts, TLC

MCOpeningStock == {1}
MCQuantities == {1}
MCCounted == {0, 2}
Symmetry == Permutations(Keys)
==============================================================================
