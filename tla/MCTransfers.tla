---------------------------- MODULE MCTransfers ----------------------------
(* Transfers on small instances of a serialized variant at two locations:   *)
(* two transfers next to receipts at one cost, sales, returns and completed *)
(* orders; or one transfer next to these, at two costs, and to offline      *)
(* sales, adjustments and reservations.                                     *)
EXTENDS Transfers, TLC

MCKeys == Locations \X Variants
MCSerialsOf == [v \in Variants |-> Serials]
MCOpeningStock == {0}
MCQuantities == {1, 2}
MCCosts == {1, 2}
Symmetry == Permutations(Transfers) \cup Permutations(Serials)

Within ==
  \/ Cardinality({ t \in Transfers : transfer[t].status # "NONE" }) <= 1
  \/ /\ synced = {}
     /\ \A k \in Keys : Uncosted(k) = 0 /\ \A i \in DOMAIN layers[k] : layers[k][i].cost = 1

MCNext == Next /\ Within'

MCSpec == Init /\ [][MCNext]_vars
==============================================================================
