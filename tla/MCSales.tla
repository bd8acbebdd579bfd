------------------------------ MODULE MCSales ------------------------------
(* Sales on small instances: a sale of two items and its returns, without   *)
(* receipts; or a sale of one item among receipts, other documents,         *)
(* adjustments and reservations of the same item.                           *)
EXTENDS Sales, TLC

VARIABLE traded  \* the items of this instance; the others are left alone

MCOpeningStock == {1, 2}
MCQuantities == {1, 2}
MCLineTotals == {3}
MCCosts == {1}
Symmetry == Permutations(Keys)

\* Two items: nothing but the opening stock, and no movement without a layer.
OpeningOnly ==
  \A k \in Keys :
    /\ Uncosted(k) = 0
    /\ balance[k].onHand <= 2
    /\ \A i \in DOMAIN layers[k] : layers[k][i].cost = BaseCost

LeftAlone(k) ==
  /\ balance[k] = [EmptyBalance EXCEPT !.onHand = 1]
  /\ ledger[k] = 1
  /\ Uncosted(k) = 0
  /\ layers[k] = << Layer(1, BaseCost) >>
  /\ \A s \in SaleRefs : request[s].qty[k] = 0

Within ==
  \/ traded = Keys /\ OpeningOnly
  \/ Cardinality(traded) = 1 /\ \A k \in Keys \ traded : LeftAlone(k)

MCInit == SaleInit /\ traded \in (SUBSET Keys) \ {{}} /\ Within

MCNext == SaleNext /\ UNCHANGED traded /\ Within'

MCSpec == MCInit /\ [][MCNext]_<< saleVars, traded >>
==============================================================================
