----------------------------- MODULE CostedStock -----------------------------
(***************************************************************************)
(* Stock and its FIFO cost layers: which movements open or use layers and   *)
(* which do not.  Receipts, returns and transfers open layers, sales and    *)
(* transfers use them; every other movement changes the stock alone: manual *)
(* adjustments, the variances of stock counts, the reservations of orders.  *)
(* So layers and stock are related, not equal.                              *)
(*                                                                         *)
(* Sales, Procurement and Transfers extend this module with their documents *)
(* and use its actions for what the rest of the shop does to the same items *)
(* in between.                                                              *)
(***************************************************************************)
EXTENDS Inventory, CostLayers

CONSTANTS Costs,       \* unit costs at which goods come in
          MaxUncosted  \* bound: units adjusted, set aside or reserved at a time

ASSUME CostsAssumption == Costs \subseteq Nat
ASSUME MaxUncostedAssumption == MaxUncosted \in Nat

VARIABLES layers,      \* layers[k]: k's cost layers, oldest first
          gained,      \* history: gained[k]: units that adjustments added to k's stock
          lost         \* history: lost[k]: units that adjustments took from it

costVars == << layers, gained, lost >>

CostTypeOK ==
  /\ layers \in [Keys -> Seq(LayerRows)]
  /\ gained \in [Keys -> Nat]
  /\ lost \in [Keys -> Nat]

NothingAdjusted == gained = Nothing /\ lost = Nothing

------------------------------------------------------------------------------

\* Goods that enter a location open a new layer.
WithLayer(k, qty, cost) == IF qty > 0 THEN Append(layers[k], Layer(qty, cost)) ELSE layers[k]

\* Goods come in with a document that opens a layer for each of its items.
GoodsIn(type, lines, cost) ==
  /\ type \in {"PURCHASE_RECEIPT", "SALE_RETURN", "TRANSFER_IN"}
  /\ PostDocument(type, lines)
  /\ layers' = [k \in Keys |-> WithLayer(k, lines[k], cost)]
  /\ UNCHANGED << gained, lost >>

\* Goods leave with a document that uses the layers.
GoodsOut(type, lines) ==
  /\ type \in {"SALE", "TRANSFER_OUT"}
  /\ PostDocument(type, lines)
  /\ layers' = [k \in Keys |-> Consumed(layers[k], lines[k])]
  /\ UNCHANGED << gained, lost >>

\* What the bound counts.
Uncosted(k) ==
  LET b == balance[k]
  IN  gained[k] + lost[k] + b.reserved + b.quarantined + b.damaged + b.expired

\* A movement without a layer: POST /v1/inventory/adjustments, a line of a count that is
\* completed, a line of an order that is accepted, cancelled or completed.
PostUncosted(k, type, qty) ==
  /\ type \in { "ADJUSTMENT_GAIN", "ADJUSTMENT_LOSS", "DAMAGE", "EXPIRY", "QUARANTINE_IN",
                "QUARANTINE_RELEASE", "RESERVATION", "RESERVATION_RELEASE" }
  /\ \/ type \in {"QUARANTINE_RELEASE", "RESERVATION_RELEASE"}
     \/ SumFunction([i \in Keys |-> Uncosted(i)]) + qty <= MaxUncosted
  /\ Post(type, [i \in Keys |-> IF i = k THEN qty ELSE 0])
  /\ gained' = IF type = "ADJUSTMENT_GAIN" THEN [gained EXCEPT ![k] = @ + qty] ELSE gained
  /\ lost' = IF type = "ADJUSTMENT_LOSS" THEN [lost EXCEPT ![k] = @ + qty] ELSE lost
  /\ UNCHANGED << exceptions, synced, layers >>

OthersAdjust ==
  \E k \in Keys, type \in MovementTypes, qty \in Quantities : PostUncosted(k, type, qty)

OthersTrade ==
  \/ \E type \in MovementTypes, lines \in Lines, cost \in Costs : GoodsIn(type, lines, cost)
  \/ \E type \in MovementTypes, lines \in Lines : GoodsOut(type, lines)
  \/ OthersAdjust

------------------------------------------------------------------------------

\* However goods come, go and are adjusted, the layers of an item cover its stock, but
\* for what adjustments added to it, and hold no more than the stock, what adjustments
\* took from it and one shortfall that an offline sale left on record: later receipts
\* carry the cost of units that were already sold at the fallback.  And first in, first
\* out: only the oldest layer of an item is partly used.
LayersFollowStock ==
  \A k \in Keys :
    /\ LeftIn(layers[k]) >= balance[k].onHand - gained[k]
    /\ \E short \in ShortfallsOf(k) \cup {0} :
         LeftIn(layers[k]) <= balance[k].onHand + lost[k] + short
    /\ \A i \in DOMAIN layers[k] : i > 1 => layers[k][i].left = layers[k][i].received
==============================================================================
