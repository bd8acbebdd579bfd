----------------------------- MODULE CostLayers -----------------------------
(***************************************************************************)
(* FIFO costing: src/apps/api/src/modules/inventory/costing.ts.             *)
(*                                                                         *)
(* The layers of a stock item are the sequence of its InventoryCostLayer    *)
(* rows that have a quantity left, in the order they were received; rows    *)
(* that are used up are never read again and are not kept.  A unit cost is  *)
(* a whole number of the smallest amount the database stores.               *)
(***************************************************************************)
EXTENDS Integers, Sequences, FiniteSetsExt, Functions

\* The rows of a stock item that have a quantity left.
LayerRows == [ received : Nat, left : Nat \ {0}, cost : Nat ]

\* Mutant: a new layer is created with nothing remaining.
Layer_Unfilled(qty, cost) == [ received |-> qty, left |-> 0, cost |-> cost ]

Layer(qty, cost) == [ received |-> qty, left |-> qty, cost |-> cost ]

Least(a, b) == IF a <= b THEN a ELSE b

LeftIn(layers) == SumFunction([i \in DOMAIN layers |-> layers[i].left])

ValueOf(layers) == SumFunction([i \in DOMAIN layers |-> layers[i].left * layers[i].cost])

\* The layers of an item after those that a document opens for it, line by line: row i
\* brings qty[i] of the item, or none of it, at cost[i].
Opened(layers, qty, cost) ==
  LET opened[i \in 0..Len(qty)] ==
        IF i = 0 THEN layers
        ELSE IF qty[i] > 0 THEN Append(opened[i - 1], Layer(qty[i], cost[i]))
        ELSE opened[i - 1]
  IN  opened[Len(qty)]

\* Mutant: the newest layers are used first.
Taken_NewestFirst(layers, qty) ==
  LET outstanding[i \in 1..Len(layers) + 1] ==
        IF i > Len(layers) THEN qty
        ELSE outstanding[i + 1] - Least(outstanding[i + 1], layers[i].left)
  IN  [i \in DOMAIN layers |-> Least(outstanding[i + 1], layers[i].left)]

\* Mutant: the loop stops after one layer.
Taken_OneLayer(layers, qty) ==
  [i \in DOMAIN layers |-> IF i = 1 THEN Least(qty, layers[i].left) ELSE 0]

\* What consumeFifoCost still has to find after the first i layers of its loop, which
\* goes from the oldest on and stops when nothing is outstanding.
Outstanding(layers, qty) ==
  LET outstanding[i \in 0..Len(layers)] ==
        IF i = 0 THEN qty
        ELSE outstanding[i - 1] - Least(outstanding[i - 1], layers[i].left)
  IN  outstanding

\* What it takes from each layer for a quantity.
Taken(layers, qty) ==
  LET outstanding == Outstanding(layers, qty)
  IN  [i \in DOMAIN layers |-> Least(outstanding[i - 1], layers[i].left)]

\* What it leaves of the first i layers.
Kept(layers, take) ==
  LET kept[i \in 0..Len(layers)] ==
        IF i = 0 THEN << >>
        ELSE IF layers[i].left > take[i]
        THEN Append(kept[i - 1], [layers[i] EXCEPT !.left = @ - take[i]])
        ELSE kept[i - 1]
  IN  kept

Consumed(layers, qty) == Kept(layers, Taken(layers, qty))[Len(layers)]

\* Mutant: every unit is costed at the newest price.
TotalCost_NewestPrice(layers, qty, fallback) ==
  qty * (IF layers = << >> THEN fallback ELSE layers[Len(layers)].cost)

\* The cost of a quantity; what no layer covers is costed at the fallback.
TotalCost(layers, qty, fallback) ==
  LET take == Taken(layers, qty) IN
  SumFunction([i \in DOMAIN layers |-> take[i] * layers[i].cost])
  + fallback * (qty - SumFunction(take))

\* The unit cost a document stores: the quotient, rounded half up by the column.
UnitCost(layers, qty, fallback) ==
  (2 * TotalCost(layers, qty, fallback) + qty) \div (2 * qty)
==============================================================================
