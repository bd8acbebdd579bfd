----------------------------- MODULE Procurement -----------------------------
(***************************************************************************)
(* Purchase orders and their receipts in parts:                             *)
(* src/apps/api/src/modules/procurement/routes.ts, over the stock and the   *)
(* cost layers of the location they are shipped to.                         *)
(*                                                                         *)
(* Each handler is a SERIALIZABLE transaction, one step.  A receipt spreads *)
(* its additional costs (freight, duty) over its lines by value and opens a *)
(* layer for each at the landed cost.  Counter sales use the layers;        *)
(* adjustments, counts and reservations do not.                             *)
(*                                                                         *)
(* An order has one line per item.  A receipt is a sequence of lines and    *)
(* may list an order line twice, as the route allows.  Costs are whole      *)
(* numbers of the smallest amount the database stores; only stored values   *)
(* are rounded.  Lots and serial numbers of a receipt are left out (serial  *)
(* numbers are in module Transfers).                                        *)
(***************************************************************************)
EXTENDS CostedStock

CONSTANTS PurchaseOrders,
          Extras,       \* additional costs of a receipt
          MaxReceipts,  \* bound: receipts of one order
          MaxReceiptLines \* bound: lines of one receipt

ASSUME ExtrasAssumption == Extras \subseteq Nat
ASSUME TablesAssumption == IsFiniteSet(PurchaseOrders) /\ IsFiniteSet(Keys)
ASSUME MaxReceiptsAssumption == MaxReceipts \in Nat /\ MaxReceiptLines \in Nat

VARIABLES po,        \* po[p]: the PurchaseOrder row and its lines, by item
          receipts,  \* receipts[p]: its GoodsReceipt rows and their lines, oldest first
          used       \* history: the cost of what left the layers

poVars == << balance, ledger, exceptions, synced, layers, gained, lost,
             po, receipts, used >>

PoStatuses == {"NONE", "DRAFT", "APPROVED", "PARTIALLY_RECEIVED", "RECEIVED"}

NoPo == [status |-> "NONE", ordered |-> Nothing, cost |-> Nothing, received |-> Nothing]

ReceiptLines == [ item : Keys, qty : Nat \ {0}, allocated : Nat, landed : Nat ]

PoTypeOK ==
  /\ StockTypeOK
  /\ CostTypeOK
  /\ po \in [PurchaseOrders -> [ status : PoStatuses, ordered : [Keys -> Nat],
                                 cost : [Keys -> Nat], received : [Keys -> Nat] ]]
  /\ receipts \in [PurchaseOrders -> Seq([ extra : Extras, lines : Seq(ReceiptLines) ])]
  /\ \A p \in PurchaseOrders : Len(receipts[p]) <= MaxReceipts
  /\ used \in Nat

\* Shelves are empty; receipts fill them.
PoInit ==
  /\ StockInit
  /\ balance = [k \in Keys |-> EmptyBalance]
  /\ po = [p \in PurchaseOrders |-> NoPo]
  /\ receipts = [p \in PurchaseOrders |-> << >>]
  /\ layers = [k \in Keys |-> << >>]
  /\ NothingAdjusted
  /\ used = 0

------------------------------------------------------------------------------

\* POST /v1/purchase-orders, and the order that a recommendation is converted to.
CreatePo(p, ordered, cost) ==
  /\ po[p].status = "NONE"
  /\ po' = [po EXCEPT ![p] =
       [status |-> "DRAFT", ordered |-> ordered, cost |-> cost, received |-> Nothing]]
  /\ UNCHANGED << stockVars, costVars, receipts, used >>

\* POST /v1/purchase-orders/:id/approve.  Receiving does not wait for it.
Approve(p) ==
  /\ po[p].status = "DRAFT"
  /\ po' = [po EXCEPT ![p].status = "APPROVED"]
  /\ UNCHANGED << stockVars, costVars, receipts, used >>

\* What the lines of a receipt bring of an item, and what the goods of a line cost.
QtyOf(rows, k) == SumFunction([n \in DOMAIN rows |-> IF rows[n].item = k THEN rows[n].qty ELSE 0])

Goods(cost, row) == row.qty * cost[row.item]

\* Mutant: what was received before is forgotten.
Fits_Ordered(p, row) == row.qty <= po[p].ordered[row.item]

\* Each line of the receipt is compared with what is outstanding before the receipt.
Fits(p, row) == row.qty <= po[p].ordered[row.item] - po[p].received[row.item]

\* A quotient as its column stores it, rounded half up.
Rounded(n, d) == (2 * n + d) \div (2 * d)

\* Mutant: every line bears all of the additional costs.
Share_Whole(base, baseTotal, extra) == <<extra, 1>>

\* Mutant: the additional costs stay with the receipt.
Share_None(base, baseTotal, extra) == <<0, 1>>

\* A line's share of the additional costs, by value, as a fraction; none of it goes to
\* goods that cost nothing.
Share(base, baseTotal, extra) ==
  IF baseTotal > 0 THEN <<extra * base, baseTotal>> ELSE <<0, 1>>

\* A line of the receipt with its allocation and its landed unit cost.
Landed(cost, row, baseTotal, extra) ==
  LET base == Goods(cost, row)
      share == Share(base, baseTotal, extra)
  IN [ item |-> row.item, qty |-> row.qty,
       allocated |-> Rounded(share[1], share[2]),
       landed |-> Rounded(base * share[2] + share[1], share[2] * row.qty) ]

\* The layers of an item after a receipt: one more for each of its lines of the item.
WithLayers(k, rows) ==
  Opened(layers[k], [n \in DOMAIN rows |-> IF rows[n].item = k THEN rows[n].qty ELSE 0],
         [n \in DOMAIN rows |-> rows[n].landed])

\* Mutant: an order is received as soon as one of its lines is.
StatusAfter_Any(ordered, received) ==
  IF \E k \in Keys : ordered[k] > 0 /\ received[k] >= ordered[k]
  THEN "RECEIVED" ELSE "PARTIALLY_RECEIVED"

StatusAfter(ordered, received) ==
  IF \A k \in Keys : received[k] >= ordered[k] THEN "RECEIVED" ELSE "PARTIALLY_RECEIVED"

\* POST /v1/purchase-orders/:id/receive
Receive(p, rows, extra) ==
  LET cost == po[p].cost
      baseTotal == SumFunction([n \in DOMAIN rows |-> Goods(cost, rows[n])])
      lines == [n \in DOMAIN rows |-> Landed(cost, rows[n], baseTotal, extra)]
      qty == [k \in Keys |-> QtyOf(rows, k)]
      received == [k \in Keys |-> po[p].received[k] + qty[k]]
  IN
  /\ po[p].status \notin {"NONE", "RECEIVED"}
  /\ Len(receipts[p]) < MaxReceipts
  /\ \A n \in DOMAIN rows : Fits(p, rows[n])
  /\ Post("PURCHASE_RECEIPT", qty)
  /\ receipts' = [receipts EXCEPT ![p] = Append(@, [extra |-> extra, lines |-> lines])]
  /\ layers' = [k \in Keys |-> WithLayers(k, lines)]
  /\ po' = [po EXCEPT ![p].received = received,
                      ![p].status = StatusAfter(po[p].ordered, received)]
  /\ UNCHANGED << exceptions, synced, gained, lost, used >>

\* The stock side of a counter sale of one line.
Sell(k, qty) ==
  /\ PostDocument("SALE", [i \in Keys |-> IF i = k THEN qty ELSE 0])
  /\ layers' = [layers EXCEPT ![k] = Consumed(@, qty)]
  /\ used' = used + TotalCost(layers[k], qty, 0)
  /\ UNCHANGED << gained, lost, po, receipts >>

Rows == UNION { [1..n -> [item : Keys, qty : Quantities]] : n \in 1..MaxReceiptLines }

PoNext ==
  \/ \E p \in PurchaseOrders :
       \/ \E ordered \in Lines, cost \in [Keys -> Costs] : CreatePo(p, ordered, cost)
       \/ Approve(p)
       \/ \E rows \in Rows, extra \in Extras : Receive(p, rows, extra)
  \/ \E k \in Keys, qty \in Quantities : Sell(k, qty)
  \/ OthersAdjust /\ UNCHANGED << po, receipts, used >>

PoSpec == PoInit /\ [][PoNext]_poVars

------------------------------------------------------------------------------

\* No receipt of the order lists a line twice.
NoRepeatedLine(p) ==
  \A n \in DOMAIN receipts[p] :
    LET rows == receipts[p][n].lines
    IN  \A i, j \in DOMAIN rows : i # j => rows[i].item # rows[j].item

\* What all receipts of an order brought of an item.
Brought(p, k) == SumFunction([n \in DOMAIN receipts[p] |-> QtyOf(receipts[p][n].lines, k)])

\* The order knows what its receipts brought and is received exactly when all of it
\* came; over any number of receipts no more of a line comes than was ordered, as long as
\* no receipt lists it twice.  (All values have their types.)
ReceiptsWithinOrder ==
  /\ PoTypeOK
  /\ \A p \in PurchaseOrders :
       /\ \A k \in Keys :
            /\ po[p].received[k] = Brought(p, k)
            /\ NoRepeatedLine(p) => Brought(p, k) <= po[p].ordered[k]
       /\ po[p].status = "RECEIVED" <=>
            receipts[p] # << >> /\ \A k \in Keys : Brought(p, k) >= po[p].ordered[k]

\* What a receipt cost: its goods, and the additional costs unless all goods were free.
PaidFor(cost, receipt) ==
  LET goods == SumFunction([n \in DOMAIN receipt.lines |-> Goods(cost, receipt.lines[n])])
  IN  goods + IF goods > 0 THEN receipt.extra ELSE 0

PiecesOf(receipt) == SumFunction([n \in DOMAIN receipt.lines |-> receipt.lines[n].qty])

\* What was paid for an order, and the pieces that came.
Paid(p) == SumFunction([n \in DOMAIN receipts[p] |-> PaidFor(po[p].cost, receipts[p][n])])

Pieces(p) == SumFunction([n \in DOMAIN receipts[p] |-> PiecesOf(receipts[p][n])])

Difference(a, b) == IF a > b THEN a - b ELSE b - a

\* Money that was paid for goods and freight is in the stock or in the cost of what was
\* sold, over every mix of partial receipts and sales, up to half a unit of rounding for
\* each piece received; freight on goods that cost nothing is in neither.
PaidIsInStock ==
  LET paid == SumFunction([p \in PurchaseOrders |-> Paid(p)])
      pieces == SumFunction([p \in PurchaseOrders |-> Pieces(p)])
      stock == SumFunction([k \in Keys |-> ValueOf(layers[k])])
  IN  2 * Difference(paid, stock + used) <= pieces
==============================================================================
