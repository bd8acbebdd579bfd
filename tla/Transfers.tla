------------------------------ MODULE Transfers ------------------------------
(***************************************************************************)
(* Stock transfers between locations, with the serial numbers and the FIFO  *)
(* cost layers they move: src/apps/api/src/modules/inventory/transfers.ts.  *)
(*                                                                         *)
(* Creating, dispatching and receiving are SERIALIZABLE transactions, one   *)
(* step each.  Approving is not: it reads the status and writes it later.   *)
(* The approvals between their read and their write are counted, so two of  *)
(* one transfer are two.  Serial numbers are chosen, and checked, when the  *)
(* transfer is created.                                                     *)
(*                                                                         *)
(* The rest of the shop works on the same stock, serial numbers and layers: *)
(* receipts, sales at the counter and offline, returns, completed orders,   *)
(* reservations, manual adjustments and the variances of stock counts.      *)
(* Lots, which a transfer allocates like serial numbers, are left out.      *)
(***************************************************************************)
EXTENDS CostedStock, FiniteSets

CONSTANTS Locations, Variants,
          Serials,     \* serial numbers
          SerialsOf,   \* SerialsOf[v]: those of v's units; {}: v is not serialized
          Transfers,   \* transfer ids
          BaseCost,    \* every variant's fallback unit cost
          MaxApproving \* bound: approvals of one transfer in flight at a time

ASSUME KeysAssumption == Keys = Locations \X Variants
ASSUME FiniteAssumption ==
  /\ Locations # {} /\ IsFiniteSet(Locations) /\ IsFiniteSet(Variants)
  /\ IsFiniteSet(Serials) /\ IsFiniteSet(Transfers)
ASSUME SerialsAssumption ==
  /\ SerialsOf \in [Variants -> SUBSET Serials]
  /\ \A v, w \in Variants : v # w => SerialsOf[v] \cap SerialsOf[w] = {}
ASSUME BaseCostAssumption == BaseCost \in Nat
ASSUME MaxApprovingAssumption == MaxApproving \in Nat

VARIABLES transfer,    \* transfer[t]: the StockTransfer row, its lines and allocations
          unit,        \* unit[u]: the InventorySerial row
          sold,        \* the SaleLineSerial rows, each with the location of its sale
          returned,    \* serial numbers that have a SaleReturnSerial row
          approving,   \* approving[t]: approvals between their read and their write
          posted,      \* posted[t][k]: sum of deltaQty over k's ledger rows that refer to t
          again,       \* history: again[t][s]: approvals of t written while its status was s,
                       \* which is after its dispatch
          misallocated,\* history: transfers dispatched with a serial number that was
                       \* no longer available at the source
          delivered    \* history: delivered[k]: units that left with completed orders

shopVars == << unit, sold, returned, delivered >>
transferVars == << transfer, approving, posted, again, misallocated >>
vars == << balance, ledger, exceptions, synced, layers, gained, lost,
           transfer, unit, sold, returned, approving, posted, again, misallocated, delivered >>

Statuses == { "NONE", "REQUESTED", "APPROVED", "IN_TRANSIT", "RECEIVED" }

NoTransfer(from, to) ==
  [ status |-> "NONE", from |-> from, to |-> to, qty |-> [v \in Variants |-> 0],
    units |-> {}, unitCost |-> [v \in Variants |-> 0] ]

TransferRows ==
  [ status : Statuses, from : Locations, to : Locations,
    qty : [Variants -> Quantities \cup {0}],
    units : SUBSET Serials, unitCost : [Variants -> Nat] ]

Dispatched == {"IN_TRANSIT", "RECEIVED"}

Units == [ status : {"NONE", "AVAILABLE", "SOLD", "IN_TRANSIT", "RETIRED"}, at : Locations ]

AvailableAt(u, l) == unit[u] = [status |-> "AVAILABLE", at |-> l]

\* One serial number per unit of a serialized variant, none for the others.
OnePerUnit(units, qty) ==
  /\ units \subseteq UNION { SerialsOf[v] : v \in Variants }
  /\ \A v \in Variants :
       SerialsOf[v] # {} => Cardinality(units \cap SerialsOf[v]) = qty[v]

\* A transfer's lines as lines of stock items at one of its locations.
LinesAt(l, qty) == [k \in Keys |-> IF k[1] = l THEN qty[k[2]] ELSE 0]

TypeOK ==
  /\ StockTypeOK
  /\ CostTypeOK
  /\ transfer \in [Transfers -> TransferRows]
  /\ unit \in [Serials -> Units]
  /\ sold \subseteq Serials \X Locations
  /\ returned \subseteq Serials
  /\ approving \in [Transfers -> Nat]
  /\ posted \in [Transfers -> [Keys -> Int]]
  /\ again \in [Transfers -> [Dispatched -> Nat]]
  /\ misallocated \subseteq Transfers
  /\ delivered \in [Keys -> Nat]

\* Shelves are empty; goods receipts fill them.
Init ==
  /\ StockInit
  /\ balance = [k \in Keys |-> EmptyBalance]
  /\ LET l == CHOOSE x \in Locations : TRUE IN
       /\ transfer = [t \in Transfers |-> NoTransfer(l, l)]
       /\ unit = [u \in Serials |-> [status |-> "NONE", at |-> l]]
  /\ layers = [k \in Keys |-> << >>]
  /\ NothingAdjusted
  /\ sold = {}
  /\ returned = {}
  /\ approving = [t \in Transfers |-> 0]
  /\ posted = [t \in Transfers |-> [k \in Keys |-> 0]]
  /\ again = [t \in Transfers |-> [s \in Dispatched |-> 0]]
  /\ misallocated = {}
  /\ delivered = Nothing

------------------------------------------------------------------------------

\* POST /v1/transfers: the serial numbers are available at the source now.
Create(t, from, to, qty, units) ==
  /\ transfer[t].status = "NONE"
  /\ from # to
  /\ \E v \in Variants : qty[v] > 0
  /\ OnePerUnit(units, qty)
  /\ \A u \in units : AvailableAt(u, from)
  /\ transfer' = [transfer EXCEPT ![t] =
       [NoTransfer(from, to) EXCEPT !.status = "REQUESTED", !.qty = qty, !.units = units]]
  /\ UNCHANGED << stockVars, costVars, shopVars, approving, posted, again, misallocated >>

\* POST /v1/transfers/:id/approve, its read.  Several approvals may read the transfer
\* before the first of them writes.
ReadForApprove(t) ==
  /\ transfer[t].status = "REQUESTED"
  /\ approving[t] < MaxApproving
  /\ approving' = [approving EXCEPT ![t] = @ + 1]
  /\ UNCHANGED << stockVars, costVars, shopVars, transfer, posted, again, misallocated >>

\* Its write: the status becomes APPROVED whatever it is by now.  A transfer that was
\* dispatched meanwhile, by way of another approval, can be dispatched again.
WriteApproved(t) ==
  /\ approving[t] > 0
  /\ approving' = [approving EXCEPT ![t] = @ - 1]
  /\ transfer' = [transfer EXCEPT ![t].status = "APPROVED"]
  /\ again' = [again EXCEPT ![t] = [s \in Dispatched |->
                 IF s = transfer[t].status THEN @[s] + 1 ELSE @[s]]]
  /\ UNCHANGED << stockVars, costVars, shopVars, posted, misallocated >>

\* The ledger rows a document's posting adds, under its reference.
PostedFor(t, type, lines) ==
  posted' = [posted EXCEPT ![t] = BookedAll(@, type, lines)]

\* POST /v1/transfers/:id/dispatch: the serial numbers chosen at creation leave,
\* whatever became of them.
Dispatch(t) ==
  LET from == transfer[t].from
      qty == transfer[t].qty
      lines == LinesAt(from, qty)
  IN
  /\ transfer[t].status = "APPROVED"
  /\ Post("TRANSFER_OUT", lines)
  /\ PostedFor(t, "TRANSFER_OUT", lines)
  /\ layers' = [k \in Keys |-> Consumed(layers[k], lines[k])]
  /\ unit' = [u \in Serials |->
       IF u \in transfer[t].units THEN [unit[u] EXCEPT !.status = "IN_TRANSIT"] ELSE unit[u]]
  /\ transfer' = [transfer EXCEPT
       ![t].status = "IN_TRANSIT",
       ![t].unitCost = [v \in Variants |->
          IF qty[v] > 0 THEN UnitCost(layers[<<from, v>>], qty[v], BaseCost) ELSE @[v]]]
  /\ misallocated' = IF \A u \in transfer[t].units : AvailableAt(u, from)
                     THEN misallocated ELSE misallocated \cup {t}
  /\ UNCHANGED << exceptions, synced, gained, lost, sold, returned, delivered, approving, again >>

\* Mutant: goods not yet dispatched may be received.
Receive_Undispatched(t) ==
  LET to == transfer[t].to
      lines == LinesAt(to, transfer[t].qty)
  IN
  /\ transfer[t].status \in {"APPROVED", "IN_TRANSIT"}
  /\ Post("TRANSFER_IN", lines)
  /\ PostedFor(t, "TRANSFER_IN", lines)
  /\ layers' = [k \in Keys |-> WithLayer(k, lines[k], transfer[t].unitCost[k[2]])]
  /\ unit' = [u \in Serials |->
       IF u \in transfer[t].units THEN [status |-> "AVAILABLE", at |-> to] ELSE unit[u]]
  /\ transfer' = [transfer EXCEPT ![t].status = "RECEIVED"]
  /\ UNCHANGED << exceptions, synced, gained, lost, sold, returned, delivered,
                 approving, again, misallocated >>

\* Mutant: the serial numbers keep their location.
Receive_UnitsStay(t) ==
  LET to == transfer[t].to
      lines == LinesAt(to, transfer[t].qty)
  IN
  /\ transfer[t].status = "IN_TRANSIT"
  /\ Post("TRANSFER_IN", lines)
  /\ PostedFor(t, "TRANSFER_IN", lines)
  /\ layers' = [k \in Keys |-> WithLayer(k, lines[k], transfer[t].unitCost[k[2]])]
  /\ unit' = [u \in Serials |->
       IF u \in transfer[t].units THEN [unit[u] EXCEPT !.status = "AVAILABLE"] ELSE unit[u]]
  /\ transfer' = [transfer EXCEPT ![t].status = "RECEIVED"]
  /\ UNCHANGED << exceptions, synced, gained, lost, sold, returned, delivered,
                 approving, again, misallocated >>

\* POST /v1/transfers/:id/receive
Receive(t) ==
  LET to == transfer[t].to
      lines == LinesAt(to, transfer[t].qty)
  IN
  /\ transfer[t].status = "IN_TRANSIT"
  /\ Post("TRANSFER_IN", lines)
  /\ PostedFor(t, "TRANSFER_IN", lines)
  /\ layers' = [k \in Keys |-> WithLayer(k, lines[k], transfer[t].unitCost[k[2]])]
  /\ unit' = [u \in Serials |->
       IF u \in transfer[t].units THEN [status |-> "AVAILABLE", at |-> to] ELSE unit[u]]
  /\ transfer' = [transfer EXCEPT ![t].status = "RECEIVED"]
  /\ UNCHANGED << exceptions, synced, gained, lost, sold, returned, delivered,
                 approving, again, misallocated >>

------------------------------------------------------------------------------

\* One line of a document of the rest of the shop.
LineOf(l, v, q) == [k \in Keys |-> IF k = <<l, v>> THEN q ELSE 0]

\* The serial numbers a line of q units names.
Names(units, v, q) ==
  /\ units \subseteq SerialsOf[v]
  /\ SerialsOf[v] # {} => Cardinality(units) = q

\* A line of a goods receipt: new serial numbers, one layer.
ReceiveGoods(l, v, q, cost, units) ==
  /\ Names(units, v, q)
  /\ \A u \in units : unit[u].status = "NONE"
  /\ GoodsIn("PURCHASE_RECEIPT", LineOf(l, v, q), cost)
  /\ unit' = [u \in Serials |->
       IF u \in units THEN [status |-> "AVAILABLE", at |-> l] ELSE unit[u]]
  /\ UNCHANGED << sold, returned, delivered >>

\* What a sale line asks of its serial numbers and writes: a serial number is sold
\* once, SaleLineSerial.serialId being unique.
SellUnits(l, v, q, units) ==
  /\ Names(units, v, q)
  /\ \A u \in units : AvailableAt(u, l) /\ \A r \in sold : r[1] # u
  /\ unit' = [u \in Serials |->
       IF u \in units THEN [unit[u] EXCEPT !.status = "SOLD"] ELSE unit[u]]
  /\ sold' = sold \cup (units \X {l})
  /\ UNCHANGED << returned, delivered >>

\* A sale of one line, at the counter or, with a reference s, offline.
Sell(l, v, q, units) ==
  SellUnits(l, v, q, units) /\ GoodsOut("SALE", LineOf(l, v, q))

SellOffline(s, l, v, q, units) ==
  /\ SellUnits(l, v, q, units)
  /\ SyncOfflineSale(s, LineOf(l, v, q))
  /\ layers' = [k \in Keys |-> Consumed(layers[k], LineOf(l, v, q)[k])]
  /\ UNCHANGED << gained, lost >>

\* Mutant: a serial number that came back may come back again.
ReturnUnits_Again(l, v, q, units, status) ==
  /\ Names(units, v, q)
  /\ \A u \in units : <<u, l>> \in sold
  /\ unit' = [u \in Serials |->
       IF u \in units THEN [status |-> status, at |-> l] ELSE unit[u]]
  /\ returned' = returned \cup units
  /\ UNCHANGED << sold, delivered >>

\* A line of a return names serial numbers of its sale, each one once.  They go back to
\* the location of the sale, on the shelf or, not restocked, out of use.
ReturnUnits(l, v, q, units, status) ==
  /\ Names(units, v, q)
  /\ \A u \in units : <<u, l>> \in sold /\ u \notin returned
  /\ unit' = [u \in Serials |->
       IF u \in units THEN [status |-> status, at |-> l] ELSE unit[u]]
  /\ returned' = returned \cup units
  /\ UNCHANGED << sold, delivered >>

Restock(l, v, q, cost, units) ==
  /\ ReturnUnits(l, v, q, units, "AVAILABLE")
  /\ GoodsIn("SALE_RETURN", LineOf(l, v, q), cost)

TakeBack(l, v, q, units) ==
  /\ ReturnUnits(l, v, q, units, "RETIRED")
  /\ UNCHANGED << stockVars, costVars >>

\* The sale that completes an order writes no serial number.  (The reservation it
\* releases is a step before it.)
FillOrder(l, v, q) ==
  /\ GoodsOut("SALE", LineOf(l, v, q))
  /\ delivered' = [delivered EXCEPT ![<<l, v>>] = @ + q]
  /\ UNCHANGED << unit, sold, returned >>

ShopTrades ==
  /\ \/ \E l \in Locations, v \in Variants, q \in Quantities, units \in SUBSET Serials :
          \/ \E cost \in Costs : ReceiveGoods(l, v, q, cost, units)
          \/ Sell(l, v, q, units)
          \/ \E s \in SaleRefs : SellOffline(s, l, v, q, units)
          \/ \E cost \in Costs : Restock(l, v, q, cost, units)
          \/ TakeBack(l, v, q, units)
     \/ \E l \in Locations, v \in Variants, q \in Quantities : FillOrder(l, v, q)
     \/ OthersAdjust /\ UNCHANGED shopVars
  /\ UNCHANGED transferVars

TransferStep(t) ==
  \/ \E from, to \in Locations, qty \in [Variants -> Quantities \cup {0}],
        units \in SUBSET Serials : Create(t, from, to, qty, units)
  \/ ReadForApprove(t)
  \/ WriteApproved(t)
  \/ Dispatch(t)
  \/ Receive(t)

Next == ShopTrades \/ \E t \in Transfers : TransferStep(t)

Spec == Init /\ [][Next]_vars

------------------------------------------------------------------------------

\* How often a transfer was dispatched and received: its status tells of the last time,
\* again of the times before.
Dispatches(t) ==
  again[t]["IN_TRANSIT"] + again[t]["RECEIVED"]
    + IF transfer[t].status \in Dispatched THEN 1 ELSE 0

Receipts(t) == again[t]["RECEIVED"] + IF transfer[t].status = "RECEIVED" THEN 1 ELSE 0

\* The ledger tells where a transfer's goods are: nothing is posted for it before it is
\* dispatched, they are out of the source while in transit, and out of the source and in
\* the destination when received; once each, and once more for every approval that was
\* written after the dispatch.
LedgerTellsTransfer ==
  \A t \in Transfers :
    LET out == LinesAt(transfer[t].from, transfer[t].qty)
        in == LinesAt(transfer[t].to, transfer[t].qty)
    IN  \A k \in Keys :
          posted[t][k] = Receipts(t) * in[k] - Dispatches(t) * out[k]

\* No transfer was approved again after its dispatch, and none left with a serial number
\* that was sold or moved after the transfer had been created.
NothingAstray ==
  /\ \A t \in Transfers, s \in Dispatched : again[t][s] = 0
  /\ misallocated = {}

\* The quantity of a serialized item is the number of its serial numbers that are
\* available there, but for what was moved without them: adjustments and counts, and the
\* orders that were completed.
UnitsAreOnTheShelf ==
  NothingAstray =>
    \A l \in Locations, v \in Variants :
      LET k == <<l, v>> IN
      SerialsOf[v] # {} =>
        balance[k].onHand + lost[k] + delivered[k]
          = Cardinality({ u \in SerialsOf[v] : AvailableAt(u, l) }) + gained[k]

\* The value of the layers and of the goods in transit.
InTransit(t) ==
  IF transfer[t].status = "IN_TRANSIT"
  THEN SumFunction([v \in Variants |-> transfer[t].qty[v] * transfer[t].unitCost[v]]) ELSE 0

Worth ==
  SumFunction([k \in Keys |-> ValueOf(layers[k])]) + SumFunction([t \in Transfers |-> InTransit(t)])

Moves(t) ==
  /\ transfer'[t].status # transfer[t].status
  /\ transfer'[t].status \in {"IN_TRANSIT", "RECEIVED"}

\* What a dispatch may take that no layer covers: goods that adjustments put on the
\* shelf.  They are in transit at the fallback cost.
Uncovered(t) ==
  IF transfer'[t].status = "IN_TRANSIT"
  THEN SumFunction([v \in Variants |->
         Least(transfer[t].qty[v], gained[<<transfer[t].from, v>>])])
  ELSE 0

\* A transfer neither makes nor loses value: at either end it changes by no more
\* than the rounding of the unit cost, half a unit of money a piece, and the fallback
\* cost of goods that came without a cost.
TransfersKeepValue ==
  [][\A t \in Transfers :
       Moves(t) =>
         LET pieces == SumFunction(transfer[t].qty)
         IN  2 * (Worth' - Worth) \in -pieces..pieces + 2 * BaseCost * Uncovered(t)]_vars

\* A transfer takes only serial numbers that are there to be taken ('One or more
\* serials are not available at the source location' otherwise).
TakesAvailableUnits ==
  [][\A t \in Transfers :
       transfer'[t].status = "IN_TRANSIT" /\ transfer[t].status = "APPROVED"
         => \A u \in transfer[t].units : AvailableAt(u, transfer[t].from)]_vars
==============================================================================
