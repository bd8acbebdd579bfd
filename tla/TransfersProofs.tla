---------------------------- MODULE TransfersProofs ----------------------------
(***************************************************************************)
(* Theorems about Transfers and the shop around them, for every set of      *)
(* locations, variants, serial numbers and transfers, every quantity and    *)
(* cost, and any number of approvals in flight.                             *)
(*                                                                         *)
(* The argument for the layers is in InventoryProofs: whatever posts goes   *)
(* through GoodsInStep, GoodsOutStep, OfflineLayersStep or OthersAdjustStep.*)
(*                                                                         *)
(* The argument for the stock: every step posts a document of Inventory or  *)
(* leaves the stock alone, so Transfers implements StockSpec.               *)
(*                                                                         *)
(* The argument for the ledger: a dispatch and a receipt each post the      *)
(* lines of the transfer once, and an approval, early or late, changes      *)
(* neither the rows nor how often the transfer was dispatched and received. *)
(*                                                                         *)
(* The argument for the serial numbers: what is in transit is what the      *)
(* transfers in transit took, each its own, and what is sold and not back   *)
(* is on no shelf; so what arrives was not on a shelf and what leaves was,  *)
(* unless a history variable says otherwise.                                *)
(*                                                                         *)
(* The argument for the value: a unit cost is within half a unit of money   *)
(* of what the layers lose for each piece and the fallback for each piece   *)
(* they do not have, which is no more than adjustments added; the sum over  *)
(* the variants of a transfer is within that much for all its pieces.       *)
(***************************************************************************)
EXTENDS Transfers, InventoryProofs

\* What every transfer that exists has: something to move, and a serial number for
\* each unit of a serialized variant.  Only a transfer that exists is being approved, or
\* was approved again.
Documents ==
  \A t \in Transfers :
    /\ transfer[t].status # "NONE" =>
         /\ \E v \in Variants : transfer[t].qty[v] > 0
         /\ OnePerUnit(transfer[t].units, transfer[t].qty)
    /\ transfer[t].status = "NONE" =>
         approving[t] = 0 /\ \A s \in Dispatched : again[t][s] = 0

\* The inductive invariant of the stock, the layers and the documents.
TransferInv == StockInv /\ TypeOK /\ LayersFollowStock /\ Documents

\* It has that of the stock and its layers.
LEMMA TransferCosts == TransferInv => CostInv /\ StockInv /\ CostTypeOK
BY DEF TransferInv, TypeOK, CostInv

(***************************************************************************)
(* The steps, one by one: every one is a step of the stock or leaves it     *)
(* alone, and keeps TransferInv.                                            *)
(***************************************************************************)

\* A transfer's lines are lines of a stock document.
LEMMA LinesAtAre ==
  ASSUME NEW l \in Locations, NEW qty \in [Variants -> Quantities \cup {0}]
  PROVE  /\ LinesAt(l, qty) \in [Keys -> Nat]
         /\ \A k \in Keys : LinesAt(l, qty)[k] = IF k[1] = l THEN qty[k[2]] ELSE 0
         /\ \A k \in Keys : k[1] \in Locations /\ k[2] \in Variants
         /\ \A v \in Variants : <<l, v>> \in Keys /\ LinesAt(l, qty)[<<l, v>>] = qty[v]
         /\ \A v \in Variants : qty[v] \in Nat
         /\ (\E v \in Variants : qty[v] > 0) => LinesAt(l, qty) \in Lines
<1> DEFINE lines == LinesAt(l, qty)
<1>1. \A k \in Keys : k[1] \in Locations /\ k[2] \in Variants
  BY KeysAssumption
<1>2. \A v \in Variants : <<l, v>> \in Keys /\ <<l, v>>[1] = l /\ <<l, v>>[2] = v
  BY KeysAssumption
<1>3. lines = [k \in Keys |-> IF k[1] = l THEN qty[k[2]] ELSE 0]
  BY DEF LinesAt
<1> HIDE DEF lines
<1>4. \A k \in Keys : lines[k] = IF k[1] = l THEN qty[k[2]] ELSE 0
  BY <1>3
<1>5. \A v \in Variants : lines[<<l, v>>] = qty[v]
  BY <1>2, <1>4
<1>6. \A v \in Variants : qty[v] \in Quantities \cup {0} /\ qty[v] \in Nat
  <2>1. Quantities \cup {0} \subseteq Nat
    BY QuantitiesAssumption
  <2>2. \A v \in Variants : qty[v] \in Quantities \cup {0}
    OBVIOUS
  <2> QED BY <2>1, <2>2, Zenon
<1>7. \A k \in Keys : lines[k] \in Quantities \cup {0} /\ lines[k] \in Nat
  BY <1>1, <1>4, <1>6
<1>8. lines \in [Keys -> Nat] /\ lines \in [Keys -> Quantities \cup {0}]
  BY <1>3, <1>7
<1>9. ASSUME NEW v \in Variants, qty[v] > 0 PROVE lines \in Lines
  <2>1. lines[<<l, v>>] # 0 /\ <<l, v>> \in Keys
    BY <1>2, <1>5, <1>9
  <2>2. lines # [k \in Keys |-> 0]
    BY <2>1
  <2> QED BY <1>8, <2>2 DEF Lines, Nothing
<1> QED BY <1>1, <1>2, <1>4, <1>5, <1>6, <1>8, <1>9 DEF lines

\* One line for one item.
LEMMA OneLine ==
  ASSUME NEW l \in Locations, NEW v \in Variants, NEW q \in Quantities
  PROVE  LET lines == [k \in Keys |-> IF k = <<l, v>> THEN q ELSE 0] IN
         /\ lines \in Lines /\ lines \in [Keys -> Nat]
         /\ \A k \in Keys : lines[k] = IF k = <<l, v>> THEN q ELSE 0
         /\ <<l, v>> \in Keys /\ q \in Nat /\ q > 0
<1> DEFINE lines == [k \in Keys |-> IF k = <<l, v>> THEN q ELSE 0]
<1>1. <<l, v>> \in Keys
  BY KeysAssumption
<1>2. q \in Nat /\ q > 0
  BY QuantitiesAssumption
<1>3. \A k \in Keys : lines[k] = IF k = <<l, v>> THEN q ELSE 0
  OBVIOUS
<1>4. lines \in [Keys -> Quantities \cup {0}]
  OBVIOUS
<1>5. lines[<<l, v>>] = q
  BY <1>1
<1> HIDE DEF lines
<1>6. lines # [k \in Keys |-> 0]
  BY <1>1, <1>2, <1>5
<1>7. lines \in Lines
  BY <1>4, <1>6 DEF Lines, Nothing
<1> QED BY <1>1, <1>2, <1>3, <1>7, LinesAreQuantities DEF lines

\* Posting a document is a step of the stock and keeps its invariant.
LEMMA StockKept ==
  ASSUME StockInv, NEW type \in Inflows \cup Outflows, NEW lines \in Lines,
         Post(type, lines), UNCHANGED << exceptions, synced >>
  PROVE  StockNext /\ StockInv'
<1>1. type \in MovementTypes
  BY DEF Inflows, Outflows, MovementTypes
<1>2. PostDocument(type, lines)
  BY DEF PostDocument, Inflows, Outflows
<1>3. StockNext
  BY <1>1, <1>2 DEF StockNext
<1>4. KeepsBook /\ BucketsHold'
  BY <1>3, StockStep
<1> QED BY <1>3, <1>4, StockInvKept

\* A step that leaves the stock and the layers alone.
LEMMA StockIdle ==
  ASSUME CostInv, UNCHANGED << stockVars, costVars >>
  PROVE  StockInv' /\ CostTypeOK' /\ LayersFollowStock' /\ UNCHANGED stockVars
<1>1. UNCHANGED stockVars /\ UNCHANGED costVars /\ StockInv
  BY DEF CostInv
<1>2. KeepsBook /\ BucketsHold'
  BY <1>1, StockStep
<1> QED BY <1>1, <1>2, StockInvKept, CostIdleStep

\* Documents of the rest of the shop are steps of the stock and its layers.
LEMMA OneLineIn ==
  ASSUME CostInv, NEW type, NEW lines \in Lines, NEW cost \in Costs, GoodsIn(type, lines, cost)
  PROVE  StockNext /\ StockInv' /\ CostTypeOK' /\ LayersFollowStock'
<1>1. type \in MovementTypes /\ PostDocument(type, lines) /\ StockInv
  BY DEF GoodsIn, MovementTypes, CostInv
<1>2. OthersTrade
  BY <1>1 DEF OthersTrade
<1>3. KeepsBook /\ BucketsHold' /\ CostTypeOK' /\ LayersFollowStock'
  BY <1>2, OthersTradeStep
<1> QED BY <1>1, <1>3, StockInvKept DEF StockNext

LEMMA OneLineOut ==
  ASSUME CostInv, NEW type, NEW lines \in Lines, GoodsOut(type, lines)
  PROVE  StockNext /\ StockInv' /\ CostTypeOK' /\ LayersFollowStock'
<1>1. type \in MovementTypes /\ PostDocument(type, lines) /\ StockInv
  BY DEF GoodsOut, MovementTypes, CostInv
<1>2. OthersTrade
  BY <1>1 DEF OthersTrade
<1>3. KeepsBook /\ BucketsHold' /\ CostTypeOK' /\ LayersFollowStock'
  BY <1>2, OthersTradeStep
<1> QED BY <1>1, <1>3, StockInvKept DEF StockNext

LEMMA OfflineLine ==
  ASSUME CostInv, NEW s \in SaleRefs, NEW lines \in Lines, SyncOfflineSale(s, lines),
         UNCHANGED << gained, lost >>,
         layers' = [k \in Keys |-> Consumed(layers[k], lines[k])]
  PROVE  StockNext /\ StockInv' /\ CostTypeOK' /\ LayersFollowStock'
<1>1. lines \in [Keys -> Nat] /\ StockInv
  BY LinesAreQuantities DEF CostInv
<1>2. StockNext
  BY DEF StockNext
<1>3. KeepsBook /\ BucketsHold'
  BY <1>1, OfflineStep
<1>4. CostTypeOK' /\ LayersFollowStock'
  BY <1>1, OfflineLayersStep
<1> QED BY <1>1, <1>2, <1>3, <1>4, StockInvKept

LEMMA Adjusted ==
  ASSUME CostInv, OthersAdjust
  PROVE  StockNext /\ StockInv' /\ CostTypeOK' /\ LayersFollowStock'
<1>0. PICK k \in Keys, type \in MovementTypes, qty \in Quantities : PostUncosted(k, type, qty)
  BY DEF OthersAdjust
<1> DEFINE lines == [i \in Keys |-> IF i = k THEN qty ELSE 0]
<1>1. /\ type \in { "ADJUSTMENT_GAIN", "ADJUSTMENT_LOSS", "DAMAGE", "EXPIRY", "QUARANTINE_IN",
                    "QUARANTINE_RELEASE", "RESERVATION", "RESERVATION_RELEASE" }
      /\ Post(type, lines) /\ UNCHANGED << exceptions, synced >>
  BY <1>0 DEF PostUncosted
<1>2. CASE type \in {"RESERVATION", "RESERVATION_RELEASE"}
  <2>1. PostDocument(type, lines)
    BY <1>1, <1>2 DEF PostDocument
  <2>2. lines \in Lines
    <3>1. lines \in [Keys -> Quantities \cup {0}]
      OBVIOUS
    <3>2. lines[k] # 0
      BY QuantitiesAssumption
    <3> QED BY <3>1, <3>2 DEF Lines, Nothing
  <2>3. StockNext
    BY <2>1, <2>2 DEF StockNext
  <2>4. KeepsBook /\ BucketsHold' /\ CostTypeOK' /\ LayersFollowStock' /\ StockInv
    BY OthersAdjustStep DEF CostInv
  <2> QED BY <2>3, <2>4, StockInvKept
<1>3. CASE type \notin {"RESERVATION", "RESERVATION_RELEASE"}
  <2>1. Adjust(k, type, qty)
    BY <1>1, <1>3 DEF Adjust
  <2>2. StockNext
    BY <2>1 DEF StockNext
  <2>3. KeepsBook /\ BucketsHold' /\ CostTypeOK' /\ LayersFollowStock' /\ StockInv
    BY OthersAdjustStep DEF CostInv
  <2> QED BY <2>2, <2>3, StockInvKept
<1> QED BY <1>2, <1>3

\* One line of a document.
LEMMA LineOfIs ==
  ASSUME NEW l \in Locations, NEW v \in Variants, NEW q \in Quantities
  PROVE  /\ LineOf(l, v, q) \in Lines /\ LineOf(l, v, q) \in [Keys -> Nat]
         /\ \A k \in Keys : LineOf(l, v, q)[k] = IF k = <<l, v>> THEN q ELSE 0
         /\ <<l, v>> \in Keys /\ q \in Nat /\ q > 0
BY OneLine DEF LineOf

\* The ledger rows of a transfer after a posting.
LEMMA PostedRows ==
  ASSUME posted \in [Transfers -> [Keys -> Int]], NEW t \in Transfers,
         NEW type \in Inflows \cup Outflows, NEW lines \in [Keys -> Nat],
         PostedFor(t, type, lines)
  PROVE  /\ posted' \in [Transfers -> [Keys -> Int]]
         /\ \A r \in Transfers \ {t} : posted'[r] = posted[r]
         /\ \A k \in Keys :
              /\ type \in Inflows => posted'[t][k] = posted[t][k] + lines[k]
              /\ type \in Outflows => posted'[t][k] = posted[t][k] - lines[k]
<1> DEFINE old == posted[t]
           new == BookedAll(old, type, lines)
<1>1. old \in [Keys -> Int] /\ \A k \in Keys : old[k] \in Int /\ lines[k] \in Nat
  OBVIOUS
<1>2. new = [k \in Keys |->
               IF lines[k] > 0 THEN old[k] + LedgerDelta(type, lines[k]) ELSE old[k]]
  BY <1>1 DEF BookedAll
<1>3. posted' = [posted EXCEPT ![t] = new]
  BY DEF PostedFor
<1> HIDE DEF old, new
<1>4. ASSUME NEW k \in Keys
      PROVE  /\ new[k] \in Int
             /\ type \in Inflows => new[k] = old[k] + lines[k]
             /\ type \in Outflows => new[k] = old[k] - lines[k]
  <2>1. new[k] = IF lines[k] > 0 THEN old[k] + LedgerDelta(type, lines[k]) ELSE old[k]
    BY <1>2
  <2> DEFINE q == lines[k]
             n == old[k]
  <2>2. n \in Int /\ q \in Nat /\ new[k] = IF q > 0 THEN n + LedgerDelta(type, q) ELSE n
    BY <1>1, <2>1
  <2> HIDE DEF q, n
  <2>3. /\ type \in Inflows => LedgerDelta(type, q) = q
        /\ type \in Outflows => LedgerDelta(type, q) = -q
    BY DEF Inflows, Outflows, LedgerDelta
  <2>4. /\ new[k] \in Int
        /\ type \in Inflows => new[k] = n + q
        /\ type \in Outflows => new[k] = n - q
    BY <2>2, <2>3
  <2> QED BY <2>4 DEF q, n
<1>5. new \in [Keys -> Int]
  BY <1>2, <1>4
<1>6. /\ posted' \in [Transfers -> [Keys -> Int]]
      /\ posted'[t] = new
      /\ \A r \in Transfers \ {t} : posted'[r] = posted[r]
  BY <1>3, <1>5
<1> QED BY <1>4, <1>6 DEF old

\* The rest of the shop.
LEMMA ShopStep ==
  ASSUME TransferInv, ShopTrades
  PROVE  [StockNext]_stockVars /\ TransferInv'
<1>0. CostInv
  BY TransferCosts
<1>1. UNCHANGED << transfer, approving, posted, again, misallocated >>
  BY DEF ShopTrades, transferVars
<1>2. /\ unit \in [Serials -> Units] /\ sold \subseteq Serials \X Locations
      /\ returned \subseteq Serials /\ delivered \in [Keys -> Nat]
  BY DEF TransferInv, TypeOK
<1> DEFINE ShopOK == /\ unit' \in [Serials -> Units] /\ sold' \subseteq Serials \X Locations
                     /\ returned' \subseteq Serials /\ delivered' \in [Keys -> Nat]
           StockOK == /\ [StockNext]_stockVars /\ StockInv'
                      /\ CostTypeOK' /\ LayersFollowStock'
<1>3. ASSUME NEW l \in Locations, NEW v \in Variants, NEW q \in Quantities,
             NEW units \in SUBSET Serials
      PROVE  /\ \A cost \in Costs : ReceiveGoods(l, v, q, cost, units) => StockOK /\ ShopOK
             /\ Sell(l, v, q, units) => StockOK /\ ShopOK
             /\ \A s \in SaleRefs : SellOffline(s, l, v, q, units) => StockOK /\ ShopOK
             /\ \A cost \in Costs : Restock(l, v, q, cost, units) => StockOK /\ ShopOK
             /\ TakeBack(l, v, q, units) => StockOK /\ ShopOK
             /\ FillOrder(l, v, q) => StockOK /\ ShopOK
  <2>0. LineOf(l, v, q) \in Lines /\ <<l, v>> \in Keys /\ q \in Nat
    BY LineOfIs
  <2>1. ASSUME NEW cost \in Costs, ReceiveGoods(l, v, q, cost, units) PROVE StockOK /\ ShopOK
    <3>1. StockOK
      BY <1>0, <2>0, <2>1, OneLineIn DEF ReceiveGoods
    <3>2. ShopOK
      BY <1>2, <2>1 DEF ReceiveGoods, Units
    <3> QED BY <3>1, <3>2
  <2>2. ASSUME SellUnits(l, v, q, units) PROVE ShopOK
    BY <1>2, <2>2 DEF SellUnits, Units
  <2>3. ASSUME Sell(l, v, q, units) PROVE StockOK /\ ShopOK
    BY <1>0, <2>0, <2>2, <2>3, OneLineOut DEF Sell
  <2>4. ASSUME NEW s \in SaleRefs, SellOffline(s, l, v, q, units) PROVE StockOK /\ ShopOK
    BY <1>0, <2>0, <2>2, <2>4, OfflineLine DEF SellOffline
  <2>5. ASSUME NEW status \in {"AVAILABLE", "RETIRED"}, ReturnUnits(l, v, q, units, status)
        PROVE  ShopOK
    BY <1>2, <2>5 DEF ReturnUnits, Units
  <2>6. ASSUME NEW cost \in Costs, Restock(l, v, q, cost, units) PROVE StockOK /\ ShopOK
    BY <1>0, <2>0, <2>5, <2>6, OneLineIn DEF Restock
  <2>7. ASSUME TakeBack(l, v, q, units) PROVE StockOK /\ ShopOK
    BY <1>0, <2>5, <2>7, StockIdle DEF TakeBack
  <2>8. ASSUME FillOrder(l, v, q) PROVE StockOK /\ ShopOK
    <3>1. StockOK
      BY <1>0, <2>0, <2>8, OneLineOut DEF FillOrder
    <3>2. ShopOK
      BY <1>2, <2>0, <2>8 DEF FillOrder
    <3> QED BY <3>1, <3>2
  <2> HIDE DEF StockOK, ShopOK
  <2> QED BY <2>1, <2>3, <2>4, <2>6, <2>7, <2>8
<1>4. ASSUME OthersAdjust, UNCHANGED shopVars PROVE StockOK /\ ShopOK
  <2>1. UNCHANGED << unit, sold, returned, delivered >>
    BY <1>4 DEF shopVars
  <2> QED BY <1>0, <1>2, <1>4, <2>1, Adjusted
<1>5. StockOK /\ ShopOK
  <2> HIDE DEF StockOK, ShopOK
  <2> QED BY <1>3, <1>4 DEF ShopTrades
<1>6. TypeOK'
  BY <1>1, <1>5 DEF TransferInv, TypeOK, StockInv
<1>7. Documents'
  BY <1>1 DEF TransferInv, Documents
<1> QED BY <1>5, <1>6, <1>7 DEF TransferInv

\* A new row for one transfer.
LEMMA NewRow ==
  ASSUME transfer \in [Transfers -> TransferRows], NEW t \in Transfers, NEW new \in TransferRows,
         transfer' = [transfer EXCEPT ![t] = new]
  PROVE  /\ transfer' \in [Transfers -> TransferRows]
         /\ transfer'[t] = new
         /\ \A r \in Transfers \ {t} : transfer'[r] = transfer[r]
OBVIOUS

\* Documents, one transfer being written.
LEMMA DocumentWritten ==
  ASSUME Documents, NEW t \in Transfers,
         \A r \in Transfers \ {t} :
           transfer'[r] = transfer[r] /\ approving'[r] = approving[r] /\ again'[r] = again[r],
         transfer'[t].status # "NONE",
         \E v \in Variants : transfer'[t].qty[v] > 0,
         OnePerUnit(transfer'[t].units, transfer'[t].qty)
  PROVE  Documents'
<1> SUFFICES ASSUME NEW r \in Transfers
             PROVE  /\ transfer'[r].status # "NONE" =>
                         /\ \E v \in Variants : transfer'[r].qty[v] > 0
                         /\ OnePerUnit(transfer'[r].units, transfer'[r].qty)
                    /\ transfer'[r].status = "NONE" =>
                         approving'[r] = 0 /\ \A s \in Dispatched : again'[r][s] = 0
  BY DEF Documents, OnePerUnit
<1>1. CASE r = t
  BY <1>1
<1>2. CASE r # t
  BY <1>2 DEF Documents
<1> QED BY <1>1, <1>2

\* Creating a transfer moves nothing.
LEMMA CreateStep ==
  ASSUME TransferInv, NEW t \in Transfers, NEW from \in Locations, NEW to \in Locations,
         NEW qty \in [Variants -> Quantities \cup {0}], NEW units \in SUBSET Serials,
         Create(t, from, to, qty, units)
  PROVE  UNCHANGED stockVars /\ TransferInv'
<1> DEFINE new == [NoTransfer(from, to) EXCEPT !.status = "REQUESTED", !.qty = qty, !.units = units]
<1>1. /\ \E v \in Variants : qty[v] > 0
      /\ OnePerUnit(units, qty)
      /\ transfer' = [transfer EXCEPT ![t] = new]
      /\ UNCHANGED << stockVars, costVars >>
      /\ UNCHANGED << unit, sold, returned, delivered, approving, posted, again, misallocated >>
  BY DEF Create, shopVars
<1>2. /\ new \in TransferRows
      /\ new.status = "REQUESTED" /\ new.qty = qty /\ new.units = units
  BY DEF NoTransfer, TransferRows, Statuses
<1> HIDE DEF new
<1>3. /\ transfer' \in [Transfers -> TransferRows]
      /\ transfer'[t] = new
      /\ \A r \in Transfers \ {t} : transfer'[r] = transfer[r]
  BY <1>1, <1>2, NewRow DEF TransferInv, TypeOK
<1>4. StockInv' /\ CostTypeOK' /\ LayersFollowStock' /\ UNCHANGED stockVars
  BY <1>1, TransferCosts, StockIdle
<1>5. TypeOK'
  BY <1>1, <1>3, <1>4 DEF TransferInv, TypeOK, StockInv
<1>6. Documents'
  BY <1>1, <1>2, <1>3, DocumentWritten DEF TransferInv
<1> QED BY <1>4, <1>5, <1>6 DEF TransferInv

\* What a late write of an approval makes of the row and its histories.
LEMMA ApprovedRow ==
  ASSUME TransferInv, NEW t \in Transfers, WriteApproved(t)
  PROVE  /\ transfer[t].status # "NONE"
         /\ transfer' \in [Transfers -> TransferRows]
         /\ transfer'[t].status = "APPROVED"
         /\ transfer'[t].from = transfer[t].from /\ transfer'[t].to = transfer[t].to
         /\ transfer'[t].qty = transfer[t].qty /\ transfer'[t].units = transfer[t].units
         /\ \A r \in Transfers \ {t} : transfer'[r] = transfer[r]
         /\ approving' \in [Transfers -> Nat]
         /\ \A r \in Transfers \ {t} : approving'[r] = approving[r]
         /\ again' \in [Transfers -> [Dispatched -> Nat]]
         /\ \A s \in Dispatched :
              again'[t][s] = IF s = transfer[t].status THEN again[t][s] + 1 ELSE again[t][s]
         /\ \A r \in Transfers \ {t} : again'[r] = again[r]
<1> DEFINE new == [transfer[t] EXCEPT !.status = "APPROVED"]
           more == [s \in Dispatched |->
                      IF s = transfer[t].status THEN again[t][s] + 1 ELSE again[t][s]]
<1>1. /\ approving[t] > 0 /\ approving' = [approving EXCEPT ![t] = @ - 1]
      /\ transfer' = [transfer EXCEPT ![t] = new]
      /\ again' = [again EXCEPT ![t] = more]
  BY DEF WriteApproved, TransferInv, TypeOK
<1>2. /\ transfer \in [Transfers -> TransferRows] /\ transfer[t] \in TransferRows
      /\ approving \in [Transfers -> Nat] /\ again \in [Transfers -> [Dispatched -> Nat]]
  BY DEF TransferInv, TypeOK
<1>3. /\ new \in TransferRows /\ new.status = "APPROVED" /\ new.from = transfer[t].from
      /\ new.to = transfer[t].to /\ new.qty = transfer[t].qty /\ new.units = transfer[t].units
  BY <1>2 DEF TransferRows, Statuses
<1>4. more \in [Dispatched -> Nat]
  BY <1>2
<1> HIDE DEF new
<1>5. /\ transfer' \in [Transfers -> TransferRows] /\ transfer'[t] = new
      /\ \A r \in Transfers \ {t} : transfer'[r] = transfer[r]
  BY <1>1, <1>2, <1>3, NewRow
<1>6. again' \in [Transfers -> [Dispatched -> Nat]] /\ again'[t] = more
      /\ \A r \in Transfers \ {t} : again'[r] = again[r]
  <2> HIDE DEF more
  <2> QED BY <1>1, <1>2, <1>4
<1>7. approving' \in [Transfers -> Nat] /\ \A r \in Transfers \ {t} : approving'[r] = approving[r]
  BY <1>1, <1>2
<1>8. transfer[t].status # "NONE"
  BY <1>1 DEF TransferInv, Documents
<1> QED BY <1>3, <1>5, <1>6, <1>7, <1>8

\* Approving a transfer moves nothing, early or late.
LEMMA ApproveStep ==
  ASSUME TransferInv, NEW t \in Transfers, ReadForApprove(t) \/ WriteApproved(t)
  PROVE  UNCHANGED stockVars /\ TransferInv'
<1>1. /\ UNCHANGED << stockVars, costVars >>
      /\ UNCHANGED << unit, sold, returned, delivered, posted, misallocated >>
  BY DEF ReadForApprove, WriteApproved, shopVars
<1>2. StockInv' /\ CostTypeOK' /\ LayersFollowStock' /\ UNCHANGED stockVars
  BY <1>1, TransferCosts, StockIdle
<1>3. transfer[t].status # "NONE" => /\ \E v \in Variants : transfer[t].qty[v] > 0
                                     /\ OnePerUnit(transfer[t].units, transfer[t].qty)
  BY DEF TransferInv, Documents
<1>4. CASE ReadForApprove(t)
  <2>1. /\ transfer[t].status = "REQUESTED" /\ approving' = [approving EXCEPT ![t] = @ + 1]
        /\ UNCHANGED << transfer, again >>
    BY <1>4 DEF ReadForApprove
  <2>2. approving' \in [Transfers -> Nat] /\ \A r \in Transfers \ {t} : approving'[r] = approving[r]
    BY <2>1 DEF TransferInv, TypeOK
  <2>3. TypeOK'
    BY <1>1, <1>2, <2>1, <2>2 DEF TransferInv, TypeOK, StockInv
  <2>4. Documents'
    BY <1>3, <2>1, <2>2, DocumentWritten DEF TransferInv
  <2> QED BY <1>2, <2>3, <2>4 DEF TransferInv
<1>5. CASE WriteApproved(t)
  <2>1. TypeOK'
    BY <1>1, <1>2, <1>5, ApprovedRow DEF TransferInv, TypeOK, StockInv
  <2>2. Documents'
    BY <1>3, <1>5, ApprovedRow, DocumentWritten DEF TransferInv
  <2> QED BY <1>2, <2>1, <2>2 DEF TransferInv
<1> QED BY <1>4, <1>5

\* The parts of a transfer's row.
LEMMA RowParts ==
  ASSUME TransferInv, NEW t \in Transfers
  PROVE  /\ transfer[t] \in TransferRows
         /\ transfer[t].from \in Locations /\ transfer[t].to \in Locations
         /\ transfer[t].qty \in [Variants -> Quantities \cup {0}]
         /\ transfer[t].units \in SUBSET Serials
         /\ transfer[t].unitCost \in [Variants -> Nat]
         /\ transfer[t].status # "NONE" => /\ \E v \in Variants : transfer[t].qty[v] > 0
                                           /\ OnePerUnit(transfer[t].units, transfer[t].qty)
         /\ posted \in [Transfers -> [Keys -> Int]]
         /\ transfer \in [Transfers -> TransferRows]
         /\ StockInv /\ CostInv /\ CostTypeOK
<1>1. transfer[t] \in TransferRows
  BY DEF TransferInv, TypeOK
<1>2. /\ transfer[t].from \in Locations /\ transfer[t].to \in Locations
      /\ transfer[t].qty \in [Variants -> Quantities \cup {0}]
      /\ transfer[t].units \in SUBSET Serials
      /\ transfer[t].unitCost \in [Variants -> Nat]
  BY <1>1 DEF TransferRows
<1>3. /\ posted \in [Transfers -> [Keys -> Int]] /\ transfer \in [Transfers -> TransferRows]
      /\ StockInv /\ CostInv /\ CostTypeOK
  BY TransferCosts DEF TransferInv, TypeOK
<1>4. transfer[t].status # "NONE" => /\ \E v \in Variants : transfer[t].qty[v] > 0
                                     /\ OnePerUnit(transfer[t].units, transfer[t].qty)
  BY DEF TransferInv, Documents
<1> QED BY <1>1, <1>2, <1>3, <1>4

\* Goods that leave with a transfer take their cost out of the layers, to the nearest half
\* unit of money a piece.  The fallback cost is for what the layers do not have, which is
\* no more than adjustments added to the stock.
LEMMA GoodsLeave ==
  ASSUME CostInv, NEW type \in Outflows, NEW lines \in [Keys -> Nat], Post(type, lines),
         layers' = [k \in Keys |-> Consumed(layers[k], lines[k])]
  PROVE  \A k \in Keys :
           /\ lines[k] > 0 =>
                LET each == UnitCost(layers[k], lines[k], BaseCost)
                    used == ValueOf(layers[k]) - ValueOf(layers'[k])
                    more == 2 * BaseCost * Least(lines[k], gained[k])
                IN  /\ each \in Nat /\ used \in Nat /\ more \in Nat
                    /\ 2 * (lines[k] * each - used) \in (-lines[k])..(lines[k] + more)
           /\ lines[k] = 0 => ValueOf(layers'[k]) = ValueOf(layers[k])
<1> SUFFICES ASSUME NEW k \in Keys
             PROVE  /\ lines[k] > 0 =>
                         LET each == UnitCost(layers[k], lines[k], BaseCost)
                             used == ValueOf(layers[k]) - ValueOf(layers'[k])
                             more == 2 * BaseCost * Least(lines[k], gained[k])
                         IN  /\ each \in Nat /\ used \in Nat /\ more \in Nat
                             /\ 2 * (lines[k] * each - used) \in (-lines[k])..(lines[k] + more)
                    /\ lines[k] = 0 => ValueOf(layers'[k]) = ValueOf(layers[k])
  OBVIOUS
<1> DEFINE s == layers[k]
           q == lines[k]
           g == gained[k]
<1>1. s \in Seq(LayerRows) /\ q \in Nat /\ g \in Nat /\ BaseCost \in Nat
  BY CostedItem, BaseCostAssumption
<1>2. LeftIn(s) \in Nat /\ LeftIn(s) >= balance[k].onHand - g /\ balance[k].onHand \in Int
  BY CostedItem DEF Follows
<1>3. q = 0 \/ q <= balance[k].onHand
  <2>1. StockInv
    BY DEF CostInv
  <2>2. type \in Inflows \cup Outflows /\ "SALE" \notin Inflows /\ "TRANSFER_OUT" \notin Inflows
    BY DEF Inflows
  <2> QED BY <2>1, <2>2, ShelfMoves
<1>4. layers'[k] = Consumed(s, q)
  OBVIOUS
<1>5. ValueOf(s) \in Nat
  BY <1>1, LayersAre
<1> HIDE DEF s, q, g
<1>6. ASSUME q > 0
      PROVE  LET each == UnitCost(s, q, BaseCost)
                 used == ValueOf(s) - ValueOf(Consumed(s, q))
                 more == 2 * BaseCost * Least(q, g)
             IN  /\ each \in Nat /\ used \in Nat /\ more \in Nat
                 /\ 2 * (q * each - used) \in (-q)..(q + more)
  <2> DEFINE each == UnitCost(s, q, BaseCost)
             used == ValueOf(s) - ValueOf(Consumed(s, q))
             n == Beyond(s, q)
             m == Least(q, g)
             x == BaseCost * n
             y == BaseCost * m
             w == q * each
  <2>1. q \in Nat \ {0}
    BY <1>1, <1>6
  <2>2. /\ each \in Nat /\ used \in Nat /\ x \in Nat
        /\ 2 * (w - used - x) \in (-q)..q
    BY <1>1, <2>1, UnitCostIsClose
  <2>3. n \in Nat /\ m \in Nat /\ n <= m
    BY <1>1, <1>2, <1>3, <1>6 DEF Beyond, Least
  <2> HIDE DEF each, used, n, m
  <2>4. y \in Nat /\ x <= y /\ 2 * BaseCost * m = 2 * y
    <3> DEFINE d == m - n
    <3>1. d \in Nat /\ m = n + d
      BY <2>3
    <3> HIDE DEF d
    <3>2. BaseCost * d \in Nat /\ y = x + BaseCost * d
      BY <1>1, <2>3, <3>1
    <3>3. 2 * BaseCost * m = 2 * y /\ y \in Nat
      BY <1>1, <2>3
    <3> QED BY <2>2, <3>2, <3>3
  <2>5. w \in Nat
    BY <1>1, <2>2
  <2> HIDE DEF x, y, w
  <2>6. 2 * (w - used) \in (-q)..(q + 2 * y)
    BY <1>1, <2>2, <2>4, <2>5
  <2>7. 2 * y \in Nat
    BY <2>4
  <2> QED BY <2>2, <2>4, <2>6, <2>7 DEF each, used, m, w, x
<1>7. ASSUME q = 0 PROVE ValueOf(Consumed(s, q)) = ValueOf(s)
  <2> DEFINE take == Taken(s, q)
             out == Outstanding(s, q)
             cost == TotalCost(s, q, 0)
  <2>1. ValueOf(Consumed(s, q)) + cost = ValueOf(s)
    BY <1>1, ConsumedAny
  <2>2. DOMAIN take = 1..Len(s) /\ \A i \in 1..Len(s) : take[i] = 0
    <3>1. /\ DOMAIN take = 1..Len(s) /\ out[0] = 0 /\ Len(s) \in Nat
          /\ \A i \in 0..Len(s) : out[i] \in Nat
          /\ \A i \in 1..Len(s) : out[i] = out[i - 1] - Least(out[i - 1], s[i].left)
          /\ \A i \in 1..Len(s) : take[i] \in Nat /\ take[i] = out[i - 1] - out[i]
          /\ SumFunction(take) = q - out[Len(s)]
          /\ out[Len(s)] = 0
      BY <1>1, <1>2, <1>7, TakenAddsUp, OutstandingGoesDown, LayersAre
    <3> DEFINE D == 1..Len(s)
    <3>2. IsFiniteSet(D) /\ SumFunctionOnSet(take, D) = 0 /\ \A i \in D : take[i] \in Nat
      BY <1>1, <1>7, <3>1, LayersAre DEF SumFunction
    <3> HIDE DEF D, take
    <3>3. \A i \in D : take[i] <= 0
      BY <3>2, SumCovers
    <3>4. \A i \in D : take[i] = 0
      BY <3>2, <3>3
    <3> QED BY <3>1, <3>4 DEF D
  <2>3. cost = 0
    <3> DEFINE worth == [i \in DOMAIN s |-> take[i] * s[i].cost]
    <3>1. cost = SumFunction(worth) + 0 * (q - SumFunction(take))
      BY DEF TotalCost
    <3>2. DOMAIN s = 1..Len(s) /\ IsFiniteSet(DOMAIN s) /\ \A i \in 1..Len(s) : s[i].cost \in Nat
      BY <1>1, LayersAre
    <3>3. \A i \in DOMAIN s : worth[i] = 0
      <4> SUFFICES ASSUME NEW i \in DOMAIN s PROVE take[i] * s[i].cost = 0
        OBVIOUS
      <4>1. take[i] = 0 /\ s[i].cost \in Nat
        BY <2>2, <3>2
      <4>2. 0 * s[i].cost = 0
        BY <4>1
      <4> HIDE DEF take
      <4> QED BY <4>1, <4>2, Zenon
    <3>4. DOMAIN worth = DOMAIN s
      OBVIOUS
    <3>5. SumFunctionOnSet(take, DOMAIN take) = 0
      <4> HIDE DEF take
      <4> QED BY <2>2, <3>2, SumZero
    <3> HIDE DEF worth, take
    <3>6. SumFunction(worth) = 0
      BY <3>2, <3>3, <3>4, SumZero DEF SumFunction
    <3>7. q - SumFunction(take) = 0
      BY <1>7, <3>5 DEF SumFunction
    <3> QED BY <3>1, <3>6, <3>7
  <2> HIDE DEF cost
  <2>4. ValueOf(Consumed(s, q)) \in Nat
    BY <1>1, ConsumedAny, LayersAre
  <2> QED BY <1>5, <2>1, <2>3, <2>4
<1> QED BY <1>4, <1>6, <1>7, Zenon DEF s, q, g

\* Dispatching a transfer: its units leave, at what their layers are worth to the nearest
\* half unit of money a piece.
LEMMA DispatchEffect ==
  ASSUME TransferInv, NEW t \in Transfers, Dispatch(t)
  PROVE  LET lines == LinesAt(transfer[t].from, transfer[t].qty) IN
         /\ transfer[t].status = "APPROVED"
         /\ lines \in Lines /\ lines \in [Keys -> Nat]
         /\ Post("TRANSFER_OUT", lines)
         /\ UNCHANGED << exceptions, synced, gained, lost, sold, returned, delivered >>
         /\ UNCHANGED << approving, again >>
         /\ transfer' \in [Transfers -> TransferRows]
         /\ transfer'[t].status = "IN_TRANSIT"
         /\ transfer'[t].from = transfer[t].from /\ transfer'[t].to = transfer[t].to
         /\ transfer'[t].qty = transfer[t].qty /\ transfer'[t].units = transfer[t].units
         /\ \A v \in Variants : transfer[t].qty[v] > 0 =>
              transfer'[t].unitCost[v] =
                UnitCost(layers[<<transfer[t].from, v>>], transfer[t].qty[v], BaseCost)
         /\ \A r \in Transfers \ {t} : transfer'[r] = transfer[r]
         /\ CostTypeOK' /\ LayersFollowStock'
         /\ \A k \in Keys :
              /\ lines[k] > 0 =>
                   LET each == UnitCost(layers[k], lines[k], BaseCost)
                       used == ValueOf(layers[k]) - ValueOf(layers'[k])
                       more == 2 * BaseCost * Least(lines[k], gained[k])
                   IN  /\ each \in Nat /\ used \in Nat /\ more \in Nat
                       /\ 2 * (lines[k] * each - used) \in (-lines[k])..(lines[k] + more)
              /\ lines[k] = 0 => ValueOf(layers'[k]) = ValueOf(layers[k])
<1> DEFINE row == transfer[t]
           from == row.from
           qty == row.qty
           lines == LinesAt(from, qty)
           cost == [v \in Variants |->
                      IF qty[v] > 0 THEN UnitCost(layers[<<from, v>>], qty[v], BaseCost)
                                    ELSE row.unitCost[v]]
           new == [row EXCEPT !.status = "IN_TRANSIT", !.unitCost = cost]
<1>1. /\ row.status = "APPROVED"
      /\ Post("TRANSFER_OUT", lines)
      /\ layers' = [k \in Keys |-> Consumed(layers[k], lines[k])]
      /\ UNCHANGED << exceptions, synced, gained, lost, sold, returned, delivered >>
      /\ UNCHANGED << approving, again >>
  BY DEF Dispatch
<1>2. transfer' = [transfer EXCEPT ![t] = new]
  <2>1. transfer' = [transfer EXCEPT
          ![t].status = "IN_TRANSIT",
          ![t].unitCost = [v \in Variants |->
             IF qty[v] > 0 THEN UnitCost(layers[<<from, v>>], qty[v], BaseCost) ELSE @[v]]]
    BY DEF Dispatch
  <2> QED BY <2>1, RowParts
<1>3. /\ row \in TransferRows /\ from \in Locations /\ qty \in [Variants -> Quantities \cup {0}]
      /\ row.unitCost \in [Variants -> Nat]
      /\ \E v \in Variants : qty[v] > 0
      /\ StockInv /\ CostInv /\ CostTypeOK
      /\ transfer \in [Transfers -> TransferRows]
  BY <1>1, RowParts
<1> HIDE DEF from, qty
<1>4. /\ lines \in Lines /\ lines \in [Keys -> Nat]
      /\ \A v \in Variants : <<from, v>> \in Keys /\ lines[<<from, v>>] = qty[v] /\ qty[v] \in Nat
  BY <1>3, LinesAtAre
<1> HIDE DEF lines
<1>5. "TRANSFER_OUT" \in Outflows
  BY DEF Outflows
<1>6. /\ CostTypeOK' /\ LayersFollowStock'
      /\ \A k \in Keys :
           /\ lines[k] > 0 =>
                LET each == UnitCost(layers[k], lines[k], BaseCost)
                    used == ValueOf(layers[k]) - ValueOf(layers'[k])
                    more == 2 * BaseCost * Least(lines[k], gained[k])
                IN  /\ each \in Nat /\ used \in Nat /\ more \in Nat
                    /\ 2 * (lines[k] * each - used) \in (-lines[k])..(lines[k] + more)
           /\ lines[k] = 0 => ValueOf(layers'[k]) = ValueOf(layers[k])
  BY <1>1, <1>3, <1>4, <1>5, GoodsLeave, GoodsOutStep
<1>7. \A v \in Variants : qty[v] > 0 => UnitCost(layers[<<from, v>>], qty[v], BaseCost) \in Nat
  BY <1>4, <1>6
<1>8. cost \in [Variants -> Nat]
  BY <1>3, <1>7
<1>9. \A v \in Variants : qty[v] > 0 => cost[v] = UnitCost(layers[<<from, v>>], qty[v], BaseCost)
  OBVIOUS
<1> HIDE DEF cost
<1>10. /\ new \in TransferRows /\ new.status = "IN_TRANSIT" /\ new.unitCost = cost
       /\ new.from = row.from /\ new.to = row.to /\ new.qty = row.qty /\ new.units = row.units
  <2> HIDE DEF row
  <2> QED BY <1>3, <1>8 DEF TransferRows, Statuses
<1> HIDE DEF new
<1>11. /\ transfer' \in [Transfers -> TransferRows]
       /\ transfer'[t] = new
       /\ \A r \in Transfers \ {t} : transfer'[r] = transfer[r]
  BY <1>2, <1>3, <1>10, NewRow
<1>12. \A v \in Variants : qty[v] > 0 =>
         transfer'[t].unitCost[v] = UnitCost(layers[<<from, v>>], qty[v], BaseCost)
  BY <1>9, <1>10, <1>11
<1> QED BY <1>1, <1>4, <1>6, <1>10, <1>11, <1>12 DEF lines, from, qty, row

\* Receiving a transfer: its units arrive at the cost they left at.
LEMMA ReceiveEffect ==
  ASSUME TransferInv, NEW t \in Transfers, Receive(t)
  PROVE  LET lines == LinesAt(transfer[t].to, transfer[t].qty) IN
         /\ transfer[t].status = "IN_TRANSIT"
         /\ lines \in Lines /\ lines \in [Keys -> Nat]
         /\ Post("TRANSFER_IN", lines)
         /\ UNCHANGED << exceptions, synced, gained, lost, sold, returned, delivered >>
         /\ UNCHANGED << approving, again, misallocated >>
         /\ transfer' \in [Transfers -> TransferRows]
         /\ transfer'[t].status = "RECEIVED"
         /\ transfer'[t].from = transfer[t].from /\ transfer'[t].to = transfer[t].to
         /\ transfer'[t].qty = transfer[t].qty /\ transfer'[t].units = transfer[t].units
         /\ \A r \in Transfers \ {t} : transfer'[r] = transfer[r]
         /\ CostTypeOK' /\ LayersFollowStock'
         /\ \A k \in Keys :
              ValueOf(layers'[k]) = ValueOf(layers[k]) + lines[k] * transfer[t].unitCost[k[2]]
<1> DEFINE row == transfer[t]
           to == row.to
           qty == row.qty
           lines == LinesAt(to, qty)
           cost == [k \in Keys |-> row.unitCost[k[2]]]
           new == [row EXCEPT !.status = "RECEIVED"]
<1>1. /\ row.status = "IN_TRANSIT"
      /\ Post("TRANSFER_IN", lines)
      /\ layers' = [k \in Keys |-> WithLayer(k, lines[k], row.unitCost[k[2]])]
      /\ transfer' = [transfer EXCEPT ![t] = new]
      /\ UNCHANGED << exceptions, synced, gained, lost, sold, returned, delivered >>
      /\ UNCHANGED << approving, again, misallocated >>
  BY DEF Receive
<1>2. /\ row \in TransferRows /\ to \in Locations /\ qty \in [Variants -> Quantities \cup {0}]
      /\ row.unitCost \in [Variants -> Nat]
      /\ \E v \in Variants : qty[v] > 0
      /\ StockInv /\ CostInv /\ CostTypeOK
      /\ transfer \in [Transfers -> TransferRows]
  BY <1>1, RowParts
<1> HIDE DEF to, qty
<1>3. /\ lines \in Lines /\ lines \in [Keys -> Nat]
      /\ \A k \in Keys : k[1] \in Locations /\ k[2] \in Variants
  BY <1>2, LinesAtAre
<1> HIDE DEF lines
<1>4. "TRANSFER_IN" \in Inflows
  BY DEF Inflows
<1>5. /\ cost \in [Keys -> Nat] /\ \A k \in Keys : cost[k] = row.unitCost[k[2]]
      /\ layers' = [k \in Keys |-> WithLayer(k, lines[k], cost[k])]
  BY <1>1, <1>2, <1>3
<1>6. /\ new \in TransferRows /\ new.status = "RECEIVED"
      /\ new.from = row.from /\ new.to = row.to /\ new.qty = row.qty /\ new.units = row.units
  <2> HIDE DEF row
  <2> QED BY <1>2 DEF TransferRows, Statuses
<1> HIDE DEF cost, new
<1>7. /\ CostTypeOK' /\ LayersFollowStock'
      /\ \A k \in Keys : ValueOf(layers'[k]) = ValueOf(layers[k]) + lines[k] * cost[k]
  BY <1>1, <1>2, <1>3, <1>4, <1>5, OneLayerMore, GoodsInStep
<1>8. /\ transfer' \in [Transfers -> TransferRows]
      /\ transfer'[t] = new
      /\ \A r \in Transfers \ {t} : transfer'[r] = transfer[r]
  BY <1>1, <1>2, <1>6, NewRow
<1>9. \A k \in Keys : ValueOf(layers'[k]) = ValueOf(layers[k]) + lines[k] * row.unitCost[k[2]]
  BY <1>5, <1>7
<1> QED BY <1>1, <1>3, <1>6, <1>7, <1>8, <1>9 DEF lines, to, qty, row

\* Dispatching and receiving post a document and keep the invariant.
LEMMA MoveStep ==
  ASSUME TransferInv, NEW t \in Transfers, Dispatch(t) \/ Receive(t)
  PROVE  StockNext /\ TransferInv'
<1> DEFINE out == LinesAt(transfer[t].from, transfer[t].qty)
           in == LinesAt(transfer[t].to, transfer[t].qty)
<1>1. /\ posted \in [Transfers -> [Keys -> Int]] /\ StockInv
      /\ transfer[t].status # "NONE" => /\ \E v \in Variants : transfer[t].qty[v] > 0
                                        /\ OnePerUnit(transfer[t].units, transfer[t].qty)
  BY RowParts
<1>2. /\ transfer' \in [Transfers -> TransferRows]
      /\ transfer[t].status # "NONE" /\ transfer'[t].status # "NONE"
      /\ transfer'[t].qty = transfer[t].qty /\ transfer'[t].units = transfer[t].units
      /\ \A r \in Transfers \ {t} : transfer'[r] = transfer[r]
      /\ CostTypeOK' /\ LayersFollowStock'
      /\ UNCHANGED << exceptions, synced, gained, lost, sold, returned, delivered >>
      /\ UNCHANGED << approving, again >>
  <2>1. CASE Dispatch(t)
    BY <2>1, DispatchEffect
  <2>2. CASE Receive(t)
    BY <2>2, ReceiveEffect
  <2> QED BY <2>1, <2>2
<1>3. StockNext /\ StockInv' /\ posted' \in [Transfers -> [Keys -> Int]]
  <2>1. CASE Dispatch(t)
    <3>1. out \in Lines /\ out \in [Keys -> Nat] /\ Post("TRANSFER_OUT", out)
      BY <2>1, DispatchEffect
    <3>2. PostedFor(t, "TRANSFER_OUT", out)
      BY <2>1 DEF Dispatch
    <3>3. "TRANSFER_OUT" \in Inflows \cup Outflows
      BY DEF Outflows
    <3> HIDE DEF out
    <3> QED BY <1>1, <1>2, <3>1, <3>2, <3>3, StockKept, PostedRows
  <2>2. CASE Receive(t)
    <3>1. in \in Lines /\ in \in [Keys -> Nat] /\ Post("TRANSFER_IN", in)
      BY <2>2, ReceiveEffect
    <3>2. PostedFor(t, "TRANSFER_IN", in)
      BY <2>2 DEF Receive
    <3>3. "TRANSFER_IN" \in Inflows \cup Outflows
      BY DEF Inflows
    <3> HIDE DEF in
    <3> QED BY <1>1, <1>2, <3>1, <3>2, <3>3, StockKept, PostedRows
  <2> QED BY <2>1, <2>2
<1>4. unit' \in [Serials -> Units]
  <2>1. unit \in [Serials -> Units] /\ transfer[t].to \in Locations
    BY RowParts DEF TransferInv, TypeOK
  <2>2. \/ unit' = [u \in Serials |->
             IF u \in transfer[t].units THEN [unit[u] EXCEPT !.status = "IN_TRANSIT"] ELSE unit[u]]
        \/ unit' = [u \in Serials |->
             IF u \in transfer[t].units THEN [status |-> "AVAILABLE", at |-> transfer[t].to]
             ELSE unit[u]]
    BY DEF Dispatch, Receive
  <2> QED BY <2>1, <2>2 DEF Units
<1>5. misallocated' \subseteq Transfers
  BY DEF TransferInv, TypeOK, Dispatch, Receive
<1>6. TypeOK'
  BY <1>2, <1>3, <1>4, <1>5 DEF TransferInv, TypeOK, StockInv
<1>7. Documents'
  BY <1>1, <1>2, DocumentWritten DEF TransferInv
<1> QED BY <1>2, <1>3, <1>6, <1>7 DEF TransferInv

\* Every step: a step of the stock or one that leaves it alone, which keeps the invariant.
LEMMA TransferStepKeeps ==
  ASSUME TransferInv, [Next]_vars
  PROVE  [StockNext]_stockVars /\ TransferInv'
<1>1. CASE ShopTrades
  BY <1>1, ShopStep
<1>2. ASSUME NEW t \in Transfers, TransferStep(t) PROVE [StockNext]_stockVars /\ TransferInv'
  <2>1. ASSUME NEW from \in Locations, NEW to \in Locations,
               NEW qty \in [Variants -> Quantities \cup {0}], NEW units \in SUBSET Serials,
               Create(t, from, to, qty, units)
        PROVE  UNCHANGED stockVars /\ TransferInv'
    BY <2>1, CreateStep
  <2>2. CASE ReadForApprove(t) \/ WriteApproved(t)
    BY <2>2, ApproveStep
  <2>3. CASE Dispatch(t) \/ Receive(t)
    BY <2>3, MoveStep
  <2> QED BY <1>2, <2>1, <2>2, <2>3 DEF TransferStep
<1>3. CASE UNCHANGED vars
  <2>1. /\ UNCHANGED << stockVars, costVars >>
        /\ UNCHANGED << transfer, unit, sold, returned, approving, posted, again >>
        /\ UNCHANGED << misallocated, delivered >>
    BY <1>3 DEF vars, stockVars, costVars
  <2>2. StockInv' /\ CostTypeOK' /\ LayersFollowStock' /\ UNCHANGED stockVars
    BY <2>1, TransferCosts, StockIdle
  <2>3. TypeOK'
    BY <2>1, <2>2 DEF TransferInv, TypeOK, StockInv
  <2>4. Documents'
    BY <2>1 DEF TransferInv, Documents
  <2> QED BY <2>2, <2>3, <2>4 DEF TransferInv
<1> QED BY <1>1, <1>2, <1>3 DEF Next

\* Empty shelves, no transfers.
LEMMA TransferInitInv ==
  ASSUME Init
  PROVE  StockInit /\ TransferInv
<1>1. StockInit /\ StockInv
  BY StockInitInv DEF Init
<1> DEFINE l == CHOOSE x \in Locations : TRUE
<1>2. l \in Locations
  BY FiniteAssumption
<1>3. /\ balance = [k \in Keys |-> EmptyBalance]
      /\ transfer = [t \in Transfers |-> NoTransfer(l, l)]
      /\ unit = [u \in Serials |-> [status |-> "NONE", at |-> l]]
      /\ layers = [k \in Keys |-> << >>]
      /\ NothingAdjusted
      /\ sold = {} /\ returned = {} /\ misallocated = {}
      /\ approving = [t \in Transfers |-> 0]
      /\ posted = [t \in Transfers |-> [k \in Keys |-> 0]]
      /\ again = [t \in Transfers |-> [s \in Dispatched |-> 0]]
      /\ delivered = Nothing
  BY DEF Init
<1> HIDE DEF l
<1>4. NoTransfer(l, l) \in TransferRows /\ NoTransfer(l, l).status = "NONE"
  BY <1>2 DEF NoTransfer, TransferRows, Statuses
<1>5. CostTypeOK /\ LayersFollowStock
  <2>1. layers = [k \in Keys |-> IF balance[k].onHand = 0 THEN << >>
                                  ELSE << Layer(balance[k].onHand, 0) >>]
    <3>1. \A k \in Keys : balance[k].onHand = 0
      BY <1>3 DEF EmptyBalance
    <3> QED BY <1>3, <3>1
  <2>2. 0 \in Nat
    OBVIOUS
  <2>3. CostInv
    BY <1>1, <1>3, <2>1, <2>2, OpeningLayers
  <2> QED BY <2>3 DEF CostInv
<1>6. unit \in [Serials -> Units]
  BY <1>2, <1>3 DEF Units
<1>7. /\ posted \in [Transfers -> [Keys -> Int]] /\ delivered \in [Keys -> Nat]
      /\ approving \in [Transfers -> Nat] /\ again \in [Transfers -> [Dispatched -> Nat]]
  BY <1>3 DEF Nothing
<1>8. TypeOK
  BY <1>1, <1>3, <1>4, <1>5, <1>6, <1>7 DEF TypeOK, StockInv
<1>9. Documents
  BY <1>3, <1>4 DEF Documents
<1> QED BY <1>1, <1>5, <1>8, <1>9 DEF TransferInv

\* TransferInv is inductive.
THEOREM TransferInvariant == Spec => []TransferInv
<1>1. Init => TransferInv
  BY TransferInitInv
<1>2. TransferInv /\ [Next]_vars => TransferInv'
  BY TransferStepKeeps
<1> QED BY <1>1, <1>2, PTL DEF Spec

\* The rows of transfers, serial numbers and cost layers have their types in every
\* reachable state; in particular no layer is ever empty or negative, whatever mix of
\* receipts, sales, returns, adjustments and transfers uses it.
THEOREM TransferTypes == Spec => []TypeOK
<1>1. TransferInv => TypeOK
  BY DEF TransferInv
<1> QED BY <1>1, TransferInvariant, PTL

\* Whatever is received, sold at the counter or offline, returned, adjusted, counted,
\* completed for an order and transferred, also by a transfer that is dispatched again:
\* the layers of an item cover its stock but for what adjustments added, hold no more than
\* the stock, what adjustments took and one recorded shortfall, and are used oldest first.
THEOREM LayersCorrect == Spec => []LayersFollowStock
<1>1. TransferInv => LayersFollowStock
  BY DEF TransferInv
<1> QED BY <1>1, TransferInvariant, PTL

\* Transfers implement the stock: each of their steps is a step of Inventory.
THEOREM TransfersImplementStock == Spec => StockSpec
<1>1. Init => StockInit
  BY TransferInitInv
<1>2. TransferInv /\ [Next]_vars => [StockNext]_stockVars
  BY TransferStepKeeps
<1> QED BY <1>1, <1>2, TransferInvariant, PTL DEF Spec, StockSpec

\* So what Inventory promises holds with transfers too: the ledger is what is available,
\* and stock is short by no more than the exceptions on record.
THEOREM TransfersKeepStock == Spec => [](LedgerIsTruth /\ ShortfallsOnRecord /\ BucketsHold)
<1>1. StockInv => LedgerIsTruth /\ ShortfallsOnRecord /\ BucketsHold
  BY DEF StockInv
<1> QED BY <1>1, TransfersImplementStock, StockInvariant, PTL

------------------------------------------------------------------------------
(***************************************************************************)
(* The ledger, transfer by transfer.                                        *)
(***************************************************************************)

\* What the ledger tells of one transfer.
Told(t) ==
  \A k \in Keys :
    posted[t][k] = Receipts(t) * LinesAt(transfer[t].to, transfer[t].qty)[k]
                   - Dispatches(t) * LinesAt(transfer[t].from, transfer[t].qty)[k]

\* How often a transfer was dispatched and received, in numbers.
LEMMA TimesAre ==
  ASSUME TransferInv, NEW t \in Transfers
  PROVE  /\ again[t]["IN_TRANSIT"] \in Nat /\ again[t]["RECEIVED"] \in Nat
         /\ Dispatches(t) \in Nat /\ Receipts(t) \in Nat
<1>1. again[t] \in [Dispatched -> Nat]
  BY DEF TransferInv, TypeOK
<1>2. again[t]["IN_TRANSIT"] \in Nat /\ again[t]["RECEIVED"] \in Nat
  BY <1>1 DEF Dispatched
<1> QED BY <1>2 DEF Dispatches, Receipts

\* The same lines as often as before, and the same rows.
LEMMA ToldAsBefore ==
  ASSUME NEW t \in Transfers, Told(t),
         transfer'[t].from = transfer[t].from, transfer'[t].to = transfer[t].to,
         transfer'[t].qty = transfer[t].qty,
         Dispatches(t)' = Dispatches(t), Receipts(t)' = Receipts(t),
         posted'[t] = posted[t]
  PROVE  Told(t)'
BY DEF Told, LinesAt

\* Another transfer's row, histories and ledger rows are left alone.
LEMMA ToldOfOthers ==
  ASSUME NEW t \in Transfers, Told(t),
         transfer'[t] = transfer[t], again'[t] = again[t], posted'[t] = posted[t]
  PROVE  Told(t)'
BY ToldAsBefore DEF Dispatches, Receipts

\* Once more.
LEMMA OnceMore ==
  ASSUME NEW n \in Nat, NEW x \in Nat
  PROVE  (n + 1) * x = n * x + x /\ n * x \in Nat
OBVIOUS

\* Goods out of the source once more, into the destination as often as before.
LEMMA DispatchTold ==
  ASSUME TransferInv, NEW t \in Transfers, Told(t), Dispatch(t)
  PROVE  Told(t)'
<1> DEFINE out == LinesAt(transfer[t].from, transfer[t].qty)
           in == LinesAt(transfer[t].to, transfer[t].qty)
           n == Dispatches(t)
           m == Receipts(t)
<1>0. /\ transfer[t].from \in Locations /\ transfer[t].to \in Locations
      /\ transfer[t].qty \in [Variants -> Quantities \cup {0}]
      /\ posted \in [Transfers -> [Keys -> Int]]
  BY RowParts
<1>1. /\ transfer[t].status = "APPROVED" /\ transfer'[t].status = "IN_TRANSIT"
      /\ transfer'[t].from = transfer[t].from /\ transfer'[t].to = transfer[t].to
      /\ transfer'[t].qty = transfer[t].qty /\ again' = again
  BY DispatchEffect
<1>2. out \in [Keys -> Nat] /\ in \in [Keys -> Nat]
  BY <1>0, LinesAtAre
<1>3. PostedFor(t, "TRANSFER_OUT", out) /\ "TRANSFER_OUT" \in Outflows
  BY DEF Dispatch, Outflows
<1>4. n \in Nat /\ m \in Nat /\ Dispatches(t)' = n + 1 /\ Receipts(t)' = m
  BY <1>1, TimesAre DEF Dispatches, Receipts, Dispatched
<1>5. /\ LinesAt(transfer'[t].to, transfer'[t].qty) = in
      /\ LinesAt(transfer'[t].from, transfer'[t].qty) = out
  BY <1>1
<1>6. \A k \in Keys : posted[t][k] = m * in[k] - n * out[k]
  BY DEF Told
<1> HIDE DEF out, in, n, m
<1>7. \A k \in Keys : posted'[t][k] = posted[t][k] - out[k]
  BY <1>0, <1>2, <1>3, PostedRows
<1>8. ASSUME NEW k \in Keys PROVE posted'[t][k] = m * in[k] - (n + 1) * out[k]
  <2>1. out[k] \in Nat /\ in[k] \in Nat
    BY <1>2
  <2>2. (n + 1) * out[k] = n * out[k] + out[k] /\ n * out[k] \in Nat /\ m * in[k] \in Nat
    BY <1>4, <2>1, OnceMore
  <2> DEFINE x == m * in[k]
             y == n * out[k]
             z == (n + 1) * out[k]
  <2>3. posted'[t][k] = (x - y) - out[k] /\ z = y + out[k] /\ x \in Nat /\ y \in Nat
    BY <1>6, <1>7, <2>2
  <2> HIDE DEF x, y, z
  <2>4. posted'[t][k] = x - z
    BY <2>1, <2>3
  <2> QED BY <2>4 DEF x, z
<1> QED BY <1>4, <1>5, <1>8 DEF Told

\* Goods into the destination once more, out of the source as often as before.
LEMMA ReceiveTold ==
  ASSUME TransferInv, NEW t \in Transfers, Told(t), Receive(t)
  PROVE  Told(t)'
<1> DEFINE out == LinesAt(transfer[t].from, transfer[t].qty)
           in == LinesAt(transfer[t].to, transfer[t].qty)
           n == Dispatches(t)
           m == Receipts(t)
<1>0. /\ transfer[t].from \in Locations /\ transfer[t].to \in Locations
      /\ transfer[t].qty \in [Variants -> Quantities \cup {0}]
      /\ posted \in [Transfers -> [Keys -> Int]]
  BY RowParts
<1>1. /\ transfer[t].status = "IN_TRANSIT" /\ transfer'[t].status = "RECEIVED"
      /\ transfer'[t].from = transfer[t].from /\ transfer'[t].to = transfer[t].to
      /\ transfer'[t].qty = transfer[t].qty /\ again' = again
  BY ReceiveEffect
<1>2. out \in [Keys -> Nat] /\ in \in [Keys -> Nat]
  BY <1>0, LinesAtAre
<1>3. PostedFor(t, "TRANSFER_IN", in) /\ "TRANSFER_IN" \in Inflows
  BY DEF Receive, Inflows
<1>4. n \in Nat /\ m \in Nat /\ Dispatches(t)' = n /\ Receipts(t)' = m + 1
  BY <1>1, TimesAre DEF Dispatches, Receipts, Dispatched
<1>5. /\ LinesAt(transfer'[t].to, transfer'[t].qty) = in
      /\ LinesAt(transfer'[t].from, transfer'[t].qty) = out
  BY <1>1
<1>6. \A k \in Keys : posted[t][k] = m * in[k] - n * out[k]
  BY DEF Told
<1> HIDE DEF out, in, n, m
<1>7. \A k \in Keys : posted'[t][k] = posted[t][k] + in[k]
  BY <1>0, <1>2, <1>3, PostedRows
<1>8. ASSUME NEW k \in Keys PROVE posted'[t][k] = (m + 1) * in[k] - n * out[k]
  <2>1. out[k] \in Nat /\ in[k] \in Nat
    BY <1>2
  <2>2. (m + 1) * in[k] = m * in[k] + in[k] /\ n * out[k] \in Nat /\ m * in[k] \in Nat
    BY <1>4, <2>1, OnceMore
  <2> DEFINE x == m * in[k]
             y == n * out[k]
             z == (m + 1) * in[k]
  <2>3. posted'[t][k] = (x - y) + in[k] /\ z = x + in[k] /\ x \in Nat /\ y \in Nat
    BY <1>6, <1>7, <2>2
  <2> HIDE DEF x, y, z
  <2>4. posted'[t][k] = z - y
    BY <2>1, <2>3
  <2> QED BY <2>4 DEF y, z
<1> QED BY <1>4, <1>5, <1>8 DEF Told

\* Nothing is posted before the first dispatch, whatever the lines are.
LEMMA NewTold ==
  ASSUME NEW t \in Transfers, NEW qty \in [Variants -> Quantities \cup {0}],
         NEW from \in Locations, NEW to \in Locations, \A k \in Keys : posted[t][k] = 0
  PROVE  \A k \in Keys : posted[t][k] = 0 * LinesAt(to, qty)[k] - 0 * LinesAt(from, qty)[k]
<1>1. LinesAt(from, qty) \in [Keys -> Nat] /\ LinesAt(to, qty) \in [Keys -> Nat]
  BY LinesAtAre
<1> QED BY <1>1

\* Creating a transfer posts nothing for it, and nothing had been posted.
LEMMA CreateTold ==
  ASSUME TransferInv, NEW t \in Transfers, Told(t),
         NEW from \in Locations, NEW to \in Locations,
         NEW qty \in [Variants -> Quantities \cup {0}], NEW units \in SUBSET Serials,
         Create(t, from, to, qty, units)
  PROVE  Told(t)' /\ \A r \in Transfers \ {t} : transfer'[r] = transfer[r]
<1> DEFINE new == [NoTransfer(from, to) EXCEPT !.status = "REQUESTED", !.qty = qty, !.units = units]
<1>1. /\ transfer[t].status = "NONE" /\ transfer' = [transfer EXCEPT ![t] = new]
      /\ UNCHANGED << posted, again >>
  BY DEF Create
<1>2. new.status = "REQUESTED" /\ new.from = from /\ new.to = to /\ new.qty = qty
  BY DEF NoTransfer
<1>3. /\ transfer \in [Transfers -> TransferRows]
      /\ transfer[t].from \in Locations /\ transfer[t].to \in Locations
      /\ transfer[t].qty \in [Variants -> Quantities \cup {0}]
  BY RowParts
<1> HIDE DEF new
<1>4. transfer'[t] = new /\ \A r \in Transfers \ {t} : transfer'[r] = transfer[r]
  BY <1>1, <1>3
<1>5. again[t]["IN_TRANSIT"] = 0 /\ again[t]["RECEIVED"] = 0
  BY <1>1 DEF TransferInv, Documents, Dispatched
<1>6. Dispatches(t) = 0 /\ Receipts(t) = 0
  BY <1>1, <1>5 DEF Dispatches, Receipts, Dispatched
<1>7. Dispatches(t)' = 0 /\ Receipts(t)' = 0
  BY <1>1, <1>2, <1>4, <1>5 DEF Dispatches, Receipts, Dispatched
<1>8. \A k \in Keys : posted[t][k] = 0
  <2> DEFINE out == LinesAt(transfer[t].from, transfer[t].qty)
             in == LinesAt(transfer[t].to, transfer[t].qty)
  <2>1. out \in [Keys -> Nat] /\ in \in [Keys -> Nat]
    BY <1>3, LinesAtAre
  <2>2. \A k \in Keys : posted[t][k] = 0 * in[k] - 0 * out[k]
    BY <1>6 DEF Told
  <2> HIDE DEF out, in
  <2> QED BY <2>1, <2>2
<1>9. \A k \in Keys : posted[t][k] = 0 * LinesAt(to, qty)[k] - 0 * LinesAt(from, qty)[k]
  BY <1>8, NewTold
<1>10. Told(t)'
  BY <1>1, <1>2, <1>4, <1>7, <1>9 DEF Told
<1> QED BY <1>4, <1>10

\* An approval posts nothing: what it overwrites is kept in again.
LEMMA ApproveTold ==
  ASSUME TransferInv, NEW t \in Transfers, Told(t), WriteApproved(t)
  PROVE  Told(t)'
<1> DEFINE s == transfer[t].status
           n == again[t]["IN_TRANSIT"]
           m == again[t]["RECEIVED"]
<1>1. n \in Nat /\ m \in Nat
  BY TimesAre
<1>2. /\ transfer'[t].status = "APPROVED"
      /\ transfer'[t].from = transfer[t].from /\ transfer'[t].to = transfer[t].to
      /\ transfer'[t].qty = transfer[t].qty
      /\ \A x \in Dispatched : again'[t][x] = IF x = s THEN again[t][x] + 1 ELSE again[t][x]
  BY ApprovedRow
<1>3. posted' = posted
  BY DEF WriteApproved
<1>4. /\ again'[t]["IN_TRANSIT"] = IF s = "IN_TRANSIT" THEN n + 1 ELSE n
      /\ again'[t]["RECEIVED"] = IF s = "RECEIVED" THEN m + 1 ELSE m
  BY <1>2 DEF Dispatched
<1>5. Dispatches(t)' = Dispatches(t)
  <2>1. Dispatches(t) = n + m + IF s \in Dispatched THEN 1 ELSE 0
    BY DEF Dispatches
  <2>2. Dispatches(t)' = again'[t]["IN_TRANSIT"] + again'[t]["RECEIVED"] + 0
    BY <1>2 DEF Dispatches, Dispatched
  <2> HIDE DEF s, n, m
  <2> QED BY <1>1, <1>4, <2>1, <2>2 DEF Dispatched
<1>6. Receipts(t)' = Receipts(t)
  <2>1. Receipts(t) = m + IF s = "RECEIVED" THEN 1 ELSE 0
    BY DEF Receipts
  <2>2. Receipts(t)' = again'[t]["RECEIVED"] + 0
    BY <1>2 DEF Receipts
  <2> HIDE DEF s, n, m
  <2> QED BY <1>1, <1>4, <2>1, <2>2
<1> QED BY <1>2, <1>3, <1>5, <1>6, ToldAsBefore

\* Nothing else posts for a transfer.
LEMMA LedgerStep ==
  ASSUME TransferInv, LedgerTellsTransfer, [Next]_vars
  PROVE  LedgerTellsTransfer'
<1> SUFFICES ASSUME NEW r \in Transfers PROVE Told(r)'
  BY DEF LedgerTellsTransfer, Told
<1>0. \A t \in Transfers : Told(t)
  BY DEF LedgerTellsTransfer, Told
<1>1. CASE ShopTrades
  BY <1>0, <1>1, ToldOfOthers DEF ShopTrades, transferVars
<1>2. CASE UNCHANGED vars
  BY <1>0, <1>2, ToldOfOthers DEF vars
<1>3. ASSUME NEW t \in Transfers, TransferStep(t) PROVE Told(r)'
  <2>0. posted \in [Transfers -> [Keys -> Int]]
    BY RowParts
  <2>1. ASSUME NEW from \in Locations, NEW to \in Locations,
               NEW qty \in [Variants -> Quantities \cup {0}], NEW units \in SUBSET Serials,
               Create(t, from, to, qty, units)
        PROVE  Told(r)'
    <3>1. UNCHANGED << posted, again >>
      BY <2>1 DEF Create
    <3>2. Told(t)' /\ \A x \in Transfers \ {t} : transfer'[x] = transfer[x]
      BY <1>0, <2>1, CreateTold
    <3>3. CASE r = t
      BY <3>2, <3>3
    <3>4. CASE r # t
      BY <1>0, <3>1, <3>2, <3>4, ToldOfOthers
    <3> QED BY <3>3, <3>4
  <2>2. CASE ReadForApprove(t)
    BY <1>0, <2>2, ToldOfOthers DEF ReadForApprove
  <2>3. CASE WriteApproved(t)
    <3>1. CASE r = t
      BY <1>0, <2>3, <3>1, ApproveTold
    <3>2. CASE r # t
      <4>1. transfer'[r] = transfer[r] /\ again'[r] = again[r] /\ posted' = posted
        BY <2>3, <3>2, ApprovedRow DEF WriteApproved
      <4> QED BY <1>0, <4>1, ToldOfOthers
    <3> QED BY <3>1, <3>2
  <2>4. CASE Dispatch(t)
    <3>1. CASE r = t
      BY <1>0, <2>4, <3>1, DispatchTold
    <3>2. CASE r # t
      <4>1. transfer'[r] = transfer[r] /\ again' = again
        BY <2>4, <3>2, DispatchEffect
      <4>2. posted'[r] = posted[r]
        BY <2>0, <2>4, <3>2 DEF Dispatch, PostedFor
      <4> QED BY <1>0, <4>1, <4>2, ToldOfOthers
    <3> QED BY <3>1, <3>2
  <2>5. CASE Receive(t)
    <3>1. CASE r = t
      BY <1>0, <2>5, <3>1, ReceiveTold
    <3>2. CASE r # t
      <4>1. transfer'[r] = transfer[r] /\ again' = again
        BY <2>5, <3>2, ReceiveEffect
      <4>2. posted'[r] = posted[r]
        BY <2>0, <2>5, <3>2 DEF Receive, PostedFor
      <4> QED BY <1>0, <4>1, <4>2, ToldOfOthers
    <3> QED BY <3>1, <3>2
  <2> QED BY <1>3, <2>1, <2>2, <2>3, <2>4, <2>5 DEF TransferStep
<1> QED BY <1>1, <1>2, <1>3 DEF Next

\* However many approvals of a transfer overlap and whenever they are written, the ledger
\* has its goods out of the source once for each dispatch and in the destination once for
\* each receipt: no posting is lost and none is made twice.
THEOREM TransfersOnLedger == Spec => []LedgerTellsTransfer
<1>1. Init => LedgerTellsTransfer
  <2> SUFFICES ASSUME Init, NEW t \in Transfers PROVE Told(t)
    BY DEF LedgerTellsTransfer, Told
  <2>0. TransferInv
    BY TransferInitInv
  <2>1. /\ transfer[t].status = "NONE" /\ \A k \in Keys : posted[t][k] = 0
        /\ again[t]["IN_TRANSIT"] = 0 /\ again[t]["RECEIVED"] = 0
    BY DEF Init, NoTransfer, Dispatched
  <2>2. Dispatches(t) = 0 /\ Receipts(t) = 0
    BY <2>1 DEF Dispatches, Receipts, Dispatched
  <2>3. /\ transfer[t].from \in Locations /\ transfer[t].to \in Locations
        /\ transfer[t].qty \in [Variants -> Quantities \cup {0}]
    BY <2>0, RowParts
  <2>4. \A k \in Keys : posted[t][k] = 0 * LinesAt(transfer[t].to, transfer[t].qty)[k]
                                       - 0 * LinesAt(transfer[t].from, transfer[t].qty)[k]
    BY <2>1, <2>3, NewTold
  <2> QED BY <2>2, <2>4 DEF Told
<1>2. TransferInv /\ LedgerTellsTransfer /\ [Next]_vars => LedgerTellsTransfer'
  BY LedgerStep
<1> QED BY <1>1, <1>2, TransferInvariant, PTL DEF Spec

------------------------------------------------------------------------------
(***************************************************************************)
(* Serial numbers.  The shelf matches the quantities, but for what moves    *)
(* without serial numbers, as long as nothing was dispatched that was not   *)
(* there; what is in transit is what the transfers in transit took, each    *)
(* its own; what is sold and has not come back is on no shelf.              *)
(***************************************************************************)

\* Sets that come together, and a part that goes.
LEMMA SetsCount ==
  ASSUME NEW S, IsFiniteSet(S), NEW A \in SUBSET S, NEW B \in SUBSET S
  PROVE  /\ Cardinality(A) \in Nat /\ Cardinality(B) \in Nat
         /\ A \cap B = {} => Cardinality(A \cup B) = Cardinality(A) + Cardinality(B)
         /\ B \subseteq A => Cardinality(A \ B) = Cardinality(A) - Cardinality(B)
<1>1. /\ IsFiniteSet(A) /\ Cardinality(A) \in Nat
      /\ IsFiniteSet(B) /\ Cardinality(B) \in Nat
  BY FS_Subset, FS_CardinalityType
<1>2. ASSUME A \cap B = {} PROVE Cardinality(A \cup B) = Cardinality(A) + Cardinality(B)
  <2>1. Cardinality(A \cup B) = Cardinality(A) + Cardinality(B) - Cardinality(A \cap B)
    BY <1>1, FS_Union
  <2>2. Cardinality(A \cap B) = 0
    BY <1>2, FS_EmptySet
  <2> QED BY <1>1, <2>1, <2>2
<1>3. ASSUME B \subseteq A PROVE Cardinality(A \ B) = Cardinality(A) - Cardinality(B)
  <2>1. A \cap B = B
    BY <1>3
  <2>2. Cardinality(A \ B) = Cardinality(A) - Cardinality(A \cap B)
    BY <1>1, FS_Difference
  <2> QED BY <2>1, <2>2
<1> QED BY <1>1, <1>2, <1>3

\* A variant's serial numbers that are available at a location.
OnShelf(l, v) == { u \in SerialsOf[v] : AvailableAt(u, l) }

\* An item's quantity, but for what was moved without its serial numbers.
Counted(k) == balance[k].onHand + lost[k] + delivered[k] - gained[k]

\* Each serialized item has as many serial numbers on the shelf.
ShelvesMatch ==
  \A l \in Locations, v \in Variants :
    SerialsOf[v] # {} => Counted(<<l, v>>) = Cardinality(OnShelf(l, v))

\* The serial numbers of a transfer in transit are in transit, and no other transfer's.
UnitsTravel ==
  /\ \A t \in Transfers : transfer[t].status = "IN_TRANSIT" =>
       \A u \in transfer[t].units : unit[u].status = "IN_TRANSIT"
  /\ \A t, r \in Transfers :
       t # r /\ transfer[t].status = "IN_TRANSIT" /\ transfer[r].status = "IN_TRANSIT"
         => transfer[t].units \cap transfer[r].units = {}

\* A serial number that was sold and has not come back is sold.
SoldAreGone ==
  \A u \in Serials, l \in Locations :
    <<u, l>> \in sold /\ u \notin returned => unit[u].status = "SOLD"

\* What is inductive together with TransferInv.
UnitsInv == NothingAstray => UnitsTravel /\ ShelvesMatch /\ SoldAreGone

\* The serial numbers of a variant, on a shelf or being moved, are finitely many.
LEMMA ShelfIsFinite ==
  ASSUME NEW v \in Variants
  PROVE  IsFiniteSet(SerialsOf[v]) /\ SerialsOf[v] \in SUBSET Serials
<1>1. SerialsOf[v] \in SUBSET Serials
  BY SerialsAssumption
<1> QED BY <1>1, FiniteAssumption, FS_Subset

\* Quantities and serial numbers that arrive together keep the shelves right.
LEMMA ShelfGains ==
  ASSUME ShelvesMatch, unit \in [Serials -> Units], NEW lines \in [Keys -> Nat],
         \A k \in Keys : Counted(k) \in Int /\ Counted(k)' = Counted(k) + lines[k],
         NEW l \in Locations, NEW moving \in SUBSET Serials,
         \A u \in moving : unit[u].status # "AVAILABLE",
         unit' = [u \in Serials |->
                    IF u \in moving THEN [status |-> "AVAILABLE", at |-> l] ELSE unit[u]],
         \A m \in Locations, v \in Variants : SerialsOf[v] # {} =>
           lines[<<m, v>>] = IF m = l THEN Cardinality(moving \cap SerialsOf[v]) ELSE 0
  PROVE  ShelvesMatch'
<1> SUFFICES ASSUME NEW m \in Locations, NEW v \in Variants, SerialsOf[v] # {}
             PROVE  Counted(<<m, v>>)' = Cardinality(OnShelf(m, v)')
  BY DEF ShelvesMatch, OnShelf, AvailableAt, Counted
<1> DEFINE S == SerialsOf[v]
           A == OnShelf(m, v)
           B == moving \cap S
           k == <<m, v>>
           n == lines[k]
<1>1. k \in Keys
  BY KeysAssumption
<1>2. Counted(k) \in Int /\ n \in Nat /\ Counted(k)' = Counted(k) + n
  BY <1>1
<1>3. Counted(k) = Cardinality(A)
  BY DEF ShelvesMatch
<1>4. IsFiniteSet(S) /\ S \in SUBSET Serials
  BY ShelfIsFinite
<1>5. A \in SUBSET S /\ B \in SUBSET S
  BY DEF OnShelf
<1>6. \A u \in S : u \in A <=> unit[u] = [status |-> "AVAILABLE", at |-> m]
  BY DEF OnShelf, AvailableAt
<1>7. \A u \in S : u \in OnShelf(m, v)' <=> unit'[u] = [status |-> "AVAILABLE", at |-> m]
  BY DEF OnShelf, AvailableAt
<1>8. A \cap B = {}
  BY <1>5, <1>6
<1>9. \A u \in S : unit'[u] = IF u \in B THEN [status |-> "AVAILABLE", at |-> l] ELSE unit[u]
  BY <1>4
<1>10. n = IF m = l THEN Cardinality(B) ELSE 0
  OBVIOUS
<1>11. OnShelf(m, v)' \subseteq S
  BY DEF OnShelf
<1>12. CASE m = l
  <2>1. OnShelf(m, v)' = A \cup B
    BY <1>5, <1>6, <1>7, <1>9, <1>11, <1>12
  <2>2. Cardinality(A \cup B) = Cardinality(A) + Cardinality(B)
    BY <1>4, <1>5, <1>8, SetsCount
  <2> QED BY <1>2, <1>3, <1>10, <1>12, <2>1, <2>2
<1>13. CASE m # l
  <2>1. ASSUME NEW u \in S PROVE u \in OnShelf(m, v)' <=> u \in A
    <3>1. CASE u \in B
      <4>1. unit'[u] # [status |-> "AVAILABLE", at |-> m]
        BY <1>9, <1>13, <3>1
      <4>2. u \notin A
        BY <1>8, <3>1
      <4> QED BY <1>7, <4>1, <4>2
    <3>2. CASE u \notin B
      BY <1>6, <1>7, <1>9, <3>2
    <3> QED BY <3>1, <3>2
  <2>2. OnShelf(m, v)' = A
    BY <1>5, <1>11, <2>1
  <2> QED BY <1>2, <1>3, <1>10, <1>13, <2>2
<1> QED BY <1>12, <1>13

\* Quantities and serial numbers that leave together keep the shelves right.
LEMMA ShelfLoses ==
  ASSUME ShelvesMatch, unit \in [Serials -> Units], NEW lines \in [Keys -> Nat],
         \A k \in Keys : Counted(k) \in Int /\ Counted(k)' = Counted(k) - lines[k],
         NEW l \in Locations, NEW moving \in SUBSET Serials,
         \A u \in moving : AvailableAt(u, l),
         NEW status, status # "AVAILABLE",
         unit' = [u \in Serials |->
                    IF u \in moving THEN [unit[u] EXCEPT !.status = status] ELSE unit[u]],
         \A m \in Locations, v \in Variants : SerialsOf[v] # {} =>
           lines[<<m, v>>] = IF m = l THEN Cardinality(moving \cap SerialsOf[v]) ELSE 0
  PROVE  ShelvesMatch'
<1> SUFFICES ASSUME NEW m \in Locations, NEW v \in Variants, SerialsOf[v] # {}
             PROVE  Counted(<<m, v>>)' = Cardinality(OnShelf(m, v)')
  BY DEF ShelvesMatch, OnShelf, AvailableAt, Counted
<1> DEFINE S == SerialsOf[v]
           A == OnShelf(m, v)
           B == moving \cap S
           k == <<m, v>>
           n == lines[k]
<1>1. k \in Keys
  BY KeysAssumption
<1>2. Counted(k) \in Int /\ n \in Nat /\ Counted(k)' = Counted(k) - n
  BY <1>1
<1>3. Counted(k) = Cardinality(A)
  BY DEF ShelvesMatch
<1>4. IsFiniteSet(S) /\ S \in SUBSET Serials
  BY ShelfIsFinite
<1>5. A \in SUBSET S /\ B \in SUBSET S
  BY DEF OnShelf
<1>6. \A u \in S : u \in A <=> unit[u] = [status |-> "AVAILABLE", at |-> m]
  BY DEF OnShelf, AvailableAt
<1>7. \A u \in S : u \in OnShelf(m, v)' <=> unit'[u] = [status |-> "AVAILABLE", at |-> m]
  BY DEF OnShelf, AvailableAt
<1>8. \A u \in B : unit[u] = [status |-> "AVAILABLE", at |-> l]
  BY DEF AvailableAt
<1>9. ASSUME NEW u \in B PROVE u \notin OnShelf(m, v)'
  <2>1. u \in Serials /\ u \in S /\ unit[u] \in Units
    BY <1>4
  <2>2. unit'[u] = [unit[u] EXCEPT !.status = status]
    BY <2>1
  <2>3. unit'[u].status = status
    BY <2>1, <2>2 DEF Units
  <2> QED BY <1>7, <2>1, <2>3
<1>10. ASSUME NEW u \in S \ B PROVE u \in OnShelf(m, v)' <=> u \in A
  <2>1. unit'[u] = unit[u]
    BY <1>4
  <2> QED BY <1>6, <1>7, <2>1
<1>11. n = IF m = l THEN Cardinality(B) ELSE 0
  OBVIOUS
<1>12. OnShelf(m, v)' \subseteq S
  BY DEF OnShelf
<1>13. CASE m = l
  <2>1. B \subseteq A
    BY <1>5, <1>6, <1>8, <1>13
  <2>2. OnShelf(m, v)' = A \ B
    BY <1>5, <1>9, <1>10, <1>12
  <2>3. Cardinality(A \ B) = Cardinality(A) - Cardinality(B)
    BY <1>4, <1>5, <2>1, SetsCount
  <2> QED BY <1>2, <1>3, <1>11, <1>13, <2>2, <2>3
<1>14. CASE m # l
  <2>1. A \cap B = {}
    BY <1>5, <1>6, <1>8, <1>14
  <2>2. OnShelf(m, v)' = A
    BY <1>5, <1>9, <1>10, <1>12, <2>1
  <2> QED BY <1>2, <1>3, <1>11, <1>14, <2>2
<1> QED BY <1>13, <1>14

\* Where what is on the shelves stays there, the shelves stay right.
LEMMA ShelfStays ==
  ASSUME ShelvesMatch, \A k \in Keys : Counted(k)' = Counted(k),
         \A u \in Serials, l \in Locations : AvailableAt(u, l)' <=> AvailableAt(u, l)
  PROVE  ShelvesMatch'
<1> SUFFICES ASSUME NEW l \in Locations, NEW v \in Variants, SerialsOf[v] # {}
             PROVE  Counted(<<l, v>>)' = Cardinality(OnShelf(l, v)')
  BY DEF ShelvesMatch, OnShelf, AvailableAt, Counted
<1>1. <<l, v>> \in Keys
  BY KeysAssumption
<1>2. OnShelf(l, v)' = OnShelf(l, v)
  BY ShelfIsFinite DEF OnShelf
<1> QED BY <1>1, <1>2 DEF ShelvesMatch

\* Serial numbers that are not sold, or come back, leave the others sold.
LEMMA SoldStays ==
  ASSUME SoldAreGone, NEW moving \in SUBSET Serials,
         \A u \in Serials \ moving : unit'[u] = unit[u],
         sold' = sold, returned \subseteq returned',
         \A u \in moving : unit[u].status # "SOLD" \/ u \in returned'
  PROVE  SoldAreGone'
<1> SUFFICES ASSUME NEW u \in Serials, NEW l \in Locations,
                    <<u, l>> \in sold', u \notin returned'
             PROVE  unit'[u].status = "SOLD"
  BY DEF SoldAreGone
<1>1. unit[u].status = "SOLD"
  BY DEF SoldAreGone
<1>2. u \notin moving
  BY <1>1
<1> QED BY <1>1, <1>2

\* Serial numbers that are not in transit leave the others in transit.
LEMMA TravelStays ==
  ASSUME TransferInv, UnitsTravel, UNCHANGED transfer, NEW moving \in SUBSET Serials,
         \A u \in Serials \ moving : unit'[u] = unit[u],
         \A u \in moving : unit[u].status # "IN_TRANSIT"
  PROVE  UnitsTravel'
<1> SUFFICES ASSUME NEW t \in Transfers, transfer[t].status = "IN_TRANSIT",
                    NEW u \in transfer[t].units
             PROVE  unit'[u].status = "IN_TRANSIT"
  BY DEF UnitsTravel
<1>1. unit[u].status = "IN_TRANSIT"
  BY DEF UnitsTravel
<1>2. u \in Serials /\ u \notin moving
  BY <1>1, RowParts
<1> QED BY <1>1, <1>2

\* What the counted quantities do: they follow the documents that name serial numbers.
LEMMA CountedMoves ==
  ASSUME TransferInv
  PROVE  /\ \A k \in Keys : Counted(k) \in Int
         /\ \A type \in Inflows, lines \in [Keys -> Nat] :
              Post(type, lines) /\ UNCHANGED << gained, lost, delivered >> =>
                \A k \in Keys : Counted(k)' = Counted(k) + lines[k]
         /\ \A type \in Outflows, lines \in [Keys -> Nat] :
              Post(type, lines) /\ UNCHANGED << gained, lost, delivered >> =>
                \A k \in Keys : Counted(k)' = Counted(k) - lines[k]
<1>1. ASSUME NEW k \in Keys
      PROVE  /\ balance[k].onHand \in Int /\ gained[k] \in Nat /\ lost[k] \in Nat
             /\ delivered[k] \in Nat
  <2>1. delivered[k] \in Nat
    BY DEF TransferInv, TypeOK
  <2> QED BY <2>1, CostedItem, TransferCosts
<1>2. \A k \in Keys : Counted(k) \in Int
  BY <1>1 DEF Counted
<1>3. StockInv
  BY TransferCosts
<1>4. ASSUME NEW type \in Inflows, NEW lines \in [Keys -> Nat], Post(type, lines),
             UNCHANGED << gained, lost, delivered >>, NEW k \in Keys
      PROVE  Counted(k)' = Counted(k) + lines[k]
  <2>1. balance'[k].onHand = balance[k].onHand + lines[k] /\ lines[k] \in Nat
    BY <1>3, <1>4, ShelfMoves
  <2> QED BY <1>1, <1>4, <2>1 DEF Counted
<1>5. ASSUME NEW type \in Outflows, NEW lines \in [Keys -> Nat], Post(type, lines),
             UNCHANGED << gained, lost, delivered >>, NEW k \in Keys
      PROVE  Counted(k)' = Counted(k) - lines[k]
  <2>1. balance'[k].onHand = balance[k].onHand - lines[k] /\ lines[k] \in Nat
    BY <1>3, <1>5, ShelfMoves
  <2> QED BY <1>1, <1>5, <2>1 DEF Counted
<1> QED BY <1>2, <1>4, <1>5

\* An offline sale takes its units from the shelf, there or not.
LEMMA OfflineShelf ==
  ASSUME TransferInv, NEW s \in SaleRefs, NEW lines \in [Keys -> Nat],
         SyncOfflineSale(s, lines), UNCHANGED << gained, lost, delivered >>
  PROVE  \A k \in Keys : Counted(k)' = Counted(k) - lines[k]
<1> SUFFICES ASSUME NEW k \in Keys PROVE Counted(k)' = Counted(k) - lines[k]
  OBVIOUS
<1> DEFINE b == balance[k]
           q == lines[k]
<1>1. b \in Balances /\ q \in Nat
  BY TransferCosts DEF StockInv, StockTypeOK
<1>2. balance'[k] = IF q > 0 THEN Posted(b, "SALE", q) ELSE b
  BY DEF SyncOfflineSale, PostedAll, TransferInv, StockInv, StockTypeOK
<1> HIDE DEF b, q
<1>3. balance'[k].onHand = b.onHand - q /\ b.onHand \in Int
  <2>1. b.onHand \in Int
    BY <1>1 DEF Balances
  <2>2. CASE q > 0
    BY <1>1, <1>2, <2>2 DEF Posted, BalanceChange, Signed, Balances
  <2>3. CASE q = 0
    BY <1>2, <2>1, <2>3
  <2> QED BY <1>1, <2>1, <2>2, <2>3
<1>4. gained[k] \in Nat /\ lost[k] \in Nat /\ delivered[k] \in Nat
  BY TransferCosts DEF TransferInv, TypeOK, CostTypeOK
<1> DEFINE x == b.onHand
           g == gained[k]
           l == lost[k]
           d == delivered[k]
<1>5. /\ Counted(k)' = balance'[k].onHand + l + d - g
      /\ Counted(k) = x + l + d - g
  BY DEF Counted, b
<1>6. x \in Int /\ g \in Nat /\ l \in Nat /\ d \in Nat /\ balance'[k].onHand = x - q
  BY <1>3, <1>4
<1> HIDE DEF x, g, l, d
<1> QED BY <1>1, <1>5, <1>6 DEF q

\* One item's quantity and the serial numbers of its variant: a line of a document.
LEMMA OneItemsUnits ==
  ASSUME NEW l \in Locations, NEW v \in Variants, NEW q \in Quantities,
         NEW units \in SUBSET Serials, Names(units, v, q)
  PROVE  \A m \in Locations, w \in Variants : SerialsOf[w] # {} =>
           LineOf(l, v, q)[<<m, w>>] = IF m = l THEN Cardinality(units \cap SerialsOf[w]) ELSE 0
<1> SUFFICES ASSUME NEW m \in Locations, NEW w \in Variants, SerialsOf[w] # {}
             PROVE  LineOf(l, v, q)[<<m, w>>]
                      = IF m = l THEN Cardinality(units \cap SerialsOf[w]) ELSE 0
  OBVIOUS
<1>0. units \subseteq SerialsOf[v] /\ (SerialsOf[v] # {} => Cardinality(units) = q)
  BY DEF Names
<1>1. LineOf(l, v, q)[<<m, w>>] = IF <<m, w>> = <<l, v>> THEN q ELSE 0
  <2>1. <<m, w>> \in Keys
    BY KeysAssumption
  <2> QED BY <2>1 DEF LineOf
<1>2. LineOf(l, v, q)[<<m, w>>] = IF m = l /\ w = v THEN q ELSE 0
  BY <1>1
<1>3. CASE w = v
  <2>1. units \cap SerialsOf[w] = units
    BY <1>0, <1>3
  <2> QED BY <1>0, <1>2, <1>3, <2>1
<1>4. CASE w # v
  <2>1. units \cap SerialsOf[w] = {}
    BY <1>0, <1>4, SerialsAssumption
  <2> QED BY <1>2, <1>4, <2>1, FS_EmptySet
<1> QED BY <1>3, <1>4

\* A transfer's quantities and its serial numbers.
LEMMA TransfersUnits ==
  ASSUME NEW l \in Locations, NEW qty \in [Variants -> Quantities \cup {0}], NEW units,
         OnePerUnit(units, qty)
  PROVE  \A m \in Locations, v \in Variants : SerialsOf[v] # {} =>
           LinesAt(l, qty)[<<m, v>>] = IF m = l THEN Cardinality(units \cap SerialsOf[v]) ELSE 0
<1> SUFFICES ASSUME NEW m \in Locations, NEW v \in Variants, SerialsOf[v] # {}
             PROVE  LinesAt(l, qty)[<<m, v>>]
                      = IF m = l THEN Cardinality(units \cap SerialsOf[v]) ELSE 0
  OBVIOUS
<1>1. Cardinality(units \cap SerialsOf[v]) = qty[v]
  BY DEF OnePerUnit
<1>2. <<m, v>> \in Keys /\ <<m, v>>[1] = m /\ <<m, v>>[2] = v
  BY KeysAssumption
<1>3. LinesAt(l, qty)[<<m, v>>] = IF m = l THEN qty[v] ELSE 0
  BY <1>2, LinesAtAre
<1> QED BY <1>1, <1>3

\* Where UnitsInv must hold after a step, it held before.
LEMMA StillTidy ==
  ASSUME TransferInv, UnitsInv, NothingAstray', misallocated \subseteq misallocated',
         \A t \in Transfers, s \in Dispatched : again[t][s] <= again'[t][s]
  PROVE  UnitsTravel /\ ShelvesMatch /\ SoldAreGone
<1>1. \A t \in Transfers, s \in Dispatched : again[t][s] \in Nat /\ again'[t][s] = 0
  BY DEF TransferInv, TypeOK, NothingAstray
<1>2. \A t \in Transfers, s \in Dispatched : again[t][s] = 0
  <2> SUFFICES ASSUME NEW t \in Transfers, NEW s \in Dispatched PROVE again[t][s] = 0
    OBVIOUS
  <2> DEFINE n == again[t][s]
  <2>1. n \in Nat /\ n <= 0
    BY <1>1
  <2> HIDE DEF n
  <2>2. n = 0
    BY <2>1
  <2> QED BY <2>2 DEF n
<1>3. NothingAstray
  BY <1>2 DEF NothingAstray
<1> QED BY <1>3 DEF UnitsInv

\* New serial numbers go on the shelf.
LEMMA ReceivedUnits ==
  ASSUME TransferInv, UnitsTravel, ShelvesMatch, SoldAreGone, UNCHANGED transfer,
         NEW l \in Locations, NEW v \in Variants, NEW q \in Quantities, NEW cost \in Costs,
         NEW units \in SUBSET Serials, ReceiveGoods(l, v, q, cost, units)
  PROVE  UnitsTravel' /\ ShelvesMatch' /\ SoldAreGone'
<1> DEFINE lines == LineOf(l, v, q)
<1>1. /\ Names(units, v, q) /\ \A u \in units : unit[u].status = "NONE"
      /\ Post("PURCHASE_RECEIPT", lines)
      /\ unit' = [u \in Serials |->
            IF u \in units THEN [status |-> "AVAILABLE", at |-> l] ELSE unit[u]]
      /\ UNCHANGED << gained, lost, sold, returned, delivered >>
  BY DEF ReceiveGoods, GoodsIn, PostDocument
<1>2. lines \in [Keys -> Nat] /\ unit \in [Serials -> Units]
  BY LineOfIs DEF TransferInv, TypeOK
<1>3. \A m \in Locations, w \in Variants : SerialsOf[w] # {} =>
        lines[<<m, w>>] = IF m = l THEN Cardinality(units \cap SerialsOf[w]) ELSE 0
  BY <1>1, OneItemsUnits
<1> HIDE DEF lines
<1>4. \A k \in Keys : Counted(k) \in Int /\ Counted(k)' = Counted(k) + lines[k]
  BY <1>1, <1>2, CountedMoves DEF Inflows
<1>5. \A u \in units : unit[u].status # "AVAILABLE"
  BY <1>1
<1>6. ShelvesMatch'
  BY <1>1, <1>2, <1>3, <1>4, <1>5, ShelfGains
<1>7. \A u \in Serials \ units : unit'[u] = unit[u]
  BY <1>1
<1>8. UnitsTravel'
  BY <1>1, <1>7, TravelStays
<1>9. SoldAreGone'
  BY <1>1, <1>7, SoldStays
<1> QED BY <1>6, <1>8, <1>9

\* Serial numbers that are sold leave the shelf, whichever way the stock is booked.
LEMMA SoldUnits ==
  ASSUME TransferInv, UnitsTravel, ShelvesMatch, SoldAreGone, UNCHANGED transfer,
         NEW l \in Locations, NEW v \in Variants, NEW q \in Quantities,
         NEW units \in SUBSET Serials, SellUnits(l, v, q, units),
         \A k \in Keys : Counted(k)' = Counted(k) - LineOf(l, v, q)[k]
  PROVE  UnitsTravel' /\ ShelvesMatch' /\ SoldAreGone'
<1> DEFINE lines == LineOf(l, v, q)
<1>1. /\ Names(units, v, q) /\ \A u \in units : AvailableAt(u, l)
      /\ \A u \in units : \A r \in sold : r[1] # u
      /\ unit' = [u \in Serials |->
            IF u \in units THEN [unit[u] EXCEPT !.status = "SOLD"] ELSE unit[u]]
      /\ sold' = sold \cup (units \X {l}) /\ returned' = returned
  BY DEF SellUnits
<1>2. lines \in [Keys -> Nat] /\ unit \in [Serials -> Units]
  BY LineOfIs DEF TransferInv, TypeOK
<1>3. \A m \in Locations, w \in Variants : SerialsOf[w] # {} =>
        lines[<<m, w>>] = IF m = l THEN Cardinality(units \cap SerialsOf[w]) ELSE 0
  BY <1>1, OneItemsUnits
<1>4. \A k \in Keys : Counted(k) \in Int /\ Counted(k)' = Counted(k) - lines[k]
  BY CountedMoves
<1> HIDE DEF lines
<1>5. "SOLD" # "AVAILABLE"
  OBVIOUS
<1>6. ShelvesMatch'
  BY <1>1, <1>2, <1>3, <1>4, <1>5, ShelfLoses
<1>7. \A u \in Serials \ units : unit'[u] = unit[u]
  BY <1>1
<1>8. \A u \in units : unit[u].status # "IN_TRANSIT" /\ unit'[u].status = "SOLD"
  BY <1>1, <1>2 DEF AvailableAt, Units
<1>9. UnitsTravel'
  BY <1>7, <1>8, TravelStays
<1>10. SoldAreGone'
  <2> SUFFICES ASSUME NEW u \in Serials, NEW m \in Locations,
                      <<u, m>> \in sold', u \notin returned'
               PROVE  unit'[u].status = "SOLD"
    BY DEF SoldAreGone
  <2>1. CASE u \in units
    BY <1>8, <2>1
  <2>2. CASE u \notin units
    <3>1. <<u, m>> \in sold /\ u \notin returned
      BY <1>1, <2>2
    <3>2. unit[u].status = "SOLD"
      BY <3>1 DEF SoldAreGone
    <3> QED BY <1>7, <2>2, <3>2
  <2> QED BY <2>1, <2>2
<1> QED BY <1>6, <1>9, <1>10

\* Serial numbers that come back were sold and on no shelf.
LEMMA ReturnedUnits ==
  ASSUME TransferInv, UnitsTravel, ShelvesMatch, SoldAreGone, UNCHANGED transfer,
         NEW l \in Locations, NEW v \in Variants, NEW q \in Quantities,
         NEW units \in SUBSET Serials, NEW status, ReturnUnits(l, v, q, units, status)
  PROVE  /\ \A u \in units : unit[u].status = "SOLD"
         /\ UnitsTravel' /\ SoldAreGone'
<1>1. /\ \A u \in units : <<u, l>> \in sold /\ u \notin returned
      /\ unit' = [u \in Serials |->
            IF u \in units THEN [status |-> status, at |-> l] ELSE unit[u]]
      /\ returned' = returned \cup units /\ sold' = sold
  BY DEF ReturnUnits
<1>2. \A u \in units : unit[u].status = "SOLD"
  BY <1>1 DEF SoldAreGone
<1>3. \A u \in Serials \ units : unit'[u] = unit[u]
  BY <1>1
<1>4. UnitsTravel'
  BY <1>2, <1>3, TravelStays
<1>5. SoldAreGone'
  BY <1>1, <1>3, SoldStays
<1> QED BY <1>2, <1>4, <1>5

\* What comes back goes on the shelf with its quantity.
LEMMA RestockedUnits ==
  ASSUME TransferInv, UnitsTravel, ShelvesMatch, SoldAreGone, UNCHANGED transfer,
         NEW l \in Locations, NEW v \in Variants, NEW q \in Quantities, NEW cost \in Costs,
         NEW units \in SUBSET Serials, Restock(l, v, q, cost, units)
  PROVE  UnitsTravel' /\ ShelvesMatch' /\ SoldAreGone'
<1> DEFINE lines == LineOf(l, v, q)
<1>1. /\ ReturnUnits(l, v, q, units, "AVAILABLE") /\ Names(units, v, q)
      /\ Post("SALE_RETURN", lines)
      /\ unit' = [u \in Serials |->
            IF u \in units THEN [status |-> "AVAILABLE", at |-> l] ELSE unit[u]]
      /\ UNCHANGED << gained, lost, delivered >>
  BY DEF Restock, ReturnUnits, GoodsIn, PostDocument
<1>2. lines \in [Keys -> Nat] /\ unit \in [Serials -> Units]
  BY LineOfIs DEF TransferInv, TypeOK
<1>3. \A m \in Locations, w \in Variants : SerialsOf[w] # {} =>
        lines[<<m, w>>] = IF m = l THEN Cardinality(units \cap SerialsOf[w]) ELSE 0
  <2>1. Names(units, v, q)
    BY <1>1
  <2> QED BY <2>1, OneItemsUnits
<1> HIDE DEF lines
<1>4. \A k \in Keys : Counted(k) \in Int /\ Counted(k)' = Counted(k) + lines[k]
  BY <1>1, <1>2, CountedMoves DEF Inflows
<1>5. /\ \A u \in units : unit[u].status # "AVAILABLE"
      /\ UnitsTravel' /\ SoldAreGone'
  BY <1>1, ReturnedUnits
<1>6. ShelvesMatch'
  BY <1>1, <1>2, <1>3, <1>4, <1>5, ShelfGains
<1> QED BY <1>5, <1>6

\* What comes back and is not restocked was on no shelf and goes on none.
LEMMA RetiredUnits ==
  ASSUME TransferInv, UnitsTravel, ShelvesMatch, SoldAreGone, UNCHANGED transfer,
         NEW l \in Locations, NEW v \in Variants, NEW q \in Quantities,
         NEW units \in SUBSET Serials, TakeBack(l, v, q, units)
  PROVE  UnitsTravel' /\ ShelvesMatch' /\ SoldAreGone'
<1>1. /\ ReturnUnits(l, v, q, units, "RETIRED")
      /\ unit' = [u \in Serials |->
            IF u \in units THEN [status |-> "RETIRED", at |-> l] ELSE unit[u]]
      /\ UNCHANGED << balance, gained, lost, delivered >>
  BY DEF TakeBack, ReturnUnits, stockVars, costVars
<1>2. /\ \A u \in units : unit[u].status = "SOLD"
      /\ UnitsTravel' /\ SoldAreGone'
  BY <1>1, ReturnedUnits
<1>3. \A k \in Keys : Counted(k)' = Counted(k)
  BY <1>1 DEF Counted
<1>4. ASSUME NEW u \in Serials, NEW m \in Locations
      PROVE  AvailableAt(u, m)' <=> AvailableAt(u, m)
  <2>1. CASE u \in units
    <3>1. unit[u].status = "SOLD" /\ unit'[u].status = "RETIRED"
      BY <1>1, <1>2, <2>1
    <3> QED BY <3>1 DEF AvailableAt
  <2>2. CASE u \notin units
    BY <1>1, <2>2 DEF AvailableAt
  <2> QED BY <2>1, <2>2
<1>5. ShelvesMatch'
  BY <1>3, <1>4, ShelfStays
<1> QED BY <1>2, <1>5

\* What moves without serial numbers is told apart in gained, lost and delivered.
LEMMA UntoldUnits ==
  ASSUME UnitsTravel, ShelvesMatch, SoldAreGone,
         UNCHANGED << transfer, unit, sold, returned >>,
         \A k \in Keys : Counted(k)' = Counted(k)
  PROVE  UnitsTravel' /\ ShelvesMatch' /\ SoldAreGone'
<1>1. ShelvesMatch'
  BY ShelfStays DEF AvailableAt
<1> QED BY <1>1 DEF UnitsTravel, SoldAreGone

\* The order that is completed, the item that is adjusted.
LEMMA UntoldStep ==
  ASSUME TransferInv, UnitsTravel, ShelvesMatch, SoldAreGone, UNCHANGED transfer,
         \/ OthersAdjust /\ UNCHANGED shopVars
         \/ \E l \in Locations, v \in Variants, q \in Quantities : FillOrder(l, v, q)
  PROVE  UnitsTravel' /\ ShelvesMatch' /\ SoldAreGone'
<1>0. StockInv /\ CostTypeOK /\ delivered \in [Keys -> Nat]
  BY TransferCosts DEF TransferInv, TypeOK
<1>1. CASE OthersAdjust /\ UNCHANGED shopVars
  <2>1. PICK k \in Keys, type \in MovementTypes, qty \in Quantities : PostUncosted(k, type, qty)
    BY <1>1 DEF OthersAdjust
  <2>2. qty \in Nat /\ UNCHANGED << unit, sold, returned, delivered >>
    BY <1>1, QuantitiesAssumption DEF shopVars
  <2>3. ASSUME NEW i \in Keys PROVE Counted(i)' = Counted(i)
    <3> DEFINE shelf == balance[i].onHand
               shelf2 == balance'[i].onHand
               g == gained[i]
               g2 == gained'[i]
               l == lost[i]
               l2 == lost'[i]
               d == delivered[i]
    <3>1. shelf2 + l2 - g2 = shelf + l - g /\ g2 \in Nat /\ l2 \in Nat
      BY <1>0, <2>1, <2>2, UncostedShelf
    <3>2. shelf \in Int /\ g \in Nat /\ l \in Nat /\ d \in Nat
      BY <1>0 DEF StockInv, StockTypeOK, CostTypeOK, Balances
    <3>3. shelf2 \in Int
      <4>1. StockTypeOK'
        BY <1>1, Adjusted, TransferCosts DEF StockInv
      <4> QED BY <4>1 DEF StockTypeOK, Balances
    <3>4. Counted(i)' = shelf2 + l2 + d - g2 /\ Counted(i) = shelf + l + d - g
      BY <2>2 DEF Counted
    <3> HIDE DEF shelf, shelf2, g, g2, l, l2, d
    <3> QED BY <3>1, <3>2, <3>3, <3>4
  <2> QED BY <2>2, <2>3, UntoldUnits
<1>2. ASSUME NEW l \in Locations, NEW v \in Variants, NEW q \in Quantities, FillOrder(l, v, q)
      PROVE  UnitsTravel' /\ ShelvesMatch' /\ SoldAreGone'
  <2> DEFINE lines == LineOf(l, v, q)
  <2>1. /\ Post("SALE", lines) /\ UNCHANGED << gained, lost, unit, sold, returned >>
        /\ delivered' = [delivered EXCEPT ![<<l, v>>] = @ + q]
    BY <1>2 DEF FillOrder, GoodsOut, PostDocument
  <2>2. /\ lines \in [Keys -> Nat] /\ <<l, v>> \in Keys /\ q \in Nat
        /\ \A k \in Keys : lines[k] = IF k = <<l, v>> THEN q ELSE 0
    BY LineOfIs
  <2> HIDE DEF lines
  <2>3. "SALE" \in Inflows \cup Outflows /\ "SALE" \in Outflows
    BY DEF Outflows
  <2>4. ASSUME NEW i \in Keys PROVE Counted(i)' = Counted(i)
    <3> DEFINE shelf == balance[i].onHand
               g == gained[i]
               m == lost[i]
               d == delivered[i]
               n == lines[i]
    <3>1. shelf \in Int /\ n \in Nat /\ balance'[i].onHand = shelf - n
      BY <1>0, <2>1, <2>2, <2>3, ShelfMoves
    <3>2. g \in Nat /\ m \in Nat /\ d \in Nat
      BY <1>0 DEF CostTypeOK
    <3>3. delivered'[i] = d + n
      BY <1>0, <2>1, <2>2
    <3>4. /\ Counted(i)' = balance'[i].onHand + m + delivered'[i] - g
          /\ Counted(i) = shelf + m + d - g
      BY <2>1 DEF Counted
    <3> HIDE DEF shelf, g, m, d, n
    <3> QED BY <3>1, <3>2, <3>3, <3>4
  <2> QED BY <2>1, <2>4, UntoldUnits
<1> QED BY <1>1, <1>2

\* The rest of the shop keeps the shelves right.
LEMMA ShopUnits ==
  ASSUME TransferInv, UnitsInv, ShopTrades
  PROVE  UnitsInv'
<1> SUFFICES ASSUME NothingAstray' PROVE UnitsTravel' /\ ShelvesMatch' /\ SoldAreGone'
  BY DEF UnitsInv
<1>1. UNCHANGED << transfer, again, misallocated >>
  BY DEF ShopTrades, transferVars
<1>2. UnitsTravel /\ ShelvesMatch /\ SoldAreGone
  BY <1>1 DEF UnitsInv, NothingAstray
<1>3. ASSUME NEW l \in Locations, NEW v \in Variants, NEW q \in Quantities,
             NEW units \in SUBSET Serials,
             \/ Sell(l, v, q, units)
             \/ \E s \in SaleRefs : SellOffline(s, l, v, q, units)
      PROVE  UnitsTravel' /\ ShelvesMatch' /\ SoldAreGone'
  <2> DEFINE lines == LineOf(l, v, q)
  <2>1. lines \in [Keys -> Nat]
    BY LineOfIs
  <2>2. SellUnits(l, v, q, units)
    BY <1>3 DEF Sell, SellOffline
  <2>3. UNCHANGED << gained, lost, delivered >>
    BY <1>3, <2>2 DEF Sell, SellOffline, SellUnits, GoodsOut
  <2>4. CASE Sell(l, v, q, units)
    <3>1. Post("SALE", lines) /\ "SALE" \in Outflows
      BY <2>4 DEF Sell, GoodsOut, PostDocument, Outflows
    <3> HIDE DEF lines
    <3>2. \A k \in Keys : Counted(k)' = Counted(k) - lines[k]
      BY <2>1, <2>3, <3>1, CountedMoves
    <3> QED BY <1>1, <1>2, <2>2, <3>2, SoldUnits DEF lines
  <2>5. CASE \E s \in SaleRefs : SellOffline(s, l, v, q, units)
    <3>1. \E s \in SaleRefs : SyncOfflineSale(s, lines)
      BY <2>5 DEF SellOffline
    <3> HIDE DEF lines
    <3>2. \A k \in Keys : Counted(k)' = Counted(k) - lines[k]
      BY <2>1, <2>3, <3>1, OfflineShelf
    <3> QED BY <1>1, <1>2, <2>2, <3>2, SoldUnits DEF lines
  <2> QED BY <1>3, <2>4, <2>5
<1>4. ASSUME NEW l \in Locations, NEW v \in Variants, NEW q \in Quantities,
             NEW units \in SUBSET Serials,
             \/ \E cost \in Costs : ReceiveGoods(l, v, q, cost, units)
             \/ \E cost \in Costs : Restock(l, v, q, cost, units)
             \/ TakeBack(l, v, q, units)
      PROVE  UnitsTravel' /\ ShelvesMatch' /\ SoldAreGone'
  BY <1>1, <1>2, <1>4, ReceivedUnits, RestockedUnits, RetiredUnits
<1>5. ASSUME \/ OthersAdjust /\ UNCHANGED shopVars
             \/ \E l \in Locations, v \in Variants, q \in Quantities : FillOrder(l, v, q)
      PROVE  UnitsTravel' /\ ShelvesMatch' /\ SoldAreGone'
  BY <1>1, <1>2, <1>5, UntoldStep
<1> QED BY <1>3, <1>4, <1>5 DEF ShopTrades

\* Creating and approving leave the shelves alone and put nothing in transit.
LEMMA PaperUnits ==
  ASSUME TransferInv, UnitsInv, NEW t \in Transfers,
         UNCHANGED << balance, costVars, shopVars, misallocated >>,
         transfer' = transfer \/ transfer'[t].status # "IN_TRANSIT",
         \A r \in Transfers \ {t} : transfer'[r] = transfer[r],
         \A r \in Transfers, s \in Dispatched : again[r][s] <= again'[r][s]
  PROVE  UnitsInv'
<1> SUFFICES ASSUME NothingAstray' PROVE UnitsTravel' /\ ShelvesMatch' /\ SoldAreGone'
  BY DEF UnitsInv
<1>1. UnitsTravel /\ ShelvesMatch /\ SoldAreGone
  BY StillTidy
<1>2. UNCHANGED << balance, gained, lost, unit, sold, returned, delivered >>
  BY DEF costVars, shopVars
<1>3. ShelvesMatch'
  BY <1>1, <1>2 DEF ShelvesMatch, OnShelf, AvailableAt, Counted
<1>4. SoldAreGone'
  BY <1>1, <1>2 DEF SoldAreGone
<1>5. UnitsTravel'
  <2>1. CASE transfer' = transfer
    BY <1>1, <1>2, <2>1 DEF UnitsTravel
  <2>2. CASE transfer'[t].status # "IN_TRANSIT"
    <3>1. \A r \in Transfers : transfer'[r].status = "IN_TRANSIT" => transfer'[r] = transfer[r]
      BY <2>2
    <3> QED BY <1>1, <1>2, <3>1 DEF UnitsTravel
  <2> QED BY <2>1, <2>2
<1> QED BY <1>3, <1>4, <1>5

\* A dispatch that disturbs nothing takes serial numbers from the shelf.
LEMMA DispatchUnits ==
  ASSUME TransferInv, UnitsInv, NEW t \in Transfers, Dispatch(t)
  PROVE  UnitsInv'
<1> DEFINE from == transfer[t].from
           qty == transfer[t].qty
           units == transfer[t].units
           lines == LinesAt(from, qty)
<1> SUFFICES ASSUME NothingAstray' PROVE UnitsTravel' /\ ShelvesMatch' /\ SoldAreGone'
  BY DEF UnitsInv
<1>1. /\ transfer[t].status = "APPROVED"
      /\ Post("TRANSFER_OUT", lines) /\ lines \in [Keys -> Nat]
      /\ UNCHANGED << gained, lost, sold, returned, delivered, again >>
      /\ transfer'[t].status = "IN_TRANSIT" /\ transfer'[t].units = units
      /\ \A r \in Transfers \ {t} : transfer'[r] = transfer[r]
  BY DispatchEffect
<1>2. /\ unit' = [u \in Serials |->
           IF u \in units THEN [unit[u] EXCEPT !.status = "IN_TRANSIT"] ELSE unit[u]]
      /\ misallocated' = IF \A u \in units : AvailableAt(u, from)
                         THEN misallocated ELSE misallocated \cup {t}
  BY DEF Dispatch
<1>3. \A u \in units : AvailableAt(u, from)
  BY <1>2 DEF NothingAstray
<1>4. UnitsTravel /\ ShelvesMatch /\ SoldAreGone
  BY <1>1, <1>2, <1>3 DEF UnitsInv, NothingAstray
<1>5. /\ StockInv /\ unit \in [Serials -> Units]
      /\ from \in Locations /\ qty \in [Variants -> Quantities \cup {0}]
      /\ units \in SUBSET Serials /\ OnePerUnit(units, qty)
  BY <1>1, RowParts DEF TransferInv, TypeOK
<1>6. \A k \in Keys : Counted(k) \in Int /\ Counted(k)' = Counted(k) - lines[k]
  <2> HIDE DEF lines
  <2> QED BY <1>1, CountedMoves DEF Outflows
<1>7. \A m \in Locations, v \in Variants : SerialsOf[v] # {} =>
        lines[<<m, v>>] = IF m = from THEN Cardinality(units \cap SerialsOf[v]) ELSE 0
  BY <1>5, TransfersUnits
<1>8. \A r \in Transfers : transfer[r].units \in SUBSET Serials
  BY RowParts
<1> HIDE DEF from, qty, units, lines
<1>9. ShelvesMatch'
  <2>1. unit' = [u \in Serials |->
          IF u \in units THEN [unit[u] EXCEPT !.status = "IN_TRANSIT"] ELSE unit[u]]
    BY <1>2
  <2>2. "IN_TRANSIT" # "AVAILABLE" /\ lines \in [Keys -> Nat]
    BY <1>1
  <2>3. /\ ShelvesMatch /\ unit \in [Serials -> Units]
        /\ from \in Locations /\ units \in SUBSET Serials
    BY <1>4, <1>5
  <2> QED BY <1>3, <1>6, <1>7, <2>1, <2>2, <2>3, ShelfLoses
<1>10. \A u \in units : unit[u].status = "AVAILABLE" /\ unit'[u].status = "IN_TRANSIT"
  <2> SUFFICES ASSUME NEW u \in units
               PROVE  unit[u].status = "AVAILABLE" /\ unit'[u].status = "IN_TRANSIT"
    OBVIOUS
  <2>1. unit[u] \in Units /\ unit'[u] = [unit[u] EXCEPT !.status = "IN_TRANSIT"]
    BY <1>2, <1>5
  <2>2. unit[u].status = "AVAILABLE"
    BY <1>3 DEF AvailableAt
  <2> QED BY <2>1, <2>2 DEF Units
<1>11. \A u \in Serials \ units : unit'[u] = unit[u]
  BY <1>2
<1>12. ASSUME NEW r \in Transfers \ {t}, transfer[r].status = "IN_TRANSIT"
       PROVE  /\ \A u \in transfer[r].units : unit[u].status = "IN_TRANSIT" /\ u \notin units
              /\ transfer[r].units \cap units = {}
  <2>1. \A u \in transfer[r].units : unit[u].status = "IN_TRANSIT"
    BY <1>4, <1>12 DEF UnitsTravel
  <2>2. \A u \in transfer[r].units : u \notin units
    BY <1>10, <2>1
  <2> QED BY <2>1, <2>2
<1>13. UnitsTravel'
  <2>1. ASSUME NEW r \in Transfers, transfer'[r].status = "IN_TRANSIT", NEW u \in transfer'[r].units
        PROVE  unit'[u].status = "IN_TRANSIT"
    <3>1. CASE r = t
      BY <1>1, <1>10, <2>1, <3>1
    <3>2. CASE r # t
      <4>1. transfer[r].status = "IN_TRANSIT" /\ u \in transfer[r].units /\ u \in Serials
        BY <1>1, <1>8, <2>1, <3>2
      <4>2. unit[u].status = "IN_TRANSIT" /\ u \notin units
        BY <1>12, <3>2, <4>1
      <4> QED BY <1>11, <4>1, <4>2
    <3> QED BY <3>1, <3>2
  <2>2. ASSUME NEW r \in Transfers, NEW s \in Transfers, r # s,
               transfer'[r].status = "IN_TRANSIT", transfer'[s].status = "IN_TRANSIT"
        PROVE  transfer'[r].units \cap transfer'[s].units = {}
    <3>1. CASE r = t
      <4>1. s # t
        BY <2>2, <3>1
      <4>2. transfer'[s] = transfer[s] /\ transfer[s].status = "IN_TRANSIT"
        BY <1>1, <2>2, <4>1
      <4>3. transfer[s].units \cap units = {}
        BY <1>12, <4>1, <4>2
      <4> QED BY <1>1, <3>1, <4>2, <4>3
    <3>2. CASE s = t
      <4>1. r # t
        BY <2>2, <3>2
      <4>2. transfer'[r] = transfer[r] /\ transfer[r].status = "IN_TRANSIT"
        BY <1>1, <2>2, <4>1
      <4>3. transfer[r].units \cap units = {}
        BY <1>12, <4>1, <4>2
      <4> QED BY <1>1, <3>2, <4>2, <4>3
    <3>3. CASE r # t /\ s # t
      BY <1>1, <1>4, <2>2, <3>3 DEF UnitsTravel
    <3> QED BY <3>1, <3>2, <3>3
  <2> QED BY <2>1, <2>2 DEF UnitsTravel
<1>14. SoldAreGone'
  <2>1. \A u \in units : unit[u].status # "SOLD"
    BY <1>10
  <2> QED BY <1>1, <1>4, <1>5, <1>11, <2>1, SoldStays
<1> QED BY <1>9, <1>13, <1>14

\* A receipt puts the serial numbers in transit on the shelf of the destination.
LEMMA ReceiveUnits ==
  ASSUME TransferInv, UnitsInv, NEW t \in Transfers, Receive(t)
  PROVE  UnitsInv'
<1> DEFINE to == transfer[t].to
           qty == transfer[t].qty
           units == transfer[t].units
           lines == LinesAt(to, qty)
<1>1. /\ transfer[t].status = "IN_TRANSIT"
      /\ Post("TRANSFER_IN", lines) /\ lines \in [Keys -> Nat]
      /\ UNCHANGED << gained, lost, sold, returned, delivered, again, misallocated >>
      /\ transfer'[t].status = "RECEIVED"
      /\ \A r \in Transfers \ {t} : transfer'[r] = transfer[r]
  BY ReceiveEffect
<1>2. unit' = [u \in Serials |->
        IF u \in units THEN [status |-> "AVAILABLE", at |-> to] ELSE unit[u]]
  BY DEF Receive
<1> SUFFICES ASSUME NothingAstray' PROVE UnitsTravel' /\ ShelvesMatch' /\ SoldAreGone'
  BY DEF UnitsInv
<1>3. UnitsTravel /\ ShelvesMatch /\ SoldAreGone
  BY <1>1 DEF UnitsInv, NothingAstray
<1>4. /\ StockInv /\ unit \in [Serials -> Units]
      /\ to \in Locations /\ qty \in [Variants -> Quantities \cup {0}]
      /\ units \in SUBSET Serials /\ OnePerUnit(units, qty)
  BY <1>1, RowParts DEF TransferInv, TypeOK
<1>5. \A k \in Keys : Counted(k) \in Int /\ Counted(k)' = Counted(k) + lines[k]
  <2> HIDE DEF lines
  <2> QED BY <1>1, CountedMoves DEF Inflows
<1>6. \A m \in Locations, v \in Variants : SerialsOf[v] # {} =>
        lines[<<m, v>>] = IF m = to THEN Cardinality(units \cap SerialsOf[v]) ELSE 0
  <2>1. to \in Locations /\ qty \in [Variants -> Quantities \cup {0}] /\ OnePerUnit(units, qty)
    BY <1>4
  <2> HIDE DEF to, qty, units
  <2> QED BY <2>1, TransfersUnits
<1>7. \A u \in units : unit[u].status = "IN_TRANSIT"
  BY <1>1, <1>3 DEF UnitsTravel
<1>8. \A r \in Transfers \ {t} : transfer[r].status = "IN_TRANSIT" =>
        transfer[r].units \cap units = {}
  BY <1>1, <1>3 DEF UnitsTravel
<1>9. \A r \in Transfers : transfer[r].units \in SUBSET Serials
  BY RowParts
<1> HIDE DEF to, qty, units, lines
<1>10. \A u \in units : unit[u].status # "AVAILABLE"
  BY <1>7
<1>11. ShelvesMatch'
  BY <1>1, <1>2, <1>3, <1>4, <1>5, <1>6, <1>10, ShelfGains
<1>12. ASSUME NEW r \in Transfers, transfer'[r].status = "IN_TRANSIT"
       PROVE  /\ r # t /\ transfer'[r] = transfer[r] /\ transfer[r].status = "IN_TRANSIT"
              /\ \A u \in transfer[r].units : unit'[u] = unit[u]
  <2>1. r # t
    BY <1>1, <1>12
  <2>2. transfer'[r] = transfer[r] /\ transfer[r].status = "IN_TRANSIT"
    BY <1>1, <1>12, <2>1
  <2>3. transfer[r].units \cap units = {}
    BY <1>8, <2>1, <2>2
  <2>4. ASSUME NEW u \in transfer[r].units PROVE unit'[u] = unit[u]
    <3>1. u \in Serials /\ u \notin units
      BY <1>9, <2>3
    <3> QED BY <1>2, <3>1
  <2> QED BY <2>1, <2>2, <2>4
<1>13. UnitsTravel'
  BY <1>3, <1>12 DEF UnitsTravel
<1>14. SoldAreGone'
  <2>1. \A u \in units : unit[u].status # "SOLD"
    BY <1>7
  <2>2. \A u \in Serials \ units : unit'[u] = unit[u]
    BY <1>2
  <2> QED BY <1>1, <1>3, <1>4, <2>1, <2>2, SoldStays
<1> QED BY <1>11, <1>13, <1>14

\* Every step keeps the shelves right until one disturbs them.
LEMMA UnitsStep ==
  ASSUME TransferInv, UnitsInv, [Next]_vars
  PROVE  UnitsInv'
<1>1. CASE ShopTrades
  BY <1>1, ShopUnits
<1>2. ASSUME NEW t \in Transfers, TransferStep(t) PROVE UnitsInv'
  <2>0. \A r \in Transfers, s \in Dispatched : again[r][s] \in Nat
    BY DEF TransferInv, TypeOK
  <2>1. ASSUME NEW from \in Locations, NEW to \in Locations,
               NEW qty \in [Variants -> Quantities \cup {0}], NEW units \in SUBSET Serials,
               Create(t, from, to, qty, units)
        PROVE  UnitsInv'
    <3> DEFINE new == [NoTransfer(from, to)
                         EXCEPT !.status = "REQUESTED", !.qty = qty, !.units = units]
    <3>1. /\ transfer' = [transfer EXCEPT ![t] = new]
          /\ UNCHANGED << stockVars, costVars, shopVars, again, misallocated >>
      BY <2>1 DEF Create
    <3>2. new.status = "REQUESTED" /\ transfer \in [Transfers -> TransferRows]
      BY DEF NoTransfer, TransferInv, TypeOK
    <3> HIDE DEF new
    <3>3. transfer'[t] = new /\ \A r \in Transfers \ {t} : transfer'[r] = transfer[r]
      BY <3>1, <3>2
    <3>4. UNCHANGED << balance, costVars, shopVars, misallocated >>
          /\ \A r \in Transfers, s \in Dispatched : again[r][s] <= again'[r][s]
      BY <2>0, <3>1 DEF stockVars
    <3> QED BY <3>2, <3>3, <3>4, PaperUnits
  <2>2. CASE ReadForApprove(t)
    <3>1. /\ UNCHANGED << stockVars, costVars, shopVars, misallocated, transfer, again >>
          /\ UNCHANGED balance
      BY <2>2 DEF ReadForApprove, stockVars
    <3>2. \A r \in Transfers, s \in Dispatched : again[r][s] <= again'[r][s]
      BY <2>0, <3>1
    <3> QED BY <3>1, <3>2, PaperUnits
  <2>3. CASE WriteApproved(t)
    <3>1. UNCHANGED << balance, costVars, shopVars, misallocated >>
      BY <2>3 DEF WriteApproved, stockVars
    <3>2. /\ transfer'[t].status = "APPROVED"
          /\ \A r \in Transfers \ {t} : transfer'[r] = transfer[r] /\ again'[r] = again[r]
          /\ \A s \in Dispatched :
               again'[t][s] = IF s = transfer[t].status THEN again[t][s] + 1 ELSE again[t][s]
      BY <2>3, ApprovedRow
    <3>3. ASSUME NEW r \in Transfers, NEW s \in Dispatched PROVE again[r][s] <= again'[r][s]
      <4> DEFINE n == again[r][s]
      <4>1. n \in Nat /\ (again'[r][s] = n \/ again'[r][s] = n + 1)
        BY <2>0, <3>2
      <4> HIDE DEF n
      <4>2. n <= again'[r][s]
        BY <4>1
      <4> QED BY <4>2 DEF n
    <3> QED BY <3>1, <3>2, <3>3, PaperUnits
  <2>4. CASE Dispatch(t)
    BY <2>4, DispatchUnits
  <2>5. CASE Receive(t)
    BY <2>5, ReceiveUnits
  <2> QED BY <1>2, <2>1, <2>2, <2>3, <2>4, <2>5 DEF TransferStep
<1>3. CASE UNCHANGED vars
  BY <1>3 DEF vars, UnitsInv, NothingAstray, UnitsTravel, ShelvesMatch, SoldAreGone, OnShelf,
              AvailableAt, Counted
<1> QED BY <1>1, <1>2, <1>3 DEF Next

\* Nothing is there at first, and no serial number.
LEMMA UnitsInit == Init => UnitsInv
<1> SUFFICES ASSUME Init PROVE UnitsTravel /\ ShelvesMatch /\ SoldAreGone
  BY DEF UnitsInv
<1>1. \A t \in Transfers : transfer[t].status = "NONE"
  BY DEF Init, NoTransfer
<1>2. UnitsTravel
  BY <1>1 DEF UnitsTravel
<1>3. ASSUME NEW l \in Locations, NEW v \in Variants
      PROVE  Counted(<<l, v>>) = Cardinality(OnShelf(l, v))
  <2>1. <<l, v>> \in Keys
    BY KeysAssumption
  <2>2. Counted(<<l, v>>) = 0
    BY <2>1 DEF Init, EmptyBalance, NothingAdjusted, Nothing, Counted
  <2>3. \A u \in SerialsOf[v] : u \in Serials /\ unit[u].status = "NONE"
    BY ShelfIsFinite DEF Init
  <2>4. OnShelf(l, v) = {}
    BY <2>3 DEF OnShelf, AvailableAt
  <2> QED BY <2>2, <2>4, FS_EmptySet
<1>4. SoldAreGone
  BY DEF Init, SoldAreGone
<1> QED BY <1>2, <1>3, <1>4 DEF ShelvesMatch

\* What the shelves match, in the words of UnitsAreOnTheShelf.
LEMMA ShelvesSay ==
  ASSUME TransferInv, ShelvesMatch, NEW l \in Locations, NEW v \in Variants, SerialsOf[v] # {}
  PROVE  balance[<<l, v>>].onHand + lost[<<l, v>>] + delivered[<<l, v>>]
           = Cardinality(OnShelf(l, v)) + gained[<<l, v>>]
<1> DEFINE k == <<l, v>>
           n == Cardinality(OnShelf(l, v))
<1>1. k \in Keys
  BY KeysAssumption
<1>2. n \in Nat
  BY ShelfIsFinite, SetsCount DEF OnShelf
<1>3. balance[k].onHand + lost[k] + delivered[k] - gained[k] = n
  BY DEF ShelvesMatch, Counted
<1>4. /\ balance[k].onHand \in Int /\ gained[k] \in Nat /\ lost[k] \in Nat
      /\ delivered[k] \in Nat
  <2>1. delivered \in [Keys -> Nat] /\ CostInv
    BY TransferCosts DEF TransferInv, TypeOK
  <2> QED BY <1>1, <2>1, CostedItem
<1> HIDE DEF k, n
<1>5. balance[k].onHand + lost[k] + delivered[k] = n + gained[k]
  BY <1>2, <1>3, <1>4
<1> QED BY <1>5 DEF k, n

\* Whatever is received, sold at the counter or offline, returned, restocked or not, moved
\* by adjustments, counts and completed orders, and transferred: the quantity of a
\* serialized item is the number of its serial numbers on the shelf but for what those
\* moved without them, as long as no transfer was approved again after its dispatch or
\* left with a serial number that was gone.
THEOREM UnitsCorrect == Spec => []UnitsAreOnTheShelf
<1>1. TransferInv /\ UnitsInv /\ [Next]_vars => UnitsInv'
  BY UnitsStep
<1>2. TransferInv /\ UnitsInv => UnitsAreOnTheShelf
  BY ShelvesSay DEF UnitsInv, OnShelf, UnitsAreOnTheShelf
<1> QED BY <1>1, <1>2, UnitsInit, TransferInvariant, PTL DEF Spec

------------------------------------------------------------------------------
(***************************************************************************)
(* Value.  What a transfer changes at one of its ends is summed over the    *)
(* variants: the layers there and what it carries, each within half a unit  *)
(* of money a piece.                                                        *)
(***************************************************************************)

\* A quantity that is zero elsewhere adds up to what the items of one location have.
LEMMA SumOverItems ==
  ASSUME NEW l \in Locations, NEW f, \A k \in Keys : f[k] \in Int,
         \A k \in Keys : k[1] # l => f[k] = 0,
         NEW g, \A v \in Variants : g[v] = f[<<l, v>>]
  PROVE  SumFunctionOnSet(f, Keys) = SumFunctionOnSet(g, Variants)
<1> DEFINE h == [v \in Variants |-> <<l, v>>]
           R == { h[v] : v \in Variants }
<1>1. IsFiniteSet(Keys) /\ IsFiniteSet(Variants)
  BY KeysAssumption, FiniteAssumption, FS_Product
<1>2. \A v \in Variants : h[v] = <<l, v>> /\ h[v] \in Keys
  BY KeysAssumption
<1>3. \A k \in Keys : k \in R <=> k[1] = l
  <2> SUFFICES ASSUME NEW k \in Keys PROVE k \in R <=> k[1] = l
    OBVIOUS
  <2>1. k[1] \in Locations /\ k[2] \in Variants /\ k = <<k[1], k[2]>>
    BY KeysAssumption
  <2>2. k[1] = l => k = h[k[2]]
    BY <1>2, <2>1
  <2>3. k \in R => k[1] = l
    BY <1>2
  <2> QED BY <2>1, <2>2, <2>3
<1>4. R \in SUBSET Keys
  BY <1>2
<1>5. \A x, y \in Variants : h[x] = h[y] => x = y
  BY <1>2
<1>6. \A v \in Variants : f[h[v]] \in Int /\ g[v] = f[h[v]]
  BY <1>2
<1> HIDE DEF h
<1>7. SumFunctionOnSet(g, Variants) = SumFunctionOnSet(f, R)
  BY <1>1, <1>5, <1>6, SumRename
<1> HIDE DEF R
<1>8. SumFunctionOnSet(f, Keys) = SumFunctionOnSet(f, R)
  <2>1. \A k \in R : f[k] \in Int
    BY <1>4
  <2>2. \A k \in Keys : f[k] = IF k \in R THEN f[k] ELSE 0
    BY <1>3
  <2> QED BY <1>1, <1>4, <2>1, <2>2, SumWithin
<1> QED BY <1>7, <1>8

\* A sum of multiples.
LEMMA SumScale ==
  ASSUME NEW S, IsFiniteSet(S), NEW c \in Int, NEW f, NEW g,
         \A x \in S : f[x] \in Int /\ g[x] \in Int /\ g[x] = c * f[x]
  PROVE  SumFunctionOnSet(g, S) = c * SumFunctionOnSet(f, S)
<1> DEFINE Good == { T \in SUBSET S : SumFunctionOnSet(g, T) = c * SumFunctionOnSet(f, T) }
<1>1. {} \in Good
  <2>1. c * 0 = 0
    OBVIOUS
  <2> QED BY <2>1, SumEmpty
<1>2. ASSUME NEW T \in SUBSET S, NEW x \in S \ T, T \in Good PROVE T \cup {x} \in Good
  <2> DEFINE total == SumFunctionOnSet(f, T)
             one == f[x]
  <2>1. IsFiniteSet(T)
    BY FS_Subset
  <2>2. /\ SumFunctionOnSet(f, T \cup {x}) = one + total
        /\ SumFunctionOnSet(g, T \cup {x}) = g[x] + SumFunctionOnSet(g, T)
    BY <2>1, SumInsert
  <2>3. total \in Int /\ one \in Int
    BY <2>1, SumType
  <2>4. g[x] = c * one /\ SumFunctionOnSet(g, T) = c * total
    BY <1>2
  <2> HIDE DEF total, one
  <2>5. c * one + c * total = c * (one + total)
    BY <2>3
  <2>6. SumFunctionOnSet(g, T \cup {x}) = c * SumFunctionOnSet(f, T \cup {x})
    BY <2>2, <2>4, <2>5
  <2> QED BY <2>6
<1> HIDE DEF Good
<1>3. S \in Good
  BY <1>1, <1>2, EverySubset
<1> QED BY <1>3 DEF Good

\* Twice a sum lies within the bounds that its terms' doubles respect.
LEMMA SumNear ==
  ASSUME NEW S, IsFiniteSet(S), NEW e, NEW n, NEW y,
         \A x \in S : e[x] \in Int /\ n[x] \in Nat /\ y[x] \in Nat
                      /\ 2 * e[x] \in (-n[x])..(n[x] + y[x])
  PROVE  2 * SumFunctionOnSet(e, S)
           \in (-SumFunctionOnSet(n, S))..(SumFunctionOnSet(n, S) + SumFunctionOnSet(y, S))
<1> DEFINE d == [x \in S |-> e[x] + e[x]]
           m == [x \in S |-> d[x] + n[x]]
           p == [x \in S |-> n[x] + y[x]]
           z == [x \in S |-> 0]
<1>1. \A x \in S : /\ d[x] \in Int /\ n[x] \in Int /\ e[x] \in Int /\ m[x] \in Int
                   /\ y[x] \in Int /\ p[x] \in Int
                   /\ d[x] = e[x] + e[x] /\ m[x] = d[x] + n[x] /\ p[x] = n[x] + y[x]
                   /\ z[x] = 0 /\ z[x] \in Int
                   /\ z[x] <= m[x] /\ d[x] <= p[x]
  OBVIOUS
<1> HIDE DEF d, m, p, z
<1> DEFINE E == SumFunctionOnSet(e, S)
           D == SumFunctionOnSet(d, S)
           N == SumFunctionOnSet(n, S)
           M == SumFunctionOnSet(m, S)
           P == SumFunctionOnSet(p, S)
           Y == SumFunctionOnSet(y, S)
<1>2. D = E + E
  BY <1>1, SumAdd
<1>3. M = D + N
  BY <1>1, SumAdd
<1>4. P = N + Y
  BY <1>1, SumAdd
<1>5. SumFunctionOnSet(z, S) <= M
  BY <1>1, SumMonotone
<1>6. SumFunctionOnSet(z, S) = 0
  BY <1>1, SumZero
<1>7. D <= P
  BY <1>1, SumMonotone
<1>8. E \in Int /\ N \in Int /\ Y \in Int
  BY <1>1, SumType
<1> HIDE DEF E, D, N, M, P, Y
<1>9. 2 * E \in (-N)..(N + Y)
  BY <1>2, <1>3, <1>4, <1>5, <1>6, <1>7, <1>8
<1> QED BY <1>9 DEF E, N, Y

\* The value a transfer carries, variant by variant.
Carried(row) ==
  [v \in Variants |-> IF row.status = "IN_TRANSIT" THEN row.qty[v] * row.unitCost[v] ELSE 0]

\* What it carries adds up to InTransit, whole numbers throughout.
LEMMA CarriedIs ==
  ASSUME NEW row \in TransferRows
  PROVE  /\ \A v \in Variants :
              /\ row.qty[v] \in Nat /\ row.unitCost[v] \in Nat
              /\ row.qty[v] * row.unitCost[v] \in Nat
              /\ Carried(row)[v] \in Int
         /\ SumFunctionOnSet(Carried(row), Variants)
              = IF row.status = "IN_TRANSIT"
                THEN SumFunction([v \in Variants |-> row.qty[v] * row.unitCost[v]]) ELSE 0
         /\ SumFunctionOnSet(Carried(row), Variants) \in Int
         /\ SumFunction(row.qty) = SumFunctionOnSet(row.qty, Variants)
<1>1. row.qty \in [Variants -> Quantities \cup {0}] /\ row.unitCost \in [Variants -> Nat]
  BY DEF TransferRows
<1>2. Quantities \cup {0} \subseteq Nat
  BY QuantitiesAssumption
<1>3. ASSUME NEW v \in Variants
      PROVE  /\ row.qty[v] \in Nat /\ row.unitCost[v] \in Nat
             /\ row.qty[v] * row.unitCost[v] \in Nat
             /\ Carried(row)[v] \in Int
  <2> DEFINE q == row.qty[v]
             c == row.unitCost[v]
  <2>1. q \in Nat /\ c \in Nat
    <3>1. q \in Quantities \cup {0} /\ c \in Nat
      BY <1>1
    <3> HIDE DEF q
    <3> QED BY <1>2, <3>1
  <2>2. Carried(row)[v] = IF row.status = "IN_TRANSIT" THEN q * c ELSE 0
    BY DEF Carried
  <2> HIDE DEF q, c
  <2>3. q * c \in Nat
    BY <2>1
  <2>4. Carried(row)[v] \in Int
    BY <2>2, <2>3
  <2> QED BY <2>1, <2>3, <2>4 DEF q, c
<1> DEFINE f == Carried(row)
           worth == [v \in Variants |-> row.qty[v] * row.unitCost[v]]
<1>4. SumFunctionOnSet(f, Variants) \in Int
  <2>1. \A v \in Variants : f[v] \in Int
    BY <1>3
  <2> HIDE DEF f
  <2> QED BY <2>1, FiniteAssumption, SumType
<1>5. CASE row.status = "IN_TRANSIT"
  <2>1. f = worth
    BY <1>5 DEF Carried
  <2>2. DOMAIN worth = Variants
    OBVIOUS
  <2>3. SumFunction(worth) = SumFunctionOnSet(worth, Variants)
    BY <2>2 DEF SumFunction
  <2>4. DOMAIN row.qty = Variants
    BY <1>1
  <2> QED BY <1>3, <1>4, <1>5, <2>1, <2>3, <2>4 DEF SumFunction
<1>6. CASE row.status # "IN_TRANSIT"
  <2>1. \A v \in Variants : f[v] = 0
    BY <1>6 DEF Carried
  <2> HIDE DEF f
  <2>2. SumFunctionOnSet(f, Variants) = 0
    BY <2>1, FiniteAssumption, SumZero
  <2>3. DOMAIN row.qty = Variants
    BY <1>1
  <2> QED BY <1>3, <1>6, <2>2, <2>3 DEF f, SumFunction
<1> QED BY <1>5, <1>6

\* What the layers of all items are worth before and after, and how they differ.
LEMMA LayersChange ==
  ASSUME CostTypeOK, CostTypeOK', NEW l \in Locations,
         \A k \in Keys : k[1] # l => ValueOf(layers'[k]) = ValueOf(layers[k]),
         NEW d, \A v \in Variants :
                  d[v] = ValueOf(layers'[<<l, v>>]) - ValueOf(layers[<<l, v>>])
  PROVE  /\ SumFunction([k \in Keys |-> ValueOf(layers[k])]) \in Int
         /\ SumFunction([k \in Keys |-> ValueOf(layers'[k])])
              = SumFunction([k \in Keys |-> ValueOf(layers[k])]) + SumFunctionOnSet(d, Variants)
         /\ SumFunctionOnSet(d, Variants) \in Int
         /\ \A v \in Variants : d[v] \in Int
<1> DEFINE f == [k \in Keys |-> ValueOf(layers[k])]
           g == [k \in Keys |-> ValueOf(layers'[k])]
           c == [k \in Keys |-> ValueOf(layers'[k]) - ValueOf(layers[k])]
<1>1. ASSUME NEW k \in Keys PROVE ValueOf(layers[k]) \in Nat /\ ValueOf(layers'[k]) \in Nat
  <2>1. layers[k] \in Seq(LayerRows) /\ layers'[k] \in Seq(LayerRows)
    BY DEF CostTypeOK
  <2> QED BY <2>1, LayersAre
<1>2. \A k \in Keys : /\ f[k] \in Int /\ g[k] \in Int /\ c[k] \in Int
                      /\ c[k] = g[k] - f[k]
                      /\ k[1] # l => c[k] = 0
  <2> SUFFICES ASSUME NEW k \in Keys
               PROVE  /\ f[k] \in Int /\ g[k] \in Int /\ c[k] \in Int
                      /\ c[k] = g[k] - f[k]
                      /\ k[1] # l => c[k] = 0
    OBVIOUS
  <2>1. f[k] = ValueOf(layers[k]) /\ g[k] = ValueOf(layers'[k])
        /\ c[k] = ValueOf(layers'[k]) - ValueOf(layers[k])
    OBVIOUS
  <2>2. ValueOf(layers[k]) \in Nat /\ ValueOf(layers'[k]) \in Nat
    BY <1>1
  <2>3. k[1] # l => g[k] = f[k]
    BY <2>1
  <2> HIDE DEF f, g, c
  <2> QED BY <2>1, <2>2, <2>3
<1>3. \A v \in Variants : <<l, v>> \in Keys /\ d[v] = c[<<l, v>>]
  BY KeysAssumption
<1>4. SumFunction(f) = SumFunctionOnSet(f, Keys) /\ SumFunction(g) = SumFunctionOnSet(g, Keys)
  BY DEF SumFunction
<1>5. IsFiniteSet(Keys) /\ IsFiniteSet(Variants)
  BY KeysAssumption, FiniteAssumption, FS_Product
<1> HIDE DEF f, g, c
<1>6. SumFunctionOnSet(c, Keys) = SumFunctionOnSet(d, Variants)
  BY <1>2, <1>3, SumOverItems
<1>7. SumFunctionOnSet(g, Keys) = SumFunctionOnSet(f, Keys) + SumFunctionOnSet(c, Keys)
  <2>1. \A k \in Keys : f[k] \in Int /\ c[k] \in Int /\ g[k] = f[k] + c[k]
    BY <1>2
  <2> QED BY <1>5, <2>1, SumAdd
<1>8. SumFunctionOnSet(f, Keys) \in Int /\ SumFunctionOnSet(c, Keys) \in Int
  BY <1>2, <1>5, SumType
<1>9. \A v \in Variants : d[v] \in Int
  BY <1>2, <1>3
<1> QED BY <1>4, <1>6, <1>7, <1>8, <1>9 DEF f, g

\* The worth of stock and transit changes by what changes at one location and in one transfer.
LEMMA WorthChange ==
  ASSUME CostTypeOK, CostTypeOK',
         transfer \in [Transfers -> TransferRows], transfer' \in [Transfers -> TransferRows],
         NEW t \in Transfers, \A r \in Transfers \ {t} : transfer'[r] = transfer[r],
         NEW l \in Locations,
         \A k \in Keys : k[1] # l => ValueOf(layers'[k]) = ValueOf(layers[k]),
         NEW e, \A v \in Variants :
                  e[v] = (ValueOf(layers'[<<l, v>>]) - ValueOf(layers[<<l, v>>]))
                         + (Carried(transfer'[t])[v] - Carried(transfer[t])[v])
  PROVE  /\ Worth' - Worth = SumFunctionOnSet(e, Variants)
         /\ SumFunctionOnSet(e, Variants) \in Int
         /\ \A v \in Variants : e[v] \in Int
<1> DEFINE d == [v \in Variants |-> ValueOf(layers'[<<l, v>>]) - ValueOf(layers[<<l, v>>])]
           old == Carried(transfer[t])
           new == Carried(transfer'[t])
           f == [r \in Transfers |-> SumFunctionOnSet(Carried(transfer[r]), Variants)]
           g == [r \in Transfers |-> SumFunctionOnSet(Carried(transfer'[r]), Variants)]
           A == SumFunction([k \in Keys |-> ValueOf(layers[k])])
           B == SumFunction([k \in Keys |-> ValueOf(layers'[k])])
<1>1. \A v \in Variants : d[v] = ValueOf(layers'[<<l, v>>]) - ValueOf(layers[<<l, v>>])
  OBVIOUS
<1> HIDE DEF d
<1>2. /\ A \in Int /\ B = A + SumFunctionOnSet(d, Variants)
      /\ SumFunctionOnSet(d, Variants) \in Int
      /\ \A v \in Variants : d[v] \in Int
  BY <1>1, LayersChange
<1>3. \A r \in Transfers : transfer[r] \in TransferRows /\ transfer'[r] \in TransferRows
  OBVIOUS
<1>4. ASSUME NEW r \in Transfers
      PROVE  InTransit(r) = f[r] /\ InTransit(r)' = g[r] /\ f[r] \in Int /\ g[r] \in Int
  <2>1. transfer[r] \in TransferRows /\ transfer'[r] \in TransferRows
    BY <1>3
  <2>2. /\ f[r] = SumFunctionOnSet(Carried(transfer[r]), Variants)
        /\ g[r] = SumFunctionOnSet(Carried(transfer'[r]), Variants)
    OBVIOUS
  <2>3. InTransit(r) = f[r] /\ f[r] \in Int
    BY <2>1, <2>2, CarriedIs DEF InTransit
  <2>4. InTransit(r)' = g[r] /\ g[r] \in Int
    BY <2>1, <2>2, CarriedIs DEF InTransit
  <2> QED BY <2>3, <2>4
<1>5. f[t] = SumFunctionOnSet(old, Variants) /\ g[t] = SumFunctionOnSet(new, Variants)
  OBVIOUS
<1>6. \A r \in Transfers : r # t => g[r] = f[r]
  OBVIOUS
<1>7. \A v \in Variants : old[v] \in Int /\ new[v] \in Int /\ e[v] = d[v] + (new[v] - old[v])
  BY <1>1, <1>3, CarriedIs
<1>8. Worth = A + SumFunctionOnSet(f, Transfers) /\ Worth' = B + SumFunctionOnSet(g, Transfers)
  <2>1. /\ [r \in Transfers |-> InTransit(r)] = f
        /\ [r \in Transfers |-> InTransit(r)'] = g
        /\ DOMAIN f = Transfers /\ DOMAIN g = Transfers
    BY <1>4
  <2> QED BY <2>1 DEF Worth, SumFunction
<1> HIDE DEF old, new, f, g, A, B
<1>9. SumFunctionOnSet(g, Transfers) = SumFunctionOnSet(f, Transfers) + (g[t] - f[t])
  <2>1. \A r \in Transfers : f[r] \in Int /\ g[r] \in Int
    BY <1>4
  <2> QED BY <1>6, <2>1, FiniteAssumption, SumChange
<1>10. SumFunctionOnSet(f, Transfers) \in Int
  BY <1>4, FiniteAssumption, SumType
<1>11. SumFunctionOnSet(e, Variants) = SumFunctionOnSet(d, Variants) + (g[t] - f[t])
  <2> DEFINE c == [v \in Variants |-> new[v] - old[v]]
  <2>1. \A v \in Variants : /\ old[v] \in Int /\ c[v] \in Int /\ d[v] \in Int
                            /\ new[v] = old[v] + c[v] /\ e[v] = d[v] + c[v]
    BY <1>2, <1>7
  <2> HIDE DEF c
  <2>2. SumFunctionOnSet(new, Variants) = SumFunctionOnSet(old, Variants) + SumFunctionOnSet(c, Variants)
    BY <2>1, FiniteAssumption, SumAdd
  <2>3. SumFunctionOnSet(e, Variants) = SumFunctionOnSet(d, Variants) + SumFunctionOnSet(c, Variants)
    BY <2>1, FiniteAssumption, SumAdd
  <2>4. SumFunctionOnSet(old, Variants) \in Int /\ SumFunctionOnSet(c, Variants) \in Int
    BY <2>1, FiniteAssumption, SumType
  <2> QED BY <1>5, <2>2, <2>3, <2>4
<1>12. f[t] \in Int /\ g[t] \in Int
  BY <1>4
<1>13. \A v \in Variants : e[v] \in Int
  BY <1>2, <1>7
<1> QED BY <1>2, <1>8, <1>9, <1>10, <1>11, <1>12, <1>13

\* What a dispatch changes the worth by: each variant's unit cost against its layers, and
\* the fallback for what they do not have.
LEMMA DispatchWorth ==
  ASSUME TransferInv, NEW t \in Transfers, Dispatch(t)
  PROVE  LET pieces == SumFunction(transfer[t].qty)
         IN  2 * (Worth' - Worth) \in -pieces..pieces + 2 * BaseCost * Uncovered(t)
<1> DEFINE from == transfer[t].from
           qty == transfer[t].qty
           lines == LinesAt(from, qty)
           old == Carried(transfer[t])
           new == Carried(transfer'[t])
           value(k) == ValueOf(layers[k])
           left(k) == ValueOf(layers'[k])
           e == [v \in Variants |-> (left(<<from, v>>) - value(<<from, v>>)) + (new[v] - old[v])]
           bare == [v \in Variants |-> Least(qty[v], gained[<<from, v>>])]
           y == [v \in Variants |-> 2 * BaseCost * bare[v]]
<1>1. /\ transfer[t].status = "APPROVED" /\ transfer'[t].status = "IN_TRANSIT"
      /\ transfer' \in [Transfers -> TransferRows]
      /\ transfer'[t].qty = qty
      /\ \A v \in Variants : qty[v] > 0 =>
           transfer'[t].unitCost[v] = UnitCost(layers[<<from, v>>], qty[v], BaseCost)
      /\ \A r \in Transfers \ {t} : transfer'[r] = transfer[r]
      /\ CostTypeOK'
      /\ \A k \in Keys :
           /\ lines[k] > 0 =>
                LET each == UnitCost(layers[k], lines[k], BaseCost)
                    used == value(k) - left(k)
                    more == 2 * BaseCost * Least(lines[k], gained[k])
                IN  /\ each \in Nat /\ used \in Nat /\ more \in Nat
                    /\ 2 * (lines[k] * each - used) \in (-lines[k])..(lines[k] + more)
           /\ lines[k] = 0 => left(k) = value(k)
  BY DispatchEffect
<1>2. /\ transfer \in [Transfers -> TransferRows] /\ CostTypeOK
      /\ transfer[t] \in TransferRows /\ transfer'[t] \in TransferRows
      /\ from \in Locations /\ qty \in [Variants -> Quantities \cup {0}]
  BY <1>1, RowParts
<1>3. /\ \A k \in Keys : lines[k] = IF k[1] = from THEN qty[k[2]] ELSE 0
      /\ \A v \in Variants : <<from, v>> \in Keys /\ lines[<<from, v>>] = qty[v] /\ qty[v] \in Nat
  BY <1>2, LinesAtAre
<1>4. \A k \in Keys : k[1] # from => left(k) = value(k)
  BY <1>1, <1>3
<1>5. \A v \in Variants : e[v] = (left(<<from, v>>) - value(<<from, v>>)) + (new[v] - old[v])
  OBVIOUS
<1> HIDE DEF e
<1>6. /\ Worth' - Worth = SumFunctionOnSet(e, Variants)
      /\ \A v \in Variants : e[v] \in Int
  BY <1>1, <1>2, <1>4, <1>5, WorthChange
<1>7. /\ \A v \in Variants : bare[v] \in Int /\ bare[v] = Least(qty[v], gained[<<from, v>>])
      /\ \A v \in Variants : y[v] \in Nat /\ y[v] = 2 * BaseCost * bare[v]
  <2>1. ASSUME NEW v \in Variants
        PROVE  /\ bare[v] \in Nat /\ bare[v] = Least(qty[v], gained[<<from, v>>])
               /\ y[v] \in Nat /\ y[v] = 2 * BaseCost * bare[v]
    <3>1. gained[<<from, v>>] \in Nat /\ qty[v] \in Nat
      BY <1>2, <1>3 DEF CostTypeOK
    <3>2. bare[v] = Least(qty[v], gained[<<from, v>>]) /\ bare[v] \in Nat
      <4> HIDE DEF qty, from
      <4> QED BY <3>1 DEF Least
    <3>3. y[v] = 2 * BaseCost * bare[v]
      OBVIOUS
    <3> HIDE DEF bare, y
    <3>4. 2 * BaseCost * bare[v] \in Nat
      BY <3>2, BaseCostAssumption
    <3> QED BY <3>2, <3>3, <3>4
  <2> QED BY <2>1
<1>8. DOMAIN bare = Variants
  OBVIOUS
<1>9. Uncovered(t) = SumFunction(bare)
  BY <1>1 DEF Uncovered
<1> HIDE DEF bare, y
<1>10. ASSUME NEW v \in Variants
      PROVE  2 * e[v] \in (-qty[v])..(qty[v] + y[v])
  <2> DEFINE k == <<from, v>>
             q == qty[v]
             c == transfer'[t].unitCost[v]
  <2>1. old[v] = 0 /\ new[v] = q * c /\ c \in Nat
    <3>1. old[v] = 0
      BY <1>1 DEF Carried
    <3>2. new[v] = transfer'[t].qty[v] * c
      BY <1>1 DEF Carried
    <3> QED BY <1>1, <1>2, <3>1, <3>2, CarriedIs
  <2>2. q \in Nat /\ k \in Keys /\ lines[k] = q
    BY <1>3
  <2>3. value(k) \in Nat /\ left(k) \in Nat
    <3>1. layers[k] \in Seq(LayerRows) /\ layers'[k] \in Seq(LayerRows)
      BY <1>1, <1>2, <2>2 DEF CostTypeOK
    <3> QED BY <3>1, LayersAre
  <2>4. CASE q > 0
    <3> DEFINE used == value(k) - left(k)
    <3>1. c = UnitCost(layers[k], q, BaseCost)
      BY <1>1, <2>4
    <3>2. 2 * (q * c - used) \in (-q)..(q + y[v])
      <4>1. y[v] = 2 * BaseCost * Least(lines[k], gained[k])
        BY <1>7, <2>2
      <4> QED BY <1>1, <2>2, <2>4, <3>1, <4>1
    <3>3. e[v] = (left(k) - value(k)) + (new[v] - old[v])
      BY <1>5
    <3> DEFINE w == q * c
               x == value(k)
               z == left(k)
               b == y[v]
    <3>4. w \in Nat
      <4> HIDE DEF q, c
      <4> QED BY <2>1, <2>2
    <3>5. /\ x \in Nat /\ z \in Nat /\ new[v] = w /\ old[v] = 0
          /\ e[v] = (z - x) + (new[v] - old[v])
          /\ 2 * (w - (x - z)) \in (-q)..(q + b)
      BY <2>1, <2>3, <3>2, <3>3
    <3> HIDE DEF w, x, z, b, q, new, old
    <3>6. (z - x) + (w - 0) = w - (x - z)
      BY <3>4, <3>5
    <3> QED BY <3>5, <3>6 DEF q, b
  <2>5. CASE q = 0
    <3>1. left(k) = value(k)
      BY <1>1, <2>2, <2>5
    <3>2. new[v] = 0
      <4> HIDE DEF c, new
      <4>1. 0 * c = 0
        BY <2>1
      <4> QED BY <2>1, <2>5, <4>1
    <3> DEFINE x == value(k)
    <3>3. e[v] = (x - x) + (0 - 0) /\ x \in Nat
      BY <1>5, <2>1, <2>3, <3>1, <3>2
    <3> DEFINE b == y[v]
    <3>4. b \in Nat
      BY <1>7
    <3> HIDE DEF x, q, b
    <3>5. e[v] = 0
      BY <3>3
    <3>6. 2 * 0 \in (-q)..(q + b)
      BY <2>5, <3>4
    <3> QED BY <3>5, <3>6 DEF q, b
  <2>6. q > 0 \/ q = 0
    BY <2>2
  <2> QED BY <2>4, <2>5, <2>6
<1>11. SumFunction(qty) = SumFunctionOnSet(qty, Variants)
  BY <1>2, CarriedIs
<1> HIDE DEF qty
<1>12. \A v \in Variants : /\ e[v] \in Int /\ qty[v] \in Nat /\ y[v] \in Nat
                          /\ 2 * e[v] \in (-qty[v])..(qty[v] + y[v])
  BY <1>3, <1>6, <1>10, <1>7
<1> DEFINE Q == SumFunctionOnSet(qty, Variants)
           Y == SumFunctionOnSet(y, Variants)
<1>13. 2 * SumFunctionOnSet(e, Variants) \in (-Q)..(Q + Y)
  BY <1>12, FiniteAssumption, SumNear
<1>14. Y = 2 * BaseCost * Uncovered(t)
  <2>1. 2 * BaseCost \in Int
    BY BaseCostAssumption
  <2>2. Y = 2 * BaseCost * SumFunctionOnSet(bare, Variants)
    <3> DEFINE c == 2 * BaseCost
    <3>1. \A v \in Variants : y[v] = c * bare[v]
      BY <1>7, Zenon
    <3> HIDE DEF c, Y
    <3>2. \A v \in Variants : bare[v] \in Int
      BY <1>7, Zenon
    <3>3. \A v \in Variants : y[v] \in Int
      BY <1>12
    <3>4. c \in Int
      BY <2>1 DEF c
    <3> QED BY <3>1, <3>2, <3>3, <3>4, FiniteAssumption, SumScale DEF Y, c
  <2> QED BY <1>8, <1>9, <2>2 DEF SumFunction
<1> HIDE DEF Q, Y
<1> QED BY <1>6, <1>11, <1>13, <1>14 DEF qty, Q

\* A receipt changes the worth by nothing: what arrives is what was carried.
LEMMA ReceiveWorth ==
  ASSUME TransferInv, NEW t \in Transfers, Receive(t)
  PROVE  LET pieces == SumFunction(transfer[t].qty)
         IN  2 * (Worth' - Worth) \in -pieces..pieces + 2 * BaseCost * Uncovered(t)
<1> DEFINE to == transfer[t].to
           qty == transfer[t].qty
           cost == transfer[t].unitCost
           lines == LinesAt(to, qty)
           old == Carried(transfer[t])
           new == Carried(transfer'[t])
           value(k) == ValueOf(layers[k])
           left(k) == ValueOf(layers'[k])
           e == [v \in Variants |-> (left(<<to, v>>) - value(<<to, v>>)) + (new[v] - old[v])]
<1>1. /\ transfer[t].status = "IN_TRANSIT" /\ transfer'[t].status = "RECEIVED"
      /\ transfer' \in [Transfers -> TransferRows]
      /\ \A r \in Transfers \ {t} : transfer'[r] = transfer[r]
      /\ CostTypeOK'
      /\ \A k \in Keys : left(k) = value(k) + lines[k] * cost[k[2]]
  BY ReceiveEffect
<1>2. /\ transfer \in [Transfers -> TransferRows] /\ CostTypeOK
      /\ transfer[t] \in TransferRows /\ transfer'[t] \in TransferRows
      /\ to \in Locations /\ qty \in [Variants -> Quantities \cup {0}]
  BY <1>1, RowParts
<1>3. /\ \A k \in Keys : lines[k] = IF k[1] = to THEN qty[k[2]] ELSE 0
      /\ \A k \in Keys : k[1] \in Locations /\ k[2] \in Variants
      /\ \A v \in Variants : <<to, v>> \in Keys /\ lines[<<to, v>>] = qty[v] /\ qty[v] \in Nat
  <2>1. to \in Locations /\ qty \in [Variants -> Quantities \cup {0}]
    BY <1>2
  <2> HIDE DEF to, qty
  <2> QED BY <2>1, LinesAtAre
<1>4. \A k \in Keys : value(k) \in Nat
  <2> SUFFICES ASSUME NEW k \in Keys PROVE value(k) \in Nat
    OBVIOUS
  <2>1. layers[k] \in Seq(LayerRows)
    BY <1>2 DEF CostTypeOK
  <2> QED BY <2>1, LayersAre
<1>5. \A v \in Variants : cost[v] \in Nat /\ qty[v] * cost[v] \in Nat
  BY <1>2, CarriedIs
<1>6. ASSUME NEW k \in Keys, k[1] # to PROVE left(k) = value(k)
  <2> DEFINE x == value(k)
             c == cost[k[2]]
  <2>1. x \in Nat /\ c \in Nat /\ lines[k] = 0 /\ left(k) = x + lines[k] * c
    BY <1>1, <1>3, <1>4, <1>5, <1>6
  <2> HIDE DEF x, c
  <2>2. x + 0 * c = x
    BY <2>1
  <2> QED BY <2>1, <2>2 DEF x
<1>7. \A v \in Variants : e[v] = (left(<<to, v>>) - value(<<to, v>>)) + (new[v] - old[v])
  OBVIOUS
<1> HIDE DEF e
<1>8. Worth' - Worth = SumFunctionOnSet(e, Variants)
  BY <1>1, <1>2, <1>6, <1>7, WorthChange
<1>9. ASSUME NEW v \in Variants
      PROVE  e[v] = 0
  <2> DEFINE k == <<to, v>>
             w == qty[v] * cost[v]
             x == value(k)
  <2>1. new[v] = 0 /\ old[v] = w
    BY <1>1 DEF Carried
  <2>2. k \in Keys /\ k[2] = v /\ lines[k] = qty[v]
    BY <1>3
  <2>3. left(k) = x + w
    BY <1>1, <2>2
  <2>4. w \in Nat /\ x \in Nat /\ e[v] = (left(k) - x) + (new[v] - old[v])
    BY <1>4, <1>5, <1>7, <2>2
  <2>5. e[v] = ((x + w) - x) + (0 - w)
    BY <2>1, <2>3, <2>4
  <2> HIDE DEF w, x
  <2>6. ((x + w) - x) + (0 - w) = 0
    BY <2>4
  <2> QED BY <2>5, <2>6
<1>10. SumFunctionOnSet(e, Variants) = 0
  BY <1>9, FiniteAssumption, SumZero
<1>11. \A v \in Variants : qty[v] \in Nat
  BY <1>3
<1>12. SumFunction(qty) = SumFunctionOnSet(qty, Variants)
  BY <1>2, CarriedIs
<1> HIDE DEF qty
<1>13. SumFunctionOnSet(qty, Variants) \in Int /\ SumFunctionOnSet(qty, Variants) >= 0
  <2>1. \A v \in Variants : qty[v] \in Int /\ qty[v] >= 0
    BY <1>11
  <2> QED BY <2>1, FiniteAssumption, SumType
<1> DEFINE n == SumFunctionOnSet(qty, Variants)
<1>14. n \in Int /\ n >= 0
  BY <1>13
<1> HIDE DEF n
<1>15. 2 * 0 \in (-n)..(n + 2 * BaseCost * 0)
  BY <1>14, BaseCostAssumption
<1>16. Uncovered(t) = 0
  BY <1>1 DEF Uncovered
<1> QED BY <1>8, <1>10, <1>12, <1>15, <1>16 DEF n, qty

\* Only a dispatch or a receipt of a transfer moves it.
LEMMA OnlyTheseMove ==
  ASSUME TransferInv, Next, NEW t \in Transfers, Moves(t)
  PROVE  Dispatch(t) \/ Receive(t)
<1>0. transfer \in [Transfers -> TransferRows]
  BY DEF TransferInv, TypeOK
<1>1. ASSUME ShopTrades PROVE FALSE
  BY <1>1 DEF ShopTrades, transferVars, Moves
<1>2. PICK r \in Transfers : TransferStep(r)
  BY <1>1 DEF Next
<1>3. ASSUME NEW from \in Locations, NEW to \in Locations,
             NEW qty \in [Variants -> Quantities \cup {0}], NEW units \in SUBSET Serials,
             Create(r, from, to, qty, units)
      PROVE  FALSE
  <2> DEFINE new == [NoTransfer(from, to)
                       EXCEPT !.status = "REQUESTED", !.qty = qty, !.units = units]
  <2>1. transfer' = [transfer EXCEPT ![r] = new]
    BY <1>3 DEF Create
  <2>2. new.status = "REQUESTED"
    BY DEF NoTransfer
  <2> HIDE DEF new
  <2>3. transfer'[t] = IF t = r THEN new ELSE transfer[t]
    BY <1>0, <2>1
  <2> QED BY <2>2, <2>3 DEF Moves
<1>4. CASE ReadForApprove(r)
  BY <1>4 DEF ReadForApprove, Moves
<1>5. CASE WriteApproved(r)
  <2>1. transfer' = [transfer EXCEPT ![r].status = "APPROVED"]
    BY <1>5 DEF WriteApproved
  <2>2. transfer'[t].status = IF t = r THEN "APPROVED" ELSE transfer[t].status
    BY <1>0, <2>1 DEF TransferRows
  <2> QED BY <2>2 DEF Moves
<1>6. CASE Dispatch(r)
  <2>1. t # r => transfer'[t] = transfer[t]
    BY <1>6, DispatchEffect
  <2> QED BY <1>6, <2>1 DEF Moves
<1>7. CASE Receive(r)
  <2>1. t # r => transfer'[t] = transfer[t]
    BY <1>7, ReceiveEffect
  <2> QED BY <1>7, <2>1 DEF Moves
<1> QED BY <1>2, <1>3, <1>4, <1>5, <1>6, <1>7 DEF TransferStep

\* A transfer makes and loses no value beyond the rounding of its unit costs, whatever the
\* layers it takes and however often it is dispatched; goods that adjustments added, and
\* which no layer covers, are in transit at the fallback cost.
THEOREM ValueCorrect == Spec => TransfersKeepValue
<1> DEFINE Kept1 == \A t \in Transfers :
                      Moves(t) =>
                        LET pieces == SumFunction(transfer[t].qty)
                        IN  2 * (Worth' - Worth) \in -pieces..pieces + 2 * BaseCost * Uncovered(t)
<1>1. TransferInv /\ [Next]_vars => [Kept1]_vars
  <2> SUFFICES ASSUME TransferInv, Next, NEW t \in Transfers, Moves(t)
               PROVE  LET pieces == SumFunction(transfer[t].qty)
                      IN  2 * (Worth' - Worth) \in -pieces..pieces + 2 * BaseCost * Uncovered(t)
    OBVIOUS
  <2>1. Dispatch(t) \/ Receive(t)
    BY OnlyTheseMove
  <2> QED BY <2>1, DispatchWorth, ReceiveWorth
<1>2. TransfersKeepValue <=> [][Kept1]_vars
  BY DEF TransfersKeepValue
<1> QED BY <1>1, <1>2, TransferInvariant, PTL DEF Spec
==============================================================================
