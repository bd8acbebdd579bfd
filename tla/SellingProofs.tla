---------------------------- MODULE SellingProofs ----------------------------
(***************************************************************************)
(* Theorems about Orders and Sales, for every set of orders, references,   *)
(* items, totals and amounts, and any number of requests in flight.        *)
(*                                                                         *)
(* The argument for the stock of an order: an accept posts once, a         *)
(* cancellation too, and a completion posts a release and a sale, one      *)
(* after the other; each of them is accepted only where it is covered.     *)
(* For its money: payments are added to the order and to its open rows     *)
(* alike, only a completion takes the rows away, and only an overtaken     *)
(* order gets out of COMPLETED; so an order without payments has none to   *)
(* lose.  For its reservations: what an order holds follows its status     *)
(* (HoldsFollow), and every step that changes the reserved bucket changes  *)
(* the hold of one order by as much.                                       *)
(*                                                                         *)
(* The argument for a sale: a reference without a row has no documents, so *)
(* booking it starts from nothing; a return is compared, line by line,     *)
(* with what came back before it, adds what it says to every sum over the  *)
(* documents, and is rounded once a line (LinesClose), whatever the other  *)
(* returns did.  Its layers follow the stock by the lemmas of              *)
(* InventoryProofs: a sale uses them, a return opens one for every line    *)
(* that goes back to the shelf.                                            *)
(***************************************************************************)
EXTENDS Orders, Sales, InventoryProofs

(***************************************************************************)
(* Commercial orders.                                                      *)
(***************************************************************************)

\* What the open payment rows of an order come to, and what has not begun.
MoneyFollows ==
  \A o \in Orders :
    /\ unsold[o] <= order[o].paid
    /\ order[o].status = "NONE" => order[o].paid = 0 /\ sales[o] = << >> /\ sending[o] = 0
    /\ o \notin overtaken /\ order[o].status # "COMPLETED" => unsold[o] = order[o].paid

\* Types, and the money of orders.
OrdersOK == TypeOK /\ MoneyIsSafe /\ MoneyFollows

\* The inductive invariant of orders and stock.
OrderInv == OrdersOK /\ StockInv

------------------------------------------------------------------------------
(***************************************************************************)
(* The stock.                                                              *)
(***************************************************************************)

\* A cancellation releases what the order holds: one posting.
LEMMA CancelStock ==
  ASSUME OrderInv, NEW o \in Orders, Cancel(o)
  PROVE  KeepsBook /\ BucketsHold'
<1>1. order[o].reservedQty \in [Keys -> Nat]
  BY DEF OrderInv, OrdersOK, TypeOK, OrderRows
<1>2. "RESERVATION_RELEASE" \in MovementTypes
  BY DEF MovementTypes
<1>3. Post("RESERVATION_RELEASE", order[o].reservedQty) /\ UNCHANGED << exceptions, synced >>
  BY DEF Cancel, CanRelease, ReleasedBalance, ReleasedLedger, Post, Room
<1> QED BY <1>1, <1>2, <1>3, PostStep DEF OrderInv

\* A completion posts a release and a sale, one after the other.
LEMMA CompleteStock ==
  ASSUME OrderInv, NEW o \in Orders, Complete(o)
  PROVE  KeepsBook /\ BucketsHold'
<1> DEFINE back == order[o].reservedQty
           lines == order[o].lines
<1>1. back \in [Keys -> Nat] /\ lines \in [Keys -> Nat]
  BY DEF OrderInv, OrdersOK, TypeOK, OrderRows
<1>2. "RESERVATION_RELEASE" \in MovementTypes /\ "SALE" \in MovementTypes
  BY DEF MovementTypes
<1>3. /\ CanPostAll(balance, "RESERVATION_RELEASE", back, FALSE)
      /\ CanPostAll(PostedAll(balance, "RESERVATION_RELEASE", back), "SALE", lines, FALSE)
      /\ balance' = PostedAll(PostedAll(balance, "RESERVATION_RELEASE", back), "SALE", lines)
      /\ ledger' = BookedAll(BookedAll(ledger, "RESERVATION_RELEASE", back), "SALE", lines)
      /\ UNCHANGED << exceptions, synced >>
  BY DEF Complete, CanRelease, ReleasedBalance, ReleasedLedger
<1> HIDE DEF back, lines
<1> QED BY <1>1, <1>2, <1>3, PostBothStep DEF OrderInv

\* Every step keeps the promises of the ledger.
LEMMA OrderStockStep ==
  ASSUME OrderInv, [Next]_vars
  PROVE  KeepsBook /\ BucketsHold'
<1>1. CASE ShopTrades
  <2>1. StockNext
    <3>1. ASSUME NEW type \in {"PURCHASE_RECEIPT", "SALE"}, NEW lines \in Lines,
                 PostDocument(type, lines)
          PROVE  StockNext
      BY <3>1 DEF StockNext, MovementTypes
    <3>2. ASSUME NEW k \in Keys, NEW type \in {"ADJUSTMENT_LOSS", "DAMAGE"},
                 NEW qty \in Quantities, Adjust(k, type, qty)
          PROVE  StockNext
      BY <3>2 DEF StockNext, MovementTypes
    <3>3. ASSUME NEW s \in SaleRefs, NEW lines \in Lines, SyncOfflineSale(s, lines)
          PROVE  StockNext
      BY <3>3 DEF StockNext
    <3> QED BY <1>1, <3>1, <3>2, <3>3 DEF ShopTrades
  <2> QED BY <2>1, StockStep DEF OrderInv
<1>2. ASSUME NEW o \in Orders, Accept(o)
      PROVE  KeepsBook /\ BucketsHold'
  <2>1. order[o].lines \in [Keys -> Nat]
    BY DEF OrderInv, OrdersOK, TypeOK, OrderRows
  <2>2. "RESERVATION" \in MovementTypes
    BY DEF MovementTypes
  <2> QED BY <1>2, <2>1, <2>2, PostStep DEF Accept, OrderInv
<1>3. ASSUME NEW o \in Orders, Complete(o)
      PROVE  KeepsBook /\ BucketsHold'
  BY <1>3, CompleteStock
<1>4. ASSUME NEW o \in Orders, Cancel(o)
      PROVE  KeepsBook /\ BucketsHold'
  BY <1>4, CancelStock
<1>5. CASE UNCHANGED stockVars
  BY <1>5, StockStep DEF OrderInv
<1>6. ASSUME NEW o \in Orders, OrderStep(o)
      PROVE  KeepsBook /\ BucketsHold'
  BY <1>2, <1>3, <1>4, <1>5, <1>6
     DEF OrderStep, Create, ReadForSend, WriteSent, Pay
<1> QED BY <1>1, <1>5, <1>6 DEF Next, vars, stockVars

------------------------------------------------------------------------------
(***************************************************************************)
(* The orders and their money, one lemma for each action.                  *)
(***************************************************************************)

\* A new order has no money and no rows.
LEMMA CreateStep ==
  ASSUME OrderInv, StockTypeOK', NEW o \in Orders, NEW lines \in Lines,
         NEW total \in Totals, NEW layaway \in BOOLEAN, Create(o, lines, total, layaway)
  PROVE  OrdersOK'
<1> DEFINE row == [NoOrder EXCEPT !.status = "DRAFT", !.layaway = layaway,
                                  !.total = total, !.lines = lines]
<1>0. /\ TypeOK /\ order[o].status = "NONE"
      /\ order' = [order EXCEPT ![o] = row]
      /\ UNCHANGED << hold, unsold, sales, sending, overtaken >>
  BY DEF OrderInv, OrdersOK, Create
<1>1. /\ row \in OrderRows /\ row.status = "DRAFT" /\ row.paid = 0 /\ row.total \in Nat
  <2>1. NoOrder \in OrderRows /\ NoOrder.paid = 0
    BY DEF NoOrder, OrderRows, Statuses, Nothing
  <2>2. lines \in [Keys -> Nat] /\ total \in Nat
    BY LinesAreQuantities, TotalsAssumption
  <2> QED BY <2>1, <2>2 DEF OrderRows, Statuses
<1>2. \A p \in Orders : order'[p] = IF p = o THEN row ELSE order[p]
  BY <1>0 DEF TypeOK
<1> HIDE DEF row
<1>3. TypeOK'
  BY <1>0, <1>1 DEF TypeOK
<1>4. sales[o] = << >> /\ sending[o] = 0 /\ unsold[o] = 0
  <2>1. order[o].paid = 0 /\ unsold[o] <= order[o].paid /\ unsold[o] \in Nat
    BY <1>0 DEF OrderInv, OrdersOK, MoneyFollows, TypeOK
  <2> QED BY <1>0, <2>1 DEF OrderInv, OrdersOK, MoneyFollows
<1>5. MoneyIsSafe'
  BY <1>0, <1>1, <1>2, <1>4 DEF OrderInv, OrdersOK, MoneyIsSafe
<1>6. MoneyFollows'
  BY <1>0, <1>1, <1>2, <1>4 DEF OrderInv, OrdersOK, MoneyFollows
<1> QED BY <1>3, <1>5, <1>6 DEF OrdersOK

\* A send turns a draft into a sent order, writes what another send wrote, or overtakes
\* the order.
LEMMA WriteSentStep ==
  ASSUME OrderInv, StockTypeOK', NEW o \in Orders, WriteSent(o)
  PROVE  OrdersOK'
<1> DEFINE row == [order[o] EXCEPT !.status = "SENT"]
<1>0. /\ TypeOK /\ sending[o] > 0 /\ sending' = [sending EXCEPT ![o] = @ - 1]
      /\ order' = [order EXCEPT ![o] = row]
      /\ overtaken' = IF order[o].status \in {"DRAFT", "SENT"} THEN overtaken
                                                              ELSE overtaken \cup {o}
      /\ UNCHANGED << hold, unsold, sales >>
  BY DEF OrderInv, OrdersOK, WriteSent
<1>1. order[o] \in OrderRows
  BY <1>0 DEF TypeOK
<1>2. /\ row \in OrderRows /\ row.status = "SENT" /\ row.paid = order[o].paid
      /\ row.total = order[o].total /\ row.layaway = order[o].layaway
  BY <1>1 DEF OrderRows, Statuses
<1>3. \A p \in Orders : order'[p] = IF p = o THEN row ELSE order[p]
  BY <1>0 DEF TypeOK
<1> HIDE DEF row
<1>4. TypeOK'
  BY <1>0, <1>2 DEF TypeOK
<1>5. MoneyIsSafe'
  BY <1>0, <1>2, <1>3 DEF OrderInv, OrdersOK, MoneyIsSafe
<1>6. MoneyFollows'
  BY <1>0, <1>2, <1>3 DEF OrderInv, OrdersOK, MoneyFollows
<1> QED BY <1>4, <1>5, <1>6 DEF OrdersOK

\* Accepting leaves the money alone.
LEMMA AcceptStep ==
  ASSUME OrderInv, StockTypeOK', NEW o \in Orders, Accept(o)
  PROVE  OrdersOK'
<1> DEFINE row == [order[o] EXCEPT !.status = "ACCEPTED", !.reservedQty = order[o].lines]
           more == [k \in Keys |-> hold[o][k] + order[o].lines[k]]
<1>0. /\ TypeOK /\ order[o].status \in {"DRAFT", "SENT"}
      /\ order' = [order EXCEPT ![o] = row]
      /\ hold' = [hold EXCEPT ![o] = more]
      /\ UNCHANGED << unsold, sales, sending, overtaken >>
  BY DEF OrderInv, OrdersOK, Accept
<1>1. order[o] \in OrderRows /\ hold[o] \in [Keys -> Nat]
  BY <1>0 DEF TypeOK
<1>2. /\ row \in OrderRows /\ row.status = "ACCEPTED" /\ row.paid = order[o].paid
      /\ row.total = order[o].total /\ row.layaway = order[o].layaway
  BY <1>1 DEF OrderRows, Statuses
<1>3. more \in [Keys -> Nat]
  BY <1>1 DEF OrderRows
<1>4. \A p \in Orders : order'[p] = IF p = o THEN row ELSE order[p]
  BY <1>0 DEF TypeOK
<1> HIDE DEF row, more
<1>5. TypeOK'
  BY <1>0, <1>2, <1>3 DEF TypeOK
<1>6. MoneyIsSafe'
  BY <1>0, <1>2, <1>4 DEF OrderInv, OrdersOK, MoneyIsSafe
<1>7. MoneyFollows'
  BY <1>0, <1>2, <1>4 DEF OrderInv, OrdersOK, MoneyFollows
<1> QED BY <1>5, <1>6, <1>7 DEF OrdersOK

\* A payment is added to the order and to its open rows alike.
LEMMA PayStep ==
  ASSUME OrderInv, StockTypeOK', NEW o \in Orders, NEW amount \in Amounts, Pay(o, amount)
  PROVE  OrdersOK'
<1> DEFINE paid == order[o].paid + amount
           status == IF paid >= order[o].total THEN "PAID" ELSE "PARTIALLY_PAID"
           row == [order[o] EXCEPT !.paid = paid, !.status = status]
<1>0. /\ TypeOK /\ order[o].status \notin {"NONE", "CANCELLED", "COMPLETED"}
      /\ paid <= order[o].total
      /\ order' = [order EXCEPT ![o] = row]
      /\ unsold' = [unsold EXCEPT ![o] = @ + amount]
      /\ UNCHANGED << hold, sales, sending, overtaken >>
  BY DEF OrderInv, OrdersOK, Pay
<1>1. order[o] \in OrderRows /\ amount \in Nat /\ unsold[o] \in Nat /\ order[o].paid \in Nat
  BY <1>0, AmountsAssumption DEF TypeOK, OrderRows
<1>2. status \in {"PAID", "PARTIALLY_PAID"} /\ paid \in Nat
  BY <1>1
<1> HIDE DEF status
<1>3. /\ row \in OrderRows /\ row.status = status /\ row.paid = paid
      /\ row.total = order[o].total /\ row.layaway = order[o].layaway
  <2> HIDE DEF paid
  <2> QED BY <1>1, <1>2 DEF OrderRows, Statuses
<1>4. \A p \in Orders : /\ order'[p] = IF p = o THEN row ELSE order[p]
                        /\ unsold'[p] = IF p = o THEN unsold[o] + amount ELSE unsold[p]
  BY <1>0 DEF TypeOK
<1> HIDE DEF row
<1>5. TypeOK'
  BY <1>0, <1>1, <1>3 DEF TypeOK
<1>6. MoneyIsSafe'
  BY <1>0, <1>2, <1>3, <1>4 DEF OrderInv, OrdersOK, MoneyIsSafe
<1>7. MoneyFollows'
  BY <1>0, <1>1, <1>2, <1>3, <1>4 DEF OrderInv, OrdersOK, MoneyFollows
<1> QED BY <1>5, <1>6, <1>7 DEF OrdersOK

\* A completion sells the open rows.
LEMMA CompleteStep ==
  ASSUME OrderInv, StockTypeOK', NEW o \in Orders, Complete(o)
  PROVE  OrdersOK'
<1> DEFINE row == [order[o] EXCEPT !.status = "COMPLETED"]
           sold == [paid |-> order[o].paid, received |-> unsold[o]]
<1>0. /\ TypeOK /\ order[o].status \in Completable
      /\ order[o].layaway => order[o].paid >= order[o].total
      /\ order' = [order EXCEPT ![o] = row]
      /\ hold' = [hold EXCEPT ![o] = Nothing]
      /\ sales' = [sales EXCEPT ![o] = Append(@, sold)]
      /\ unsold' = [unsold EXCEPT ![o] = 0]
      /\ UNCHANGED << sending, overtaken >>
  BY DEF OrderInv, OrdersOK, Complete, CloseHold
<1>1. /\ order[o] \in OrderRows /\ unsold[o] \in Nat /\ order[o].paid \in Nat
      /\ order[o].total \in Nat /\ sales[o] \in Seq([paid : Nat, received : Nat])
  BY <1>0 DEF TypeOK, OrderRows
<1>2. /\ row \in OrderRows /\ row.status = "COMPLETED" /\ row.paid = order[o].paid
      /\ row.total = order[o].total /\ row.layaway = order[o].layaway
  BY <1>1 DEF OrderRows, Statuses
<1>3. sold \in [paid : Nat, received : Nat] /\ sold.paid = order[o].paid
      /\ sold.received = unsold[o]
  BY <1>1
<1> HIDE DEF row, sold
<1>4. /\ Append(sales[o], sold) \in Seq([paid : Nat, received : Nat])
      /\ Len(Append(sales[o], sold)) = Len(sales[o]) + 1
      /\ \A i \in DOMAIN Append(sales[o], sold) :
           Append(sales[o], sold)[i] = sold
             \/ (i \in DOMAIN sales[o] /\ Append(sales[o], sold)[i] = sales[o][i])
  BY <1>1, <1>3
<1>5. \A p \in Orders : /\ order'[p] = IF p = o THEN row ELSE order[p]
                        /\ unsold'[p] = IF p = o THEN 0 ELSE unsold[p]
                        /\ sales'[p] = IF p = o THEN Append(sales[o], sold) ELSE sales[p]
  BY <1>0 DEF TypeOK
<1>6. TypeOK'
  <2>1. Nothing \in [Keys -> Nat]
    BY DEF Nothing
  <2> QED BY <1>0, <1>2, <1>4, <2>1 DEF TypeOK
<1> DEFINE more == Append(sales[o], sold)
<1> HIDE DEF more
<1>7. /\ order'[o] = row /\ unsold'[o] = 0 /\ sales'[o] = more
      /\ Len(more) = Len(sales[o]) + 1
      /\ \A i \in DOMAIN more : more[i] = sold \/ (i \in DOMAIN sales[o] /\ more[i] = sales[o][i])
  BY <1>4, <1>5 DEF more
<1>8. order[o].layaway => sold.paid = order[o].total
  <2>1. order[o].paid <= order[o].total
    BY DEF OrderInv, OrdersOK, MoneyIsSafe
  <2> QED BY <1>0, <1>1, <1>3, <2>1
<1>9. MoneyIsSafe'
  <2>1. ASSUME NEW p \in Orders
        PROVE  /\ order'[p].status = "CANCELLED" => unsold'[p] = 0
               /\ order'[p].paid <= order'[p].total
               /\ order'[p].layaway =>
                    \A i \in DOMAIN sales'[p] : sales'[p][i].paid = order'[p].total
    <3>1. CASE p # o
      BY <1>5, <3>1 DEF OrderInv, OrdersOK, MoneyIsSafe
    <3>2. CASE p = o
      <4>1. order[o].paid <= order[o].total
        BY DEF OrderInv, OrdersOK, MoneyIsSafe
      <4>2. order[o].layaway => \A i \in DOMAIN more : more[i].paid = order[o].total
        <5>1. order[o].layaway => \A i \in DOMAIN sales[o] : sales[o][i].paid = order[o].total
          BY DEF OrderInv, OrdersOK, MoneyIsSafe
        <5> QED BY <1>7, <1>8, <5>1
      <4> QED BY <1>2, <1>7, <3>2, <4>1, <4>2
    <3> QED BY <3>1, <3>2
  <2>2. ASSUME NEW p \in Orders \ overtaken
        PROVE  /\ Len(sales'[p]) = IF order'[p].status = "COMPLETED" THEN 1 ELSE 0
               /\ \A i \in DOMAIN sales'[p] : sales'[p][i].paid = sales'[p][i].received
    <3>1. CASE p # o
      BY <1>5, <3>1 DEF OrderInv, OrdersOK, MoneyIsSafe
    <3>2. CASE p = o
      <4>1. Len(sales[o]) = 0 /\ unsold[o] = order[o].paid
        BY <1>0, <3>2 DEF OrderInv, OrdersOK, MoneyIsSafe, MoneyFollows, Completable
      <4>2. \A i \in DOMAIN sales[o] : sales[o][i].paid = sales[o][i].received
        BY <3>2 DEF OrderInv, OrdersOK, MoneyIsSafe
      <4>3. \A i \in DOMAIN more : more[i].paid = more[i].received
        BY <1>3, <1>7, <4>1, <4>2
      <4>4. Len(more) = 1
        BY <1>7, <4>1
      <4> QED BY <1>2, <1>7, <3>2, <4>3, <4>4
    <3> QED BY <3>1, <3>2
  <2> QED BY <1>0, <2>1, <2>2 DEF MoneyIsSafe
<1>10. MoneyFollows'
  BY <1>0, <1>1, <1>2, <1>5 DEF OrderInv, OrdersOK, MoneyFollows
<1> QED BY <1>6, <1>9, <1>10 DEF OrdersOK

\* Only an order without payments is cancelled.
LEMMA CancelStep ==
  ASSUME OrderInv, StockTypeOK', NEW o \in Orders, Cancel(o)
  PROVE  OrdersOK'
<1> DEFINE row == [order[o] EXCEPT !.status = "CANCELLED"]
<1>0. /\ TypeOK /\ order[o].status \notin {"NONE", "CANCELLED", "COMPLETED"}
      /\ order[o].paid = 0
      /\ order' = [order EXCEPT ![o] = row]
      /\ hold' = [hold EXCEPT ![o] = Nothing]
      /\ UNCHANGED << unsold, sales, sending, overtaken >>
  BY DEF OrderInv, OrdersOK, Cancel, CloseHold
<1>1. order[o] \in OrderRows /\ unsold[o] \in Nat
  BY <1>0 DEF TypeOK
<1>2. /\ row \in OrderRows /\ row.status = "CANCELLED" /\ row.paid = order[o].paid
      /\ row.total = order[o].total /\ row.layaway = order[o].layaway
  BY <1>1 DEF OrderRows, Statuses
<1>3. \A p \in Orders : order'[p] = IF p = o THEN row ELSE order[p]
  BY <1>0 DEF TypeOK
<1> HIDE DEF row
<1>4. unsold[o] = 0
  BY <1>0, <1>1 DEF OrderInv, OrdersOK, MoneyFollows
<1>5. TypeOK'
  <2>1. Nothing \in [Keys -> Nat]
    BY DEF Nothing
  <2> QED BY <1>0, <1>2, <2>1 DEF TypeOK
<1>6. MoneyIsSafe'
  BY <1>0, <1>2, <1>3, <1>4 DEF OrderInv, OrdersOK, MoneyIsSafe
<1>7. MoneyFollows'
  BY <1>0, <1>2, <1>3, <1>4 DEF OrderInv, OrdersOK, MoneyFollows
<1> QED BY <1>5, <1>6, <1>7 DEF OrdersOK

------------------------------------------------------------------------------

\* Every step keeps the orders, given what it does to the stock.
LEMMA OrdersStep ==
  ASSUME OrderInv, StockTypeOK', [Next]_vars
  PROVE  OrdersOK'
<1>0. TypeOK
  BY DEF OrderInv, OrdersOK
<1>1. CASE UNCHANGED orderVars
  <2>1. TypeOK'
    BY <1>0, <1>1 DEF orderVars, TypeOK
  <2> QED BY <1>1, <2>1 DEF orderVars, OrderInv, OrdersOK, MoneyIsSafe, MoneyFollows
<1>2. ASSUME NEW o \in Orders, NEW lines \in Lines, NEW total \in Totals,
             NEW layaway \in BOOLEAN, Create(o, lines, total, layaway)
      PROVE  OrdersOK'
  BY <1>2, CreateStep
<1>3. ASSUME NEW o \in Orders, ReadForSend(o) PROVE OrdersOK'
  <2>1. /\ order[o].status = "DRAFT" /\ sending' = [sending EXCEPT ![o] = @ + 1]
        /\ UNCHANGED << order, hold, unsold, sales, overtaken >>
    BY <1>3 DEF ReadForSend
  <2>2. TypeOK'
    BY <1>0, <2>1 DEF TypeOK
  <2>3. MoneyFollows'
    BY <2>1 DEF OrderInv, OrdersOK, MoneyFollows
  <2> QED BY <2>1, <2>2, <2>3 DEF OrderInv, OrdersOK, MoneyIsSafe
<1>4. ASSUME NEW o \in Orders, WriteSent(o) PROVE OrdersOK'
  BY <1>4, WriteSentStep
<1>5. ASSUME NEW o \in Orders, Accept(o) PROVE OrdersOK'
  BY <1>5, AcceptStep
<1>6. ASSUME NEW o \in Orders, NEW amount \in Amounts, Pay(o, amount) PROVE OrdersOK'
  BY <1>6, PayStep
<1>7. ASSUME NEW o \in Orders, Complete(o) PROVE OrdersOK'
  BY <1>7, CompleteStep
<1>8. ASSUME NEW o \in Orders, Cancel(o) PROVE OrdersOK'
  BY <1>8, CancelStep
<1>9. ASSUME NEW o \in Orders, OrderStep(o) PROVE OrdersOK'
  BY <1>2, <1>3, <1>4, <1>5, <1>6, <1>7, <1>8, <1>9 DEF OrderStep
<1> QED BY <1>1, <1>9 DEF Next, ShopTrades, vars, orderVars

\* At first there is no order.
LEMMA OrderInitInv == Init => OrderInv
<1> SUFFICES ASSUME Init PROVE OrderInv
  OBVIOUS
<1>1. StockInv /\ StockTypeOK
  BY StockInitInv DEF Init, StockInv
<1>2. Nothing \in [Keys -> Nat]
  BY DEF Nothing
<1>3. /\ NoOrder \in OrderRows /\ NoOrder.status = "NONE"
      /\ NoOrder.paid = 0 /\ NoOrder.total = 0
  BY <1>2 DEF NoOrder, OrderRows, Statuses
<1>4. \A o \in Orders : order[o] = NoOrder /\ unsold[o] = 0 /\ sales[o] = << >>
  BY DEF Init
<1>5. TypeOK
  BY <1>1, <1>2, <1>3 DEF Init, TypeOK
<1>6. MoneyIsSafe
  BY <1>3, <1>4 DEF MoneyIsSafe
<1>7. MoneyFollows
  BY <1>3, <1>4 DEF Init, MoneyFollows
<1> QED BY <1>1, <1>5, <1>6, <1>7 DEF OrderInv, OrdersOK

\* OrderInv is inductive.
THEOREM OrderInvariant == Spec => []OrderInv
<1>1. OrderInv /\ [Next]_vars => OrderInv'
  <2> SUFFICES ASSUME OrderInv, [Next]_vars PROVE OrderInv'
    OBVIOUS
  <2>1. KeepsBook /\ BucketsHold'
    BY OrderStockStep
  <2>2. StockInv'
    BY <2>1, StockInvKept DEF OrderInv
  <2>3. OrdersOK'
    BY <2>2, OrdersStep DEF StockInv
  <2> QED BY <2>2, <2>3 DEF OrderInv
<1> QED BY <1>1, OrderInitInv, PTL DEF Spec

\* The orders, their reservations, payments and sales have their types.
THEOREM OrderTypeCorrect == Spec => []TypeOK
<1>1. OrderInv => TypeOK
  BY DEF OrderInv, OrdersOK
<1> QED BY <1>1, OrderInvariant, PTL

\* No payment is stranded on a cancelled order, no order takes more than its total,
\* a layaway is sold only in full, and an order that its own send did not overtake has
\* at most one sale, with exactly the payments it counts.
THEOREM MoneyCorrect == Spec => []MoneyIsSafe
<1>1. OrderInv => MoneyIsSafe
  BY DEF OrderInv, OrdersOK
<1> QED BY <1>1, OrderInvariant, PTL

\* Orders implement the stock book, stale sends included: accepting, completing (a
\* release and a sale in one transaction) and cancelling never part the ledger from
\* what is available and leave no shortfall without a record.
THEOREM OrdersImplementBook == Spec => ImplementsStockBook
<1>1. Init => Book!Init
  BY BookInit DEF Init
<1>2. OrderInv /\ [Next]_vars => [Book!Transact]_(Book!vars)
  BY OrderStockStep, BookStep
<1> QED BY <1>1, <1>2, OrderInvariant, PTL DEF Spec, ImplementsStockBook, Book!Spec

------------------------------------------------------------------------------
(***************************************************************************)
(* The reservations.  An order that no send overtook holds what its lines  *)
(* say was reserved until it is completed or cancelled, and nothing before *)
(* it is accepted; so a release gives back what the order holds, and the   *)
(* reserved buckets go up and down with the sum of the rows.               *)
(***************************************************************************)

\* What an order holds, by its status.
HoldFollows(row, held) ==
  /\ row.status \in {"NONE", "DRAFT", "SENT"} => held = Nothing /\ row.reservedQty = Nothing
  /\ held = IF row.status \in {"COMPLETED", "CANCELLED"} THEN Nothing ELSE row.reservedQty

\* So it is for every order that was not overtaken.
HoldsFollow == \A o \in Orders \ overtaken : HoldFollows(order[o], hold[o])

\* What a document's movements do to the reserved bucket and what is available.
LEMMA PostedReserved ==
  ASSUME NEW balances \in [Keys -> Balances], NEW type \in MovementTypes,
         NEW lines \in [Keys -> Nat], NEW k \in Keys
  PROVE  LET after == PostedAll(balances, type, lines) IN
         /\ after \in [Keys -> Balances]
         /\ after[k].reserved = balances[k].reserved
              + (IF type = "RESERVATION" THEN lines[k]
                 ELSE IF type = "RESERVATION_RELEASE" THEN -lines[k] ELSE 0)
         /\ Available(balances[k]) \in Int
         /\ type = "RESERVATION_RELEASE" =>
              Available(after[k]) = Available(balances[k]) + lines[k]
<1> DEFINE after == PostedAll(balances, type, lines)
<1>1. ASSUME NEW i \in Keys
      PROVE  /\ after[i] = IF lines[i] > 0 THEN Posted(balances[i], type, lines[i])
                                          ELSE balances[i]
             /\ balances[i] \in Balances /\ lines[i] \in Nat
             /\ Posted(balances[i], type, lines[i]) \in Balances
  <2>1. balances[i] \in Balances /\ lines[i] \in Nat
    OBVIOUS
  <2>2. Posted(balances[i], type, lines[i]) \in Balances
    BY <2>1, PostedAvailable
  <2> QED BY <2>1, <2>2 DEF PostedAll
<1>2. after = [i \in Keys |-> after[i]]
  BY DEF PostedAll
<1>3. after \in [Keys -> Balances]
  <2> HIDE DEF after
  <2> QED BY <1>1, <1>2
<1>4. /\ Posted(balances[k], type, lines[k]).reserved = balances[k].reserved
            + (IF type = "RESERVATION" THEN lines[k]
               ELSE IF type = "RESERVATION_RELEASE" THEN -lines[k] ELSE 0)
      /\ balances[k].reserved \in Int
      /\ Available(balances[k]) \in Int
      /\ type = "RESERVATION_RELEASE" =>
           Available(Posted(balances[k], type, lines[k])) = Available(balances[k]) + lines[k]
  <2>1. type \in MovementTypes /\ lines[k] \in Nat /\ balances[k] \in Balances
    BY <1>1
  <2>2. balances[k].reserved \in Int /\ Available(balances[k]) \in Int
    BY <2>1 DEF Balances, Available
  <2>3. Posted(balances[k], type, lines[k]).reserved = balances[k].reserved
          + (IF type = "RESERVATION" THEN lines[k]
             ELSE IF type = "RESERVATION_RELEASE" THEN -lines[k] ELSE 0)
    BY <2>1, <2>2 DEF Posted, BalanceChange, Signed
  <2>4. ASSUME type = "RESERVATION_RELEASE"
        PROVE  Available(Posted(balances[k], type, lines[k])) = Available(balances[k]) + lines[k]
    BY <2>1, <2>4 DEF Posted, BalanceChange, Signed, Balances, Available
  <2> QED BY <2>2, <2>3, <2>4
<1> HIDE DEF after
<1>5. CASE lines[k] > 0
  BY <1>1, <1>3, <1>4, <1>5 DEF after
<1>6. CASE ~(lines[k] > 0)
  <2>1. lines[k] = 0 /\ after[k] = balances[k]
    BY <1>1, <1>6
  <2> QED BY <1>3, <1>4, <2>1 DEF after
<1> QED BY <1>5, <1>6

\* The sum of the rows goes with the rows of the one order that changes.
LEMMA HeldChange ==
  ASSUME TypeOK, TypeOK', NEW o \in Orders,
         \A p \in Orders : p # o => hold'[p] = hold[p]
  PROVE  \A k \in Keys : /\ HeldOf(k)' = HeldOf(k) + (hold'[o][k] - hold[o][k])
                         /\ HeldOf(k) \in Int
<1> SUFFICES ASSUME NEW k \in Keys
             PROVE  /\ HeldOf(k)' = HeldOf(k) + (hold'[o][k] - hold[o][k])
                    /\ HeldOf(k) \in Int
  OBVIOUS
<1> DEFINE f == [p \in Orders |-> hold[p][k]]
           g == [p \in Orders |-> hold'[p][k]]
<1>1. \A p \in Orders : f[p] = hold[p][k] /\ g[p] = hold'[p][k]
  OBVIOUS
<1>2. \A p \in Orders : f[p] \in Int /\ g[p] \in Int
  BY DEF TypeOK
<1>3. \A p \in Orders : p # o => g[p] = f[p]
  BY <1>1
<1>4. /\ HeldOf(k) = SumFunctionOnSet(f, Orders)
      /\ HeldOf(k)' = SumFunctionOnSet(g, Orders)
  BY DEF HeldOf, SumFunction
<1> HIDE DEF f, g
<1>5. SumFunctionOnSet(g, Orders) = SumFunctionOnSet(f, Orders) + (g[o] - f[o])
  BY <1>2, <1>3, OrdersAssumption, SumChange
<1>6. SumFunctionOnSet(f, Orders) \in Int
  BY <1>2, OrdersAssumption, SumType
<1> QED BY <1>1, <1>4, <1>5, <1>6

\* The inductive invariant of the reservations, beside OrderInv.
HoldsOK == HoldsFollow /\ ReservedIsHeld

\* The reserved bucket of an item and the rows that hold it move together.
SameChange(o) ==
  /\ \A p \in Orders : p # o => hold'[p] = hold[p]
  /\ \A k \in Keys : balance'[k].reserved - balance[k].reserved = hold'[o][k] - hold[o][k]

\* A step that posts no reservation and changes no hold keeps ReservedIsHeld.
LEMMA ReservedKept ==
  ASSUME OrderInv, OrderInv', NEW o \in Orders, SameChange(o), ReservedIsHeld,
         overtaken' = {} => overtaken = {}
  PROVE  ReservedIsHeld'
<1> SUFFICES ASSUME overtaken' = {}, NEW k \in Keys
             PROVE  balance'[k].reserved = HeldOf(k)'
  BY DEF ReservedIsHeld
<1>1. balance[k].reserved = HeldOf(k)
  BY DEF ReservedIsHeld
<1>2. HeldOf(k)' = HeldOf(k) + (hold'[o][k] - hold[o][k]) /\ HeldOf(k) \in Int
  BY HeldChange DEF OrderInv, OrdersOK, SameChange
<1>3. balance'[k].reserved - balance[k].reserved = hold'[o][k] - hold[o][k]
  BY DEF SameChange
<1>4. balance'[k].reserved \in Int /\ balance[k].reserved \in Int
  BY DEF OrderInv, OrdersOK, TypeOK, StockTypeOK, Balances
<1> QED BY <1>1, <1>2, <1>3, <1>4

\* Nothing outside the orders reserves or releases.
KeepsReserved == \A k \in Keys : balance'[k].reserved = balance[k].reserved

\* Receipts and sales of the shop reserve nothing.
LEMMA TradeKeepsReserved ==
  ASSUME StockTypeOK, NEW type \in MovementTypes \ {"RESERVATION", "RESERVATION_RELEASE"},
         NEW lines \in [Keys -> Nat], balance' = PostedAll(balance, type, lines)
  PROVE  KeepsReserved
<1>1. balance \in [Keys -> Balances] /\ \A k \in Keys : balance[k].reserved \in Int
  BY DEF StockTypeOK, Balances
<1> QED BY <1>1, PostedReserved DEF KeepsReserved

\* So they keep what is reserved and held.
LEMMA ShopKeepsReserved ==
  ASSUME OrderInv, ShopTrades
  PROVE  KeepsReserved
<1>0. StockTypeOK
  BY DEF OrderInv, OrdersOK, TypeOK
<1>1. ASSUME NEW type \in {"PURCHASE_RECEIPT", "SALE"}, NEW lines \in Lines,
             PostDocument(type, lines)
      PROVE  KeepsReserved
  <2>1. type \in MovementTypes \ {"RESERVATION", "RESERVATION_RELEASE"}
    BY DEF MovementTypes
  <2> QED BY <1>0, <1>1, <2>1, LinesAreQuantities, TradeKeepsReserved DEF PostDocument, Post
<1>2. ASSUME NEW k \in Keys, NEW type \in {"ADJUSTMENT_LOSS", "DAMAGE"},
             NEW qty \in Quantities, Adjust(k, type, qty)
      PROVE  KeepsReserved
  <2> DEFINE lines == [i \in Keys |-> IF i = k THEN qty ELSE 0]
  <2>1. lines \in [Keys -> Nat]
    BY QuantitiesAssumption
  <2>2. balance' = PostedAll(balance, type, lines)
    BY <1>2 DEF Adjust, Post
  <2> HIDE DEF lines
  <2>3. type \in MovementTypes \ {"RESERVATION", "RESERVATION_RELEASE"}
    BY DEF MovementTypes
  <2> QED BY <1>0, <2>1, <2>2, <2>3, TradeKeepsReserved
<1>3. ASSUME NEW s \in SaleRefs, NEW lines \in Lines, SyncOfflineSale(s, lines)
      PROVE  KeepsReserved
  <2>1. "SALE" \in MovementTypes \ {"RESERVATION", "RESERVATION_RELEASE"}
    BY DEF MovementTypes
  <2> QED BY <1>0, <1>3, <2>1, LinesAreQuantities, TradeKeepsReserved DEF SyncOfflineSale
<1> QED BY <1>1, <1>2, <1>3 DEF ShopTrades

\* The steps of one order, as far as the others and the history go.
OnlyOrder(o) ==
  /\ \A p \in Orders : p # o => order'[p] = order[p] /\ hold'[p] = hold[p]
  /\ overtaken \subseteq overtaken'

\* A step that changes one order keeps the others' holds.
LEMMA HoldsKept ==
  ASSUME OrderInv, OrderInv', HoldsOK, NEW o \in Orders, OnlyOrder(o),
         o \notin overtaken' => HoldFollows(order'[o], hold'[o]),
         overtaken' = {} => SameChange(o)
  PROVE  HoldsOK'
<1>1. HoldsFollow'
  <2> SUFFICES ASSUME NEW p \in Orders \ overtaken' PROVE HoldFollows(order'[p], hold'[p])
    BY DEF HoldsFollow, HoldFollows
  <2> QED BY DEF OnlyOrder, HoldsOK, HoldsFollow
<1>2. CASE overtaken' = {}
  BY <1>1, <1>2, ReservedKept DEF HoldsOK, OnlyOrder
<1>3. CASE overtaken' # {}
  BY <1>1, <1>3 DEF HoldsOK, ReservedIsHeld
<1> QED BY <1>2, <1>3

\* A posting of a reservation type moves the buckets by the lines.
LEMMA PostMovesReserved ==
  ASSUME StockTypeOK, NEW lines \in [Keys -> Nat], NEW k \in Keys
  PROVE  /\ PostedAll(balance, "RESERVATION", lines)[k].reserved
              = balance[k].reserved + lines[k]
         /\ PostedAll(balance, "RESERVATION_RELEASE", lines)[k].reserved
              = balance[k].reserved - lines[k]
         /\ PostedAll(balance, "RESERVATION_RELEASE", lines) \in [Keys -> Balances]
         /\ balance[k].reserved \in Int
<1>1. balance \in [Keys -> Balances] /\ balance[k].reserved \in Int
  BY DEF StockTypeOK, Balances
<1>2. "RESERVATION" \in MovementTypes /\ "RESERVATION_RELEASE" \in MovementTypes
  BY DEF MovementTypes
<1>3. PostedAll(balance, "RESERVATION", lines)[k].reserved = balance[k].reserved + lines[k]
  BY <1>1, <1>2, PostedReserved
<1>4. /\ PostedAll(balance, "RESERVATION_RELEASE", lines)[k].reserved
              = balance[k].reserved + (-lines[k])
      /\ PostedAll(balance, "RESERVATION_RELEASE", lines) \in [Keys -> Balances]
  BY <1>1, <1>2, PostedReserved
<1> QED BY <1>1, <1>3, <1>4

\* An accept reserves what the order then holds.
LEMMA AcceptHolds ==
  ASSUME OrderInv, OrderInv', HoldsOK, NEW o \in Orders, Accept(o)
  PROVE  HoldsOK'
<1> DEFINE lines == order[o].lines
           row == [order[o] EXCEPT !.status = "ACCEPTED", !.reservedQty = lines]
           more == [k \in Keys |-> hold[o][k] + lines[k]]
<1>0. /\ TypeOK /\ StockTypeOK /\ order[o].status \in {"DRAFT", "SENT"}
      /\ balance' = PostedAll(balance, "RESERVATION", lines)
      /\ order' = [order EXCEPT ![o] = row]
      /\ hold' = [hold EXCEPT ![o] = more]
      /\ overtaken' = overtaken
  BY DEF OrderInv, OrdersOK, Accept, Post, TypeOK
<1>1. order[o] \in OrderRows /\ hold[o] \in [Keys -> Nat] /\ lines \in [Keys -> Nat]
  BY <1>0 DEF TypeOK, OrderRows
<1>2. row.status = "ACCEPTED" /\ row.reservedQty = lines
  BY <1>1 DEF OrderRows
<1>3. more \in [Keys -> Int] /\ \A k \in Keys : more[k] = hold[o][k] + lines[k]
  BY <1>1
<1>4. hold[o] = Nothing => more = lines
  BY <1>1 DEF Nothing
<1> HIDE DEF row, more
<1>5. order'[o] = row /\ hold'[o] = more /\ OnlyOrder(o)
  BY <1>0 DEF TypeOK, OnlyOrder
<1>6. SameChange(o)
  <2> HIDE DEF lines
  <2>1. ASSUME NEW k \in Keys
        PROVE  balance'[k].reserved - balance[k].reserved = hold'[o][k] - hold[o][k]
    <3>1. balance'[k].reserved = balance[k].reserved + lines[k] /\ balance[k].reserved \in Int
      BY <1>0, <1>1, PostMovesReserved
    <3>2. hold'[o][k] = hold[o][k] + lines[k] /\ lines[k] \in Int /\ hold[o][k] \in Int
      BY <1>1, <1>3, <1>5
    <3> QED BY <3>1, <3>2
  <2> QED BY <1>5, <2>1 DEF SameChange, OnlyOrder
<1>7. o \notin overtaken' => HoldFollows(row, more)
  BY <1>0, <1>2, <1>4 DEF HoldsOK, HoldsFollow, HoldFollows
<1> QED BY <1>5, <1>6, <1>7, HoldsKept

\* The two ways a hold is closed: what the lines say was reserved goes back, and
\* nothing after it touches the bucket.
LEMMA CloseHolds ==
  ASSUME OrderInv, OrderInv', HoldsOK, NEW o \in Orders, Complete(o) \/ Cancel(o)
  PROVE  HoldsOK'
<1> DEFINE back == order[o].reservedQty
           status == IF Complete(o) THEN "COMPLETED" ELSE "CANCELLED"
           row == [order[o] EXCEPT !.status = status]
<1>0. /\ TypeOK /\ StockTypeOK
      /\ order[o].status \notin {"NONE", "CANCELLED", "COMPLETED"}
      /\ order' = [order EXCEPT ![o] = row]
      /\ hold' = [hold EXCEPT ![o] = Nothing]
      /\ overtaken' = overtaken
  <2>1. TypeOK /\ StockTypeOK
    BY DEF OrderInv, OrdersOK, TypeOK
  <2>2. CASE Complete(o)
    BY <2>1, <2>2 DEF Complete, CloseHold, Completable
  <2>3. CASE ~Complete(o)
    BY <2>1, <2>3 DEF Cancel, CloseHold
  <2> QED BY <2>2, <2>3
<1>1. order[o] \in OrderRows /\ hold[o] \in [Keys -> Nat] /\ back \in [Keys -> Nat]
  BY <1>0 DEF TypeOK, OrderRows
<1>2. row.status \in {"COMPLETED", "CANCELLED"}
  BY <1>1 DEF OrderRows
<1>3. \A k \in Keys : balance'[k].reserved = balance[k].reserved - back[k]
                     /\ balance[k].reserved \in Int
  <2> HIDE DEF back
  <2>1. \A k \in Keys :
          /\ PostedAll(balance, "RESERVATION_RELEASE", back)[k].reserved
               = balance[k].reserved - back[k]
          /\ PostedAll(balance, "RESERVATION_RELEASE", back) \in [Keys -> Balances]
          /\ balance[k].reserved \in Int
    BY <1>0, <1>1, PostMovesReserved
  <2>2. CASE Cancel(o)
    BY <2>1, <2>2 DEF Cancel, ReleasedBalance, back
  <2>3. CASE Complete(o)
    <3> DEFINE lines == order[o].lines
               released == PostedAll(balance, "RESERVATION_RELEASE", back)
    <3>1. lines \in [Keys -> Nat] /\ "SALE" \in MovementTypes
      BY <1>1 DEF OrderRows, MovementTypes
    <3>2. balance' = PostedAll(released, "SALE", lines)
      BY <2>3 DEF Complete, ReleasedBalance, back
    <3> HIDE DEF lines, released
    <3>3. ASSUME NEW k \in Keys PROVE balance'[k].reserved = released[k].reserved
      <4>1. released \in [Keys -> Balances] /\ released[k].reserved \in Int
        BY <1>1, <2>1 DEF released
      <4>2. PostedAll(released, "SALE", lines)[k].reserved = released[k].reserved + 0
        BY <3>1, <4>1, PostedReserved
      <4> QED BY <3>2, <4>1, <4>2
    <3> QED BY <2>1, <3>3 DEF released
  <2> QED BY <2>2, <2>3
<1> HIDE DEF row, status
<1>4. order'[o] = row /\ hold'[o] = Nothing /\ OnlyOrder(o)
  BY <1>0 DEF TypeOK, OnlyOrder
<1>5. HoldFollows(row, Nothing)
  BY <1>2 DEF HoldFollows
<1>6. overtaken' = {} => SameChange(o)
  <2> SUFFICES ASSUME overtaken' = {} PROVE SameChange(o)
    OBVIOUS
  <2>1. hold[o] = back
    BY <1>0 DEF HoldsOK, HoldsFollow, HoldFollows
  <2>2. ASSUME NEW k \in Keys
        PROVE  balance'[k].reserved - balance[k].reserved = hold'[o][k] - hold[o][k]
    <3>1. hold'[o][k] = 0 /\ back[k] \in Int
      BY <1>1, <1>4 DEF Nothing
    <3> QED BY <1>3, <2>1, <3>1
  <2> QED BY <1>4, <2>2 DEF SameChange, OnlyOrder
<1> QED BY <1>4, <1>5, <1>6, HoldsKept

\* The steps that leave the stock and every hold where they are.
LEMMA QuietHolds ==
  ASSUME OrderInv, OrderInv', HoldsOK, NEW o \in Orders, OnlyOrder(o),
         UNCHANGED << balance, hold >>,
         o \notin overtaken' => HoldFollows(order'[o], hold[o])
  PROVE  HoldsOK'
<1>1. SameChange(o)
  <2>1. \A k \in Keys : balance[k].reserved \in Int /\ hold[o][k] \in Int
    BY DEF OrderInv, OrdersOK, TypeOK, StockTypeOK, Balances
  <2> QED BY <2>1 DEF SameChange
<1> QED BY <1>1, HoldsKept

\* Every step keeps HoldsOK.
LEMMA HoldsStep ==
  ASSUME OrderInv, OrderInv', HoldsOK, [Next]_vars
  PROVE  HoldsOK'
<1>0. TypeOK
  BY DEF OrderInv, OrdersOK
<1>1. CASE UNCHANGED orderVars /\ KeepsReserved
  <2>1. HoldsFollow'
    BY <1>1 DEF orderVars, HoldsOK, HoldsFollow, HoldFollows
  <2>2. ReservedIsHeld'
    BY <1>1 DEF orderVars, KeepsReserved, HoldsOK, ReservedIsHeld, HeldOf
  <2> QED BY <2>1, <2>2 DEF HoldsOK
<1>2. ASSUME NEW o \in Orders, NEW lines \in Lines, NEW total \in Totals,
             NEW layaway \in BOOLEAN, Create(o, lines, total, layaway)
      PROVE  HoldsOK'
  <2> DEFINE row == [NoOrder EXCEPT !.status = "DRAFT", !.layaway = layaway,
                                    !.total = total, !.lines = lines]
  <2>1. /\ order[o].status = "NONE" /\ order' = [order EXCEPT ![o] = row]
        /\ UNCHANGED << balance, hold, overtaken >>
    BY <1>2 DEF Create, stockVars
  <2>2. row.status = "DRAFT" /\ row.reservedQty = Nothing
    BY DEF NoOrder
  <2> HIDE DEF row
  <2>3. order'[o] = row /\ OnlyOrder(o)
    BY <1>0, <2>1 DEF TypeOK, OnlyOrder
  <2>4. o \notin overtaken' => HoldFollows(order'[o], hold[o])
    BY <2>1, <2>2, <2>3 DEF HoldsOK, HoldsFollow, HoldFollows
  <2> QED BY <2>1, <2>3, <2>4, QuietHolds
<1>3. ASSUME NEW o \in Orders, ReadForSend(o) PROVE HoldsOK'
  BY <1>3 DEF ReadForSend, stockVars, HoldsOK, HoldsFollow, HoldFollows, ReservedIsHeld, HeldOf
<1>4. ASSUME NEW o \in Orders, WriteSent(o) PROVE HoldsOK'
  <2> DEFINE row == [order[o] EXCEPT !.status = "SENT"]
  <2>1. /\ order' = [order EXCEPT ![o] = row]
        /\ overtaken' = IF order[o].status \in {"DRAFT", "SENT"} THEN overtaken
                                                                ELSE overtaken \cup {o}
        /\ UNCHANGED << balance, hold >>
    BY <1>4 DEF WriteSent, stockVars
  <2>2. row.status = "SENT" /\ row.reservedQty = order[o].reservedQty
    BY <1>0 DEF TypeOK, OrderRows
  <2> HIDE DEF row
  <2>3. order'[o] = row /\ OnlyOrder(o)
    BY <1>0, <2>1 DEF TypeOK, OnlyOrder
  <2>4. o \notin overtaken' => HoldFollows(order'[o], hold[o])
    BY <2>1, <2>2, <2>3 DEF HoldsOK, HoldsFollow, HoldFollows
  <2> QED BY <2>1, <2>3, <2>4, QuietHolds
<1>5. ASSUME NEW o \in Orders, Accept(o) PROVE HoldsOK'
  BY <1>5, AcceptHolds
<1>6. ASSUME NEW o \in Orders, NEW amount \in Amounts, Pay(o, amount) PROVE HoldsOK'
  <2> DEFINE paid == order[o].paid + amount
             status == IF paid >= order[o].total THEN "PAID" ELSE "PARTIALLY_PAID"
             row == [order[o] EXCEPT !.paid = paid, !.status = status]
  <2>1. /\ order[o].status \notin {"NONE", "CANCELLED", "COMPLETED"}
        /\ order' = [order EXCEPT ![o] = row]
        /\ UNCHANGED << balance, hold, overtaken >>
    BY <1>6 DEF Pay, stockVars
  <2>2. row.status \in {"PAID", "PARTIALLY_PAID"} /\ row.reservedQty = order[o].reservedQty
    <3> HIDE DEF paid
    <3> QED BY <1>0 DEF TypeOK, OrderRows
  <2> HIDE DEF row
  <2>3. order'[o] = row /\ OnlyOrder(o)
    BY <1>0, <2>1 DEF TypeOK, OnlyOrder
  <2>4. o \notin overtaken' => HoldFollows(order'[o], hold[o])
    BY <2>1, <2>2, <2>3 DEF HoldsOK, HoldsFollow, HoldFollows
  <2> QED BY <2>1, <2>3, <2>4, QuietHolds
<1>7. ASSUME NEW o \in Orders, Complete(o) \/ Cancel(o) PROVE HoldsOK'
  BY <1>7, CloseHolds
<1>8. ASSUME NEW o \in Orders, OrderStep(o) PROVE HoldsOK'
  BY <1>2, <1>3, <1>4, <1>5, <1>6, <1>7, <1>8 DEF OrderStep
<1>9. CASE ShopTrades
  BY <1>1, <1>9, ShopKeepsReserved DEF ShopTrades
<1>10. CASE UNCHANGED vars
  BY <1>1, <1>10 DEF vars, orderVars, KeepsReserved
<1> QED BY <1>8, <1>9, <1>10 DEF Next

\* At first nothing is reserved or held.
LEMMA HoldsInit == Init => HoldsOK
<1> SUFFICES ASSUME Init PROVE HoldsOK
  OBVIOUS
<1>1. HoldFollows(NoOrder, Nothing)
  BY DEF HoldFollows, NoOrder
<1>2. HoldsFollow
  BY <1>1 DEF Init, HoldsFollow
<1>3. ASSUME NEW k \in Keys PROVE balance[k].reserved = HeldOf(k)
  <2> DEFINE f == [o \in Orders |-> hold[o][k]]
  <2>1. \A o \in Orders : f[o] = 0
    BY DEF Init, Nothing
  <2>2. HeldOf(k) = SumFunctionOnSet(f, Orders)
    BY DEF HeldOf, SumFunction
  <2> HIDE DEF f
  <2>3. HeldOf(k) = 0
    BY <2>1, <2>2, OrdersAssumption, SumZero
  <2>4. balance[k].reserved = 0
    BY DEF Init, StockInit, Stocked, EmptyBalance
  <2> QED BY <2>3, <2>4
<1> QED BY <1>2, <1>3 DEF HoldsOK, ReservedIsHeld

\* With the money, what is held follows every order through every step.
THEOREM HoldsInvariant == Spec => []HoldsOK
<1>1. OrderInv /\ OrderInv' /\ HoldsOK /\ [Next]_vars => HoldsOK'
  BY HoldsStep
<1> QED BY <1>1, HoldsInit, OrderInvariant, PTL DEF Spec

\* The reserved bucket of an item is the sum of the active reservations, for any
\* number of orders that accept, complete and cancel around each other, until a
\* send overtakes one of them.
THEOREM ReservationsCorrect == Spec => []ReservedIsHeld
<1>1. HoldsOK => ReservedIsHeld
  BY DEF HoldsOK
<1> QED BY <1>1, HoldsInvariant, PTL

\* What is held is there: the release and the sale of a completion are both covered.
LEMMA HeldIsThere ==
  ASSUME OrderInv, HoldsOK
  PROVE  HeldOrderIsDeliverable
<1> SUFFICES ASSUME NEW o \in Orders, overtaken = {}, order[o].status \in Completable,
                    hold[o] = order[o].lines,
                    \A k \in Keys : order[o].lines[k] > 0 => ShortfallsOf(k) = {}
             PROVE  /\ CanRelease(o)
                    /\ CanPostAll(ReleasedBalance(o), "SALE", order[o].lines, FALSE)
  BY DEF HeldOrderIsDeliverable
<1> DEFINE lines == order[o].lines
           released == PostedAll(balance, "RESERVATION_RELEASE", lines)
<1>0. TypeOK /\ StockTypeOK
  BY DEF OrderInv, OrdersOK, TypeOK
<1>1. lines \in [Keys -> Nat] /\ order[o].reservedQty = lines
  BY <1>0 DEF TypeOK, OrderRows, HoldsOK, HoldsFollow, HoldFollows, Completable
<1>2. ASSUME NEW k \in Keys PROVE lines[k] <= balance[k].reserved
  <2> DEFINE f == [p \in Orders |-> hold[p][k]]
  <2>1. \A p \in Orders : f[p] = hold[p][k] /\ f[p] \in Nat
    BY <1>0 DEF TypeOK
  <2>2. balance[k].reserved = SumFunctionOnSet(f, Orders)
    BY DEF HeldOf, SumFunction, HoldsOK, ReservedIsHeld
  <2> HIDE DEF f
  <2>3. f[o] <= SumFunctionOnSet(f, Orders)
    BY <2>1, OrdersAssumption, SumCovers
  <2> QED BY <2>1, <2>2, <2>3
<1>3. CanRelease(o)
  BY <1>1, <1>2 DEF CanRelease, CanPostAll, CanPost, RequiresSellable
<1>4. ASSUME NEW k \in Keys, lines[k] > 0 PROVE CanPost(released[k], "SALE", lines[k], FALSE)
  <2>1. balance \in [Keys -> Balances] /\ "RESERVATION_RELEASE" \in MovementTypes
    BY <1>0 DEF StockTypeOK, MovementTypes
  <2> HIDE DEF lines
  <2>2. Available(released[k]) = Available(balance[k]) + lines[k] /\ Available(balance[k]) \in Int
    BY <1>1, <2>1, PostedReserved
  <2>3. Available(balance[k]) >= 0
    BY <1>4 DEF OrderInv, StockInv, ShortfallsOnRecord, lines
  <2>4. Available(released[k]) >= lines[k] /\ lines[k] \in Nat
    BY <1>1, <2>2, <2>3
  <2> HIDE DEF released
  <2> QED BY <1>4, <2>4 DEF CanPost, RequiresSellable
<1>5. CanPostAll(ReleasedBalance(o), "SALE", lines, FALSE)
  BY <1>1, <1>4 DEF ReleasedBalance, CanPostAll
<1> QED BY <1>3, <1>5

\* An accepted order can always be completed: while what it holds is what its lines
\* ask for and no oversell of its items is on record, the release and the sale are
\* covered, however many other orders reserve the same items.
THEOREM DeliverableCorrect == Spec => []HeldOrderIsDeliverable
<1>1. OrderInv /\ HoldsOK => HeldOrderIsDeliverable
  BY HeldIsThere
<1> QED BY <1>1, OrderInvariant, HoldsInvariant, PTL

------------------------------------------------------------------------------
(***************************************************************************)
(* Sales and returns.                                                      *)
(***************************************************************************)

\* What a document says of an item adds up to a number, line by line.
LEMMA DocumentAddsUp ==
  ASSUME NEW doc \in Seq(ReturnLines), NEW k \in Keys
  PROVE  /\ QtyIn(doc, k) \in Nat
         /\ RestockedLines(doc, k) \in Seq(Nat)
         /\ Len(RestockedLines(doc, k)) = Len(doc)
         /\ Restocked(doc)[k] = SumFunctionOnSet(RestockedLines(doc, k), 1..Len(doc))
         /\ Restocked(doc)[k] \in Nat
         /\ RefundsIn(doc, k) \in Nat
         /\ LinesIn(doc, k) \in Nat
<1>1. Len(doc) \in Nat /\ DOMAIN doc = 1..Len(doc) /\ IsFiniteSet(DOMAIN doc)
  BY LenProperties, FS_Interval
<1>2. \A i \in DOMAIN doc : doc[i] \in ReturnLines /\ doc[i].qty \in Nat /\ doc[i].amount \in Nat
  <2>1. \A i \in DOMAIN doc : doc[i] \in ReturnLines
    BY <1>1, ElementOfSeq
  <2> QED BY <2>1 DEF ReturnLines
<1> DEFINE S == DOMAIN doc
           q == [i \in S |-> IF doc[i].item = k THEN doc[i].qty ELSE 0]
           a == [i \in S |-> IF doc[i].item = k THEN doc[i].amount ELSE 0]
           l == [i \in S |-> IF doc[i].item = k THEN 1 ELSE 0]
           r == RestockedLines(doc, k)
<1>3. /\ \A i \in S : q[i] \in Nat /\ a[i] \in Nat /\ l[i] \in Nat /\ r[i] \in Nat
      /\ DOMAIN q = S /\ DOMAIN a = S /\ DOMAIN l = S /\ DOMAIN r = S
      /\ r \in [S -> Nat]
  BY <1>2 DEF RestockedLines
<1>4. /\ QtyIn(doc, k) = SumFunctionOnSet(q, S)
      /\ RefundsIn(doc, k) = SumFunctionOnSet(a, S)
      /\ LinesIn(doc, k) = SumFunctionOnSet(l, S)
      /\ Restocked(doc)[k] = SumFunctionOnSet(r, S)
  BY <1>3 DEF QtyIn, RefundsIn, LinesIn, Restocked, SumFunction
<1> HIDE DEF q, a, l, r
<1>5. r \in Seq(Nat) /\ Len(r) = Len(doc)
  BY <1>1, <1>3, RowIsSeq
<1>6. \A i \in S : q[i] \in Int /\ a[i] \in Int /\ l[i] \in Int /\ r[i] \in Int
  BY <1>3
<1>7. \A i \in S : q[i] >= 0 /\ a[i] >= 0 /\ l[i] >= 0 /\ r[i] >= 0
  BY <1>3
<1>8. SumFunctionOnSet(q, S) \in Int /\ SumFunctionOnSet(q, S) >= 0
  BY <1>1, <1>6, <1>7, SumType
<1>9. SumFunctionOnSet(a, S) \in Int /\ SumFunctionOnSet(a, S) >= 0
  BY <1>1, <1>6, <1>7, SumType
<1>10. SumFunctionOnSet(l, S) \in Int /\ SumFunctionOnSet(l, S) >= 0
  BY <1>1, <1>6, <1>7, SumType
<1>11. SumFunctionOnSet(r, S) \in Int /\ SumFunctionOnSet(r, S) >= 0
  BY <1>1, <1>6, <1>7, SumType
<1> QED BY <1>1, <1>4, <1>5, <1>8, <1>9, <1>10, <1>11 DEF r

\* What all documents of a sale put back to the shelf of an item.
RestockedIn(docs, k) == SumFunction([d \in DOMAIN docs |-> Restocked(docs[d])[k]])

\* One more document adds what it says.
LEMMA DocumentAppended ==
  ASSUME NEW docs \in Seq(Seq(ReturnLines)), NEW doc \in Seq(ReturnLines), NEW k \in Keys
  PROVE  /\ Append(docs, doc) \in Seq(Seq(ReturnLines))
         /\ ReturnedIn(docs, k) \in Int /\ RestockedIn(docs, k) \in Int
         /\ ReturnedIn(Append(docs, doc), k) = ReturnedIn(docs, k) + QtyIn(doc, k)
         /\ RestockedIn(Append(docs, doc), k) = RestockedIn(docs, k) + Restocked(doc)[k]
<1> DEFINE n == Len(docs)
           more == Append(docs, doc)
<1>1. /\ more \in Seq(Seq(ReturnLines))
      /\ n \in Nat /\ DOMAIN docs = 1..n /\ DOMAIN more = 1..(n + 1)
      /\ more[n + 1] = doc /\ \A d \in 1..n : more[d] = docs[d] /\ docs[d] \in Seq(ReturnLines)
  BY AppendProperties, LenProperties, ElementOfSeq
<1> HIDE DEF n, more
<1> DEFINE f == [d \in DOMAIN docs |-> QtyIn(docs[d], k)]
           g == [d \in DOMAIN more |-> QtyIn(more[d], k)]
           u == [d \in DOMAIN docs |-> Restocked(docs[d])[k]]
           v == [d \in DOMAIN more |-> Restocked(more[d])[k]]
<1>2. n + 1 \in 1..(n + 1) /\ \A d \in 1..n : d \in 1..(n + 1)
  BY <1>1
<1>3. /\ DOMAIN f = 1..n /\ DOMAIN g = 1..(n + 1) /\ DOMAIN u = 1..n /\ DOMAIN v = 1..(n + 1)
      /\ \A d \in 1..n : /\ f[d] = QtyIn(docs[d], k) /\ g[d] = f[d]
                         /\ u[d] = Restocked(docs[d])[k] /\ v[d] = u[d]
      /\ g[n + 1] = QtyIn(doc, k) /\ v[n + 1] = Restocked(doc)[k]
  BY <1>1, <1>2
<1>4. /\ ReturnedIn(docs, k) = SumFunction(f) /\ ReturnedIn(more, k) = SumFunction(g)
      /\ RestockedIn(docs, k) = SumFunction(u) /\ RestockedIn(more, k) = SumFunction(v)
  BY DEF ReturnedIn, RestockedIn
<1> HIDE DEF f, g, u, v
<1>5. \A d \in 1..n : f[d] \in Int /\ u[d] \in Int
  <2> SUFFICES ASSUME NEW d \in 1..n PROVE f[d] \in Int /\ u[d] \in Int
    OBVIOUS
  <2>1. docs[d] \in Seq(ReturnLines)
    BY <1>1
  <2>2. QtyIn(docs[d], k) \in Nat /\ Restocked(docs[d])[k] \in Nat
    BY <2>1, DocumentAddsUp
  <2> QED BY <1>3, <2>2
<1>6. g[n + 1] \in Int /\ v[n + 1] \in Int
  BY <1>3, DocumentAddsUp
<1>7. SumFunction(f) \in Int /\ SumFunction(g) = SumFunction(f) + g[n + 1]
  BY <1>1, <1>3, <1>5, <1>6, SumGrows
<1>8. SumFunction(u) \in Int /\ SumFunction(v) = SumFunction(u) + v[n + 1]
  BY <1>1, <1>3, <1>5, <1>6, SumGrows
<1> QED BY <1>1, <1>3, <1>4, <1>7, <1>8 DEF more

\* Without documents nothing came back.
LEMMA NoDocuments ==
  ASSUME NEW k \in Keys
  PROVE  ReturnedIn(<< >>, k) = 0 /\ RestockedIn(<< >>, k) = 0
<1> DEFINE f == [d \in DOMAIN << >> |-> QtyIn(<< >>[d], k)]
           u == [d \in DOMAIN << >> |-> Restocked(<< >>[d])[k]]
<1>1. DOMAIN f = {} /\ DOMAIN u = {}
  OBVIOUS
<1>2. /\ ReturnedIn(<< >>, k) = SumFunctionOnSet(f, {})
      /\ RestockedIn(<< >>, k) = SumFunctionOnSet(u, {})
  BY <1>1 DEF ReturnedIn, RestockedIn, SumFunction
<1> HIDE DEF f, u
<1> QED BY <1>2, SumEmpty

\* What a document without repeated lines brings back of an item is what its line of
\* the item says.
LEMMA OneLine ==
  ASSUME NEW doc \in Seq(ReturnLines), NEW k \in Keys,
         \A i, j \in DOMAIN doc : i # j => doc[i].item # doc[j].item
  PROVE  \/ QtyIn(doc, k) = 0
         \/ \E i \in DOMAIN doc : doc[i].item = k /\ QtyIn(doc, k) = doc[i].qty
<1> DEFINE S == DOMAIN doc
           q == [i \in S |-> IF doc[i].item = k THEN doc[i].qty ELSE 0]
<1>1. IsFiniteSet(S)
  BY LenProperties, FS_Interval
<1>2. \A i \in S : doc[i].qty \in Nat
  <2>1. \A i \in S : doc[i] \in ReturnLines
    BY LenProperties, ElementOfSeq
  <2> QED BY <2>1 DEF ReturnLines
<1>3. QtyIn(doc, k) = SumFunctionOnSet(q, S)
  BY DEF QtyIn, SumFunction
<1>4. CASE \A i \in S : doc[i].item # k
  <2>1. \A i \in S : q[i] = 0
    BY <1>4
  <2> HIDE DEF q, S
  <2> QED BY <1>1, <1>3, <2>1, SumZero
<1>5. ASSUME NEW i \in S, doc[i].item = k PROVE QtyIn(doc, k) = doc[i].qty
  <2>1. q[i] = doc[i].qty /\ \A j \in S : j # i => q[j] = 0
    BY <1>5
  <2>2. q[i] \in Int
    BY <1>2, <2>1
  <2> HIDE DEF q, S
  <2> QED BY <1>1, <1>3, <2>1, <2>2, SumSingle
<1> QED BY <1>4, <1>5
------------------------------------------------------------------------------
(***************************************************************************)
(* Refunds: rounding is the only error, half a cent for every line.        *)
(***************************************************************************)

\* Every line of the documents is close.
LinesClose(q, t, docs, k) ==
  \A d \in DOMAIN docs : \A i \in DOMAIN docs[d] :
    docs[d][i].item = k => Close(q, t, docs[d][i].amount, docs[d][i].qty, 1)

\* Then each document is, and all of them are.
LEMMA DocumentsClose ==
  ASSUME NEW q \in Nat, NEW t \in Nat, NEW k \in Keys, NEW docs \in Seq(Seq(ReturnLines)),
         LinesClose(q, t, docs, k)
  PROVE  Close(q, t, SumFunction([d \in DOMAIN docs |-> RefundsIn(docs[d], k)]),
               ReturnedIn(docs, k), SumFunction([d \in DOMAIN docs |-> LinesIn(docs[d], k)]))
<1>1. ASSUME NEW d \in DOMAIN docs
      PROVE  /\ RefundsIn(docs[d], k) \in Nat /\ QtyIn(docs[d], k) \in Nat
             /\ LinesIn(docs[d], k) \in Nat
             /\ Close(q, t, RefundsIn(docs[d], k), QtyIn(docs[d], k), LinesIn(docs[d], k))
  <2> DEFINE doc == docs[d]
             S == DOMAIN doc
             a == [i \in S |-> IF doc[i].item = k THEN doc[i].amount ELSE 0]
             b == [i \in S |-> IF doc[i].item = k THEN doc[i].qty ELSE 0]
             c == [i \in S |-> IF doc[i].item = k THEN 1 ELSE 0]
  <2>1. doc \in Seq(ReturnLines)
    BY LenProperties, ElementOfSeq
  <2>2. \A i \in S : doc[i].item = k => Close(q, t, doc[i].amount, doc[i].qty, 1)
    BY DEF LinesClose
  <2> HIDE DEF doc
  <2>3. IsFiniteSet(S) /\ \A i \in S : doc[i].amount \in Nat /\ doc[i].qty \in Nat
    <3>1. \A i \in S : doc[i] \in ReturnLines
      BY <2>1, LenProperties, ElementOfSeq
    <3>2. IsFiniteSet(S)
      BY <2>1, LenProperties, FS_Interval
    <3> QED BY <3>1, <3>2 DEF ReturnLines
  <2>4. \A i \in S : a[i] \in Nat /\ b[i] \in Nat /\ c[i] \in Nat
    BY <2>3
  <2>5. \A i \in S : Close(q, t, a[i], b[i], c[i])
    <3> SUFFICES ASSUME NEW i \in S PROVE Close(q, t, a[i], b[i], c[i])
      OBVIOUS
    <3>1. CASE doc[i].item = k
      <4>1. a[i] = doc[i].amount /\ b[i] = doc[i].qty /\ c[i] = 1
        BY <3>1
      <4> HIDE DEF a, b, c
      <4> QED BY <2>2, <3>1, <4>1
    <3>2. CASE doc[i].item # k
      <4>1. a[i] = 0 /\ b[i] = 0 /\ c[i] = 0
        BY <3>2
      <4> HIDE DEF a, b, c
      <4> QED BY <4>1, CloseNothing
    <3> QED BY <3>1, <3>2
  <2>6. /\ RefundsIn(doc, k) = SumFunctionOnSet(a, S)
        /\ QtyIn(doc, k) = SumFunctionOnSet(b, S)
        /\ LinesIn(doc, k) = SumFunctionOnSet(c, S)
    BY DEF RefundsIn, QtyIn, LinesIn, SumFunction
  <2> HIDE DEF a, b, c, S
  <2>7. Close(q, t, RefundsIn(doc, k), QtyIn(doc, k), LinesIn(doc, k))
    BY <2>3, <2>4, <2>5, <2>6, SumsStayClose
  <2>8. RefundsIn(doc, k) \in Nat /\ QtyIn(doc, k) \in Nat /\ LinesIn(doc, k) \in Nat
    BY <2>1, DocumentAddsUp
  <2> QED BY <2>7, <2>8 DEF doc
<1> DEFINE S == DOMAIN docs
           a == [d \in S |-> RefundsIn(docs[d], k)]
           b == [d \in S |-> QtyIn(docs[d], k)]
           c == [d \in S |-> LinesIn(docs[d], k)]
<1>2. IsFiniteSet(S)
  BY LenProperties, FS_Interval
<1>3. \A d \in S : a[d] = RefundsIn(docs[d], k) /\ b[d] = QtyIn(docs[d], k)
                   /\ c[d] = LinesIn(docs[d], k)
  OBVIOUS
<1>4. /\ SumFunction(a) = SumFunctionOnSet(a, S) /\ SumFunction(c) = SumFunctionOnSet(c, S)
      /\ ReturnedIn(docs, k) = SumFunctionOnSet(b, S)
  BY DEF ReturnedIn, SumFunction
<1> SUFFICES Close(q, t, SumFunction(a), ReturnedIn(docs, k), SumFunction(c))
  OBVIOUS
<1> HIDE DEF a, b, c, S
<1>5. \A d \in S : a[d] \in Nat /\ b[d] \in Nat /\ c[d] \in Nat
  BY <1>1, <1>3 DEF S
<1>6. \A d \in S : Close(q, t, a[d], b[d], c[d])
  BY <1>1, <1>3 DEF S
<1> QED BY <1>2, <1>4, <1>5, <1>6, SumsStayClose

------------------------------------------------------------------------------
(***************************************************************************)
(* One sale: its row, its returns and what the ledger holds for it.        *)
(***************************************************************************)

\* No document lists an item twice.
Distinct(docs) ==
  \A d \in DOMAIN docs : \A i, j \in DOMAIN docs[d] : i # j => docs[d][i].item # docs[d][j].item

\* What they say together; sum[k] is what the ledger rows of the sale add up to.
SaleFits(row, docs, sum) ==
  /\ row.status = "NONE" => row.qty = Nothing
  /\ \A k \in Keys : sum[k] = RestockedIn(docs, k) - row.qty[k]
  /\ Distinct(docs) => \A k \in Keys : ReturnedIn(docs, k) <= row.qty[k]
  /\ row.status = "REFUNDED" <=>
       docs # << >> /\ \A k \in Keys : ReturnedIn(docs, k) >= row.qty[k]
  /\ row.status = "PARTIALLY_REFUNDED" <=>
       docs # << >> /\ \E k \in Keys : ReturnedIn(docs, k) < row.qty[k]
  /\ \A k \in Keys : LinesClose(row.qty[k], row.lineTotal[k], docs, k)

\* A sale without documents.
LEMMA FreshSale ==
  ASSUME NEW row \in SaleRows, row.status \in {"NONE", "COMPLETED"},
         row.status = "NONE" => row.qty = Nothing,
         NEW sum, \A k \in Keys : sum[k] = 0 - row.qty[k]
  PROVE  SaleFits(row, << >>, sum)
<1>1. \A k \in Keys : ReturnedIn(<< >>, k) = 0 /\ RestockedIn(<< >>, k) = 0 /\ row.qty[k] \in Nat
  BY NoDocuments DEF SaleRows
<1>2. \A k \in Keys : LinesClose(row.qty[k], row.lineTotal[k], << >>, k)
  BY DEF LinesClose
<1> QED BY <1>1, <1>2 DEF SaleFits

\* The lines that the handler accepts: each is compared with what came back before the
\* document, and refunds its share.
Accepted(row, docs, doc) ==
  \A i \in DOMAIN doc :
    /\ row.qty[doc[i].item] > 0
    /\ ReturnedIn(docs, doc[i].item) + doc[i].qty <= row.qty[doc[i].item]
    /\ doc[i].amount = (2 * row.lineTotal[doc[i].item] * doc[i].qty + row.qty[doc[i].item])
                          \div (2 * row.qty[doc[i].item])

\* One more document of such lines.
LEMMA OneMoreDocument ==
  ASSUME NEW row \in SaleRows, NEW docs \in Seq(Seq(ReturnLines)), NEW sum \in [Keys -> Int],
         SaleFits(row, docs, sum),
         NEW doc \in Seq(ReturnLines), NEW status \in {"REFUNDED", "PARTIALLY_REFUNDED"},
         NEW after \in [Keys -> Int],
         row.status # "NONE",
         Accepted(row, docs, doc),
         \A k \in Keys : after[k] = sum[k] + Restocked(doc)[k],
         status = IF \A k \in Keys : ReturnedIn(Append(docs, doc), k) >= row.qty[k]
                  THEN "REFUNDED" ELSE "PARTIALLY_REFUNDED"
  PROVE  /\ [row EXCEPT !.status = status] \in SaleRows
         /\ SaleFits([row EXCEPT !.status = status], Append(docs, doc), after)
<1> DEFINE more == Append(docs, doc)
           new == [row EXCEPT !.status = status]
           n == Len(docs)
<1>1. /\ more \in Seq(Seq(ReturnLines)) /\ more # << >>
      /\ n \in Nat /\ DOMAIN docs = 1..n /\ DOMAIN more = 1..(n + 1) /\ n + 1 \in 1..(n + 1)
      /\ more[n + 1] = doc /\ \A d \in 1..n : more[d] = docs[d] /\ d \in 1..(n + 1)
  <2>1. /\ more \in Seq(Seq(ReturnLines))
        /\ n \in Nat /\ DOMAIN docs = 1..n /\ DOMAIN more = 1..(n + 1)
        /\ more[n + 1] = doc /\ \A d \in 1..n : more[d] = docs[d]
    BY AppendProperties, LenProperties
  <2> HIDE DEF more, n
  <2>2. 1 \in DOMAIN more /\ DOMAIN << >> = {}
    BY <2>1
  <2>3. more # << >>
    BY <2>2
  <2> QED BY <2>1, <2>3
<1>2. /\ new \in SaleRows /\ new.status = status
      /\ new.qty = row.qty /\ new.lineTotal = row.lineTotal
      /\ status \in {"REFUNDED", "PARTIALLY_REFUNDED"}
  BY DEF SaleRows
<1>3. \A k \in Keys : /\ row.qty[k] \in Nat /\ row.lineTotal[k] \in Nat
                      /\ ReturnedIn(docs, k) \in Int /\ RestockedIn(docs, k) \in Int
                      /\ QtyIn(doc, k) \in Nat /\ Restocked(doc)[k] \in Nat
                      /\ ReturnedIn(more, k) = ReturnedIn(docs, k) + QtyIn(doc, k)
                      /\ RestockedIn(more, k) = RestockedIn(docs, k) + Restocked(doc)[k]
  BY DocumentAppended, DocumentAddsUp DEF SaleRows
<1>4. \A k \in Keys : ReturnedIn(more, k) \in Int /\ row.qty[k] \in Int
  <2> SUFFICES ASSUME NEW k \in Keys PROVE ReturnedIn(more, k) \in Int /\ row.qty[k] \in Int
    OBVIOUS
  <2>1. /\ ReturnedIn(more, k) = ReturnedIn(docs, k) + QtyIn(doc, k)
        /\ ReturnedIn(docs, k) \in Int /\ QtyIn(doc, k) \in Nat /\ row.qty[k] \in Nat
    BY <1>3
  <2> HIDE DEF more
  <2> QED BY <2>1
<1>5. \A i \in DOMAIN doc : doc[i] \in ReturnLines
  BY LenProperties, ElementOfSeq
<1> HIDE DEF new, more, n
<1>6. \A k \in Keys : after[k] = RestockedIn(more, k) - new.qty[k]
  <2> SUFFICES ASSUME NEW k \in Keys PROVE after[k] = RestockedIn(more, k) - new.qty[k]
    OBVIOUS
  <2>1. sum[k] = RestockedIn(docs, k) - row.qty[k] /\ after[k] = sum[k] + Restocked(doc)[k]
    BY DEF SaleFits
  <2>2. /\ RestockedIn(more, k) = RestockedIn(docs, k) + Restocked(doc)[k]
        /\ RestockedIn(docs, k) \in Int /\ Restocked(doc)[k] \in Nat /\ row.qty[k] \in Nat
    BY <1>3
  <2>3. new.qty[k] = row.qty[k]
    BY <1>2
  <2> QED BY <2>1, <2>2, <2>3
<1>7. Distinct(more) => \A k \in Keys : ReturnedIn(more, k) <= new.qty[k]
  <2> SUFFICES ASSUME Distinct(more), NEW k \in Keys PROVE ReturnedIn(more, k) <= row.qty[k]
    BY <1>2
  <2>1. Distinct(docs)
    <3> SUFFICES ASSUME NEW d \in 1..n, NEW i \in DOMAIN docs[d], NEW j \in DOMAIN docs[d], i # j
                 PROVE  docs[d][i].item # docs[d][j].item
      BY <1>1 DEF Distinct
    <3>1. d \in DOMAIN more /\ more[d] = docs[d]
      BY <1>1
    <3> QED BY <3>1 DEF Distinct
  <2>2. ReturnedIn(docs, k) <= row.qty[k]
    BY <2>1 DEF SaleFits
  <2>3. \A i, j \in DOMAIN doc : i # j => doc[i].item # doc[j].item
    <3>1. n + 1 \in DOMAIN more /\ more[n + 1] = doc
      BY <1>1
    <3> QED BY <3>1 DEF Distinct
  <2>4. \/ QtyIn(doc, k) = 0
        \/ \E i \in DOMAIN doc : doc[i].item = k /\ QtyIn(doc, k) = doc[i].qty
    BY <2>3, OneLine
  <2>5. CASE QtyIn(doc, k) = 0
    BY <1>3, <2>2, <2>5
  <2>6. ASSUME NEW i \in DOMAIN doc, doc[i].item = k, QtyIn(doc, k) = doc[i].qty
        PROVE  ReturnedIn(more, k) <= row.qty[k]
    <3>1. ReturnedIn(docs, k) + doc[i].qty <= row.qty[k]
      BY <2>6 DEF Accepted
    <3> QED BY <1>3, <2>6, <3>1
  <2> QED BY <2>4, <2>5, <2>6
<1>8. ASSUME NEW k \in Keys PROVE LinesClose(new.qty[k], new.lineTotal[k], more, k)
  <2> SUFFICES ASSUME NEW d \in 1..(n + 1), NEW i \in DOMAIN more[d], more[d][i].item = k
               PROVE  Close(row.qty[k], row.lineTotal[k], more[d][i].amount, more[d][i].qty, 1)
    BY <1>1, <1>2 DEF LinesClose
  <2>1. CASE d \in 1..n
    <3>1. LinesClose(row.qty[k], row.lineTotal[k], docs, k)
      BY DEF SaleFits
    <3> QED BY <1>1, <2>1, <3>1 DEF LinesClose
  <2>2. CASE d = n + 1
    <3> DEFINE q == row.qty[k]
               t == row.lineTotal[k]
               asked == doc[i].qty
               amount == doc[i].amount
    <3>1. i \in DOMAIN doc /\ doc[i].item = k
      BY <1>1, <2>2
    <3>2. q \in Nat \ {0} /\ t \in Nat /\ amount = (2 * t * asked + q) \div (2 * q)
      <4>1. /\ row.qty[doc[i].item] > 0
            /\ doc[i].amount = (2 * row.lineTotal[doc[i].item] * doc[i].qty + row.qty[doc[i].item])
                                 \div (2 * row.qty[doc[i].item])
        BY <3>1 DEF Accepted
      <4>2. q > 0 /\ amount = (2 * t * asked + q) \div (2 * q)
        BY <3>1, <4>1, Zenon
      <4>3. q \in Nat /\ t \in Nat
        BY <1>3
      <4> HIDE DEF q, t, asked, amount
      <4> QED BY <4>2, <4>3
    <3>3. asked \in Nat
      BY <1>5, <3>1 DEF ReturnLines
    <3> HIDE DEF q, t, asked, amount
    <3>4. Close(q, t, amount, asked, 1)
      BY <3>2, <3>3, ShareIsClose
    <3> QED BY <1>1, <2>2, <3>4 DEF q, t, asked, amount
  <2>3. d \in 1..n \/ d = n + 1
    BY <1>1
  <2> QED BY <2>1, <2>2, <2>3
<1>9. /\ new.status # "NONE"
      /\ new.status = "REFUNDED" <=>
           more # << >> /\ \A k \in Keys : ReturnedIn(more, k) >= new.qty[k]
      /\ new.status = "PARTIALLY_REFUNDED" <=>
           more # << >> /\ \E k \in Keys : ReturnedIn(more, k) < new.qty[k]
  <2>1. \A k \in Keys : ~(ReturnedIn(more, k) >= row.qty[k]) <=> ReturnedIn(more, k) < row.qty[k]
    <3> SUFFICES ASSUME NEW k \in Keys
                 PROVE  ~(ReturnedIn(more, k) >= row.qty[k]) <=> ReturnedIn(more, k) < row.qty[k]
      OBVIOUS
    <3> DEFINE back == ReturnedIn(more, k)
               sold == row.qty[k]
    <3>1. back \in Int /\ sold \in Int
      BY <1>4
    <3> HIDE DEF back, sold
    <3> QED BY <3>1 DEF back, sold
  <2>2. status = IF \A k \in Keys : ReturnedIn(more, k) >= row.qty[k]
                 THEN "REFUNDED" ELSE "PARTIALLY_REFUNDED"
    BY DEF more
  <2> QED BY <1>1, <1>2, <2>1, <2>2
<1>10. SaleFits(new, more, after)
  BY <1>6, <1>7, <1>8, <1>9 DEF SaleFits
<1> QED BY <1>2, <1>10 DEF new, more

------------------------------------------------------------------------------
(***************************************************************************)
(* The steps of sales.                                                     *)
(***************************************************************************)

\* Types, and every sale with its returns and its ledger rows.
SaleFacts == SaleTypeOK /\ \A s \in SaleRefs : SaleFits(sale[s], returns[s], posted[s])

\* The inductive invariant of sales, cost layers and stock.
SaleInv == SaleFacts /\ LayersFollowStock /\ StockInv

\* It holds that of costed stock.
LEMMA SaleCosts == SaleInv => CostInv
BY DEF SaleInv, SaleFacts, SaleTypeOK, CostInv

\* The document that a return of the sale makes.
DocumentOf(s, asked) ==
  [i \in DOMAIN asked |->
     [item |-> asked[i].item, qty |-> asked[i].qty, restock |-> asked[i].restock,
      amount |-> Amount(s, asked[i].item, asked[i].qty)]]

\* Its lines: the handler accepted each of them, and refunds its share.
LEMMA DocumentIsAsked ==
  ASSUME SaleTypeOK, NEW s \in SaleRefs, NEW n \in Nat, NEW asked \in [1..n -> Asked],
         \A i \in DOMAIN asked : MayReturn(s, asked[i].item, asked[i].qty)
  PROVE  LET doc == DocumentOf(s, asked)
             row == sale[s]
         IN  /\ doc \in Seq(ReturnLines)
             /\ Restocked(doc) \in [Keys -> Nat]
             /\ Accepted(row, returns[s], doc)
<1> DEFINE doc == DocumentOf(s, asked)
           row == sale[s]
<1>1. row \in SaleRows /\ row.qty \in [Keys -> Nat] /\ row.lineTotal \in [Keys -> Nat]
  BY DEF SaleTypeOK, SaleRows
<1>2. DOMAIN asked = 1..n /\ DOMAIN doc = 1..n
  BY DEF DocumentOf
<1>3. ASSUME NEW i \in 1..n
      PROVE  /\ doc[i] \in ReturnLines
             /\ row.qty[doc[i].item] > 0
             /\ ReturnedIn(returns[s], doc[i].item) + doc[i].qty <= row.qty[doc[i].item]
             /\ doc[i].amount =
                  (2 * row.lineTotal[doc[i].item] * doc[i].qty + row.qty[doc[i].item])
                    \div (2 * row.qty[doc[i].item])
  <2> DEFINE k == asked[i].item
             c == asked[i].qty
             amount == Amount(s, k, c)
             q == row.qty[k]
             t == row.lineTotal[k]
  <2>1. asked[i] \in Asked /\ k \in Keys /\ c \in Nat \ {0} /\ asked[i].restock \in BOOLEAN
    BY QuantitiesAssumption DEF Asked
  <2>2. doc[i] = [item |-> k, qty |-> c, restock |-> asked[i].restock, amount |-> amount]
    BY <1>2 DEF DocumentOf
  <2>3. q > 0 /\ ReturnedIn(returns[s], k) + c <= q
    BY <1>2 DEF MayReturn
  <2>4. amount = (2 * t * c + q) \div (2 * q)
    BY DEF Amount
  <2>5. q \in Nat \ {0} /\ t \in Nat
    BY <1>1, <2>1, <2>3
  <2>6. amount \in Nat
    <3> HIDE DEF amount, q, t, c, k
    <3> QED BY <2>1, <2>4, <2>5, ShareIsClose
  <2>7. doc[i] \in ReturnLines
    <3> HIDE DEF amount, q, t, c, k, doc
    <3> QED BY <2>1, <2>2, <2>6 DEF ReturnLines
  <2>8. doc[i].item = k /\ doc[i].qty = c /\ doc[i].amount = amount
    <3> HIDE DEF amount, q, t, c, k, doc
    <3> QED BY <2>2
  <2> HIDE DEF doc, amount, c, k
  <2> QED BY <2>3, <2>4, <2>7, <2>8
<1> HIDE DEF doc
<1>4. doc \in [1..n -> ReturnLines]
  <2>1. \A i \in 1..n : doc[i] \in ReturnLines
    BY <1>3
  <2>2. doc = [i \in 1..n |-> doc[i]]
    BY DEF doc, DocumentOf
  <2> QED BY <2>1, <2>2
<1>5. doc \in Seq(ReturnLines)
  BY <1>4, RowIsSeq
<1>6. Restocked(doc) \in [Keys -> Nat]
  <2>1. \A k \in Keys : Restocked(doc)[k] \in Nat
    BY <1>5, DocumentAddsUp
  <2>2. Restocked(doc) = [k \in Keys |-> Restocked(doc)[k]]
    BY DEF Restocked
  <2> QED BY <2>1, <2>2
<1>7. Accepted(row, returns[s], doc)
  BY <1>2, <1>3 DEF Accepted
<1> QED BY <1>5, <1>6, <1>7 DEF doc

\* Every step keeps the promises of the ledger.
LEMMA SaleStockStep ==
  ASSUME SaleInv, [SaleNext]_saleVars
  PROVE  KeepsBook /\ BucketsHold'
<1>0. StockInv /\ SaleTypeOK
  BY DEF SaleInv, SaleFacts
<1>1. CASE UNCHANGED stockVars
  BY <1>0, <1>1, StockStep
<1>2. ASSUME NEW type \in MovementTypes, NEW lines \in [Keys -> Nat], PostDocument(type, lines)
      PROVE  KeepsBook /\ BucketsHold'
  BY <1>0, <1>2, PostStep DEF PostDocument
<1>3. ASSUME NEW s \in SaleRefs, BookSale(s) PROVE KeepsBook /\ BucketsHold'
  <2>1. request[s].qty \in [Keys -> Nat] /\ "SALE" \in MovementTypes
    BY <1>0 DEF SaleTypeOK, MovementTypes
  <2>2. CASE request[s].offline
    BY <1>0, <1>3, <2>1, <2>2, OfflineStep DEF BookSale
  <2>3. CASE ~request[s].offline
    BY <1>2, <1>3, <2>1, <2>3 DEF BookSale
  <2> QED BY <2>2, <2>3
<1>4. ASSUME NEW s \in SaleRefs, NEW n \in 1..MaxReturnLines, NEW asked \in [1..n -> Asked],
             ReturnGoods(s, asked)
      PROVE  KeepsBook /\ BucketsHold'
  <2>1. /\ \A i \in DOMAIN asked : MayReturn(s, asked[i].item, asked[i].qty)
        /\ PostDocument("SALE_RETURN", Restocked(DocumentOf(s, asked)))
    BY <1>4 DEF ReturnGoods, DocumentOf
  <2>2. n \in Nat /\ "SALE_RETURN" \in MovementTypes
    BY MaxReturnLinesAssumption DEF MovementTypes
  <2>3. Restocked(DocumentOf(s, asked)) \in [Keys -> Nat]
    BY <1>0, <2>1, <2>2, DocumentIsAsked
  <2> QED BY <1>2, <2>1, <2>2, <2>3
<1>5. CASE OthersTrade
  BY <1>5, SaleCosts, OthersTradeStep
<1>6. CASE UNCHANGED saleVars
  BY <1>1, <1>6 DEF saleVars, stockVars
<1>7. ASSUME NEW s \in SaleRefs, SaleStep(s) PROVE KeepsBook /\ BucketsHold'
  BY <1>1, <1>3, <1>4, <1>7 DEF SaleStep, SendRequest
<1> QED BY <1>5, <1>6, <1>7 DEF SaleNext

------------------------------------------------------------------------------

\* Layers stay layers, and go on following the stock.
LayersKept == CostTypeOK' /\ LayersFollowStock'

\* A sale, offline or not, uses them.
LEMMA SoldLayers ==
  ASSUME SaleInv, NEW s \in SaleRefs, BookSale(s)
  PROVE  LayersKept
<1> DEFINE lines == request[s].qty
<1>1. /\ lines \in [Keys -> Nat]
      /\ layers' = [k \in Keys |-> Consumed(layers[k], lines[k])]
      /\ UNCHANGED << gained, lost >>
      /\ IF request[s].offline THEN SyncOfflineSale(s, lines) ELSE PostDocument("SALE", lines)
  BY DEF SaleInv, SaleFacts, SaleTypeOK, BookSale
<1> HIDE DEF lines
<1>2. CASE request[s].offline
  BY <1>1, <1>2, SaleCosts, OfflineLayersStep DEF LayersKept
<1>3. CASE ~request[s].offline
  <2>1. /\ "SALE" \in Outflows
        /\ Post("SALE", lines) /\ UNCHANGED << exceptions, gained, lost >>
    BY <1>1, <1>3 DEF Outflows, PostDocument
  <2> QED BY <1>1, <2>1, SaleCosts, GoodsOutStep DEF LayersKept
<1> QED BY <1>2, <1>3

\* What a return restocks is layers again.
LEMMA ReturnedLayersKept ==
  ASSUME SaleInv, NEW s \in SaleRefs, NEW n \in Nat, NEW asked \in [1..n -> Asked],
         ReturnGoods(s, asked)
  PROVE  LayersKept
<1> DEFINE doc == DocumentOf(s, asked)
           back == Restocked(doc)
<1>0. /\ SaleTypeOK /\ layers \in [Keys -> Seq(LayerRows)]
      /\ \A i \in DOMAIN asked : MayReturn(s, asked[i].item, asked[i].qty)
      /\ PostDocument("SALE_RETURN", back)
      /\ layers' = [k \in Keys |-> ReturnedLayers(s, doc, k)]
      /\ UNCHANGED << gained, lost >>
  BY DEF SaleInv, SaleFacts, SaleTypeOK, CostTypeOK, ReturnGoods, DocumentOf
<1>1. doc \in Seq(ReturnLines) /\ back \in [Keys -> Nat]
  BY <1>0, DocumentIsAsked
<1> HIDE DEF doc
<1>2. ASSUME NEW k \in Keys
      PROVE  /\ layers'[k] \in Seq(LayerRows)
             /\ LeftIn(layers'[k]) = LeftIn(layers[k]) + back[k]
             /\ OldestFirst(layers'[k])
  <2> DEFINE qty == RestockedLines(doc, k)
             each == sale[s].unitCost[k]
             cost == [i \in DOMAIN doc |-> each]
             worth == [i \in 1..Len(qty) |-> qty[i] * cost[i]]
  <2>1. layers[k] \in Seq(LayerRows) /\ each \in Nat
    BY <1>0 DEF SaleTypeOK, SaleRows
  <2>2. qty \in Seq(Nat) /\ Len(qty) = Len(doc) /\ back[k] = SumFunctionOnSet(qty, 1..Len(doc))
    BY <1>1, DocumentAddsUp
  <2>3. DOMAIN doc = 1..Len(doc)
    BY <1>1, LenProperties
  <2>4. cost \in [1..Len(qty) -> Nat]
    <3> HIDE DEF each, qty
    <3> QED BY <2>1, <2>2, <2>3
  <2>5. worth \in [1..Len(qty) -> Nat] /\ \A i \in 1..Len(qty) : worth[i] = qty[i] * cost[i]
    <3>1. \A i \in 1..Len(qty) : qty[i] \in Nat
      BY <2>2, ElementOfSeq
    <3> HIDE DEF qty, cost
    <3>2. \A i \in 1..Len(qty) : qty[i] * cost[i] \in Nat
      BY <2>4, <3>1
    <3> QED BY <3>2
  <2>6. layers'[k] = Opened(layers[k], qty, cost)
    BY <1>0 DEF ReturnedLayers
  <2> HIDE DEF qty, cost, worth
  <2>7. /\ Opened(layers[k], qty, cost) \in Seq(LayerRows)
        /\ LeftIn(Opened(layers[k], qty, cost))
             = LeftIn(layers[k]) + SumFunctionOnSet(qty, 1..Len(qty))
        /\ OldestFirst(layers[k]) => OldestFirst(Opened(layers[k], qty, cost))
    <3> DEFINE s0 == layers[k]
    <3>1. s0 \in Seq(LayerRows)
      BY <2>1
    <3>2. qty \in Seq(Nat)
      BY <2>2
    <3>3. worth \in [1..Len(qty) -> Nat]
      BY <2>5
    <3>4. \A i \in 1..Len(qty) : worth[i] = qty[i] * cost[i]
      BY <2>5
    <3> HIDE DEF s0
    <3>5. /\ Opened(s0, qty, cost) \in Seq(LayerRows)
          /\ LeftIn(Opened(s0, qty, cost)) = LeftIn(s0) + SumFunctionOnSet(qty, 1..Len(qty))
          /\ OldestFirst(s0) => OldestFirst(Opened(s0, qty, cost))
      BY <2>4, <3>1, <3>2, <3>3, <3>4, OpenedLayers
    <3> QED BY <3>5 DEF s0
  <2>8. OldestFirst(layers[k])
    BY SaleCosts, CostedItem
  <2> QED BY <2>2, <2>6, <2>7, <2>8
<1>3. layers' \in [Keys -> Seq(LayerRows)]
  <2>1. layers' = [k \in Keys |-> layers'[k]]
    BY <1>0
  <2> QED BY <1>2, <2>1
<1>4. /\ "SALE_RETURN" \in Inflows
      /\ Post("SALE_RETURN", back) /\ UNCHANGED << exceptions, gained, lost >>
  BY <1>0 DEF Inflows, PostDocument
<1> HIDE DEF back
<1> QED BY <1>1, <1>2, <1>3, <1>4, SaleCosts, LayersGrow DEF LayersKept

\* Every step keeps the layers.
LEMMA SaleLayersStep ==
  ASSUME SaleInv, [SaleNext]_saleVars
  PROVE  LayersKept
<1>1. CASE UNCHANGED << stockVars, costVars >>
  BY <1>1, SaleCosts, CostIdleStep DEF LayersKept
<1>2. ASSUME NEW s \in SaleRefs, SaleStep(s) PROVE LayersKept
  <2>1. ASSUME NEW n \in 1..MaxReturnLines, NEW asked \in [1..n -> Asked], ReturnGoods(s, asked)
        PROVE  LayersKept
    BY <2>1, MaxReturnLinesAssumption, ReturnedLayersKept
  <2> QED BY <1>1, <1>2, <2>1, SoldLayers DEF SaleStep, SendRequest
<1>3. CASE OthersTrade
  BY <1>3, SaleCosts, OthersTradeStep DEF LayersKept
<1>4. CASE UNCHANGED saleVars
  BY <1>1, <1>4 DEF saleVars, stockVars, costVars
<1> QED BY <1>2, <1>3, <1>4 DEF SaleNext

------------------------------------------------------------------------------

\* A step that writes one sale, and what it writes is a sale.
LEMMA OneSale ==
  ASSUME SaleInv, StockTypeOK', LayersKept, NEW s \in SaleRefs,
         NEW row \in SaleRows, NEW docs \in Seq(Seq(ReturnLines)), NEW sum \in [Keys -> Int],
         SaleFits(row, docs, sum),
         request' = request,
         sale' = [sale EXCEPT ![s] = row],
         returns' = [returns EXCEPT ![s] = docs],
         posted' = [posted EXCEPT ![s] = sum]
  PROVE  SaleFacts'
<1>0. SaleTypeOK
  BY DEF SaleInv, SaleFacts
<1>1. SaleTypeOK'
  BY <1>0 DEF SaleTypeOK, LayersKept
<1>2. ASSUME NEW r \in SaleRefs PROVE SaleFits(sale'[r], returns'[r], posted'[r])
  <2>1. CASE r = s
    <3>1. sale'[r] = row /\ returns'[r] = docs /\ posted'[r] = sum
      BY <1>0, <2>1 DEF SaleTypeOK
    <3> QED BY <3>1
  <2>2. CASE r # s
    <3>1. sale'[r] = sale[r] /\ returns'[r] = returns[r] /\ posted'[r] = posted[r]
      BY <1>0, <2>2 DEF SaleTypeOK
    <3>2. SaleFits(sale[r], returns[r], posted[r])
      BY DEF SaleInv, SaleFacts
    <3> QED BY <3>1, <3>2
  <2> QED BY <2>1, <2>2
<1> QED BY <1>1, <1>2 DEF SaleFacts

\* A booked sale: its reference had no row, so it had no returns and no ledger rows.
LEMMA BookedSale ==
  ASSUME SaleInv, StockTypeOK', LayersKept, NEW s \in SaleRefs, BookSale(s)
  PROVE  SaleFacts'
<1> DEFINE lines == request[s].qty
           unitCost == [k \in Keys |-> IF lines[k] > 0
                                       THEN UnitCost(layers[k], lines[k], BaseCost) ELSE 0]
           row == [status |-> "COMPLETED", qty |-> lines, lineTotal |-> request[s].lineTotal,
                   unitCost |-> unitCost]
           sum == BookedAll(posted[s], "SALE", lines)
<1>0. /\ SaleTypeOK /\ sale[s].status = "NONE"
      /\ request' = request /\ returns' = returns
      /\ sale' = [sale EXCEPT ![s] = row] /\ posted' = [posted EXCEPT ![s] = sum]
  BY DEF SaleInv, SaleFacts, BookSale, Unbooked, SaleTypeOK
<1>1. lines \in [Keys -> Nat] /\ request[s].lineTotal \in [Keys -> Nat]
      /\ posted[s] \in [Keys -> Int] /\ layers \in [Keys -> Seq(LayerRows)]
      /\ returns \in [SaleRefs -> Seq(Seq(ReturnLines))] /\ sale[s].qty \in [Keys -> Nat]
  BY <1>0 DEF SaleTypeOK, CostTypeOK, SaleRows
<1>2. SaleFits(sale[s], returns[s], posted[s])
  BY DEF SaleInv, SaleFacts
<1>3. returns[s] = << >>
  <2>1. \A k \in Keys : ReturnedIn(returns[s], k) >= sale[s].qty[k]
                        \/ ReturnedIn(returns[s], k) < sale[s].qty[k]
    <3> SUFFICES ASSUME NEW k \in Keys
                 PROVE  ReturnedIn(returns[s], k) >= sale[s].qty[k]
                        \/ ReturnedIn(returns[s], k) < sale[s].qty[k]
      OBVIOUS
    <3>1. returns[s] \in Seq(Seq(ReturnLines)) /\ << >> \in Seq(ReturnLines)
      BY <1>1
    <3>2. ReturnedIn(returns[s], k) \in Int
      BY <3>1, DocumentAppended
    <3> QED BY <1>1, <3>2
  <2> QED BY <1>0, <1>2, <2>1 DEF SaleFits
<1>4. \A k \in Keys : posted[s][k] = 0
  <2>1. /\ \A k \in Keys : posted[s][k] = RestockedIn(<< >>, k) - sale[s].qty[k]
        /\ sale[s].qty = Nothing
    BY <1>0, <1>2, <1>3 DEF SaleFits
  <2> QED BY <2>1, NoDocuments DEF Nothing
<1>5. ASSUME NEW k \in Keys PROVE sum[k] = 0 - lines[k] /\ sum[k] \in Int
  <2> DEFINE q == lines[k]
             p == posted[s]
  <2>1. sum[k] = IF q > 0 THEN p[k] + LedgerDelta("SALE", q) ELSE p[k]
    BY <1>1 DEF BookedAll
  <2>2. p[k] = 0 /\ q \in Nat /\ LedgerDelta("SALE", q) = -q
    BY <1>1, <1>4 DEF LedgerDelta
  <2> HIDE DEF lines, q, p, sum
  <2> QED BY <2>1, <2>2 DEF q
<1>6. unitCost \in [Keys -> Nat]
  <2> SUFFICES ASSUME NEW k \in Keys, lines[k] > 0
               PROVE  UnitCost(layers[k], lines[k], BaseCost) \in Nat
    OBVIOUS
  <2> DEFINE total == TotalCost(layers[k], lines[k], BaseCost)
             q == lines[k]
  <2>1. q \in Nat \ {0} /\ layers[k] \in Seq(LayerRows) /\ BaseCost \in Nat
    BY <1>1, BaseCostAssumption
  <2>2. total \in Nat
    BY <2>1, ConsumedAny
  <2>3. UnitCost(layers[k], lines[k], BaseCost) = (2 * total + q) \div (2 * q)
    BY DEF UnitCost
  <2> HIDE DEF total, q
  <2>4. 2 * total + q \in Nat /\ 2 * q \in Nat \ {0}
    BY <2>1, <2>2
  <2> QED BY <2>3, <2>4, DivMod
<1> HIDE DEF unitCost
<1>7. row \in SaleRows /\ row.status = "COMPLETED" /\ row.qty = lines
  BY <1>1, <1>6 DEF SaleRows
<1>8. sum \in [Keys -> Int]
  <2>1. sum = [k \in Keys |-> sum[k]]
    BY <1>1 DEF BookedAll
  <2> HIDE DEF sum, lines
  <2> QED BY <1>5, <2>1
<1> HIDE DEF row, sum, lines
<1>9. SaleFits(row, << >>, sum)
  BY <1>5, <1>7, FreshSale
<1>10. /\ << >> \in Seq(Seq(ReturnLines)) /\ returns' = [returns EXCEPT ![s] = << >>]
  BY <1>0, <1>1, <1>3
<1> QED BY <1>0, <1>7, <1>8, <1>9, <1>10, OneSale

\* A return: one more document.
LEMMA ReturnedSale ==
  ASSUME SaleInv, StockTypeOK', LayersKept, NEW s \in SaleRefs, NEW n \in Nat,
         NEW asked \in [1..n -> Asked], ReturnGoods(s, asked)
  PROVE  SaleFacts'
<1> DEFINE doc == DocumentOf(s, asked)
           back == Restocked(doc)
           docs == Append(returns[s], doc)
           status == StatusAfter(s, docs)
           row == [sale[s] EXCEPT !.status = status]
           sum == BookedAll(posted[s], "SALE_RETURN", back)
<1>0. /\ SaleTypeOK /\ sale[s].status # "NONE"
      /\ \A i \in DOMAIN asked : MayReturn(s, asked[i].item, asked[i].qty)
      /\ request' = request /\ returns' = [returns EXCEPT ![s] = docs]
      /\ sale' = [sale EXCEPT ![s] = row] /\ posted' = [posted EXCEPT ![s] = sum]
  BY DEF SaleInv, SaleFacts, ReturnGoods, DocumentOf
<1>1. /\ sale[s] \in SaleRows /\ returns[s] \in Seq(Seq(ReturnLines)) /\ posted[s] \in [Keys -> Int]
      /\ SaleFits(sale[s], returns[s], posted[s])
  BY <1>0 DEF SaleInv, SaleFacts, SaleTypeOK
<1>2. /\ doc \in Seq(ReturnLines) /\ back \in [Keys -> Nat]
      /\ Accepted(sale[s], returns[s], doc)
  BY <1>0, DocumentIsAsked
<1> HIDE DEF doc
<1>3. ASSUME NEW k \in Keys PROVE sum[k] = posted[s][k] + back[k] /\ sum[k] \in Int
  <2> DEFINE q == back[k]
             p == posted[s][k]
  <2>1. sum[k] = IF q > 0 THEN p + LedgerDelta("SALE_RETURN", q) ELSE p
    BY <1>1 DEF BookedAll
  <2>2. p \in Int /\ q \in Nat /\ LedgerDelta("SALE_RETURN", q) = q
    BY <1>1, <1>2 DEF LedgerDelta
  <2> HIDE DEF q, p, sum, back
  <2> QED BY <2>1, <2>2 DEF q, p
<1>4. sum \in [Keys -> Int]
  <2>1. sum = [k \in Keys |-> sum[k]]
    BY <1>1 DEF BookedAll
  <2> HIDE DEF sum
  <2> QED BY <1>3, <2>1
<1>5. status = IF \A k \in Keys : ReturnedIn(docs, k) >= sale[s].qty[k]
               THEN "REFUNDED" ELSE "PARTIALLY_REFUNDED"
  BY DEF StatusAfter
<1>6. docs \in Seq(Seq(ReturnLines))
  BY <1>1, <1>2
<1>7. row \in SaleRows /\ SaleFits(row, docs, sum)
  <2>1. \A k \in Keys : sum[k] = posted[s][k] + Restocked(doc)[k]
    BY <1>3
  <2>2. status \in {"REFUNDED", "PARTIALLY_REFUNDED"}
    BY <1>5
  <2> HIDE DEF sum, status
  <2>3. sale[s].status # "NONE" /\ doc \in Seq(ReturnLines) /\ Accepted(sale[s], returns[s], doc)
    BY <1>0, <1>2
  <2> DEFINE before == sale[s]
             prior == returns[s]
             held == posted[s]
  <2>4. /\ before \in SaleRows /\ prior \in Seq(Seq(ReturnLines)) /\ held \in [Keys -> Int]
        /\ SaleFits(before, prior, held)
    BY <1>1
  <2>5. status = IF \A k \in Keys : ReturnedIn(Append(prior, doc), k) >= before.qty[k]
                 THEN "REFUNDED" ELSE "PARTIALLY_REFUNDED"
    BY <1>5
  <2>6. before.status # "NONE" /\ Accepted(before, prior, doc)
    BY <2>3
  <2>7. \A k \in Keys : sum[k] = held[k] + Restocked(doc)[k]
    BY <2>1
  <2> HIDE DEF before, prior, held
  <2>8. /\ [before EXCEPT !.status = status] \in SaleRows
        /\ SaleFits([before EXCEPT !.status = status], Append(prior, doc), sum)
    BY <1>4, <2>2, <2>3, <2>4, <2>5, <2>6, <2>7, OneMoreDocument
  <2> QED BY <2>8 DEF before, prior
<1> HIDE DEF row, docs, sum
<1> QED BY <1>0, <1>4, <1>6, <1>7, OneSale

\* Every step keeps every sale.
LEMMA SaleFactsStep ==
  ASSUME SaleInv, StockTypeOK', LayersKept, [SaleNext]_saleVars
  PROVE  SaleFacts'
<1>0. SaleTypeOK
  BY DEF SaleInv, SaleFacts
<1>1. ASSUME UNCHANGED << sale, returns, posted >>,
             request' \in [SaleRefs -> [ sent : BOOLEAN, offline : BOOLEAN,
                                         qty : [Keys -> Nat], lineTotal : [Keys -> Nat] ]]
      PROVE  SaleFacts'
  <2>1. SaleTypeOK'
    BY <1>0, <1>1 DEF SaleTypeOK, LayersKept
  <2> QED BY <1>1, <2>1 DEF SaleInv, SaleFacts
<1>2. CASE UNCHANGED << request, sale, returns, posted >>
  BY <1>0, <1>1, <1>2 DEF SaleTypeOK
<1>3. ASSUME NEW s \in SaleRefs, NEW offline \in BOOLEAN, NEW qty \in Lines,
             NEW lineTotal \in [Keys -> LineTotals \cup {0}],
             SendRequest(s, offline, qty, lineTotal)
      PROVE  SaleFacts'
  <2>1. qty \in [Keys -> Nat] /\ lineTotal \in [Keys -> Nat]
    <3>1. qty \in [Keys -> Nat]
      BY LinesAreQuantities
    <3>2. LineTotals \cup {0} \subseteq Nat
      BY LineTotalsAssumption
    <3> QED BY <3>1, <3>2
  <2>2. [sent |-> TRUE, offline |-> offline, qty |-> qty, lineTotal |-> lineTotal]
          \in [ sent : BOOLEAN, offline : BOOLEAN, qty : [Keys -> Nat], lineTotal : [Keys -> Nat] ]
    BY <2>1
  <2>3. request' \in [SaleRefs -> [ sent : BOOLEAN, offline : BOOLEAN,
                                    qty : [Keys -> Nat], lineTotal : [Keys -> Nat] ]]
    BY <1>0, <1>3, <2>2 DEF SendRequest, SaleTypeOK
  <2> QED BY <1>1, <1>3, <2>3 DEF SendRequest
<1>4. ASSUME NEW s \in SaleRefs, NEW n \in 1..MaxReturnLines, NEW asked \in [1..n -> Asked],
             ReturnGoods(s, asked)
      PROVE  SaleFacts'
  BY <1>4, MaxReturnLinesAssumption, ReturnedSale
<1>5. ASSUME NEW s \in SaleRefs, SaleStep(s) PROVE SaleFacts'
  BY <1>3, <1>4, <1>5, BookedSale DEF SaleStep
<1> QED BY <1>2, <1>5 DEF SaleNext, documentVars, saleVars

\* At first nothing is sold, and the layers are the opening stock.
LEMMA SaleInitInv == SaleInit => SaleInv
<1> SUFFICES ASSUME SaleInit PROVE SaleInv
  OBVIOUS
<1>1. StockInv
  BY StockInitInv DEF SaleInit
<1>2. CostInv
  BY OpeningLayers, BaseCostAssumption DEF SaleInit
<1>3. Nothing \in [Keys -> Nat] /\ Nothing \in [Keys -> Int] /\ NoSale \in SaleRows
      /\ << >> \in Seq(Seq(ReturnLines))
  BY DEF Nothing, NoSale, SaleRows
<1>4. SaleTypeOK
  BY <1>1, <1>2, <1>3 DEF SaleInit, SaleTypeOK, StockInv, CostInv, NoRequest
<1>5. SaleFits(NoSale, << >>, Nothing)
  <2>1. NoSale.status = "NONE" /\ NoSale.qty = Nothing
    BY DEF NoSale
  <2>2. \A k \in Keys : Nothing[k] = 0 - NoSale.qty[k]
    BY <2>1 DEF Nothing
  <2> QED BY <1>3, <2>1, <2>2, FreshSale
<1>6. \A s \in SaleRefs : SaleFits(sale[s], returns[s], posted[s])
  BY <1>5 DEF SaleInit
<1> QED BY <1>1, <1>2, <1>4, <1>6 DEF SaleInv, SaleFacts, CostInv

\* SaleInv is inductive.
THEOREM SaleInvariant == SaleSpec => []SaleInv
<1>1. SaleInv /\ [SaleNext]_saleVars => SaleInv'
  <2> SUFFICES ASSUME SaleInv, [SaleNext]_saleVars PROVE SaleInv'
    OBVIOUS
  <2>1. KeepsBook /\ BucketsHold'
    BY SaleStockStep
  <2>2. StockInv'
    BY <2>1, StockInvKept DEF SaleInv
  <2>3. LayersKept
    BY SaleLayersStep
  <2>4. SaleFacts'
    BY <2>2, <2>3, SaleFactsStep DEF StockInv
  <2> QED BY <2>2, <2>3, <2>4 DEF SaleInv, LayersKept
<1> QED BY <1>1, SaleInitInv, PTL DEF SaleSpec

\* A reference is booked once, and the ledger holds what was sold less what came back
\* to the shelf, however often requests arrive and in whatever order returns follow.
THEOREM LedgerTellsSaleCorrect == SaleSpec => []LedgerTellsSale
<1>1. SaleInv => LedgerTellsSale
  <2> SUFFICES ASSUME SaleInv PROVE LedgerTellsSale
    OBVIOUS
  <2>1. SaleTypeOK
    BY DEF SaleInv, SaleFacts
  <2>2. ASSUME NEW s \in SaleRefs, NEW k \in Keys
        PROVE  posted[s][k] = RestockedIn(returns[s], k) - sale[s].qty[k]
    BY DEF SaleInv, SaleFacts, SaleFits
  <2> QED BY <2>1, <2>2 DEF LedgerTellsSale, RestockedIn
<1> QED BY <1>1, SaleInvariant, PTL

\* Over any number of returns no more of a line comes back than was sold, as long as no
\* document lists it twice, and the status tells what came back.
THEOREM ReturnsCorrect == SaleSpec => []ReturnsWithinSale
<1>1. SaleInv => ReturnsWithinSale
  <2> SUFFICES ASSUME SaleInv, NEW s \in SaleRefs
               PROVE  LET back(k) == ReturnedIn(returns[s], k) IN
                      /\ NoRepeatedLine(s) => \A k \in Keys : back(k) <= sale[s].qty[k]
                      /\ sale[s].status = "REFUNDED" <=>
                           returns[s] # << >> /\ \A k \in Keys : back(k) >= sale[s].qty[k]
                      /\ sale[s].status = "PARTIALLY_REFUNDED" <=>
                           returns[s] # << >> /\ \E k \in Keys : back(k) < sale[s].qty[k]
    BY DEF ReturnsWithinSale
  <2>1. SaleFits(sale[s], returns[s], posted[s])
    BY DEF SaleInv, SaleFacts
  <2>2. NoRepeatedLine(s) <=> Distinct(returns[s])
    BY DEF NoRepeatedLine, Distinct
  <2> QED BY <2>1, <2>2 DEF SaleFits
<1> QED BY <1>1, SaleInvariant, PTL

\* However a line's returns are split, its refunds are its total's share of what came
\* back, up to half a cent for every line of a return.
THEOREM RefundsCorrect == SaleSpec => []RefundsFollowReturns
<1>1. SaleInv => RefundsFollowReturns
  <2> SUFFICES ASSUME SaleInv, NEW s \in SaleRefs, NEW k \in Keys
               PROVE  Close(sale[s].qty[k], sale[s].lineTotal[k],
                            SumFunction([d \in DOMAIN returns[s] |-> RefundsIn(returns[s][d], k)]),
                            ReturnedIn(returns[s], k),
                            SumFunction([d \in DOMAIN returns[s] |-> LinesIn(returns[s][d], k)]))
    BY DEF RefundsFollowReturns, Close
  <2>1. SaleFits(sale[s], returns[s], posted[s])
    BY DEF SaleInv, SaleFacts
  <2>2. sale[s].qty[k] \in Nat /\ sale[s].lineTotal[k] \in Nat
        /\ returns[s] \in Seq(Seq(ReturnLines))
    BY DEF SaleInv, SaleFacts, SaleTypeOK, SaleRows
  <2>3. LinesClose(sale[s].qty[k], sale[s].lineTotal[k], returns[s], k)
    BY <2>1 DEF SaleFits
  <2> QED BY <2>2, <2>3, DocumentsClose
<1> QED BY <1>1, SaleInvariant, PTL

\* Whatever is sold, returned, received, transferred, reserved and adjusted, the cost
\* layers of an item cover its stock but for what adjustments added, and exceed it by no
\* more than adjustments took and one recorded oversell; and only the oldest is partly used.
THEOREM LayersCorrect == SaleSpec => []LayersFollowStock
<1>1. SaleInv => LayersFollowStock
  BY DEF SaleInv
<1> QED BY <1>1, SaleInvariant, PTL

\* Sales implement the stock book, offline sales and replayed requests included.
THEOREM SalesImplementBook == SaleSpec => ImplementsStockBook
<1>1. SaleInit => Book!Init
  BY BookInit DEF SaleInit
<1>2. SaleInv /\ [SaleNext]_saleVars => [Book!Transact]_(Book!vars)
  BY SaleStockStep, BookStep
<1> QED BY <1>1, <1>2, SaleInvariant, PTL DEF SaleSpec, ImplementsStockBook, Book!Spec
==============================================================================
