-------------------------------- MODULE Orders --------------------------------
(***************************************************************************)
(* Commercial orders (quotes, orders, layaways, invoices) and the stock     *)
(* they reserve: src/apps/api/src/modules/orders/routes.ts.                 *)
(*                                                                         *)
(* Accept, pay, complete and cancel are SERIALIZABLE transactions, one step *)
(* each.  Sending is not: it reads the draft and later writes its status,   *)
(* without a transaction, and any other request may run in between; sends   *)
(* between their read and their write are counted, so two of one order are  *)
(* two.  The rest of the shop (receipts, counter sales, adjustments,        *)
(* offline sales) works on the same stock.                                  *)
(*                                                                         *)
(* Left out: prices (an order has some total), customers, and the internal  *)
(* tenders a payment may debit.                                             *)
(***************************************************************************)
EXTENDS Inventory, Sequences, FiniteSets, Functions

CONSTANTS Orders,      \* order ids
          Totals,      \* totals an order may have
          Amounts,     \* amounts a payment may have
          MaxSending   \* bound: sends of one order in flight at a time

ASSUME OrdersAssumption == IsFiniteSet(Orders)
ASSUME TotalsAssumption == Totals \subseteq Nat
ASSUME AmountsAssumption == Amounts \subseteq Nat \ {0}
ASSUME MaxSendingAssumption == MaxSending \in Nat

VARIABLES order,       \* order[o]: the CommerceOrder row and its lines
          hold,        \* hold[o][k]: quantity on o's ACTIVE InventoryReservation rows
          unsold,      \* unsold[o]: Payment rows that point at the order
          sales,       \* sales[o]: the Sale rows its completion created
          sending,     \* sending[o]: sends of o between their read and their write
          overtaken    \* history: orders a send wrote to after they had moved on

orderVars == << order, hold, unsold, sales, sending, overtaken >>
vars == << balance, ledger, exceptions, synced,
           order, hold, unsold, sales, sending, overtaken >>

Statuses == { "NONE", "DRAFT", "SENT", "ACCEPTED", "PARTIALLY_PAID", "PAID",
              "COMPLETED", "CANCELLED" }

\* Statuses an order can be completed from; FULFILLING is never assigned.
Completable == { "ACCEPTED", "PARTIALLY_PAID", "PAID" }

OrderRows == [ status : Statuses, layaway : BOOLEAN, total : Nat, paid : Nat,
               lines : [Keys -> Nat], reservedQty : [Keys -> Nat] ]

NoOrder == [ status |-> "NONE", layaway |-> FALSE, total |-> 0, paid |-> 0,
             lines |-> Nothing, reservedQty |-> Nothing ]

TypeOK ==
  /\ StockTypeOK
  /\ order \in [Orders -> OrderRows]
  /\ hold \in [Orders -> [Keys -> Nat]]
  /\ unsold \in [Orders -> Nat]
  /\ sales \in [Orders -> Seq([paid : Nat, received : Nat])]
  /\ sending \in [Orders -> Nat]
  /\ overtaken \subseteq Orders

Init ==
  /\ StockInit
  /\ order = [o \in Orders |-> NoOrder]
  /\ hold = [o \in Orders |-> Nothing]
  /\ unsold = [o \in Orders |-> 0]
  /\ sales = [o \in Orders |-> << >>]
  /\ sending = [o \in Orders |-> 0]
  /\ overtaken = {}

------------------------------------------------------------------------------

\* POST /v1/orders
Create(o, lines, total, layaway) ==
  /\ order[o].status = "NONE"
  /\ order' = [order EXCEPT ![o] =
                 [NoOrder EXCEPT !.status = "DRAFT", !.layaway = layaway,
                                 !.total = total, !.lines = lines]]
  /\ UNCHANGED << stockVars, hold, unsold, sales, sending, overtaken >>

\* POST /v1/orders/:id/send, its read: the order is a draft.
ReadForSend(o) ==
  /\ order[o].status = "DRAFT"
  /\ sending[o] < MaxSending
  /\ sending' = [sending EXCEPT ![o] = @ + 1]
  /\ UNCHANGED << stockVars, order, hold, unsold, sales, overtaken >>

\* Its write: the status becomes SENT whatever it is by now.
WriteSent(o) ==
  /\ sending[o] > 0
  /\ sending' = [sending EXCEPT ![o] = @ - 1]
  /\ order' = [order EXCEPT ![o].status = "SENT"]
  /\ overtaken' = IF order[o].status \in {"DRAFT", "SENT"} THEN overtaken
                                                          ELSE overtaken \cup {o}
  /\ UNCHANGED << stockVars, hold, unsold, sales >>

\* POST /v1/orders/:id/accept
Accept(o) ==
  /\ order[o].status \in {"DRAFT", "SENT"}
  /\ Post("RESERVATION", order[o].lines)
  /\ hold' = [hold EXCEPT ![o] = [k \in Keys |-> @[k] + order[o].lines[k]]]
  /\ order' = [order EXCEPT ![o].status = "ACCEPTED",
                            ![o].reservedQty = order[o].lines]
  /\ UNCHANGED << exceptions, synced, unsold, sales, sending, overtaken >>

\* Mutant: a completed order still takes payments.
Pay_AfterCompletion(o, amount) ==
  /\ order[o].status \notin {"NONE", "CANCELLED"}
  /\ order[o].paid + amount <= order[o].total
  /\ unsold' = [unsold EXCEPT ![o] = @ + amount]
  /\ order' = [order EXCEPT
                 ![o].paid = @ + amount,
                 ![o].status = IF order[o].paid + amount >= order[o].total
                               THEN "PAID" ELSE "PARTIALLY_PAID"]
  /\ UNCHANGED << stockVars, hold, sales, sending, overtaken >>

\* POST /v1/orders/:id/payments: also before the order is accepted.
Pay(o, amount) ==
  /\ order[o].status \notin {"NONE", "CANCELLED", "COMPLETED"}
  /\ order[o].paid + amount <= order[o].total
  /\ unsold' = [unsold EXCEPT ![o] = @ + amount]
  /\ order' = [order EXCEPT
                 ![o].paid = @ + amount,
                 ![o].status = IF order[o].paid + amount >= order[o].total
                               THEN "PAID" ELSE "PARTIALLY_PAID"]
  /\ UNCHANGED << stockVars, hold, sales, sending, overtaken >>

\* releaseReservations: what the lines say was reserved goes back, and every
\* active reservation row of the order is closed.
CanRelease(o) ==
  CanPostAll(balance, "RESERVATION_RELEASE", order[o].reservedQty, FALSE)
\* Mutant: the ledger rows are written, the balance is not.
ReleasedBalance_Unreleased(o) == balance
ReleasedBalance(o) == PostedAll(balance, "RESERVATION_RELEASE", order[o].reservedQty)
ReleasedLedger(o) == BookedAll(ledger, "RESERVATION_RELEASE", order[o].reservedQty)
\* Mutant: the reservation rows are reduced by what the lines say was reserved.
CloseHold_Decrement(o) ==
  hold' = [hold EXCEPT ![o] = [k \in Keys |-> @[k] - order[o].reservedQty[k]]]
CloseHold(o) == hold' = [hold EXCEPT ![o] = Nothing]

\* POST /v1/orders/:id/complete
Complete(o) ==
  /\ order[o].status \in Completable
  /\ order[o].layaway => order[o].paid >= order[o].total
  /\ CanRelease(o)
  /\ CanPostAll(ReleasedBalance(o), "SALE", order[o].lines, FALSE)
  /\ balance' = PostedAll(ReleasedBalance(o), "SALE", order[o].lines)
  /\ ledger' = BookedAll(ReleasedLedger(o), "SALE", order[o].lines)
  /\ CloseHold(o)
  /\ sales' = [sales EXCEPT ![o] =
                 Append(@, [paid |-> order[o].paid, received |-> unsold[o]])]
  /\ unsold' = [unsold EXCEPT ![o] = 0]
  /\ order' = [order EXCEPT ![o].status = "COMPLETED"]
  /\ UNCHANGED << exceptions, synced, sending, overtaken >>

\* Mutant: an order that has taken payments may be cancelled.
Cancel_Paid(o) ==
  /\ order[o].status \notin {"NONE", "CANCELLED", "COMPLETED"}
  /\ CanRelease(o)
  /\ balance' = ReleasedBalance(o)
  /\ ledger' = ReleasedLedger(o)
  /\ CloseHold(o)
  /\ order' = [order EXCEPT ![o].status = "CANCELLED"]
  /\ UNCHANGED << exceptions, synced, unsold, sales, sending, overtaken >>

\* POST /v1/orders/:id/cancel
Cancel(o) ==
  /\ order[o].status \notin {"NONE", "CANCELLED", "COMPLETED"}
  /\ order[o].paid = 0
  /\ CanRelease(o)
  /\ balance' = ReleasedBalance(o)
  /\ ledger' = ReleasedLedger(o)
  /\ CloseHold(o)
  /\ order' = [order EXCEPT ![o].status = "CANCELLED"]
  /\ UNCHANGED << exceptions, synced, unsold, sales, sending, overtaken >>

\* The rest of the shop: receipts and counter sales, losses, offline sales.
ShopTrades ==
  /\ \/ \E type \in {"PURCHASE_RECEIPT", "SALE"}, lines \in Lines :
          PostDocument(type, lines)
     \/ \E k \in Keys, type \in {"ADJUSTMENT_LOSS", "DAMAGE"}, qty \in Quantities :
          Adjust(k, type, qty)
     \/ \E s \in SaleRefs, lines \in Lines : SyncOfflineSale(s, lines)
  /\ UNCHANGED orderVars

OrderStep(o) ==
  \/ \E lines \in Lines, total \in Totals, layaway \in BOOLEAN :
       Create(o, lines, total, layaway)
  \/ ReadForSend(o)
  \/ WriteSent(o)
  \/ Accept(o)
  \/ \E amount \in Amounts : Pay(o, amount)
  \/ Complete(o)
  \/ Cancel(o)

Next == ShopTrades \/ \E o \in Orders : OrderStep(o)

Spec == Init /\ [][Next]_vars

------------------------------------------------------------------------------

HeldOf(k) == SumFunction([o \in Orders |-> hold[o][k]])

\* What the balances call reserved is what the active reservation rows hold:
\* no sequence of accepts, completions and cancellations leaks a reservation
\* or gives one back twice.  An order overtaken by its own send breaks this,
\* for itself and for the orders that share its items.
ReservedIsHeld ==
  overtaken = {} => \A k \in Keys : balance[k].reserved = HeldOf(k)

\* An accepted order can be delivered: while its lines are held and no offline
\* oversell of its items is on record, the release and the sale that
\* completion posts are both accepted, whatever the rest of the shop sold,
\* lost or reserved meanwhile.
HeldOrderIsDeliverable ==
  \A o \in Orders :
    /\ overtaken = {}
    /\ order[o].status \in Completable
    /\ hold[o] = order[o].lines
    /\ \A k \in Keys : order[o].lines[k] > 0 => ShortfallsOf(k) = {}
    => /\ CanRelease(o)
       /\ CanPostAll(ReleasedBalance(o), "SALE", order[o].lines, FALSE)

\* Money is never stranded or counted twice: a cancelled order holds no payment, no
\* order takes more than its total, a layaway's sale is paid in full; and unless its
\* send was overtaken, only a completed order has a sale, one, and that sale has
\* received exactly the payments it counts.
MoneyIsSafe ==
  /\ \A o \in Orders :
       /\ order[o].status = "CANCELLED" => unsold[o] = 0
       /\ order[o].paid <= order[o].total
       /\ order[o].layaway =>
            \A i \in DOMAIN sales[o] : sales[o][i].paid = order[o].total
  /\ \A o \in Orders \ overtaken :
       /\ Len(sales[o]) = IF order[o].status = "COMPLETED" THEN 1 ELSE 0
       /\ \A i \in DOMAIN sales[o] : sales[o][i].paid = sales[o][i].received
==============================================================================
