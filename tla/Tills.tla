-------------------------------- MODULE Tills --------------------------------
(***************************************************************************)
(* Register sessions and their cash:                                        *)
(* src/apps/api/src/modules/registers/routes.ts, with the cash side of      *)
(* sales, returns (sales/routes.ts) and order payments (orders/routes.ts).  *)
(*                                                                         *)
(* Every handler is a SERIALIZABLE transaction, one step.  The code knows   *)
(* the cash of a session only by the rows that refer to it; beside them the *)
(* model keeps where the cash really went, in a history: drawer[i] is the   *)
(* money in the drawer while session i was open (drawer[NoSession]: any     *)
(* other place), and each payment and refund remembers its drawer as "at".  *)
(*                                                                         *)
(* Money is whole cents.  Goods, prices and tenders other than cash are     *)
(* abstracted to their totals.                                              *)
(* Orders keep only what their cash needs: their other steps and rules are  *)
(* in module Orders.  Clocks agree: a sale made while a session was open    *)
(* has a time between its opening and its close.                            *)
(***************************************************************************)
EXTENDS Integers, Sequences, FiniteSetsExt, Functions

CONSTANTS Registers,    \* tills of one location
          Sessions,     \* register sessions
          NoSession,    \* the absence of a session
          SaleRefs,     \* sales and commercial orders
          Totals,       \* totals a sale may have
          Tenders,      \* what a customer may hand over: [cash, other]
          Floats,       \* opening floats
          MoveTypes,    \* types of cash movement: one puts money in, three take it out
          MoveAmounts,  \* amounts of cash movements
          MaxMoves,     \* bound: cash movements in all
          MaxRefunds    \* bound: refunds in all

ASSUME NoSessionAssumption == NoSession \notin Sessions
ASSUME SalesAssumption == IsFiniteSet(SaleRefs)
ASSUME MoveTypesAssumption ==
  MoveTypes \subseteq {"PAID_IN", "PAID_OUT", "CASH_DROP", "CASH_PICKUP"}
ASSUME CashAssumption ==
  /\ Totals \subseteq Nat \ {0} /\ MoveAmounts \subseteq Nat \ {0}
  /\ Tenders \subseteq [cash : Nat, other : Nat] /\ Floats \subseteq Nat
  /\ {MaxMoves, MaxRefunds} \subseteq Nat

VARIABLES session,  \* session[i]: the RegisterSession row
          moves,    \* moves[i]: its CashMovement rows
          offline,  \* offline[s]: a sale made offline, as its device will send it
          sale,     \* sale[s]: the Sale (or CommerceOrder), its payments and refunds
          drawer,   \* history: the money that is really there
          late      \* history: sessions that sales or refunds were added to after their close

tillVars == << session, moves, offline, sale, drawer, late >>

Places == Sessions \cup {NoSession}

NotOpened == [status |-> "NONE", register |-> NoSession, float |-> 0, expected |-> 0]

NotMade == [made |-> FALSE, register |-> NoSession, claim |-> NoSession, inTime |-> FALSE,
            at |-> NoSession, total |-> 0, paid |-> [cash |-> 0, other |-> 0]]

NoSale == [status |-> "NONE", session |-> NoSession, total |-> 0, change |-> 0,
           payments |-> << >>, refunds |-> << >>]

SessionRows ==
  [ status : {"NONE", "OPEN", "CLOSED"}, register : Registers \cup {NoSession},
    float : Floats \cup {0}, expected : Int ]

MoveRows == [ type : MoveTypes, amount : MoveAmounts ]

PaidRows == [ cash : Nat, other : Nat ]

OfflineSales ==
  [ made : BOOLEAN, register : Registers \cup {NoSession}, claim : Places, inTime : BOOLEAN,
    at : Places, total : Totals \cup {0}, paid : PaidRows ]

PaymentRows == [ session : Places, cash : Nat \ {0}, at : Places, deposit : BOOLEAN ]

RefundRows == [ amount : Nat \ {0}, cash : Nat, at : Places ]

SaleRows ==
  [ status : {"NONE", "ORDER", "COMPLETED", "PARTIALLY_REFUNDED", "REFUNDED"},
    session : Places, total : Totals \cup {0}, change : Nat,
    payments : Seq(PaymentRows), refunds : Seq(RefundRows) ]

TillTypeOK ==
  /\ session \in [Sessions -> SessionRows]
  /\ moves \in [Sessions -> Seq(MoveRows)]
  /\ offline \in [SaleRefs -> OfflineSales]
  /\ sale \in [SaleRefs -> SaleRows]
  /\ drawer \in [Places -> Int] /\ \A i \in Sessions : drawer[i] >= 0
  /\ late \subseteq Sessions

TillInit ==
  /\ session = [i \in Sessions |-> NotOpened]
  /\ moves = [i \in Sessions |-> << >>]
  /\ offline = [s \in SaleRefs |-> NotMade]
  /\ sale = [s \in SaleRefs |-> NoSale]
  /\ drawer = [p \in Places |-> 0]
  /\ late = {}

------------------------------------------------------------------------------

Open == { i \in Sessions : session[i].status = "OPEN" }

OpenAt(r) == { i \in Open : session[i].register = r }

CashOf(rows) == SumFunction([n \in DOMAIN rows |-> rows[n].cash])

\* Of the payments of a sale, the cash that refers to session i.
CashTo(i, payments) ==
  SumFunction([n \in DOMAIN payments |->
                IF payments[n].session = i THEN payments[n].cash ELSE 0])

\* All cash payments that refer to the session, of sales and of orders.
CashPaid(i) == SumFunction([s \in SaleRefs |-> CashTo(i, sale[s].payments)])

\* A sale of the session that was paid in cash, at least in part.
IsCashSale(i, row) ==
  row.session = i /\ \E n \in DOMAIN row.payments : row.payments[n].session = i

ChangeGiven(i) ==
  SumFunction([s \in SaleRefs |-> IF IsCashSale(i, sale[s]) THEN sale[s].change ELSE 0])

\* The cash refunds of the session's sales, whichever till paid them.
CashRefunded(i) ==
  SumFunction([s \in SaleRefs |-> IF sale[s].session = i THEN CashOf(sale[s].refunds) ELSE 0])

MoveEffect(m) == IF m.type = "PAID_IN" THEN m.amount ELSE -m.amount

Moved(rows) == SumFunction([n \in DOMAIN rows |-> MoveEffect(rows[n])])

\* calculateExpectedCash, over what expectedCash collects.
Expected(i) ==
  session[i].float + CashPaid(i) - ChangeGiven(i) - CashRefunded(i) + Moved(moves[i])

\* Mutant: the opening of a register does not look for another session.
MayOpen_Twice(r) == TRUE

MayOpen(r) == OpenAt(r) = {}

OpenSession(i, r, float) ==
  /\ session[i].status = "NONE"
  /\ MayOpen(r)
  /\ session' = [session EXCEPT ![i] =
       [status |-> "OPEN", register |-> r, float |-> float, expected |-> 0]]
  /\ drawer' = [drawer EXCEPT ![i] = float]
  /\ UNCHANGED << moves, offline, sale, late >>

\* Money is put into a drawer or taken out; a drawer cannot give what it does not hold.
Put(at, amount) ==
  /\ at \in Sessions => drawer[at] + amount >= 0
  /\ drawer' = [drawer EXCEPT ![at] = @ + amount]

MoveCash(i, move) ==
  /\ i \in Open
  /\ SumFunction([j \in Sessions |-> Len(moves[j])]) < MaxMoves
  /\ moves' = [moves EXCEPT ![i] = Append(@, move)]
  /\ Put(i, MoveEffect(move))
  /\ UNCHANGED << session, offline, sale, late >>

\* What should be in the drawer is computed once, here, and stored.
CloseSession(i) ==
  /\ i \in Open
  /\ session' = [session EXCEPT ![i].status = "CLOSED", ![i].expected = Expected(i)]
  /\ UNCHANGED << moves, offline, sale, drawer, late >>

------------------------------------------------------------------------------

\* A row that counts for session i is added, open or not.
Attach(i) == late' = late \cup ({i} \cap (Sessions \ Open))

\* Mutant: the payments are not compared with the total.
MayPay_Short(total, paid) == paid.cash + paid.other > total => paid.cash > 0

\* The payments cover the total; change is given only if some of them is cash.
MayPay(total, paid) ==
  /\ paid.cash + paid.other >= total
  /\ paid.cash + paid.other > total => paid.cash > 0

CashRow(i, cash, at, deposit) ==
  IF cash = 0 THEN << >>
  ELSE << [session |-> i, cash |-> cash, at |-> at, deposit |-> deposit] >>

Booked(i, total, paid, at) ==
  [NoSale EXCEPT !.status = "COMPLETED", !.session = i, !.total = total,
                 !.change = paid.cash + paid.other - total,
                 !.payments = CashRow(i, paid.cash, at, FALSE)]

\* POST /v1/sales at a register: the sale is booked to the session that is open there.
SaleAtTill(s, r, total, paid) ==
  /\ sale[s].status = "NONE" /\ ~offline[s].made
  /\ MayPay(total, paid)
  /\ \E at, i \in OpenAt(r) :
       /\ sale' = [sale EXCEPT ![s] = Booked(i, total, paid, at)]
       /\ Put(at, total - paid.other)
  /\ UNCHANGED << session, moves, offline, late >>

\* POST /v1/sales without a register.
SaleWithoutTill(s, total, paid) ==
  /\ sale[s].status = "NONE" /\ ~offline[s].made
  /\ MayPay(total, paid)
  /\ sale' = [sale EXCEPT ![s] = Booked(NoSession, total, paid, NoSession)]
  /\ Put(NoSession, total - paid.other)
  /\ UNCHANGED << session, moves, offline, late >>

\* A device that is offline sells at register r.  The session it will name is the one
\* it knows of, which may have been closed by somebody else since, or none.
SellOffline(s, r, claim, total, paid) ==
  /\ sale[s].status = "NONE" /\ ~offline[s].made
  /\ MayPay(total, paid)
  /\ claim \in Sessions => session[claim].register = r
  /\ \E at \in IF OpenAt(r) = {} THEN {NoSession} ELSE OpenAt(r) :
       /\ offline' = [offline EXCEPT ![s] =
            [made |-> TRUE, register |-> r, claim |-> claim, inTime |-> claim \in Open, at |-> at,
             total |-> total, paid |-> paid]]
       /\ Put(at, total - paid.other)
  /\ UNCHANGED << session, moves, sale, late >>

\* Mutant: the session that a sale names is ignored.
SessionsFor_Current(o) == OpenAt(o.register)

\* The session it names, if the sale was made between its opening and its close, open
\* or not by now; without a name, the session that is open now.
SessionsFor(o) ==
  IF o.claim \in Sessions THEN { i \in {o.claim} : o.inTime } ELSE OpenAt(o.register)

\* POST /v1/sales for an offline sale.
BookOffline(s) ==
  LET o == offline[s] IN
  /\ o.made /\ sale[s].status = "NONE"
  /\ \E i \in SessionsFor(o) :
       /\ sale' = [sale EXCEPT ![s] = Booked(i, o.total, o.paid, o.at)]
       /\ Attach(i)
  /\ UNCHANGED << session, moves, offline, drawer >>

------------------------------------------------------------------------------

\* POST /v1/orders.
CreateOrder(s, total) ==
  /\ sale[s].status = "NONE" /\ ~offline[s].made
  /\ sale' = [sale EXCEPT ![s] = [NoSale EXCEPT !.status = "ORDER", !.total = total]]
  /\ UNCHANGED << session, moves, offline, drawer, late >>

Deposited(s) == CashOf(sale[s].payments)

\* Mutant: a payment may be booked to a session that was closed.
MayDeposit_Closed(i) == i \in Sessions => session[i].status # "NONE"

\* A payment may name a session, which must be open.
MayDeposit(i) == i \in Sessions => i \in Open

\* POST /v1/orders/:id/payments, in cash.  A till names its session, or one that was
\* closed since it looked, or none.
PayOrder(s, i, at, cash) ==
  /\ sale[s].status = "ORDER"
  /\ Deposited(s) + cash <= sale[s].total
  /\ MayDeposit(i)
  /\ at \in Open \cup {NoSession} /\ (i \in Open => i = at)
  /\ sale' = [sale EXCEPT ![s].payments = @ \o CashRow(i, cash, at, TRUE)]
  /\ Put(at, cash)
  /\ UNCHANGED << session, moves, offline, late >>

\* POST /v1/orders/:id/complete: the payments move to a sale without a session.
CompleteOrder(s) ==
  /\ sale[s].status = "ORDER"
  /\ sale' = [sale EXCEPT ![s].status = "COMPLETED"]
  /\ UNCHANGED << session, moves, offline, drawer, late >>

Refunded(s) ==
  SumFunction([n \in DOMAIN sale[s].refunds |-> sale[s].refunds[n].amount])

\* POST /v1/sales/:id/returns: amount is refunded, of it some in cash, from any drawer.
RefundSale(s, amount, cash, at) ==
  /\ sale[s].status \in {"COMPLETED", "PARTIALLY_REFUNDED"}
  /\ cash <= amount /\ Refunded(s) + amount <= sale[s].total
  /\ SumFunction([t \in SaleRefs |-> Len(sale[t].refunds)]) < MaxRefunds
  /\ at \in Open \cup {NoSession}
  /\ sale' = [sale EXCEPT
       ![s].refunds = Append(@, [amount |-> amount, cash |-> cash, at |-> at]),
       ![s].status = IF Refunded(s) + amount = sale[s].total
                     THEN "REFUNDED" ELSE "PARTIALLY_REFUNDED"]
  /\ Put(at, -cash)
  /\ Attach(sale[s].session)
  /\ UNCHANGED << session, moves, offline >>

SessionStep(i) ==
  \/ \E r \in Registers, float \in Floats : OpenSession(i, r, float)
  \/ \E type \in MoveTypes, amount \in MoveAmounts :
       MoveCash(i, [type |-> type, amount |-> amount])
  \/ CloseSession(i)

SaleStep(s) ==
  \/ \E total \in Totals, paid \in Tenders :
       \/ \E r \in Registers : SaleAtTill(s, r, total, paid)
       \/ SaleWithoutTill(s, total, paid)
       \/ \E r \in Registers, claim \in Places : SellOffline(s, r, claim, total, paid)
  \/ BookOffline(s)
  \/ \E total \in Totals : CreateOrder(s, total)
  \/ \E i, at \in Places, cash \in 1..sale[s].total : PayOrder(s, i, at, cash)
  \/ CompleteOrder(s)
  \/ \E amount \in 1..sale[s].total, cash \in 0..sale[s].total, at \in Places :
       RefundSale(s, amount, cash, at)

TillNext == (\E i \in Sessions : SessionStep(i)) \/ (\E s \in SaleRefs : SaleStep(s))

TillSpec == TillInit /\ [][TillNext]_tillVars

------------------------------------------------------------------------------

\* The tills did their part for session i: an offline sale of its drawer named it and
\* has been booked, no nameless one was booked to it, an order payment into its drawer
\* named it, and refunds in cash came from the drawer of the sale's session.
IsTidy(i) ==
  \A s \in SaleRefs :
    /\ offline[s].made /\ offline[s].at = i =>
         offline[s].claim = i /\ sale[s].status # "NONE"
    /\ offline[s].made /\ offline[s].claim = NoSession => sale[s].session # i
    /\ \A n \in DOMAIN sale[s].payments :
         LET p == sale[s].payments[n] IN p.deposit /\ p.at = i => p.session = i
    /\ \A n \in DOMAIN sale[s].refunds :
         LET f == sale[s].refunds[n] IN f.cash > 0 => (f.at = i <=> sale[s].session = i)

\* The expected cash of a session is what its drawer holds, over every mix of sales
\* with change, split tenders, order payments, refunds, movements and offline sales,
\* late ones too, as long as the tills named the session they put the money in.
ExpectedFollowsDrawer == \A i \in Sessions : IsTidy(i) => Expected(i) = drawer[i]

\* What was stored at the close still is the expected cash of the session, unless a
\* sale or a refund was added to it since: payments and movements never are.
RecordedIsExpected ==
  \A i \in Sessions :
    session[i].status = "CLOSED" /\ i \notin late => session[i].expected = Expected(i)
==============================================================================
