-------------------------------- MODULE Sales --------------------------------
(***************************************************************************)
(* Sales and returns, their stock, their FIFO cost and their refunds:       *)
(* src/apps/api/src/modules/sales/routes.ts.                                *)
(*                                                                         *)
(* Both handlers are SERIALIZABLE transactions, one step each.  A request   *)
(* to book a sale carries the client reference its device gave it; the      *)
(* device may send it again, so a request once sent may arrive any number   *)
(* of times, in any order with the other requests.                          *)
(*                                                                         *)
(* A sale has at most one line per stock item.  Prices, promotions, tax and *)
(* tenders are abstracted to the total of each line, in cents; lots, serial *)
(* numbers, registers and commissions are left out.                         *)
(***************************************************************************)
EXTENDS CostedStock

CONSTANTS LineTotals,  \* totals a sale line may have, in cents
          BaseCost,    \* every variant's fallback unit cost
          MaxReturnLines \* bound: lines of one return

ASSUME LineTotalsAssumption == LineTotals \subseteq Nat
ASSUME BaseCostAssumption == BaseCost \in Nat
ASSUME MaxReturnLinesAssumption == MaxReturnLines \in Nat

VARIABLES request,     \* request[s]: the request sent with reference s
          sale,        \* sale[s]: the Sale row with reference s and its lines
          returns,     \* returns[s]: its SaleReturn documents, each a sequence of lines
          posted       \* posted[s][k]: sum of deltaQty over k's ledger rows that refer
                       \* to a sale of reference s or to a return of it

documentVars == << request, sale, returns, posted >>
saleVars == << balance, ledger, exceptions, synced, layers, gained, lost,
               request, sale, returns, posted >>

NoRequest == [ sent |-> FALSE, offline |-> FALSE, qty |-> Nothing, lineTotal |-> Nothing ]

NoSale == [ status |-> "NONE", qty |-> Nothing, lineTotal |-> Nothing, unitCost |-> Nothing ]

SaleRows == [ status : {"NONE", "COMPLETED", "PARTIALLY_REFUNDED", "REFUNDED"},
              qty : [Keys -> Nat], lineTotal : [Keys -> Nat], unitCost : [Keys -> Nat] ]

ReturnLines == [ item : Keys, qty : Nat \ {0}, restock : BOOLEAN, amount : Nat ]

SaleTypeOK ==
  /\ StockTypeOK
  /\ CostTypeOK
  /\ request \in [SaleRefs -> [ sent : BOOLEAN, offline : BOOLEAN,
                                qty : [Keys -> Nat], lineTotal : [Keys -> Nat] ]]
  /\ sale \in [SaleRefs -> SaleRows]
  /\ returns \in [SaleRefs -> Seq(Seq(ReturnLines))]
  /\ posted \in [SaleRefs -> [Keys -> Int]]

\* The opening stock was receipted at the fallback cost.
SaleInit ==
  /\ StockInit
  /\ request = [s \in SaleRefs |-> NoRequest]
  /\ sale = [s \in SaleRefs |-> NoSale]
  /\ returns = [s \in SaleRefs |-> << >>]
  /\ layers = [k \in Keys |-> IF balance[k].onHand = 0 THEN << >>
                              ELSE << Layer(balance[k].onHand, BaseCost) >>]
  /\ NothingAdjusted
  /\ posted = [s \in SaleRefs |-> Nothing]

------------------------------------------------------------------------------

\* A device makes a sale, offline or not, and asks for it to be booked.
SendRequest(s, offline, qty, lineTotal) ==
  /\ ~request[s].sent
  /\ \A k \in Keys : lineTotal[k] \in IF qty[k] > 0 THEN LineTotals ELSE {0}
  /\ request' = [request EXCEPT ![s] =
       [sent |-> TRUE, offline |-> offline, qty |-> qty, lineTotal |-> lineTotal]]
  /\ UNCHANGED << stockVars, costVars, sale, returns, posted >>

\* Mutant: a replayed reference is not looked up.
Unbooked_Ignored(s) == TRUE

\* A request whose reference has a Sale row is answered with that row.
Unbooked(s) == sale[s].status = "NONE"

\* POST /v1/sales: an offline sale is booked whatever the stock.
BookSale(s) ==
  LET qty == request[s].qty IN
  /\ request[s].sent
  /\ Unbooked(s)
  /\ IF request[s].offline THEN SyncOfflineSale(s, qty) ELSE PostDocument("SALE", qty)
  /\ posted' = [posted EXCEPT ![s] = BookedAll(@, "SALE", qty)]
  /\ layers' = [k \in Keys |-> Consumed(layers[k], qty[k])]
  /\ sale' = [sale EXCEPT ![s] =
       [status |-> "COMPLETED", qty |-> qty, lineTotal |-> request[s].lineTotal,
        unitCost |-> [k \in Keys |->
          IF qty[k] > 0 THEN UnitCost(layers[k], qty[k], BaseCost) ELSE 0]]]
  /\ UNCHANGED << request, returns, gained, lost >>

------------------------------------------------------------------------------

\* What a return document takes back of an item: all of it, and what of it goes back
\* to the shelf.
QtyIn(doc, k) == SumFunction([i \in DOMAIN doc |-> IF doc[i].item = k THEN doc[i].qty ELSE 0])

RestockedLines(doc, k) ==
  [i \in DOMAIN doc |-> IF doc[i].item = k /\ doc[i].restock THEN doc[i].qty ELSE 0]

Restocked(doc) == [k \in Keys |-> SumFunction(RestockedLines(doc, k))]

\* The sum over the documents that the handler asks the database for.
ReturnedIn(docs, k) == SumFunction([d \in DOMAIN docs |-> QtyIn(docs[d], k)])

\* Mutant: what was returned earlier is not counted.
MayReturn_IgnoresPrior(s, k, qty) == sale[s].qty[k] > 0 /\ qty <= sale[s].qty[k]

\* The check of one line of a return, against the documents before it.
MayReturn(s, k, qty) ==
  /\ sale[s].qty[k] > 0
  /\ ReturnedIn(returns[s], k) + qty <= sale[s].qty[k]

\* Mutant: every return of a line refunds its whole total.
Amount_WholeLine(s, k, qty) == sale[s].lineTotal[k]

\* The share of the line's total, rounded half up to the cent.
Amount(s, k, qty) ==
  (2 * sale[s].lineTotal[k] * qty + sale[s].qty[k]) \div (2 * sale[s].qty[k])

\* Mutant: one line returned in full refunds the sale.
StatusAfter_AnyLine(s, docs) ==
  IF \E k \in Keys : sale[s].qty[k] > 0 /\ ReturnedIn(docs, k) >= sale[s].qty[k]
  THEN "REFUNDED" ELSE "PARTIALLY_REFUNDED"

StatusAfter(s, docs) ==
  IF \A k \in Keys : ReturnedIn(docs, k) >= sale[s].qty[k]
  THEN "REFUNDED" ELSE "PARTIALLY_REFUNDED"

\* Mutant: goods that are not restocked open a cost layer too.
ReturnedLayers_Unrestocked(s, doc, k) ==
  Opened(layers[k], [i \in DOMAIN doc |-> IF doc[i].item = k THEN doc[i].qty ELSE 0],
         [i \in DOMAIN doc |-> sale[s].unitCost[k]])

\* Each restocked line opens a layer at the cost its goods were sold at.
ReturnedLayers(s, doc, k) ==
  Opened(layers[k], RestockedLines(doc, k), [i \in DOMAIN doc |-> sale[s].unitCost[k]])

\* POST /v1/sales/:id/returns: asked is a sequence of [item, qty, restock].
ReturnGoods(s, asked) ==
  LET doc == [i \in DOMAIN asked |->
                [item |-> asked[i].item, qty |-> asked[i].qty, restock |-> asked[i].restock,
                 amount |-> Amount(s, asked[i].item, asked[i].qty)]]
      docs == Append(returns[s], doc)
      back == Restocked(doc)
  IN
  /\ sale[s].status \in {"COMPLETED", "PARTIALLY_REFUNDED"}
  /\ \A i \in DOMAIN asked : MayReturn(s, asked[i].item, asked[i].qty)
  /\ PostDocument("SALE_RETURN", back)
  /\ posted' = [posted EXCEPT ![s] = BookedAll(@, "SALE_RETURN", back)]
  /\ layers' = [k \in Keys |-> ReturnedLayers(s, doc, k)]
  /\ returns' = [returns EXCEPT ![s] = docs]
  /\ sale' = [sale EXCEPT ![s].status = StatusAfter(s, docs)]
  /\ UNCHANGED << request, gained, lost >>

Asked == [ item : Keys, qty : Quantities, restock : BOOLEAN ]

SaleStep(s) ==
  \/ \E offline \in BOOLEAN, qty \in Lines, lineTotal \in [Keys -> LineTotals \cup {0}] :
       SendRequest(s, offline, qty, lineTotal)
  \/ BookSale(s)
  \/ \E n \in 1..MaxReturnLines : \E asked \in [1..n -> Asked] : ReturnGoods(s, asked)

SaleNext ==
  \/ OthersTrade /\ UNCHANGED documentVars
  \/ \E s \in SaleRefs : SaleStep(s)

SaleSpec == SaleInit /\ [][SaleNext]_saleVars

------------------------------------------------------------------------------

\* A reference is booked once, however often its request arrives, and what the
\* ledger holds for it is what was sold less what came back to the shelf.  (All values
\* have their types.)
LedgerTellsSale ==
  /\ SaleTypeOK
  /\ \A s \in SaleRefs, k \in Keys :
       posted[s][k] =
         SumFunction([d \in DOMAIN returns[s] |-> Restocked(returns[s][d])[k]]) - sale[s].qty[k]

\* No return document of the sale lists an item twice.
NoRepeatedLine(s) ==
  \A d \in DOMAIN returns[s] : \A i, j \in DOMAIN returns[s][d] :
    i # j => returns[s][d][i].item # returns[s][d][j].item

\* Over any number of returns, no more of a line comes back than was sold, as long
\* as no document lists the line twice; and the sale is refunded exactly when all of it
\* came back, partly refunded exactly when some of it did.
ReturnsWithinSale ==
  \A s \in SaleRefs :
    LET back(k) == ReturnedIn(returns[s], k) IN
    /\ NoRepeatedLine(s) => \A k \in Keys : back(k) <= sale[s].qty[k]
    /\ sale[s].status = "REFUNDED" <=>
         returns[s] # << >> /\ \A k \in Keys : back(k) >= sale[s].qty[k]
    /\ sale[s].status = "PARTIALLY_REFUNDED" <=>
         returns[s] # << >> /\ \E k \in Keys : back(k) < sale[s].qty[k]

\* What the return documents refunded for an item, and on how many lines.
RefundsIn(doc, k) == SumFunction([i \in DOMAIN doc |-> IF doc[i].item = k THEN doc[i].amount ELSE 0])

LinesIn(doc, k) == SumFunction([i \in DOMAIN doc |-> IF doc[i].item = k THEN 1 ELSE 0])

\* The refunds of a line are its total's share of what came back, up to half a
\* cent for every line of a return: splitting a return gains at most the rounding.
RefundsFollowReturns ==
  \A s \in SaleRefs, k \in Keys :
    LET docs == returns[s]
        refunded == SumFunction([d \in DOMAIN docs |-> RefundsIn(docs[d], k)])
        slack == sale[s].qty[k] * SumFunction([d \in DOMAIN docs |-> LinesIn(docs[d], k)])
    IN  2 * (sale[s].qty[k] * refunded - sale[s].lineTotal[k] * ReturnedIn(docs, k))
          \in -slack..slack

\* No more of a line comes back than was sold ('Return quantity exceeds quantity
\* originally sold' otherwise), whatever the documents list.
NeverReturnsMoreThanSold ==
  \A s \in SaleRefs, k \in Keys : ReturnedIn(returns[s], k) <= sale[s].qty[k]
==============================================================================
