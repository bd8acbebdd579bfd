------------------------------ MODULE Inventory ------------------------------
(***************************************************************************)
(* The stock of a tenant: the cached balances, the ledger and the oversell  *)
(* exceptions, under every way the code changes them.                       *)
(*                                                                         *)
(* Every caller posts inside a SERIALIZABLE transaction that is retried on  *)
(* a write conflict (src/apps/api/src/lib/transactions.ts), so a posting    *)
(* and the checks before it are one atomic step.  Orders, Transfers and     *)
(* StockCounts extend this module with their documents; here a caller is    *)
(* any of them.                                                             *)
(***************************************************************************)
EXTENDS Movements

CONSTANTS Keys,        \* stock items: an active, stock-tracked variant at a location
          SaleRefs,    \* client references of offline sales
          Quantities,  \* quantities a request may ask for
          OpeningStock,\* sellable stock an item may start with
          MaxOnHand    \* bound: no inflow takes an item above it

ASSUME QuantitiesAssumption == Quantities \subseteq Nat \ {0}
ASSUME OpeningStockAssumption == OpeningStock \subseteq Nat
ASSUME MaxOnHandAssumption == MaxOnHand \in Nat

VARIABLES balance,     \* InventoryBalance rows
          ledger,      \* ledger[k]: sum of deltaQty over k's InventoryLedger rows
          exceptions,  \* InventoryException rows of type OFFLINE_OVERSELL
          synced       \* client references that have a Sale row

stockVars == << balance, ledger, exceptions, synced >>

Nothing == [k \in Keys |-> 0]

\* Lines of a document: a quantity for some of the items, 0 for the others.
Lines == [Keys -> Quantities \cup {0}] \ {Nothing}

Exceptions == [ sale : SaleRefs, item : Keys, short : Nat, open : BOOLEAN ]

StockTypeOK ==
  /\ balance \in [Keys -> Balances]
  /\ ledger \in [Keys -> Int]
  /\ exceptions \subseteq Exceptions
  /\ synced \subseteq SaleRefs

\* The opening stock has been receipted: it is in the ledger too.
StockInit ==
  /\ \E opening \in [Keys -> OpeningStock] :
       /\ balance = [k \in Keys |-> Stocked(opening[k])]
       /\ ledger = opening
  /\ exceptions = {}
  /\ synced = {}

\* No inflow above the bound.
Room(type, lines) ==
  type \in {"PURCHASE_RECEIPT", "SALE_RETURN", "TRANSFER_IN", "ADJUSTMENT_GAIN"}
    => \A k \in Keys : lines[k] > 0 => balance[k].onHand + lines[k] <= MaxOnHand

------------------------------------------------------------------------------

\* A document's movements of one type, posted for all its lines or for none.
Post(type, lines) ==
  /\ Room(type, lines)
  /\ CanPostAll(balance, type, lines, FALSE)
  /\ balance' = PostedAll(balance, type, lines)
  /\ ledger' = BookedAll(ledger, type, lines)

\* POST /v1/inventory/adjustments: one movement of a manual type.
Adjust(k, type, qty) ==
  /\ type \in { "ADJUSTMENT_GAIN", "ADJUSTMENT_LOSS", "DAMAGE", "EXPIRY",
                "QUARANTINE_IN", "QUARANTINE_RELEASE" }
  /\ Post(type, [i \in Keys |-> IF i = k THEN qty ELSE 0])
  /\ UNCHANGED << exceptions, synced >>

\* The stock side of the other documents: receipts, online sales, returns,
\* transfers, reservations.
PostDocument(type, lines) ==
  /\ type \in { "PURCHASE_RECEIPT", "SALE", "SALE_RETURN", "TRANSFER_OUT",
                "TRANSFER_IN", "RESERVATION", "RESERVATION_RELEASE" }
  /\ Post(type, lines)
  /\ UNCHANGED << exceptions, synced >>

\* The exception rows an offline sale leaves, given the balances after it.
\* Mutant: the shortfall is the quantity of the line.
Oversells_LineQuantity(s, lines, after) ==
  { [sale |-> s, item |-> k, short |-> lines[k], open |-> TRUE] :
      k \in { i \in Keys : lines[i] > 0 /\ Available(after[i]) < 0 } }

\* Mutant: the shortfall is the negative balance itself.
Oversells_Balance(s, lines, after) ==
  { [sale |-> s, item |-> k, short |-> Available(after[k]), open |-> TRUE] :
      k \in { i \in Keys : lines[i] > 0 /\ Available(after[i]) < 0 } }

Oversells(s, lines, after) ==
  { [sale |-> s, item |-> k, short |-> -Available(after[k]), open |-> TRUE] :
      k \in { i \in Keys : lines[i] > 0 /\ Available(after[i]) < 0 } }

\* POST /v1/sales with offline set: a device's sale, already made, is booked
\* even where the stock does not cover it.  A replayed reference finds its
\* Sale row and changes nothing.
SyncOfflineSale(s, lines) ==
  /\ s \notin synced
  /\ CanPostAll(balance, "SALE", lines, TRUE)
  /\ balance' = PostedAll(balance, "SALE", lines)
  /\ ledger' = BookedAll(ledger, "SALE", lines)
  /\ exceptions' = exceptions \cup Oversells(s, lines, balance')
  /\ synced' = synced \cup {s}

\* POST /v1/inventory/exceptions/:id/resolve: marks the row, moves no stock.
ResolveException(e) ==
  /\ exceptions' = (exceptions \ {e}) \cup {[e EXCEPT !.open = FALSE]}
  /\ UNCHANGED << balance, ledger, synced >>

StockNext ==
  \/ \E k \in Keys, type \in MovementTypes, qty \in Quantities : Adjust(k, type, qty)
  \/ \E type \in MovementTypes, lines \in Lines : PostDocument(type, lines)
  \/ \E s \in SaleRefs, lines \in Lines : SyncOfflineSale(s, lines)
  \/ \E e \in exceptions : ResolveException(e)

StockSpec == StockInit /\ [][StockNext]_stockVars

------------------------------------------------------------------------------

\* Balances are a projection of the ledger: whatever mix of receipts, sales,
\* reservations, damage and quarantine was posted, the ledger rows of an item
\* add up to what is available of it.
LedgerIsTruth == \A k \in Keys : ledger[k] = Available(balance[k])

\* An item's exceptions, resolved or not.
ShortfallsOf(k) == { e.short : e \in { x \in exceptions : x.item = k } }

\* Available stock is negative only where an offline sale reported it, and the
\* report is at least as large as what is missing now: reservations, losses and
\* transfers never add to a shortfall that is not on record.
ShortfallsOnRecord ==
  \A k \in Keys :
    \/ Available(balance[k]) >= 0
    \/ \E short \in ShortfallsOf(k) : Available(balance[k]) + short >= 0

\* Releases never take a bucket below zero, and nothing is ever committed.
BucketsHold ==
  \A k \in Keys :
    /\ balance[k].reserved >= 0
    /\ balance[k].quarantined >= 0
    /\ balance[k].damaged >= 0
    /\ balance[k].expired >= 0
    /\ balance[k].committed = 0

Book == INSTANCE StockBook
          WITH available <- [k \in Keys |-> Available(balance[k])],
               shortfalls <- [k \in Keys |-> ShortfallsOf(k)]

\* Every stock transaction keeps the promises of the ledger.
ImplementsStockBook == Book!Spec
==============================================================================
