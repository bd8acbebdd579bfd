# A verification project for the V79 point of sale

These modules model the part of the repository that decides what happens to stock, to its cost
and to the documents that move it, to the cash in the drawers and to stored value, what is
ordered from suppliers and when, and the outbox that tells other systems about it. TLC
model-checks them on small instances; TLAPS proves every safety property and action property that
those runs confirm, and the refinements, for every instance. Paths are below `src/`; *service* is
`apps/api/src/modules/inventory/service.ts` and the other short names are files of
`apps/api/src/modules/`.

Contents: 1 the system · 2 the modules · 3 the runs · 4 what the code gets wrong · 5 the proofs ·
6 fairness and bounds · 7 what is abstracted and what is not modelled · 8 the plan.

## 1. The system

One API process (several may run), one PostgreSQL database, one worker process, a browser
application that also works offline. All shared state is in the database. Two kinds of handler
exist, and the difference is the source of most of the hard behaviour:

- *serializable* handlers run in one SERIALIZABLE transaction that is tried again on a write
  conflict (`apps/api/src/lib/transactions.ts`; docs/SECURITY.md asks it of the mutations of
  inventory, sales, receipts and transfers). Such a handler is one atomic step of a model, with
  all its checks as guards: a check that fails throws, and the transaction rolls back.
- the others read, check, and write later. Each is two steps, with everything else in between.
  What is between the two is counted, not remembered as a set, so that two alike requests for one
  document are two, and the write of the second may find what the first one led to.

| Component | State | Operations | Hard behaviour | Correct when |
|---|---|---|---|---|
| Stock posting core (`service`) | `InventoryBalance`, `InventoryLedger` | `postInventoryMovement`, thirteen movement types | every document of the shop posts here, in any order | the ledger sums to what is available; shortfalls are on record; buckets hold |
| Adjustments and exceptions (`inventory/routes`, `sync/routes`) | `InventoryException` | adjust, resolve | oversells of offline sales pile up on one item | a resolved exception still accounts for the shortfall |
| Commercial orders (`orders/routes`) | `CommerceOrder`, `InventoryReservation`, `Payment` | create, send, accept, pay, complete, cancel | orders compete for stock with each other and the counter; send is not a transaction | what is reserved is held; an accepted order can be delivered; no money is stranded |
| Stock counts (`inventory/counts`) | `StockCount`, lines | create, enter, submit, complete | the shop trades during a count; enter and submit are not transactions | the recorded variance is posted, once |
| Transfers (`inventory/transfers`) | `StockTransfer`, lines, serial numbers | create, approve, dispatch, receive | allocation at creation, use at dispatch; approve is not a transaction | what leaves arrives; the ledger tells where the goods are; units and quantity agree; value is kept |
| FIFO costing (`inventory/costing`) | `InventoryCostLayer` | consume, open a layer | partial use of layers, fallback cost after an oversell, stock without layers, rounding | oldest first; layers and stock differ by what moved without layers; value is kept |
| Sales and returns (`sales/routes`) | `Sale`, lines, `SaleReturn` | book, return | offline sales, replays, partial returns in any order | booked once; refunds and status follow the returns |
| Outbox and worker (`lib/outbox-delivery`, `worker`, `integrations/routes`) | `OutboxEvent`, `OutboxDelivery`, `IntegrationEndpoint` | emit, deliver, change an endpoint | no transaction at all; crashes, failures, endpoints that never answer | nothing is dropped; repeats only after a fault; every event is delivered in the end |
| Registers and cash (`registers/routes`) | `RegisterSession`, `CashMovement` | open, move cash, close | offline sales and refunds arrive after the close | one open session; expected cash follows the drawer |
| Stored value (`value/*`) | store credit, gift cards, loyalty points | debit, credit, adjust, issue | an adjustment outside SERIALIZABLE, issue in two writes | no balance below zero; the journal sums to it |
| Payments (`payments/routes`) | `PaymentIntent`, webhook events | create, confirm, webhook | webhooks repeated and out of order | a final status is final |
| Procurement (`procurement/routes`) | `PurchaseOrder`, `GoodsReceipt` | create, approve, receive | receipts in parts, lines listed twice | no more is received than ordered |
| Replenishment (`replenishment/*`, `packages/domain/src/replenishment.ts`) | policies, recommendations, alerts | recalculate, draft orders | recalculations overlap and read query by query while goods arrive; drafts use nothing up; dates that pass | order quantities fill the target; alarms come in time; nothing is counted twice or forgotten |
| Logistics (`logistics/routes`) | shipments | plan, change status and date | several shipments cover the same goods | each outstanding unit is incoming once |
| Fulfilment, pricing, team, workforce, catalogue, customers, reports, audit, platform | rows of their own | single-row updates and queries | a few check-then-write races | see `PROJECT.json` |

How they interact: orders, counts, transfers, sales, returns and receipts call
`postInventoryMovement` inside their own transactions and share the balances, so an order can
lose to a counter sale and a count to both. Sales, returns, receipts and transfers share the cost
layers and the serial numbers. Every one of them writes an outbox event in its transaction, and
only the worker reads those. Adjustments, counts and the reservations of orders move quantity and
neither layers nor serial numbers, completed orders move no serial numbers: docs/ARCHITECTURE.md,
core rule 5, says that cost layers are used independently of quantity truth, and the properties
that compare the two say by how much they may differ. Devices talk to the API only by requests
they may repeat, with a client reference that identifies the sale. `PROJECT.json` lists the
hazards of the code, line by line, with the property that covers each one, or the reason why none
does yet.

## 2. The modules

```
Movements          what one movement needs and does (constant level)
  Inventory        balances, ledger, exceptions; every way they change   -> StockBook
    Orders         orders, reservations, payments, completion sales      -> StockBook
    StockCounts    counts and their adjustments                          -> StockBook
    CostedStock    cost layers, and which movements touch them (with CostLayers)
      Transfers    transfers, serial numbers                         -> Inventory
      Sales        sales and returns                                 -> StockBook
      Procurement  purchase orders and receipts                      -> StockBook
CostLayers         FIFO costing (constant level)
StockBook          what the stock ledger promises (abstract)
Tills              register sessions and the cash of their drawers
StoredValue        store credit, gift cards, loyalty points
Planning           how much to order and how urgently (constant level)
  Replenishment    recalculations, alerts, drafted orders, shipments
Outbox             events, endpoints, deliveries, the worker
InventoryProofs    theorems about Inventory, CostLayers' operators and CostedStock's steps
SellingProofs      ... about Orders and Sales
WarehouseProofs    ... about StockCounts and Procurement
TransfersProofs, ReplenishmentProofs (with Planning), OutboxProofs
MoneyProofs        ... about Tills and StoredValue
FiniteFacts        numbers, finite sets and sums (for the proofs)
MC*                small values of the constants for TLC
```

**Movements** translates `availableFromBalance`, `ledgerDelta`, `balanceChange`,
`requiresSellable` and the checks and upsert of `postInventoryMovement`. A balance is the record
of its six buckets. A document's lines are a function from stock items to quantities (0: no
line), so that "post line by line in one transaction" is one operator, `PostedAll`.

**StockBook** is the abstract specification. Its only action, `Transact`, says what a committed
transaction may do: move available stock and ledger by the same amount, never withdraw a recorded
shortfall, and leave an item that it takes from either non-negative or short by no more than a
shortfall on record. It comes from ARCHITECTURE.md, core rule 4 (balances are a projection of the
ledger) and RELEASE_READINESS.md (oversells become explicit exceptions). Every module over
Inventory has `ImplementsStockBook`, its refinement: the mapping takes `available` from the six
buckets and `shortfalls` from the exception rows. The runs `inventory` and `orders` check it, and
it is proved for Inventory, Orders, StockCounts, Sales and Procurement. Transfers is proved to
implement Inventory (`TransfersImplementStock`), and so the book.

**Inventory** has an action for each way the code reaches `postInventoryMovement`: `Adjust` (the
manual route and its six types), `PostDocument` (all other documents), `SyncOfflineSale` (the one
caller with `allowNegative`, with its exceptions and its replay check) and `ResolveException`.
`balance`, `ledger`, `exceptions` and `synced` are the tables of the same name; the ledger keeps
the sum of an item's rows, the only thing anybody reads of it here.

**Orders**: `order` is the row and its lines with their `reservedQty`, `hold` the quantities of
the ACTIVE `InventoryReservation` rows, `unsold` the payments that point at the order and `sales`
the sales its completion made, with the payments those received. `ReadForSend` and `WriteSent`
are the two halves of the send handler, `sending` counts the requests between them; `overtaken`
remembers the orders whose send wrote after they had left DRAFT. `Complete` does what the handler
does in its order: release, close the rows, post the sale, move the payments, set the status.

**StockCounts**: `count` is the row with its items, expected and counted quantities; `posted`
sums the ledger rows that refer to the count. `ReadForEntry`/`WriteEntry` and
`ReadForSubmit`/`WriteSubmitted` are the two halves of the handlers without a transaction;
`entering` and `submitting` count the requests between them. So a second submission may be
written when the first one has led to the completion, and the count is completed, and posted,
once more. Two histories: `resubmitted` counts how often that happened to a count, `reentered`
are the lines that were written after a completion.

**CostLayers** gives `consumeFifoCost` as operators over a sequence of layers: `Outstanding`
(what the loop still has to find after each layer), `Taken` (how much of each), `Consumed` (what
remains), `TotalCost` and `UnitCost` (with the fallback and the rounding of the column). The loop
is a recursive function, so that it can be proved about. `Opened` is the other direction: the
layers that the lines of a return or of a receipt add, one per line.

**CostedStock** is the stock with its layers, which Transfers, Sales and Procurement extend with
their documents. `GoodsIn` opens layers, `GoodsOut` uses them, `PostUncosted` does neither: it is
the manual adjustment (`inventory/routes.ts:51`), the line of a completed count (`counts.ts:85`)
and the reservation of an order. `OthersTrade` is all of these, what the rest of the shop does to
the same items. `gained` and `lost` are histories: what adjustments and counts added to an item
and took from it. What they add has no layer, what they take leaves one behind; so
`LayersFollowStock` is stated up to them, and up to one shortfall on record.

**Transfers**: `transfer` with its lines and allocated serial numbers, `unit` the serial number
rows, `sold` the serial numbers of sale lines with the location of the sale, `returned` those of
return lines; `approving` counts the approvals of a transfer between their read and their write.
The rest of the shop works on the same units, one line a document: `ReceiveGoods`, `Sell`,
`SellOffline`, `Restock` and `TakeBack` (a return whose goods go back to the shelf, or do not),
`FillOrder` (the sale of a completed order, which names no serial number) and `OthersAdjust`. A
serial number is sold once: `SaleLineSerial.serialId` is unique, so a unit that was sold and
returned is available and cannot be sold again. Four histories: `again` counts the approvals
written after a dispatch, by the status they overwrote, `misallocated` the transfers that left
with a serial number that was gone, `delivered` the units completed orders took, and
`gained`/`lost` are those of CostedStock.

**Sales**: `request` is what a device sent under a client reference; it stays there, so that
`BookSale` may be tried at any time and any number of times. `SaleStep` is what the handlers of
sales do, `OthersTrade` the rest of the shop: receipts, transfers, other sales, adjustments,
counts and reservations. `sale` and `returns` are the documents with their lines, amounts and
status. A return is a sequence of lines, and may name an item twice, as the route allows.

**Procurement**: `po` is the purchase order with the ordered and received quantities and the
price of each line, `receipts` its goods receipts with their lines. `Receive` checks all lines
first (`Fits`), then spreads the additional costs by value (`Share`, `Landed`), posts the stock,
opens a layer per line and sets the status. `used` adds up the cost of what the counter took from
the layers. A receipt may list a line twice. `OthersAdjust` changes the stock of the same items
without a layer.

**Tills**: `session` is the register session with its opening float and the expected cash that
closing stores, `moves` its `CashMovement` rows. `expectedCash` of the code is `Expected`: cash
tenders less change (`CashPaid`, `ChangeGiven`), less cash refunds of the session's sales, plus
movements. An offline sale is made at a till first (`SellOffline`, the device) and booked later,
once, under the session `SessionsFor` allows. `drawer`, a history variable, is what really went
in and out: every action that hands over money changes it, the booking of a sale that was made
earlier does not. `late` is what was booked or refunded on a session after it was closed.

**StoredValue**: `account`, `card`, `loyalty` are the three kinds of account with the sums of
their journals. Sales, order payments and returns are one step each. An adjustment of store
credit is `ReadForAdjustment` and `WriteAdjustment`; the issue of a card is `IssueCard` and
`RecordIssue`. `lowered` remembers what adjustments took away, `raced` the customers whose credit
was adjusted downwards after somebody had spent what the adjustment had read.

**Planning** translates the pure functions: `choosePlanningLeadTime` with its percentile,
`inboundReceipts` (what one order line brings on which day, with its shipments in whatever order
the database returns them), `calculateReplenishment` (position, target, order quantity, status)
and `simulateInventory`. Dates are days from now; the projection of day *d* is a sum instead of a
loop, and "no day" is the day after the horizon. `Status` keeps the order of the tests.

**Replenishment**: a recalculation is no transaction, so `calc[w]` is what recalculation *w* (the
worker's, or one by the button) has read so far: `Start` reads the policies, `ReadStock` the
balance of one of them, `Advise` what is incoming and writes the recommendation, `Notify` writes
the alert; `Abort` ends it anywhere. Around them `Sell`, `Receive`, `CreateDraft`, `Approve`,
`CreateShipment`, `PatchShipment`, `PutPolicy` and `DayPasses` go on. `page` is the
recommendation a user looks at, perhaps an old one. Three histories: `known` is what was on the
shelf or confirmed since a recalculation began, `whole` whether a recommendation left out no
draft, `doubled` the items ordered on one that was used before or did.

**Outbox**: `EmitEvent` inserts an event in a business transaction, which is when its row is
stamped (`createdAt` defaults to the time of the insert); `CommitEvent` commits it, in any order,
or never. Events are numbered by their stamps: the batch takes the oldest of the committed ones,
and compares stamps with the creation of the endpoints (`since`), as `outbox-delivery.ts:5,8` do.
A `cycle` of the worker goes through its batch, a set of event numbers of which `Event(c)` is the
oldest, query by query: read the endpoints, upsert a row for each, read the due deliveries, send
each one and record the answer, count what remains, publish. Between two of these steps anything
may happen, a crash included. `owed` remembers which endpoints wanted an event at its commit and
ever since; an endpoint that was created between the event's stamp and its commit is not among
them, as it is not for the code.

## 3. The runs

| Run | Instance | Shows |
|---|---|---|
| `inventory` | 2 items, 2 offline sales, quantities 1-2, opening stock 0-1 | `LedgerIsTruth`, `ShortfallsOnRecord`, `BucketsHold` over every mix of the thirteen movement types; refinement |
| `orders` | 2 orders with 2 sends in flight each, 1 item, stock 2 | `ReservedIsHeld`: reservations neither leak nor double. `HeldOrderIsDeliverable`: an accepted order can be completed whatever the counter sold since. `MoneyIsSafe`: payments, cancellation and completion in any order |
| `stock_counts` | 1 count of 2 items, 2 entries and 2 submissions in flight | `CountPostsItsVariance`: once at the completion, and once more for a submission written after it; `SubmittedIsCounted` |
| `transfers` | 2 locations, 1 serialized variant, 2 units, 2 approvals in flight each; 2 transfers, or 1 at two costs with an offline sale and 1 unit adjusted, reserved or set aside at a time | `LedgerTellsTransfer` over dispatches and receipts, also repeated ones; `UnitsAreOnTheShelf` and `LayersFollowStock` up to what adjustments and completed orders moved; `TransfersKeepValue` (an action property), goods at the fallback cost included |
| `sales` | 1 sale of 2 items, any number of returns of 1 or 2 lines, odd line total; or 1 sale of 1 item between receipts, other sales, transfers and 1 unit adjusted, reserved or set aside at a time | `LedgerTellsSale` (replays), `ReturnsWithinSale` (quantities and status), `RefundsFollowReturns` (rounding), `LayersFollowStock` over oversells, returns and adjustments |
| `procurement` | 1 order of 2 items, up to 3 receipts of 1 or 2 lines, unit costs 0 and 3, additional costs 0-2, stock up to 3 per item, 1 unit adjusted at a time | `ReceiptsWithinOrder`; `PaidIsInStock`: goods and freight end up in the layers or in the cost of sales, up to rounding |
| `tills` | 2 registers, 2 sessions, 2 sales, a tender with change and one that is too little, 1 movement and 1 refund each | `ExpectedFollowsDrawer`: the expected cash is what the drawer holds, as long as the tills name the session whose drawer they use (`IsTidy`). `RecordedIsExpected`: what closing stored changes by late sales and refunds only |
| `stored_value` | 1 customer, 1 card, 2 adjustments in flight, amounts 1-2, a programme that is switched on and off | `JournalTellsBalance`, `NothingIsOverdrawn`, every kind of account at once |
| `outbox` | a working and a dead endpoint, batches of 2, 1 fault; 2 events that commit in any order and 2 changes, or 3 events and none | `PublishedIsReceived`, `RepeatsAreFaults`; liveness: `OwedIsReceived`, `EventsArePublished` |
| `replenishment` | five scenes, below | `OrderFillsTarget`, `AlarmsInTime`, `NothingCountedTwice`, `OrdersWithinTarget`; liveness: `ShortageIsAlerted` |
| `transfers_stale_serial`, `sales_repeated_line` | as above | the disagreements of section 4 |

The scenes of `replenishment` divide one state space that would be too large as a whole; each
keeps what one question needs (`Within` in MCReplenishment): *supply*, two orders of one item
under one recalculation at a time (`OrdersWithinTarget`); *shipping*, one order and two shipments
that may cover more than it (`NothingCountedTwice`, `AlarmsInTime`); *overlap*, worker and button
recalculate one item, one may break off, and the policy is switched off and on
(`ShortageIsAlerted`); *rivals*, worker and button while an order is placed and arrives
(`NothingCountedTwice`); *policies*, an item with packs of two and a minimum of three under
policies with manual and derived demand, lead time and both kinds of safety stock
(`OrderFillsTarget`, `AlarmsInTime`).

MCTransfers, MCSales and MCOutbox join two instances in the same way, because one for both
questions would be too large. What two transfers, each approved and dispatched twice, do to the
ledger does not need the whole shop, and what the shop does to units, layers and value needs one
transfer; the returns of a sale need two items, the layers of one item do not; a changing
endpoint does not need a full batch.

Where no `TypeOK` is listed it is the first conjunct of the run's first invariant.

Every property has a mutant in `PROJECT.json`: a changed operator that a plausible bug would
produce (it stands next to the operator it changes, marked *Mutant*) and that TLC finds.

Why the bounds suffice. The postings treat items independently, and a document of two lines is
the smallest that can be half posted, so two items show what more would. Two orders are enough to
compete; two transfers to fight over a unit; two units and costs of two sizes to use a layer in
part and average two, and three units (`transfers_stale_serial`) to leave with one that is gone.
Two requests in flight for one document (`MaxApproving`, `MaxSubmitting`, `MaxSending`) are one
that is in time and one that comes after all the first one led to; a third would repeat the
second. A refund of an odd total over two pieces rounds both ways. Two events are enough to
commit in the order opposite to their stamps, with an endpoint created between; three in batches
of two let a dead endpoint fill a batch and let one event wait behind it. `MaxOnHand` bounds
inflows and nothing else (outflows are bounded by the stock, oversells by the number of client
references), and `MaxIn` in StoredValue in the same way. `MaxUncosted` bounds what is adjusted,
reserved or set aside at a time: one unit separates quantity from layers and serial numbers, each
way. One purchase order is enough, since orders meet only in the layers, where three receipts of
one order show what two orders would. Two sessions are a current and a former one of a register,
or one of each of two; one movement is a paid-in or a cash drop (paid-out and pickup have the
effect of a drop). Two adjustments in flight and an amount of two meet each other, a payment and
a refund. In Replenishment lead times of one and two days against a review of one day put every
test of the status on both sides, dates up to two days ahead fall before, at and behind the lead
time, and two orders or two shipments are the least that can cover the same unit twice;
`MaxOversold` is 0, since below zero stock is counted as none. `MaxKnown` caps a history counter
above every position there can be, in MCReplenishment. `MaxMoves`, `MaxRefunds`, `MaxReceipts`,
`MaxReturnLines`, `MaxReceiptLines`, `MaxEntering`, `MaxEvents`, `MaxChanges`, `MaxFaults`,
`MaxFree`, `MaxDue` and `MaxAborts` are guards or ranges of their own, named in the modules.
Symmetry is used over items, orders, units, transfers, registers, sessions and sales, never in
the runs that check liveness. Deadlock is not checked: a shop may stop trading, and every bound
in the end runs out.

## 4. Where the code disagrees with itself

- **Dispatching a unit that is gone** (`inventory/transfers.ts:74`): serial numbers are checked
  when the transfer is created only. The quantity leaves from another unit's stock, the sold unit
  is marked in transit and then available at the destination.
- **Returning a line twice in one request** (`sales/routes.ts:352`): each line is compared with
  the documents before the request, so two lines for one piece both pass.

The properties of the passing runs account for these cases. `LedgerTellsTransfer` and
`CountPostsItsVariance` count the second dispatch, receipt and completion (`again`,
`resubmitted`); a history variable (`again` and `misallocated` in `NothingAstray`, `reentered`,
`overtaken`) or a condition on the document (`NoRepeatedLine`) excludes them from the other
properties they break. `LayersFollowStock`, `TransfersKeepValue` and `ImplementsStockBook` hold
even then.

More observations, not runs of their own. Sending an order (`orders/routes.ts:59`) checks the
status at the read and not at the write. A cancelled order can become SENT and be accepted again,
an accepted one can be accepted, and reserved, twice. That is what `overtaken` excludes (the
money of an order is safe even then, and so is the ledger: `MoneyCorrect`,
`OrdersImplementBook`). Approving a transfer (`transfers.ts:62`) and submitting a count
(`counts.ts:73`) have the same shape: an approval that is written after the dispatch of the
transfer lets it be dispatched, and posted, a second time, and a submission that is written after
the completion of the count posts its variance once more. Entering a line too (`counts.ts:64`): a
completed count may then record a variance that was not posted. After an oversell, the layers of
later receipts stay ahead of the stock for good (`LayersFollowStock` says by how much they may:
one shortfall). Adjustments and counts separate them too, for good: goods found in a count leave
at the fallback cost, goods lost leave their layer behind. A completed order of a serialized item
leaves a serial number available that is gone (`orders/routes.ts:94` writes none), and an
adjustment does the same. And events that wait for an endpoint that never answers stay at the
head of every batch: once there are as many as a batch takes, no other event is delivered, to
anyone (`Crowded` in `OwedIsReceived` and `EventsArePublished`); an endpoint that is switched off
and on again may miss an event whose delivery had been started.

In procurement: a receipt may list an order line twice, and both lines pass the check against
what was outstanding before (`procurement/routes.ts:156`), like the return above. A draft can be
received without approval, and cannot be approved afterwards. Additional costs of a receipt whose
goods cost nothing are stored with the receipt and reach no layer; `PaidFor` excludes them.

At the tills: the expected cash stored at closing is not revised when a sale made offline before
arrives after it, or a refund is made (`late`); a cash refund is counted in the session of the
sale, whichever drawer pays it; a request that names a session which was closed when the sale was
made is refused each time it comes, so such a sale is never booked.

`OrdersWithinTarget` is about orders drafted from recommendations. A purchase order that somebody
enters by hand (`procurement/routes.ts:92`) may order anything, and is not in Replenishment.

In replenishment: arrivals that are overdue or have no date count towards the quantity to order
and never towards the projection (`replenishment.ts:87` starts at day 1), so an alarm may come
without need; never too late (`AlarmsInTime`). Drafts are not incoming and recommendations are
not used up by drafting an order (`replenishment/routes.ts:68`), so drafting twice orders twice
(`doubled`). An alert is marked as read by a recalculation that read the stock before the
shortage, until the next one.

With stored value: the adjustment (`value/routes.ts:28`) runs in a transaction that is not
serializable, unlike the sales, payments and returns it meets. A payment between its read and its
increment takes the balance below zero; `NothingIsOverdrawn` excludes exactly that (`raced`). Its
entry has no sign (`value/routes.ts:41`), so the journal alone does not tell an adjustment
upwards from one downwards: `JournalTellsBalance` needs `lowered`. A card whose second write
never came has a balance, no entry and a code nobody knows. A return to an expired card is
accepted and cannot be spent, and points earned by a sale stay when it is returned.

## 5. The proofs

For any items, documents, quantities, costs and any number of requests in flight. The assumptions
are the named ones of the modules, which TLC evaluates in their runs: quantities and amounts are
positive naturals, costs, opening stock and bounds naturals; tables are finite
(`OrdersAssumption`, `FiniteAssumption`, `TablesAssumption`, `BoundsAssumption`), so that sums
over them are numbers; a serial number is of one variant; a policy sets a demand and a lead time
once or not at all.

| Component | Properties of its run that are proved | Refinement |
|---|---|---|
| Inventory | `LedgerIsTruth`, `ShortfallsOnRecord`, `BucketsHold`, `StockTypeOK` | of StockBook |
| Orders | `ReservedIsHeld`, `HeldOrderIsDeliverable`, `MoneyIsSafe`, `TypeOK` | of StockBook |
| StockCounts | `CountPostsItsVariance`, `SubmittedIsCounted` | of StockBook |
| Transfers, CostedStock, CostLayers | `LedgerTellsTransfer`, `UnitsAreOnTheShelf`, `LayersFollowStock`, `TypeOK`, the action property `TransfersKeepValue` | of Inventory |
| Sales, CostedStock, CostLayers | `LedgerTellsSale`, `ReturnsWithinSale`, `RefundsFollowReturns`, `LayersFollowStock` | of StockBook |
| Procurement, CostedStock, CostLayers | `ReceiptsWithinOrder`, `PaidIsInStock` | of StockBook |
| Tills | `ExpectedFollowsDrawer`, `RecordedIsExpected`, `TillTypeOK` | |
| StoredValue | `JournalTellsBalance`, `NothingIsOverdrawn`, `TypeOK` | |
| Replenishment, Planning | `OrderFillsTarget`, `AlarmsInTime`, `NothingCountedTwice`, `OrdersWithinTarget`, `TypeOK` | |
| Outbox | `PublishedIsReceived`, `RepeatsAreFaults`, `TypeOK` | |

**Sums** (`FiniteFacts`). Most of these properties compare a number with a sum over a table.
`SumFunctionOnSet` is defined by a recursive function of the community modules; from its
definition follow, by induction over finite sets, that it is the same sum whatever element is
taken first, and with it what the proofs use: the sum without one element (`SumRemove`), a change
of one summand (`SumChange`), sums that are bounded or added term by term. The inductions are
stated over a set of cases (`EveryNumber`, `EverySubset`), because a theorem whose parameter is
an operator cannot be instantiated here.

**Inventory.** None of the four invariants needs more than the others: their conjunction
`StockInv` is inductive (`StockInvariant`). It has to be the conjunction. That the ledger sums to
what is available needs types and, per movement type, that the change of the six buckets and the
ledger's delta agree, which is a lemma about `Posted` and `LedgerDelta`, proved by cases over the
thirteen types. That a shortfall is on record needs that a checked outflow leaves non-negative
stock (a lemma about `CanPost`), that an inflow only helps, and that an offline sale writes a row
for exactly the items it leaves short. That no bucket goes negative needs the release checks and
nothing about the ledger. The refinement follows step by step: each of the four actions is a
`Transact`, and a resolved exception changes no shortfall.

**Orders and counts** build on that. A transaction that posts twice (the release and the sale of
a completion, the gains and the losses of a count) is one `Transact`: `PostBothStep` follows an
item through the balance in between, and what the second posting leaves is covered because either
it took nothing or it was checked. So `StockInv` is kept by every step, and it is one half of
`OrderInv` and of `CountInv`. The other half adds what the invariants alone do not carry. For the
money (`MoneyFollows`): the open payments of an order never exceed what it counts as paid, and
equal it until the completion, unless its send overtook it; without this a cancellation, which
looks at what is paid, could strand a payment row. For the reservations (`HoldsFollow`): what an
order holds is what its lines count as reserved, nothing before it is accepted and nothing after
it is completed or cancelled; then every step changes the reserved bucket and one summand by the
same amount, and an accepted order can be completed because its hold is part of that bucket. For
the counts (`InFlightExists`): a request is in flight only for a count that exists; without this
an old submission could meet a new count with nothing counted. With it, what is posted for a line
follows the number of completions: a completion adds one variance, a late submission moves one
from the status to `resubmitted`, and a line changes before the first completion or is in
`reentered`.

**Layers.** Over any sequence of layers the loop takes, of a quantity the layers cover, exactly
that quantity, from the oldest on, and otherwise all they have; what remains adds up to the
difference, keeps its order and has at most one layer in part (the layer lemmas of
`InventoryProofs`, by induction over the steps of the loop). `LayersFollowStock` is an invariant
together with `StockInv`, step by step for each way the stock moves (`GoodsInStep`,
`GoodsOutStep`, `OfflineLayersStep`, `OthersAdjustStep`, which Transfers, Sales and Procurement
cite for theirs): a checked movement takes from shelf and layers the same quantity or all the
layers have, which is then no less than the shelf but for what adjustments added; an offline sale
can take more than the layers hold, and that a shortfall is then on record is what the stock
invariant knows; an adjustment moves shelf and history by the same amount.

**Transfers.** `TransferInv` is the stock invariant with the layers and what a document's lines
and numbers say of each other (`Documents`). Each step posts one document of Inventory or none,
which is the refinement. The ledger: a dispatch and a receipt each post the lines once, and an
approval, early or late, changes neither the rows nor how often the transfer was dispatched and
received. For the serial numbers, `UnitsInv` adds `UnitsTravel`: the numbers in transit are those
of the transfers in transit, no two of which share one, and what is sold and not returned is on
no shelf. Without it, a receipt or a return could put a number on a shelf twice. The value: the
rounded unit cost is within half a unit of money of what the layers lose for each piece and the
fallback for each piece they do not have, which is no more than adjustments added; on receipt the
goods in transit become a layer of the same cost. Both are statements about one variant;
`ValueCorrect` adds them up over the lines and the tables.

**Sales.** `SaleInv` is the stock invariant, the cost layers and, for each sale, `SaleFits`: what
its row, its return documents and its ledger rows say of each other. A reference with no row has
no documents and has sold nothing, so booking starts from nothing, however often it is tried. A
return compares each line with what came back before the request; where no document repeats an
item (`Distinct`), the lines it adds stay within the sale, and its restocked lines add to the
ledger and to the sum over the documents alike. Refunds are rounded once for every line, so each
line is within half a cent of its share (`LinesClose`), and the errors add up over lines and
documents (`DocumentsClose`), whatever the other returns of the sale did. `LayersFollowStock`
follows from the steps of CostedStock: booking is a `GoodsOut` or an oversell, a return opens
layers for what it restocks and for nothing else.

**Procurement.** `PoInv` adds two things to the stock invariant. `OrderFits`, for each order: a
draft has no receipts (its first one ends that), the received quantity is what the receipts
brought, within what was ordered where no receipt repeats an item (`DistinctRows`), and the
status is RECEIVED exactly when nothing is outstanding. And `MoneyFits`, which is `PaidIsInStock`
over the tables: what was paid is in the layers or was spent with what the counter took of them,
up to half a unit of money for each piece. A receipt adds to both sides. The landed unit cost of
a line is its goods and its share of the freight divided by its pieces, rounded, so the line is
off by at most half a unit a piece (`LandedLine`), and the shares of all lines are the whole
freight (`ReceiptIsWorth`); the layers are added up by item and the receipt by line, and these
are the same sum (`ReceiptOpens`). A sale at the counter moves exactly what it consumes from the
layers to `used` (`SaleUses`). A step touches one order, so the sums over all orders change by
what it adds (`MoneyAdds`).

**Replenishment.** Rounding up to packs is division with a remainder (`DivMod`, `RoundingUp`), a
second rounding of whole packs changes nothing (`RoundingAgain`), so the minimum adds less than a
pack. The first day on which the projection is low is the minimum of a set of naturals
(`MinIsSmallest`, from the well-foundedness of <), so no earlier day is low; every status that is
not urgent has passed the test that this day is more than a lead time away. The loop over the
shipments of a line, in any order, takes no more than is outstanding, and what it leaves arrives
with the order: so what is incoming is, over all days, what is outstanding of the confirmed
orders. `NothingCountedTwice` needs `CountsOnce`: the stock a recalculation has read, with what
is on order *now*, is at most what it knows of. It holds because the stock is read first, and a
receipt only takes from what is on order; the other order of the reads would break it.
`OrdersWithinTarget` needs `PagesWithinTarget`: a recommendation that counted every draft fits on
top of what is on order, as long as nothing was ordered since, and receipts, cancelled rests and
shipments only lower that.

**Tills.** The expected cash of a session is computed from four queries over payments, sales,
refunds and movements; its drawer is a history of what the steps really put in and took out.
`TillInv` ties them together: `DrawersHold` says that a drawer holds its float, its movements
and, summed over the sales, what each sale, refund and unbooked offline sale left in it; `SaleOK`
says of each sale which session its rows name and which drawer they used (an offline sale that
was made in time names the session of its drawer, a deposit that names a session was put into its
drawer, change is given without deposits only). For that a till must not have two open sessions
(`OneOpen`), and the drawer of a session that was not opened yet must be empty (`Unopened`). A
step changes one sale, so each of the two sums changes by what that sale adds (`CountedChange`,
`DrawerChange`). For a session its tills kept tidy the two are equal sale by sale (`TidySale`),
which is `ExpectedFollowsDrawer`. `RecordedIsExpected` needs that a step adds nothing to a
session that is closed and not in `late` (`RecordChanges`): counter sales and deposits name open
sessions, offline sales and refunds are noted. Assumptions: there are finitely many sales;
amounts are positive naturals (cents).

**StoredValue.** The properties are not inductive. `ValueInv` adds, for store credit, that what
an adjustment in flight takes was there when it was read (`ReadsAreCovered`): without it, a write
that takes too much would not need to have been overtaken. For cards it adds that a card without
its first entry has not been used, that a card with no status has nothing on it and that a
depleted one has an entry (`IsWhole`): without it, the second write of the issue could meet a
balance other than the one issued. Since the three kinds of account share no variables,
`ValueInv` is the conjunction of an invariant for each, and a step is looked at for the kinds it
changes. Assumptions: there is a customer; amounts, and the rates of a programme, are positive
naturals (the routes and the schema ask that of them; money is whole cents).

**Outbox.** For any endpoints, dead or not, any batch size and any number of events, changes,
crashes and unheard answers. Neither property is inductive; `OutboxInv` adds to them

- `OneCycle`: the flag admits one cycle. Two could both send what neither has recorded, and the
  count of repeats would be wrong by one for each of them;
- `ReliesOn`: what a cycle knows of the event it is at. From the upserts on every endpoint to
  which the event is owed has a row; what it has yet to send is due, so it is not delivered; a
  request that was answered was received. Commits, changes of endpoints and the passing of time
  do not disturb this (`CyclesWait`), because an event is only ever owed to fewer endpoints;
- `RowsOK`: what is owed is wanted, so an event nobody is interested in may be published at once;
- `ReceiptsCounted`: the receipts of an event are at most the faults, plus one once its answer
  was heard. A crash between the answer and its record takes that one away and adds a fault.

Fairness is used in no proof.

Model-checked only:

- liveness (`OwedIsReceived`, `EventsArePublished`, `ShortageIsAlerted`), which is outside the
  prover's reach;
- which of the observed lead times their percentile is: the theorems use only that it is one of
  them (`PercentileIsThere`);
- `TakesAvailableUnits` and `NeverReturnsMoreThanSold`, which the code violates (section 4).

## 6. Fairness

`Outbox` and `Replenishment` state fairness; the stock modules have safety properties, because
nobody promises that a customer pays or a clerk counts. In `Outbox`:

- a cycle goes on (WF): `setInterval` calls it again and again, each request to an endpoint ends
  within its 15 s timeout, and the container is restarted when the process ends (`restart:
  unless-stopped`); crashes are bounded, which says that they are not so frequent that no batch
  ever ends;
- time passes (WF), so that an attempt that was put off becomes due;
- an endpoint that is not in `Dead` accepts one of infinitely many requests (SF). Endpoints in
  `Dead` have no such promise, and the liveness properties are about the others beside them.

Nothing is assumed of those who emit events, commit them or change endpoints.

In `Replenishment` the worker's recalculation goes on (WF of `RunStep(Worker)`), on the same
grounds: `setInterval` starts one again and again, and the process is restarted. A recalculation
by the button may stop anywhere, and both may break off, `MaxAborts` times in all. The run states
this fairness as `WorkerGoesOn`, the same formula with its ENABLED written out (the worker can
take a step unless it is idle and no policy is enabled), because TLC would otherwise search all
shipments and stocks for a successor at every state. A shortage that comes and goes need not be
alerted; one that lasts is, for good.

## 7. Abstractions, and what is left out

- Quantities are whole numbers of the smallest unit, money whole cents; a document has a total
  per line instead of prices, discounts, promotions and tax. One line per item and document,
  except in a return and in a receipt.
- Cost layers with nothing left are dropped; the order of `receivedAt` is that of creation. An
  opening stock has been receipted at the fallback cost.
- In Transfers a document of the rest of the shop has one line, and a return the location and not
  the line of its sale; its cost is any of `Costs`. Completing an order is two steps there, the
  release of the reservation (in `OthersAdjust`) and the sale (`FillOrder`); in Orders it is one.
- Only active variants with `trackStock`: no route deactivates them, and the others post nothing.
  `committed` never changes and the order statuses FULFILLING and EXPIRED are never assigned.
- A transaction that fails, for a check or after its third conflict, is a step not taken.
- In Procurement quotients are exact until a column rounds them (the code computes with 20
  digits); suppliers, lots and serial numbers are left out. Shipments are in Replenishment, the
  only reader of them.
- In Replenishment there is one tenant, one location and at most one supplier per item. Demand is
  what the policy says or any forecast; how the sales history becomes one (averages, statistical
  safety stock of a service level) is left out, and so are days of cover, which nothing reads. An
  order's prices and receipts are in Procurement; here a receipt changes stock, outstanding
  quantity, observed lead time and the shipments of an order that is complete. A notification
  exists once per item, as its key has it.
- In Tills a sale is its total and its tenders in cash and otherwise; the clock of a device
  agrees with the server's; denominations and the counted cash, which is stored only, are left
  out. In StoredValue a sale is its total and one tender of stored value; the status BLOCKED is
  never assigned.
- Lots and commissions of a sale; serial numbers, registers, tenders and loyalty in `Sales` (they
  are in `Transfers`, `Tills` and `StoredValue`); landed costs of a transfer; secrets that cannot
  be decrypted (they would end the process); the other jobs of the worker.
- Not modelled, with the reason in `PROJECT.json`: payments and their webhooks, fulfilment,
  pricing, team and workforce, retention and expiry alerts, catalogue and customers,
  authentication, master data, reports, the user interface.

## 8. The plan

Done, in this order: Movements, StockBook, Inventory with its proofs, Orders, StockCounts,
CostLayers and Transfers, Sales, Outbox, Tills, StoredValue with its proofs, Procurement,
Planning and Replenishment, the proofs of Orders, StockCounts, Planning and Outbox; then
FiniteFacts, the sums of Orders, the layers and all of Transfers, all of Replenishment, Tills;
then all of Sales and Procurement, their sums written with `SumFunction`; then CostedStock, any
number of requests in flight for one document, the serial numbers of sale and return lines, and
the stamps and commits of events. Next:

1. Payment intents with webhooks out of order.
2. Liveness stays with TLC: it is outside the prover's reach.
