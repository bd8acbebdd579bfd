---------------------------- MODULE Replenishment ----------------------------
(***************************************************************************)
(* Replenishment: recalculations, their recommendations and alerts, and the *)
(* purchase orders drafted from them, with the shipments of the orders:     *)
(* src/apps/api/src/modules/replenishment/{service,routes}.ts and           *)
(* src/apps/api/src/modules/logistics/routes.ts.                            *)
(*                                                                         *)
(* A recalculation is no transaction.  For one policy after another it      *)
(* reads the stock, then what is incoming, then writes a recommendation,    *)
(* then the alert, while the shop trades, orders are received and other     *)
(* recalculations (the worker's timer, a button) do the same.  Drafting     *)
(* orders, shipments and receipts are SERIALIZABLE transactions, one step.  *)
(*                                                                         *)
(* One tenant and one location; an item has at most one supplier.  Dates    *)
(* are days from now, as in module Planning: they count down as days pass.  *)
(* Policies have no service level, so their safety stock is not             *)
(* statistical; demand that is not set by the policy is any forecast.       *)
(* A fully received order is gone (its id is used again): what it left      *)
(* behind is stock and an observed lead time.                               *)
(***************************************************************************)
EXTENDS Planning, SequencesExt

CONSTANTS Items,        \* active product variants
          Supplied,     \* items with a supplier
          Terms,        \* Terms[k]: case pack, minimum order and quoted lead days
          Policies,     \* Policies[k]: the ReplenishmentPolicy rows a user may put
          Forecasts,    \* daily sales a sales history may amount to
          LeadTimes,    \* days an order may take to arrive
          Orders,       \* purchase orders that are open at a time
          Shipments,    \* shipments under way at a time
          Runs,         \* recalculations at a time
          Worker,       \* the one of them that the timer starts
          Newest,       \* receipts looked at for the lead time (20 in the code)
          MaxDue,       \* bound: days ahead of any date
          MaxFree,      \* bound: receipts do not take the stock above it
          MaxOversold,  \* bound: units sold offline beyond the stock
          MaxAborts     \* bound: recalculations that break off

ASSUME ItemsAssumption ==
  /\ Supplied \subseteq Items
  /\ Terms \in [Items -> [pack : Nat \ {0}, minimum : Nat, quoted : Nat]]
ASSUME PoliciesAssumption ==
  /\ \A p \in UNION { Policies[k] : k \in Items } :
       /\ p.enabled \in BOOLEAN
       /\ p.demand \subseteq Nat /\ Cardinality(p.demand) <= 1
       /\ p.lead \subseteq 0..MaxDue /\ Cardinality(p.lead) <= 1
       /\ p.safety \in Nat /\ p.safetyDays \in Nat /\ p.review \in Nat \ {0}
  /\ Forecasts \subseteq Nat /\ LeadTimes \subseteq 0..MaxDue
  /\ \A k \in Items : Terms[k].quoted <= MaxDue
ASSUME BoundsAssumption ==
  /\ Orders # {} /\ IsFiniteSet(Orders) /\ IsFiniteSet(Shipments)
  /\ Worker \in Runs
  /\ {Newest, MaxDue, MaxFree, MaxOversold, MaxAborts} \subseteq Nat

VARIABLES policy,    \* policy[k]: the ReplenishmentPolicy row
          free,      \* free[k]: on hand less reserved, quarantined, damaged and expired
          observed,  \* observed[k]: lead times of its receipts, newest first
          po,        \* po[p]: a PurchaseOrder row; left[k] is ordered less received
          shipment,  \* shipment[h]: a Shipment row and its lines
          page,      \* page[k]: the ReorderRecommendation row a user looks at, the
                     \* newest or an older one
          alert,     \* alert[k]: the Notification
          calc,      \* calc[w]: what a recalculation has read
          aborts,    \* how many broke off
          doubled    \* history: items ordered on a recommendation that did not count
                     \* all orders

vars == << policy, free, observed, po, shipment, page, alert, calc, aborts, doubled >>
orderVars == << po, shipment, observed >>
adviceVars == << page, alert, doubled >>

Nothing == [k \in Items |-> 0]
NoOrder == [status |-> "NONE", left |-> Nothing, due |-> 0]
NoShipment == [open |-> FALSE, po |-> CHOOSE p \in Orders : TRUE, qty |-> Nothing, due |-> 0]
NoRow == [qty |-> 0, lead |-> 0, whole |-> FALSE]
Idle == [step |-> "IDLE"]

PolicyRows ==
  { f \in [Items -> UNION { Policies[k] : k \in Items }] : \A k \in Items : f[k] \in Policies[k] }

DemandsOf(rule) == IF rule.demand # {} THEN rule.demand ELSE Forecasts

\* What a recalculation has in hand: nothing, its policies, for one of them also the
\* stock and the demand, or what to do about the alert.
CalcRows ==
  {Idle}
  \cup [step : {"NEXT"}, todo : SUBSET Items, policy : PolicyRows]
  \cup { row \in [step : {"STOCK_READ"}, todo : SUBSET Items, policy : PolicyRows, item : Items,
                  free : Int, demand : Nat, known : Int] :
           row.demand \in DemandsOf(row.policy[row.item]) }
  \cup [step : {"ADVISED"}, todo : SUBSET Items, policy : PolicyRows, item : Items,
         urgent : BOOLEAN]

TypeOK ==
  /\ policy \in PolicyRows
  /\ free \in [Items -> -MaxOversold..MaxFree]
  /\ observed \in [Items -> Seq(LeadTimes)]
  /\ \A k \in Items : Len(observed[k]) <= Newest
  /\ po \in [Orders -> [ status : {"NONE", "DRAFT", "APPROVED", "PARTIALLY_RECEIVED"},
                         left : [Items -> Nat], due : 0..MaxDue ]]
  /\ shipment \in [Shipments -> [ open : BOOLEAN, po : Orders, qty : [Items -> Nat],
                                  due : 0..MaxDue ]]
  /\ page \in [Items -> [qty : Nat, lead : 0..MaxDue, whole : BOOLEAN]]
  /\ alert \in [Items -> {"NONE", "UNREAD", "READ"}]
  /\ calc \in [Runs -> CalcRows]
  /\ aborts \in 0..MaxAborts
  /\ doubled \subseteq Items

Init ==
  /\ policy \in PolicyRows
  /\ free \in [Items -> 0..MaxFree]
  /\ observed = [k \in Items |-> << >>]
  /\ po = [p \in Orders |-> NoOrder]
  /\ shipment = [h \in Shipments |-> NoShipment]
  /\ page = [k \in Items |-> NoRow]
  /\ alert = [k \in Items |-> "NONE"]
  /\ calc = [w \in Runs |-> Idle]
  /\ aborts = 0
  /\ doubled = {}

------------------------------------------------------------------------------

\* Mutant: an order of which some goods have come is no longer counted.
Confirmed_NotPartly == {"APPROVED"}

\* The statuses of orders that are counted as incoming.
Confirmed == {"APPROVED", "PARTIALLY_RECEIVED"}

\* What the open shipments bring of a line, in the order the query returned them: one
\* of another order brings nothing of it.
ShippedOf(p, k, inOrder) ==
  [i \in DOMAIN inOrder |->
    LET ship == shipment[inOrder[i]]
    IN  [qty |-> IF ship.po = p THEN ship.qty[k] ELSE 0, due |-> ship.due]]

\* inboundReceipts, by the days on which they are due.
InboundReceipts(k, inOrder) ==
  [d \in 0..MaxDue |->
    SumFunction([p \in { q \in Orders : po[q].status \in Confirmed } |->
                  LineDue(po[p].left[k], po[p].due, ShippedOf(p, k, inOrder), d)])]

OnOrder(k) == SumFunction([p \in Orders |-> po[p].left[k]])

OnConfirmed(k, orders) ==
  SumFunction([p \in { q \in Orders : orders[q].status \in {"APPROVED", "PARTIALLY_RECEIVED"} }
                |-> orders[p].left[k]])

\* Start of recalculateTenant: its policies.
Start(w) ==
  /\ calc[w] = Idle
  /\ \E k \in Items : policy[k].enabled
  /\ calc' = [calc EXCEPT ![w] =
       [step |-> "NEXT", todo |-> { k \in Items : policy[k].enabled }, policy |-> policy]]
  /\ UNCHANGED << policy, free, orderVars, adviceVars, aborts >>

\* For a policy: the balance and the demand.  "known" is history: what is on the
\* shelf and on confirmed orders now.
ReadStock(w, k) ==
  /\ calc[w].step = "NEXT"
  /\ k \in calc[w].todo
  /\ \E demand \in DemandsOf(calc[w].policy[k]) :
       calc' = [calc EXCEPT ![w] =
         [step |-> "STOCK_READ", todo |-> @.todo \ {k}, policy |-> @.policy,
          item |-> k, free |-> free[k], demand |-> demand,
          known |-> Larger(0, free[k]) + OnConfirmed(k, po)]]
  /\ UNCHANGED << policy, free, orderVars, adviceVars, aborts >>

\* Mutant: the orders are read first, and the stock in a later step, after receipts that
\* turned orders into stock.  ("known" less the stock of its moment is what was on
\* confirmed orders.)
InputOf_StockLast(w, inOrder) ==
  LET k == calc[w].item
      rule == calc[w].policy[k]
      ordered == calc[w].known - Larger(0, calc[w].free)
  IN  [ free |-> free[k],
        incoming |-> [d \in 0..MaxDue |-> IF d = 0 THEN ordered ELSE 0],
        demand |-> calc[w].demand,
        lead |-> PlanningLead(rule.lead, Terms[k].quoted, observed[k]),
        safety |-> Larger(rule.safety, calc[w].demand * rule.safetyDays),
        review |-> rule.review, pack |-> Terms[k].pack, minimum |-> Terms[k].minimum ]

\* What calculateReplenishment is given: the stock that was read before, and what is
\* incoming now.
InputOf(w, inOrder) ==
  LET k == calc[w].item
      rule == calc[w].policy[k]
  IN  [ free |-> calc[w].free, incoming |-> InboundReceipts(k, inOrder),
        demand |-> calc[w].demand,
        lead |-> PlanningLead(rule.lead, Terms[k].quoted, observed[k]),
        safety |-> Larger(rule.safety, calc[w].demand * rule.safetyDays),
        review |-> rule.review, pack |-> Terms[k].pack, minimum |-> Terms[k].minimum ]

\* The orders in which the database may return the open shipments.
ShipmentOrders == SetToSeqs({ h \in Shipments : shipment[h].open })

\* Then the lead times and what is incoming, and the recommendation is created.  (No
\* request can tell a recommendation that is created late from one looked at late.)
\* A user may look at it (GET /v1/replenishment) or go on with an older one.  "whole"
\* is history: it leaves no draft out.
Advise(w) ==
  LET k == calc[w].item IN
  /\ calc[w].step = "STOCK_READ"
  /\ \E inOrder \in ShipmentOrders, looked \in BOOLEAN :
       LET in == InputOf(w, inOrder)
           whole == \A p \in Orders : po[p].status = "DRAFT" => po[p].left[k] = 0
       IN
       /\ page' = IF looked
                  THEN [page EXCEPT ![k] = [qty |-> OrderQty(in), lead |-> in.lead,
                                            whole |-> whole]]
                  ELSE page
       /\ calc' = [calc EXCEPT ![w] =
            [step |-> "ADVISED", todo |-> @.todo, policy |-> @.policy, item |-> k,
             urgent |-> Status(in) \in Urgent]]
  /\ UNCHANGED << policy, free, orderVars, alert, doubled, aborts >>

\* Mutant: an alert that was read once stays read.
AlertAfter_StaysRead(old, urgent) ==
  IF urgent THEN (IF old = "NONE" THEN "UNREAD" ELSE old)
  ELSE IF old = "UNREAD" THEN "READ" ELSE old

\* The upsert of an urgent item's notification, or the marking of it as read.
AlertAfter(old, urgent) ==
  IF urgent THEN "UNREAD" ELSE IF old = "UNREAD" THEN "READ" ELSE old

\* Then the alert, and on to the next policy.
Notify(w) ==
  /\ calc[w].step = "ADVISED"
  /\ alert' = [alert EXCEPT ![calc[w].item] = AlertAfter(@, calc[w].urgent)]
  /\ calc' = [calc EXCEPT ![w] =
       IF @.todo = {} THEN Idle ELSE [step |-> "NEXT", todo |-> @.todo, policy |-> @.policy]]
  /\ UNCHANGED << policy, free, orderVars, page, doubled, aborts >>

\* A query fails or the process stops: the rest is not done.
Abort(w) ==
  /\ calc[w] # Idle
  /\ aborts < MaxAborts
  /\ aborts' = aborts + 1
  /\ calc' = [calc EXCEPT ![w] = Idle]
  /\ UNCHANGED << policy, free, orderVars, adviceVars >>

RunStep(w) ==
  \/ Start(w)
  \/ \E k \in Items : ReadStock(w, k)
  \/ Advise(w)
  \/ Notify(w)

------------------------------------------------------------------------------

\* PUT /v1/replenishment/policies
PutPolicy(k, rule) ==
  /\ policy' = [policy EXCEPT ![k] = rule]
  /\ UNCHANGED << free, orderVars, adviceVars, calc, aborts >>

\* POST /v1/replenishment/create-draft-pos, for the items of one supplier.  Nothing
\* marks the recommendations as used.
CreateDraft(p, items) ==
  /\ po[p].status = "NONE"
  /\ items \subseteq Supplied
  /\ \A k \in items : page[k].qty > 0
  /\ po' = [po EXCEPT ![p] =
       [status |-> "DRAFT", left |-> [k \in Items |-> IF k \in items THEN page[k].qty ELSE 0],
        due |-> Max({ page[k].lead : k \in items })]]
  /\ doubled' = doubled \cup { k \in items : ~page[k].whole }
  /\ page' = [k \in Items |-> [page[k] EXCEPT !.whole = @ /\ k \notin items]]
  /\ UNCHANGED << policy, free, observed, shipment, alert, calc, aborts >>

\* The recalculations under way learn what is confirmed meanwhile (history).
KnowMore(orders) ==
  [w \in Runs |->
    IF calc[w].step = "STOCK_READ"
    THEN LET k == calc[w].item
             more == Larger(0, OnConfirmed(k, orders) - OnConfirmed(k, po))
         IN  [calc[w] EXCEPT !.known = @ + more]
    ELSE calc[w]]

\* POST /v1/purchase-orders/:id/approve
Approve(p) ==
  LET orders == [po EXCEPT ![p].status = "APPROVED"] IN
  /\ po[p].status = "DRAFT"
  /\ po' = orders
  /\ calc' = KnowMore(orders)
  /\ UNCHANGED << policy, free, observed, shipment, adviceVars, aborts >>

\* POST /v1/purchase-orders/:id/receive, as far as replenishment sees it; "days" is
\* how long the goods took.
Receive(p, qty, days) ==
  LET left == [k \in Items |-> po[p].left[k] - qty[k]]
      done == left = Nothing
      orders == [po EXCEPT ![p] =
        IF done THEN NoOrder ELSE [@ EXCEPT !.status = "PARTIALLY_RECEIVED", !.left = left]]
      confirmed == [po EXCEPT ![p] = [@ EXCEPT !.status = "PARTIALLY_RECEIVED", !.left = left]]
  IN
  /\ po[p].status # "NONE"
  /\ qty # Nothing
  /\ \A k \in Items : qty[k] <= po[p].left[k] /\ free[k] + qty[k] <= MaxFree
  /\ free' = [k \in Items |-> free[k] + qty[k]]
  /\ observed' = [k \in Items |->
       IF qty[k] > 0
       THEN SubSeq(<< days >> \o observed[k], 1, Smaller(Newest, Len(observed[k]) + 1))
       ELSE observed[k]]
  /\ po' = orders
  /\ shipment' = [h \in Shipments |->
       IF done /\ shipment[h].po = p THEN NoShipment ELSE shipment[h]]
  /\ calc' = KnowMore(confirmed)
  /\ UNCHANGED << policy, adviceVars, aborts >>

\* POST /v1/shipments: at most what is outstanding now, by this shipment alone.
CreateShipment(h, p, qty, due) ==
  /\ ~shipment[h].open
  /\ po[p].status # "NONE"
  /\ qty # Nothing
  /\ \A k \in Items : qty[k] <= po[p].left[k]
  /\ shipment' = [shipment EXCEPT ![h] = [open |-> TRUE, po |-> p, qty |-> qty, due |-> due]]
  /\ UNCHANGED << policy, free, po, observed, adviceVars, calc, aborts >>

\* PATCH /v1/shipments/:id/status: a shipment is open until its status is RECEIVED or
\* CANCELLED, and again when it gets another one.
PatchShipment(h, open, due) ==
  /\ shipment[h].qty # Nothing
  /\ shipment' = [shipment EXCEPT ![h].open = open, ![h].due = due]
  /\ UNCHANGED << policy, free, po, observed, adviceVars, calc, aborts >>

\* Sales, reservations and losses.
Sell(k) ==
  /\ free[k] > -MaxOversold
  /\ free' = [free EXCEPT ![k] = @ - 1]
  /\ UNCHANGED << policy, orderVars, adviceVars, calc, aborts >>

\* Mutant: an overdue date is in the past.
Sooner_Past(d) == d - 1

\* toDays: an overdue date is today.
Sooner(d) == Larger(0, d - 1)

\* A day passes: every date is a day nearer, or overdue.
DayPasses ==
  /\ po' = [p \in Orders |-> [po[p] EXCEPT !.due = Sooner(@)]]
  /\ shipment' = [h \in Shipments |-> [shipment[h] EXCEPT !.due = Sooner(@)]]
  /\ << po', shipment' >> # << po, shipment >>
  /\ UNCHANGED << policy, free, observed, adviceVars, calc, aborts >>

Quantity == [Items -> 0..MaxFree + MaxOversold]

Next ==
  \/ \E w \in Runs : RunStep(w) \/ Abort(w)
  \/ \E k \in Items : \E rule \in Policies[k] : PutPolicy(k, rule)
  \/ \E k \in Items : Sell(k)
  \/ \E p \in Orders :
       \/ \E items \in (SUBSET Items) \ {{}} : CreateDraft(p, items)
       \/ Approve(p)
       \/ \E qty \in Quantity, days \in LeadTimes : Receive(p, qty, days)
       \/ \E h \in Shipments, qty \in Quantity, due \in 0..MaxDue : CreateShipment(h, p, qty, due)
  \/ \E h \in Shipments, open \in BOOLEAN, due \in 0..MaxDue : PatchShipment(h, open, due)
  \/ DayPasses

\* The worker's timer starts a recalculation again and again, and the worker goes on
\* with the one it started; a recalculation by the button may stop anywhere.
Spec == Init /\ [][Next]_vars /\ WF_vars(RunStep(Worker))

------------------------------------------------------------------------------

\* What the recalculations under way would calculate with now.
Inputs ==
  { InputOf(w, inOrder) : w \in { v \in Runs : calc[v].step = "STOCK_READ" },
                          inOrder \in ShipmentOrders }

\* The smallest order that will do: whole packs, at least the supplier's minimum, up
\* to the target with what is here and incoming; none where the target is met.
OrderFillsTarget ==
  \A in \in Inputs :
    LET short == TargetStock(in) - Position(in)
    IN  IF short <= 0 THEN OrderQty(in) = 0
        ELSE /\ OrderQty(in) % in.pack = 0
             /\ OrderQty(in) - Larger(short, in.minimum) \in 0..(in.pack - 1)

\* What the stock would be with every receipt on its day, and overdue ones today.
ExpectedStock(in, d) == Available(in) + ArrivesOn(in, 0..d) - d * in.demand

\* An order placed today would come too late or just in time.
RunsShort(in) ==
  \/ \E d \in 0..in.lead : ExpectedStock(in, d) <= in.safety
  \/ Position(in) <= ReorderPoint(in)

\* While there is no alarm, there is time: an order placed today arrives before the
\* safety stock is used.  And no alarm is raised without need, except that the
\* projection never adds receipts that are overdue or have no date.
AlarmsInTime ==
  \A in \in Inputs :
    LET urgent == Status(in) \in Urgent IN
    /\ in.demand > 0 /\ ~urgent
         => \A d \in 0..in.lead : ExpectedStock(in, d) > in.safety
    /\ urgent /\ in.incoming[0] = 0 => RunsShort(in)

\* Goods that arrive, are shipped or are ordered while a recalculation reads are not
\* counted both on the shelf and as incoming: its position is never above what was there
\* at its start and was confirmed since.
NothingCountedTwice ==
  \A w \in Runs : calc[w].step = "STOCK_READ" =>
    \A inOrder \in ShipmentOrders : Position(InputOf(w, inOrder)) <= calc[w].known

\* The most that a policy calls for at a demand and a lead time, with the rounding to
\* minimum and packs.
MostOnOrder(k, rule, demand, lead) ==
  demand * (lead + rule.review) + Larger(rule.safety, demand * rule.safetyDays)
    + Larger(0, Terms[k].minimum - 1) + Terms[k].pack - 1

LeadsOf(k, rule) == IF rule.lead # {} THEN rule.lead ELSE LeadTimes \cup {Terms[k].quoted}

\* An item is ordered beyond every target it can have only on a recommendation that had
\* been used before, was made before another order, or did not count a draft: no mixture
\* of partial receipts, shipments, delays and recalculations hides what is on order.  This
\* is about the orders drafted from recommendations, the only ones of this module: one
\* made by hand (procurement/routes.ts:92) may be for any quantity.
OrdersWithinTarget ==
  \A k \in Items \ doubled : OnOrder(k) > 0 =>
    \E rule \in Policies[k] : \E demand \in DemandsOf(rule), lead \in LeadsOf(k, rule) :
      OnOrder(k) <= MostOnOrder(k, rule, demand, lead)

\* A shortage that lasts is alerted, and stays so, whatever recalculations overlap,
\* break off or act on what they read before.
StockedOut(k) ==
  policy[k].enabled /\ policy[k].demand # {} /\ policy[k].demand # {0} /\ free[k] <= 0

ShortageIsAlerted ==
  \A k \in Items : <>[]StockedOut(k) => <>[](alert[k] = "UNREAD")
==============================================================================
