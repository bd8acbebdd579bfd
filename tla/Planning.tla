------------------------------- MODULE Planning -------------------------------
(***************************************************************************)
(* How much of an item to order, and how urgently: the calculations of      *)
(* src/packages/domain/src/replenishment.ts and, for what is incoming, of   *)
(* src/apps/api/src/modules/replenishment/service.ts.                       *)
(*                                                                         *)
(* Quantities are whole units and dates are whole days from now; what is    *)
(* incoming is a function: incoming[d] units are due in d days.  "No day"   *)
(* (null in the code) is the day after the horizon, which every comparison  *)
(* treats alike.  Days of cover are left out: nothing is decided by them.   *)
(***************************************************************************)
EXTENDS Integers, Sequences, FiniteSetsExt, Functions

Larger(a, b) == IF a >= b THEN a ELSE b
Smaller(a, b) == IF a <= b THEN a ELSE b

CeilDiv(n, d) == (n + d - 1) \div d

\* The smallest of the values that at least pct per cent of them do not exceed.
Percentile(values, pct) ==
  LET NotAbove(v) == { i \in DOMAIN values : values[i] <= v }
  IN  Min({ v \in { values[i] : i \in DOMAIN values } :
              100 * Cardinality(NotAbove(v)) >= pct * Len(values) })

\* choosePlanningLeadTime: a manual lead time wins (a set of at most one).
PlanningLead(manual, quoted, observed) ==
  IF manual # {} THEN Max(manual)
  ELSE IF observed = << >> THEN quoted ELSE Larger(quoted, Percentile(observed, 80))

------------------------------------------------------------------------------

\* One order line: its shipments, in some order, each cover a part of what is
\* outstanding, and are due with the shipment; the rest is due with the order.
\* rest[i] is what the first i shipments leave.
Rest(outstanding, shipped) ==
  LET rest[i \in 0..Len(shipped)] ==
        IF i = 0 THEN outstanding ELSE Larger(0, rest[i - 1] - shipped[i].qty)
  IN  rest

\* inboundReceipts, for one line: what it brings in d days.
LineDue(outstanding, due, shipped, d) ==
  LET rest == Rest(outstanding, shipped)
  IN  (IF d = due THEN rest[Len(shipped)] ELSE 0)
      + SumFunction([i \in DOMAIN shipped |->
                      IF shipped[i].due = d THEN rest[i - 1] - rest[i] ELSE 0])

------------------------------------------------------------------------------

\* An input of calculateReplenishment: free is what is on hand less what is held
\* back (negative after an oversell).

Available(in) == Larger(0, in.free)

Incoming(in) == SumFunction(in.incoming)

Position(in) == Available(in) + Incoming(in)

ReorderPoint(in) == in.demand * in.lead + in.safety

TargetStock(in) == in.demand * (in.lead + in.review) + in.safety

RoundUpToPack(qty, pack) == CeilDiv(qty, pack) * pack

\* Mutant: the minimum is applied after the rounding to packs.
OrderQty_MinimumLast(in) ==
  LET short == Larger(0, TargetStock(in) - Position(in))
  IN  IF short = 0 THEN 0 ELSE Larger(RoundUpToPack(short, in.pack), in.minimum)

OrderQty(in) ==
  LET short == Larger(0, TargetStock(in) - Position(in))
  IN  IF short = 0 THEN 0
      ELSE RoundUpToPack(Larger(RoundUpToPack(short, in.pack), in.minimum), in.pack)

Horizon(in) == Larger(30, in.lead + in.review + 60)

\* What arrives on the days "days".
ArrivesOn(in, days) == SumFunctionOnSet(in.incoming, DOMAIN in.incoming \cap days)

\* Mutant: goods on order count as if they were here.
ProjectedStock_Undated(in, d) == Position(in) - d * in.demand

\* simulateInventory: the stock at the end of day d.  The loop adds what is due on
\* the days 1 to d; what is overdue or has no date (day 0) is never added.
ProjectedStock(in, d) == Available(in) + ArrivesOn(in, 1..d) - d * in.demand

\* The first day on which the projected stock is at most a level.
FirstDayAtMost(in, level) ==
  Min({ d \in 0..Horizon(in) : ProjectedStock(in, d) <= level } \cup {Horizon(in) + 1})

\* The day by which to order, so that goods arrive before the safety stock is used.
OrderBy(in) == FirstDayAtMost(in, in.safety) - in.lead

\* calculateReplenishment, its status.
Status(in) ==
  LET orderBy == OrderBy(in) IN
  IF in.demand = 0 THEN "HEALTHY"
  ELSE IF Available(in) = 0 THEN "STOCKED_OUT"
  ELSE IF FirstDayAtMost(in, 0) < in.lead THEN "STOCKOUT_RISK"
  ELSE IF orderBy <= 0 THEN "ORDER_NOW"
  ELSE IF orderBy <= 5 THEN "ORDER_SOON"
  ELSE IF orderBy <= 14 THEN "PLAN"
  ELSE IF Position(in) <= ReorderPoint(in) THEN "ORDER_NOW"
  ELSE "HEALTHY"

Urgent == {"ORDER_NOW", "STOCKOUT_RISK", "STOCKED_OUT"}
==============================================================================
