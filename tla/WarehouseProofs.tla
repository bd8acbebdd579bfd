--------------------------- MODULE WarehouseProofs ---------------------------
(***************************************************************************)
(* Theorems about StockCounts and Procurement, for every set of items,     *)
(* counts, orders, costs and quantities, and any number of requests in     *)
(* flight.                                                                 *)
(*                                                                         *)
(* The argument for a count: a count that was not created has no request   *)
(* in flight, so creating it cannot meet an old submission.  A submission  *)
(* that finds its count completed makes one completion more possible and   *)
(* is on record in resubmitted, an entry that finds it completed in        *)
(* reentered; every other write leaves the number of completions and what  *)
(* a completed line records, and each completion posts that once more      *)
(* (OneTimeMore).  The completion's gains and losses concern different     *)
(* items, so they are accepted together as they are one by one.            *)
(*                                                                         *)
(* The argument for a purchase order: an order without receipts has        *)
(* nothing received; a receipt is compared, line by line, with what was    *)
(* outstanding before it.  For the money: a line's landed unit cost is a   *)
(* rounded quotient, so what the line puts into the layers is its goods    *)
(* and its share of the freight up to half a unit a piece (LandedLine);    *)
(* the shares add up to the freight (ReceiptIsWorth), the layers by item   *)
(* and the lines of the receipt to the same worth (ReceiptOpens), and a    *)
(* sale moves from the layers to the cost of goods sold exactly what it    *)
(* consumes (SaleUses).                                                    *)
(***************************************************************************)
EXTENDS StockCounts, Procurement, InventoryProofs

(***************************************************************************)
(* Stock counts.                                                           *)
(***************************************************************************)

\* Requests are in flight only for counts that exist, and nothing happened to the others.
InFlightExists ==
  /\ \A e \in Entries : entering[e] > 0 => count[e.count].status # "NONE"
  /\ \A c \in Counts : count[c].status = "NONE" => submitting[c] = 0 /\ resubmitted[c] = 0

\* What counts promise, and what makes it inductive.
CountsOK == CountPostsItsVariance /\ SubmittedIsCounted /\ InFlightExists

\* The inductive invariant of counts and stock.
CountInv == CountsOK /\ StockInv

------------------------------------------------------------------------------
(***************************************************************************)
(* The stock.                                                              *)
(***************************************************************************)

\* The gains and then the losses of a count, as its completion posts them.
LEMMA CompleteStock ==
  ASSUME StockInv, NEW c \in Counts, Complete(c),
         Gains(c) \in [Keys -> Nat], Losses(c) \in [Keys -> Nat],
         \A k \in Keys : Gains(c)[k] = 0 \/ Losses(c)[k] = 0
  PROVE  KeepsBook /\ BucketsHold'
<1> DEFINE gains == Gains(c)
           losses == Losses(c)
           between == PostedAll(balance, "ADJUSTMENT_GAIN", gains)
<1>1. /\ CanPostAll(balance, "ADJUSTMENT_LOSS", losses, FALSE)
      /\ balance' = PostedAll(between, "ADJUSTMENT_LOSS", losses)
      /\ ledger' = BookedAll(BookedAll(ledger, "ADJUSTMENT_GAIN", gains),
                             "ADJUSTMENT_LOSS", losses)
      /\ UNCHANGED << exceptions, synced >>
  BY DEF Complete
<1>2. gains \in [Keys -> Nat] /\ losses \in [Keys -> Nat]
  OBVIOUS
<1>3. \A k \in Keys : gains[k] = 0 \/ losses[k] = 0
  OBVIOUS
<1>4. "ADJUSTMENT_GAIN" \in MovementTypes /\ "ADJUSTMENT_LOSS" \in MovementTypes
  BY DEF MovementTypes
<1> HIDE DEF gains, losses
<1>5. CanPostAll(balance, "ADJUSTMENT_GAIN", gains, FALSE)
  BY <1>2 DEF CanPostAll, CanPost, RequiresSellable
<1>6. CanPostAll(between, "ADJUSTMENT_LOSS", losses, FALSE)
  <2> SUFFICES ASSUME NEW k \in Keys, losses[k] > 0
               PROVE  CanPost(between[k], "ADJUSTMENT_LOSS", losses[k], FALSE)
    BY <1>2 DEF CanPostAll
  <2>1. gains[k] = 0
    BY <1>2, <1>3
  <2>2. between[k] = balance[k]
    BY <2>1 DEF PostedAll, StockInv, StockTypeOK
  <2>3. CanPost(balance[k], "ADJUSTMENT_LOSS", losses[k], FALSE)
    BY <1>1, <1>2 DEF CanPostAll
  <2> QED BY <2>2, <2>3
<1> HIDE DEF between
<1> QED BY <1>1, <1>2, <1>4, <1>5, <1>6, PostBothStep DEF between

\* A variance is a number.
LEMMA VarianceIsInt ==
  ASSUME TypeOK, NEW c \in Counts
  PROVE  /\ \A k \in Keys : Variance(c, k) \in Int
         /\ Gains(c) \in [Keys -> Nat] /\ Losses(c) \in [Keys -> Nat]
         /\ \A k \in Keys : Gains(c)[k] = 0 \/ Losses(c)[k] = 0
<1>1. count[c] \in CountRows
  BY DEF TypeOK
<1>2. \A k \in Keys : Variance(c, k) \in Int
  BY <1>1 DEF Variance, CountRows, NotCounted
<1> QED BY <1>2 DEF Gains, Losses

\* Every step keeps the promises of the ledger.
LEMMA CountStockStep ==
  ASSUME CountInv, [Next]_vars
  PROVE  KeepsBook /\ BucketsHold'
<1>1. CASE ShopTrades
  <2>1. PICK type \in {"PURCHASE_RECEIPT", "SALE", "RESERVATION"}, lines \in Lines :
          PostDocument(type, lines)
    BY <1>1 DEF ShopTrades
  <2>2. type \in MovementTypes
    BY DEF MovementTypes
  <2>3. StockNext
    BY <2>1, <2>2 DEF StockNext
  <2> QED BY <2>3, StockStep DEF CountInv
<1>2. ASSUME NEW c \in Counts, Complete(c)
      PROVE  KeepsBook /\ BucketsHold'
  BY <1>2, VarianceIsInt, CompleteStock DEF CountInv, CountsOK, CountPostsItsVariance
<1>3. CASE UNCHANGED stockVars
  BY <1>3, StockStep DEF CountInv
<1>4. ASSUME NEW c \in Counts, NEW items \in (SUBSET Keys) \ {{}}, Create(c, items)
      PROVE  UNCHANGED stockVars
  BY <1>4, Zenon DEF Create
<1>5. ASSUME NEW c \in Counts, NEW k \in Keys, NEW qty \in Counted, ReadForEntry(c, k, qty)
      PROVE  UNCHANGED stockVars
  BY <1>5, Zenon DEF ReadForEntry
<1>6. ASSUME NEW e \in Entries, WriteEntry(e)
      PROVE  UNCHANGED stockVars
  BY <1>6, Zenon DEF WriteEntry
<1>7. ASSUME NEW c \in Counts, ReadForSubmit(c) \/ WriteSubmitted(c)
      PROVE  UNCHANGED stockVars
  BY <1>7, Zenon DEF ReadForSubmit, WriteSubmitted
<1>8. CASE UNCHANGED vars
  BY <1>3, <1>8 DEF vars, stockVars
<1> QED BY <1>1, <1>2, <1>3, <1>4, <1>5, <1>6, <1>7, <1>8, Zenon DEF Next

------------------------------------------------------------------------------
(***************************************************************************)
(* The counts, one lemma for each action that writes one.                  *)
(***************************************************************************)

\* One completion more is one variance more.
LEMMA OneTimeMore ==
  ASSUME NEW n \in Nat, NEW v \in Int
  PROVE  (n + 1) * v = n * v + v /\ 0 * v = 0
OBVIOUS

\* How often a count was completed, and what it records, are numbers.
LEMMA CountNumbers ==
  ASSUME TypeOK, NEW c \in Counts
  PROVE  /\ Completions(c) \in Nat
         /\ \A k \in Keys : RecordedVariance(c, k) \in Int /\ Variance(c, k) = RecordedVariance(c, k)
<1>1. count[c] \in CountRows /\ resubmitted[c] \in Nat
  BY DEF TypeOK
<1>2. \A k \in Keys : RecordedVariance(c, k) \in Int
  BY <1>1 DEF RecordedVariance, CountRows, NotCounted
<1> QED BY <1>1, <1>2 DEF Completions, RecordedVariance, Variance

\* A new count has no entries.
LEMMA CreateStep ==
  ASSUME CountInv, StockTypeOK', NEW c \in Counts, NEW items \in SUBSET Keys, Create(c, items)
  PROVE  CountsOK'
<1> DEFINE expected == [k \in Keys |-> IF k \in items THEN balance[k].onHand ELSE 0]
           row == [NoCount EXCEPT !.status = "IN_PROGRESS", !.items = items,
                     !.expectedQty = expected]
<1>0. /\ TypeOK /\ count[c].status = "NONE"
      /\ count' = [count EXCEPT ![c] = row]
      /\ UNCHANGED << balance, ledger, exceptions, synced, posted, entering, submitting,
                      resubmitted, reentered >>
  BY DEF CountInv, CountsOK, CountPostsItsVariance, Create, stockVars
<1>1. row \in CountRows /\ row.status = "IN_PROGRESS"
  <2>1. \A k \in Keys : balance[k].onHand \in Int
    BY <1>0 DEF TypeOK, StockTypeOK, Balances
  <2>2. expected \in [Keys -> Int]
    BY <2>1
  <2>3. NoCount \in CountRows
    BY DEF NoCount, CountRows
  <2> HIDE DEF expected
  <2> QED BY <2>2, <2>3 DEF CountRows
<1>2. \A d \in Counts : count'[d] = IF d = c THEN row ELSE count[d]
  BY <1>0 DEF TypeOK
<1> HIDE DEF row
<1>3. TypeOK'
  BY <1>0, <1>1 DEF TypeOK
<1>4. /\ submitting[c] = 0 /\ resubmitted[c] = 0
      /\ \A e \in Entries : entering[e] > 0 => e.count # c
  BY <1>0 DEF CountInv, CountsOK, InFlightExists
<1>5. CountPostsItsVariance'
  <2> SUFFICES ASSUME NEW d \in Counts, NEW k \in Keys, << d, k >> \notin reentered
               PROVE  posted[d][k] = Completions(d)' * RecordedVariance(d, k)'
    BY <1>0, <1>3 DEF CountPostsItsVariance
  <2>1. posted[d][k] = Completions(d) * RecordedVariance(d, k)
    BY DEF CountInv, CountsOK, CountPostsItsVariance
  <2>2. CASE d # c
    <3>1. Completions(d)' = Completions(d) /\ RecordedVariance(d, k)' = RecordedVariance(d, k)
      BY <1>0, <1>2, <2>2 DEF Completions, RecordedVariance
    <3> QED BY <2>1, <3>1
  <2>3. CASE d = c
    <3>1. Completions(d) = 0 /\ Completions(d)' = 0
      BY <1>0, <1>1, <1>2, <1>4, <2>3 DEF Completions
    <3>2. RecordedVariance(d, k) \in Int /\ RecordedVariance(d, k)' \in Int
      <4>1. RecordedVariance(d, k) \in Int
        BY <1>0, CountNumbers
      <4>2. RecordedVariance(d, k)' \in Int
        <5>1. count'[c] = row
          BY <1>2
        <5> QED BY <1>1, <2>3, <5>1 DEF RecordedVariance, CountRows, NotCounted
      <4> QED BY <4>1, <4>2
    <3> DEFINE v == RecordedVariance(d, k)
               w == RecordedVariance(d, k)'
    <3> HIDE DEF v, w
    <3>3. 0 * v = 0 /\ 0 * w = 0
      <4>1. v \in Int /\ w \in Int
        BY <3>2 DEF v, w
      <4> QED BY <4>1
    <3> QED BY <2>1, <3>1, <3>3 DEF v, w
  <2> QED BY <2>2, <2>3
<1>6. SubmittedIsCounted'
  BY <1>0, <1>1, <1>2, <1>4 DEF CountInv, CountsOK, SubmittedIsCounted
<1>7. InFlightExists'
  <2>1. \A e \in Entries : e.count \in Counts
    BY DEF Entries
  <2> QED BY <1>0, <1>1, <1>2, <1>4, <2>1 DEF CountInv, CountsOK, InFlightExists
<1> QED BY <1>5, <1>6, <1>7 DEF CountsOK

\* An entry is written, early or late.
LEMMA WriteEntryStep ==
  ASSUME CountInv, StockTypeOK', NEW e \in Entries, WriteEntry(e)
  PROVE  CountsOK'
<1> DEFINE c == e.count
           row == [count[c] EXCEPT !.countedQty[e.item] = e.qty]
<1>0. /\ TypeOK /\ entering[e] > 0
      /\ entering' = [entering EXCEPT ![e] = @ - 1]
      /\ count' = [count EXCEPT ![c] = row]
      /\ reentered' = IF Completions(c) > 0 THEN reentered \cup {<< c, e.item >>} ELSE reentered
      /\ UNCHANGED << balance, ledger, exceptions, synced, posted, submitting, resubmitted >>
  BY DEF CountInv, CountsOK, CountPostsItsVariance, WriteEntry, stockVars
<1>1. c \in Counts /\ e.item \in Keys /\ e.qty \in Nat /\ count[c] \in CountRows
  BY <1>0, CountedAssumption DEF TypeOK, Entries
<1>2. /\ row \in CountRows /\ row.status = count[c].status /\ row.items = count[c].items
      /\ row.expectedQty = count[c].expectedQty
      /\ \A k \in Keys : row.countedQty[k] = IF k = e.item THEN e.qty ELSE count[c].countedQty[k]
  <2> HIDE DEF c
  <2> QED BY <1>1 DEF CountRows
<1>3. \A d \in Counts : count'[d] = IF d = c THEN row ELSE count[d]
  BY <1>0 DEF TypeOK
<1>4. entering' \in [Entries -> Nat] /\ \A f \in Entries : entering'[f] <= entering[f]
  <2>1. entering \in [Entries -> Nat]
    BY <1>0 DEF TypeOK
  <2> QED BY <1>0, <2>1
<1> HIDE DEF row, c
<1>5. TypeOK'
  BY <1>0, <1>1, <1>2, <1>4 DEF TypeOK
<1>6. \A d \in Counts : Completions(d)' = Completions(d)
  BY <1>0, <1>2, <1>3 DEF Completions
<1>7. CountPostsItsVariance'
  <2> SUFFICES ASSUME NEW d \in Counts, NEW k \in Keys, << d, k >> \notin reentered'
               PROVE  posted[d][k] = Completions(d)' * RecordedVariance(d, k)'
    BY <1>0, <1>5 DEF CountPostsItsVariance
  <2>1. posted[d][k] = Completions(d) * RecordedVariance(d, k)
    BY <1>0 DEF CountInv, CountsOK, CountPostsItsVariance
  <2>2. CASE d # c \/ k # e.item
    <3>1. RecordedVariance(d, k)' = RecordedVariance(d, k)
      BY <1>2, <1>3, <2>2 DEF RecordedVariance
    <3> QED BY <1>6, <2>1, <3>1
  <2>3. CASE d = c /\ k = e.item
    <3>1. Completions(d) = 0
      BY <1>0, <2>3, CountNumbers
    <3>2. RecordedVariance(d, k) \in Int /\ RecordedVariance(d, k)' \in Int
      <4>1. RecordedVariance(d, k) \in Int
        BY <1>0, CountNumbers
      <4>2. count'[d] = row
        BY <1>3, <2>3
      <4>3. RecordedVariance(d, k)' \in Int
        BY <1>2, <4>2 DEF RecordedVariance, CountRows, NotCounted
      <4> QED BY <4>1, <4>3
    <3> DEFINE v == RecordedVariance(d, k)
               w == RecordedVariance(d, k)'
    <3> HIDE DEF v, w
    <3>3. 0 * v = 0 /\ 0 * w = 0
      <4>1. v \in Int /\ w \in Int
        BY <3>2 DEF v, w
      <4> QED BY <4>1
    <3> QED BY <1>6, <2>1, <3>1, <3>3 DEF v, w
  <2> QED BY <2>2, <2>3
<1>8. SubmittedIsCounted'
  <2> SUFFICES ASSUME NEW d \in Counts,
                      count'[d].status \in {"SUBMITTED", "COMPLETED"} \/ submitting[d] > 0,
                      NEW k \in count'[d].items
               PROVE  count'[d].countedQty[k] # NotCounted
    BY <1>0 DEF SubmittedIsCounted
  <2>1. /\ count'[d].status = count[d].status /\ count'[d].items = count[d].items
        /\ count[d] \in CountRows
    BY <1>0, <1>2, <1>3 DEF TypeOK
  <2>2. k \in Keys /\ count[d].countedQty[k] # NotCounted
    BY <2>1 DEF CountInv, CountsOK, SubmittedIsCounted, CountRows
  <2>3. count'[d].countedQty[k] \in {e.qty, count[d].countedQty[k]}
    BY <1>2, <1>3, <2>2
  <2> QED BY <1>1, <2>2, <2>3 DEF NotCounted
<1>9. InFlightExists'
  <2>1. \A d \in Counts : count'[d].status = count[d].status
    BY <1>2, <1>3
  <2>2. \A f \in Entries : f.count \in Counts /\ (entering'[f] > 0 => entering[f] > 0)
    <3>1. \A f \in Entries : entering[f] \in Nat /\ entering'[f] \in Nat
      BY <1>0, <1>4 DEF TypeOK
    <3> QED BY <1>4, <3>1 DEF Entries
  <2> QED BY <1>0, <2>1, <2>2 DEF CountInv, CountsOK, InFlightExists
<1> QED BY <1>7, <1>8, <1>9 DEF CountsOK

\* Submitting leaves the entries alone, and undoes a completion.
LEMMA WriteSubmittedStep ==
  ASSUME CountInv, StockTypeOK', NEW c \in Counts, WriteSubmitted(c)
  PROVE  CountsOK'
<1> DEFINE row == [count[c] EXCEPT !.status = "SUBMITTED"]
<1>0. /\ TypeOK /\ submitting[c] > 0
      /\ submitting' = [submitting EXCEPT ![c] = @ - 1]
      /\ count' = [count EXCEPT ![c] = row]
      /\ resubmitted' = [resubmitted EXCEPT ![c] = Completions(c)]
      /\ UNCHANGED << balance, ledger, exceptions, synced, posted, entering, reentered >>
  BY DEF CountInv, CountsOK, CountPostsItsVariance, WriteSubmitted, stockVars
<1>1. count[c] \in CountRows /\ Completions(c) \in Nat
  BY <1>0, CountNumbers DEF TypeOK
<1>2. /\ row \in CountRows /\ row.status = "SUBMITTED" /\ row.items = count[c].items
      /\ row.expectedQty = count[c].expectedQty /\ row.countedQty = count[c].countedQty
  BY <1>1 DEF CountRows
<1>3. \A d \in Counts : count'[d] = IF d = c THEN row ELSE count[d]
  BY <1>0 DEF TypeOK
<1>4. /\ submitting' \in [Counts -> Nat] /\ resubmitted' \in [Counts -> Nat]
      /\ \A d \in Counts : /\ submitting[d] \in Nat /\ submitting'[d] \in Nat
                           /\ submitting'[d] <= submitting[d]
                           /\ d # c => submitting'[d] = submitting[d]
                           /\ resubmitted'[d] = IF d = c THEN Completions(c) ELSE resubmitted[d]
  <2>1. submitting \in [Counts -> Nat] /\ resubmitted \in [Counts -> Nat]
    BY <1>0 DEF TypeOK
  <2> QED BY <1>0, <1>1, <2>1
<1> HIDE DEF row
<1>5. TypeOK'
  BY <1>0, <1>2, <1>4 DEF TypeOK
<1>6. \A d \in Counts : Completions(d)' = Completions(d)
  <2> SUFFICES ASSUME NEW d \in Counts PROVE Completions(d)' = Completions(d)
    OBVIOUS
  <2>1. Completions(d)' = resubmitted'[d] + IF count'[d].status = "COMPLETED" THEN 1 ELSE 0
    BY DEF Completions
  <2>2. CASE d = c
    <3>1. count'[d].status = "SUBMITTED" /\ resubmitted'[d] = Completions(d)
      BY <1>2, <1>3, <1>4, <2>2
    <3> QED BY <1>1, <2>1, <2>2, <3>1
  <2>3. CASE d # c
    BY <1>3, <1>4, <2>3 DEF Completions
  <2> QED BY <2>2, <2>3
<1>7. CountPostsItsVariance'
  <2>1. \A d \in Counts, k \in Keys : RecordedVariance(d, k)' = RecordedVariance(d, k)
    BY <1>2, <1>3 DEF RecordedVariance
  <2> QED BY <1>0, <1>5, <1>6, <2>1 DEF CountInv, CountsOK, CountPostsItsVariance
<1>8. SubmittedIsCounted'
  <2> SUFFICES ASSUME NEW d \in Counts,
                      count'[d].status \in {"SUBMITTED", "COMPLETED"} \/ submitting'[d] > 0,
                      NEW k \in count'[d].items
               PROVE  count'[d].countedQty[k] # NotCounted
    BY DEF SubmittedIsCounted
  <2>1. count[d].status \in {"SUBMITTED", "COMPLETED"} \/ submitting[d] > 0
    BY <1>0, <1>3, <1>4
  <2> QED BY <1>2, <1>3, <2>1 DEF CountInv, CountsOK, SubmittedIsCounted
<1>9. InFlightExists'
  <2>1. \A e \in Entries : e.count \in Counts
    BY DEF Entries
  <2>2. \A d \in Counts : count'[d].status = "NONE" => d # c /\ count[d].status = "NONE"
    BY <1>2, <1>3
  <2>3. \A d \in Counts : count[d].status # "NONE" => count'[d].status # "NONE"
    BY <1>2, <1>3
  <2> QED BY <1>0, <1>4, <2>1, <2>2, <2>3 DEF CountInv, CountsOK, InFlightExists
<1> QED BY <1>7, <1>8, <1>9 DEF CountsOK

\* A completion posts the variance of its entries once more.
LEMMA CompleteStep ==
  ASSUME CountInv, StockTypeOK', NEW c \in Counts, Complete(c)
  PROVE  CountsOK'
<1> DEFINE row == [count[c] EXCEPT !.status = "COMPLETED"]
           sums == [k \in Keys |-> posted[c][k] + Variance(c, k)]
<1>0. /\ TypeOK /\ count[c].status = "SUBMITTED"
      /\ count' = [count EXCEPT ![c] = row]
      /\ posted' = [posted EXCEPT ![c] = sums]
      /\ UNCHANGED << exceptions, synced, entering, submitting, resubmitted, reentered >>
  BY DEF CountInv, CountsOK, CountPostsItsVariance, Complete
<1>1. count[c] \in CountRows /\ posted[c] \in [Keys -> Int] /\ resubmitted[c] \in Nat
  BY <1>0 DEF TypeOK
<1>2. /\ row \in CountRows /\ row.status = "COMPLETED" /\ row.items = count[c].items
      /\ row.expectedQty = count[c].expectedQty /\ row.countedQty = count[c].countedQty
  BY <1>1 DEF CountRows
<1>3. \A d \in Counts : /\ count'[d] = IF d = c THEN row ELSE count[d]
                        /\ posted'[d] = IF d = c THEN sums ELSE posted[d]
  BY <1>0 DEF TypeOK
<1>4. \A k \in Keys : Variance(c, k) \in Int
  BY <1>0, VarianceIsInt
<1>5. sums \in [Keys -> Int] /\ \A k \in Keys : sums[k] = posted[c][k] + Variance(c, k)
  <2> HIDE DEF row
  <2> QED BY <1>1, <1>4
<1> HIDE DEF row, sums
<1>6. TypeOK'
  BY <1>0, <1>2, <1>5 DEF TypeOK
<1>7. CountPostsItsVariance'
  <2> SUFFICES ASSUME NEW d \in Counts, NEW k \in Keys, << d, k >> \notin reentered
               PROVE  posted'[d][k] = Completions(d)' * RecordedVariance(d, k)'
    BY <1>0, <1>6 DEF CountPostsItsVariance
  <2>1. posted[d][k] = Completions(d) * RecordedVariance(d, k)
    BY DEF CountInv, CountsOK, CountPostsItsVariance
  <2>2. RecordedVariance(d, k)' = RecordedVariance(d, k)
    BY <1>2, <1>3 DEF RecordedVariance
  <2>3. CASE d # c
    <3>1. Completions(d)' = Completions(d) /\ posted'[d] = posted[d]
      BY <1>0, <1>3, <2>3 DEF Completions
    <3> QED BY <2>1, <2>2, <3>1
  <2>4. CASE d = c
    <3> DEFINE n == Completions(d)
               v == RecordedVariance(d, k)
    <3>1. n \in Nat /\ v \in Int /\ Variance(c, k) = v
      BY <1>0, <2>4, CountNumbers
    <3>2. Completions(d)' = n + 1
      BY <1>0, <1>1, <1>2, <1>3, <2>4 DEF Completions
    <3>3. posted'[d][k] = posted[d][k] + v
      BY <1>3, <1>5, <2>4, <3>1
    <3> HIDE DEF n, v
    <3>4. (n + 1) * v = n * v + v
      BY <3>1, OneTimeMore
    <3>5. posted'[d][k] = n * v + v
      BY <2>1, <3>3 DEF n, v
    <3> QED BY <2>2, <3>2, <3>4, <3>5 DEF v
  <2> QED BY <2>3, <2>4
<1>8. SubmittedIsCounted'
  BY <1>0, <1>2, <1>3 DEF CountInv, CountsOK, SubmittedIsCounted
<1>9. InFlightExists'
  <2>1. \A e \in Entries : e.count \in Counts
    BY DEF Entries
  <2> QED BY <1>0, <1>2, <1>3, <2>1 DEF CountInv, CountsOK, InFlightExists
<1> QED BY <1>7, <1>8, <1>9 DEF CountsOK

------------------------------------------------------------------------------

\* Every step keeps the counts, given what it does to the stock.
LEMMA CountStep ==
  ASSUME CountInv, StockTypeOK', [Next]_vars
  PROVE  CountsOK'
<1>0. TypeOK
  BY DEF CountInv, CountsOK, CountPostsItsVariance
<1>1. CASE UNCHANGED countVars
  <2>1. TypeOK'
    BY <1>0, <1>1 DEF TypeOK, countVars
  <2>2. /\ \A c \in Counts : Completions(c)' = Completions(c)
        /\ \A c \in Counts, k \in Keys : RecordedVariance(c, k)' = RecordedVariance(c, k)
    BY <1>1 DEF countVars, Completions, RecordedVariance
  <2>3. CountPostsItsVariance'
    BY <1>1, <2>1, <2>2 DEF countVars, CountInv, CountsOK, CountPostsItsVariance
  <2> QED BY <1>1, <2>3 DEF countVars, CountInv, CountsOK, SubmittedIsCounted, InFlightExists
<1>2. ASSUME NEW c \in Counts, NEW items \in (SUBSET Keys) \ {{}}, Create(c, items)
      PROVE  CountsOK'
  BY <1>2, CreateStep
<1>3. ASSUME UNCHANGED << count, posted, resubmitted, reentered >>, TypeOK'
      PROVE  CountPostsItsVariance'
  <2>1. /\ \A c \in Counts : Completions(c)' = Completions(c)
        /\ \A c \in Counts, k \in Keys : RecordedVariance(c, k)' = RecordedVariance(c, k)
    BY <1>3 DEF Completions, RecordedVariance
  <2> QED BY <1>3, <2>1 DEF CountInv, CountsOK, CountPostsItsVariance
<1>4. ASSUME NEW c \in Counts, NEW k \in Keys, NEW qty \in Counted, ReadForEntry(c, k, qty)
      PROVE  CountsOK'
  <2> DEFINE e == [count |-> c, item |-> k, qty |-> qty]
  <2>1. /\ entering' = [entering EXCEPT ![e] = @ + 1]
        /\ count[c].status # "NONE"
        /\ UNCHANGED << balance, ledger, exceptions, synced, count, posted, submitting,
                        resubmitted, reentered >>
    BY <1>4 DEF ReadForEntry, stockVars
  <2>2. entering \in [Entries -> Nat] /\ e \in Entries /\ e.count = c
    BY <1>0 DEF TypeOK, Entries
  <2> HIDE DEF e
  <2>3. /\ entering' \in [Entries -> Nat]
        /\ \A f \in Entries : f # e => entering'[f] = entering[f]
    BY <2>1, <2>2
  <2>4. TypeOK'
    BY <1>0, <2>1, <2>3 DEF TypeOK
  <2>5. InFlightExists'
    BY <2>1, <2>2, <2>3 DEF CountInv, CountsOK, InFlightExists
  <2>6. CountPostsItsVariance'
    BY <1>3, <2>1, <2>4
  <2> QED BY <2>1, <2>5, <2>6 DEF CountInv, CountsOK, SubmittedIsCounted
<1>5. ASSUME NEW e \in Entries, WriteEntry(e) PROVE CountsOK'
  BY <1>5, WriteEntryStep
<1>6. ASSUME NEW c \in Counts, ReadForSubmit(c) PROVE CountsOK'
  <2>1. /\ submitting' = [submitting EXCEPT ![c] = @ + 1]
        /\ count[c].status = "IN_PROGRESS"
        /\ \A k \in count[c].items : count[c].countedQty[k] # NotCounted
        /\ UNCHANGED << balance, ledger, exceptions, synced, count, posted, entering,
                        resubmitted, reentered >>
    BY <1>6 DEF ReadForSubmit, stockVars
  <2>2. submitting \in [Counts -> Nat]
    BY <1>0 DEF TypeOK
  <2>3. /\ submitting' \in [Counts -> Nat]
        /\ \A d \in Counts : d # c => submitting'[d] = submitting[d]
    BY <2>1, <2>2
  <2>4. TypeOK'
    BY <1>0, <2>1, <2>3 DEF TypeOK
  <2>5. InFlightExists' /\ SubmittedIsCounted'
    BY <2>1, <2>3 DEF CountInv, CountsOK, InFlightExists, SubmittedIsCounted
  <2>6. CountPostsItsVariance'
    BY <1>3, <2>1, <2>4
  <2> QED BY <2>5, <2>6 DEF CountsOK
<1>7. ASSUME NEW c \in Counts, WriteSubmitted(c) PROVE CountsOK'
  BY <1>7, WriteSubmittedStep
<1>8. ASSUME NEW c \in Counts, Complete(c) PROVE CountsOK'
  BY <1>8, CompleteStep
<1>9. CASE UNCHANGED vars
  BY <1>1, <1>9 DEF vars, countVars
<1>10. CASE ShopTrades
  BY <1>1, <1>10 DEF ShopTrades
<1> QED BY <1>2, <1>4, <1>5, <1>6, <1>7, <1>8, <1>9, <1>10 DEF Next

\* At first there is no count.
LEMMA CountInitInv == Init => CountInv
<1> SUFFICES ASSUME Init PROVE CountInv
  OBVIOUS
<1>1. StockInv /\ StockTypeOK
  BY StockInitInv DEF Init, StockInv
<1>2. NoCount \in CountRows /\ NoCount.status = "NONE" /\ NoCount.items = {}
  BY DEF NoCount, CountRows
<1>3. TypeOK
  BY <1>1, <1>2 DEF Init, TypeOK
<1>4. CountPostsItsVariance
  <2> SUFFICES ASSUME NEW c \in Counts, NEW k \in Keys
               PROVE  posted[c][k] = Completions(c) * RecordedVariance(c, k)
    BY <1>3 DEF CountPostsItsVariance
  <2>1. posted[c][k] = 0 /\ Completions(c) = 0 /\ RecordedVariance(c, k) = 0
    BY <1>2 DEF Init, Completions, RecordedVariance
  <2> QED BY <2>1
<1>5. SubmittedIsCounted /\ InFlightExists
  <2>1. \A e \in Entries : e.count \in Counts
    BY DEF Entries
  <2> QED BY <1>2, <2>1 DEF Init, SubmittedIsCounted, InFlightExists
<1> QED BY <1>1, <1>4, <1>5 DEF CountInv, CountsOK

\* CountInv is inductive.
THEOREM CountInvariant == Spec => []CountInv
<1>1. CountInv /\ [Next]_vars => CountInv'
  <2> SUFFICES ASSUME CountInv, [Next]_vars PROVE CountInv'
    OBVIOUS
  <2>1. KeepsBook /\ BucketsHold'
    BY CountStockStep
  <2>2. StockInv'
    BY <2>1, StockInvKept DEF CountInv
  <2>3. CountsOK'
    BY <2>2, CountStep DEF StockInv
  <2> QED BY <2>2, <2>3 DEF CountInv
<1> QED BY <1>1, CountInitInv, PTL DEF Spec

\* A count has adjusted the ledger by the variance it records, once for every time it was
\* completed: not before its completion, and a second time only after a submission that
\* was written when it was completed (for a line that no entry wrote after a completion).
\* All values have their types.
THEOREM VarianceCorrect == Spec => []CountPostsItsVariance
<1>1. CountInv => CountPostsItsVariance
  BY DEF CountInv, CountsOK
<1> QED BY <1>1, CountInvariant, PTL

\* A count that is submitted, or about to be, has a quantity on every line.
THEOREM SubmittedCorrect == Spec => []SubmittedIsCounted
<1>1. CountInv => SubmittedIsCounted
  BY DEF CountInv, CountsOK
<1> QED BY <1>1, CountInvariant, PTL

\* Counting keeps the promises of the stock book: the gains and the losses that a
\* completion posts in one transaction, with the shop trading meanwhile, never part
\* the ledger from what is available and leave no shortfall without a record.
THEOREM CountsImplementBook == Spec => ImplementsStockBook
<1>1. Init => Book!Init
  BY BookInit DEF Init
<1>2. CountInv /\ [Next]_vars => [Book!Transact]_(Book!vars)
  BY CountStockStep, BookStep
<1> QED BY <1>1, <1>2, CountInvariant, PTL DEF Spec, ImplementsStockBook, Book!Spec

------------------------------------------------------------------------------
(***************************************************************************)
(* Purchase orders and receipts.                                           *)
(***************************************************************************)

\* Rows of goods receipts and of orders.
ReceiptRows == [ extra : Extras, lines : Seq(ReceiptLines) ]

OrderRows == [ status : PoStatuses, ordered : [Keys -> Nat],
               cost : [Keys -> Nat], received : [Keys -> Nat] ]

\* What the receipts of an order brought of an item, what they cost, and their pieces.
BroughtBy(docs, k) == SumFunction([n \in DOMAIN docs |-> QtyOf(docs[n].lines, k)])

PaidBy(cost, docs) == SumFunction([n \in DOMAIN docs |-> PaidFor(cost, docs[n])])

PiecesBy(docs) == SumFunction([n \in DOMAIN docs |-> PiecesOf(docs[n])])

\* What a receipt says adds up to numbers, line by line.
LEMMA ReceiptAddsUp ==
  ASSUME NEW doc \in ReceiptRows, NEW cost \in [Keys -> Nat]
  PROVE  /\ \A k \in Keys : QtyOf(doc.lines, k) \in Nat
         /\ PaidFor(cost, doc) \in Nat
         /\ PiecesOf(doc) \in Nat
<1> DEFINE rows == doc.lines
           S == DOMAIN rows
           goods == [n \in S |-> Goods(cost, rows[n])]
           pieces == [n \in S |-> rows[n].qty]
<1>1. rows \in Seq(ReceiptLines) /\ doc.extra \in Nat
  BY ExtrasAssumption DEF ReceiptRows
<1> HIDE DEF rows
<1>2. IsFiniteSet(S) /\ \A n \in S : rows[n] \in ReceiptLines
  BY <1>1, LenProperties, ElementOfSeq, FS_Interval
<1>3. \A n \in S : rows[n].qty \in Nat /\ rows[n].item \in Keys
  BY <1>2 DEF ReceiptLines
<1>4. \A n \in S : goods[n] \in Nat
  <2> SUFFICES ASSUME NEW n \in S PROVE goods[n] \in Nat
    OBVIOUS
  <2> DEFINE q == rows[n].qty
             c == cost[rows[n].item]
  <2>1. q \in Nat /\ c \in Nat /\ goods[n] = q * c
    BY <1>3 DEF Goods
  <2> HIDE DEF q, c, goods
  <2> QED BY <2>1
<1>5. \A n \in S : pieces[n] \in Nat
  BY <1>3
<1>6. /\ PaidFor(cost, doc) = SumFunctionOnSet(goods, S)
                                + IF SumFunctionOnSet(goods, S) > 0 THEN doc.extra ELSE 0
      /\ PiecesOf(doc) = SumFunctionOnSet(pieces, S)
  BY DEF PaidFor, PiecesOf, SumFunction, rows
<1> HIDE DEF goods, pieces, S
<1>7. SumFunctionOnSet(goods, S) \in Nat
  <2>1. (\A n \in S : goods[n] \in Int) /\ (\A n \in S : goods[n] >= 0)
    BY <1>4
  <2>2. SumFunctionOnSet(goods, S) \in Int /\ SumFunctionOnSet(goods, S) >= 0
    BY <1>2, <2>1, SumType
  <2> QED BY <2>2
<1>8. SumFunctionOnSet(pieces, S) \in Nat
  <2>1. (\A n \in S : pieces[n] \in Int) /\ (\A n \in S : pieces[n] >= 0)
    BY <1>5
  <2>2. SumFunctionOnSet(pieces, S) \in Int /\ SumFunctionOnSet(pieces, S) >= 0
    BY <1>2, <2>1, SumType
  <2> QED BY <2>2
<1>9. ASSUME NEW k \in Keys PROVE QtyOf(rows, k) \in Nat
  <2> DEFINE f == [n \in S |-> IF rows[n].item = k THEN rows[n].qty ELSE 0]
  <2>1. (\A n \in S : f[n] \in Int) /\ (\A n \in S : f[n] >= 0)
    BY <1>3
  <2>2. QtyOf(rows, k) = SumFunctionOnSet(f, S)
    BY DEF QtyOf, SumFunction, S
  <2> HIDE DEF f
  <2>3. SumFunctionOnSet(f, S) \in Int /\ SumFunctionOnSet(f, S) >= 0
    BY <1>2, <2>1, SumType
  <2> QED BY <2>2, <2>3
<1>10. PaidFor(cost, doc) \in Nat
  BY <1>1, <1>6, <1>7
<1> QED BY <1>6, <1>8, <1>9, <1>10 DEF rows

\* One more receipt adds what it says.
LEMMA ReceiptAppended ==
  ASSUME NEW docs \in Seq(ReceiptRows), NEW doc \in ReceiptRows, NEW cost \in [Keys -> Nat]
  PROVE  LET more == Append(docs, doc) IN
         /\ more \in Seq(ReceiptRows) /\ Len(more) = Len(docs) + 1
         /\ \A k \in Keys : /\ BroughtBy(docs, k) \in Int
                            /\ BroughtBy(more, k) = BroughtBy(docs, k) + QtyOf(doc.lines, k)
         /\ PaidBy(cost, docs) \in Int
         /\ PaidBy(cost, more) = PaidBy(cost, docs) + PaidFor(cost, doc)
         /\ PiecesBy(docs) \in Int
         /\ PiecesBy(more) = PiecesBy(docs) + PiecesOf(doc)
<1> DEFINE n == Len(docs)
           more == Append(docs, doc)
<1>1. /\ more \in Seq(ReceiptRows) /\ Len(more) = n + 1
      /\ n \in Nat /\ DOMAIN docs = 1..n /\ DOMAIN more = 1..(n + 1)
      /\ more[n + 1] = doc /\ \A d \in 1..n : more[d] = docs[d] /\ docs[d] \in ReceiptRows
  BY AppendProperties, LenProperties, ElementOfSeq
<1> HIDE DEF n, more
<1>2. n + 1 \in 1..(n + 1) /\ \A d \in 1..n : d \in 1..(n + 1)
  BY <1>1
<1>3. ASSUME NEW k \in Keys
      PROVE  /\ BroughtBy(docs, k) \in Int
             /\ BroughtBy(more, k) = BroughtBy(docs, k) + QtyOf(doc.lines, k)
  <2> DEFINE f == [d \in DOMAIN docs |-> QtyOf(docs[d].lines, k)]
             g == [d \in DOMAIN more |-> QtyOf(more[d].lines, k)]
  <2>1. /\ DOMAIN f = 1..n /\ DOMAIN g = 1..(n + 1) /\ g[n + 1] = QtyOf(doc.lines, k)
        /\ \A d \in 1..n : f[d] = QtyOf(docs[d].lines, k) /\ g[d] = f[d]
    BY <1>1, <1>2
  <2>2. BroughtBy(docs, k) = SumFunction(f) /\ BroughtBy(more, k) = SumFunction(g)
    BY DEF BroughtBy
  <2> HIDE DEF f, g
  <2>3. \A d \in 1..n : f[d] \in Int
    BY <1>1, <2>1, ReceiptAddsUp
  <2>4. g[n + 1] \in Int
    BY <2>1, ReceiptAddsUp
  <2>5. SumFunction(f) \in Int /\ SumFunction(g) = SumFunction(f) + g[n + 1]
    BY <1>1, <2>1, <2>3, <2>4, SumGrows
  <2> QED BY <2>1, <2>2, <2>5
<1>4. /\ PaidBy(cost, docs) \in Int
      /\ PaidBy(cost, more) = PaidBy(cost, docs) + PaidFor(cost, doc)
  <2> DEFINE f == [d \in DOMAIN docs |-> PaidFor(cost, docs[d])]
             g == [d \in DOMAIN more |-> PaidFor(cost, more[d])]
  <2>1. /\ DOMAIN f = 1..n /\ DOMAIN g = 1..(n + 1) /\ g[n + 1] = PaidFor(cost, doc)
        /\ \A d \in 1..n : f[d] = PaidFor(cost, docs[d]) /\ g[d] = f[d]
    BY <1>1, <1>2
  <2>2. PaidBy(cost, docs) = SumFunction(f) /\ PaidBy(cost, more) = SumFunction(g)
    BY DEF PaidBy
  <2> HIDE DEF f, g
  <2>3. \A d \in 1..n : f[d] \in Int
    BY <1>1, <2>1, ReceiptAddsUp
  <2>4. g[n + 1] \in Int
    BY <2>1, ReceiptAddsUp
  <2>5. SumFunction(f) \in Int /\ SumFunction(g) = SumFunction(f) + g[n + 1]
    BY <1>1, <2>1, <2>3, <2>4, SumGrows
  <2> QED BY <2>1, <2>2, <2>5
<1>5. PiecesBy(docs) \in Int /\ PiecesBy(more) = PiecesBy(docs) + PiecesOf(doc)
  <2> DEFINE f == [d \in DOMAIN docs |-> PiecesOf(docs[d])]
             g == [d \in DOMAIN more |-> PiecesOf(more[d])]
  <2>1. /\ DOMAIN f = 1..n /\ DOMAIN g = 1..(n + 1) /\ g[n + 1] = PiecesOf(doc)
        /\ \A d \in 1..n : f[d] = PiecesOf(docs[d]) /\ g[d] = f[d]
    BY <1>1, <1>2
  <2>2. PiecesBy(docs) = SumFunction(f) /\ PiecesBy(more) = SumFunction(g)
    BY DEF PiecesBy
  <2> HIDE DEF f, g
  <2>3. \A d \in 1..n : f[d] \in Int
    BY <1>1, <2>1, ReceiptAddsUp
  <2>4. g[n + 1] \in Int
    BY <2>1, ReceiptAddsUp
  <2>5. SumFunction(f) \in Int /\ SumFunction(g) = SumFunction(f) + g[n + 1]
    BY <1>1, <2>1, <2>3, <2>4, SumGrows
  <2> QED BY <2>1, <2>2, <2>5
<1> QED BY <1>1, <1>3, <1>4, <1>5 DEF more, n

\* Without receipts nothing came and nothing was paid.
LEMMA NoReceipts ==
  /\ \A k \in Keys : BroughtBy(<< >>, k) = 0
  /\ \A cost : PaidBy(cost, << >>) = 0
  /\ PiecesBy(<< >>) = 0
<1>1. ASSUME NEW f, DOMAIN f = {} PROVE SumFunction(f) = 0
  BY <1>1, SumEmpty DEF SumFunction
<1>2. ASSUME NEW k \in Keys PROVE BroughtBy(<< >>, k) = 0
  <2> DEFINE f == [d \in DOMAIN << >> |-> QtyOf(<< >>[d].lines, k)]
  <2>1. DOMAIN f = {} /\ BroughtBy(<< >>, k) = SumFunction(f)
    BY DEF BroughtBy
  <2> HIDE DEF f
  <2> QED BY <1>1, <2>1
<1>3. ASSUME NEW cost PROVE PaidBy(cost, << >>) = 0
  <2> DEFINE f == [d \in DOMAIN << >> |-> PaidFor(cost, << >>[d])]
  <2>1. DOMAIN f = {} /\ PaidBy(cost, << >>) = SumFunction(f)
    BY DEF PaidBy
  <2> HIDE DEF f
  <2> QED BY <1>1, <2>1
<1>4. PiecesBy(<< >>) = 0
  <2> DEFINE f == [d \in DOMAIN << >> |-> PiecesOf(<< >>[d])]
  <2>1. DOMAIN f = {} /\ PiecesBy(<< >>) = SumFunction(f)
    BY DEF PiecesBy
  <2> HIDE DEF f
  <2> QED BY <1>1, <2>1
<1> QED BY <1>2, <1>3, <1>4

------------------------------------------------------------------------------
(***************************************************************************)
(* One receipt: its landed costs.                                          *)
(***************************************************************************)

\* A stored amount is a number.
LEMMA RoundedIsNat ==
  ASSUME NEW n \in Nat, NEW d \in Nat \ {0}
  PROVE  Rounded(n, d) \in Nat /\ 2 * (d * Rounded(n, d) - n) \in (-d)..d
BY RoundedIsClose DEF Rounded

\* What a line of a receipt is stored as: row, of these goods, out of goods of that total.
Bears(line, row, goods, total, extra) ==
  /\ goods \in Nat
  /\ line.item = row.item /\ line.qty = row.qty
  /\ line \in ReceiptLines
  /\ total > 0 => Close(total, total + extra, line.qty * line.landed, goods, line.qty)
  /\ total = 0 /\ goods = 0 => line.landed = 0

\* One line of a receipt: q pieces at c, of goods that cost total together.
LEMMA LandedLine ==
  ASSUME NEW cost \in [Keys -> Nat], NEW row \in [item : Keys, qty : Quantities],
         NEW total \in Nat, NEW extra \in Nat
  PROVE  Bears(Landed(cost, row, total, extra), row, Goods(cost, row), total, extra)
<1> DEFINE line == Landed(cost, row, total, extra)
           goods == Goods(cost, row)
           q == row.qty
           share == Share(goods, total, extra)
<1>1. goods \in Nat
  <2> DEFINE c == cost[row.item]
  <2>1. goods = q * c /\ q \in Nat /\ c \in Nat
    BY QuantitiesAssumption DEF Goods
  <2> HIDE DEF goods, q, c
  <2> QED BY <2>1
<1>2. line = [ item |-> row.item, qty |-> q, allocated |-> Rounded(share[1], share[2]),
               landed |-> Rounded(goods * share[2] + share[1], share[2] * q) ]
  BY DEF Landed
<1> DEFINE each == Rounded(goods * share[2] + share[1], share[2] * q)
<1>3. line.item = row.item /\ line.qty = q /\ line.landed = each
      /\ line.allocated = Rounded(share[1], share[2])
  <2> HIDE DEF line
  <2> QED BY <1>2
<1>4. q \in Nat \ {0} /\ row.item \in Keys
  BY QuantitiesAssumption
<1> HIDE DEF goods, q
<1>5. CASE total > 0
  <2> DEFINE d == total * q
             sum == goods * total + extra * goods
             v == q * each
  <2>1. share[1] = extra * goods /\ share[2] = total
    BY <1>5 DEF Share
  <2>2. sum \in Nat /\ d \in Nat \ {0} /\ extra * goods \in Nat
    BY <1>1, <1>4, <1>5, Z3
  <2>3. each = Rounded(sum, d)
    BY <2>1
  <2> HIDE DEF sum, d
  <2>4. each \in Nat /\ 2 * (d * each - sum) \in (-d)..d
    BY <2>2, <2>3, RoundedIsNat
  <2> HIDE DEF each
  <2>5. d * each = total * v
    BY <1>4, <2>4, Z3 DEF d, v
  <2>6. sum = (total + extra) * goods
    BY <1>1, Z3 DEF sum
  <2>7. Close(total, total + extra, v, goods, q)
    BY <2>4, <2>5, <2>6 DEF Close, d
  <2>8. line.allocated \in Nat
    <3> DEFINE a == extra * goods
    <3>1. a \in Nat /\ total \in Nat \ {0}
      BY <1>5, <2>2
    <3> HIDE DEF a
    <3>2. Rounded(a, total) \in Nat
      BY <3>1, RoundedIsNat
    <3> QED BY <1>3, <2>1, <3>2 DEF a
  <2>9. line \in ReceiptLines
    <3> DEFINE a == line.allocated
    <3>1. line = [ item |-> row.item, qty |-> q, allocated |-> a, landed |-> each ]
      BY <1>2 DEF each
    <3> HIDE DEF line, a
    <3>2. a \in Nat
      BY <2>8 DEF a
    <3> QED BY <1>4, <2>4, <3>1, <3>2 DEF ReceiptLines
  <2> HIDE DEF line
  <2> QED BY <1>1, <1>3, <1>5, <2>7, <2>9 DEF Bears, q, goods, v, line
<1>6. CASE total = 0
  <2>1. share[1] = 0 /\ share[2] = 1
    BY <1>6 DEF Share
  <2>2. goods * share[2] + share[1] = goods /\ share[2] * q = q
    BY <1>1, <1>4, <2>1
  <2>3. each = Rounded(goods, q)
    BY <2>2
  <2>4. each \in Nat /\ 2 * (q * each - goods) \in (-q)..q
    BY <1>1, <1>4, <2>3, RoundedIsNat
  <2>5. goods = 0 => each = 0
    <3> HIDE DEF each
    <3> SUFFICES ASSUME goods = 0 PROVE each = 0
      OBVIOUS
    <3> DEFINE v == q * each
    <3>1. v \in Nat /\ 2 * v <= q
      BY <1>1, <1>4, <2>4
    <3>2. each > 0 => v >= q
      BY <1>4, <2>4, Z3
    <3> HIDE DEF v
    <3> QED BY <1>4, <2>4, <3>1, <3>2
  <2>6. line.allocated \in Nat
    <3>1. Rounded(0, 1) \in Nat
      BY RoundedIsNat
    <3> QED BY <1>3, <2>1, <3>1
  <2>7. line \in ReceiptLines
    <3> DEFINE a == line.allocated
    <3>1. line = [ item |-> row.item, qty |-> q, allocated |-> a, landed |-> each ]
      BY <1>2 DEF each
    <3> HIDE DEF line, a, each
    <3>2. a \in Nat
      BY <2>6 DEF a
    <3> QED BY <1>4, <2>4, <3>1, <3>2 DEF ReceiptLines
  <2> HIDE DEF line, each
  <2> QED BY <1>1, <1>3, <1>6, <2>5, <2>7 DEF Bears, q, goods, line
<1> QED BY <1>5, <1>6

\* The rows that a receipt writes for the lines it is asked to.
LinesOf(cost, rows, extra) ==
  LET total == SumFunction([n \in DOMAIN rows |-> Goods(cost, rows[n])])
  IN  [n \in DOMAIN rows |-> Landed(cost, rows[n], total, extra)]

\* What the rows of a receipt are worth in the stock.
Worth(lines) == [n \in DOMAIN lines |-> lines[n].qty * lines[n].landed]

\* What a receipt puts into the stock is what it cost, up to half a unit a piece.
LEMMA ReceiptIsWorth ==
  ASSUME NEW cost \in [Keys -> Nat], NEW m \in Nat,
         NEW rows \in [1..m -> [item : Keys, qty : Quantities]], NEW extra \in Extras
  PROVE  LET lines == LinesOf(cost, rows, extra)
             doc == [extra |-> extra, lines |-> lines]
         IN  /\ lines \in Seq(ReceiptLines) /\ doc \in ReceiptRows /\ DOMAIN lines = 1..m
             /\ \A n \in 1..m : lines[n].item = rows[n].item /\ lines[n].qty = rows[n].qty
             /\ \A k \in Keys : QtyOf(lines, k) = QtyOf(rows, k)
             /\ SumFunctionOnSet(Worth(lines), 1..m) \in Int
             /\ 2 * (SumFunctionOnSet(Worth(lines), 1..m) - PaidFor(cost, doc))
                  \in (-PiecesOf(doc))..PiecesOf(doc)
<1> DEFINE S == 1..m
           goods == [n \in DOMAIN rows |-> Goods(cost, rows[n])]
           total == SumFunction(goods)
           lines == LinesOf(cost, rows, extra)
           doc == [extra |-> extra, lines |-> lines]
           pieces == [n \in DOMAIN lines |-> lines[n].qty]
           worth == Worth(lines)
<1>1. /\ IsFiniteSet(S) /\ DOMAIN rows = S /\ extra \in Nat
      /\ \A n \in S : rows[n].item \in Keys /\ rows[n].qty \in Nat \ {0}
  <2>1. IsFiniteSet(S)
    BY FS_Interval
  <2>2. \A n \in S : rows[n] \in [item : Keys, qty : Quantities]
    OBVIOUS
  <2>3. DOMAIN rows = S /\ extra \in Nat
    BY ExtrasAssumption
  <2>4. \A n \in S : rows[n].item \in Keys /\ rows[n].qty \in Nat \ {0}
    BY <2>2, QuantitiesAssumption
  <2> QED BY <2>1, <2>3, <2>4
<1>2. total = SumFunctionOnSet(goods, S) /\ \A n \in S : goods[n] = Goods(cost, rows[n])
  BY <1>1 DEF SumFunction
<1>3. \A n \in S : goods[n] \in Nat
  <2> SUFFICES ASSUME NEW n \in S PROVE Goods(cost, rows[n]) \in Nat
    BY <1>2
  <2> DEFINE q == rows[n].qty
             c == cost[rows[n].item]
  <2>1. q \in Nat /\ c \in Nat /\ Goods(cost, rows[n]) = q * c
    BY <1>1 DEF Goods
  <2> HIDE DEF q, c
  <2> QED BY <2>1
<1>4. lines = [n \in S |-> Landed(cost, rows[n], total, extra)]
  BY <1>1 DEF LinesOf
<1> HIDE DEF goods, total, lines, S
<1>5. total \in Nat
  <2>1. (\A n \in S : goods[n] \in Int) /\ (\A n \in S : goods[n] >= 0)
    BY <1>3
  <2>2. total \in Int /\ total >= 0
    BY <1>1, <1>2, <2>1, SumType
  <2> QED BY <2>2
<1>6. ASSUME NEW n \in S
      PROVE  /\ lines[n] \in ReceiptLines
             /\ lines[n].item = rows[n].item /\ lines[n].qty = rows[n].qty
             /\ lines[n].qty \in Nat /\ lines[n].landed \in Nat
             /\ total > 0 => Close(total, total + extra, lines[n].qty * lines[n].landed,
                                   goods[n], lines[n].qty)
             /\ total = 0 /\ goods[n] = 0 => lines[n].landed = 0
  <2> DEFINE row == rows[n]
             line == Landed(cost, row, total, extra)
  <2>1. row \in [item : Keys, qty : Quantities] /\ extra \in Nat
    BY <1>1 DEF S
  <2>2. lines[n] = line /\ goods[n] = Goods(cost, row)
    BY <1>2, <1>4
  <2> HIDE DEF row
  <2>3. /\ line.item = row.item /\ line.qty = row.qty /\ line \in ReceiptLines
        /\ total > 0 => Close(total, total + extra, line.qty * line.landed,
                              Goods(cost, row), line.qty)
        /\ total = 0 /\ Goods(cost, row) = 0 => line.landed = 0
    <3>1. row \in [item : Keys, qty : Quantities]
      BY <2>1
    <3>2. total \in Nat /\ extra \in Nat
      BY <1>5, <2>1
    <3>3. Bears(line, row, Goods(cost, row), total, extra)
      BY <3>1, <3>2, LandedLine
    <3> HIDE DEF line
    <3> QED BY <3>3 DEF Bears
  <2> HIDE DEF line
  <2>4. line.qty \in Nat /\ line.landed \in Nat
    BY <2>3 DEF ReceiptLines
  <2> QED BY <2>2, <2>3, <2>4 DEF row
<1>7. lines \in Seq(ReceiptLines) /\ DOMAIN lines = S
  <2>1. lines \in [S -> ReceiptLines]
    <3>1. lines = [n \in S |-> lines[n]]
      BY <1>4
    <3> QED BY <1>6, <3>1
  <2> QED BY <2>1, RowIsSeq DEF S
<1>8. doc \in ReceiptRows
  BY <1>7 DEF ReceiptRows
<1>9. ASSUME NEW k \in Keys PROVE QtyOf(lines, k) = QtyOf(rows, k)
  <2>1. [n \in DOMAIN lines |-> IF lines[n].item = k THEN lines[n].qty ELSE 0]
          = [n \in DOMAIN rows |-> IF rows[n].item = k THEN rows[n].qty ELSE 0]
    BY <1>1, <1>6, <1>7
  <2> QED BY <2>1 DEF QtyOf
<1>10. PaidFor(cost, doc) = total + IF total > 0 THEN extra ELSE 0
  <2>1. [n \in DOMAIN lines |-> Goods(cost, lines[n])] = goods
    <3>1. \A n \in S : Goods(cost, lines[n]) = Goods(cost, rows[n])
      BY <1>6 DEF Goods
    <3> QED BY <1>1, <1>7, <3>1 DEF goods
  <2>2. doc.lines = lines /\ doc.extra = extra
    OBVIOUS
  <2> HIDE DEF doc
  <2> QED BY <2>1, <2>2 DEF PaidFor, total
<1>11. /\ PiecesOf(doc) = SumFunctionOnSet(pieces, S)
       /\ \A n \in S : pieces[n] = lines[n].qty /\ pieces[n] \in Nat
       /\ \A n \in S : worth[n] = lines[n].qty * lines[n].landed /\ worth[n] \in Nat
  <2>1. PiecesOf(doc) = SumFunctionOnSet(pieces, S)
    BY <1>7 DEF PiecesOf, SumFunction
  <2>2. \A n \in S : pieces[n] = lines[n].qty /\ pieces[n] \in Nat
    BY <1>6, <1>7
  <2>3. ASSUME NEW n \in S
        PROVE  worth[n] = lines[n].qty * lines[n].landed /\ worth[n] \in Nat
    <3> DEFINE a == lines[n].qty
               b == lines[n].landed
    <3>1. a \in Nat /\ b \in Nat /\ worth[n] = a * b
      BY <1>6, <1>7 DEF Worth
    <3> HIDE DEF a, b
    <3>2. worth[n] \in Nat
      BY <3>1
    <3> QED BY <3>1, <3>2 DEF a, b
  <2> QED BY <2>1, <2>2, <2>3
<1> HIDE DEF worth, pieces
<1> DEFINE got == SumFunctionOnSet(worth, S)
           came == SumFunctionOnSet(pieces, S)
<1>12. got \in Int /\ came \in Int /\ came >= 0
  <2>1. \A n \in S : worth[n] \in Int
    BY <1>11
  <2>2. (\A n \in S : pieces[n] \in Int) /\ (\A n \in S : pieces[n] >= 0)
    BY <1>11
  <2> QED BY <1>1, <2>1, <2>2, SumType
<1>13. 2 * (got - PaidFor(cost, doc)) \in (-came)..came
  <2>1. CASE total > 0
    <3>1. \A n \in S : worth[n] \in Nat /\ goods[n] \in Nat /\ pieces[n] \in Nat
      BY <1>3, <1>11
    <3>2. \A n \in S : Close(total, total + extra, worth[n], goods[n], pieces[n])
      BY <1>6, <1>11, <2>1
    <3>3. total + extra \in Nat
      BY <1>1, <1>5
    <3>4. Close(total, total + extra, got, SumFunctionOnSet(goods, S), came)
      BY <1>1, <1>5, <3>1, <3>2, <3>3, SumsStayClose
    <3> DEFINE paid == total + extra
    <3>5. 2 * (total * got - paid * total) \in (-(total * came))..(total * came)
      BY <1>2, <3>4 DEF Close
    <3> HIDE DEF got, came, paid
    <3> DEFINE x == 2 * (got - paid)
    <3>6. paid \in Int /\ x \in Int /\ 2 * (total * got - paid * total) = total * x
      <4>1. paid \in Int
        BY <3>3 DEF paid
      <4>2. x \in Int
        BY <1>12, <4>1
      <4>3. 2 * (total * got - paid * total) = total * x
        BY <1>5, <1>12, <4>1, Z3
      <4> QED BY <4>1, <4>2, <4>3
    <3>7. total * x <= total * came /\ -(total * came) <= total * x
      <4> DEFINE tx == total * x
                 tc == total * came
      <4>1. tx \in Int /\ tc \in Int
        BY <1>5, <1>12, <3>6
      <4>2. tx \in (-tc)..tc
        BY <3>5, <3>6
      <4> HIDE DEF tx, tc
      <4>3. tx <= tc /\ -tc <= tx
        BY <4>1, <4>2
      <4> QED BY <4>3 DEF tx, tc
    <3> HIDE DEF x
    <3>8. x <= came /\ -came <= x
      BY <1>5, <1>12, <2>1, <3>6, <3>7, Z3
    <3>9. x \in (-came)..came
      BY <1>12, <3>6, <3>8
    <3> QED BY <1>10, <2>1, <3>9 DEF x, paid
  <2>2. CASE total = 0
    <3>1. \A n \in S : goods[n] = 0
      <4> SUFFICES ASSUME NEW n \in S PROVE goods[n] = 0
        OBVIOUS
      <4>1. goods[n] <= SumFunctionOnSet(goods, S)
        BY <1>1, <1>3, SumCovers
      <4>2. goods[n] \in Nat
        BY <1>3
      <4> QED BY <1>2, <2>2, <4>1, <4>2
    <3>2. \A n \in S : worth[n] = 0
      <4> SUFFICES ASSUME NEW n \in S PROVE worth[n] = 0
        OBVIOUS
      <4>1. lines[n].landed = 0 /\ lines[n].qty \in Nat
        BY <1>6, <2>2, <3>1
      <4>2. lines[n].qty * lines[n].landed = 0
        BY <4>1
      <4> QED BY <1>11, <4>2
    <3>3. got = 0
      BY <1>1, <3>2, SumZero
    <3>4. PaidFor(cost, doc) = 0
      BY <1>10, <2>2
    <3> QED BY <1>12, <3>3, <3>4
  <2> QED BY <1>5, <2>1, <2>2
<1> QED BY <1>6, <1>7, <1>8, <1>9, <1>11, <1>12, <1>13 DEF S, lines, worth

\* What the layers of all items are worth.
StockWorth(ls) == SumFunction([k \in Keys |-> ValueOf(ls[k])])

\* The value of layers is a number, item by item.
LEMMA StockWorthAdds ==
  ASSUME NEW ls \in [Keys -> Seq(LayerRows)]
  PROVE  /\ StockWorth(ls) \in Int
         /\ StockWorth(ls) = SumFunctionOnSet([k \in Keys |-> ValueOf(ls[k])], Keys)
         /\ \A k \in Keys : ValueOf(ls[k]) \in Nat
<1> DEFINE f == [k \in Keys |-> ValueOf(ls[k])]
<1>1. \A k \in Keys : f[k] = ValueOf(ls[k]) /\ ValueOf(ls[k]) \in Nat
  <2>1. \A k \in Keys : ls[k] \in Seq(LayerRows)
    OBVIOUS
  <2> QED BY <2>1, LayersAre
<1>2. StockWorth(ls) = SumFunctionOnSet(f, Keys)
  BY DEF StockWorth, SumFunction
<1> HIDE DEF f
<1>3. \A k \in Keys : f[k] \in Int
  BY <1>1
<1>4. SumFunctionOnSet(f, Keys) \in Int
  BY <1>3, TablesAssumption, SumType
<1> QED BY <1>1, <1>2, <1>4 DEF f

\* What the lines bring, by item and then line or by line and then item.
LEMMA ByItemOrByLine ==
  ASSUME NEW S, IsFiniteSet(S), NEW t, \A k \in Keys : \A n \in S : t[k][n] \in Int
  PROVE  SumFunctionOnSet([k \in Keys |-> SumFunctionOnSet(t[k], S)], Keys)
           = SumFunctionOnSet([n \in S |-> SumFunctionOnSet([k \in Keys |-> t[k][n]], Keys)], S)
BY TablesAssumption, SumExchange

\* A receipt opens layers that are worth what its rows say, and leaves the others.
LEMMA ReceiptOpens ==
  ASSUME layers \in [Keys -> Seq(LayerRows)], NEW lines \in Seq(ReceiptLines), NEW after,
         after = [k \in Keys |-> WithLayers(k, lines)]
  PROVE  /\ after \in [Keys -> Seq(LayerRows)]
         /\ StockWorth(after) = StockWorth(layers) + SumFunctionOnSet(Worth(lines), DOMAIN lines)
<1> DEFINE m == Len(lines)
           S == 1..m
           t == [k \in Keys |-> [n \in S |->
                  (IF lines[n].item = k THEN lines[n].qty ELSE 0) * lines[n].landed]]
           f == [k \in Keys |-> ValueOf(layers[k])]
           g == [k \in Keys |-> ValueOf(after[k])]
           h == [k \in Keys |-> SumFunctionOnSet(t[k], S)]
           worth == Worth(lines)
<1>1. /\ m \in Nat /\ DOMAIN lines = S /\ IsFiniteSet(S)
      /\ \A n \in S : lines[n] \in ReceiptLines
  BY LenProperties, ElementOfSeq, FS_Interval
<1>2. \A n \in S : lines[n].item \in Keys /\ lines[n].qty \in Nat /\ lines[n].landed \in Nat
  BY <1>1 DEF ReceiptLines
<1> HIDE DEF m
<1>3. ASSUME NEW k \in Keys, NEW n \in S
      PROVE  /\ t[k][n] \in Nat
             /\ t[k][n] = IF lines[n].item = k THEN worth[n] ELSE 0
  <2> DEFINE q == lines[n].qty
             c == lines[n].landed
  <2>1. q \in Nat /\ c \in Nat /\ worth[n] = q * c
    BY <1>1, <1>2 DEF Worth
  <2>2. t[k][n] = (IF lines[n].item = k THEN q ELSE 0) * c
    OBVIOUS
  <2> HIDE DEF q, c, t, worth
  <2>3. CASE lines[n].item = k
    <3>1. t[k][n] = q * c
      BY <2>2, <2>3
    <3> QED BY <2>1, <2>3, <3>1
  <2>4. CASE lines[n].item # k
    <3>1. t[k][n] = 0 * c
      BY <2>2, <2>4
    <3> QED BY <2>1, <2>4, <3>1
  <2> QED BY <2>3, <2>4
<1>4. ASSUME NEW k \in Keys
      PROVE  /\ after[k] \in Seq(LayerRows)
             /\ g[k] = f[k] + h[k] /\ f[k] \in Int /\ h[k] \in Int
  <2> DEFINE s == layers[k]
             qty == [n \in DOMAIN lines |-> IF lines[n].item = k THEN lines[n].qty ELSE 0]
             cost == [n \in DOMAIN lines |-> lines[n].landed]
             row == t[k]
  <2>1. s \in Seq(LayerRows) /\ after[k] = Opened(s, qty, cost)
    BY DEF WithLayers
  <2>2. qty \in [1..m -> Nat] /\ cost \in [1..m -> Nat]
    BY <1>1, <1>2
  <2>3. row \in [1..m -> Nat] /\ \A n \in S : row[n] = qty[n] * cost[n]
    <3>1. \A n \in S : t[k][n] \in Nat
      BY <1>3
    <3>2. row = [n \in S |-> t[k][n]]
      OBVIOUS
    <3>3. \A n \in S : row[n] = qty[n] * cost[n]
      BY <1>1
    <3> HIDE DEF row, t
    <3> QED BY <3>1, <3>2, <3>3
  <2>4. f[k] = ValueOf(s) /\ g[k] = ValueOf(after[k]) /\ h[k] = SumFunctionOnSet(row, S)
    OBVIOUS
  <2> HIDE DEF s, qty, cost, row, f, g, h, t
  <2>5. qty \in Seq(Nat) /\ Len(qty) = m
    BY <1>1, <2>2, RowIsSeq
  <2>6. cost \in [1..Len(qty) -> Nat] /\ row \in [1..Len(qty) -> Nat]
    BY <2>2, <2>3, <2>5
  <2>7. \A n \in 1..Len(qty) : row[n] = qty[n] * cost[n]
    BY <2>3, <2>5
  <2>8. qty \in Seq(Nat) /\ s \in Seq(LayerRows)
    BY <2>1, <2>5
  <2>9. /\ Opened(s, qty, cost) \in Seq(LayerRows)
        /\ ValueOf(Opened(s, qty, cost)) = ValueOf(s) + SumFunctionOnSet(row, 1..Len(qty))
    BY <2>6, <2>7, <2>8, OpenedLayers
  <2>10. ValueOf(s) \in Nat
    BY <2>8, LayersAre
  <2>11. SumFunctionOnSet(row, S) \in Int
    <3>1. \A n \in S : row[n] \in Int
      BY <2>3, SMTT(30)
    <3> QED BY <1>1, <3>1, SumType
  <2> QED BY <2>1, <2>4, <2>5, <2>9, <2>10, <2>11
<1>5. after \in [Keys -> Seq(LayerRows)]
  BY <1>4
<1>6. /\ StockWorth(layers) = SumFunctionOnSet(f, Keys)
      /\ StockWorth(after) = SumFunctionOnSet(g, Keys)
  BY DEF StockWorth, SumFunction
<1>7. \A n \in S : SumFunctionOnSet([k \in Keys |-> t[k][n]], Keys) = worth[n] /\ worth[n] \in Int
  <2> SUFFICES ASSUME NEW n \in S
               PROVE  /\ SumFunctionOnSet([k \in Keys |-> t[k][n]], Keys) = worth[n]
                      /\ worth[n] \in Int
    OBVIOUS
  <2> DEFINE col == [k \in Keys |-> t[k][n]]
             i == lines[n].item
  <2>1. i \in Keys /\ col[i] = worth[n] /\ col[i] \in Int
    <3>1. i \in Keys
      BY <1>2
    <3>2. t[i][n] \in Nat /\ t[i][n] = worth[n]
      BY <1>3, <3>1
    <3> HIDE DEF t, i
    <3> QED BY <3>1, <3>2
  <2>2. \A k \in Keys : k # i => col[k] = 0
    <3>1. \A k \in Keys : k # i => t[k][n] = 0
      BY <1>3
    <3> HIDE DEF t, i
    <3> QED BY <3>1
  <2> HIDE DEF col, i
  <2>3. SumFunctionOnSet(col, Keys) = col[i]
    BY <2>1, <2>2, TablesAssumption, SumSingle
  <2> QED BY <2>1, <2>3 DEF col
<1>8. SumFunctionOnSet(h, Keys) = SumFunctionOnSet(worth, S)
  <2>1. \A k \in Keys : \A n \in S : t[k][n] \in Int
    BY <1>3
  <2>2. h = [k \in Keys |-> SumFunctionOnSet(t[k], S)]
    <3>1. \A k \in Keys : t[k] = [n \in S |-> t[k][n]]
      OBVIOUS
    <3> QED OBVIOUS
  <2>3. SumFunctionOnSet([k \in Keys |-> SumFunctionOnSet(t[k], S)], Keys)
         = SumFunctionOnSet([n \in S |-> SumFunctionOnSet([k \in Keys |-> t[k][n]], Keys)], S)
    <3>1. IsFiniteSet(Keys) /\ IsFiniteSet(S)
      BY <1>1, TablesAssumption
    <3>2. \A k \in Keys : \A n \in S : t[k][n] \in Int
      BY <2>1
    <3> HIDE DEF t, S, h, worth, f, g
    <3> QED BY <3>1, <3>2, ByItemOrByLine
  <2> DEFINE cols == [n \in S |-> SumFunctionOnSet([k \in Keys |-> t[k][n]], Keys)]
  <2> HIDE DEF t, worth, S, h
  <2>4. \A n \in S : cols[n] = worth[n] /\ worth[n] \in Int
    BY <1>7
  <2>5. SumFunctionOnSet(h, Keys) = SumFunctionOnSet(cols, S)
    BY <2>2, <2>3
  <2> HIDE DEF cols
  <2>6. SumFunctionOnSet(cols, S) = SumFunctionOnSet(worth, S)
    BY <1>1, <2>4, SumSame
  <2> QED BY <2>5, <2>6
<1>9. \A k \in Keys : f[k] \in Int /\ h[k] \in Int /\ g[k] = f[k] + h[k]
  BY <1>4
<1> HIDE DEF f, g, h
<1>10. SumFunctionOnSet(g, Keys) = SumFunctionOnSet(f, Keys) + SumFunctionOnSet(h, Keys)
  BY <1>9, TablesAssumption, SumAdd
<1> QED BY <1>1, <1>5, <1>6, <1>8, <1>10

\* A sale takes from the layers of its item what it costs.
LEMMA SaleUses ==
  ASSUME layers \in [Keys -> Seq(LayerRows)], NEW k \in Keys, NEW qty \in Nat, NEW after,
         after = [layers EXCEPT ![k] = Consumed(@, qty)]
  PROVE  /\ after \in [Keys -> Seq(LayerRows)]
         /\ TotalCost(layers[k], qty, 0) \in Nat
         /\ StockWorth(after) + TotalCost(layers[k], qty, 0) = StockWorth(layers)
<1> DEFINE f == [i \in Keys |-> ValueOf(layers[i])]
           g == [i \in Keys |-> ValueOf(after[i])]
           s == layers[k]
           total == TotalCost(s, qty, 0)
<1>1. s \in Seq(LayerRows) /\ 0 \in Nat
  OBVIOUS
<1>2. /\ after[k] = Consumed(s, qty)
      /\ \A i \in Keys : i # k => after[i] = layers[i]
  OBVIOUS
<1> HIDE DEF s
<1>3. /\ Consumed(s, qty) \in Seq(LayerRows) /\ total \in Nat
      /\ ValueOf(Consumed(s, qty)) + total = ValueOf(s)
  BY <1>1, ConsumedAny
<1> HIDE DEF total
<1>4. after \in [Keys -> Seq(LayerRows)]
  BY <1>3 DEF s
<1>5. /\ StockWorth(layers) = SumFunctionOnSet(f, Keys) /\ StockWorth(layers) \in Int
      /\ \A i \in Keys : ValueOf(layers[i]) \in Nat
  BY StockWorthAdds
<1>6. /\ StockWorth(after) = SumFunctionOnSet(g, Keys) /\ StockWorth(after) \in Int
      /\ \A i \in Keys : ValueOf(after[i]) \in Nat
  BY <1>4, StockWorthAdds
<1>7. /\ \A i \in Keys : f[i] \in Int /\ g[i] \in Int
      /\ \A i \in Keys : i # k => g[i] = f[i]
      /\ f[k] = ValueOf(s) /\ g[k] = ValueOf(Consumed(s, qty))
  BY <1>2, <1>5, <1>6 DEF s
<1> HIDE DEF f, g
<1>8. SumFunctionOnSet(g, Keys) = SumFunctionOnSet(f, Keys) + (g[k] - f[k])
  <2>1. IsFiniteSet(Keys)
    BY TablesAssumption
  <2>2. \A i \in Keys : f[i] \in Int /\ g[i] \in Int
    BY <1>7
  <2>3. \A i \in Keys : i # k => g[i] = f[i]
    BY <1>7
  <2> QED BY <2>1, <2>2, <2>3, SumChange
<1>9. f[k] \in Int /\ g[k] \in Int /\ g[k] + total = f[k]
  BY <1>3, <1>7
<1>10. StockWorth(after) + total = StockWorth(layers)
  BY <1>3, <1>5, <1>6, <1>8, <1>9
<1> QED BY <1>3, <1>4, <1>10 DEF s, total

------------------------------------------------------------------------------
(***************************************************************************)
(* One order and its receipts.                                             *)
(***************************************************************************)

\* The receipts of an order add up to numbers.
LEMMA ReceiptsAddUp ==
  ASSUME NEW docs \in Seq(ReceiptRows), NEW cost \in [Keys -> Nat]
  PROVE  /\ \A k \in Keys : BroughtBy(docs, k) \in Int
         /\ PaidBy(cost, docs) \in Int /\ PiecesBy(docs) \in Int
<1>1. CASE docs = << >>
  BY <1>1, NoReceipts
<1>2. CASE docs # << >>
  <2>1. docs[1] \in ReceiptRows
    BY <1>2, ElementOfSeq, EmptySeq, LenProperties
  <2> QED BY <2>1, ReceiptAppended
<1> QED BY <1>1, <1>2

\* No receipt lists an item twice.
DistinctRows(docs) ==
  \A n \in DOMAIN docs :
    \A i, j \in DOMAIN docs[n].lines : i # j => docs[n].lines[i].item # docs[n].lines[j].item

\* What an order and its receipts say together.
OrderFits(row, docs) ==
  /\ row.status \in {"NONE", "DRAFT"} => docs = << >>
  /\ \A k \in Keys : row.received[k] = BroughtBy(docs, k)
  /\ DistinctRows(docs) => \A k \in Keys : BroughtBy(docs, k) <= row.ordered[k]
  /\ row.status = "RECEIVED" <=>
       docs # << >> /\ \A k \in Keys : BroughtBy(docs, k) >= row.ordered[k]

\* An order without receipts.
LEMMA FreshOrder ==
  ASSUME NEW row \in OrderRows, row.received = Nothing, row.status # "RECEIVED"
  PROVE  OrderFits(row, << >>)
<1>1. \A k \in Keys : BroughtBy(<< >>, k) = 0 /\ row.received[k] = 0 /\ row.ordered[k] \in Nat
  BY NoReceipts DEF OrderRows, Nothing
<1> QED BY <1>1 DEF OrderFits

\* A receipt whose lines are of distinct items brings of an item what one line of it
\* brings, if any.
LEMMA OneRow ==
  ASSUME NEW lines \in Seq(ReceiptLines), NEW k \in Keys, NEW room \in Nat,
         \A i, j \in DOMAIN lines : i # j => lines[i].item # lines[j].item,
         \A n \in DOMAIN lines : lines[n].item = k => lines[n].qty <= room
  PROVE  QtyOf(lines, k) <= room
<1> DEFINE f == [n \in DOMAIN lines |-> IF lines[n].item = k THEN lines[n].qty ELSE 0]
           S == DOMAIN lines
<1>1. IsFiniteSet(S)
  BY LenProperties, FS_Interval
<1>2. QtyOf(lines, k) = SumFunctionOnSet(f, S)
  BY DEF QtyOf, SumFunction
<1>3. CASE \E n \in S : lines[n].item = k
  <2>1. PICK n \in S : lines[n].item = k
    BY <1>3
  <2>2. lines[n] \in ReceiptLines
    BY ElementOfSeq, LenProperties
  <2>3. f[n] = lines[n].qty /\ f[n] \in Int
    BY <2>1, <2>2 DEF ReceiptLines
  <2>4. \A i \in S : i # n => f[i] = 0
    BY <2>1
  <2>5. f[n] <= room
    BY <2>1, <2>3
  <2> HIDE DEF f, S
  <2>6. SumFunctionOnSet(f, S) = f[n]
    BY <1>1, <2>3, <2>4, SumSingle
  <2> QED BY <1>2, <2>5, <2>6
<1>4. CASE ~ \E n \in S : lines[n].item = k
  <2>1. \A n \in S : f[n] = 0
    BY <1>4
  <2> HIDE DEF f, S
  <2>2. SumFunctionOnSet(f, S) = 0
    BY <1>1, <2>1, SumZero
  <2> QED BY <1>2, <2>2
<1> QED BY <1>3, <1>4

\* One more receipt, each line of which fits what was outstanding before it.
LEMMA OneMoreReceipt ==
  ASSUME NEW row \in OrderRows, NEW docs \in Seq(ReceiptRows), NEW doc \in ReceiptRows,
         NEW next \in OrderRows,
         OrderFits(row, docs), row.status # "NONE",
         \A n \in DOMAIN doc.lines :
           doc.lines[n].qty <= row.ordered[doc.lines[n].item] - row.received[doc.lines[n].item],
         next.ordered = row.ordered,
         \A k \in Keys : next.received[k] = row.received[k] + QtyOf(doc.lines, k),
         next.status = IF \A k \in Keys : next.received[k] >= row.ordered[k]
                       THEN "RECEIVED" ELSE "PARTIALLY_RECEIVED"
  PROVE  OrderFits(next, Append(docs, doc))
<1> DEFINE more == Append(docs, doc)
           n == Len(docs)
<1>1. /\ more \in Seq(ReceiptRows) /\ n \in Nat /\ DOMAIN docs = 1..n /\ DOMAIN more = 1..(n + 1)
      /\ more[n + 1] = doc /\ \A d \in 1..n : more[d] = docs[d]
  BY AppendProperties, LenProperties
<1>2. more # << >>
  <2> HIDE DEF more, n
  <2>1. 1 \in DOMAIN more /\ DOMAIN << >> = {}
    BY <1>1
  <2> QED BY <2>1
<1>3. \A k \in Keys : /\ BroughtBy(docs, k) \in Int /\ QtyOf(doc.lines, k) \in Nat
                      /\ BroughtBy(more, k) = BroughtBy(docs, k) + QtyOf(doc.lines, k)
  <2>1. Nothing \in [Keys -> Nat]
    BY DEF Nothing
  <2> QED BY <2>1, ReceiptAppended, ReceiptAddsUp
<1> HIDE DEF more
<1>4. \A k \in Keys : next.received[k] = BroughtBy(more, k)
  BY <1>3 DEF OrderFits
<1>5. ASSUME DistinctRows(more), NEW k \in Keys PROVE BroughtBy(more, k) <= next.ordered[k]
  <2> DEFINE room == row.ordered[k] - row.received[k]
             lines == doc.lines
  <2>1. DistinctRows(docs)
    <3>1. \A d \in 1..n : d \in 1..(n + 1)
      BY <1>1
    <3> HIDE DEF n
    <3> QED BY <1>1, <1>5, <3>1 DEF DistinctRows
  <2>2. row.ordered[k] \in Nat /\ row.received[k] \in Nat /\ row.received[k] = BroughtBy(docs, k)
        /\ BroughtBy(docs, k) <= row.ordered[k]
    BY <2>1 DEF OrderFits, OrderRows
  <2>3. room \in Nat
    BY <2>2
  <2>4. \A i \in DOMAIN lines : lines[i].item = k => lines[i].qty <= room
    OBVIOUS
  <2>5. \A i, j \in DOMAIN lines : i # j => lines[i].item # lines[j].item
    <3>1. n + 1 \in 1..(n + 1)
      BY <1>1
    <3> HIDE DEF n
    <3> QED BY <1>1, <1>5, <3>1 DEF DistinctRows
  <2>6. lines \in Seq(ReceiptLines)
    BY DEF ReceiptRows
  <2>7. QtyOf(lines, k) <= room
    <3> HIDE DEF lines, room
    <3> QED BY <2>3, <2>4, <2>5, <2>6, OneRow
  <2> QED BY <1>3, <2>2, <2>7
<1>6. next.status = "RECEIVED" <=> \A k \in Keys : BroughtBy(more, k) >= next.ordered[k]
  BY <1>4
<1>7. next.status \notin {"NONE", "DRAFT"}
  OBVIOUS
<1>8. OrderFits(next, more)
  BY <1>2, <1>4, <1>5, <1>6, <1>7 DEF OrderFits
<1> QED BY <1>8 DEF more

\* What was paid for all orders, and the pieces that came.
PaidTotal(rows, docs) == SumFunction([p \in PurchaseOrders |-> PaidBy(rows[p].cost, docs[p])])

PiecesTotal(docs) == SumFunction([p \in PurchaseOrders |-> PiecesBy(docs[p])])

\* A sum over the orders, of which one changes.
LEMMA OneOfTheOrders ==
  ASSUME NEW f, NEW g, NEW p \in PurchaseOrders,
         \A r \in PurchaseOrders : f[r] \in Int /\ g[r] \in Int,
         \A r \in PurchaseOrders : r # p => g[r] = f[r]
  PROVE  SumFunctionOnSet(g, PurchaseOrders) = SumFunctionOnSet(f, PurchaseOrders) + (g[p] - f[p])
BY TablesAssumption, SumChange

\* Only the order p and its receipts change.
OnlyOf(p, rows, next, docs, more) ==
  \A r \in PurchaseOrders : r # p => next[r] = rows[r] /\ more[r] = docs[r]

\* They change by what changes of the order that a step is about.
LEMMA OneOrder ==
  ASSUME NEW rows \in [PurchaseOrders -> OrderRows], NEW next \in [PurchaseOrders -> OrderRows],
         NEW docs \in [PurchaseOrders -> Seq(ReceiptRows)],
         NEW more \in [PurchaseOrders -> Seq(ReceiptRows)],
         NEW p \in PurchaseOrders, OnlyOf(p, rows, next, docs, more)
  PROVE  /\ PaidTotal(rows, docs) \in Int /\ PiecesTotal(docs) \in Int
         /\ PaidBy(rows[p].cost, docs[p]) \in Int /\ PaidBy(next[p].cost, more[p]) \in Int
         /\ PiecesBy(docs[p]) \in Int /\ PiecesBy(more[p]) \in Int
         /\ PaidTotal(next, more) = PaidTotal(rows, docs)
                + (PaidBy(next[p].cost, more[p]) - PaidBy(rows[p].cost, docs[p]))
         /\ PiecesTotal(more) = PiecesTotal(docs) + (PiecesBy(more[p]) - PiecesBy(docs[p]))
<1> DEFINE f == [r \in PurchaseOrders |-> PaidBy(rows[r].cost, docs[r])]
           g == [r \in PurchaseOrders |-> PaidBy(next[r].cost, more[r])]
           i == [r \in PurchaseOrders |-> PiecesBy(docs[r])]
           j == [r \in PurchaseOrders |-> PiecesBy(more[r])]
<1>1. IsFiniteSet(PurchaseOrders)
  BY TablesAssumption
<1>2. ASSUME NEW r \in PurchaseOrders
      PROVE  /\ f[r] = PaidBy(rows[r].cost, docs[r]) /\ f[r] \in Int
             /\ g[r] = PaidBy(next[r].cost, more[r]) /\ g[r] \in Int
             /\ i[r] = PiecesBy(docs[r]) /\ i[r] \in Int
             /\ j[r] = PiecesBy(more[r]) /\ j[r] \in Int
             /\ r # p => g[r] = f[r] /\ j[r] = i[r]
  <2>1. rows[r].cost \in [Keys -> Nat] /\ next[r].cost \in [Keys -> Nat]
        /\ docs[r] \in Seq(ReceiptRows) /\ more[r] \in Seq(ReceiptRows)
    BY DEF OrderRows
  <2>2. /\ PaidBy(rows[r].cost, docs[r]) \in Int /\ PiecesBy(docs[r]) \in Int
        /\ PaidBy(next[r].cost, more[r]) \in Int /\ PiecesBy(more[r]) \in Int
    BY <2>1, ReceiptsAddUp
  <2> QED BY <2>2 DEF OnlyOf
<1>3. /\ PaidTotal(rows, docs) = SumFunctionOnSet(f, PurchaseOrders)
      /\ PaidTotal(next, more) = SumFunctionOnSet(g, PurchaseOrders)
      /\ PiecesTotal(docs) = SumFunctionOnSet(i, PurchaseOrders)
      /\ PiecesTotal(more) = SumFunctionOnSet(j, PurchaseOrders)
  BY DEF PaidTotal, PiecesTotal, SumFunction
<1> HIDE DEF f, g, i, j
<1>4. SumFunctionOnSet(f, PurchaseOrders) \in Int /\ SumFunctionOnSet(i, PurchaseOrders) \in Int
  BY <1>1, <1>2, SumType
<1>5. /\ SumFunctionOnSet(g, PurchaseOrders) = SumFunctionOnSet(f, PurchaseOrders) + (g[p] - f[p])
      /\ SumFunctionOnSet(j, PurchaseOrders) = SumFunctionOnSet(i, PurchaseOrders) + (j[p] - i[p])
  <2>1. \A r \in PurchaseOrders : f[r] \in Int /\ g[r] \in Int
    BY <1>2
  <2>2. \A r \in PurchaseOrders : r # p => g[r] = f[r]
    BY <1>2
  <2>3. SumFunctionOnSet(g, PurchaseOrders) = SumFunctionOnSet(f, PurchaseOrders) + (g[p] - f[p])
    BY <2>1, <2>2, OneOfTheOrders
  <2>4. \A r \in PurchaseOrders : i[r] \in Int /\ j[r] \in Int
    BY <1>2
  <2>5. \A r \in PurchaseOrders : r # p => j[r] = i[r]
    BY <1>2
  <2>6. SumFunctionOnSet(j, PurchaseOrders) = SumFunctionOnSet(i, PurchaseOrders) + (j[p] - i[p])
    BY <2>4, <2>5, OneOfTheOrders
  <2> QED BY <2>3, <2>6
<1> QED BY <1>2, <1>3, <1>4, <1>5

\* Rounding differences add up.
LEMMA MoneyAdds ==
  ASSUME NEW paid \in Int, NEW stock \in Int, NEW pieces \in Int,
         2 * Difference(paid, stock) <= pieces,
         NEW more \in Int, NEW worth \in Int, NEW extra \in Int,
         2 * (worth - more) \in (-extra)..extra
  PROVE  2 * Difference(paid + more, stock + worth) <= pieces + extra
<1>1. -extra <= 2 * (worth - more) /\ 2 * (worth - more) <= extra
  OBVIOUS
<1>2. 2 * (paid - stock) <= pieces /\ 2 * (stock - paid) <= pieces
  BY DEF Difference
<1>3. 2 * ((paid + more) - (stock + worth)) <= pieces + extra
      /\ 2 * ((stock + worth) - (paid + more)) <= pieces + extra
  BY <1>1, <1>2
<1> QED BY <1>3 DEF Difference

------------------------------------------------------------------------------
(***************************************************************************)
(* The steps of purchasing.                                                *)
(***************************************************************************)

\* Every order agrees with its receipts.
PoFacts == PoTypeOK /\ \A p \in PurchaseOrders : OrderFits(po[p], receipts[p])

\* What was paid is in the layers, or spent with what was sold of them.
MoneyFits(rows, docs, ls, spent) ==
  2 * Difference(PaidTotal(rows, docs), StockWorth(ls) + spent) <= PiecesTotal(docs)

\* The inductive invariant of module Procurement.
PoInv == PoFacts /\ MoneyFits(po, receipts, layers, used) /\ StockInv

\* The tables hold rows of their types.
LEMMA PoTypes ==
  ASSUME PoTypeOK
  PROVE  /\ po \in [PurchaseOrders -> OrderRows]
         /\ receipts \in [PurchaseOrders -> Seq(ReceiptRows)]
         /\ layers \in [Keys -> Seq(LayerRows)] /\ used \in Nat
         /\ gained \in [Keys -> Nat] /\ lost \in [Keys -> Nat]
BY DEF PoTypeOK, CostTypeOK, OrderRows, ReceiptRows

\* What a receipt is posted with: for every item, a quantity.
LEMMA ReceiptQuantities ==
  ASSUME NEW m \in Nat, NEW rows \in [1..m -> [item : Keys, qty : Quantities]]
  PROVE  [k \in Keys |-> QtyOf(rows, k)] \in [Keys -> Nat]
<1> SUFFICES ASSUME NEW k \in Keys PROVE QtyOf(rows, k) \in Nat
  OBVIOUS
<1> DEFINE f == [n \in DOMAIN rows |-> IF rows[n].item = k THEN rows[n].qty ELSE 0]
           S == 1..m
<1>1. IsFiniteSet(S)
  BY FS_Interval
<1>2. QtyOf(rows, k) = SumFunctionOnSet(f, S)
  BY DEF QtyOf, SumFunction
<1>3. \A n \in S : f[n] \in Nat
  <2> SUFFICES ASSUME NEW n \in S PROVE f[n] \in Nat
    OBVIOUS
  <2>1. rows[n].qty \in Nat
    BY QuantitiesAssumption
  <2> QED BY <2>1
<1> HIDE DEF f, S
<1>4. SumFunctionOnSet(f, S) \in Int /\ SumFunctionOnSet(f, S) >= 0
  <2>1. (\A n \in S : f[n] \in Int) /\ (\A n \in S : f[n] >= 0)
    BY <1>3
  <2> QED BY <1>1, <2>1, SumType
<1> QED BY <1>2, <1>4

\* The lines of a counter sale.
LEMMA SaleQuantities ==
  ASSUME NEW k \in Keys, NEW qty \in Quantities
  PROVE  qty \in Nat /\ [i \in Keys |-> IF i = k THEN qty ELSE 0] \in [Keys -> Nat]
BY QuantitiesAssumption

\* Every step keeps the promises of the stock book.
LEMMA PoStockStep ==
  ASSUME StockInv, [PoNext]_poVars
  PROVE  KeepsBook /\ BucketsHold'
<1>1. CASE UNCHANGED stockVars
  BY <1>1, StockStep
<1>2. ASSUME NEW p \in PurchaseOrders, NEW m \in 1..MaxReceiptLines,
             NEW rows \in [1..m -> [item : Keys, qty : Quantities]], NEW extra \in Extras,
             Receive(p, rows, extra)
      PROVE  KeepsBook /\ BucketsHold'
  <2> DEFINE qty == [k \in Keys |-> QtyOf(rows, k)]
  <2>1. Post("PURCHASE_RECEIPT", qty) /\ UNCHANGED << exceptions, synced >>
    BY <1>2 DEF Receive
  <2>2. m \in Nat /\ "PURCHASE_RECEIPT" \in MovementTypes
    BY MaxReceiptsAssumption DEF MovementTypes
  <2>3. qty \in [Keys -> Nat]
    BY <2>2, ReceiptQuantities
  <2> HIDE DEF qty
  <2> QED BY <2>1, <2>2, <2>3, PostStep
<1>3. ASSUME NEW k \in Keys, NEW qty \in Quantities, Sell(k, qty)
      PROVE  KeepsBook /\ BucketsHold'
  <2> DEFINE lines == [i \in Keys |-> IF i = k THEN qty ELSE 0]
  <2>1. Post("SALE", lines) /\ UNCHANGED << exceptions, synced >>
    BY <1>3 DEF Sell, PostDocument
  <2>2. lines \in [Keys -> Nat] /\ "SALE" \in MovementTypes
    BY SaleQuantities DEF MovementTypes
  <2> HIDE DEF lines
  <2> QED BY <2>1, <2>2, PostStep
<1>4. CASE UNCHANGED poVars
  BY <1>1, <1>4 DEF poVars, stockVars
<1>5. ASSUME NEW p \in PurchaseOrders, NEW ordered \in Lines, NEW cost \in [Keys -> Costs],
             CreatePo(p, ordered, cost)
      PROVE  KeepsBook /\ BucketsHold'
  BY <1>1, <1>5 DEF CreatePo
<1>6. ASSUME NEW p \in PurchaseOrders, Approve(p) PROVE KeepsBook /\ BucketsHold'
  BY <1>1, <1>6 DEF Approve
<1>7. CASE OthersAdjust
  <2>1. PICK k \in Keys, type \in MovementTypes, qty \in Quantities :
          PostUncosted(k, type, qty)
    BY <1>7 DEF OthersAdjust
  <2> DEFINE lines == [i \in Keys |-> IF i = k THEN qty ELSE 0]
  <2>2. Post(type, lines) /\ UNCHANGED << exceptions, synced >>
    BY <2>1 DEF PostUncosted
  <2>3. lines \in [Keys -> Nat]
    BY SaleQuantities
  <2> HIDE DEF lines
  <2> QED BY <2>2, <2>3, PostStep
<1> QED BY <1>2, <1>3, <1>4, <1>5, <1>6, <1>7 DEF PoNext, Rows

\* A step that writes one order and receives for it what it pays, up to the rounding of
\* its pieces.
LEMMA WrittenOrder ==
  ASSUME PoInv, StockTypeOK', NEW p \in PurchaseOrders,
         NEW row \in OrderRows, NEW docs \in Seq(ReceiptRows),
         Len(docs) <= MaxReceipts, OrderFits(row, docs),
         po' = [po EXCEPT ![p] = row],
         receipts' = [receipts EXCEPT ![p] = docs],
         CostTypeOK', used' \in Nat,
         NEW paid \in Int, NEW pieces \in Int, NEW worth \in Int,
         PaidBy(row.cost, docs) = PaidBy(po[p].cost, receipts[p]) + paid,
         PiecesBy(docs) = PiecesBy(receipts[p]) + pieces,
         StockWorth(layers') + used' = StockWorth(layers) + used + worth,
         2 * (worth - paid) \in (-pieces)..pieces
  PROVE  PoFacts' /\ MoneyFits(po, receipts, layers, used)'
<1>0. /\ PoTypeOK /\ po \in [PurchaseOrders -> OrderRows]
      /\ receipts \in [PurchaseOrders -> Seq(ReceiptRows)]
      /\ layers \in [Keys -> Seq(LayerRows)] /\ used \in Nat
  BY PoTypes DEF PoInv, PoFacts
<1>1. /\ po' \in [PurchaseOrders -> OrderRows] /\ receipts' \in [PurchaseOrders -> Seq(ReceiptRows)]
      /\ po'[p] = row /\ receipts'[p] = docs
      /\ \A r \in PurchaseOrders : r # p => po'[r] = po[r] /\ receipts'[r] = receipts[r]
  BY <1>0
<1>2. PoTypeOK'
  <2>1. \A r \in PurchaseOrders : Len(receipts'[r]) <= MaxReceipts
    BY <1>0, <1>1 DEF PoTypeOK
  <2> QED BY <1>1, <2>1 DEF PoTypeOK, CostTypeOK, OrderRows, ReceiptRows
<1>3. ASSUME NEW r \in PurchaseOrders PROVE OrderFits(po'[r], receipts'[r])
  <2>1. CASE r = p
    BY <1>1, <2>1
  <2>2. CASE r # p
    BY <1>1, <2>2 DEF PoInv, PoFacts
  <2> QED BY <2>1, <2>2
<1>4. MoneyFits(po', receipts', layers', used')
  <2> DEFINE rows == po
             next == po'
             old == receipts
             new == receipts'
             total == PaidTotal(rows, old)
             brought == PiecesTotal(old)
             stock == StockWorth(layers) + used
             stock2 == StockWorth(layers') + used'
  <2>1. /\ rows \in [PurchaseOrders -> OrderRows] /\ next \in [PurchaseOrders -> OrderRows]
        /\ old \in [PurchaseOrders -> Seq(ReceiptRows)]
        /\ new \in [PurchaseOrders -> Seq(ReceiptRows)]
    BY <1>0, <1>1
  <2>2. OnlyOf(p, rows, next, old, new)
    BY <1>1 DEF OnlyOf
  <2>3. /\ PaidBy(next[p].cost, new[p]) = PaidBy(rows[p].cost, old[p]) + paid
        /\ PiecesBy(new[p]) = PiecesBy(old[p]) + pieces
    BY <1>1
  <2>4. 2 * Difference(total, stock) <= brought
    BY DEF PoInv, MoneyFits
  <2>5. stock \in Int /\ stock2 = stock + worth
    <3>1. StockWorth(layers) \in Int
      BY <1>0, StockWorthAdds
    <3>2. StockWorth(layers') \in Int
      BY StockWorthAdds DEF CostTypeOK
    <3> QED BY <1>0, <3>1, <3>2
  <2> HIDE DEF rows, next, old, new, stock, stock2
  <2>6. /\ total \in Int /\ brought \in Int
        /\ PaidBy(rows[p].cost, old[p]) \in Int /\ PiecesBy(old[p]) \in Int
        /\ PaidTotal(next, new)
             = total + (PaidBy(next[p].cost, new[p]) - PaidBy(rows[p].cost, old[p]))
        /\ PiecesTotal(new) = brought + (PiecesBy(new[p]) - PiecesBy(old[p]))
    BY <2>1, <2>2, OneOrder, ZenonT(30)
  <2> HIDE DEF total, brought
  <2>7. PaidTotal(next, new) = total + paid /\ PiecesTotal(new) = brought + pieces
    BY <2>3, <2>6, SMTT(30)
  <2>8. 2 * Difference(total + paid, stock + worth) <= brought + pieces
    BY <2>4, <2>5, <2>6, MoneyAdds
  <2>9. 2 * Difference(PaidTotal(next, new), stock2) <= PiecesTotal(new)
    BY <2>5, <2>7, <2>8
  <2> QED BY <2>9 DEF MoneyFits, next, new, stock2
<1> QED BY <1>2, <1>3, <1>4 DEF PoFacts

\* An order that is made or approved has no receipts, and nothing was paid for it.
LEMMA OrderedOnly ==
  ASSUME PoInv, StockTypeOK', NEW p \in PurchaseOrders, NEW row \in OrderRows,
         po[p].status \in {"NONE", "DRAFT"}, row.received = Nothing, row.status # "RECEIVED",
         po' = [po EXCEPT ![p] = row],
         UNCHANGED << receipts, costVars, used >>
  PROVE  PoFacts' /\ MoneyFits(po, receipts, layers, used)'
<1>0. /\ PoTypeOK /\ po[p] \in OrderRows /\ receipts \in [PurchaseOrders -> Seq(ReceiptRows)]
      /\ layers \in [Keys -> Seq(LayerRows)] /\ used \in Nat
  BY PoTypes DEF PoInv, PoFacts
<1>1. receipts[p] = << >>
  BY DEF PoInv, PoFacts, OrderFits
<1>2. << >> \in Seq(ReceiptRows) /\ Len(<< >>) <= MaxReceipts
  BY MaxReceiptsAssumption
<1>3. OrderFits(row, << >>)
  BY FreshOrder
<1>4. receipts' = [receipts EXCEPT ![p] = << >>]
  BY <1>0, <1>1
<1>5. /\ PaidBy(row.cost, << >>) = PaidBy(po[p].cost, receipts[p]) + 0
      /\ PiecesBy(<< >>) = PiecesBy(receipts[p]) + 0
  BY <1>1, NoReceipts
<1>6. CostTypeOK' /\ used' \in Nat
  BY <1>0 DEF PoTypeOK, CostTypeOK, costVars
<1>7. StockWorth(layers') + used' = StockWorth(layers) + used + 0
  <2>1. StockWorth(layers) \in Int
    BY <1>0, StockWorthAdds
  <2>2. layers' = layers /\ used' = used
    BY DEF costVars
  <2> QED BY <1>0, <2>1, <2>2
<1>8. 2 * (0 - 0) \in (-0)..0 /\ 0 \in Int
  OBVIOUS
<1> QED BY <1>2, <1>3, <1>4, <1>5, <1>6, <1>7, <1>8, WrittenOrder

\* A receipt: one more document, whose goods become layers.
LEMMA ReceivedOrder ==
  ASSUME PoInv, StockTypeOK', NEW p \in PurchaseOrders, NEW m \in Nat,
         NEW rows \in [1..m -> [item : Keys, qty : Quantities]], NEW extra \in Extras,
         Receive(p, rows, extra)
  PROVE  PoFacts' /\ MoneyFits(po, receipts, layers, used)'
<1> DEFINE row == po[p]
           cost == row.cost
           lines == LinesOf(cost, rows, extra)
           doc == [extra |-> extra, lines |-> lines]
           docs == receipts[p]
           received == [k \in Keys |-> row.received[k] + QtyOf(rows, k)]
           status == StatusAfter(row.ordered, received)
           next == [row EXCEPT !.received = received, !.status = status]
           worth == SumFunctionOnSet(Worth(lines), 1..m)
<1>0. /\ PoTypeOK /\ po \in [PurchaseOrders -> OrderRows]
      /\ receipts \in [PurchaseOrders -> Seq(ReceiptRows)]
      /\ layers \in [Keys -> Seq(LayerRows)] /\ used \in Nat
  BY PoTypes DEF PoInv, PoFacts
<1>1. /\ row.status # "NONE" /\ Len(docs) < MaxReceipts
      /\ \A n \in DOMAIN rows : Fits(p, rows[n])
      /\ receipts' = [receipts EXCEPT ![p] = Append(@, doc)]
      /\ layers' = [k \in Keys |-> WithLayers(k, lines)]
      /\ used' = used
  BY DEF Receive, LinesOf
<1>2. po' = [po EXCEPT ![p] = next]
  <2>1. \A k \in Keys : [i \in Keys |-> QtyOf(rows, i)][k] = QtyOf(rows, k)
    OBVIOUS
  <2>2. po' = [po EXCEPT ![p].received = received,
                         ![p].status = StatusAfter(row.ordered, received)]
    BY <2>1 DEF Receive
  <2> HIDE DEF received
  <2>3. [po EXCEPT ![p].received = received, ![p].status = StatusAfter(row.ordered, received)]
          = [po EXCEPT ![p] = next]
    BY <1>0 DEF OrderRows
  <2> QED BY <2>2, <2>3
<1>3. row \in OrderRows /\ cost \in [Keys -> Nat] /\ docs \in Seq(ReceiptRows)
      /\ OrderFits(row, docs)
  <2>1. row \in OrderRows /\ docs \in Seq(ReceiptRows)
    BY <1>0
  <2> QED BY <2>1 DEF OrderRows, PoInv, PoFacts
<1>4. /\ lines \in Seq(ReceiptLines) /\ doc \in ReceiptRows /\ DOMAIN lines = 1..m
      /\ \A n \in 1..m : lines[n].item = rows[n].item /\ lines[n].qty = rows[n].qty
      /\ \A k \in Keys : QtyOf(lines, k) = QtyOf(rows, k)
      /\ worth \in Int
      /\ 2 * (worth - PaidFor(cost, doc)) \in (-PiecesOf(doc))..PiecesOf(doc)
  <2> HIDE DEF row
  <2> DEFINE c == cost
  <2>1. c \in [Keys -> Nat]
    BY <1>3
  <2> HIDE DEF cost, c
  <2> QED BY <2>1, ReceiptIsWorth DEF c
<1>5. DOMAIN rows = 1..m /\ doc.lines = lines
  OBVIOUS
<1> HIDE DEF lines
<1>6. \A n \in DOMAIN doc.lines :
        doc.lines[n].qty <= row.ordered[doc.lines[n].item] - row.received[doc.lines[n].item]
  BY <1>1, <1>4, <1>5 DEF Fits
<1> HIDE DEF doc
<1>7. \A k \in Keys : /\ QtyOf(doc.lines, k) = QtyOf(rows, k) /\ QtyOf(rows, k) \in Nat
                      /\ row.received[k] \in Nat
  <2>1. \A k \in Keys : QtyOf(lines, k) = QtyOf(rows, k) /\ QtyOf(doc.lines, k) \in Nat
    <3>1. \A k \in Keys : QtyOf(doc.lines, k) \in Nat
      BY <1>3, <1>4, ReceiptAddsUp
    <3> QED BY <1>4, <3>1
  <2>2. row.received \in [Keys -> Nat]
    BY <1>3 DEF OrderRows
  <2> QED BY <1>5, <2>1, <2>2
<1>8. received \in [Keys -> Nat]
  BY <1>7
<1>9. status = (IF \A k \in Keys : received[k] >= row.ordered[k]
                THEN "RECEIVED" ELSE "PARTIALLY_RECEIVED")
  BY DEF StatusAfter
<1> HIDE DEF received, status, row
<1>10. /\ next \in OrderRows /\ next.ordered = row.ordered /\ next.cost = row.cost
       /\ next.received = received /\ next.status = status
  <2>1. status \in PoStatuses
    BY <1>9 DEF PoStatuses
  <2> QED BY <1>3, <1>8, <2>1 DEF OrderRows
<1> HIDE DEF next
<1>11. \A k \in Keys : next.received[k] = row.received[k] + QtyOf(doc.lines, k)
  BY <1>7, <1>10 DEF received
<1>12. next.status = IF \A k \in Keys : next.received[k] >= row.ordered[k]
                     THEN "RECEIVED" ELSE "PARTIALLY_RECEIVED"
  BY <1>9, <1>10
<1>13. OrderFits(next, Append(docs, doc))
  <2> HIDE DEF docs, cost
  <2> QED BY <1>1, <1>3, <1>4, <1>6, <1>10, <1>11, <1>12, OneMoreReceipt
<1>14. /\ Append(docs, doc) \in Seq(ReceiptRows) /\ Len(Append(docs, doc)) <= MaxReceipts
       /\ PaidFor(cost, doc) \in Int /\ PiecesOf(doc) \in Int
       /\ PaidBy(next.cost, Append(docs, doc)) = PaidBy(cost, docs) + PaidFor(cost, doc)
       /\ PiecesBy(Append(docs, doc)) = PiecesBy(docs) + PiecesOf(doc)
  <2>1. next.cost = cost
    BY <1>10
  <2> HIDE DEF docs, cost
  <2>2. /\ Append(docs, doc) \in Seq(ReceiptRows) /\ Len(Append(docs, doc)) = Len(docs) + 1
        /\ PaidBy(cost, Append(docs, doc)) = PaidBy(cost, docs) + PaidFor(cost, doc)
        /\ PiecesBy(Append(docs, doc)) = PiecesBy(docs) + PiecesOf(doc)
    BY <1>3, <1>4, ReceiptAppended
  <2>3. PaidFor(cost, doc) \in Nat /\ PiecesOf(doc) \in Nat
    BY <1>3, <1>4, ReceiptAddsUp
  <2>4. Len(docs) \in Nat
    BY <1>3, LenProperties
  <2> QED BY <1>1, <2>1, <2>2, <2>3, <2>4, MaxReceiptsAssumption
<1>15. /\ layers' \in [Keys -> Seq(LayerRows)]
       /\ StockWorth(layers') = StockWorth(layers) + worth
  <2> DEFINE after == layers'
  <2>1. after = [k \in Keys |-> WithLayers(k, lines)] /\ lines \in Seq(ReceiptLines)
    BY <1>1, <1>4
  <2>2. worth = SumFunctionOnSet(Worth(lines), DOMAIN lines)
    BY <1>4
  <2> HIDE DEF after, worth
  <2>3. /\ after \in [Keys -> Seq(LayerRows)]
        /\ StockWorth(after) = StockWorth(layers) + SumFunctionOnSet(Worth(lines), DOMAIN lines)
    BY <1>0, <2>1, ReceiptOpens
  <2> QED BY <2>2, <2>3 DEF after
<1> HIDE DEF worth
<1>16. used' \in Nat /\ StockWorth(layers') + used' = StockWorth(layers) + used + worth
  <2>1. StockWorth(layers) \in Int
    BY <1>0, StockWorthAdds
  <2> QED BY <1>0, <1>1, <1>4, <1>15, <2>1
<1>17. /\ receipts' = [receipts EXCEPT ![p] = Append(docs, doc)]
       /\ PaidBy(cost, docs) = PaidBy(po[p].cost, receipts[p])
       /\ PiecesBy(docs) = PiecesBy(receipts[p])
  BY <1>1 DEF row
<1> DEFINE more == Append(docs, doc)
           paid == PaidFor(cost, doc)
           pieces == PiecesOf(doc)
<1>18. /\ more \in Seq(ReceiptRows) /\ Len(more) <= MaxReceipts /\ paid \in Int /\ pieces \in Int
       /\ PaidBy(next.cost, more) = PaidBy(po[p].cost, receipts[p]) + paid
       /\ PiecesBy(more) = PiecesBy(receipts[p]) + pieces
       /\ receipts' = [receipts EXCEPT ![p] = more] /\ OrderFits(next, more)
       /\ 2 * (worth - paid) \in (-pieces)..pieces /\ worth \in Int
  BY <1>4, <1>13, <1>14, <1>17 DEF worth
<1> HIDE DEF more, paid, pieces
<1>19. CostTypeOK'
  BY <1>0, <1>15, PoTypes DEF Receive, CostTypeOK
<1> QED BY <1>2, <1>10, <1>15, <1>16, <1>18, <1>19, WrittenOrder

\* A counter sale: its cost leaves the layers.
LEMMA SoldGoods ==
  ASSUME PoInv, StockTypeOK', NEW k \in Keys, NEW qty \in Quantities, Sell(k, qty)
  PROVE  PoFacts' /\ MoneyFits(po, receipts, layers, used)'
<1> DEFINE total == TotalCost(layers[k], qty, 0)
<1>0. /\ PoTypeOK /\ layers \in [Keys -> Seq(LayerRows)] /\ used \in Nat /\ qty \in Nat
  BY PoTypes, SaleQuantities DEF PoInv, PoFacts
<1>1. /\ layers' = [layers EXCEPT ![k] = Consumed(@, qty)] /\ used' = used + total
      /\ po' = po /\ receipts' = receipts
  BY DEF Sell
<1>2. /\ layers' \in [Keys -> Seq(LayerRows)] /\ total \in Nat
      /\ StockWorth(layers') + total = StockWorth(layers)
  <2> DEFINE after == layers'
  <2>1. after = [layers EXCEPT ![k] = Consumed(@, qty)]
    BY <1>1
  <2> HIDE DEF after
  <2>2. /\ after \in [Keys -> Seq(LayerRows)] /\ TotalCost(layers[k], qty, 0) \in Nat
        /\ StockWorth(after) + TotalCost(layers[k], qty, 0) = StockWorth(layers)
    BY <1>0, <2>1, SaleUses
  <2> QED BY <2>2 DEF after
<1> HIDE DEF total
<1>3. used' \in Nat /\ StockWorth(layers') + used' = StockWorth(layers) + used
  <2>1. StockWorth(layers) \in Int /\ StockWorth(layers') \in Int
    BY <1>0, <1>2, StockWorthAdds
  <2> QED BY <1>0, <1>1, <1>2, <2>1
<1>4. PoFacts'
  <2>1. UNCHANGED << gained, lost >>
    BY DEF Sell
  <2>2. PoTypeOK'
    BY <1>0, <1>1, <1>2, <1>3, <2>1 DEF PoTypeOK, CostTypeOK
  <2> QED BY <1>1, <2>2 DEF PoInv, PoFacts
<1>5. MoneyFits(po', receipts', layers', used')
  BY <1>1, <1>3 DEF PoInv, MoneyFits
<1> QED BY <1>4, <1>5

\* Every step keeps the orders and the money.
LEMMA PoFactsStep ==
  ASSUME PoInv, StockTypeOK', [PoNext]_poVars
  PROVE  PoFacts' /\ MoneyFits(po, receipts, layers, used)'
<1>0. PoTypeOK /\ po \in [PurchaseOrders -> OrderRows]
  BY PoTypes DEF PoInv, PoFacts
<1>1. ASSUME NEW p \in PurchaseOrders, NEW ordered \in Lines, NEW cost \in [Keys -> Costs],
             CreatePo(p, ordered, cost)
      PROVE  PoFacts' /\ MoneyFits(po, receipts, layers, used)'
  <2> DEFINE row == [status |-> "DRAFT", ordered |-> ordered, cost |-> cost, received |-> Nothing]
  <2>1. /\ po' = [po EXCEPT ![p] = row] /\ po[p].status = "NONE"
        /\ UNCHANGED << receipts, costVars, used >>
    BY <1>1 DEF CreatePo
  <2>2. row \in OrderRows /\ row.received = Nothing /\ row.status = "DRAFT"
    <3>1. ordered \in [Keys -> Nat] /\ cost \in [Keys -> Nat] /\ Nothing \in [Keys -> Nat]
      BY LinesAreQuantities, CostsAssumption DEF Nothing
    <3> QED BY <3>1 DEF OrderRows, PoStatuses
  <2> HIDE DEF row
  <2> QED BY <2>1, <2>2, OrderedOnly
<1>2. ASSUME NEW p \in PurchaseOrders, Approve(p)
      PROVE  PoFacts' /\ MoneyFits(po, receipts, layers, used)'
  <2> DEFINE row == [po[p] EXCEPT !.status = "APPROVED"]
  <2>1. /\ po' = [po EXCEPT ![p] = row] /\ po[p].status = "DRAFT"
        /\ UNCHANGED << receipts, costVars, used >>
    BY <1>0, <1>2 DEF Approve
  <2>2. row \in OrderRows /\ row.received = po[p].received /\ row.status = "APPROVED"
    <3>1. po[p] \in OrderRows
      BY <1>0
    <3> QED BY <3>1 DEF OrderRows, PoStatuses
  <2>3. po[p].received = Nothing
    <3>1. /\ receipts[p] = << >>
          /\ \A k \in Keys : po[p].received[k] = BroughtBy(receipts[p], k)
      BY <2>1 DEF PoInv, PoFacts, OrderFits
    <3>2. \A k \in Keys : po[p].received[k] = 0
      BY <3>1, NoReceipts
    <3>3. po[p].received \in [Keys -> Nat]
      BY <1>0 DEF OrderRows
    <3> QED BY <3>2, <3>3 DEF Nothing
  <2> HIDE DEF row
  <2> QED BY <2>1, <2>2, <2>3, OrderedOnly
<1>3. ASSUME NEW p \in PurchaseOrders, NEW m \in 1..MaxReceiptLines,
             NEW rows \in [1..m -> [item : Keys, qty : Quantities]], NEW extra \in Extras,
             Receive(p, rows, extra)
      PROVE  PoFacts' /\ MoneyFits(po, receipts, layers, used)'
  <2>1. m \in Nat
    BY MaxReceiptsAssumption
  <2> QED BY <1>3, <2>1, ReceivedOrder
<1>4. ASSUME NEW k \in Keys, NEW qty \in Quantities, Sell(k, qty)
      PROVE  PoFacts' /\ MoneyFits(po, receipts, layers, used)'
  BY <1>4, SoldGoods
<1>5. CASE UNCHANGED poVars
  <2>1. /\ po' = po /\ receipts' = receipts /\ used' = used
        /\ layers' = layers /\ gained' = gained /\ lost' = lost
    BY <1>5 DEF poVars
  <2>2. PoTypeOK'
    BY <1>0, <2>1 DEF PoTypeOK, CostTypeOK
  <2> QED BY <2>1, <2>2 DEF PoInv, PoFacts, MoneyFits
<1>6. CASE OthersAdjust /\ UNCHANGED << po, receipts, used >>
  <2>1. PICK k \in Keys, type \in MovementTypes, qty \in Quantities :
          PostUncosted(k, type, qty)
    BY <1>6 DEF OthersAdjust
  <2>2. qty \in Nat /\ StockInv /\ CostTypeOK
    BY <1>0, QuantitiesAssumption DEF PoInv, PoTypeOK
  <2>3. layers' = layers /\ gained' \in [Keys -> Nat] /\ lost' \in [Keys -> Nat]
    BY <2>1, <2>2, UncostedShelf
  <2>4. PoTypeOK'
    BY <1>0, <1>6, <2>3 DEF PoTypeOK, CostTypeOK
  <2> QED BY <1>6, <2>3, <2>4 DEF PoInv, PoFacts, MoneyFits
<1> QED BY <1>1, <1>2, <1>3, <1>4, <1>5, <1>6 DEF PoNext, Rows

\* At first nothing is ordered, and there is nothing in stock.
LEMMA PoInitInv == PoInit => PoInv
<1> SUFFICES ASSUME PoInit PROVE PoInv
  OBVIOUS
<1>1. StockInv
  BY StockInitInv DEF PoInit
<1>2. NoPo \in OrderRows /\ NoPo.status = "NONE" /\ NoPo.received = Nothing
  <2>1. Nothing \in [Keys -> Nat]
    BY DEF Nothing
  <2> QED BY <2>1 DEF NoPo, OrderRows, PoStatuses
<1>3. << >> \in Seq(ReceiptRows) /\ Len(<< >>) <= MaxReceipts
  BY MaxReceiptsAssumption
<1>4. PoTypeOK
  <2>1. CostTypeOK
    BY NoLayers DEF PoInit, CostTypeOK, NothingAdjusted, Nothing
  <2> QED BY <1>1, <1>2, <1>3, <2>1 DEF PoInit, PoTypeOK, StockInv, OrderRows, ReceiptRows
<1>5. OrderFits(NoPo, << >>)
  BY <1>2, FreshOrder
<1>6. PoFacts
  BY <1>4, <1>5 DEF PoInit, PoFacts
<1>7. PaidTotal(po, receipts) = 0 /\ PiecesTotal(receipts) = 0
  <2> DEFINE f == [p \in PurchaseOrders |-> PaidBy(po[p].cost, receipts[p])]
             g == [p \in PurchaseOrders |-> PiecesBy(receipts[p])]
  <2>1. \A p \in PurchaseOrders : f[p] = 0 /\ g[p] = 0
    BY NoReceipts DEF PoInit
  <2>2. /\ PaidTotal(po, receipts) = SumFunctionOnSet(f, PurchaseOrders)
        /\ PiecesTotal(receipts) = SumFunctionOnSet(g, PurchaseOrders)
    BY DEF PaidTotal, PiecesTotal, SumFunction
  <2> HIDE DEF f, g
  <2>3. SumFunctionOnSet(f, PurchaseOrders) = 0
    BY <2>1, TablesAssumption, SumZero
  <2>4. SumFunctionOnSet(g, PurchaseOrders) = 0
    BY <2>1, TablesAssumption, SumZero
  <2> QED BY <2>2, <2>3, <2>4
<1>8. StockWorth(layers) = 0
  <2> DEFINE f == [k \in Keys |-> ValueOf(layers[k])]
  <2>1. \A k \in Keys : f[k] = 0
    BY NoLayers DEF PoInit
  <2>2. StockWorth(layers) = SumFunctionOnSet(f, Keys)
    BY DEF StockWorth, SumFunction
  <2> HIDE DEF f
  <2> QED BY <2>1, <2>2, TablesAssumption, SumZero
<1>9. used = 0
  BY DEF PoInit
<1>10. MoneyFits(po, receipts, layers, used)
  BY <1>7, <1>8, <1>9 DEF MoneyFits, Difference
<1> QED BY <1>1, <1>6, <1>10 DEF PoInv

\* PoInv is inductive.
THEOREM PoInvariant == PoSpec => []PoInv
<1>1. PoInv /\ [PoNext]_poVars => PoInv'
  <2> SUFFICES ASSUME PoInv, [PoNext]_poVars PROVE PoInv'
    OBVIOUS
  <2>1. StockInv /\ KeepsBook /\ BucketsHold'
    BY PoStockStep DEF PoInv
  <2>2. StockInv' /\ StockTypeOK'
    BY <2>1, StockInvKept DEF StockInv
  <2>3. PoFacts' /\ MoneyFits(po, receipts, layers, used)'
    BY <2>2, PoFactsStep
  <2> QED BY <2>2, <2>3 DEF PoInv
<1> QED BY <1>1, PoInitInv, PTL DEF PoSpec

\* An order knows what its receipts brought and is received exactly when all of it came;
\* over any number of receipts no more of a line comes than was ordered, as long as no
\* receipt lists it twice.
THEOREM ReceiptsCorrect == PoSpec => []ReceiptsWithinOrder
<1>1. PoInv => ReceiptsWithinOrder
  <2> SUFFICES ASSUME PoInv PROVE ReceiptsWithinOrder
    OBVIOUS
  <2>1. PoTypeOK
    BY DEF PoInv, PoFacts
  <2>2. ASSUME NEW p \in PurchaseOrders
        PROVE  /\ \A k \in Keys :
                    /\ po[p].received[k] = Brought(p, k)
                    /\ NoRepeatedLine(p) => Brought(p, k) <= po[p].ordered[k]
               /\ po[p].status = "RECEIVED" <=>
                    receipts[p] # << >> /\ \A k \in Keys : Brought(p, k) >= po[p].ordered[k]
    <3>1. OrderFits(po[p], receipts[p])
      BY DEF PoInv, PoFacts
    <3>2. NoRepeatedLine(p) <=> DistinctRows(receipts[p])
      BY DEF NoRepeatedLine, DistinctRows
    <3>3. \A k : Brought(p, k) = BroughtBy(receipts[p], k)
      BY DEF Brought, BroughtBy
    <3> QED BY <3>1, <3>2, <3>3 DEF OrderFits
  <2> QED BY <2>1, <2>2 DEF ReceiptsWithinOrder
<1> QED BY <1>1, PoInvariant, PTL

\* Money that was paid for goods and freight is in the stock or in the cost of what was
\* sold, over every mix of partial receipts and sales, up to half a unit of rounding for
\* each piece received.
THEOREM PaidIsInStockCorrect == PoSpec => []PaidIsInStock
<1>1. PoInv => PaidIsInStock
  <2> SUFFICES ASSUME PoInv PROVE PaidIsInStock
    OBVIOUS
  <2>1. SumFunction([p \in PurchaseOrders |-> Paid(p)]) = PaidTotal(po, receipts)
    BY DEF PaidTotal, Paid, PaidBy
  <2>2. SumFunction([p \in PurchaseOrders |-> Pieces(p)]) = PiecesTotal(receipts)
    BY DEF PiecesTotal, Pieces, PiecesBy
  <2>3. SumFunction([k \in Keys |-> ValueOf(layers[k])]) = StockWorth(layers)
    BY DEF StockWorth
  <2>4. 2 * Difference(PaidTotal(po, receipts), StockWorth(layers) + used)
          <= PiecesTotal(receipts)
    BY DEF PoInv, MoneyFits
  <2> QED BY <2>1, <2>2, <2>3, <2>4 DEF PaidIsInStock
<1> QED BY <1>1, PoInvariant, PTL

\* Receipts and the sale of what they brought implement the stock book.
THEOREM ProcurementImplementsBook == PoSpec => ImplementsStockBook
<1>1. PoInit => Book!Init
  BY BookInit DEF PoInit
<1>2. PoInv /\ [PoNext]_poVars => [Book!Transact]_(Book!vars)
  BY PoStockStep, BookStep DEF PoInv
<1> QED BY <1>1, <1>2, PoInvariant, PTL DEF PoSpec, ImplementsStockBook, Book!Spec
==============================================================================
