----------------------------- MODULE StockCounts -----------------------------
(***************************************************************************)
(* Stock counts and the adjustments they post:                              *)
(* src/apps/api/src/modules/inventory/counts.ts.                            *)
(*                                                                         *)
(* Creating and completing a count are SERIALIZABLE transactions.  Entering *)
(* a counted quantity and submitting the count are not: each reads the      *)
(* count's status and writes later, with other requests in between.  The    *)
(* requests between their read and their write are counted, so two alike    *)
(* are two.                                                                 *)
(***************************************************************************)
EXTENDS Inventory, Functions

CONSTANTS Counts,       \* stock count ids
          Counted,      \* quantities a counter may enter
          MaxEntering,  \* bound: line entries in flight at a time
          MaxSubmitting \* bound: submissions of one count in flight at a time

ASSUME CountedAssumption == Counted \subseteq Nat
ASSUME MaxEnteringAssumption == MaxEntering \in Nat
ASSUME MaxSubmittingAssumption == MaxSubmitting \in Nat

VARIABLES count,       \* count[c]: the StockCount row and its lines
          posted,      \* posted[c][k]: sum of deltaQty over k's ledger rows that refer to c
          entering,    \* entering[e]: entries of e between their read and their write
          submitting,  \* submitting[c]: submissions of c between their read and their write
          resubmitted, \* history: submissions of c written when it was completed
          reentered    \* history: lines written when their count had been completed

countVars == << count, posted, entering, submitting, resubmitted, reentered >>
vars == << balance, ledger, exceptions, synced,
           count, posted, entering, submitting, resubmitted, reentered >>

NotCounted == -1

CountRows == [ status : {"NONE", "IN_PROGRESS", "SUBMITTED", "COMPLETED"},
               items : SUBSET Keys, expectedQty : [Keys -> Int],
               countedQty : [Keys -> Nat \cup {NotCounted}] ]

NoCount == [ status |-> "NONE", items |-> {}, expectedQty |-> [k \in Keys |-> 0],
             countedQty |-> [k \in Keys |-> NotCounted] ]

Entries == [ count : Counts, item : Keys, qty : Counted ]

TypeOK ==
  /\ StockTypeOK
  /\ count \in [Counts -> CountRows]
  /\ posted \in [Counts -> [Keys -> Int]]
  /\ entering \in [Entries -> Nat]
  /\ submitting \in [Counts -> Nat]
  /\ resubmitted \in [Counts -> Nat]
  /\ reentered \subseteq Counts \X Keys

Init ==
  /\ StockInit
  /\ count = [c \in Counts |-> NoCount]
  /\ posted = [c \in Counts |-> [k \in Keys |-> 0]]
  /\ entering = [e \in Entries |-> 0]
  /\ submitting = [c \in Counts |-> 0]
  /\ resubmitted = [c \in Counts |-> 0]
  /\ reentered = {}

\* How often a count was completed: it is completed now, or a submission undid it.
Completions(c) == resubmitted[c] + IF count[c].status = "COMPLETED" THEN 1 ELSE 0

------------------------------------------------------------------------------

\* POST /v1/stock-counts: the on-hand quantities are snapshotted as expected.
Create(c, items) ==
  /\ count[c].status = "NONE"
  /\ count' = [count EXCEPT ![c] =
       [NoCount EXCEPT !.status = "IN_PROGRESS", !.items = items,
          !.expectedQty = [k \in Keys |-> IF k \in items THEN balance[k].onHand ELSE 0]]]
  /\ UNCHANGED << stockVars, posted, entering, submitting, resubmitted, reentered >>

\* PATCH /v1/stock-counts/:id/lines/:lineId, its reads.
ReadForEntry(c, k, qty) ==
  /\ count[c].status \in {"IN_PROGRESS", "SUBMITTED"}
  /\ k \in count[c].items
  /\ SumFunction(entering) < MaxEntering
  /\ entering' = [entering EXCEPT ![[count |-> c, item |-> k, qty |-> qty]] = @ + 1]
  /\ UNCHANGED << stockVars, count, posted, submitting, resubmitted, reentered >>

\* Its write: the line takes the quantity whatever became of the count.
WriteEntry(e) ==
  /\ entering[e] > 0
  /\ entering' = [entering EXCEPT ![e] = @ - 1]
  /\ count' = [count EXCEPT ![e.count].countedQty[e.item] = e.qty]
  /\ reentered' = IF Completions(e.count) > 0
                  THEN reentered \cup {<< e.count, e.item >>} ELSE reentered
  /\ UNCHANGED << stockVars, posted, submitting, resubmitted >>

\* Mutant: a count with some line counted may be submitted.
ReadForSubmit_SomeLine(c) ==
  /\ count[c].status = "IN_PROGRESS"
  /\ \E k \in count[c].items : count[c].countedQty[k] # NotCounted
  /\ submitting[c] < MaxSubmitting
  /\ submitting' = [submitting EXCEPT ![c] = @ + 1]
  /\ UNCHANGED << stockVars, count, posted, entering, resubmitted, reentered >>

\* POST /v1/stock-counts/:id/submit, its read: every line has been counted.  Several
\* submissions may read the count before the first of them writes.
ReadForSubmit(c) ==
  /\ count[c].status = "IN_PROGRESS"
  /\ \A k \in count[c].items : count[c].countedQty[k] # NotCounted
  /\ submitting[c] < MaxSubmitting
  /\ submitting' = [submitting EXCEPT ![c] = @ + 1]
  /\ UNCHANGED << stockVars, count, posted, entering, resubmitted, reentered >>

\* Its write, whatever the status is by now: a count that another submission brought
\* to its completion meanwhile is submitted again.
WriteSubmitted(c) ==
  /\ submitting[c] > 0
  /\ submitting' = [submitting EXCEPT ![c] = @ - 1]
  /\ count' = [count EXCEPT ![c].status = "SUBMITTED"]
  /\ resubmitted' = [resubmitted EXCEPT ![c] = Completions(c)]
  /\ UNCHANGED << stockVars, posted, entering, reentered >>

\* Mutant: the variance is taken against the stock at completion.
Variance_AgainstNow(c, k) ==
  IF k \in count[c].items THEN count[c].countedQty[k] - balance[k].onHand ELSE 0

\* Counted minus expected, line by line.
Variance(c, k) ==
  IF k \in count[c].items THEN count[c].countedQty[k] - count[c].expectedQty[k] ELSE 0

Gains(c) == [k \in Keys |-> IF Variance(c, k) > 0 THEN Variance(c, k) ELSE 0]
Losses(c) == [k \in Keys |-> IF Variance(c, k) < 0 THEN -Variance(c, k) ELSE 0]

\* Mutant: completing does not look at the status.
Complete_AnyStatus(c) ==
  /\ count[c].items # {}
  /\ Room("ADJUSTMENT_GAIN", Gains(c))
  /\ CanPostAll(balance, "ADJUSTMENT_LOSS", Losses(c), FALSE)
  /\ balance' = PostedAll(PostedAll(balance, "ADJUSTMENT_GAIN", Gains(c)),
                          "ADJUSTMENT_LOSS", Losses(c))
  /\ ledger' = BookedAll(BookedAll(ledger, "ADJUSTMENT_GAIN", Gains(c)),
                         "ADJUSTMENT_LOSS", Losses(c))
  /\ posted' = [posted EXCEPT ![c] = [k \in Keys |-> @[k] + Variance(c, k)]]
  /\ count' = [count EXCEPT ![c].status = "COMPLETED"]
  /\ UNCHANGED << exceptions, synced, entering, submitting, resubmitted, reentered >>

\* POST /v1/stock-counts/:id/complete: every variance is posted, or, where a
\* loss exceeds what is available, none.
Complete(c) ==
  /\ count[c].status = "SUBMITTED"
  /\ Room("ADJUSTMENT_GAIN", Gains(c))
  /\ CanPostAll(balance, "ADJUSTMENT_LOSS", Losses(c), FALSE)
  /\ balance' = PostedAll(PostedAll(balance, "ADJUSTMENT_GAIN", Gains(c)),
                          "ADJUSTMENT_LOSS", Losses(c))
  /\ ledger' = BookedAll(BookedAll(ledger, "ADJUSTMENT_GAIN", Gains(c)),
                         "ADJUSTMENT_LOSS", Losses(c))
  /\ posted' = [posted EXCEPT ![c] = [k \in Keys |-> @[k] + Variance(c, k)]]
  /\ count' = [count EXCEPT ![c].status = "COMPLETED"]
  /\ UNCHANGED << exceptions, synced, entering, submitting, resubmitted, reentered >>

\* The shop goes on trading while a count is under way.
ShopTrades ==
  /\ \E type \in {"PURCHASE_RECEIPT", "SALE", "RESERVATION"}, lines \in Lines :
       PostDocument(type, lines)
  /\ UNCHANGED countVars

Next ==
  \/ ShopTrades
  \/ \E c \in Counts, items \in (SUBSET Keys) \ {{}} : Create(c, items)
  \/ \E c \in Counts, k \in Keys, qty \in Counted : ReadForEntry(c, k, qty)
  \/ \E e \in Entries : WriteEntry(e)
  \/ \E c \in Counts : ReadForSubmit(c) \/ WriteSubmitted(c) \/ Complete(c)

Spec == Init /\ [][Next]_vars

------------------------------------------------------------------------------

\* The varianceQty of a line, as the entries of its counted quantity wrote it.
RecordedVariance(c, k) ==
  IF k \in count[c].items THEN count[c].countedQty[k] - count[c].expectedQty[k] ELSE 0

\* A count adjusts the ledger by exactly the variance its lines record, at its
\* completion and not before; and once, unless a submission that had read the count
\* before is written after its completion, which lets it be completed once more.  A
\* line entered after a completion no longer records what was posted.  (All values
\* have their types.)
CountPostsItsVariance ==
  /\ TypeOK
  /\ \A c \in Counts, k \in Keys :
       << c, k >> \notin reentered
         => posted[c][k] = Completions(c) * RecordedVariance(c, k)

\* No count is up for approval with an uncounted line, although the submission
\* is written after the lines were checked: an entry never uncounts a line.
SubmittedIsCounted ==
  \A c \in Counts :
    count[c].status \in {"SUBMITTED", "COMPLETED"} \/ submitting[c] > 0
      => \A k \in count[c].items : count[c].countedQty[k] # NotCounted
==============================================================================
