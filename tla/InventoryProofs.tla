--------------------------- MODULE InventoryProofs ---------------------------
(***************************************************************************)
(* Theorems about Inventory, for every set of items, quantities and sales,  *)
(* and lemmas about the cost layers that its documents open and use.        *)
(*                                                                         *)
(* The argument: one movement changes what is available of an item by       *)
(* exactly the deltaQty it books (PostedAvailable), so the ledger and the   *)
(* balance never part; it takes from what is available only what is there,  *)
(* or else, offline, records what is missing, so no shortfall goes          *)
(* unrecorded.  StockInv is the inductive form of both.                     *)
(*                                                                         *)
(* The argument for the layers: the loop of consumeFifoCost takes a         *)
(* quantity from the oldest layer on, so what it leaves and what it takes   *)
(* add up to what was there, and only the oldest layer is partly used.      *)
(*                                                                         *)
(* The last part is about documents of several lines: what is rounded once  *)
(* a line is, over all lines, off by at most half a unit for each.          *)
(***************************************************************************)
EXTENDS CostedStock, FiniteFacts, SequenceTheorems, TLAPS

\* The inductive invariant of the stock.
StockInv == StockTypeOK /\ LedgerIsTruth /\ ShortfallsOnRecord /\ BucketsHold

------------------------------------------------------------------------------

\* A posting keeps a balance a balance, and moves what is available by the
\* quantity the ledger row records: the two switch statements of service.ts
\* (ledgerDelta and balanceChange) agree on every movement type.
LEMMA PostedAvailable ==
  ASSUME NEW b \in Balances, NEW type \in MovementTypes, NEW qty \in Int
  PROVE  /\ Posted(b, type, qty) \in Balances
         /\ Available(b) \in Int
         /\ LedgerDelta(type, qty) \in Int
         /\ Available(Posted(b, type, qty)) = Available(b) + LedgerDelta(type, qty)
BY DEF Balances, MovementTypes, Posted, Available, LedgerDelta, BalanceChange, Signed

\* A movement the service accepts without allowNegative leaves what is
\* available where it was or above, or at least at zero.
LEMMA PostedCovered ==
  ASSUME NEW b \in Balances, NEW type \in MovementTypes, NEW qty \in Int,
         CanPost(b, type, qty, FALSE)
  PROVE  \/ Available(Posted(b, type, qty)) >= Available(b)
         \/ Available(Posted(b, type, qty)) >= 0
BY DEF Balances, MovementTypes, Posted, Available, BalanceChange, Signed,
       CanPost, RequiresSellable

\* A movement the service accepts empties no bucket below zero.
LEMMA PostedBuckets ==
  ASSUME NEW b \in Balances, NEW type \in MovementTypes, NEW qty \in Int,
         NEW allow \in BOOLEAN, CanPost(b, type, qty, allow),
         b.reserved >= 0, b.quarantined >= 0, b.damaged >= 0, b.expired >= 0,
         b.committed = 0
  PROVE  LET p == Posted(b, type, qty) IN
         /\ p.reserved >= 0 /\ p.quarantined >= 0 /\ p.damaged >= 0
         /\ p.expired >= 0 /\ p.committed = 0
BY DEF Balances, MovementTypes, Posted, BalanceChange, Signed, CanPost

------------------------------------------------------------------------------

\* The lines of a document are numbers.
LEMMA LinesAreQuantities ==
  ASSUME NEW lines \in Lines
  PROVE  lines \in [Keys -> Nat]
<1>1. Quantities \cup {0} \subseteq Nat
  BY QuantitiesAssumption
<1>2. lines \in [Keys -> Quantities \cup {0}]
  BY DEF Lines
<1> QED BY <1>1, <1>2

\* What posting a document's lines does to every item.
LEMMA PostedAllItems ==
  ASSUME StockTypeOK, NEW type \in MovementTypes, NEW lines \in [Keys -> Nat],
         balance' = PostedAll(balance, type, lines),
         ledger' = BookedAll(ledger, type, lines)
  PROVE  /\ balance' \in [Keys -> Balances]
         /\ ledger' \in [Keys -> Int]
         /\ \A k \in Keys :
              /\ Available(balance[k]) \in Int
              /\ Available(balance'[k]) \in Int
              /\ ledger'[k] - ledger[k] = Available(balance'[k]) - Available(balance[k])
<1>1. ASSUME NEW k \in Keys
      PROVE  /\ balance'[k] \in Balances /\ ledger'[k] \in Int
             /\ Available(balance[k]) \in Int /\ Available(balance'[k]) \in Int
             /\ ledger'[k] - ledger[k] = Available(balance'[k]) - Available(balance[k])
  <2>1. balance[k] \in Balances /\ ledger[k] \in Int /\ lines[k] \in Int
    BY DEF StockTypeOK
  <2>2. /\ Posted(balance[k], type, lines[k]) \in Balances
        /\ Available(balance[k]) \in Int
        /\ LedgerDelta(type, lines[k]) \in Int
        /\ Available(Posted(balance[k], type, lines[k]))
             = Available(balance[k]) + LedgerDelta(type, lines[k])
    BY <2>1, PostedAvailable
  <2>3. balance'[k] = IF lines[k] > 0 THEN Posted(balance[k], type, lines[k])
                                      ELSE balance[k]
    BY DEF PostedAll, StockTypeOK
  <2>4. ledger'[k] = IF lines[k] > 0 THEN ledger[k] + LedgerDelta(type, lines[k])
                                     ELSE ledger[k]
    BY DEF BookedAll, StockTypeOK
  <2>5. CASE lines[k] > 0
    BY <2>1, <2>2, <2>3, <2>4, <2>5
  <2>6. CASE ~(lines[k] > 0)
    BY <2>1, <2>2, <2>3, <2>4, <2>6
  <2> QED BY <2>5, <2>6
<1>2. balance' = [k \in Keys |-> balance'[k]] /\ ledger' = [k \in Keys |-> ledger'[k]]
  BY DEF PostedAll, BookedAll, StockTypeOK
<1> QED BY <1>1, <1>2

\* The buckets after posting a document's lines.
LEMMA PostedAllBuckets ==
  ASSUME StockTypeOK, BucketsHold, NEW type \in MovementTypes,
         NEW lines \in [Keys -> Nat], NEW allow \in BOOLEAN,
         CanPostAll(balance, type, lines, allow),
         balance' = PostedAll(balance, type, lines)
  PROVE  BucketsHold'
<1> SUFFICES ASSUME NEW k \in Keys
             PROVE  /\ balance'[k].reserved >= 0 /\ balance'[k].quarantined >= 0
                    /\ balance'[k].damaged >= 0 /\ balance'[k].expired >= 0
                    /\ balance'[k].committed = 0
  BY DEF BucketsHold
<1>1. balance[k] \in Balances /\ lines[k] \in Int
  BY DEF StockTypeOK
<1>2. /\ balance[k].reserved >= 0 /\ balance[k].quarantined >= 0
      /\ balance[k].damaged >= 0 /\ balance[k].expired >= 0
      /\ balance[k].committed = 0
  BY DEF BucketsHold
<1>3. balance'[k] = IF lines[k] > 0 THEN Posted(balance[k], type, lines[k])
                                    ELSE balance[k]
  BY DEF PostedAll, StockTypeOK
<1>4. CASE lines[k] > 0
  <2>1. CanPost(balance[k], type, lines[k], allow)
    BY <1>4 DEF CanPostAll
  <2> QED BY <1>1, <1>2, <1>3, <1>4, <2>1, PostedBuckets
<1>5. CASE ~(lines[k] > 0)
  BY <1>2, <1>3, <1>5
<1> QED BY <1>4, <1>5

------------------------------------------------------------------------------

\* A posting that is not allowed to go negative leaves every item covered by
\* the exceptions on record, which it does not touch.
LEMMA PostCovered ==
  ASSUME StockInv, NEW type \in MovementTypes, NEW lines \in [Keys -> Nat],
         Post(type, lines), UNCHANGED exceptions
  PROVE  \A k \in Keys :
           /\ Available(balance'[k]) < Available(balance[k]) => Available(balance'[k]) >= 0
           /\ ShortfallsOf(k)' = ShortfallsOf(k)
<1>1. ASSUME NEW k \in Keys
      PROVE  Available(balance'[k]) < Available(balance[k]) => Available(balance'[k]) >= 0
  <2>1. balance[k] \in Balances /\ lines[k] \in Int
    BY DEF StockInv, StockTypeOK
  <2>2. balance'[k] = IF lines[k] > 0 THEN Posted(balance[k], type, lines[k])
                                      ELSE balance[k]
    BY DEF PostedAll, Post, StockInv, StockTypeOK
  <2>3. Available(balance[k]) \in Int /\ Available(Posted(balance[k], type, lines[k])) \in Int
    BY <2>1, PostedAvailable
  <2>4. CASE lines[k] > 0
    <3>1. CanPost(balance[k], type, lines[k], FALSE)
      BY <2>4 DEF Post, CanPostAll
    <3>2. balance'[k] = Posted(balance[k], type, lines[k])
      BY <2>2, <2>4
    <3>3. \/ Available(Posted(balance[k], type, lines[k])) >= Available(balance[k])
          \/ Available(Posted(balance[k], type, lines[k])) >= 0
      BY <2>1, <3>1, PostedCovered
    <3> QED BY <2>3, <3>2, <3>3
  <2>5. CASE ~(lines[k] > 0)
    BY <2>2, <2>3, <2>5
  <2> QED BY <2>4, <2>5
<1> QED BY <1>1 DEF ShortfallsOf

------------------------------------------------------------------------------
(***************************************************************************)
(* What every step keeps, said in the terms of StockBook.                   *)
(***************************************************************************)

\* An item's shortfall is on record.
CoveredNow(k) ==
  \/ Available(balance[k]) >= 0
  \/ \E short \in ShortfallsOf(k) : Available(balance[k]) + short >= 0

\* What a step must keep of an item's book.
KeepsBook ==
  /\ StockTypeOK'
  /\ \A k \in Keys :
       /\ Available(balance'[k]) \in Int
       /\ ledger'[k] - ledger[k] = Available(balance'[k]) - Available(balance[k])
       /\ ShortfallsOf(k) \subseteq ShortfallsOf(k)'
       /\ Available(balance'[k]) < Available(balance[k]) => CoveredNow(k)'

\* Shortfalls on record are numbers.
LEMMA ShortfallsAreNats ==
  ASSUME StockTypeOK
  PROVE  \A k \in Keys : ShortfallsOf(k) \subseteq Nat
BY DEF StockTypeOK, Exceptions, ShortfallsOf

\* What is available is a number.
LEMMA AvailableIsInt ==
  ASSUME StockTypeOK
  PROVE  \A k \in Keys : Available(balance[k]) \in Int
BY DEF StockTypeOK, Balances, Available

\* A step that keeps the book keeps its two promises.
LEMMA KeepsPromises ==
  ASSUME StockInv, KeepsBook
  PROVE  LedgerIsTruth' /\ ShortfallsOnRecord'
<1>1. \A k \in Keys : Available(balance[k]) \in Int /\ ledger[k] \in Int /\ ledger'[k] \in Int
  BY AvailableIsInt DEF StockInv, StockTypeOK, KeepsBook
<1>2. LedgerIsTruth'
  <2> SUFFICES ASSUME NEW k \in Keys PROVE ledger'[k] = Available(balance'[k])
    BY DEF LedgerIsTruth
  <2>1. ledger[k] = Available(balance[k])
    BY DEF StockInv, LedgerIsTruth
  <2> QED BY <1>1, <2>1 DEF KeepsBook
<1>3. ASSUME NEW k \in Keys PROVE CoveredNow(k)'
  <2>1. CoveredNow(k)
    BY DEF StockInv, ShortfallsOnRecord, CoveredNow
  <2>2. /\ Available(balance'[k]) \in Int /\ Available(balance[k]) \in Int
        /\ ShortfallsOf(k) \subseteq ShortfallsOf(k)'
        /\ Available(balance'[k]) < Available(balance[k]) => CoveredNow(k)'
    BY <1>1 DEF KeepsBook
  <2>3. CASE Available(balance'[k]) < Available(balance[k])
    BY <2>2, <2>3
  <2>4. CASE ~(Available(balance'[k]) < Available(balance[k]))
    <3>1. CASE Available(balance[k]) >= 0
      BY <2>2, <2>4, <3>1 DEF CoveredNow
    <3>2. CASE \E short \in ShortfallsOf(k) : Available(balance[k]) + short >= 0
      <4>1. PICK short \in ShortfallsOf(k) : Available(balance[k]) + short >= 0
        BY <3>2
      <4>2. short \in ShortfallsOf(k)' /\ short \in Int
        BY <2>2, <4>1, ShortfallsAreNats DEF StockInv
      <4>3. Available(balance'[k]) + short >= 0
        BY <2>2, <2>4, <4>1, <4>2
      <4> QED BY <4>2, <4>3 DEF CoveredNow
    <3> QED BY <2>1, <3>1, <3>2 DEF CoveredNow
  <2> QED BY <2>3, <2>4
<1>4. ShortfallsOnRecord'
  BY <1>3 DEF CoveredNow, ShortfallsOnRecord
<1> QED BY <1>2, <1>4

\* Adjustments and the documents' postings.
LEMMA PostStep ==
  ASSUME StockInv, NEW type \in MovementTypes, NEW lines \in [Keys -> Nat],
         Post(type, lines), UNCHANGED << exceptions, synced >>
  PROVE  KeepsBook /\ BucketsHold'
<1>1. /\ balance' = PostedAll(balance, type, lines)
      /\ ledger' = BookedAll(ledger, type, lines)
      /\ CanPostAll(balance, type, lines, FALSE)
  BY DEF Post
<1>2. /\ balance' \in [Keys -> Balances]
      /\ ledger' \in [Keys -> Int]
      /\ \A k \in Keys :
           /\ Available(balance[k]) \in Int
           /\ Available(balance'[k]) \in Int
           /\ ledger'[k] - ledger[k] = Available(balance'[k]) - Available(balance[k])
  BY <1>1, PostedAllItems DEF StockInv
<1>3. StockTypeOK'
  BY <1>2 DEF StockInv, StockTypeOK
<1>4. \A k \in Keys :
        /\ Available(balance'[k]) < Available(balance[k]) => Available(balance'[k]) >= 0
        /\ ShortfallsOf(k)' = ShortfallsOf(k)
  BY PostCovered
<1>5. KeepsBook
  BY <1>2, <1>3, <1>4 DEF KeepsBook, CoveredNow
<1>6. BucketsHold'
  BY <1>1, PostedAllBuckets DEF StockInv
<1> QED BY <1>5, <1>6

\* One item of a document: its balance and its ledger after a posting.
Moved(b, type, qty) == IF qty > 0 THEN Posted(b, type, qty) ELSE b

\* A ledger sum after a posting.
Written(n, type, qty) == IF qty > 0 THEN n + LedgerDelta(type, qty) ELSE n

\* No bucket below zero, nothing committed.
Filled(b) ==
  /\ b.reserved >= 0 /\ b.quarantined >= 0 /\ b.damaged >= 0 /\ b.expired >= 0
  /\ b.committed = 0

\* One item before and after a posting.
LEMMA MovedItem ==
  ASSUME NEW b \in Balances, NEW n \in Int, NEW type \in MovementTypes, NEW qty \in Nat,
         qty > 0 => CanPost(b, type, qty, FALSE), Filled(b)
  PROVE  /\ Moved(b, type, qty) \in Balances
         /\ Available(b) \in Int /\ Available(Moved(b, type, qty)) \in Int
         /\ Written(n, type, qty) \in Int
         /\ Written(n, type, qty) - n = Available(Moved(b, type, qty)) - Available(b)
         /\ \/ Available(Moved(b, type, qty)) >= Available(b)
            \/ Available(Moved(b, type, qty)) >= 0
         /\ Filled(Moved(b, type, qty))
<1>1. CASE qty > 0
  <2>1. CanPost(b, type, qty, FALSE) /\ qty \in Int /\ FALSE \in BOOLEAN
    <3>1. CanPost(b, type, qty, FALSE)
      BY <1>1, Zenon
    <3>2. qty \in Int
      OBVIOUS
    <3> QED BY <3>1, <3>2, Zenon
  <2>2. Moved(b, type, qty) = Posted(b, type, qty)
    BY <1>1 DEF Moved
  <2>3. Written(n, type, qty) = n + LedgerDelta(type, qty)
    BY <1>1 DEF Written
  <2>4. /\ Posted(b, type, qty) \in Balances
        /\ Available(b) \in Int /\ LedgerDelta(type, qty) \in Int
        /\ Available(Posted(b, type, qty)) = Available(b) + LedgerDelta(type, qty)
    BY <2>1, PostedAvailable
  <2>5. \/ Available(Posted(b, type, qty)) >= Available(b)
        \/ Available(Posted(b, type, qty)) >= 0
    BY <2>1, PostedCovered, Zenon
  <2>6. Filled(Posted(b, type, qty))
    BY <2>1, PostedBuckets, Zenon DEF Filled
  <2> QED BY <2>2, <2>3, <2>4, <2>5, <2>6
<1>2. CASE ~(qty > 0)
  BY <1>2 DEF Moved, Written, Balances, Available
<1> QED BY <1>1, <1>2

\* Two postings of one document, the second on the balances that the first left:
\* an order's release and sale, a count's gains and losses.
LEMMA PostBothStep ==
  ASSUME StockInv, NEW first \in MovementTypes, NEW second \in MovementTypes,
         NEW lines \in [Keys -> Nat], NEW more \in [Keys -> Nat],
         CanPostAll(balance, first, lines, FALSE),
         CanPostAll(PostedAll(balance, first, lines), second, more, FALSE),
         balance' = PostedAll(PostedAll(balance, first, lines), second, more),
         ledger' = BookedAll(BookedAll(ledger, first, lines), second, more),
         UNCHANGED << exceptions, synced >>
  PROVE  KeepsBook /\ BucketsHold'
<1>1. ASSUME NEW k \in Keys
      PROVE  /\ balance'[k] \in Balances /\ ledger'[k] \in Int
             /\ Available(balance[k]) \in Int /\ Available(balance'[k]) \in Int
             /\ ledger'[k] - ledger[k] = Available(balance'[k]) - Available(balance[k])
             /\ Available(balance'[k]) < Available(balance[k]) => Available(balance'[k]) >= 0
             /\ Filled(balance'[k])
  <2> DEFINE b == Moved(balance[k], first, lines[k])
             n == Written(ledger[k], first, lines[k])
  <2>1. /\ balance'[k] = Moved(b, second, more[k])
        /\ ledger'[k] = Written(n, second, more[k])
        /\ PostedAll(balance, first, lines)[k] = b
    BY DEF PostedAll, BookedAll, StockInv, StockTypeOK, Moved, Written
  <2>2. /\ balance[k] \in Balances /\ ledger[k] \in Int /\ Filled(balance[k])
        /\ lines[k] \in Nat /\ more[k] \in Nat
    BY DEF StockInv, StockTypeOK, BucketsHold, Filled
  <2>3. /\ lines[k] > 0 => CanPost(balance[k], first, lines[k], FALSE)
        /\ more[k] > 0 => CanPost(b, second, more[k], FALSE)
    BY <2>1 DEF CanPostAll
  <2>4. /\ b \in Balances /\ Available(b) \in Int /\ Available(balance[k]) \in Int
        /\ n \in Int /\ n - ledger[k] = Available(b) - Available(balance[k])
        /\ Available(b) >= Available(balance[k]) \/ Available(b) >= 0
        /\ Filled(b)
    BY <2>2, <2>3, MovedItem, Zenon
  <2> HIDE DEF b, n
  <2>5. /\ balance'[k] \in Balances /\ Available(balance'[k]) \in Int
        /\ ledger'[k] \in Int /\ ledger'[k] - n = Available(balance'[k]) - Available(b)
        /\ Available(balance'[k]) >= Available(b) \/ Available(balance'[k]) >= 0
        /\ Filled(balance'[k])
    <3>1. more[k] \in Nat /\ (more[k] > 0 => CanPost(b, second, more[k], FALSE))
      BY <2>2, <2>3
    <3> DEFINE m == Moved(b, second, more[k])
    <3>2. /\ m \in Balances /\ Available(m) \in Int
          /\ Written(n, second, more[k]) \in Int
          /\ Written(n, second, more[k]) - n = Available(m) - Available(b)
          /\ Available(m) >= Available(b) \/ Available(m) >= 0
          /\ Filled(m)
      BY <2>4, <3>1, MovedItem, Zenon
    <3> HIDE DEF m
    <3> QED BY <2>1, <3>2, Zenon DEF m
  <2> DEFINE before == Available(balance[k])
             between == Available(b)
             after == Available(balance'[k])
             l == ledger[k]
             m == ledger'[k]
  <2>6. /\ before \in Int /\ between \in Int /\ after \in Int /\ l \in Int /\ n \in Int /\ m \in Int
        /\ n - l = between - before /\ m - n = after - between
        /\ between >= before \/ between >= 0
        /\ after >= between \/ after >= 0
    BY <2>2, <2>4, <2>5, Zenon
  <2> HIDE DEF before, between, after, l, m
  <2>7. m - l = after - before /\ (after < before => after >= 0)
    BY <2>6
  <2> QED BY <2>5, <2>6, <2>7, Zenon DEF before, after, l, m
<1>2. balance' = [k \in Keys |-> balance'[k]] /\ ledger' = [k \in Keys |-> ledger'[k]]
  BY DEF PostedAll, BookedAll, StockInv, StockTypeOK
<1>3. StockTypeOK'
  <2>1. balance' \in [Keys -> Balances] /\ ledger' \in [Keys -> Int]
    BY <1>1, <1>2
  <2> QED BY <2>1 DEF StockInv, StockTypeOK
<1>4. \A k \in Keys : ShortfallsOf(k)' = ShortfallsOf(k)
  BY DEF ShortfallsOf
<1>5. KeepsBook
  BY <1>1, <1>3, <1>4 DEF KeepsBook, CoveredNow
<1>6. BucketsHold'
  BY <1>1 DEF BucketsHold, Filled
<1> QED BY <1>5, <1>6

\* An offline sale: what it takes below zero it reports.
LEMMA OfflineStep ==
  ASSUME StockInv, NEW s \in SaleRefs, NEW lines \in [Keys -> Nat],
         SyncOfflineSale(s, lines)
  PROVE  KeepsBook /\ BucketsHold'
<1>1. /\ balance' = PostedAll(balance, "SALE", lines)
      /\ ledger' = BookedAll(ledger, "SALE", lines)
      /\ CanPostAll(balance, "SALE", lines, TRUE)
      /\ exceptions' = exceptions \cup Oversells(s, lines, balance')
      /\ synced' = synced \cup {s}
  BY DEF SyncOfflineSale
<1>2. "SALE" \in MovementTypes
  BY DEF MovementTypes
<1>3. /\ balance' \in [Keys -> Balances]
      /\ ledger' \in [Keys -> Int]
      /\ \A k \in Keys :
           /\ Available(balance[k]) \in Int
           /\ Available(balance'[k]) \in Int
           /\ ledger'[k] - ledger[k] = Available(balance'[k]) - Available(balance[k])
  BY <1>1, <1>2, PostedAllItems DEF StockInv
<1>4. Oversells(s, lines, balance') \subseteq Exceptions
  <2> SUFFICES ASSUME NEW r \in Oversells(s, lines, balance') PROVE r \in Exceptions
    OBVIOUS
  <2>1. PICK k \in { i \in Keys : lines[i] > 0 /\ Available(balance'[i]) < 0 } :
          r = [sale |-> s, item |-> k, short |-> -Available(balance'[k]), open |-> TRUE]
    BY DEF Oversells
  <2>2. -Available(balance'[k]) \in Nat
    BY <1>3, <2>1
  <2> QED BY <2>1, <2>2 DEF Exceptions
<1>5. StockTypeOK'
  BY <1>1, <1>3, <1>4 DEF StockInv, StockTypeOK
<1>6. ASSUME NEW k \in Keys
      PROVE  /\ ShortfallsOf(k) \subseteq ShortfallsOf(k)'
             /\ Available(balance'[k]) < Available(balance[k]) => CoveredNow(k)'
  <2>1. ShortfallsOf(k) \subseteq ShortfallsOf(k)'
    BY <1>1 DEF ShortfallsOf
  <2>2. ASSUME Available(balance'[k]) < Available(balance[k]),
               ~(Available(balance'[k]) >= 0)
        PROVE  \E short \in ShortfallsOf(k)' : Available(balance'[k]) + short >= 0
    <3>1. balance'[k] = IF lines[k] > 0 THEN Posted(balance[k], "SALE", lines[k])
                                        ELSE balance[k]
      BY <1>1 DEF PostedAll, StockInv, StockTypeOK
    <3>2. lines[k] > 0
      BY <1>3, <2>2, <3>1
    <3> DEFINE row == [sale |-> s, item |-> k, short |-> -Available(balance'[k]), open |-> TRUE]
    <3>3. row \in Oversells(s, lines, balance')
      <4>1. k \in { i \in Keys : lines[i] > 0 /\ Available(balance'[i]) < 0 }
        BY <1>3, <2>2, <3>2
      <4> QED BY <4>1 DEF Oversells
    <3>4. -Available(balance'[k]) \in ShortfallsOf(k)'
      BY <1>1, <3>3 DEF ShortfallsOf
    <3>5. Available(balance'[k]) + (-Available(balance'[k])) >= 0
      BY <1>3
    <3> QED BY <3>4, <3>5
  <2> QED BY <2>1, <2>2 DEF CoveredNow
<1>7. KeepsBook
  BY <1>3, <1>5, <1>6 DEF KeepsBook
<1>8. BucketsHold'
  BY <1>1, <1>2, PostedAllBuckets DEF StockInv
<1> QED BY <1>7, <1>8

\* Resolving an exception keeps its row and its shortfall.
LEMMA ResolveStep ==
  ASSUME StockInv, NEW e \in exceptions, ResolveException(e)
  PROVE  KeepsBook /\ BucketsHold'
<1>1. /\ exceptions' = (exceptions \ {e}) \cup {[e EXCEPT !.open = FALSE]}
      /\ balance' = balance /\ ledger' = ledger /\ synced' = synced
  BY DEF ResolveException
<1>2. e \in Exceptions
  BY DEF StockInv, StockTypeOK
<1>3. /\ [e EXCEPT !.open = FALSE] \in Exceptions
      /\ [e EXCEPT !.open = FALSE].item = e.item
      /\ [e EXCEPT !.open = FALSE].short = e.short
  BY <1>2 DEF Exceptions
<1>4. StockTypeOK'
  BY <1>1, <1>3 DEF StockInv, StockTypeOK
<1>5. \A k \in Keys : ShortfallsOf(k) \subseteq ShortfallsOf(k)'
  BY <1>1, <1>3 DEF ShortfallsOf
<1>6. \A k \in Keys : Available(balance[k]) \in Int /\ ledger[k] \in Int
  BY AvailableIsInt DEF StockInv, StockTypeOK
<1>7. KeepsBook
  BY <1>1, <1>4, <1>5, <1>6 DEF KeepsBook
<1>8. BucketsHold'
  BY <1>1 DEF StockInv, BucketsHold
<1> QED BY <1>7, <1>8

------------------------------------------------------------------------------

\* Every step of the inventory, stuttering included.
LEMMA StockStep ==
  ASSUME StockInv, [StockNext]_stockVars
  PROVE  KeepsBook /\ BucketsHold'
<1>1. ASSUME NEW k \in Keys, NEW type \in MovementTypes, NEW qty \in Quantities,
             Adjust(k, type, qty)
      PROVE  KeepsBook /\ BucketsHold'
  <2> DEFINE lines == [i \in Keys |-> IF i = k THEN qty ELSE 0]
  <2>1. qty \in Nat
    BY QuantitiesAssumption
  <2>2. lines \in [Keys -> Nat]
    BY <2>1
  <2>3. Post(type, lines) /\ UNCHANGED << exceptions, synced >>
    BY <1>1 DEF Adjust
  <2> HIDE DEF lines
  <2> QED BY <2>2, <2>3, PostStep
<1>2. ASSUME NEW type \in MovementTypes, NEW lines \in Lines, PostDocument(type, lines)
      PROVE  KeepsBook /\ BucketsHold'
  <2>1. Post(type, lines) /\ UNCHANGED << exceptions, synced >>
    BY <1>2 DEF PostDocument
  <2> QED BY <2>1, LinesAreQuantities, PostStep
<1>3. ASSUME NEW s \in SaleRefs, NEW lines \in Lines, SyncOfflineSale(s, lines)
      PROVE  KeepsBook /\ BucketsHold'
  BY <1>3, LinesAreQuantities, OfflineStep
<1>4. ASSUME NEW e \in exceptions, ResolveException(e)
      PROVE  KeepsBook /\ BucketsHold'
  BY <1>4, ResolveStep
<1>5. CASE UNCHANGED stockVars
  <2>1. \A k \in Keys : Available(balance[k]) \in Int /\ ledger[k] \in Int
    BY AvailableIsInt DEF StockInv, StockTypeOK
  <2> QED BY <1>5, <2>1
          DEF stockVars, StockInv, StockTypeOK, BucketsHold, KeepsBook, ShortfallsOf
<1> QED BY <1>1, <1>2, <1>3, <1>4, <1>5 DEF StockNext

\* The initial stock satisfies the invariant.
LEMMA StockInitInv == StockInit => StockInv
<1> SUFFICES ASSUME StockInit PROVE StockInv
  OBVIOUS
<1>1. PICK opening \in [Keys -> OpeningStock] :
        balance = [k \in Keys |-> Stocked(opening[k])] /\ ledger = opening
  BY DEF StockInit
<1>2. \A k \in Keys : opening[k] \in Nat
  BY OpeningStockAssumption
<1>3. \A k \in Keys :
        /\ balance[k] = Stocked(opening[k])
        /\ balance[k] \in Balances
        /\ Available(balance[k]) = opening[k]
  BY <1>1, <1>2 DEF Stocked, EmptyBalance, Balances, Available
<1>4. StockTypeOK
  BY <1>1, <1>2, <1>3 DEF StockInit, StockTypeOK
<1>5. LedgerIsTruth /\ ShortfallsOnRecord
  BY <1>1, <1>2, <1>3 DEF LedgerIsTruth, ShortfallsOnRecord
<1>6. BucketsHold
  <2> SUFFICES ASSUME NEW k \in Keys
               PROVE  /\ balance[k].reserved = 0 /\ balance[k].quarantined = 0
                      /\ balance[k].damaged = 0 /\ balance[k].expired = 0
                      /\ balance[k].committed = 0
    BY DEF BucketsHold
  <2>1. balance[k] = Stocked(opening[k])
    BY <1>3
  <2> QED BY <2>1 DEF Stocked, EmptyBalance
<1> QED BY <1>4, <1>5, <1>6 DEF StockInv

\* A step that keeps the book and the buckets keeps the invariant.
LEMMA StockInvKept ==
  ASSUME StockInv, KeepsBook, BucketsHold'
  PROVE  StockInv'
BY KeepsPromises DEF StockInv, KeepsBook

\* StockInv is inductive.
THEOREM StockInvariant == StockSpec => []StockInv
<1>1. StockInit => StockInv
  BY StockInitInv
<1>2. StockInv /\ [StockNext]_stockVars => StockInv'
  BY StockStep, StockInvKept
<1> QED BY <1>1, <1>2, PTL DEF StockSpec

\* Balances, ledger and exceptions have their types in every reachable state.
THEOREM StockTypeCorrect == StockSpec => []StockTypeOK
<1>1. StockInv => StockTypeOK
  BY DEF StockInv
<1> QED BY <1>1, StockInvariant, PTL

\* The ledger rows of an item always add up to what is available of it.
THEOREM LedgerCorrect == StockSpec => []LedgerIsTruth
<1>1. StockInv => LedgerIsTruth
  BY DEF StockInv
<1> QED BY <1>1, StockInvariant, PTL

\* An item is never short by more than a recorded oversell says.
THEOREM ShortfallsCorrect == StockSpec => []ShortfallsOnRecord
<1>1. StockInv => ShortfallsOnRecord
  BY DEF StockInv
<1> QED BY <1>1, StockInvariant, PTL

\* No release empties a bucket below zero.
THEOREM BucketsCorrect == StockSpec => []BucketsHold
<1>1. StockInv => BucketsHold
  BY DEF StockInv
<1> QED BY <1>1, StockInvariant, PTL

\* The initial stock is an initial state of the book.
LEMMA BookInit == StockInit => Book!Init
<1> SUFFICES ASSUME StockInit PROVE Book!Init
  OBVIOUS
<1>1. PICK opening \in [Keys -> OpeningStock] :
        balance = [k \in Keys |-> Stocked(opening[k])] /\ ledger = opening
  BY DEF StockInit
<1>2. \A k \in Keys : opening[k] \in Nat
  BY OpeningStockAssumption
<1>3. \A k \in Keys : Available(balance[k]) = opening[k]
  BY <1>1, <1>2 DEF Stocked, EmptyBalance, Available
<1>4. [k \in Keys |-> Available(balance[k])] = opening
  BY <1>1, <1>3
<1>5. [k \in Keys |-> ShortfallsOf(k)] = [k \in Keys |-> {}]
  BY DEF StockInit, ShortfallsOf
<1> QED BY <1>1, <1>2, <1>4, <1>5 DEF Book!Init

\* A step that keeps the book is a step of the book.
LEMMA BookStep ==
  ASSUME KeepsBook
  PROVE  Book!Transact
<1>1. Book!TypeOK'
  <2>1. \A k \in Keys : ShortfallsOf(k)' \subseteq Nat
    BY DEF KeepsBook, StockTypeOK, Exceptions, ShortfallsOf
  <2>2. \A k \in Keys : Available(balance'[k]) \in Int
    BY DEF KeepsBook
  <2>3. ledger' \in [Keys -> Int]
    BY DEF KeepsBook, StockTypeOK
  <2> QED BY <2>1, <2>2, <2>3 DEF Book!TypeOK
<1>2. \A k \in Keys : CoveredNow(k)' <=> Book!Covered(k)'
  BY DEF CoveredNow, Book!Covered
<1> QED BY <1>1, <1>2 DEF Book!Transact, KeepsBook

\* The inventory implements the abstract stock book: its initial states and
\* every one of its steps are the book's.
THEOREM StockImplementsBook == StockSpec => ImplementsStockBook
<1>1. StockInv /\ [StockNext]_stockVars => [Book!Transact]_(Book!vars)
  BY StockStep, BookStep
<1> QED BY <1>1, BookInit, StockInvariant, PTL
        DEF StockSpec, ImplementsStockBook, Book!Spec

------------------------------------------------------------------------------

\* The documents' movements that fill a shelf, and those that empty it.
Inflows == {"PURCHASE_RECEIPT", "SALE_RETURN", "TRANSFER_IN"}
Outflows == {"SALE", "TRANSFER_OUT"}

\* A posting fills or empties the shelf by what it posts; it takes no more than is there.
LEMMA ShelfMoves ==
  ASSUME StockInv, NEW type \in Inflows \cup Outflows, NEW lines \in [Keys -> Nat], Post(type, lines)
  PROVE  \A k \in Keys :
           /\ balance[k].onHand \in Int /\ lines[k] \in Nat
           /\ type \in Inflows => balance'[k].onHand = balance[k].onHand + lines[k]
           /\ type \in Outflows => /\ balance'[k].onHand = balance[k].onHand - lines[k]
                                   /\ lines[k] = 0 \/ lines[k] <= balance[k].onHand
<1> SUFFICES ASSUME NEW k \in Keys
             PROVE  /\ balance[k].onHand \in Int /\ lines[k] \in Nat
                    /\ type \in Inflows => balance'[k].onHand = balance[k].onHand + lines[k]
                    /\ type \in Outflows =>
                         /\ balance'[k].onHand = balance[k].onHand - lines[k]
                         /\ lines[k] = 0 \/ lines[k] <= balance[k].onHand
  OBVIOUS
<1> DEFINE b == balance[k]
           q == lines[k]
<1>1. b \in Balances /\ q \in Nat
  BY DEF StockInv, StockTypeOK
<1>2. b.reserved >= 0 /\ b.committed = 0 /\ b.quarantined >= 0 /\ b.damaged >= 0 /\ b.expired >= 0
  BY DEF StockInv, BucketsHold
<1>3. balance'[k] = IF q > 0 THEN Posted(b, type, q) ELSE b
  BY DEF Post, PostedAll, StockInv, StockTypeOK
<1>4. q > 0 => CanPost(b, type, q, FALSE)
  BY DEF Post, CanPostAll
<1> HIDE DEF b, q
<1>5. type \in Inflows => Posted(b, type, q).onHand = b.onHand + q
  BY <1>1 DEF Inflows, Posted, BalanceChange, Signed, Balances
<1>6. type \in Outflows => Posted(b, type, q).onHand = b.onHand - q
  BY <1>1 DEF Outflows, Posted, BalanceChange, Signed, Balances
<1>7. type \in Outflows /\ q > 0 => q <= b.onHand
  <2> SUFFICES ASSUME type \in Outflows, q > 0 PROVE q <= b.onHand
    OBVIOUS
  <2>1. Available(b) >= q
    BY <1>4 DEF CanPost, RequiresSellable, Outflows
  <2> QED BY <1>1, <1>2, <2>1 DEF Available, Balances
<1>8. b.onHand \in Int
  BY <1>1 DEF Balances
<1>9. q = 0 => b.onHand + q = b.onHand /\ b.onHand - q = b.onHand
  BY <1>8
<1>10. q = 0 \/ q > 0
  BY <1>1
<1>11. balance'[k].onHand = IF q > 0 THEN Posted(b, type, q).onHand ELSE b.onHand
  BY <1>3
<1>12. /\ type \in Inflows => balance'[k].onHand = b.onHand + q
       /\ type \in Outflows => balance'[k].onHand = b.onHand - q
  <2>1. CASE q > 0
    BY <1>5, <1>6, <1>11, <2>1
  <2>2. CASE q = 0
    <3>1. balance'[k].onHand = b.onHand
      BY <1>11, <2>2
    <3> QED BY <1>9, <2>2, <3>1
  <2> QED BY <1>10, <2>1, <2>2
<1> QED BY <1>1, <1>7, <1>8, <1>10, <1>12 DEF b, q

------------------------------------------------------------------------------
(***************************************************************************)
(* The loop of consumeFifoCost, over any layers and any quantity.           *)
(***************************************************************************)

\* The quantity left in each layer, and its value.
Lefts(s) == [i \in DOMAIN s |-> s[i].left]
Values(s) == [i \in DOMAIN s |-> s[i].left * s[i].cost]

\* First in, first out: only the oldest layer is partly used.
OldestFirst(s) == \A i \in DOMAIN s : i > 1 => s[i].left = s[i].received

\* The layers of an item are rows with something left, each worth something or nothing.
LEMMA LayersAre ==
  ASSUME NEW s \in Seq(LayerRows)
  PROVE  /\ Len(s) \in Nat /\ DOMAIN s = 1..Len(s) /\ IsFiniteSet(DOMAIN s)
         /\ \A i \in 1..Len(s) :
              /\ s[i] \in LayerRows
              /\ s[i].left \in Nat \ {0} /\ s[i].cost \in Nat
              /\ Lefts(s)[i] = s[i].left /\ Lefts(s)[i] \in Nat
              /\ Values(s)[i] = s[i].left * s[i].cost /\ Values(s)[i] \in Nat
         /\ LeftIn(s) = SumFunctionOnSet(Lefts(s), 1..Len(s))
         /\ ValueOf(s) = SumFunctionOnSet(Values(s), 1..Len(s))
         /\ LeftIn(s) \in Nat /\ ValueOf(s) \in Nat
<1>1. Len(s) \in Nat /\ DOMAIN s = 1..Len(s)
  BY LenProperties
<1>2. IsFiniteSet(1..Len(s))
  BY <1>1, FS_Interval
<1>3. ASSUME NEW i \in 1..Len(s)
      PROVE  /\ s[i] \in LayerRows
             /\ s[i].left \in Nat \ {0} /\ s[i].cost \in Nat
             /\ Lefts(s)[i] = s[i].left /\ Lefts(s)[i] \in Nat
             /\ Values(s)[i] = s[i].left * s[i].cost /\ Values(s)[i] \in Nat
  <2>1. s[i] \in LayerRows
    BY ElementOfSeq
  <2>2. s[i].left \in Nat \ {0} /\ s[i].cost \in Nat
    BY <2>1 DEF LayerRows
  <2>3. Lefts(s)[i] = s[i].left /\ Values(s)[i] = s[i].left * s[i].cost
    BY <1>1 DEF Lefts, Values
  <2>4. s[i].left * s[i].cost \in Nat
    <3> DEFINE a == s[i].left
               b == s[i].cost
    <3>1. a \in Nat /\ b \in Nat
      BY <2>2
    <3> HIDE DEF a, b
    <3>2. a * b \in Nat
      BY <3>1
    <3> QED BY <3>2 DEF a, b
  <2> QED BY <2>1, <2>2, <2>3, <2>4
<1>4. DOMAIN Lefts(s) = 1..Len(s) /\ DOMAIN Values(s) = 1..Len(s)
  BY <1>1 DEF Lefts, Values
<1>5. /\ LeftIn(s) = SumFunctionOnSet(Lefts(s), 1..Len(s))
      /\ ValueOf(s) = SumFunctionOnSet(Values(s), 1..Len(s))
  <2>1. LeftIn(s) = SumFunction(Lefts(s)) /\ ValueOf(s) = SumFunction(Values(s))
    BY DEF LeftIn, ValueOf, Lefts, Values
  <2> QED BY <1>4, <2>1 DEF SumFunction
<1>6. LeftIn(s) \in Nat /\ ValueOf(s) \in Nat
  <2> DEFINE D == 1..Len(s)
             f == Lefts(s)
             g == Values(s)
  <2>1. \A i \in D : f[i] \in Nat /\ g[i] \in Nat
    BY <1>3
  <2>2. IsFiniteSet(D)
    BY <1>2
  <2> HIDE DEF D, f, g
  <2>3. /\ SumFunctionOnSet(f, D) \in Int /\ SumFunctionOnSet(f, D) >= 0
        /\ SumFunctionOnSet(g, D) \in Int /\ SumFunctionOnSet(g, D) >= 0
    BY <2>1, <2>2, SumType
  <2>4. SumFunctionOnSet(f, D) \in Nat /\ SumFunctionOnSet(g, D) \in Nat
    BY <2>3
  <2> QED BY <1>5, <2>4 DEF D, f, g
<1> QED BY <1>1, <1>2, <1>3, <1>5, <1>6

\* A new layer adds its quantity and its value to what the item has.
LEMMA LayerAdds ==
  ASSUME NEW s \in Seq(LayerRows), NEW row \in LayerRows
  PROVE  /\ Append(s, row) \in Seq(LayerRows)
         /\ LeftIn(Append(s, row)) = LeftIn(s) + row.left
         /\ ValueOf(Append(s, row)) = ValueOf(s) + row.left * row.cost
<1> DEFINE t == Append(s, row)
           n == Len(s)
           m == Len(t)
<1>1. /\ t \in Seq(LayerRows) /\ m = n + 1 /\ t[n + 1] = row
      /\ \A i \in 1..n : t[i] = s[i]
  BY AppendProperties
<1>2. n \in Nat
  BY LenProperties
<1> HIDE DEF t, n, m
<1> DEFINE f == Lefts(s)
           g == Lefts(t)
           v == Values(s)
           w == Values(t)
<1>3. /\ \A i \in 1..n : f[i] = s[i].left /\ f[i] \in Nat
                         /\ v[i] = s[i].left * s[i].cost /\ v[i] \in Nat
      /\ LeftIn(s) = SumFunctionOnSet(f, 1..n) /\ ValueOf(s) = SumFunctionOnSet(v, 1..n)
      /\ LeftIn(s) \in Nat /\ ValueOf(s) \in Nat
  BY LayersAre DEF n
<1>4. /\ \A i \in 1..m : g[i] = t[i].left /\ g[i] \in Nat
                         /\ w[i] = t[i].left * t[i].cost /\ w[i] \in Nat
      /\ LeftIn(t) = SumFunctionOnSet(g, 1..m) /\ ValueOf(t) = SumFunctionOnSet(w, 1..m)
  BY <1>1, LayersAre DEF m
<1> HIDE DEF f, g, v, w
<1>5. \A i \in 1..(n + 1) : g[i] \in Int /\ w[i] \in Int
  BY <1>1, <1>4
<1>6. /\ SumFunctionOnSet(g, 1..(n + 1)) = g[n + 1] + SumFunctionOnSet(g, 1..n)
      /\ SumFunctionOnSet(w, 1..(n + 1)) = w[n + 1] + SumFunctionOnSet(w, 1..n)
  BY <1>2, <1>5, SumStep
<1>7. n + 1 \in 1..m /\ \A i \in 1..n : i \in 1..m
  BY <1>1, <1>2
<1>8. /\ g[n + 1] = row.left /\ w[n + 1] = row.left * row.cost
      /\ \A i \in 1..n : f[i] \in Int /\ g[i] = f[i] /\ v[i] \in Int /\ w[i] = v[i]
  <2>1. g[n + 1] = t[n + 1].left /\ w[n + 1] = t[n + 1].left * t[n + 1].cost
    BY <1>4, <1>7, Zenon
  <2>2. g[n + 1] = row.left /\ w[n + 1] = row.left * row.cost
    BY <1>1, <2>1, Zenon
  <2>3. ASSUME NEW i \in 1..n PROVE f[i] \in Nat /\ g[i] = f[i] /\ v[i] \in Nat /\ w[i] = v[i]
    <3>1. f[i] = s[i].left /\ f[i] \in Nat /\ v[i] = s[i].left * s[i].cost /\ v[i] \in Nat
      BY <1>3, Zenon
    <3>2. g[i] = t[i].left /\ w[i] = t[i].left * t[i].cost /\ t[i] = s[i]
      BY <1>1, <1>4, <1>7, Zenon
    <3> QED BY <3>1, <3>2, Zenon
  <2>4. \A j \in Nat : j \in Int
    OBVIOUS
  <2> QED BY <2>2, <2>3, <2>4, Zenon
<1>9. /\ SumFunctionOnSet(g, 1..n) = SumFunctionOnSet(f, 1..n)
      /\ SumFunctionOnSet(w, 1..n) = SumFunctionOnSet(v, 1..n)
  <2>1. IsFiniteSet(1..n)
    BY <1>2, FS_Interval
  <2> QED BY <1>8, <2>1, SumSame
<1>10. /\ LeftIn(t) = row.left + LeftIn(s)
       /\ ValueOf(t) = row.left * row.cost + ValueOf(s)
  BY <1>1, <1>3, <1>4, <1>6, <1>8, <1>9
<1>11. row.left \in Nat /\ row.left * row.cost \in Nat
  <2>1. w[n + 1] \in Nat /\ g[n + 1] \in Nat
    BY <1>4, <1>7
  <2> QED BY <1>8, <2>1
<1>12. LeftIn(t) = LeftIn(s) + row.left
  BY <1>3, <1>10, <1>11
<1>13. ValueOf(t) = ValueOf(s) + row.left * row.cost
  <2> DEFINE a == row.left * row.cost
             b == ValueOf(s)
  <2>1. a \in Nat /\ b \in Nat /\ ValueOf(t) = a + b
    BY <1>3, <1>10, <1>11
  <2> HIDE DEF a, b
  <2>2. ValueOf(t) = b + a
    BY <2>1
  <2> QED BY <2>2 DEF a, b
<1> QED BY <1>1, <1>12, <1>13 DEF t

\* Without layers nothing is left, and it is worth nothing.
LEMMA NoLayers == << >> \in Seq(LayerRows) /\ LeftIn(<< >>) = 0 /\ ValueOf(<< >>) = 0
<1> DEFINE s == << >>
<1>1. s \in Seq(LayerRows) /\ Len(s) = 0
  BY EmptySeq
<1> HIDE DEF s
<1>2. /\ LeftIn(s) = SumFunctionOnSet(Lefts(s), 1..0)
      /\ ValueOf(s) = SumFunctionOnSet(Values(s), 1..0)
  BY <1>1, LayersAre
<1>3. 1..0 = {}
  OBVIOUS
<1>4. LeftIn(s) = 0 /\ ValueOf(s) = 0
  BY <1>2, <1>3, SumEmpty
<1> QED BY <1>1, <1>4 DEF s

\* What the first loop of consumeFifoCost still has to find: g is the function it computes.
OutstandingFollows(g, s, qty) ==
  g = [i \in 0..Len(s) |-> IF i = 0 THEN qty ELSE g[i - 1] - Least(g[i - 1], s[i].left)]

\* The loop over the layers: what is outstanding starts as the quantity, and each layer
\* brings it down by what it has, or to nothing.
LEMMA OutstandingGoesDown ==
  ASSUME NEW s \in Seq(LayerRows), NEW qty \in Nat
  PROVE  LET out == Outstanding(s, qty) IN
         /\ out[0] = qty
         /\ \A i \in 0..Len(s) : out[i] \in Nat
         /\ \A i \in 1..Len(s) : out[i] = out[i - 1] - Least(out[i - 1], s[i].left)
<1> DEFINE n == Len(s)
           out == Outstanding(s, qty)
           step == [i \in 1..n |-> [d \in Nat |-> d - Least(d, s[i].left)]]
           value(g, i) == IF i = 0 THEN qty ELSE g[i - 1] - Least(g[i - 1], s[i].left)
<1>1. n \in Nat /\ \A i \in 1..n : s[i].left \in Nat
  BY LayersAre
<1>2. \A i \in 1..n : \A d \in Nat : step[i][d] \in Nat /\ step[i][d] = d - Least(d, s[i].left)
  <2> SUFFICES ASSUME NEW i \in 1..n, NEW d \in Nat
               PROVE  step[i][d] \in Nat /\ step[i][d] = d - Least(d, s[i].left)
    OBVIOUS
  <2>1. step[i][d] = d - Least(d, s[i].left)
    OBVIOUS
  <2>2. d - Least(d, s[i].left) \in Nat
    BY <1>1 DEF Least
  <2> QED BY <2>1, <2>2
<1>3. \E g : IsRun(g, Nat, qty, n, step)
  <2>1. step \in [1..n -> [Nat -> Nat]]
    BY <1>2
  <2> HIDE DEF step, n
  <2> QED BY <1>1, <2>1, Iteration
<1>4. PICK g \in [0..n -> Nat] : g[0] = qty /\ \A i \in 1..n : g[i] = step[i][g[i - 1]]
  BY <1>3 DEF IsRun
<1> HIDE DEF n, step
<1>5. \A i \in 1..n : i \in 0..n /\ i - 1 \in 0..n /\ i # 0
  BY <1>1
<1>6. \A i \in 1..n : g[i] = g[i - 1] - Least(g[i - 1], s[i].left)
  BY <1>2, <1>4, <1>5
<1>7. \A i \in 0..n : i = 0 \/ i \in 1..n
  BY <1>1
<1>8. OutstandingFollows(g, s, qty)
  <2>1. \A i \in 0..n : g[i] = value(g, i)
    BY <1>4, <1>6, <1>7
  <2>2. g = [i \in 0..n |-> value(g, i)]
    <3> HIDE DEF value
    <3> QED BY <1>4, <2>1
  <2> QED BY <2>2 DEF OutstandingFollows, n
<1>9. OutstandingFollows(out, s, qty)
  <2> DEFINE Right(h) == OutstandingFollows(h, s, qty)
  <2>1. out = CHOOSE h : Right(h)
    BY DEF Outstanding, OutstandingFollows
  <2> HIDE DEF Right, out
  <2>2. Right(g)
    BY <1>8 DEF Right
  <2>3. Right(out)
    BY <2>1, <2>2
  <2> QED BY <2>3 DEF Right
<1> HIDE DEF out
<1>10. \A i \in 0..n : out[i] = value(out, i)
  <2>1. out = [i \in 0..n |-> value(out, i)]
    BY <1>9 DEF OutstandingFollows, n
  <2> HIDE DEF value
  <2> QED BY <2>1
<1>11. out[0] = qty /\ \A i \in 1..n : out[i] = out[i - 1] - Least(out[i - 1], s[i].left)
  <2>1. 0 \in 0..n
    BY <1>1
  <2> QED BY <1>5, <1>10, <2>1
<1> DEFINE Good == { m \in Nat : m <= n => out[m] \in Nat }
<1>12. 0 \in Good
  BY <1>11
<1>13. ASSUME NEW m \in Good PROVE m + 1 \in Good
  <2>1. m \in Nat /\ (m <= n => out[m] \in Nat)
    BY <1>13
  <2> SUFFICES ASSUME m + 1 <= n PROVE out[m + 1] \in Nat
    BY <2>1
  <2>2. m + 1 \in 1..n /\ (m + 1) - 1 = m /\ out[m] \in Nat
    BY <1>1, <2>1
  <2>3. out[m + 1] = out[m] - Least(out[m], s[m + 1].left) /\ s[m + 1].left \in Nat
    BY <1>1, <1>11, <2>2
  <2> QED BY <2>2, <2>3 DEF Least
<1>14. Good = Nat
  <2> HIDE DEF Good
  <2>1. Good \subseteq Nat
    BY DEF Good
  <2> QED BY <1>12, <1>13, <2>1, EveryNumber
<1>15. \A i \in 0..n : out[i] \in Nat
  BY <1>1, <1>14
<1> QED BY <1>11, <1>15 DEF n, out

\* A layer gives no more than it has, what the layers give is what is no longer
\* outstanding, and as long as something is outstanding they gave everything.
LEMMA TakenAddsUp ==
  ASSUME NEW s \in Seq(LayerRows), NEW qty \in Nat
  PROVE  LET take == Taken(s, qty)
             out == Outstanding(s, qty)
         IN  /\ DOMAIN take = 1..Len(s)
             /\ \A i \in 1..Len(s) :
                  /\ take[i] \in Nat /\ take[i] <= s[i].left /\ take[i] = out[i - 1] - out[i]
                  /\ out[i] > 0 => take[i] = s[i].left
                  /\ out[i - 1] = 0 => take[i] = 0
             /\ SumFunction(take) = qty - out[Len(s)]
             /\ out[Len(s)] \in Nat
             /\ out[Len(s)] > 0 => \A i \in 1..Len(s) : take[i] = s[i].left
             /\ qty <= LeftIn(s) => out[Len(s)] = 0
<1> DEFINE n == Len(s)
           out == Outstanding(s, qty)
           take == Taken(s, qty)
           f == Lefts(s)
<1>1. /\ out[0] = qty
      /\ \A i \in 0..n : out[i] \in Nat
      /\ \A i \in 1..n : out[i] = out[i - 1] - Least(out[i - 1], s[i].left)
  BY OutstandingGoesDown
<1>2. /\ n \in Nat /\ DOMAIN s = 1..n /\ \A i \in 1..n : s[i].left \in Nat \ {0} /\ f[i] = s[i].left
      /\ LeftIn(s) = SumFunctionOnSet(f, 1..n)
  BY LayersAre
<1>3. take = [i \in 1..n |-> Least(out[i - 1], s[i].left)]
  BY <1>2 DEF Taken
<1> HIDE DEF n, out, take, f
<1>4. DOMAIN take = 1..n /\ \A i \in 1..n : take[i] = Least(out[i - 1], s[i].left)
  BY <1>3
<1>5. ASSUME NEW i \in 1..n
      PROVE  /\ take[i] \in Nat /\ take[i] <= s[i].left /\ take[i] = out[i - 1] - out[i]
             /\ out[i] > 0 => take[i] = s[i].left
             /\ out[i - 1] = 0 => take[i] = 0
  <2>1. i - 1 \in 0..n /\ i \in 0..n
    BY <1>2
  <2>2. out[i - 1] \in Nat /\ out[i] \in Nat /\ s[i].left \in Nat
    BY <1>1, <1>2, <2>1
  <2>3. out[i] = out[i - 1] - Least(out[i - 1], s[i].left) /\ take[i] = Least(out[i - 1], s[i].left)
    BY <1>1, <1>4
  <2> QED BY <2>2, <2>3 DEF Least
<1>6. SumFunctionOnSet(take, 1..n) = out[0] - out[n]
  <2>1. \A i \in 0..n : out[i] \in Int
    BY <1>1
  <2>2. \A i \in 1..n : take[i] = out[i - 1] - out[i]
    BY <1>5
  <2> QED BY <1>2, <2>1, <2>2, SumOfSteps
<1>7. SumFunction(take) = qty - out[n]
  BY <1>1, <1>4, <1>6 DEF SumFunction
<1>8. out[n] \in Nat
  BY <1>1, <1>2
<1>9. ASSUME out[n] > 0 PROVE \A i \in 1..n : take[i] = s[i].left
  <2> DEFINE Good == { m \in Nat : m <= n => out[n - m] > 0 }
  <2>1. 0 \in Good
    BY <1>2, <1>9
  <2>2. ASSUME NEW m \in Good PROVE m + 1 \in Good
    <3>1. m \in Nat /\ (m <= n => out[n - m] > 0)
      BY <2>2
    <3> SUFFICES ASSUME m + 1 <= n PROVE out[n - (m + 1)] > 0
      BY <3>1
    <3> HIDE DEF Good
    <3> DEFINE i == n - m
    <3>2. i \in 1..n /\ i - 1 = n - (m + 1) /\ i - 1 \in 0..n /\ i \in 0..n /\ m <= n
      BY <1>2, <3>1
    <3>3. out[i] > 0
      BY <3>1, <3>2
    <3> HIDE DEF i
    <3>4. take[i] \in Nat /\ take[i] = out[i - 1] - out[i]
      BY <1>5, <3>2
    <3>5. out[i - 1] \in Nat /\ out[i] \in Nat
      BY <1>1, <3>2
    <3>6. out[i - 1] > 0
      BY <3>3, <3>4, <3>5
    <3> QED BY <3>2, <3>6
  <2>3. Good = Nat
    <3> HIDE DEF Good
    <3>1. Good \subseteq Nat
      BY DEF Good
    <3> QED BY <2>1, <2>2, <3>1, EveryNumber
  <2>4. \A i \in 0..n : out[i] > 0
    <3> SUFFICES ASSUME NEW i \in 0..n PROVE out[i] > 0
      OBVIOUS
    <3>1. n - i \in Nat /\ n - i <= n /\ n - (n - i) = i
      BY <1>2
    <3>2. n - i \in Good
      BY <2>3, <3>1
    <3>3. out[n - (n - i)] > 0
      BY <3>1, <3>2
    <3> QED BY <3>1, <3>3
  <2> QED
    <3> SUFFICES ASSUME NEW i \in 1..n PROVE take[i] = s[i].left
      OBVIOUS
    <3>1. out[i] > 0
      BY <1>2, <2>4
    <3> QED BY <1>5, <3>1
<1>10. ASSUME out[n] > 0, qty <= LeftIn(s) PROVE FALSE
  <2>1. \A i \in 1..n : f[i] \in Int /\ take[i] = f[i]
    BY <1>2, <1>9, <1>10
  <2>2. SumFunctionOnSet(take, 1..n) = SumFunctionOnSet(f, 1..n)
    <3>1. IsFiniteSet(1..n)
      BY <1>2, FS_Interval
    <3> QED BY <2>1, <3>1, SumSame
  <2>3. LeftIn(s) = qty - out[n]
    BY <1>1, <1>2, <1>6, <2>2
  <2> QED BY <1>8, <1>10, <2>3
<1>11. qty <= LeftIn(s) => out[n] = 0
  BY <1>8, <1>10
<1> QED BY <1>4, <1>5, <1>7, <1>8, <1>9, <1>11 DEF n, out, take

\* A layer from which a quantity was taken.
Rest(row, qty) == [row EXCEPT !.left = @ - qty]

\* What it leaves of the first layers: g is the function it computes.
KeptFollows(g, s, take) ==
  g = [i \in 0..Len(s) |->
         IF i = 0 THEN << >>
         ELSE IF s[i].left > take[i] THEN Append(g[i - 1], Rest(s[i], take[i])) ELSE g[i - 1]]

\* A layer that is not used up is still a layer, worth less by what was taken.
LEMMA RestIsLayer ==
  ASSUME NEW row \in LayerRows, NEW qty \in Nat, qty < row.left
  PROVE  /\ Rest(row, qty) \in LayerRows
         /\ Rest(row, qty).left = row.left - qty
         /\ Rest(row, qty).cost = row.cost /\ Rest(row, qty).received = row.received
<1>1. row.left \in Nat /\ row.left - qty \in Nat \ {0}
  BY DEF LayerRows
<1> QED BY <1>1 DEF LayerRows, Rest

\* What the loop leaves, layer by layer.
LEMMA KeptIsLayers ==
  ASSUME NEW s \in Seq(LayerRows), NEW take,
         \A i \in 1..Len(s) : take[i] \in Nat /\ take[i] <= s[i].left
  PROVE  LET kept == Kept(s, take) IN
         /\ kept[0] = << >>
         /\ \A i \in 0..Len(s) : kept[i] \in Seq(LayerRows)
         /\ \A i \in 1..Len(s) :
              /\ s[i].left > take[i] => kept[i] = Append(kept[i - 1], Rest(s[i], take[i]))
              /\ s[i].left = take[i] => kept[i] = kept[i - 1]
<1> DEFINE n == Len(s)
           kept == Kept(s, take)
           D == Seq(LayerRows)
           pass(i, d) == IF s[i].left > take[i] THEN Append(d, Rest(s[i], take[i])) ELSE d
           step == [i \in 1..n |-> [d \in D |-> pass(i, d)]]
           value(g, i) == IF i = 0 THEN << >> ELSE pass(i, g[i - 1])
           first == << >>
<1>1. n \in Nat /\ \A i \in 1..n : s[i] \in LayerRows /\ s[i].left \in Nat
  BY LayersAre
<1>2. ASSUME NEW i \in 1..n, NEW d \in D PROVE pass(i, d) \in D
  <2>1. CASE s[i].left > take[i]
    <3>1. Rest(s[i], take[i]) \in LayerRows
      <4> DEFINE row == s[i]
                 q == take[i]
      <4>1. row \in LayerRows /\ q \in Nat /\ q < row.left
        BY <1>1, <2>1
      <4> HIDE DEF row, q
      <4>2. Rest(row, q) \in LayerRows
        BY <4>1, RestIsLayer
      <4> QED BY <4>2 DEF row, q
    <3>2. Append(d, Rest(s[i], take[i])) \in D
      BY <3>1, AppendProperties
    <3> QED BY <2>1, <3>2
  <2>2. CASE ~(s[i].left > take[i])
    BY <2>2
  <2> QED BY <2>1, <2>2
<1>3. first \in D
  BY EmptySeq
<1> HIDE DEF D, first
<1>4. \A i \in 1..n : \A d \in D : step[i][d] \in D /\ step[i][d] = pass(i, d)
  <2> SUFFICES ASSUME NEW i \in 1..n, NEW d \in D
               PROVE  step[i][d] \in D /\ step[i][d] = pass(i, d)
    OBVIOUS
  <2>1. pass(i, d) \in D
    BY <1>2
  <2> HIDE DEF pass
  <2>2. step[i][d] = pass(i, d)
    OBVIOUS
  <2> QED BY <2>1, <2>2
<1>5. step \in [1..n -> [D -> D]]
  <2>1. \A i \in 1..n : \A d \in D : pass(i, d) \in D
    BY <1>2
  <2> HIDE DEF pass
  <2> QED BY <2>1
<1>6. \E g : IsRun(g, D, first, n, step)
  <2> HIDE DEF step, n
  <2> QED BY <1>1, <1>3, <1>5, Iteration
<1> HIDE DEF n, step, pass
<1>7. PICK g \in [0..n -> D] : g[0] = first /\ \A i \in 1..n : g[i] = step[i][g[i - 1]]
  BY <1>6 DEF IsRun
<1>8. \A i \in 1..n : i \in 0..n /\ i - 1 \in 0..n /\ i # 0
  BY <1>1
<1>9. \A i \in 0..n : i = 0 \/ i \in 1..n
  BY <1>1
<1>10. KeptFollows(g, s, take)
  <2>1. \A i \in 0..n : g[i] = value(g, i)
    <3>1. \A i \in 1..n : g[i] = pass(i, g[i - 1])
      BY <1>4, <1>7, <1>8
    <3> QED BY <1>7, <1>9, <3>1 DEF first
  <2>2. g = [i \in 0..n |-> value(g, i)]
    <3> HIDE DEF value
    <3> QED BY <1>7, <2>1
  <2> QED BY <2>2 DEF KeptFollows, n, pass
<1>11. KeptFollows(kept, s, take)
  <2> DEFINE Right(h) == KeptFollows(h, s, take)
  <2>1. kept = CHOOSE h : Right(h)
    BY DEF Kept, KeptFollows, Rest
  <2> HIDE DEF Right, kept
  <2>2. Right(g)
    BY <1>10 DEF Right
  <2>3. Right(kept)
    BY <2>1, <2>2
  <2> QED BY <2>3 DEF Right
<1> HIDE DEF kept
<1>12. \A i \in 0..n : kept[i] = value(kept, i)
  <2>1. kept = [i \in 0..n |-> value(kept, i)]
    BY <1>11 DEF KeptFollows, n, pass
  <2> HIDE DEF value
  <2> QED BY <2>1
<1>13. kept[0] = first /\ \A i \in 1..n : kept[i] = pass(i, kept[i - 1])
  <2>1. 0 \in 0..n
    BY <1>1
  <2> QED BY <1>8, <1>12, <2>1 DEF first
<1> DEFINE Good == { m \in Nat : m <= n => kept[m] \in D }
<1>14. 0 \in Good
  BY <1>3, <1>13
<1>15. ASSUME NEW m \in Good PROVE m + 1 \in Good
  <2>1. m \in Nat /\ (m <= n => kept[m] \in D)
    BY <1>15
  <2> SUFFICES ASSUME m + 1 <= n PROVE kept[m + 1] \in D
    BY <2>1
  <2>2. m + 1 \in 1..n /\ (m + 1) - 1 = m /\ kept[m] \in D
    BY <1>1, <2>1
  <2>3. kept[m + 1] = pass(m + 1, kept[m])
    BY <1>13, <2>2
  <2>4. pass(m + 1, kept[m]) \in D
    BY <1>2, <2>2
  <2> QED BY <2>3, <2>4
<1>16. Good = Nat
  <2> HIDE DEF Good
  <2>1. Good \subseteq Nat
    BY DEF Good
  <2> QED BY <1>14, <1>15, <2>1, EveryNumber
<1>17. \A i \in 0..n : kept[i] \in D
  BY <1>1, <1>16
<1>18. ASSUME NEW i \in 1..n
       PROVE  /\ s[i].left > take[i] => kept[i] = Append(kept[i - 1], Rest(s[i], take[i]))
              /\ s[i].left = take[i] => kept[i] = kept[i - 1]
  <2>1. kept[i] = pass(i, kept[i - 1])
    BY <1>13
  <2>2. s[i].left = take[i] => ~(s[i].left > take[i])
    BY <1>1
  <2> QED BY <2>1, <2>2 DEF pass
<1>19. kept[0] = << >> /\ \A i \in 0..n : kept[i] \in Seq(LayerRows)
  BY <1>13, <1>17 DEF first, D
<1> QED BY <1>18, <1>19 DEF n, kept

\* What the loop leaves of a layer and what it takes add up to the layer.
LEMMA RestAddsUp ==
  ASSUME NEW s \in Seq(LayerRows), NEW row \in LayerRows, NEW qty \in Nat, qty < row.left
  PROVE  LET t == Append(s, Rest(row, qty)) IN
         /\ LeftIn(t) = LeftIn(s) + row.left - qty
         /\ ValueOf(t) = ValueOf(s) + row.left * row.cost - qty * row.cost
<1> DEFINE rest == Rest(row, qty)
           t == Append(s, rest)
           a == row.left
           c == row.cost
           x == LeftIn(s)
           y == ValueOf(s)
<1>1. rest \in LayerRows /\ rest.left = a - qty /\ rest.cost = c
  BY RestIsLayer
<1> HIDE DEF rest
<1>2. LeftIn(t) = x + rest.left /\ ValueOf(t) = y + rest.left * rest.cost
  BY <1>1, LayerAdds
<1>3. a \in Nat /\ c \in Nat /\ x \in Nat /\ y \in Nat
  BY LayersAre DEF LayerRows
<1>4. LeftIn(t) = x + (a - qty) /\ ValueOf(t) = y + (a - qty) * c
  BY <1>1, <1>2, Zenon
<1> HIDE DEF a, c, x, y, t
<1>5. LeftIn(t) = x + a - qty
  BY <1>3, <1>4
<1>6. (a - qty) * c = a * c - qty * c
  BY <1>3, Z3
<1>7. a * c \in Int /\ qty * c \in Int
  BY <1>3
<1>8. ValueOf(t) = y + a * c - qty * c
  <2> DEFINE p == a * c
             q == qty * c
  <2>1. ValueOf(t) = y + (p - q) /\ p \in Int /\ q \in Int
    BY <1>4, <1>6, <1>7, Zenon
  <2> HIDE DEF p, q
  <2>2. ValueOf(t) = y + p - q
    BY <1>3, <2>1
  <2> QED BY <2>2 DEF p, q
<1> QED BY <1>5, <1>8 DEF a, c, x, y, t, rest

\* The loop neither makes nor loses units or value: what it leaves of the layers and
\* what it takes of them are the layers.
LEMMA KeptAddsUp ==
  ASSUME NEW s \in Seq(LayerRows), NEW take,
         \A i \in 1..Len(s) : take[i] \in Nat /\ take[i] <= s[i].left,
         NEW worth, \A i \in 1..Len(s) : worth[i] = take[i] * s[i].cost
  PROVE  LET kept == Kept(s, take)[Len(s)] IN
         /\ LeftIn(kept) + SumFunctionOnSet(take, 1..Len(s)) = LeftIn(s)
         /\ ValueOf(kept) + SumFunctionOnSet(worth, 1..Len(s)) = ValueOf(s)
         /\ SumFunctionOnSet(worth, 1..Len(s)) \in Nat
<1> DEFINE n == Len(s)
           kept == Kept(s, take)
           f == Lefts(s)
           v == Values(s)
<1>1. /\ n \in Nat
      /\ \A i \in 1..n : /\ s[i] \in LayerRows /\ s[i].left \in Nat /\ s[i].cost \in Nat
                         /\ f[i] = s[i].left /\ f[i] \in Nat
                         /\ v[i] = s[i].left * s[i].cost /\ v[i] \in Nat
      /\ LeftIn(s) = SumFunctionOnSet(f, 1..n) /\ ValueOf(s) = SumFunctionOnSet(v, 1..n)
  BY LayersAre
<1>2. /\ kept[0] = << >>
      /\ \A i \in 0..n : kept[i] \in Seq(LayerRows)
      /\ \A i \in 1..n :
           /\ s[i].left > take[i] => kept[i] = Append(kept[i - 1], Rest(s[i], take[i]))
           /\ s[i].left = take[i] => kept[i] = kept[i - 1]
  BY KeptIsLayers
<1>3. \A i \in 1..n : take[i] \in Nat /\ take[i] <= s[i].left /\ worth[i] = take[i] * s[i].cost
  OBVIOUS
<1> HIDE DEF n, kept, f, v
<1>4. ASSUME NEW i \in 1..n PROVE worth[i] \in Nat
  <2> DEFINE a == take[i]
             b == s[i].cost
  <2>1. a \in Nat /\ b \in Nat /\ worth[i] = a * b
    BY <1>1, <1>3, Zenon
  <2> HIDE DEF a, b
  <2> QED BY <2>1
<1> DEFINE Same(m) == /\ LeftIn(kept[m]) + SumFunctionOnSet(take, 1..m) = SumFunctionOnSet(f, 1..m)
                      /\ ValueOf(kept[m]) + SumFunctionOnSet(worth, 1..m) = SumFunctionOnSet(v, 1..m)
           Good == { m \in Nat : m <= n => Same(m) }
<1>5. 0 \in Good
  <2>1. \A g : SumFunctionOnSet(g, 1..0) = 0
    <3>1. 1..0 = {}
      OBVIOUS
    <3> QED BY <3>1, SumEmpty
  <2>2. LeftIn(kept[0]) = 0 /\ ValueOf(kept[0]) = 0
    BY <1>2, NoLayers
  <2>3. Same(0)
    BY <2>1, <2>2
  <2> QED BY <2>3
<1>6. ASSUME NEW m \in Good PROVE m + 1 \in Good
  <2>1. m \in Nat /\ (m <= n => Same(m))
    BY <1>6
  <2> SUFFICES ASSUME m + 1 <= n PROVE Same(m + 1)
    BY <2>1
  <2> DEFINE i == m + 1
             Sum(g, j) == SumFunctionOnSet(g, 1..j)
  <2>2. i \in 1..n /\ i - 1 = m /\ m \in 0..n /\ i \in 0..n /\ m <= n /\ \A j \in 1..i : j \in 1..n
    BY <1>1, <2>1
  <2>3. Same(m)
    BY <2>1, <2>2
  <2> HIDE DEF Good
  <2>4. /\ \A j \in 1..i : take[j] \in Int /\ f[j] \in Int
        /\ \A j \in 1..i : worth[j] \in Int /\ v[j] \in Int
    <3>1. \A j \in Nat : j \in Int
      OBVIOUS
    <3> QED BY <1>1, <1>3, <1>4, <2>2, <3>1, Zenon
  <2>5. /\ Sum(take, m) \in Int /\ Sum(take, m + 1) = take[m + 1] + Sum(take, m)
        /\ Sum(f, m) \in Int /\ Sum(f, m + 1) = f[m + 1] + Sum(f, m)
    BY <2>1, <2>4, SumStep
  <2>6. /\ Sum(worth, m) \in Int /\ Sum(worth, m + 1) = worth[m + 1] + Sum(worth, m)
        /\ Sum(v, m) \in Int /\ Sum(v, m + 1) = v[m + 1] + Sum(v, m)
    BY <2>1, <2>4, SumStep
  <2>7. /\ LeftIn(kept[m]) \in Nat /\ ValueOf(kept[m]) \in Nat /\ kept[m] \in Seq(LayerRows)
    BY <1>2, <2>2, LayersAre
  <2>8. /\ take[i] \in Nat /\ take[i] <= s[i].left /\ worth[i] = take[i] * s[i].cost
        /\ f[i] = s[i].left /\ v[i] = s[i].left * s[i].cost
        /\ worth[i] \in Nat /\ f[i] \in Nat /\ v[i] \in Nat /\ s[i] \in LayerRows
    BY <1>1, <1>3, <1>4, <2>2, Zenon
  <2>9. /\ LeftIn(kept[i]) = LeftIn(kept[m]) + f[i] - take[i]
        /\ ValueOf(kept[i]) = ValueOf(kept[m]) + v[i] - worth[i]
    <3>1. CASE take[i] < s[i].left
      <4>1. s[i].left > take[i]
        BY <1>1, <2>2, <2>8, <3>1
      <4>2. kept[i] = Append(kept[m], Rest(s[i], take[i]))
        BY <1>2, <2>2, <4>1
      <4> DEFINE row == s[i]
                 q == take[i]
                 old == kept[m]
      <4>3. old \in Seq(LayerRows) /\ row \in LayerRows /\ q \in Nat /\ q < row.left
        BY <2>7, <2>8, <3>1
      <4> HIDE DEF row, q, old
      <4>4. /\ LeftIn(Append(old, Rest(row, q))) = LeftIn(old) + row.left - q
            /\ ValueOf(Append(old, Rest(row, q))) = ValueOf(old) + row.left * row.cost - q * row.cost
        BY <4>3, RestAddsUp
      <4> QED BY <2>8, <4>2, <4>4, Zenon DEF row, q, old
    <3>2. CASE s[i].left = take[i]
      <4>1. kept[i] = kept[m]
        BY <1>2, <2>2, <3>2
      <4>2. f[i] = take[i] /\ v[i] = worth[i]
        BY <2>8, <3>2, Zenon
      <4> QED BY <2>7, <2>8, <4>1, <4>2
    <3> QED BY <1>1, <2>2, <2>8, <3>1, <3>2
  <2>10. /\ LeftIn(kept[i]) + Sum(take, i) = Sum(f, i)
         /\ ValueOf(kept[i]) + Sum(worth, i) = Sum(v, i)
    <3>1. /\ LeftIn(kept[m]) + Sum(take, m) = Sum(f, m)
          /\ ValueOf(kept[m]) + Sum(worth, m) = Sum(v, m)
      BY <2>3
    <3>2. /\ Sum(take, i) = take[i] + Sum(take, m) /\ Sum(f, i) = f[i] + Sum(f, m)
          /\ Sum(worth, i) = worth[i] + Sum(worth, m) /\ Sum(v, i) = v[i] + Sum(v, m)
      BY <2>5, <2>6
    <3>3. /\ take[i] \in Int /\ f[i] \in Int /\ worth[i] \in Int /\ v[i] \in Int
          /\ LeftIn(kept[m]) \in Int /\ ValueOf(kept[m]) \in Int
      BY <2>7, <2>8
    <3> DEFINE st == Sum(take, m)
               sf == Sum(f, m)
               sw == Sum(worth, m)
               sv == Sum(v, m)
    <3>4. st \in Int /\ sf \in Int /\ sw \in Int /\ sv \in Int
      BY <2>5, <2>6
    <3>5. LeftIn(kept[m]) + st = sf /\ ValueOf(kept[m]) + sw = sv
      BY <3>1
    <3>6. /\ Sum(take, i) = take[i] + st /\ Sum(f, i) = f[i] + sf
          /\ Sum(worth, i) = worth[i] + sw /\ Sum(v, i) = v[i] + sv
      BY <3>2
    <3> DEFINE a == take[i]
               b == f[i]
               c == worth[i]
               d == v[i]
               x == LeftIn(kept[m])
               y == ValueOf(kept[m])
    <3> HIDE DEF st, sf, sw, sv
    <3>7. /\ (x + b - a) + (a + st) = b + sf
          /\ (y + d - c) + (c + sw) = d + sv
      <4>1. a \in Int /\ b \in Int /\ c \in Int /\ d \in Int /\ x \in Int /\ y \in Int
        BY <3>3
      <4>2. x + st = sf /\ y + sw = sv
        BY <3>5
      <4> HIDE DEF a, b, c, d, x, y
      <4>3. (x + b - a) + (a + st) = b + (x + st)
        BY <3>4, <4>1
      <4>4. (y + d - c) + (c + sw) = d + (y + sw)
        BY <3>4, <4>1
      <4> QED BY <4>2, <4>3, <4>4
    <3> QED BY <2>9, <3>6, <3>7, Zenon
  <2> QED BY <2>10
<1>7. Good = Nat
  <2> HIDE DEF Good
  <2>1. Good \subseteq Nat
    BY DEF Good
  <2> QED BY <1>5, <1>6, <2>1, EveryNumber
<1>8. Same(n)
  BY <1>1, <1>7
<1>9. SumFunctionOnSet(worth, 1..n) \in Nat
  <2> DEFINE D == 1..n
             total == SumFunctionOnSet(worth, D)
  <2>1. IsFiniteSet(D)
    BY <1>1, FS_Interval
  <2>2. \A i \in D : worth[i] \in Int /\ worth[i] >= 0
    BY <1>4
  <2> HIDE DEF D
  <2>3. total \in Int /\ total >= 0
    BY <2>1, <2>2, SumType
  <2> HIDE DEF total
  <2>4. total \in Nat
    BY <2>3
  <2> QED BY <2>4 DEF total, D
<1> QED BY <1>1, <1>8, <1>9 DEF n, kept

\* A layer that is not used yet may follow the others.
LEMMA NewLayerIsLast ==
  ASSUME NEW s \in Seq(LayerRows), OldestFirst(s), NEW row \in LayerRows,
         s = << >> \/ row.left = row.received
  PROVE  OldestFirst(Append(s, row))
<1> DEFINE t == Append(s, row)
           n == Len(s)
<1>1. /\ t \in Seq(LayerRows) /\ Len(t) = n + 1 /\ t[n + 1] = row
      /\ \A i \in 1..n : t[i] = s[i]
  BY AppendProperties
<1>2. n \in Nat /\ DOMAIN s = 1..n /\ DOMAIN t = 1..Len(t)
  BY <1>1, LenProperties
<1>3. s = << >> => n = 0
  BY EmptySeq
<1> HIDE DEF t, n
<1>4. ASSUME NEW i \in DOMAIN t, i > 1 PROVE t[i].left = t[i].received
  <2>1. i \in 1..(n + 1)
    BY <1>1, <1>2, <1>4
  <2>2. CASE i \in 1..n
    BY <1>1, <1>2, <1>4, <2>2 DEF OldestFirst
  <2>3. CASE i \notin 1..n
    <3>1. i = n + 1
      BY <1>2, <2>1, <2>3
    <3>2. s # << >>
      BY <1>2, <1>3, <1>4, <3>1
    <3> QED BY <1>1, <3>1, <3>2
  <2> QED BY <2>2, <2>3
<1> QED BY <1>4 DEF OldestFirst, t

\* Taking the oldest first leaves at most one layer that is partly used, the oldest.
LEMMA KeptOldestFirst ==
  ASSUME NEW s \in Seq(LayerRows), OldestFirst(s), NEW qty \in Nat
  PROVE  OldestFirst(Consumed(s, qty))
<1> DEFINE n == Len(s)
           take == Taken(s, qty)
           out == Outstanding(s, qty)
           kept == Kept(s, take)
<1>1. n \in Nat /\ DOMAIN s = 1..n /\ \A i \in 1..n : s[i] \in LayerRows /\ s[i].left \in Nat \ {0}
  BY LayersAre
<1>2. \A i \in 1..n :
        /\ take[i] \in Nat /\ take[i] <= s[i].left /\ take[i] = out[i - 1] - out[i]
        /\ out[i] > 0 => take[i] = s[i].left
        /\ out[i - 1] = 0 => take[i] = 0
  BY TakenAddsUp
<1>3. \A i \in 0..n : out[i] \in Nat
  BY OutstandingGoesDown
<1>4. /\ kept[0] = << >>
      /\ \A i \in 0..n : kept[i] \in Seq(LayerRows)
      /\ \A i \in 1..n :
           /\ s[i].left > take[i] => kept[i] = Append(kept[i - 1], Rest(s[i], take[i]))
           /\ s[i].left = take[i] => kept[i] = kept[i - 1]
  BY <1>2, KeptIsLayers
<1>5. Consumed(s, qty) = kept[n]
  BY DEF Consumed
<1> HIDE DEF n, take, out, kept
<1> DEFINE Fine(m) == (out[m] > 0 => kept[m] = << >>) /\ OldestFirst(kept[m])
           Good == { m \in Nat : m <= n => Fine(m) }
<1>6. OldestFirst(<< >>)
  BY DEF OldestFirst
<1>7. 0 \in Good
  BY <1>4, <1>6
<1>8. ASSUME NEW m \in Good PROVE m + 1 \in Good
  <2>1. m \in Nat /\ (m <= n => Fine(m))
    BY <1>8
  <2> SUFFICES ASSUME m + 1 <= n PROVE Fine(m + 1)
    BY <2>1
  <2> DEFINE i == m + 1
             row == s[i]
             q == take[i]
             rest == Rest(row, q)
  <2>2. i \in 1..n /\ i - 1 = m /\ m \in 0..n /\ i \in 0..n /\ m <= n
    BY <1>1, <2>1
  <2>3. (out[m] > 0 => kept[m] = << >>) /\ OldestFirst(kept[m]) /\ kept[m] \in Seq(LayerRows)
    BY <1>4, <2>1, <2>2
  <2> HIDE DEF Good
  <2>4. /\ q \in Nat /\ q <= row.left /\ q = out[m] - out[i]
        /\ out[i] > 0 => q = row.left
        /\ out[m] = 0 => q = 0
        /\ row.left > q => kept[i] = Append(kept[m], rest)
        /\ row.left = q => kept[i] = kept[m]
        /\ out[m] \in Nat /\ out[i] \in Nat /\ row \in LayerRows /\ row.left \in Nat \ {0}
    BY <1>1, <1>2, <1>3, <1>4, <2>2
  <2>5. i > 1 => row.left = row.received
    BY <1>1, <2>2 DEF OldestFirst
  <2>6. m = 0 => kept[m] = << >>
    BY <1>4
  <2>7. i > 1 \/ m = 0
    BY <2>1
  <2> HIDE DEF i, row, q, rest
  <2>8. CASE row.left = q
    <3>1. out[i] > 0 => out[m] > 0
      BY <2>4
    <3> QED BY <2>3, <2>4, <2>8, <3>1 DEF i
  <2>9. CASE row.left # q
    <3>1. q < row.left /\ row.left > q /\ ~(out[i] > 0)
      BY <2>4, <2>9
    <3>2. rest \in LayerRows /\ rest.left = row.left - q /\ rest.received = row.received
      BY <2>4, <3>1, RestIsLayer DEF rest
    <3>3. kept[m] = << >> \/ rest.left = rest.received
      <4>1. CASE out[m] > 0
        BY <2>3, <4>1
      <4>2. CASE m = 0
        BY <2>6, <4>2
      <4>3. CASE ~(out[m] > 0) /\ i > 1
        <5>1. q = 0 /\ row.left = row.received
          BY <2>4, <2>5, <4>3
        <5> QED BY <2>4, <3>2, <5>1
      <4> QED BY <2>7, <4>1, <4>2, <4>3
    <3>4. OldestFirst(Append(kept[m], rest))
      BY <2>3, <3>2, <3>3, NewLayerIsLast
    <3> QED BY <2>4, <3>1, <3>4 DEF i
  <2> QED BY <2>8, <2>9
<1>9. Good = Nat
  <2> HIDE DEF Good
  <2>1. Good \subseteq Nat
    BY DEF Good
  <2> QED BY <1>7, <1>8, <2>1, EveryNumber
<1>10. OldestFirst(kept[n])
  BY <1>1, <1>9
<1> QED BY <1>5, <1>10

\* What a quantity asks for beyond the layers.
Beyond(s, qty) == IF qty <= LeftIn(s) THEN 0 ELSE qty - LeftIn(s)

\* Any quantity may be asked for: what the layers do not have is costed at the fallback,
\* and leaves nothing.
LEMMA ConsumedAny ==
  ASSUME NEW s \in Seq(LayerRows), NEW qty \in Nat, NEW fallback \in Nat
  PROVE  /\ Consumed(s, qty) \in Seq(LayerRows)
         /\ LeftIn(Consumed(s, qty)) = IF qty <= LeftIn(s) THEN LeftIn(s) - qty ELSE 0
         /\ TotalCost(s, qty, fallback) \in Nat
         /\ TotalCost(s, qty, fallback) = TotalCost(s, qty, 0) + fallback * Beyond(s, qty)
         /\ ValueOf(Consumed(s, qty)) + TotalCost(s, qty, 0) = ValueOf(s)
<1> DEFINE n == Len(s)
           take == Taken(s, qty)
           rest == Outstanding(s, qty)[n]
           kept == Kept(s, take)
           worth == [i \in DOMAIN s |-> take[i] * s[i].cost]
           cost == SumFunctionOnSet(worth, 1..n)
           taken == SumFunctionOnSet(take, 1..n)
<1>1. n \in Nat /\ DOMAIN s = 1..n /\ \A i \in 1..n : s[i].left \in Nat
  BY LayersAre
<1>2. /\ DOMAIN take = 1..n
      /\ \A i \in 1..n : take[i] \in Nat /\ take[i] <= s[i].left
      /\ SumFunction(take) = qty - rest /\ rest \in Nat
      /\ qty <= LeftIn(s) => rest = 0
  BY TakenAddsUp
<1>3. \A i \in 1..n : worth[i] = take[i] * s[i].cost
  BY <1>1
<1>4. Consumed(s, qty) = kept[n]
  BY DEF Consumed
<1>5. kept[n] \in Seq(LayerRows)
  <2> HIDE DEF take
  <2>1. \A i \in 0..n : kept[i] \in Seq(LayerRows)
    BY <1>2, KeptIsLayers
  <2> QED BY <1>1, <2>1
<1>6. /\ LeftIn(kept[n]) + taken = LeftIn(s)
      /\ ValueOf(kept[n]) + cost = ValueOf(s)
      /\ cost \in Nat
  <2> HIDE DEF take, worth
  <2> QED BY <1>2, <1>3, KeptAddsUp
<1>7. SumFunction(take) = taken /\ SumFunction(worth) = cost
  BY <1>1, <1>2 DEF SumFunction
<1>8. LeftIn(s) \in Nat /\ ValueOf(s) \in Nat /\ LeftIn(kept[n]) \in Nat /\ ValueOf(kept[n]) \in Nat
  BY <1>5, LayersAre
<1>9. taken \in Int
  <2> HIDE DEF take
  <2>1. \A i \in 1..n : take[i] \in Int
    BY <1>2
  <2>2. IsFiniteSet(1..n)
    BY <1>1, FS_Interval
  <2> QED BY <2>1, <2>2, SumType
<1>10. ASSUME rest > 0 PROVE taken = LeftIn(s)
  <2> DEFINE f == Lefts(s)
  <2>1. \A i \in 1..n : f[i] \in Int /\ take[i] = f[i]
    <3> SUFFICES ASSUME NEW i \in 1..n PROVE f[i] \in Int /\ take[i] = f[i]
      OBVIOUS
    <3>1. f[i] = s[i].left /\ f[i] \in Nat
      BY LayersAre
    <3>2. take[i] = s[i].left
      BY <1>10, TakenAddsUp
    <3> QED BY <3>1, <3>2
  <2>2. IsFiniteSet(1..n)
    BY <1>1, FS_Interval
  <2>3. LeftIn(s) = SumFunctionOnSet(f, 1..n)
    BY LayersAre
  <2> HIDE DEF f, take
  <2> QED BY <2>1, <2>2, <2>3, SumSame
<1>11. TotalCost(s, qty, fallback) = cost + fallback * (qty - taken)
  BY <1>7 DEF TotalCost
<1>12. TotalCost(s, qty, 0) = cost + 0 * (qty - taken)
  BY <1>7 DEF TotalCost
<1> HIDE DEF n, take, rest, kept, worth, cost, taken
<1>13. qty - taken = rest /\ taken <= LeftIn(s)
  BY <1>2, <1>6, <1>7, <1>8, <1>9
<1>14. LeftIn(kept[n]) = IF qty <= LeftIn(s) THEN LeftIn(s) - qty ELSE 0
  <2>1. CASE qty <= LeftIn(s)
    BY <1>2, <1>6, <1>8, <1>9, <1>13, <2>1
  <2>2. CASE ~(qty <= LeftIn(s))
    <3>1. rest > 0
      BY <1>2, <1>8, <1>9, <1>13, <2>2
    <3> QED BY <1>6, <1>8, <1>10, <2>2, <3>1
  <2> QED BY <2>1, <2>2
<1>15. fallback * rest \in Nat /\ 0 * rest = 0
  BY <1>2
<1>16. TotalCost(s, qty, fallback) = cost + fallback * rest
  BY <1>11, <1>13, Zenon
<1>17. TotalCost(s, qty, fallback) \in Nat
  <2> DEFINE p == fallback * rest
  <2>1. p \in Nat /\ TotalCost(s, qty, fallback) = cost + p
    BY <1>15, <1>16
  <2> HIDE DEF p
  <2> QED BY <1>6, <2>1
<1>18. TotalCost(s, qty, 0) = cost
  <2>1. TotalCost(s, qty, 0) = cost + 0 * rest
    BY <1>12, <1>13, Zenon
  <2>2. TotalCost(s, qty, 0) = cost + 0
    BY <1>15, <2>1, Zenon
  <2> QED BY <1>6, <2>2
<1>19. Beyond(s, qty) = rest
  <2>1. CASE qty <= LeftIn(s)
    BY <1>2, <2>1 DEF Beyond
  <2>2. CASE ~(qty <= LeftIn(s))
    <3>1. rest > 0
      BY <1>2, <1>8, <1>9, <1>13, <2>2
    <3> QED BY <1>10, <1>13, <2>2, <3>1 DEF Beyond
  <2> QED BY <2>1, <2>2
<1>20. TotalCost(s, qty, fallback) = TotalCost(s, qty, 0) + fallback * Beyond(s, qty)
  BY <1>16, <1>18, <1>19, Zenon
<1> QED BY <1>4, <1>5, <1>6, <1>14, <1>17, <1>18, <1>20

\* The cost of a quantity the layers cover is what they lose in value.
LEMMA ConsumedLayers ==
  ASSUME NEW s \in Seq(LayerRows), OldestFirst(s), NEW qty \in Nat, qty <= LeftIn(s),
         NEW fallback \in Nat
  PROVE  /\ Consumed(s, qty) \in Seq(LayerRows)
         /\ OldestFirst(Consumed(s, qty))
         /\ LeftIn(Consumed(s, qty)) = LeftIn(s) - qty
         /\ TotalCost(s, qty, fallback) \in Nat
         /\ ValueOf(Consumed(s, qty)) = ValueOf(s) - TotalCost(s, qty, fallback)
<1> DEFINE cost == TotalCost(s, qty, fallback)
           left == ValueOf(Consumed(s, qty))
<1>1. /\ Consumed(s, qty) \in Seq(LayerRows)
      /\ LeftIn(Consumed(s, qty)) = LeftIn(s) - qty
      /\ cost \in Nat /\ left + TotalCost(s, qty, 0) = ValueOf(s)
  BY ConsumedAny
<1>0. cost = TotalCost(s, qty, 0)
  <2>1. cost = TotalCost(s, qty, 0) + fallback * Beyond(s, qty) /\ TotalCost(s, qty, 0) \in Nat
    BY ConsumedAny
  <2>2. Beyond(s, qty) = 0
    BY DEF Beyond
  <2>3. fallback * 0 = 0
    OBVIOUS
  <2>4. cost = TotalCost(s, qty, 0) + 0
    BY <2>1, <2>2, <2>3, Zenon
  <2> QED BY <2>1, <2>4
<1>2. OldestFirst(Consumed(s, qty))
  BY KeptOldestFirst
<1>3. left \in Nat /\ ValueOf(s) \in Nat /\ left + cost = ValueOf(s)
  BY <1>0, <1>1, LayersAre
<1> HIDE DEF cost, left
<1>4. left = ValueOf(s) - cost
  BY <1>1, <1>3
<1> QED BY <1>1, <1>2, <1>4 DEF cost, left

\* A quotient rounded half up is off by half a unit at most.
LEMMA RoundedIsClose ==
  ASSUME NEW n \in Nat, NEW d \in Nat \ {0}, NEW r, r = (2 * n + d) \div (2 * d)
  PROVE  r \in Nat /\ 2 * (d * r - n) \in (-d)..d
<1> DEFINE m == 2 * n + d
           e == 2 * d
           rest == m % e
           v == d * r
<1>1. m \in Nat /\ e \in Nat \ {0} /\ r = m \div e
  OBVIOUS
<1> HIDE DEF m, e
<1>2. r \in Nat /\ rest \in 0..(e - 1) /\ m = e * r + rest
  BY <1>1, DivMod
<1> HIDE DEF rest
<1>3. v \in Nat /\ e * r = 2 * v
  <2>1. v \in Nat
    BY <1>2
  <2>2. e * r = 2 * v
    BY <1>2, Z3 DEF e
  <2> QED BY <2>1, <2>2
<1> HIDE DEF v
<1>4. 2 * n + d = 2 * v + rest /\ rest \in 0..(2 * d - 1)
  BY <1>2, <1>3 DEF m, e
<1>5. 2 * (v - n) \in (-d)..d
  <2>1. rest \in Nat /\ rest <= 2 * d - 1
    BY <1>4
  <2> QED BY <1>3, <1>4, <2>1
<1> QED BY <1>2, <1>5 DEF v

\* The unit cost a document stores is within half a unit of money a piece of what the
\* layers lost and the fallback of what they did not have: rounding is the only error.
LEMMA UnitCostIsClose ==
  ASSUME NEW s \in Seq(LayerRows), NEW qty \in Nat \ {0}, NEW fallback \in Nat
  PROVE  LET each == UnitCost(s, qty, fallback)
             used == ValueOf(s) - ValueOf(Consumed(s, qty))
         IN  /\ each \in Nat /\ used \in Nat /\ fallback * Beyond(s, qty) \in Nat
             /\ 2 * (qty * each - used - fallback * Beyond(s, qty)) \in (-qty)..qty
<1> DEFINE each == UnitCost(s, qty, fallback)
           total == TotalCost(s, qty, fallback)
           plain == TotalCost(s, qty, 0)
           more == fallback * Beyond(s, qty)
           x == ValueOf(s)
           y == ValueOf(Consumed(s, qty))
<1>1. total \in Nat /\ total = plain + more /\ y + plain = x /\ Consumed(s, qty) \in Seq(LayerRows)
  BY ConsumedAny
<1>2. each = (2 * total + qty) \div (2 * qty)
  BY DEF UnitCost
<1>3. x \in Nat /\ y \in Nat
  BY <1>1, LayersAre
<1>4. plain \in Nat
  BY ConsumedAny
<1>5. more \in Nat
  <2>1. Beyond(s, qty) \in Nat
    BY LayersAre DEF Beyond
  <2> QED BY <2>1
<1> HIDE DEF total, plain, more, each, x, y
<1>6. each \in Nat /\ 2 * (qty * each - total) \in (-qty)..qty
  BY <1>1, <1>2, RoundedIsClose
<1>7. x - y = plain
  BY <1>1, <1>3, <1>4
<1> DEFINE paid == qty * each
<1>8. paid \in Nat /\ 2 * (paid - total) \in (-qty)..qty
  BY <1>6
<1> HIDE DEF paid
<1>9. x - y \in Nat /\ 2 * (paid - (x - y) - more) \in (-qty)..qty
  BY <1>1, <1>4, <1>5, <1>7, <1>8
<1> QED BY <1>5, <1>6, <1>9 DEF each, x, y, more, paid

------------------------------------------------------------------------------

\* The loop of a document over its lines: g is the function it computes.
OpenedFollows(g, s, qty, cost) ==
  g = [i \in 0..Len(qty) |->
         IF i = 0 THEN s
         ELSE IF qty[i] > 0 THEN Append(g[i - 1], Layer(qty[i], cost[i])) ELSE g[i - 1]]

\* The lines of a document bring into the layers what they say, at the cost they say.
LEMMA OpenedLayers ==
  ASSUME NEW s \in Seq(LayerRows), NEW qty \in Seq(Nat), NEW cost \in [1..Len(qty) -> Nat],
         NEW worth \in [1..Len(qty) -> Nat],
         \A i \in 1..Len(qty) : worth[i] = qty[i] * cost[i]
  PROVE  LET t == Opened(s, qty, cost) IN
         /\ t \in Seq(LayerRows)
         /\ LeftIn(t) = LeftIn(s) + SumFunctionOnSet(qty, 1..Len(qty))
         /\ ValueOf(t) = ValueOf(s) + SumFunctionOnSet(worth, 1..Len(qty))
         /\ OldestFirst(s) => OldestFirst(t)
<1> DEFINE n == Len(qty)
           D == Seq(LayerRows)
           pass(i, d) == IF qty[i] > 0 THEN Append(d, Layer(qty[i], cost[i])) ELSE d
           step == [i \in 1..n |-> [d \in D |-> pass(i, d)]]
           value(g, i) == IF i = 0 THEN s ELSE pass(i, g[i - 1])
           opened == CHOOSE g : OpenedFollows(g, s, qty, cost)
<1>1. n \in Nat /\ \A i \in 1..n : qty[i] \in Nat /\ cost[i] \in Nat
  <2>1. n \in Nat /\ \A i \in 1..n : qty[i] \in Nat
    BY LenProperties, ElementOfSeq
  <2> QED BY <2>1
<1>2. ASSUME NEW i \in 1..n, NEW d \in D
      PROVE  /\ pass(i, d) \in D
             /\ LeftIn(pass(i, d)) = LeftIn(d) + qty[i]
             /\ ValueOf(pass(i, d)) = ValueOf(d) + worth[i]
             /\ worth[i] \in Nat
             /\ OldestFirst(d) => OldestFirst(pass(i, d))
  <2> DEFINE q == qty[i]
             c == cost[i]
             w == worth[i]
             row == Layer(q, c)
  <2>1. q \in Nat /\ c \in Nat /\ w = q * c
    BY <1>1
  <2>2. LeftIn(d) \in Nat /\ ValueOf(d) \in Nat
    BY LayersAre
  <2> HIDE DEF q, c, w
  <2>3. w \in Nat
    BY <2>1
  <2>4. CASE q > 0
    <3>1. row \in LayerRows /\ row.left = q /\ row.cost = c /\ row.received = q
      BY <2>1, <2>4 DEF Layer, LayerRows
    <3> HIDE DEF row
    <3>5. OldestFirst(d) => OldestFirst(Append(d, row))
      BY <3>1, NewLayerIsLast
    <3>2. /\ Append(d, row) \in D
          /\ LeftIn(Append(d, row)) = LeftIn(d) + row.left
          /\ ValueOf(Append(d, row)) = ValueOf(d) + row.left * row.cost
      BY <3>1, LayerAdds
    <3>3. pass(i, d) = Append(d, row)
      BY <2>4 DEF q, c, row
    <3> HIDE DEF pass
    <3>4. ValueOf(pass(i, d)) = ValueOf(d) + w /\ LeftIn(pass(i, d)) = LeftIn(d) + q
      BY <2>1, <3>1, <3>2, <3>3, Zenon
    <3> QED BY <2>3, <3>2, <3>3, <3>4, <3>5 DEF q, w
  <2>5. CASE ~(q > 0)
    <3>1. q = 0 /\ w = 0
      BY <2>1, <2>5
    <3>2. pass(i, d) = d
      BY <2>5 DEF q
    <3> HIDE DEF pass
    <3>3. LeftIn(d) = LeftIn(d) + q /\ ValueOf(d) = ValueOf(d) + w
      BY <2>2, <3>1
    <3> QED BY <2>3, <3>2, <3>3 DEF q, w
  <2> QED BY <2>4, <2>5
<1>3. \A i \in 1..n : worth[i] \in Int /\ qty[i] \in Int
  <2>1. s \in D
    OBVIOUS
  <2>2. \A i \in 1..n : worth[i] \in Nat
    <3> HIDE DEF pass, D, n
    <3> QED BY <1>2, <2>1
  <2> HIDE DEF n
  <2> QED BY <1>1, <2>2
<1> HIDE DEF D
<1>4. \A i \in 1..n : \A d \in D : step[i][d] \in D /\ step[i][d] = pass(i, d)
  <2> SUFFICES ASSUME NEW i \in 1..n, NEW d \in D
               PROVE  step[i][d] \in D /\ step[i][d] = pass(i, d)
    OBVIOUS
  <2>1. pass(i, d) \in D
    BY <1>2
  <2> HIDE DEF pass
  <2>2. step[i][d] = pass(i, d)
    OBVIOUS
  <2> QED BY <2>1, <2>2
<1>5. step \in [1..n -> [D -> D]]
  <2>1. \A i \in 1..n : \A d \in D : pass(i, d) \in D
    BY <1>2
  <2> HIDE DEF pass
  <2> QED BY <2>1
<1>6. \E g : IsRun(g, D, s, n, step)
  <2>1. s \in D
    BY DEF D
  <2> HIDE DEF step, n
  <2> QED BY <1>1, <1>5, <2>1, Iteration
<1> HIDE DEF n, step, pass
<1>7. PICK g \in [0..n -> D] : g[0] = s /\ \A i \in 1..n : g[i] = step[i][g[i - 1]]
  BY <1>6 DEF IsRun
<1>8. \A i \in 1..n : i \in 0..n /\ i - 1 \in 0..n /\ i # 0
  BY <1>1
<1>9. \A i \in 0..n : i = 0 \/ i \in 1..n
  BY <1>1
<1>10. OpenedFollows(g, s, qty, cost)
  <2>1. \A i \in 0..n : g[i] = value(g, i)
    <3>1. \A i \in 1..n : g[i] = pass(i, g[i - 1])
      BY <1>4, <1>7, <1>8
    <3> QED BY <1>7, <1>9, <3>1
  <2>2. g = [i \in 0..n |-> value(g, i)]
    <3> HIDE DEF value
    <3> QED BY <1>7, <2>1
  <2> QED BY <2>2 DEF OpenedFollows, n, pass
<1>11. OpenedFollows(opened, s, qty, cost)
  <2> DEFINE Right(h) == OpenedFollows(h, s, qty, cost)
  <2>1. opened = CHOOSE h : Right(h)
    OBVIOUS
  <2> HIDE DEF Right, opened
  <2>2. Right(g)
    BY <1>10 DEF Right
  <2>3. Right(opened)
    BY <2>1, <2>2
  <2> QED BY <2>3 DEF Right
<1>12. Opened(s, qty, cost) = opened[n]
  BY DEF Opened, OpenedFollows, n
<1> HIDE DEF opened
<1>13. \A i \in 0..n : opened[i] = value(opened, i)
  <2>1. opened = [i \in 0..n |-> value(opened, i)]
    BY <1>11 DEF OpenedFollows, n, pass
  <2> HIDE DEF value
  <2> QED BY <2>1
<1>14. opened[0] = s /\ \A i \in 1..n : opened[i] = pass(i, opened[i - 1])
  <2>1. 0 \in 0..n
    BY <1>1
  <2> QED BY <1>8, <1>13, <2>1
<1> DEFINE Sound(m) ==
             /\ opened[m] \in D
             /\ LeftIn(opened[m]) = LeftIn(s) + SumFunctionOnSet(qty, 1..m)
             /\ ValueOf(opened[m]) = ValueOf(s) + SumFunctionOnSet(worth, 1..m)
             /\ OldestFirst(s) => OldestFirst(opened[m])
           Good == { m \in Nat : m <= n => Sound(m) }
<1>15. LeftIn(s) \in Nat /\ ValueOf(s) \in Nat /\ s \in D
  BY LayersAre DEF D
<1>16. 0 \in Good
  <2>1. 1..0 = {}
    OBVIOUS
  <2>2. Sound(0)
    BY <1>14, <1>15, <2>1, SumEmpty
  <2> HIDE DEF Sound
  <2> QED BY <2>2
<1>17. ASSUME NEW m \in Good PROVE m + 1 \in Good
  <2>1. m \in Nat /\ (m <= n => Sound(m))
    BY <1>17
  <2> SUFFICES ASSUME m + 1 <= n PROVE Sound(m + 1)
    BY <2>1
  <2>2. m + 1 \in 1..n /\ (m + 1) - 1 = m /\ Sound(m)
    BY <1>1, <2>1
  <2>3. opened[m + 1] = pass(m + 1, opened[m])
    BY <1>14, <2>2
  <2>4. /\ opened[m + 1] \in D
        /\ LeftIn(opened[m + 1]) = LeftIn(opened[m]) + qty[m + 1]
        /\ ValueOf(opened[m + 1]) = ValueOf(opened[m]) + worth[m + 1]
        /\ OldestFirst(s) => OldestFirst(opened[m + 1])
    BY <1>2, <2>2, <2>3
  <2>5. \A i \in 1..(m + 1) : qty[i] \in Int /\ worth[i] \in Int
    <3>1. \A i \in 1..(m + 1) : i \in 1..n
      BY <1>1, <2>1
    <3> QED BY <1>3, <3>1
  <2>6. /\ SumFunctionOnSet(qty, 1..m) \in Int
        /\ SumFunctionOnSet(qty, 1..(m + 1)) = qty[m + 1] + SumFunctionOnSet(qty, 1..m)
    BY <2>1, <2>5, SumStep
  <2>7. /\ SumFunctionOnSet(worth, 1..m) \in Int
        /\ SumFunctionOnSet(worth, 1..(m + 1)) = worth[m + 1] + SumFunctionOnSet(worth, 1..m)
    BY <2>1, <2>5, SumStep
  <2>8. qty[m + 1] \in Int /\ worth[m + 1] \in Int
    BY <1>3, <2>2
  <2> DEFINE a == LeftIn(s)
             b == SumFunctionOnSet(qty, 1..m)
             c == qty[m + 1]
             v == ValueOf(s)
             w == SumFunctionOnSet(worth, 1..m)
             x == worth[m + 1]
  <2>9. LeftIn(opened[m]) = a + b /\ ValueOf(opened[m]) = v + w
    BY <2>2
  <2>10. /\ LeftIn(opened[m + 1]) = (a + b) + c
         /\ ValueOf(opened[m + 1]) = (v + w) + x
    BY <2>4, <2>9, Zenon
  <2>11. /\ a \in Int /\ b \in Int /\ c \in Int
         /\ v \in Int /\ w \in Int /\ x \in Int
    BY <1>15, <2>6, <2>7, <2>8
  <2> HIDE DEF a, b, c, v, w, x
  <2>12. (a + b) + c = a + (c + b) /\ (v + w) + x = v + (x + w)
    BY <2>11
  <2>13. /\ LeftIn(opened[m + 1]) = a + (c + b)
         /\ ValueOf(opened[m + 1]) = v + (x + w)
    BY <2>10, <2>12, Zenon
  <2> QED BY <2>4, <2>6, <2>7, <2>13 DEF a, b, c, v, w, x
<1>18. Good = Nat
  <2> HIDE DEF Good
  <2>1. Good \subseteq Nat
    BY DEF Good
  <2> QED BY <1>16, <1>17, <2>1, EveryNumber
<1>19. Sound(n)
  <2> HIDE DEF Sound
  <2>1. n \in Good
    <3> HIDE DEF Good
    <3> QED BY <1>1, <1>18
  <2> QED BY <1>1, <2>1
<1> QED BY <1>12, <1>19 DEF n, D

------------------------------------------------------------------------------
(***************************************************************************)
(* The stock and its layers.  LayersFollowStock is inductive beside         *)
(* StockInv: a document that opens or uses layers moves both alike, except  *)
(* where it takes more than the layers have, and then the shelf still has   *)
(* it or an oversell is on record; an adjustment moves the shelf alone, and *)
(* says so in gained or lost.                                               *)
(***************************************************************************)

\* The inductive invariant of costed stock.
CostInv == StockInv /\ CostTypeOK /\ LayersFollowStock

\* What an item's layers are to its stock.
Follows(left, shelf, more, less, shorts) ==
  /\ left >= shelf - more
  /\ \E short \in shorts \cup {0} : left <= shelf + less + short

\* The numbers of an item.
LEMMA CostedItem ==
  ASSUME CostInv, NEW k \in Keys
  PROVE  /\ layers[k] \in Seq(LayerRows) /\ OldestFirst(layers[k]) /\ LeftIn(layers[k]) \in Nat
         /\ balance[k].onHand \in Int /\ gained[k] \in Nat /\ lost[k] \in Nat
         /\ Follows(LeftIn(layers[k]), balance[k].onHand, gained[k], lost[k], ShortfallsOf(k))
         /\ ShortfallsOf(k) \subseteq Nat
<1>1. layers[k] \in Seq(LayerRows) /\ gained[k] \in Nat /\ lost[k] \in Nat
  BY DEF CostInv, CostTypeOK
<1>2. LeftIn(layers[k]) \in Nat
  BY <1>1, LayersAre
<1>3. balance[k].onHand \in Int
  BY DEF CostInv, StockInv, StockTypeOK, Balances
<1>4. /\ Follows(LeftIn(layers[k]), balance[k].onHand, gained[k], lost[k], ShortfallsOf(k))
      /\ OldestFirst(layers[k])
  BY DEF CostInv, LayersFollowStock, Follows, OldestFirst
<1>5. ShortfallsOf(k) \subseteq Nat
  BY ShortfallsAreNats DEF CostInv, StockInv
<1> QED BY <1>1, <1>2, <1>3, <1>4, <1>5

\* Items whose layers are layers, oldest first, and follow their stock.
LEMMA AllFollow ==
  ASSUME layers' \in [Keys -> Seq(LayerRows)],
         gained' \in [Keys -> Nat], lost' \in [Keys -> Nat],
         \A k \in Keys :
           /\ OldestFirst(layers'[k])
           /\ Follows(LeftIn(layers'[k]), balance'[k].onHand, gained'[k], lost'[k],
                      ShortfallsOf(k)')
  PROVE  CostTypeOK' /\ LayersFollowStock'
BY DEF CostTypeOK, LayersFollowStock, Follows, OldestFirst

\* Shelf and layers grow alike.
LEMMA FollowsIn ==
  ASSUME NEW left \in Nat, NEW shelf \in Int, NEW more \in Nat, NEW less \in Nat,
         NEW shorts \in SUBSET Nat, Follows(left, shelf, more, less, shorts), NEW qty \in Nat
  PROVE  Follows(left + qty, shelf + qty, more, less, shorts)
<1>1. PICK short \in shorts \cup {0} : left <= shelf + less + short
  BY DEF Follows
<1>2. short \in Nat
  BY <1>1
<1>3. left + qty <= (shelf + qty) + less + short /\ left + qty >= (shelf + qty) - more
  BY <1>1, <1>2 DEF Follows
<1> QED BY <1>1, <1>3 DEF Follows

\* The shelf loses a quantity, and the layers what they have of it: the shelf had it, or
\* what it did not have is on record.
LEMMA FollowsOut ==
  ASSUME NEW left \in Nat, NEW shelf \in Int, NEW more \in Nat, NEW less \in Nat,
         NEW shorts \in SUBSET Nat, NEW shorts2 \in SUBSET Nat, shorts \subseteq shorts2,
         Follows(left, shelf, more, less, shorts), NEW qty \in Nat,
         \E short \in shorts2 \cup {0} : shelf - qty + short >= 0
  PROVE  Follows(IF qty <= left THEN left - qty ELSE 0, shelf - qty, more, less, shorts2)
<1>1. PICK short \in shorts \cup {0} : left <= shelf + less + short
  BY DEF Follows
<1>2. PICK short2 \in shorts2 \cup {0} : shelf - qty + short2 >= 0
  OBVIOUS
<1>3. short \in Nat /\ short2 \in Nat /\ short \in shorts2 \cup {0}
  BY <1>1, <1>2
<1>4. CASE qty <= left
  <2>1. left - qty <= (shelf - qty) + less + short /\ left - qty >= (shelf - qty) - more
    BY <1>1, <1>3, <1>4 DEF Follows
  <2> QED BY <1>3, <1>4, <2>1 DEF Follows
<1>5. CASE ~(qty <= left)
  <2>1. 0 <= (shelf - qty) + less + short2 /\ 0 >= (shelf - qty) - more
    BY <1>2, <1>3, <1>5 DEF Follows
  <2> QED BY <1>2, <1>5, <2>1 DEF Follows
<1> QED BY <1>4, <1>5

\* A posting that fills the shelves and opens layers for as much.
LEMMA LayersGrow ==
  ASSUME CostInv, NEW type \in Inflows, NEW lines \in [Keys -> Nat], Post(type, lines),
         UNCHANGED << exceptions, gained, lost >>,
         layers' \in [Keys -> Seq(LayerRows)],
         \A k \in Keys : /\ LeftIn(layers'[k]) = LeftIn(layers[k]) + lines[k]
                         /\ OldestFirst(layers'[k])
  PROVE  CostTypeOK' /\ LayersFollowStock'
<1>1. gained' \in [Keys -> Nat] /\ lost' \in [Keys -> Nat]
  BY DEF CostInv, CostTypeOK
<1>2. ASSUME NEW k \in Keys
      PROVE  Follows(LeftIn(layers'[k]), balance'[k].onHand, gained'[k], lost'[k],
                     ShortfallsOf(k)')
  <2>1. StockInv /\ type \in Inflows \cup Outflows
    BY DEF CostInv
  <2>2. balance'[k].onHand = balance[k].onHand + lines[k] /\ lines[k] \in Nat
    BY <2>1, ShelfMoves
  <2>3. ShortfallsOf(k)' = ShortfallsOf(k) /\ gained'[k] = gained[k] /\ lost'[k] = lost[k]
    BY DEF ShortfallsOf
  <2> QED BY <2>2, <2>3, CostedItem, FollowsIn
<1> QED BY <1>1, <1>2, AllFollow

\* Goods that enter a location open one layer there.
LEMMA OneLayerMore ==
  ASSUME CostTypeOK, NEW lines \in [Keys -> Nat], NEW cost \in [Keys -> Nat],
         layers' = [k \in Keys |-> WithLayer(k, lines[k], cost[k])]
  PROVE  /\ layers' \in [Keys -> Seq(LayerRows)]
         /\ \A k \in Keys :
              /\ LeftIn(layers'[k]) = LeftIn(layers[k]) + lines[k]
              /\ ValueOf(layers'[k]) = ValueOf(layers[k]) + lines[k] * cost[k]
              /\ OldestFirst(layers[k]) => OldestFirst(layers'[k])
<1>1. ASSUME NEW k \in Keys
      PROVE  /\ layers'[k] \in Seq(LayerRows)
             /\ LeftIn(layers'[k]) = LeftIn(layers[k]) + lines[k]
             /\ ValueOf(layers'[k]) = ValueOf(layers[k]) + lines[k] * cost[k]
             /\ OldestFirst(layers[k]) => OldestFirst(layers'[k])
  <2> DEFINE s == layers[k]
             q == lines[k]
             c == cost[k]
             row == Layer(q, c)
  <2>1. s \in Seq(LayerRows) /\ q \in Nat /\ c \in Nat
    BY DEF CostTypeOK
  <2>2. LeftIn(s) \in Nat /\ ValueOf(s) \in Nat
    BY <2>1, LayersAre
  <2>3. layers'[k] = IF q > 0 THEN Append(s, row) ELSE s
    BY DEF WithLayer
  <2> HIDE DEF s, q, c, row
  <2>4. CASE q > 0
    <3>1. row \in LayerRows /\ row.left = q /\ row.cost = c /\ row.received = q
      BY <2>1, <2>4 DEF row, Layer, LayerRows
    <3>2. /\ Append(s, row) \in Seq(LayerRows)
          /\ LeftIn(Append(s, row)) = LeftIn(s) + row.left
          /\ ValueOf(Append(s, row)) = ValueOf(s) + row.left * row.cost
      BY <2>1, <3>1, LayerAdds
    <3>3. OldestFirst(s) => OldestFirst(Append(s, row))
      BY <2>1, <3>1, NewLayerIsLast
    <3>4. layers'[k] = Append(s, row)
      BY <2>3, <2>4
    <3>5. ValueOf(layers'[k]) = ValueOf(s) + q * c /\ LeftIn(layers'[k]) = LeftIn(s) + q
      BY <3>1, <3>2, <3>4, Zenon
    <3> QED BY <3>2, <3>3, <3>4, <3>5 DEF s, q, c
  <2>5. CASE ~(q > 0)
    <3>1. layers'[k] = s /\ q = 0
      BY <2>1, <2>3, <2>5
    <3>2. LeftIn(s) = LeftIn(s) + q /\ q * c = 0 /\ ValueOf(s) = ValueOf(s) + 0
      BY <2>1, <2>2, <3>1
    <3>3. ValueOf(s) = ValueOf(s) + q * c
      BY <3>2, Zenon
    <3> QED BY <2>1, <3>1, <3>2, <3>3 DEF s, q, c
  <2> QED BY <2>4, <2>5
<1>2. layers' = [k \in Keys |-> layers'[k]]
  OBVIOUS
<1>3. layers' \in [Keys -> Seq(LayerRows)]
  BY <1>1, <1>2
<1> QED BY <1>1, <1>3

\* Goods that leave use the layers, as far as these go.
LEMMA LayersUsed ==
  ASSUME CostTypeOK, NEW lines \in [Keys -> Nat],
         layers' = [k \in Keys |-> Consumed(layers[k], lines[k])]
  PROVE  /\ layers' \in [Keys -> Seq(LayerRows)]
         /\ \A k \in Keys :
              /\ LeftIn(layers'[k]) = IF lines[k] <= LeftIn(layers[k])
                                      THEN LeftIn(layers[k]) - lines[k] ELSE 0
              /\ OldestFirst(layers[k]) => OldestFirst(layers'[k])
<1>1. ASSUME NEW k \in Keys
      PROVE  /\ layers'[k] \in Seq(LayerRows)
             /\ LeftIn(layers'[k]) = IF lines[k] <= LeftIn(layers[k])
                                     THEN LeftIn(layers[k]) - lines[k] ELSE 0
             /\ OldestFirst(layers[k]) => OldestFirst(layers'[k])
  <2> DEFINE s == layers[k]
             q == lines[k]
  <2>1. s \in Seq(LayerRows) /\ q \in Nat
    BY DEF CostTypeOK
  <2>2. layers'[k] = Consumed(s, q)
    OBVIOUS
  <2> HIDE DEF s, q
  <2>3. /\ Consumed(s, q) \in Seq(LayerRows)
        /\ LeftIn(Consumed(s, q)) = IF q <= LeftIn(s) THEN LeftIn(s) - q ELSE 0
    <3>1. 0 \in Nat
      OBVIOUS
    <3> QED BY <2>1, <3>1, ConsumedAny, Zenon
  <2>4. OldestFirst(s) => OldestFirst(Consumed(s, q))
    BY <2>1, KeptOldestFirst
  <2> QED BY <2>2, <2>3, <2>4 DEF s, q
<1>2. layers' = [k \in Keys |-> layers'[k]]
  OBVIOUS
<1>3. layers' \in [Keys -> Seq(LayerRows)]
  BY <1>1, <1>2
<1> QED BY <1>1, <1>3

\* Documents that open layers keep them.
LEMMA GoodsInStep ==
  ASSUME CostInv, NEW type \in Inflows, NEW lines \in [Keys -> Nat], NEW cost \in [Keys -> Nat],
         Post(type, lines), UNCHANGED << exceptions, gained, lost >>,
         layers' = [k \in Keys |-> WithLayer(k, lines[k], cost[k])]
  PROVE  CostTypeOK' /\ LayersFollowStock'
<1>1. CostTypeOK
  BY DEF CostInv
<1>2. /\ layers' \in [Keys -> Seq(LayerRows)]
      /\ \A k \in Keys : /\ LeftIn(layers'[k]) = LeftIn(layers[k]) + lines[k]
                         /\ OldestFirst(layers[k]) => OldestFirst(layers'[k])
  BY <1>1, OneLayerMore
<1>3. \A k \in Keys : OldestFirst(layers'[k])
  BY <1>2, CostedItem
<1> QED BY <1>2, <1>3, LayersGrow

\* Documents that use layers keep them.
LEMMA GoodsOutStep ==
  ASSUME CostInv, NEW type \in Outflows, NEW lines \in [Keys -> Nat],
         Post(type, lines), UNCHANGED << exceptions, gained, lost >>,
         layers' = [k \in Keys |-> Consumed(layers[k], lines[k])]
  PROVE  CostTypeOK' /\ LayersFollowStock'
<1>1. CostTypeOK /\ gained' \in [Keys -> Nat] /\ lost' \in [Keys -> Nat]
  BY DEF CostInv, CostTypeOK
<1>2. /\ layers' \in [Keys -> Seq(LayerRows)]
      /\ \A k \in Keys :
           /\ LeftIn(layers'[k]) = IF lines[k] <= LeftIn(layers[k])
                                   THEN LeftIn(layers[k]) - lines[k] ELSE 0
           /\ OldestFirst(layers[k]) => OldestFirst(layers'[k])
  BY <1>1, LayersUsed
<1>3. ASSUME NEW k \in Keys
      PROVE  /\ Follows(LeftIn(layers'[k]), balance'[k].onHand, gained'[k], lost'[k],
                        ShortfallsOf(k)')
             /\ OldestFirst(layers'[k])
  <2>1. StockInv /\ type \in Inflows \cup Outflows
    BY DEF CostInv
  <2>2. /\ balance'[k].onHand = balance[k].onHand - lines[k] /\ lines[k] \in Nat
        /\ lines[k] = 0 \/ lines[k] <= balance[k].onHand
    BY <2>1, ShelfMoves
  <2>3. ShortfallsOf(k)' = ShortfallsOf(k) /\ gained'[k] = gained[k] /\ lost'[k] = lost[k]
    BY DEF ShortfallsOf
  <2> DEFINE left == LeftIn(layers[k])
             shelf == balance[k].onHand
             qty == lines[k]
             shorts == ShortfallsOf(k)
             more == gained[k]
             less == lost[k]
  <2>4. /\ left \in Nat /\ shelf \in Int /\ more \in Nat /\ less \in Nat
        /\ shorts \in SUBSET Nat /\ Follows(left, shelf, more, less, shorts)
    BY CostedItem
  <2>5. /\ qty \in Nat /\ (qty = 0 \/ qty <= shelf)
        /\ LeftIn(layers'[k]) = IF qty <= left THEN left - qty ELSE 0
        /\ balance'[k].onHand = shelf - qty
    BY <1>2, <2>2
  <2> HIDE DEF left, shelf, qty, shorts, more, less
  <2>6. CASE qty = 0
    <3>1. left - qty = left /\ shelf - qty = shelf /\ qty <= left
      BY <2>4, <2>6
    <3>2. LeftIn(layers'[k]) = left /\ balance'[k].onHand = shelf
      BY <2>5, <3>1
    <3> QED BY <1>2, <2>3, <2>4, <3>2, CostedItem DEF shorts, more, less
  <2>7. CASE qty <= shelf
    <3>1. \E short \in shorts \cup {0} : shelf - qty + short >= 0
      <4>1. shelf - qty + 0 >= 0
        BY <2>4, <2>5, <2>7
      <4> QED BY <4>1
    <3>2. Follows(IF qty <= left THEN left - qty ELSE 0, shelf - qty, more, less, shorts)
      BY <2>4, <2>5, <3>1, FollowsOut
    <3> QED BY <1>2, <2>3, <2>5, <3>2, CostedItem DEF shorts, more, less
  <2> QED BY <2>5, <2>6, <2>7
<1> QED BY <1>1, <1>2, <1>3, AllFollow

\* So does an offline sale: what the shelf did not have is on record.
LEMMA OfflineLayersStep ==
  ASSUME CostInv, NEW s \in SaleRefs, NEW lines \in [Keys -> Nat],
         SyncOfflineSale(s, lines), UNCHANGED << gained, lost >>,
         layers' = [k \in Keys |-> Consumed(layers[k], lines[k])]
  PROVE  CostTypeOK' /\ LayersFollowStock'
<1>1. CostTypeOK /\ gained' \in [Keys -> Nat] /\ lost' \in [Keys -> Nat] /\ StockInv
  BY DEF CostInv, CostTypeOK
<1>2. /\ layers' \in [Keys -> Seq(LayerRows)]
      /\ \A k \in Keys :
           /\ LeftIn(layers'[k]) = IF lines[k] <= LeftIn(layers[k])
                                   THEN LeftIn(layers[k]) - lines[k] ELSE 0
           /\ OldestFirst(layers[k]) => OldestFirst(layers'[k])
  BY <1>1, LayersUsed
<1>3. KeepsBook /\ BucketsHold'
  BY <1>1, OfflineStep
<1>4. StockInv'
  BY <1>1, <1>3, StockInvKept
<1>5. ASSUME NEW k \in Keys
      PROVE  /\ Follows(LeftIn(layers'[k]), balance'[k].onHand, gained'[k], lost'[k],
                        ShortfallsOf(k)')
             /\ OldestFirst(layers'[k])
  <2> DEFINE left == LeftIn(layers[k])
             b == balance[k]
             b2 == balance'[k]
             qty == lines[k]
             shorts == ShortfallsOf(k)
             shorts2 == ShortfallsOf(k)'
  <2>1. b \in Balances /\ b2 \in Balances /\ qty \in Nat
    BY <1>1, <1>4 DEF StockInv, StockTypeOK
  <2>2. b2 = IF qty > 0 THEN Posted(b, "SALE", qty) ELSE b
    BY <1>1 DEF SyncOfflineSale, PostedAll, StockInv, StockTypeOK
  <2>3. /\ b2.reserved >= 0 /\ b2.committed = 0 /\ b2.quarantined >= 0
        /\ b2.damaged >= 0 /\ b2.expired >= 0
    BY <1>4 DEF StockInv, BucketsHold
  <2>4. \E short \in shorts2 \cup {0} : Available(b2) + short >= 0
    <3>1. Available(b2) >= 0 \/ \E short \in shorts2 : Available(b2) + short >= 0
      BY <1>4 DEF StockInv, ShortfallsOnRecord
    <3>2. Available(b2) \in Int
      BY <1>3 DEF KeepsBook
    <3> HIDE DEF shorts2, b2
    <3>3. CASE Available(b2) >= 0
      <4>1. Available(b2) + 0 >= 0
        BY <3>2, <3>3
      <4> QED BY <4>1
    <3> QED BY <3>1, <3>3
  <2>5. shorts2 \in SUBSET Nat
    <3>1. StockTypeOK'
      BY <1>4 DEF StockInv
    <3> QED BY <3>1 DEF StockTypeOK, Exceptions, ShortfallsOf
  <2>6. shorts \subseteq shorts2
    BY <1>3 DEF KeepsBook
  <2>7. /\ left \in Nat /\ b.onHand \in Int /\ gained[k] \in Nat /\ lost[k] \in Nat
        /\ shorts \in SUBSET Nat /\ Follows(left, b.onHand, gained[k], lost[k], shorts)
    BY CostedItem
  <2> HIDE DEF left, b, b2, qty, shorts, shorts2
  <2>8. b2.onHand = b.onHand - qty
    <3>1. CASE qty > 0
      BY <2>1, <2>2, <3>1 DEF Posted, BalanceChange, Signed, Balances
    <3>2. CASE qty = 0
      BY <2>2, <2>7, <3>2
    <3> QED BY <2>1, <3>1, <3>2
  <2>9. \E short \in shorts2 \cup {0} : b.onHand - qty + short >= 0
    <3>1. PICK short \in shorts2 \cup {0} : Available(b2) + short >= 0
      BY <2>4
    <3>2. short \in Nat
      BY <2>5, <3>1
    <3>3. b2.onHand + short >= 0
      BY <2>1, <2>3, <3>1, <3>2 DEF Available, Balances
    <3> QED BY <2>8, <3>1, <3>3
  <2>10. Follows(IF qty <= left THEN left - qty ELSE 0, b.onHand - qty, gained[k], lost[k],
                 shorts2)
    BY <2>1, <2>5, <2>6, <2>7, <2>9, FollowsOut
  <2>11. LeftIn(layers'[k]) = IF qty <= left THEN left - qty ELSE 0
    BY <1>2 DEF qty, left
  <2>12. OldestFirst(layers'[k])
    BY <1>2, CostedItem
  <2> QED BY <2>8, <2>10, <2>11, <2>12 DEF b2, shorts2
<1> QED BY <1>1, <1>2, <1>5, AllFollow

\* A movement without a layer moves the shelf of one item by what gained and lost say.
LEMMA UncostedShelf ==
  ASSUME StockInv, CostTypeOK, NEW k \in Keys, NEW type \in MovementTypes,
         NEW qty \in Nat, PostUncosted(k, type, qty)
  PROVE  /\ UNCHANGED << exceptions, synced, layers >>
         /\ Post(type, [i \in Keys |-> IF i = k THEN qty ELSE 0])
         /\ gained' \in [Keys -> Nat] /\ lost' \in [Keys -> Nat]
         /\ \A i \in Keys :
              /\ gained'[i] >= gained[i] /\ lost'[i] >= lost[i]
              /\ balance'[i].onHand + lost'[i] - gained'[i]
                   = balance[i].onHand + lost[i] - gained[i]
<1> DEFINE lines == [i \in Keys |-> IF i = k THEN qty ELSE 0]
<1>0. /\ type \in { "ADJUSTMENT_GAIN", "ADJUSTMENT_LOSS", "DAMAGE", "EXPIRY", "QUARANTINE_IN",
                    "QUARANTINE_RELEASE", "RESERVATION", "RESERVATION_RELEASE" }
      /\ Post(type, lines)
      /\ gained' = IF type = "ADJUSTMENT_GAIN" THEN [gained EXCEPT ![k] = @ + qty] ELSE gained
      /\ lost' = IF type = "ADJUSTMENT_LOSS" THEN [lost EXCEPT ![k] = @ + qty] ELSE lost
      /\ UNCHANGED << exceptions, synced, layers >>
  BY DEF PostUncosted
<1>1. gained \in [Keys -> Nat] /\ lost \in [Keys -> Nat]
  BY DEF CostTypeOK
<1>2. gained' \in [Keys -> Nat] /\ lost' \in [Keys -> Nat]
  BY <1>0, <1>1
<1>3. ASSUME NEW i \in Keys
      PROVE  /\ gained'[i] >= gained[i] /\ lost'[i] >= lost[i]
             /\ balance'[i].onHand + lost'[i] - gained'[i]
                  = balance[i].onHand + lost[i] - gained[i]
  <2> DEFINE b == balance[i]
             q == lines[i]
  <2>1. b \in Balances /\ q \in Nat /\ (i # k => q = 0) /\ (i = k => q = qty)
    BY DEF StockInv, StockTypeOK
  <2>2. balance'[i] = IF q > 0 THEN Posted(b, type, q) ELSE b
    BY <1>0 DEF Post, PostedAll, StockInv, StockTypeOK
  <2>3. /\ gained'[i] = gained[i] + (IF type = "ADJUSTMENT_GAIN" THEN q ELSE 0)
        /\ lost'[i] = lost[i] + (IF type = "ADJUSTMENT_LOSS" THEN q ELSE 0)
    BY <1>0, <1>1, <2>1
  <2> DEFINE g == gained[i]
             l == lost[i]
  <2>4. g \in Nat /\ l \in Nat
    BY <1>1
  <2> HIDE DEF b, q, lines, g, l
  <2>5. /\ b.onHand \in Int
        /\ balance'[i].onHand = b.onHand + (IF type = "ADJUSTMENT_GAIN" THEN q ELSE 0)
                                         - (IF type = "ADJUSTMENT_LOSS" THEN q ELSE 0)
    <3>1. b.onHand \in Int
      BY <2>1 DEF Balances
    <3>2. CASE q > 0
      BY <1>0, <2>1, <2>2, <3>2 DEF Posted, BalanceChange, Signed, Balances
    <3>3. CASE q = 0
      BY <2>2, <3>1, <3>3
    <3> QED BY <2>1, <3>1, <3>2, <3>3
  <2> DEFINE in == IF type = "ADJUSTMENT_GAIN" THEN q ELSE 0
             out == IF type = "ADJUSTMENT_LOSS" THEN q ELSE 0
             shelf == b.onHand
  <2>6. in \in Nat /\ out \in Nat /\ shelf \in Int
    BY <2>1, <2>5
  <2>7. gained'[i] = g + in /\ lost'[i] = l + out /\ balance'[i].onHand = shelf + in - out
    BY <2>3, <2>5 DEF g, l
  <2> HIDE DEF in, out, shelf
  <2>8. /\ gained'[i] >= g /\ lost'[i] >= l
        /\ balance'[i].onHand + lost'[i] - gained'[i] = shelf + l - g
    BY <2>4, <2>6, <2>7
  <2> QED BY <2>8 DEF g, l, shelf, b
<1> QED BY <1>0, <1>2, <1>3

\* Movements without a layer keep what there is.
LEMMA OthersAdjustStep ==
  ASSUME CostInv, OthersAdjust
  PROVE  KeepsBook /\ BucketsHold' /\ CostTypeOK' /\ LayersFollowStock'
<1>0. PICK k \in Keys, type \in MovementTypes, qty \in Quantities : PostUncosted(k, type, qty)
  BY DEF OthersAdjust
<1>1. qty \in Nat /\ StockInv /\ CostTypeOK
  BY QuantitiesAssumption DEF CostInv
<1> DEFINE lines == [i \in Keys |-> IF i = k THEN qty ELSE 0]
<1>2. /\ UNCHANGED << exceptions, synced, layers >>
      /\ Post(type, lines)
      /\ gained' \in [Keys -> Nat] /\ lost' \in [Keys -> Nat]
      /\ \A i \in Keys :
           /\ gained'[i] >= gained[i] /\ lost'[i] >= lost[i]
           /\ balance'[i].onHand + lost'[i] - gained'[i] = balance[i].onHand + lost[i] - gained[i]
  BY <1>0, <1>1, UncostedShelf
<1>3. lines \in [Keys -> Nat]
  BY <1>1
<1> HIDE DEF lines
<1>4. KeepsBook /\ BucketsHold'
  BY <1>1, <1>2, <1>3, PostStep
<1>5. layers' \in [Keys -> Seq(LayerRows)]
  BY <1>1, <1>2 DEF CostTypeOK
<1>6. ASSUME NEW i \in Keys
      PROVE  /\ Follows(LeftIn(layers'[i]), balance'[i].onHand, gained'[i], lost'[i],
                        ShortfallsOf(i)')
             /\ OldestFirst(layers'[i])
  <2> DEFINE left == LeftIn(layers[i])
             shelf == balance[i].onHand
             shelf2 == balance'[i].onHand
             more == gained[i]
             more2 == gained'[i]
             less == lost[i]
             less2 == lost'[i]
             shorts == ShortfallsOf(i)
  <2>1. /\ left \in Nat /\ shelf \in Int /\ more \in Nat /\ less \in Nat
        /\ shorts \in SUBSET Nat /\ Follows(left, shelf, more, less, shorts)
        /\ OldestFirst(layers[i])
    BY CostedItem
  <2>2. shelf2 \in Int
    <3>1. StockTypeOK'
      BY <1>4 DEF KeepsBook
    <3> QED BY <3>1 DEF StockTypeOK, Balances
  <2>3. more2 \in Nat /\ less2 \in Nat /\ more2 >= more /\ less2 >= less
        /\ shelf2 + less2 - more2 = shelf + less - more
    BY <1>2
  <2>4. ShortfallsOf(i)' = shorts /\ layers'[i] = layers[i]
    BY <1>2 DEF ShortfallsOf
  <2> HIDE DEF left, shelf, shelf2, more, more2, less, less2, shorts
  <2>5. PICK short \in shorts \cup {0} : left <= shelf + less + short
    BY <2>1 DEF Follows
  <2>6. short \in Nat
    BY <2>1, <2>5
  <2>7. left >= shelf2 - more2 /\ left <= shelf2 + less2 + short
    <3>1. left >= shelf - more
      BY <2>1 DEF Follows
    <3> QED BY <2>1, <2>2, <2>3, <2>5, <2>6, <3>1
  <2>8. Follows(left, shelf2, more2, less2, shorts)
    BY <2>5, <2>7 DEF Follows
  <2> QED BY <2>1, <2>4, <2>8 DEF left, shelf2, more2, less2
<1>7. CostTypeOK' /\ LayersFollowStock'
  BY <1>2, <1>5, <1>6, AllFollow
<1> QED BY <1>4, <1>7

\* All that the rest of the shop does keeps stock and layers.
LEMMA OthersTradeStep ==
  ASSUME CostInv, OthersTrade
  PROVE  KeepsBook /\ BucketsHold' /\ CostTypeOK' /\ LayersFollowStock'
<1>0. StockInv
  BY DEF CostInv
<1>1. ASSUME NEW type \in MovementTypes, NEW lines \in Lines, NEW cost \in Costs,
             GoodsIn(type, lines, cost)
      PROVE  KeepsBook /\ BucketsHold' /\ CostTypeOK' /\ LayersFollowStock'
  <2> DEFINE each == [k \in Keys |-> cost]
  <2>1. lines \in [Keys -> Nat] /\ each \in [Keys -> Nat] /\ type \in Inflows
    BY <1>1, LinesAreQuantities, CostsAssumption DEF GoodsIn, Inflows
  <2>2. /\ Post(type, lines) /\ UNCHANGED << exceptions, synced, gained, lost >>
        /\ layers' = [k \in Keys |-> WithLayer(k, lines[k], each[k])]
    BY <1>1 DEF GoodsIn, PostDocument
  <2> HIDE DEF each
  <2> QED BY <1>0, <2>1, <2>2, PostStep, GoodsInStep
<1>2. ASSUME NEW type \in MovementTypes, NEW lines \in Lines, GoodsOut(type, lines)
      PROVE  KeepsBook /\ BucketsHold' /\ CostTypeOK' /\ LayersFollowStock'
  <2>1. lines \in [Keys -> Nat] /\ type \in Outflows
    BY <1>2, LinesAreQuantities DEF GoodsOut, Outflows
  <2>2. /\ Post(type, lines) /\ UNCHANGED << exceptions, synced, gained, lost >>
        /\ layers' = [k \in Keys |-> Consumed(layers[k], lines[k])]
    BY <1>2 DEF GoodsOut, PostDocument
  <2> QED BY <1>0, <2>1, <2>2, PostStep, GoodsOutStep
<1> QED BY <1>1, <1>2, OthersAdjustStep DEF OthersTrade

\* A step that leaves stock and layers alone.
LEMMA CostIdleStep ==
  ASSUME CostInv, UNCHANGED << stockVars, costVars >>
  PROVE  CostTypeOK' /\ LayersFollowStock'
BY DEF CostInv, stockVars, costVars, CostTypeOK, LayersFollowStock, ShortfallsOf

\* One layer for the opening stock.
LEMMA OpeningLayers ==
  ASSUME NEW cost \in Nat, StockInit, NothingAdjusted,
         layers = [k \in Keys |-> IF balance[k].onHand = 0 THEN << >>
                                  ELSE << Layer(balance[k].onHand, cost) >>]
  PROVE  CostInv
<1>1. StockInv
  BY StockInitInv
<1>2. gained = Nothing /\ lost = Nothing /\ Nothing \in [Keys -> Nat]
  BY DEF NothingAdjusted, Nothing
<1>3. ASSUME NEW k \in Keys
      PROVE  /\ layers[k] \in Seq(LayerRows) /\ LeftIn(layers[k]) = balance[k].onHand
             /\ OldestFirst(layers[k]) /\ balance[k].onHand \in Nat
  <2> DEFINE q == balance[k].onHand
             row == Layer(q, cost)
  <2>1. q \in Nat
    BY OpeningStockAssumption DEF StockInit, Stocked, EmptyBalance
  <2>2. layers[k] = IF q = 0 THEN << >> ELSE << row >>
    OBVIOUS
  <2> HIDE DEF q, row
  <2>3. /\ << >> \in Seq(LayerRows) /\ LeftIn(<< >>) = 0 /\ OldestFirst(<< >>)
    BY NoLayers DEF OldestFirst
  <2>4. CASE q = 0
    BY <2>2, <2>3, <2>4 DEF q
  <2>5. CASE q # 0
    <3>1. row \in LayerRows /\ row.left = q /\ row.received = q
      BY <2>1, <2>5 DEF row, Layer, LayerRows
    <3>2. layers[k] = Append(<< >>, row)
      BY <2>2, <2>5
    <3>3. /\ Append(<< >>, row) \in Seq(LayerRows)
          /\ LeftIn(Append(<< >>, row)) = LeftIn(<< >>) + row.left
      BY <2>3, <3>1, LayerAdds
    <3>4. OldestFirst(Append(<< >>, row))
      BY <2>3, <3>1, NewLayerIsLast
    <3>5. LeftIn(<< >>) + row.left = q
      BY <2>1, <2>3, <3>1
    <3> QED BY <2>1, <3>2, <3>3, <3>4, <3>5 DEF q
  <2> QED BY <2>4, <2>5
<1>4. layers \in [Keys -> Seq(LayerRows)]
  <2>1. layers = [k \in Keys |-> layers[k]]
    OBVIOUS
  <2> QED BY <1>3, <2>1
<1>5. CostTypeOK
  BY <1>2, <1>4 DEF CostTypeOK
<1>6. LayersFollowStock
  <2> SUFFICES ASSUME NEW k \in Keys
               PROVE  /\ LeftIn(layers[k]) >= balance[k].onHand - gained[k]
                      /\ LeftIn(layers[k]) <= balance[k].onHand + lost[k] + 0
                      /\ OldestFirst(layers[k])
    BY DEF LayersFollowStock, OldestFirst
  <2>1. gained[k] = 0 /\ lost[k] = 0
    BY <1>2 DEF Nothing
  <2> QED BY <1>3, <2>1
<1> QED BY <1>1, <1>5, <1>6 DEF CostInv

------------------------------------------------------------------------------
(***************************************************************************)
(* Documents of several lines, with amounts that are rounded line by line.  *)
(***************************************************************************)

\* A sum over a row of values that one more value is appended to.
LEMMA SumGrows ==
  ASSUME NEW n \in Nat, NEW f, NEW g, DOMAIN f = 1..n, DOMAIN g = 1..(n + 1),
         \A i \in 1..n : f[i] \in Int /\ g[i] = f[i], g[n + 1] \in Int
  PROVE  SumFunction(f) \in Int /\ SumFunction(g) = SumFunction(f) + g[n + 1]
<1>1. \A i \in 1..(n + 1) : g[i] \in Int
  <2>1. \A i \in 1..(n + 1) : i \in 1..n \/ i = n + 1
    OBVIOUS
  <2> QED BY <2>1
<1>2. /\ SumFunctionOnSet(g, 1..n) \in Int
      /\ SumFunctionOnSet(g, 1..(n + 1)) = g[n + 1] + SumFunctionOnSet(g, 1..n)
  BY <1>1, SumStep
<1>3. IsFiniteSet(1..n)
  BY FS_Interval
<1>4. SumFunctionOnSet(g, 1..n) = SumFunctionOnSet(f, 1..n)
  BY <1>3, SumSame
<1>5. SumFunction(g) = SumFunctionOnSet(g, 1..(n + 1)) /\ SumFunction(f) = SumFunctionOnSet(f, 1..n)
  BY DEF SumFunction
<1> QED BY <1>1, <1>2, <1>4, <1>5

\* A row of values is a sequence.
LEMMA RowIsSeq ==
  ASSUME NEW n \in Nat, NEW S, NEW r \in [1..n -> S]
  PROVE  r \in Seq(S) /\ Len(r) = n
<1>1. r \in Seq(S)
  BY SeqDef
<1> QED BY <1>1

\* What was got is the share part / q of t, up to half a unit for each of n lines.
Close(q, t, got, part, n) ==
  2 * (q * got - t * part) \in (-(q * n))..(q * n)

\* The share of a line that the handler of returns rounds.
LEMMA ShareIsClose ==
  ASSUME NEW q \in Nat \ {0}, NEW t \in Nat, NEW part \in Nat, NEW amount,
         amount = (2 * t * part + q) \div (2 * q)
  PROVE  amount \in Nat /\ Close(q, t, amount, part, 1)
<1> DEFINE w == t * part
<1>1. w \in Nat /\ 2 * t * part = 2 * w
  BY Z3
<1> HIDE DEF w
<1>2. amount = (2 * w + q) \div (2 * q)
  BY <1>1
<1>3. amount \in Nat /\ 2 * (q * amount - w) \in (-q)..q
  BY <1>1, <1>2, RoundedIsClose
<1>4. q * 1 = q
  OBVIOUS
<1> QED BY <1>3, <1>4 DEF Close, w

\* Two such amounts together.
LEMMA CloseAdds ==
  ASSUME NEW q \in Nat, NEW t \in Nat, NEW a \in Nat, NEW b \in Nat, NEW c \in Nat,
         NEW x \in Nat, NEW y \in Nat, NEW z \in Nat,
         Close(q, t, a, b, c), Close(q, t, x, y, z)
  PROVE  Close(q, t, a + x, b + y, c + z)
<1> DEFINE qa == q * a
           tb == t * b
           qc == q * c
           qx == q * x
           ty == t * y
           qz == q * z
<1>1. q * (a + x) = qa + qx /\ t * (b + y) = tb + ty /\ q * (c + z) = qc + qz
  BY Z3
<1>2. qa \in Nat /\ tb \in Nat /\ qc \in Nat /\ qx \in Nat /\ ty \in Nat /\ qz \in Nat
  OBVIOUS
<1>3. 2 * (qa - tb) \in (-qc)..qc /\ 2 * (qx - ty) \in (-qz)..qz
  BY DEF Close
<1> HIDE DEF qa, tb, qc, qx, ty, qz
<1>4. 2 * ((qa + qx) - (tb + ty)) \in (-(qc + qz))..(qc + qz)
  BY <1>2, <1>3
<1> QED BY <1>1, <1>4 DEF Close

\* Nothing of nothing.
LEMMA CloseNothing ==
  ASSUME NEW q \in Nat, NEW t \in Nat
  PROVE  Close(q, t, 0, 0, 0)
<1>1. q * 0 = 0 /\ t * 0 = 0
  OBVIOUS
<1> QED BY <1>1 DEF Close

\* Sums of close amounts are close.
LEMMA SumsStayClose ==
  ASSUME NEW S, IsFiniteSet(S), NEW q \in Nat, NEW t \in Nat, NEW a, NEW b, NEW c,
         \A x \in S : a[x] \in Nat /\ b[x] \in Nat /\ c[x] \in Nat,
         \A x \in S : Close(q, t, a[x], b[x], c[x])
  PROVE  Close(q, t, SumFunctionOnSet(a, S), SumFunctionOnSet(b, S), SumFunctionOnSet(c, S))
<1> DEFINE sums(T) == Close(q, t, SumFunctionOnSet(a, T), SumFunctionOnSet(b, T), SumFunctionOnSet(c, T))
           Good == { T \in SUBSET S : sums(T) }
<1>1. {} \in Good
  <2>1. sums({})
    BY CloseNothing, SumEmpty
  <2> HIDE DEF sums
  <2> QED BY <2>1
<1>2. ASSUME NEW T \in SUBSET S, NEW x \in S \ T, T \in Good
      PROVE  T \cup {x} \in Good
  <2>1. IsFiniteSet(T)
    BY FS_Subset
  <2>2. \A y \in T \cup {x} : a[y] \in Int /\ b[y] \in Int /\ c[y] \in Int
    OBVIOUS
  <2>3. \A y \in T : a[y] >= 0 /\ b[y] >= 0 /\ c[y] >= 0
    OBVIOUS
  <2>4. SumFunctionOnSet(a, T \cup {x}) = a[x] + SumFunctionOnSet(a, T)
    BY <2>1, <2>2, SumInsert
  <2>5. SumFunctionOnSet(b, T \cup {x}) = b[x] + SumFunctionOnSet(b, T)
    BY <2>1, <2>2, SumInsert
  <2>6. SumFunctionOnSet(c, T \cup {x}) = c[x] + SumFunctionOnSet(c, T)
    BY <2>1, <2>2, SumInsert
  <2>7. SumFunctionOnSet(a, T) \in Nat /\ SumFunctionOnSet(b, T) \in Nat
        /\ SumFunctionOnSet(c, T) \in Nat
    <3>1. SumFunctionOnSet(a, T) \in Int /\ SumFunctionOnSet(a, T) >= 0
      BY <2>1, <2>2, <2>3, SumType
    <3>2. SumFunctionOnSet(b, T) \in Int /\ SumFunctionOnSet(b, T) >= 0
      BY <2>1, <2>2, <2>3, SumType
    <3>3. SumFunctionOnSet(c, T) \in Int /\ SumFunctionOnSet(c, T) >= 0
      BY <2>1, <2>2, <2>3, SumType
    <3> QED BY <3>1, <3>2, <3>3
  <2>8. a[x] \in Nat /\ b[x] \in Nat /\ c[x] \in Nat /\ Close(q, t, a[x], b[x], c[x])
    OBVIOUS
  <2>9. sums(T)
    BY <1>2
  <2>10. Close(q, t, a[x] + SumFunctionOnSet(a, T), b[x] + SumFunctionOnSet(b, T),
                    c[x] + SumFunctionOnSet(c, T))
    BY <2>7, <2>8, <2>9, CloseAdds
  <2>11. sums(T \cup {x})
    BY <2>4, <2>5, <2>6, <2>10
  <2> HIDE DEF sums
  <2> QED BY <2>11
<1>3. S \in Good
  <2> HIDE DEF Good
  <2> QED BY <1>1, <1>2, EverySubset
<1> QED BY <1>3
==============================================================================
