----------------------------- MODULE StoredValue -----------------------------
(***************************************************************************)
(* Store credit, gift cards and loyalty points, as tenders of sales and     *)
(* orders and as refunds: src/apps/api/src/modules/value/.                  *)
(*                                                                         *)
(* Sales, order payments and returns debit and credit an account inside     *)
(* their SERIALIZABLE transactions, one step each.  Two handlers are not    *)
(* serializable.  The manual adjustment of store credit reads the balance   *)
(* and changes it in one READ COMMITTED transaction: two steps, with the    *)
(* commits of others in between; the change itself is an increment, which   *)
(* meets the balance of its own moment.  The issue of a gift card is two    *)
(* writes without a transaction, and its code is told after the second.     *)
(*                                                                         *)
(* Amounts are whole cents.  A sale is reduced to its total and to the one  *)
(* internal tender it uses; a sale with several debits them one by one, and *)
(* all or none of them.  How much a return may refund is said in Sales.     *)
(***************************************************************************)
EXTENDS Integers

CONSTANTS Customers,
          Cards,       \* gift cards
          Clerks,      \* adjustments of store credit in flight
          Amounts,     \* amounts of tenders, refunds, cards and adjustments
          Programs,    \* loyalty programmes: [active, per, value, minimum], that is a
                       \* point for every "per" spent, worth "value" on redemption
          MaxIn        \* bound: what may come into one account in all

ASSUME CustomersAssumption == Customers # {}
ASSUME AmountsAssumption == Amounts \subseteq Nat \ {0}
ASSUME ProgramsAssumption ==
  Programs \subseteq [ active : BOOLEAN, per : Nat \ {0}, value : Nat \ {0}, minimum : Nat \ {0} ]
ASSUME MaxInAssumption == MaxIn \in Nat

VARIABLES account,    \* account[c]: the StoreCreditAccount of customer c
          entries,    \* entries[c]: the sums of its transactions, by type
          adjusting,  \* adjusting[a]: the adjustment clerk a has in flight
          card,       \* card[g]: a gift card and the sums of its transactions
          program,    \* the tenant's LoyaltyProgram
          loyalty,    \* loyalty[c]: the LoyaltyAccount of c and the sums of its transactions
          lowered,    \* history: lowered[c], what adjustments took from c's store credit
          raced       \* history: customers whose store credit was adjusted downwards after
                      \* it had gone below what the adjustment had read

vars == << account, entries, adjusting, card, program, loyalty, lowered, raced >>

NoAccount == [open |-> FALSE, balance |-> 0]

NoEntries == [CREDIT |-> 0, DEBIT |-> 0, ADJUSTMENT |-> 0]

Adjustings == [ busy : BOOLEAN, customer : Customers, amount : Int, found : BOOLEAN, read : Int ]

Idle == [busy |-> FALSE, customer |-> CHOOSE c \in Customers : TRUE, amount |-> 0,
         found |-> FALSE, read |-> 0]

NoCard == [status |-> "NONE", initial |-> 0, balance |-> 0, expired |-> FALSE,
           CREDIT |-> 0, DEBIT |-> 0]

NoPoints == [points |-> 0, lifetime |-> 0, earned |-> 0, redeemed |-> 0, refunded |-> 0]

TypeOK ==
  /\ account \in [Customers -> [open : BOOLEAN, balance : Int]]
  /\ entries \in [Customers -> [CREDIT : Nat, DEBIT : Nat, ADJUSTMENT : Nat]]
  /\ adjusting \in [Clerks -> Adjustings]
  /\ card \in [Cards -> [ status : {"NONE", "ACTIVE", "DEPLETED"}, initial : Nat,
                          balance : Int, expired : BOOLEAN, CREDIT : Nat, DEBIT : Nat ]]
  /\ program \in Programs
  /\ loyalty \in [Customers -> [ points : Int, lifetime : Nat,
                                 earned : Nat, redeemed : Nat, refunded : Nat ]]
  /\ lowered \in [Customers -> Nat]
  /\ raced \subseteq Customers

Init ==
  /\ account = [c \in Customers |-> NoAccount]
  /\ entries = [c \in Customers |-> NoEntries]
  /\ adjusting = [a \in Clerks |-> Idle]
  /\ card = [g \in Cards |-> NoCard]
  /\ program \in Programs
  /\ loyalty = [c \in Customers |-> NoPoints]
  /\ lowered = [c \in Customers |-> 0]
  /\ raced = {}

------------------------------------------------------------------------------

\* Mutant: the balance after the adjustment is not checked.
MayAdjust_Unchecked(c, amount) == TRUE

\* The check of an adjustment, on the balance it reads: 0 without an account.
MayAdjust(c, amount) == account[c].balance + amount >= 0

\* POST /v1/customers/:id/store-credit, up to the check ...
ReadForAdjustment(a, c, amount) ==
  /\ ~adjusting[a].busy
  /\ MayAdjust(c, amount)
  /\ adjusting' = [adjusting EXCEPT ![a] =
       [busy |-> TRUE, customer |-> c, amount |-> amount,
        found |-> account[c].open, read |-> account[c].balance]]
  /\ UNCHANGED << account, entries, card, program, loyalty, lowered, raced >>

\* Mutant: the new balance is computed from the one that was read.
Adjusted_Absolute(c, adjustment) == adjustment.read + adjustment.amount

\* The new balance: an increment in the database.
Adjusted(c, adjustment) == account[c].balance + adjustment.amount

\* Mutant: the entry keeps the sign of the adjustment.
EntryAmount_Signed(amount) == amount

\* The entry records the size of the adjustment, not its direction.
EntryAmount(amount) == IF amount < 0 THEN -amount ELSE amount

\* ... and its writes.  An account that was not found is created: if somebody else did
\* so in between, the adjustment fails.
WriteAdjustment(a) ==
  LET adjustment == adjusting[a]
      c == adjustment.customer
      amount == adjustment.amount
  IN
  /\ adjustment.busy
  /\ adjustment.found \/ ~account[c].open
  /\ entries[c].CREDIT + entries[c].ADJUSTMENT + amount <= MaxIn
  /\ account' = [account EXCEPT ![c] = [open |-> TRUE, balance |-> Adjusted(c, adjustment)]]
  /\ entries' = [entries EXCEPT ![c].ADJUSTMENT = @ + EntryAmount(amount)]
  /\ lowered' = [lowered EXCEPT ![c] = IF amount < 0 THEN @ - amount ELSE @]
  /\ raced' = IF amount < 0 /\ account[c].balance < adjustment.read
              THEN raced \cup {c} ELSE raced
  /\ adjusting' = [adjusting EXCEPT ![a] = Idle]
  /\ UNCHANGED << card, program, loyalty >>

\* The account was created in between, or the process or the connection went away.
FailAdjustment(a) ==
  /\ adjusting[a].busy
  /\ adjusting' = [adjusting EXCEPT ![a] = Idle]
  /\ UNCHANGED << account, entries, card, program, loyalty, lowered, raced >>

------------------------------------------------------------------------------

\* earnLoyalty, for a completed sale of that total (0: no sale, an order's payment).
AfterEarning(l, total) ==
  LET points == IF program.active THEN total \div program.per ELSE 0 IN
  [l EXCEPT !.points = @ + points, !.lifetime = @ + points, !.earned = @ + points]

Earn(c, total) ==
  /\ loyalty[c].earned + loyalty[c].refunded + total <= MaxIn
  /\ loyalty' = [loyalty EXCEPT ![c] = AfterEarning(@, total)]

\* POST /v1/sales and POST /v1/orders/:id/payments, by store credit ...
PayByCredit(c, amount, total) ==
  /\ account[c].open /\ account[c].balance >= amount
  /\ account' = [account EXCEPT ![c].balance = @ - amount]
  /\ entries' = [entries EXCEPT ![c].DEBIT = @ + amount]
  /\ Earn(c, total)
  /\ UNCHANGED << adjusting, card, program, lowered, raced >>

\* Mutant: a card that is used up stays active.
StatusAfter_Active(balance) == "ACTIVE"

StatusAfter(balance) == IF balance = 0 THEN "DEPLETED" ELSE "ACTIVE"

\* A card can be used once its code has been told, after its first entry.
IsTold(g) == card[g].CREDIT > 0

\* ... by gift card ...
PayByCard(g, c, amount, total) ==
  /\ IsTold(g)
  /\ card[g].status = "ACTIVE" /\ ~card[g].expired /\ card[g].balance >= amount
  /\ card' = [card EXCEPT ![g].balance = @ - amount, ![g].DEBIT = @ + amount,
                          ![g].status = StatusAfter(card[g].balance - amount)]
  /\ Earn(c, total)
  /\ UNCHANGED << account, entries, adjusting, program, lowered, raced >>

\* What an amount is in points, rounded up.
PointsFor(amount) == (amount + program.value - 1) \div program.value

\* redeemLoyalty, for a tender of that many points.
AfterRedeeming(l, points) == [l EXCEPT !.points = @ - points, !.redeemed = @ + points]

\* ... by loyalty points, before the points of the sale itself are added ...
PayByPoints(c, amount, total) ==
  LET points == PointsFor(amount) IN
  /\ program.active
  /\ points >= program.minimum /\ loyalty[c].points >= points
  /\ loyalty[c].earned + loyalty[c].refunded + total <= MaxIn
  /\ loyalty' = [loyalty EXCEPT ![c] = AfterEarning(AfterRedeeming(@, points), total)]
  /\ UNCHANGED << account, entries, adjusting, card, program, lowered, raced >>

\* ... or otherwise.
PayOtherwise(c, total) ==
  /\ Earn(c, total)
  /\ UNCHANGED << account, entries, adjusting, card, program, lowered, raced >>

\* POST /v1/sales/:id/returns, to store credit ...
RefundToCredit(c, amount) ==
  /\ entries[c].CREDIT + entries[c].ADJUSTMENT + amount <= MaxIn
  /\ account' = [account EXCEPT ![c] = [open |-> TRUE, balance |-> @.balance + amount]]
  /\ entries' = [entries EXCEPT ![c].CREDIT = @ + amount]
  /\ UNCHANGED << adjusting, card, program, loyalty, lowered, raced >>

\* ... to a gift card, expired or not, which becomes active again ...
RefundToCard(g, amount) ==
  /\ IsTold(g)
  /\ card[g].CREDIT + amount <= MaxIn
  /\ card' = [card EXCEPT ![g].balance = @ + amount, ![g].CREDIT = @ + amount,
                          ![g].status = "ACTIVE"]
  /\ UNCHANGED << account, entries, adjusting, program, loyalty, lowered, raced >>

\* ... or to points.
RefundToPoints(c, amount) ==
  LET points == PointsFor(amount) IN
  /\ program.active
  /\ loyalty[c].earned + loyalty[c].refunded + points <= MaxIn
  /\ loyalty' = [loyalty EXCEPT ![c].points = @ + points, ![c].refunded = @ + points]
  /\ UNCHANGED << account, entries, adjusting, card, program, lowered, raced >>

------------------------------------------------------------------------------

\* POST /v1/gift-cards, its first write ...
IssueCard(g, amount) ==
  /\ card[g].status = "NONE" /\ amount <= MaxIn
  /\ card' = [card EXCEPT ![g] =
       [status |-> "ACTIVE", initial |-> amount, balance |-> amount, expired |-> FALSE,
        CREDIT |-> 0, DEBIT |-> 0]]
  /\ UNCHANGED << account, entries, adjusting, program, loyalty, lowered, raced >>

\* ... and its second, which never comes if the process stops in between.
RecordIssue(g) ==
  /\ card[g].status # "NONE" /\ ~IsTold(g)
  /\ card' = [card EXCEPT ![g].CREDIT = card[g].initial]
  /\ UNCHANGED << account, entries, adjusting, program, loyalty, lowered, raced >>

\* The date of a card passes.  Its status stays what it is.
ExpireCard(g) ==
  /\ card[g].status # "NONE" /\ ~card[g].expired
  /\ card' = [card EXCEPT ![g].expired = TRUE]
  /\ UNCHANGED << account, entries, adjusting, program, loyalty, lowered, raced >>

\* PUT /v1/loyalty/program.
SetProgram(p) ==
  /\ program' = p
  /\ UNCHANGED << account, entries, adjusting, card, loyalty, lowered, raced >>

Adjustments == Amounts \cup { -amount : amount \in Amounts }

AdjustmentStep(a) ==
  \/ \E c \in Customers, amount \in Adjustments : ReadForAdjustment(a, c, amount)
  \/ WriteAdjustment(a)
  \/ FailAdjustment(a)

\* Payments of at most the total of their sale, or of an order.
PaymentStep(c) ==
  \E amount \in Amounts, total \in Amounts \cup {0} :
    /\ total = 0 \/ amount <= total
    /\ \/ PayByCredit(c, amount, total)
       \/ \E g \in Cards : PayByCard(g, c, amount, total)
       \/ PayByPoints(c, amount, total)
       \/ PayOtherwise(c, total)

RefundStep ==
  \E amount \in Amounts :
    \/ \E c \in Customers : RefundToCredit(c, amount) \/ RefundToPoints(c, amount)
    \/ \E g \in Cards : RefundToCard(g, amount)

CardStep(g) == (\E amount \in Amounts : IssueCard(g, amount)) \/ RecordIssue(g) \/ ExpireCard(g)

Next ==
  \/ \E a \in Clerks : AdjustmentStep(a)
  \/ \E c \in Customers : PaymentStep(c)
  \/ RefundStep
  \/ \E g \in Cards : CardStep(g)
  \/ \E p \in Programs : SetProgram(p)

Spec == Init /\ [][Next]_vars

------------------------------------------------------------------------------

\* Every account can be told from its journal, whatever ran at the same time: store
\* credit if one knows which adjustments were downwards, a gift card unless its first
\* entry is missing, and points.
JournalTellsBalance ==
  /\ \A c \in Customers :
       /\ account[c].balance =
            entries[c].CREDIT - entries[c].DEBIT + entries[c].ADJUSTMENT - 2 * lowered[c]
       /\ loyalty[c].points = loyalty[c].earned - loyalty[c].redeemed + loyalty[c].refunded
       /\ loyalty[c].lifetime = loyalty[c].earned
  /\ \A g \in Cards :
       card[g].balance = IF IsTold(g) THEN card[g].CREDIT - card[g].DEBIT ELSE card[g].initial

\* No account is overdrawn by any mix of sales, payments, refunds and adjustments,
\* unless an adjustment took store credit away that was spent since it had looked.  A
\* card is used up exactly when there is nothing on it.
NothingIsOverdrawn ==
  /\ \A c \in Customers : account[c].balance >= 0 \/ c \in raced
  /\ \A c \in Customers : loyalty[c].points >= 0
  /\ \A g \in Cards : card[g].balance >= 0 /\ (card[g].status = "DEPLETED" => card[g].balance = 0)
  /\ \A g \in Cards : card[g].status = "ACTIVE" => card[g].balance > 0
==============================================================================
