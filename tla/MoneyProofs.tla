----------------------------- MODULE MoneyProofs ------------------------------
(***************************************************************************)
(* Theorems about money: StoredValue, for every set of customers, cards,    *)
(* clerks, amounts and loyalty programmes, and Tills, for every set of      *)
(* registers, sessions and sales.                                           *)
(*                                                                         *)
(* Stored value: the three kinds of account do not meet, so ValueInv is a   *)
(* conjunction of three invariants, and a step has to be looked at for the  *)
(* kinds it changes only.  For cards and points they are the journals and   *)
(* the checks.  For store credit the adjustments in flight belong to it:    *)
(* what they take was there when they read it (ReadsAreCovered), so that    *)
(* only a balance that fell in between can be overdrawn.                    *)
(*                                                                         *)
(* Tills: the three sums of the expected cash are one sum over the sales    *)
(* (ExpectedIs), and so is what is in a drawer (DrawersHold).  A step       *)
(* changes one sale, so both sums change by what it adds (CountedChange,    *)
(* DrawerChange).  SaleOK ties the session a sale is booked to to the       *)
(* drawer its money went into; with it the two sums of a session that the   *)
(* tills kept tidy are equal sale by sale (TidySale).                       *)
(***************************************************************************)
EXTENDS StoredValue, Tills, FiniteFacts, SequenceTheorems


\* What an adjustment in flight takes was in the account when it was read.
ReadsAreCovered ==
  \A a \in Clerks : adjusting[a].busy => adjusting[a].read + adjusting[a].amount >= 0

\* Credit accounts and the sums of their entries.
Accounts == [open : BOOLEAN, balance : Int]
EntrySums == [CREDIT : Nat, DEBIT : Nat, ADJUSTMENT : Nat]

\* Store credit: an account's balance is what its entries come to, and reads are covered.
CreditInv ==
  /\ account \in [Customers -> Accounts] /\ entries \in [Customers -> EntrySums]
  /\ adjusting \in [Clerks -> Adjustings]
  /\ lowered \in [Customers -> Nat] /\ raced \subseteq Customers
  /\ \A c \in Customers :
       account[c].balance =
         entries[c].CREDIT - entries[c].DEBIT + entries[c].ADJUSTMENT - 2 * lowered[c]
  /\ \A c \in Customers : account[c].balance >= 0 \/ c \in raced
  /\ ReadsAreCovered

\* Gift cards.
CardRows == [ status : {"NONE", "ACTIVE", "DEPLETED"}, initial : Nat,
              balance : Int, expired : BOOLEAN, CREDIT : Nat, DEBIT : Nat ]

\* A card is what its journal says, or what it was issued with; its status tells
\* whether there is anything on it.
IsWhole(row) ==
  /\ row.balance = IF row.CREDIT > 0 THEN row.CREDIT - row.DEBIT ELSE row.initial
  /\ row.CREDIT = 0 => row.DEBIT = 0
  /\ row.balance >= 0
  /\ row.status = "NONE" => row.CREDIT = 0 /\ row.balance = 0
  /\ row.status = "ACTIVE" => row.balance > 0
  /\ row.status = "DEPLETED" => row.CREDIT > 0 /\ row.balance = 0

\* Every card is whole.
CardInv == card \in [Cards -> CardRows] /\ \A g \in Cards : IsWhole(card[g])

\* Loyalty accounts.
PointRows == [ points : Int, lifetime : Nat, earned : Nat, redeemed : Nat, refunded : Nat ]

\* An account's points are what its entries come to.
AreTold(row) ==
  /\ row.points = row.earned - row.redeemed + row.refunded
  /\ row.lifetime = row.earned
  /\ row.points >= 0

\* It holds of every customer.
LoyaltyInv ==
  /\ program \in Programs
  /\ loyalty \in [Customers -> PointRows]
  /\ \A c \in Customers : AreTold(loyalty[c])

\* The inductive invariant.
ValueInv == CreditInv /\ CardInv /\ LoyaltyInv

------------------------------------------------------------------------------

\* At first there is no value.
LEMMA InitValue == Init => ValueInv
<1> SUFFICES ASSUME Init PROVE ValueInv
  OBVIOUS
<1>1. CreditInv
  <2>1. Idle \in Adjustings /\ ~Idle.busy
    BY CustomersAssumption DEF Idle, Adjustings
  <2>2. adjusting = [a \in Clerks |-> Idle]
    BY DEF Init
  <2>3. adjusting \in [Clerks -> Adjustings] /\ ReadsAreCovered
    BY <2>1, <2>2 DEF ReadsAreCovered
  <2> QED BY <2>3 DEF Init, CreditInv, Accounts, EntrySums, NoAccount, NoEntries
<1>2. CardInv
  BY DEF Init, CardInv, CardRows, IsWhole, NoCard
<1>3. LoyaltyInv
  BY DEF Init, LoyaltyInv, PointRows, AreTold, NoPoints
<1> QED BY <1>1, <1>2, <1>3 DEF ValueInv

\* What a step that leaves credit alone keeps.
LEMMA CreditUntouched ==
  ASSUME CreditInv, UNCHANGED << account, entries, adjusting, lowered, raced >>
  PROVE  CreditInv'
BY DEF CreditInv, ReadsAreCovered

\* What a step that leaves cards alone keeps.
LEMMA CardUntouched ==
  ASSUME CardInv, UNCHANGED card
  PROVE  CardInv'
BY DEF CardInv

\* What a step that leaves points alone keeps.
LEMMA LoyaltyUntouched ==
  ASSUME LoyaltyInv, UNCHANGED << program, loyalty >>
  PROVE  LoyaltyInv'
BY DEF LoyaltyInv

\* A deposit into, or a checked payment from, the store credit of one customer.
LEMMA CreditMoves ==
  ASSUME CreditInv, NEW c \in Customers, NEW in \in Nat, NEW out \in Nat,
         out = 0 \/ account[c].balance >= out,
         account' \in [Customers -> Accounts],
         entries' \in [Customers -> EntrySums],
         \A d \in Customers : d # c => account'[d] = account[d] /\ entries'[d] = entries[d],
         account'[c].balance = account[c].balance + in - out,
         entries'[c].CREDIT = entries[c].CREDIT + in,
         entries'[c].DEBIT = entries[c].DEBIT + out,
         entries'[c].ADJUSTMENT = entries[c].ADJUSTMENT,
         UNCHANGED << adjusting, lowered, raced >>
  PROVE  CreditInv'
<1>1. ASSUME NEW d \in Customers
      PROVE  /\ account'[d].balance =
                  entries'[d].CREDIT - entries'[d].DEBIT + entries'[d].ADJUSTMENT - 2 * lowered[d]
             /\ account'[d].balance >= 0 \/ d \in raced
  <2>1. /\ account[d] \in Accounts /\ entries[d] \in EntrySums /\ lowered[d] \in Nat
        /\ account[d].balance =
             entries[d].CREDIT - entries[d].DEBIT + entries[d].ADJUSTMENT - 2 * lowered[d]
        /\ account[d].balance >= 0 \/ d \in raced
    BY DEF CreditInv
  <2>2. CASE d = c
    BY <2>1, <2>2 DEF Accounts, EntrySums
  <2>3. CASE d # c
    BY <2>1, <2>3
  <2> QED BY <2>2, <2>3
<1>2. ReadsAreCovered'
  BY DEF CreditInv, ReadsAreCovered
<1> QED BY <1>1, <1>2 DEF CreditInv

\* An adjustment's read moves no money.
LEMMA AdjustmentReads ==
  ASSUME CreditInv, NEW a \in Clerks, NEW c \in Customers, NEW amount \in Int,
         ReadForAdjustment(a, c, amount)
  PROVE  CreditInv'
<1> DEFINE new == [busy |-> TRUE, customer |-> c, amount |-> amount,
                   found |-> account[c].open, read |-> account[c].balance]
<1>1. account[c] \in Accounts
  BY DEF CreditInv
<1>2. new \in Adjustings /\ new.read + new.amount >= 0
  BY <1>1 DEF Accounts, Adjustings, ReadForAdjustment, MayAdjust
<1>3. adjusting' = [adjusting EXCEPT ![a] = new]
  BY DEF ReadForAdjustment
<1>4. adjusting' \in [Clerks -> Adjustings] /\ ReadsAreCovered'
  <2> HIDE DEF new
  <2> QED BY <1>2, <1>3 DEF CreditInv, ReadsAreCovered
<1> QED BY <1>4 DEF CreditInv, ReadForAdjustment

\* Its write changes balance and entries alike.
LEMMA AdjustmentWrites ==
  ASSUME CreditInv, NEW a \in Clerks, WriteAdjustment(a)
  PROVE  CreditInv'
<1> DEFINE adjustment == adjusting[a]
           c == adjustment.customer
           amount == adjustment.amount
<1>1. /\ adjustment \in Adjustings /\ adjustment.busy
      /\ c \in Customers /\ amount \in Int
      /\ adjustment.read \in Int /\ adjustment.read + amount >= 0
  BY DEF CreditInv, WriteAdjustment, ReadsAreCovered, Adjustings
<1>2. /\ account[c] \in Accounts /\ entries[c] \in EntrySums /\ lowered[c] \in Nat
      /\ account[c].balance =
           entries[c].CREDIT - entries[c].DEBIT + entries[c].ADJUSTMENT - 2 * lowered[c]
      /\ account[c].balance >= 0 \/ c \in raced
  BY <1>1 DEF CreditInv
<1>3. /\ account' = [account EXCEPT ![c] =
                       [open |-> TRUE, balance |-> account[c].balance + amount]]
      /\ entries' = [entries EXCEPT ![c].ADJUSTMENT = @ + EntryAmount(amount)]
      /\ lowered' = [lowered EXCEPT ![c] = IF amount < 0 THEN @ - amount ELSE @]
      /\ raced' = IF amount < 0 /\ account[c].balance < adjustment.read
                  THEN raced \cup {c} ELSE raced
      /\ adjusting' = [adjusting EXCEPT ![a] = Idle]
  BY DEF WriteAdjustment, Adjusted
<1>4. EntryAmount(amount) \in Nat
      /\ EntryAmount(amount) - 2 * (IF amount < 0 THEN -amount ELSE 0) = amount
  BY <1>1 DEF EntryAmount
<1> HIDE DEF amount, c, adjustment
<1>5. /\ account'[c] = [open |-> TRUE, balance |-> account[c].balance + amount]
      /\ entries'[c] = [entries[c] EXCEPT !.ADJUSTMENT = @ + EntryAmount(amount)]
      /\ lowered'[c] = IF amount < 0 THEN lowered[c] - amount ELSE lowered[c]
  BY <1>1, <1>3 DEF CreditInv
<1>6. /\ account'[c] \in Accounts /\ entries'[c] \in EntrySums /\ lowered'[c] \in Nat
      /\ account'[c].balance =
           entries'[c].CREDIT - entries'[c].DEBIT + entries'[c].ADJUSTMENT - 2 * lowered'[c]
  BY <1>1, <1>2, <1>4, <1>5 DEF Accounts, EntrySums
<1>7. account'[c].balance >= 0 \/ c \in raced'
  BY <1>1, <1>2, <1>3, <1>5 DEF Accounts
<1>8. ASSUME NEW d \in Customers, d # c
      PROVE  account'[d] = account[d] /\ entries'[d] = entries[d] /\ lowered'[d] = lowered[d]
  BY <1>3, <1>8 DEF CreditInv
<1>9. /\ account' \in [Customers -> Accounts] /\ entries' \in [Customers -> EntrySums]
      /\ lowered' \in [Customers -> Nat] /\ raced' \subseteq Customers
  BY <1>1, <1>3, <1>6, <1>5 DEF CreditInv
<1>10. adjusting' \in [Clerks -> Adjustings] /\ ReadsAreCovered'
  <2>1. Idle \in Adjustings /\ ~Idle.busy
    BY CustomersAssumption DEF Idle, Adjustings
  <2> QED BY <1>3, <2>1 DEF CreditInv, ReadsAreCovered
<1>11. ASSUME NEW d \in Customers
       PROVE  /\ account'[d].balance =
                   entries'[d].CREDIT - entries'[d].DEBIT + entries'[d].ADJUSTMENT - 2 * lowered'[d]
              /\ account'[d].balance >= 0 \/ d \in raced'
  BY <1>3, <1>6, <1>7, <1>8 DEF CreditInv
<1> QED BY <1>9, <1>10, <1>11 DEF CreditInv

\* A failed adjustment changes nothing.
LEMMA AdjustmentFails ==
  ASSUME CreditInv, NEW a \in Clerks, FailAdjustment(a)
  PROVE  CreditInv'
<1>1. Idle \in Adjustings /\ ~Idle.busy
  BY CustomersAssumption DEF Idle, Adjustings
<1>2. adjusting' \in [Clerks -> Adjustings] /\ ReadsAreCovered'
  BY <1>1 DEF CreditInv, ReadsAreCovered, FailAdjustment
<1> QED BY <1>2 DEF CreditInv, FailAdjustment

------------------------------------------------------------------------------

\* One card changes, to a whole card.
LEMMA CardChanges ==
  ASSUME CardInv, NEW g \in Cards, NEW row \in CardRows, IsWhole(row),
         card' = [card EXCEPT ![g] = row]
  PROVE  CardInv'
BY DEF CardInv

\* Points come in for a sale; an order's payment earns none.
LEMMA EarningIsTold ==
  ASSUME program \in Programs, NEW row \in PointRows, AreTold(row), NEW total \in Nat
  PROVE  AfterEarning(row, total) \in PointRows /\ AreTold(AfterEarning(row, total))
<1>1. program.per \in Nat \ {0}
  BY ProgramsAssumption
<1>2. total \div program.per \in Nat
  BY <1>1
<1> DEFINE points == IF program.active THEN total \div program.per ELSE 0
<1>3. points \in Nat
  BY <1>2
<1>4. AfterEarning(row, total) =
        [row EXCEPT !.points = @ + points, !.lifetime = @ + points, !.earned = @ + points]
  BY DEF AfterEarning
<1> HIDE DEF points
<1>5. /\ row.points \in Int /\ row.lifetime \in Nat /\ row.earned \in Nat
      /\ row.points = row.earned - row.redeemed + row.refunded
      /\ row.lifetime = row.earned /\ row.points >= 0
      /\ row.redeemed \in Nat /\ row.refunded \in Nat
  BY DEF PointRows, AreTold
<1> DEFINE new == [points |-> row.points + points, lifetime |-> row.lifetime + points,
                   earned |-> row.earned + points, redeemed |-> row.redeemed,
                   refunded |-> row.refunded]
<1>6. AfterEarning(row, total) = new
  BY <1>4 DEF PointRows
<1>7. new \in PointRows
  BY <1>3, <1>5 DEF PointRows
<1>8. AreTold(new)
  BY <1>3, <1>5 DEF AreTold
<1> QED BY <1>6, <1>7, <1>8

\* Earned points are told.
LEMMA EarningKeeps ==
  ASSUME LoyaltyInv, NEW c \in Customers, NEW total \in Nat, Earn(c, total), UNCHANGED program
  PROVE  LoyaltyInv'
<1>1. loyalty' = [loyalty EXCEPT ![c] = AfterEarning(loyalty[c], total)]
  BY DEF Earn
<1>2. AfterEarning(loyalty[c], total) \in PointRows /\ AreTold(AfterEarning(loyalty[c], total))
  BY EarningIsTold DEF LoyaltyInv
<1> QED BY <1>1, <1>2 DEF LoyaltyInv

\* A redemption's points are a number.
LEMMA PointsAreNatural ==
  ASSUME program \in Programs, NEW amount \in Nat
  PROVE  PointsFor(amount) \in Nat
<1>1. program.value \in Nat \ {0}
  BY ProgramsAssumption
<1>2. amount + program.value - 1 \in Nat
  BY <1>1
<1> QED BY <1>1, <1>2 DEF PointsFor

------------------------------------------------------------------------------

\* Paying by credit.
LEMMA CreditPayment ==
  ASSUME ValueInv, NEW c \in Customers, NEW amount \in Nat, NEW total \in Nat,
         PayByCredit(c, amount, total)
  PROVE  ValueInv'
<1>1. CreditInv'
  <2>1. account[c] \in Accounts /\ entries[c] \in EntrySums
    BY DEF ValueInv, CreditInv
  <2>2. /\ account' = [account EXCEPT ![c].balance = @ - amount]
        /\ entries' = [entries EXCEPT ![c].DEBIT = @ + amount]
        /\ account[c].balance >= amount
        /\ UNCHANGED << adjusting, lowered, raced >>
    BY DEF PayByCredit
  <2>3. /\ account'[c] = [account[c] EXCEPT !.balance = @ - amount]
        /\ entries'[c] = [entries[c] EXCEPT !.DEBIT = @ + amount]
        /\ \A d \in Customers : d # c => account'[d] = account[d] /\ entries'[d] = entries[d]
    BY <2>2 DEF ValueInv, CreditInv
  <2>4. account'[c] \in Accounts /\ entries'[c] \in EntrySums
    BY <2>1, <2>3 DEF Accounts, EntrySums
  <2>5. account' \in [Customers -> Accounts] /\ entries' \in [Customers -> EntrySums]
    BY <2>2, <2>3, <2>4 DEF ValueInv, CreditInv
  <2>6. /\ account'[c].balance = account[c].balance + 0 - amount
        /\ entries'[c].CREDIT = entries[c].CREDIT + 0
        /\ entries'[c].DEBIT = entries[c].DEBIT + amount
        /\ entries'[c].ADJUSTMENT = entries[c].ADJUSTMENT
    BY <2>1, <2>3 DEF Accounts, EntrySums
  <2> QED BY <2>2, <2>3, <2>5, <2>6, CreditMoves DEF ValueInv
<1>2. CardInv'
  BY CardUntouched DEF ValueInv, PayByCredit
<1>3. LoyaltyInv'
  BY EarningKeeps DEF ValueInv, PayByCredit
<1> QED BY <1>1, <1>2, <1>3 DEF ValueInv

\* Paying by gift card.
LEMMA CardPayment ==
  ASSUME ValueInv, NEW g \in Cards, NEW c \in Customers, NEW amount \in Nat, NEW total \in Nat,
         PayByCard(g, c, amount, total)
  PROVE  ValueInv'
<1>1. CardInv'
  <2> DEFINE row == [card[g] EXCEPT !.balance = @ - amount, !.DEBIT = @ + amount,
                                    !.status = StatusAfter(card[g].balance - amount)]
  <2>1. card[g] \in CardRows /\ IsWhole(card[g])
    BY DEF ValueInv, CardInv
  <2>2. card[g].CREDIT > 0 /\ card[g].balance >= amount
    BY DEF PayByCard, IsTold
  <2>3. /\ card[g].balance \in Int /\ card[g].CREDIT \in Nat /\ card[g].DEBIT \in Nat
        /\ card[g].balance = card[g].CREDIT - card[g].DEBIT
    BY <2>1, <2>2 DEF CardRows, IsWhole
  <2>4. StatusAfter(card[g].balance - amount) =
          IF card[g].balance = amount THEN "DEPLETED" ELSE "ACTIVE"
    BY <2>3 DEF StatusAfter
  <2>5. /\ row.status = IF card[g].balance = amount THEN "DEPLETED" ELSE "ACTIVE"
        /\ row.balance = card[g].balance - amount
        /\ row.CREDIT = card[g].CREDIT
        /\ row.DEBIT = card[g].DEBIT + amount
    BY <2>1, <2>4 DEF CardRows
  <2>6. row \in CardRows
    <3>1. /\ DOMAIN row = {"status", "initial", "balance", "expired", "CREDIT", "DEBIT"}
          /\ row = [x \in DOMAIN row |-> row[x]]
          /\ row.initial = card[g].initial /\ row.expired = card[g].expired
      BY <2>1 DEF CardRows
    <3>2. row.status \in {"NONE", "ACTIVE", "DEPLETED"}
      BY <2>5
    <3>3. row.balance \in Int /\ row.CREDIT \in Nat /\ row.DEBIT \in Nat
      BY <2>3, <2>5
    <3>4. card[g].initial \in Nat /\ card[g].expired \in BOOLEAN
      BY <2>1 DEF CardRows
    <3> HIDE DEF row
    <3> QED BY <3>1, <3>2, <3>3, <3>4 DEF CardRows
  <2>7. card' = [card EXCEPT ![g] = row]
    BY <2>1 DEF PayByCard, ValueInv, CardInv, CardRows
  <2> HIDE DEF row
  <2>8. IsWhole(row)
    BY <2>2, <2>3, <2>5 DEF IsWhole
  <2> QED BY <2>6, <2>7, <2>8, CardChanges DEF ValueInv
<1>2. CreditInv'
  BY CreditUntouched DEF ValueInv, PayByCard
<1>3. LoyaltyInv'
  BY EarningKeeps DEF ValueInv, PayByCard
<1> QED BY <1>1, <1>2, <1>3 DEF ValueInv

\* Redeemed points are told.
LEMMA RedeemingIsTold ==
  ASSUME NEW row \in PointRows, AreTold(row), NEW points \in Nat, row.points >= points
  PROVE  AfterRedeeming(row, points) \in PointRows /\ AreTold(AfterRedeeming(row, points))
<1> DEFINE new == [points |-> row.points - points, lifetime |-> row.lifetime,
                   earned |-> row.earned, redeemed |-> row.redeemed + points,
                   refunded |-> row.refunded]
<1>1. /\ row.points \in Int /\ row.lifetime \in Nat /\ row.earned \in Nat
      /\ row.redeemed \in Nat /\ row.refunded \in Nat
      /\ row.points = row.earned - row.redeemed + row.refunded
      /\ row.lifetime = row.earned
  BY DEF PointRows, AreTold
<1>2. AfterRedeeming(row, points) = new
  <2> DEFINE after == AfterRedeeming(row, points)
  <2>1. /\ DOMAIN after = {"points", "lifetime", "earned", "redeemed", "refunded"}
        /\ after = [x \in DOMAIN after |-> after[x]]
    BY DEF AfterRedeeming, PointRows
  <2>2. /\ DOMAIN new = {"points", "lifetime", "earned", "redeemed", "refunded"}
        /\ new = [x \in DOMAIN new |-> new[x]]
    OBVIOUS
  <2>3. /\ after.points = new.points /\ after.lifetime = new.lifetime
        /\ after.earned = new.earned /\ after.redeemed = new.redeemed
        /\ after.refunded = new.refunded
    BY DEF AfterRedeeming, PointRows
  <2> QED BY <2>1, <2>2, <2>3
<1>3. new \in PointRows
  BY <1>1 DEF PointRows
<1>4. AreTold(new)
  BY <1>1 DEF AreTold
<1> QED BY <1>2, <1>3, <1>4

\* Paying by points.
LEMMA PointsPayment ==
  ASSUME ValueInv, NEW c \in Customers, NEW amount \in Nat, NEW total \in Nat,
         PayByPoints(c, amount, total)
  PROVE  ValueInv'
<1> DEFINE row == AfterRedeeming(loyalty[c], PointsFor(amount))
<1>1. loyalty[c] \in PointRows /\ AreTold(loyalty[c]) /\ program \in Programs
  BY DEF ValueInv, LoyaltyInv
<1>2. PointsFor(amount) \in Nat /\ loyalty[c].points >= PointsFor(amount)
  BY <1>1, PointsAreNatural DEF PayByPoints
<1>3. loyalty' = [loyalty EXCEPT ![c] = AfterEarning(row, total)]
  BY DEF PayByPoints
<1>4. row \in PointRows /\ AreTold(row)
  BY <1>1, <1>2, RedeemingIsTold
<1> HIDE DEF row
<1>5. AfterEarning(row, total) \in PointRows /\ AreTold(AfterEarning(row, total))
  BY <1>1, <1>4, EarningIsTold
<1>6. LoyaltyInv'
  BY <1>3, <1>5 DEF ValueInv, LoyaltyInv, PayByPoints
<1>7. CreditInv' /\ CardInv'
  BY CreditUntouched, CardUntouched DEF ValueInv, PayByPoints
<1> QED BY <1>6, <1>7 DEF ValueInv

\* Paying otherwise.
LEMMA OtherPayment ==
  ASSUME ValueInv, NEW c \in Customers, NEW total \in Nat, PayOtherwise(c, total)
  PROVE  ValueInv'
<1>1. LoyaltyInv'
  BY EarningKeeps DEF ValueInv, PayOtherwise
<1>2. CreditInv' /\ CardInv'
  BY CreditUntouched, CardUntouched DEF ValueInv, PayOtherwise
<1> QED BY <1>1, <1>2 DEF ValueInv

\* A refund to credit.
LEMMA CreditRefund ==
  ASSUME ValueInv, NEW c \in Customers, NEW amount \in Nat, RefundToCredit(c, amount)
  PROVE  ValueInv'
<1>1. CreditInv'
  <2>1. account[c] \in Accounts /\ entries[c] \in EntrySums
    BY DEF ValueInv, CreditInv
  <2>2. /\ account' = [account EXCEPT ![c] = [open |-> TRUE, balance |-> account[c].balance + amount]]
        /\ entries' = [entries EXCEPT ![c].CREDIT = @ + amount]
        /\ UNCHANGED << adjusting, lowered, raced >>
    BY DEF RefundToCredit
  <2>3. /\ account'[c] = [open |-> TRUE, balance |-> account[c].balance + amount]
        /\ entries'[c] = [entries[c] EXCEPT !.CREDIT = @ + amount]
        /\ \A d \in Customers : d # c => account'[d] = account[d] /\ entries'[d] = entries[d]
    BY <2>2 DEF ValueInv, CreditInv
  <2>4. account'[c] \in Accounts /\ entries'[c] \in EntrySums
    BY <2>1, <2>3 DEF Accounts, EntrySums
  <2>5. account' \in [Customers -> Accounts] /\ entries' \in [Customers -> EntrySums]
    BY <2>2, <2>3, <2>4 DEF ValueInv, CreditInv
  <2>6. /\ account'[c].balance = account[c].balance + amount - 0
        /\ entries'[c].CREDIT = entries[c].CREDIT + amount
        /\ entries'[c].DEBIT = entries[c].DEBIT + 0
        /\ entries'[c].ADJUSTMENT = entries[c].ADJUSTMENT
    BY <2>1, <2>3 DEF Accounts, EntrySums
  <2>7. CreditInv
    BY DEF ValueInv
  <2> QED BY <2>2, <2>3, <2>5, <2>6, <2>7, CreditMoves
<1>2. CardInv' /\ LoyaltyInv'
  BY CardUntouched, LoyaltyUntouched DEF ValueInv, RefundToCredit
<1> QED BY <1>1, <1>2 DEF ValueInv

\* A refund to a gift card.
LEMMA CardRefund ==
  ASSUME ValueInv, NEW g \in Cards, NEW amount \in Nat \ {0}, RefundToCard(g, amount)
  PROVE  ValueInv'
<1>1. CardInv'
  <2> DEFINE row == [status |-> "ACTIVE", initial |-> card[g].initial,
                     balance |-> card[g].balance + amount, expired |-> card[g].expired,
                     CREDIT |-> card[g].CREDIT + amount, DEBIT |-> card[g].DEBIT]
  <2>1. card[g] \in CardRows /\ IsWhole(card[g]) /\ card[g].CREDIT > 0
    BY DEF ValueInv, CardInv, RefundToCard, IsTold
  <2>2. row \in CardRows
    BY <2>1 DEF CardRows
  <2>3. IsWhole(row)
    BY <2>1 DEF CardRows, IsWhole
  <2>4. card' = [card EXCEPT ![g] = row]
    BY <2>1 DEF RefundToCard, ValueInv, CardInv, CardRows
  <2> QED BY <2>2, <2>3, <2>4, CardChanges DEF ValueInv
<1>2. CreditInv' /\ LoyaltyInv'
  BY CreditUntouched, LoyaltyUntouched DEF ValueInv, RefundToCard
<1> QED BY <1>1, <1>2 DEF ValueInv

\* A refund of points.
LEMMA PointsRefund ==
  ASSUME ValueInv, NEW c \in Customers, NEW amount \in Nat, RefundToPoints(c, amount)
  PROVE  ValueInv'
<1> DEFINE points == PointsFor(amount)
           l == loyalty[c]
           row == [points |-> l.points + points, lifetime |-> l.lifetime, earned |-> l.earned,
                   redeemed |-> l.redeemed, refunded |-> l.refunded + points]
<1>1. l \in PointRows /\ AreTold(l) /\ points \in Nat
  BY PointsAreNatural DEF ValueInv, LoyaltyInv
<1>2. loyalty' = [loyalty EXCEPT ![c].points = @ + points, ![c].refunded = @ + points]
  BY DEF RefundToPoints
<1> HIDE DEF points
<1>3. loyalty' = [loyalty EXCEPT ![c] = row]
  <2> DEFINE after == [l EXCEPT !.points = @ + points, !.refunded = @ + points]
  <2>1. /\ DOMAIN after = {"points", "lifetime", "earned", "redeemed", "refunded"}
        /\ after = [x \in DOMAIN after |-> after[x]]
    BY <1>1 DEF PointRows
  <2>2. /\ DOMAIN row = {"points", "lifetime", "earned", "redeemed", "refunded"}
        /\ row = [x \in DOMAIN row |-> row[x]]
    OBVIOUS
  <2>3. /\ after.points = row.points /\ after.lifetime = row.lifetime
        /\ after.earned = row.earned /\ after.redeemed = row.redeemed
        /\ after.refunded = row.refunded
    BY <1>1 DEF PointRows
  <2>4. after = row
    BY <2>1, <2>2, <2>3
  <2>5. loyalty' = [loyalty EXCEPT ![c] = after]
    BY <1>2 DEF ValueInv, LoyaltyInv
  <2> QED BY <2>4, <2>5
<1>4. row \in PointRows /\ AreTold(row)
  BY <1>1 DEF PointRows, AreTold
<1>5. LoyaltyInv'
  BY <1>3, <1>4 DEF ValueInv, LoyaltyInv, RefundToPoints
<1>6. CreditInv' /\ CardInv'
  BY CreditUntouched, CardUntouched DEF ValueInv, RefundToPoints
<1> QED BY <1>5, <1>6 DEF ValueInv

------------------------------------------------------------------------------

\* A new card is whole.
LEMMA CardIssue ==
  ASSUME ValueInv, NEW g \in Cards, NEW amount \in Nat \ {0}, IssueCard(g, amount)
  PROVE  ValueInv'
<1>1. CardInv'
  <2> DEFINE row == [status |-> "ACTIVE", initial |-> amount, balance |-> amount,
                     expired |-> FALSE, CREDIT |-> 0, DEBIT |-> 0]
  <2>1. row \in CardRows /\ IsWhole(row)
    BY DEF CardRows, IsWhole
  <2>2. card' = [card EXCEPT ![g] = row]
    BY DEF IssueCard
  <2> QED BY <2>1, <2>2, CardChanges DEF ValueInv
<1>2. CreditInv' /\ LoyaltyInv'
  BY CreditUntouched, LoyaltyUntouched DEF ValueInv, IssueCard
<1> QED BY <1>1, <1>2 DEF ValueInv

\* A card that has no entry yet has not been used: the entry finds what was issued.
LEMMA CardIsRecorded ==
  ASSUME ValueInv, NEW g \in Cards, RecordIssue(g)
  PROVE  ValueInv'
<1>1. CardInv'
  <2> DEFINE row == [card[g] EXCEPT !.CREDIT = card[g].initial]
  <2>1. card[g] \in CardRows /\ IsWhole(card[g]) /\ ~IsTold(g) /\ card[g].status # "NONE"
    BY DEF ValueInv, CardInv, RecordIssue
  <2>2. /\ card[g].CREDIT = 0 /\ card[g].DEBIT = 0 /\ card[g].status = "ACTIVE"
        /\ card[g].initial \in Nat /\ card[g].balance = card[g].initial /\ card[g].initial > 0
    BY <2>1 DEF CardRows, IsWhole, IsTold
  <2>3. row \in CardRows
    BY <2>1, <2>2 DEF CardRows
  <2>4. /\ row.balance = card[g].initial /\ row.CREDIT = card[g].initial
        /\ row.DEBIT = 0 /\ row.status = "ACTIVE"
    BY <2>1, <2>2 DEF CardRows
  <2>5. card' = [card EXCEPT ![g] = row]
    BY DEF RecordIssue
  <2> HIDE DEF row
  <2>6. IsWhole(row)
    BY <2>2, <2>4 DEF IsWhole
  <2> QED BY <2>3, <2>5, <2>6, CardChanges DEF ValueInv
<1>2. CreditInv' /\ LoyaltyInv'
  BY CreditUntouched, LoyaltyUntouched DEF ValueInv, RecordIssue
<1> QED BY <1>1, <1>2 DEF ValueInv

\* An expired card is whole.
LEMMA CardExpires ==
  ASSUME ValueInv, NEW g \in Cards, ExpireCard(g)
  PROVE  ValueInv'
<1>1. CardInv'
  <2> DEFINE row == [card[g] EXCEPT !.expired = TRUE]
  <2>1. card[g] \in CardRows /\ IsWhole(card[g])
    BY DEF ValueInv, CardInv
  <2>2. row \in CardRows /\ IsWhole(row)
    BY <2>1 DEF CardRows, IsWhole
  <2>3. card' = [card EXCEPT ![g] = row]
    BY DEF ExpireCard
  <2> QED BY <2>2, <2>3, CardChanges DEF ValueInv
<1>2. CreditInv' /\ LoyaltyInv'
  BY CreditUntouched, LoyaltyUntouched DEF ValueInv, ExpireCard
<1> QED BY <1>1, <1>2 DEF ValueInv

\* A change of the programme changes no account.
LEMMA ProgramChanges ==
  ASSUME ValueInv, NEW p \in Programs, SetProgram(p)
  PROVE  ValueInv'
<1>1. LoyaltyInv'
  BY DEF ValueInv, LoyaltyInv, SetProgram
<1>2. CreditInv' /\ CardInv'
  BY CreditUntouched, CardUntouched DEF ValueInv, SetProgram
<1> QED BY <1>1, <1>2 DEF ValueInv

\* Every step keeps the invariant.
LEMMA ValueStep == ValueInv /\ [Next]_vars => ValueInv'
<1> SUFFICES ASSUME ValueInv, [Next]_vars PROVE ValueInv'
  OBVIOUS
<1>1. CASE \E a \in Clerks : AdjustmentStep(a)
  <2> PICK a \in Clerks : AdjustmentStep(a)
    BY <1>1
  <2>1. UNCHANGED << card, program, loyalty >>
    BY DEF AdjustmentStep, ReadForAdjustment, WriteAdjustment, FailAdjustment
  <2>2. CardInv' /\ LoyaltyInv'
    BY <2>1, CardUntouched, LoyaltyUntouched DEF ValueInv
  <2>3. ASSUME NEW c \in Customers, NEW amount \in Adjustments, ReadForAdjustment(a, c, amount)
        PROVE  CreditInv'
    <3>1. amount \in Int
      <4>1. amount \in Amounts \/ \E n \in Amounts : amount = -n
        BY DEF Adjustments
      <4>2. \A n \in Amounts : n \in Int
        BY AmountsAssumption
      <4> QED BY <4>1, <4>2
    <3>2. CreditInv
      BY DEF ValueInv
    <3> QED BY <2>3, <3>1, <3>2, AdjustmentReads
  <2>4. ASSUME WriteAdjustment(a) PROVE CreditInv'
    <3>1. CreditInv
      BY DEF ValueInv
    <3> QED BY <2>4, <3>1, AdjustmentWrites
  <2>5. ASSUME FailAdjustment(a) PROVE CreditInv'
    <3>1. CreditInv
      BY DEF ValueInv
    <3> QED BY <2>5, <3>1, AdjustmentFails
  <2> QED BY <2>2, <2>3, <2>4, <2>5 DEF AdjustmentStep, ValueInv
<1>2. CASE \E c \in Customers : PaymentStep(c)
  <2>1. PICK c \in Customers, amount \in Amounts, total \in Amounts \cup {0} :
          \/ PayByCredit(c, amount, total)
          \/ \E g \in Cards : PayByCard(g, c, amount, total)
          \/ PayByPoints(c, amount, total)
          \/ PayOtherwise(c, total)
    BY <1>2 DEF PaymentStep
  <2>2. amount \in Nat /\ total \in Nat
    BY AmountsAssumption
  <2> QED BY <2>1, <2>2, CreditPayment, CardPayment, PointsPayment, OtherPayment
<1>3. CASE RefundStep
  <2>1. PICK amount \in Amounts :
          \/ \E c \in Customers : RefundToCredit(c, amount) \/ RefundToPoints(c, amount)
          \/ \E g \in Cards : RefundToCard(g, amount)
    BY <1>3 DEF RefundStep
  <2>2. amount \in Nat \ {0}
    BY AmountsAssumption
  <2> QED BY <2>1, <2>2, CreditRefund, PointsRefund, CardRefund
<1>4. CASE \E g \in Cards : CardStep(g)
  <2>1. PICK g \in Cards :
          (\E amount \in Amounts : IssueCard(g, amount)) \/ RecordIssue(g) \/ ExpireCard(g)
    BY <1>4 DEF CardStep
  <2>2. \A amount \in Amounts : amount \in Nat \ {0}
    BY AmountsAssumption
  <2> QED BY <2>1, <2>2, CardIssue, CardIsRecorded, CardExpires
<1>5. CASE \E p \in Programs : SetProgram(p)
  BY <1>5, ProgramChanges
<1>6. CASE UNCHANGED vars
  BY <1>6, CreditUntouched, CardUntouched, LoyaltyUntouched DEF ValueInv, vars
<1> QED BY <1>1, <1>2, <1>3, <1>4, <1>5, <1>6 DEF Next

\* Whatever sales, orders, returns, adjustments and cards do at the same time: the three
\* kinds of account keep their invariants.
THEOREM ValueInvariant == Spec => []ValueInv
BY InitValue, ValueStep, PTL DEF Spec

\* The accounts have the shape of their tables, for every instance.
THEOREM ValueTypeCorrect == Spec => []TypeOK
<1>1. ValueInv => TypeOK
  BY DEF ValueInv, CreditInv, CardInv, LoyaltyInv, TypeOK, Accounts, EntrySums, CardRows, PointRows
<1> QED BY <1>1, ValueInvariant, PTL

\* Every balance can be told from the journal of its account (value/store.ts), for every
\* number of customers, cards, and adjustments in flight at the same time.
THEOREM JournalCorrect == Spec => []JournalTellsBalance
<1>1. ValueInv => JournalTellsBalance
  BY DEF ValueInv, CreditInv, CardInv, LoyaltyInv, IsWhole, AreTold, JournalTellsBalance, IsTold
<1> QED BY <1>1, ValueInvariant, PTL

\* No balance falls below zero, unless an adjustment of store credit was overtaken
\* (value/routes.ts), and the status of a card says whether there is anything on it.
THEOREM OverdraftCorrect == Spec => []NothingIsOverdrawn
<1>1. ValueInv => NothingIsOverdrawn
  BY DEF ValueInv, CreditInv, CardInv, LoyaltyInv, IsWhole, AreTold, NothingIsOverdrawn
<1> QED BY <1>1, ValueInvariant, PTL

------------------------------------------------------------------------------
(***************************************************************************)
(* Sums over the rows of a session or a sale.                               *)
(***************************************************************************)

\* The cash of a sale's payments that went into drawer i, and of its refunds out of it.
CashIn(i, payments) ==
  SumFunction([n \in DOMAIN payments |-> IF payments[n].at = i THEN payments[n].cash ELSE 0])
CashOut(i, refunds) ==
  SumFunction([n \in DOMAIN refunds |-> IF refunds[n].at = i THEN refunds[n].cash ELSE 0])

\* A sum over rows grows with the next row.
LEMMA RowSum ==
  ASSUME NEW n \in Nat, NEW f, DOMAIN f = 1..n, \A x \in 1..n : f[x] \in Int
  PROVE  /\ SumFunction(f) \in Int
         /\ n = 0 => SumFunction(f) = 0
<1>1. IsFiniteSet(1..n)
  BY FS_Interval
<1>2. SumFunction(f) = SumFunctionOnSet(f, 1..n)
  BY DEF SumFunction
<1>3. SumFunctionOnSet(f, 1..n) \in Int
  <2> DEFINE S == 1..n
  <2>1. IsFiniteSet(S) /\ \A x \in S : f[x] \in Int
    BY <1>1
  <2> HIDE DEF S
  <2>2. SumFunctionOnSet(f, S) \in Int
    BY <2>1, SumType
  <2> QED BY <2>2 DEF S
<1>4. ASSUME n = 0 PROVE SumFunctionOnSet(f, 1..n) = 0
  <2>1. 1..n = {}
    BY <1>4
  <2> QED BY <2>1, SumEmpty
<1> QED BY <1>2, <1>3, <1>4

\* By the value of that row.
LEMMA RowAdded ==
  ASSUME NEW n \in Nat, NEW f, NEW g, DOMAIN f = 1..n, DOMAIN g = 1..(n + 1),
         \A x \in 1..(n + 1) : g[x] \in Int, \A x \in 1..n : f[x] = g[x]
  PROVE  SumFunction(g) = SumFunction(f) + g[n + 1] /\ SumFunction(f) \in Int
<1>1. SumFunction(f) = SumFunctionOnSet(f, 1..n) /\ SumFunction(g) = SumFunctionOnSet(g, 1..(n + 1))
  BY DEF SumFunction
<1>2. /\ SumFunctionOnSet(g, 1..n) \in Int
      /\ SumFunctionOnSet(g, 1..(n + 1)) = g[n + 1] + SumFunctionOnSet(g, 1..n)
  BY SumStep
<1>3. SumFunctionOnSet(f, 1..n) = SumFunctionOnSet(g, 1..n)
  <2> DEFINE S == 1..n
  <2>1. IsFiniteSet(S)
    BY FS_Interval
  <2>2. \A x \in S : g[x] \in Int /\ f[x] = g[x]
    OBVIOUS
  <2> HIDE DEF S
  <2>3. SumFunctionOnSet(f, S) = SumFunctionOnSet(g, S)
    BY <2>1, <2>2, SumSame
  <2> QED BY <2>3 DEF S
<1>4. g[n + 1] \in Int
  OBVIOUS
<1> QED BY <1>1, <1>2, <1>3, <1>4

\* Rows and a next one.
LEMMA NextRow ==
  ASSUME NEW R, NEW rows \in Seq(R), NEW row \in R
  PROVE  /\ Len(rows) \in Nat /\ DOMAIN rows = 1..Len(rows)
         /\ \A n \in 1..Len(rows) : rows[n] \in R
         /\ Append(rows, row) \in Seq(R)
         /\ DOMAIN Append(rows, row) = 1..(Len(rows) + 1)
         /\ Append(rows, row)[Len(rows) + 1] = row
         /\ \A n \in 1..Len(rows) : Append(rows, row)[n] = rows[n]
         /\ \A n \in 1..(Len(rows) + 1) : Append(rows, row)[n] \in R
<1>1. Len(rows) \in Nat /\ DOMAIN rows = 1..Len(rows) /\ \A n \in 1..Len(rows) : rows[n] \in R
  BY LenProperties, ElementOfSeq
<1>2. /\ Append(rows, row) \in Seq(R) /\ Len(Append(rows, row)) = Len(rows) + 1
      /\ Append(rows, row)[Len(rows) + 1] = row
      /\ \A n \in 1..Len(rows) : Append(rows, row)[n] = rows[n]
  BY AppendProperties
<1>3. DOMAIN Append(rows, row) = 1..(Len(rows) + 1)
  BY <1>2, LenProperties
<1>4. ASSUME NEW n \in 1..(Len(rows) + 1) PROVE Append(rows, row)[n] \in R
  BY <1>1, <1>2
<1> QED BY <1>1, <1>2, <1>3, <1>4

\* What a payment adds, to a session and to a drawer.
LEMMA PaymentAdded ==
  ASSUME NEW i, NEW rows \in Seq(PaymentRows), NEW row \in PaymentRows
  PROVE  /\ CashTo(i, rows) \in Int /\ CashIn(i, rows) \in Int
         /\ CashTo(i, Append(rows, row)) = CashTo(i, rows) + IF row.session = i THEN row.cash ELSE 0
         /\ CashIn(i, Append(rows, row)) = CashIn(i, rows) + IF row.at = i THEN row.cash ELSE 0
<1> DEFINE n == Len(rows)
           more == Append(rows, row)
           toOld == [x \in DOMAIN rows |-> IF rows[x].session = i THEN rows[x].cash ELSE 0]
           toNew == [x \in DOMAIN more |-> IF more[x].session = i THEN more[x].cash ELSE 0]
           inOld == [x \in DOMAIN rows |-> IF rows[x].at = i THEN rows[x].cash ELSE 0]
           inNew == [x \in DOMAIN more |-> IF more[x].at = i THEN more[x].cash ELSE 0]
<1>1. /\ n \in Nat /\ DOMAIN rows = 1..n /\ DOMAIN more = 1..(n + 1) /\ more[n + 1] = row
      /\ \A x \in 1..n : more[x] = rows[x]
      /\ \A x \in 1..(n + 1) : more[x] \in PaymentRows
  BY NextRow
<1>2. \A x \in 1..(n + 1) : more[x].cash \in Int
  BY <1>1 DEF PaymentRows
<1>3. /\ CashTo(i, rows) = SumFunction(toOld) /\ CashTo(i, more) = SumFunction(toNew)
      /\ CashIn(i, rows) = SumFunction(inOld) /\ CashIn(i, more) = SumFunction(inNew)
  BY DEF CashTo, CashIn
<1> HIDE DEF n, more
<1>4. n + 1 \in 1..(n + 1) /\ \A x \in 1..n : x \in 1..(n + 1)
  BY <1>1
<1>5. SumFunction(toNew) = SumFunction(toOld) + toNew[n + 1] /\ SumFunction(toOld) \in Int
  <2>1. DOMAIN toOld = 1..n /\ DOMAIN toNew = 1..(n + 1)
    BY <1>1
  <2>2. \A x \in 1..(n + 1) : toNew[x] \in Int
    BY <1>1, <1>2
  <2>3. \A x \in 1..n : toOld[x] = toNew[x]
    BY <1>1, <1>4
  <2>4. n \in Nat
    BY <1>1
  <2> HIDE DEF toOld, toNew
  <2> QED BY <2>1, <2>2, <2>3, <2>4, RowAdded
<1>6. SumFunction(inNew) = SumFunction(inOld) + inNew[n + 1] /\ SumFunction(inOld) \in Int
  <2>1. DOMAIN inOld = 1..n /\ DOMAIN inNew = 1..(n + 1)
    BY <1>1
  <2>2. \A x \in 1..(n + 1) : inNew[x] \in Int
    BY <1>1, <1>2
  <2>3. \A x \in 1..n : inOld[x] = inNew[x]
    BY <1>1, <1>4
  <2>4. n \in Nat
    BY <1>1
  <2> HIDE DEF inOld, inNew
  <2> QED BY <2>1, <2>2, <2>3, <2>4, RowAdded
<1>7. /\ toNew[n + 1] = IF row.session = i THEN row.cash ELSE 0
      /\ inNew[n + 1] = IF row.at = i THEN row.cash ELSE 0
  BY <1>1, <1>4
<1> HIDE DEF toOld, toNew, inOld, inNew
<1> QED BY <1>3, <1>5, <1>6, <1>7 DEF more

\* What a refund adds.
LEMMA RefundAdded ==
  ASSUME NEW i, NEW rows \in Seq(RefundRows), NEW row \in RefundRows
  PROVE  /\ CashOf(rows) \in Int /\ CashOut(i, rows) \in Int
         /\ CashOf(Append(rows, row)) = CashOf(rows) + row.cash
         /\ CashOut(i, Append(rows, row)) = CashOut(i, rows) + IF row.at = i THEN row.cash ELSE 0
<1> DEFINE n == Len(rows)
           more == Append(rows, row)
           ofOld == [x \in DOMAIN rows |-> rows[x].cash]
           ofNew == [x \in DOMAIN more |-> more[x].cash]
           outOld == [x \in DOMAIN rows |-> IF rows[x].at = i THEN rows[x].cash ELSE 0]
           outNew == [x \in DOMAIN more |-> IF more[x].at = i THEN more[x].cash ELSE 0]
<1>1. /\ n \in Nat /\ DOMAIN rows = 1..n /\ DOMAIN more = 1..(n + 1) /\ more[n + 1] = row
      /\ \A x \in 1..n : more[x] = rows[x]
      /\ \A x \in 1..(n + 1) : more[x] \in RefundRows
  BY NextRow
<1>2. \A x \in 1..(n + 1) : more[x].cash \in Int
  BY <1>1 DEF RefundRows
<1>3. /\ CashOf(rows) = SumFunction(ofOld) /\ CashOf(more) = SumFunction(ofNew)
      /\ CashOut(i, rows) = SumFunction(outOld) /\ CashOut(i, more) = SumFunction(outNew)
  BY DEF CashOf, CashOut
<1> HIDE DEF n, more
<1>4. n + 1 \in 1..(n + 1) /\ \A x \in 1..n : x \in 1..(n + 1)
  BY <1>1
<1>5. SumFunction(ofNew) = SumFunction(ofOld) + ofNew[n + 1] /\ SumFunction(ofOld) \in Int
  <2>1. DOMAIN ofOld = 1..n /\ DOMAIN ofNew = 1..(n + 1)
    BY <1>1
  <2>2. \A x \in 1..(n + 1) : ofNew[x] \in Int
    BY <1>1, <1>2
  <2>3. \A x \in 1..n : ofOld[x] = ofNew[x]
    BY <1>1, <1>4
  <2>4. n \in Nat
    BY <1>1
  <2> HIDE DEF ofOld, ofNew
  <2> QED BY <2>1, <2>2, <2>3, <2>4, RowAdded
<1>6. SumFunction(outNew) = SumFunction(outOld) + outNew[n + 1] /\ SumFunction(outOld) \in Int
  <2>1. DOMAIN outOld = 1..n /\ DOMAIN outNew = 1..(n + 1)
    BY <1>1
  <2>2. \A x \in 1..(n + 1) : outNew[x] \in Int
    BY <1>1, <1>2
  <2>3. \A x \in 1..n : outOld[x] = outNew[x]
    BY <1>1, <1>4
  <2>4. n \in Nat
    BY <1>1
  <2> HIDE DEF outOld, outNew
  <2> QED BY <2>1, <2>2, <2>3, <2>4, RowAdded
<1>7. /\ ofNew[n + 1] = row.cash
      /\ outNew[n + 1] = IF row.at = i THEN row.cash ELSE 0
  BY <1>1, <1>4
<1> HIDE DEF ofOld, ofNew, outOld, outNew
<1> QED BY <1>3, <1>5, <1>6, <1>7 DEF more

\* What a cash movement adds.
LEMMA MoveAdded ==
  ASSUME NEW rows \in Seq(MoveRows), NEW row \in MoveRows
  PROVE  /\ Moved(rows) \in Int /\ MoveEffect(row) \in Int
         /\ Moved(Append(rows, row)) = Moved(rows) + MoveEffect(row)
<1> DEFINE n == Len(rows)
           more == Append(rows, row)
           old == [x \in DOMAIN rows |-> MoveEffect(rows[x])]
           new == [x \in DOMAIN more |-> MoveEffect(more[x])]
<1>1. /\ n \in Nat /\ DOMAIN rows = 1..n /\ DOMAIN more = 1..(n + 1) /\ more[n + 1] = row
      /\ \A x \in 1..n : more[x] = rows[x]
      /\ \A x \in 1..(n + 1) : more[x] \in MoveRows
  BY NextRow
<1>2. ASSUME NEW r \in MoveRows PROVE MoveEffect(r) \in Int
  <2>1. r.amount \in MoveAmounts
    BY DEF MoveRows
  <2>2. r.amount \in Nat
    BY <2>1, CashAssumption
  <2> QED BY <2>2 DEF MoveEffect
<1>3. Moved(rows) = SumFunction(old) /\ Moved(more) = SumFunction(new)
  BY DEF Moved
<1> HIDE DEF n, more
<1>4. n + 1 \in 1..(n + 1) /\ \A x \in 1..n : x \in 1..(n + 1)
  BY <1>1
<1>5. SumFunction(new) = SumFunction(old) + new[n + 1] /\ SumFunction(old) \in Int
  <2>1. DOMAIN old = 1..n /\ DOMAIN new = 1..(n + 1)
    BY <1>1
  <2>2. \A x \in 1..(n + 1) : new[x] \in Int
    BY <1>1, <1>2
  <2>3. \A x \in 1..n : old[x] = new[x]
    BY <1>1, <1>4
  <2>4. n \in Nat
    BY <1>1
  <2> HIDE DEF old, new
  <2> QED BY <2>1, <2>2, <2>3, <2>4, RowAdded
<1>6. new[n + 1] = MoveEffect(row)
  BY <1>1, <1>4
<1> HIDE DEF old, new
<1> QED BY <1>2, <1>3, <1>5, <1>6 DEF more

\* So the movements of a session add up.
LEMMA MovedType == ASSUME NEW rows \in Seq(MoveRows) PROVE Moved(rows) \in Int
<1> DEFINE n == Len(rows)
           f == [x \in DOMAIN rows |-> MoveEffect(rows[x])]
<1>1. n \in Nat /\ DOMAIN rows = 1..n /\ \A x \in 1..n : rows[x] \in MoveRows
  BY LenProperties, ElementOfSeq
<1>2. n \in Nat /\ DOMAIN f = 1..n /\ \A x \in 1..n : f[x] \in Int
  <2>1. ASSUME NEW r \in MoveRows PROVE MoveEffect(r) \in Int
    <3>1. r.amount \in MoveAmounts
      BY DEF MoveRows
    <3>2. r.amount \in Nat
      BY <3>1, CashAssumption
    <3> QED BY <3>2 DEF MoveEffect
  <2> QED BY <1>1, <2>1
<1>3. Moved(rows) = SumFunction(f)
  BY DEF Moved
<1> HIDE DEF n, f
<1>4. SumFunction(f) \in Int
  BY <1>2, RowSum
<1> QED BY <1>3, <1>4

\* Without rows there is nothing.
LEMMA NoRows ==
  ASSUME NEW i
  PROVE  /\ CashTo(i, << >>) = 0 /\ CashIn(i, << >>) = 0 /\ CashOf(<< >>) = 0
         /\ CashOut(i, << >>) = 0 /\ Moved(<< >>) = 0
<1> DEFINE f == [x \in {} |-> 0]
<1>1. DOMAIN << >> = {}
  OBVIOUS
<1>2. /\ CashTo(i, << >>) = SumFunctionOnSet([n \in DOMAIN << >> |->
             IF << >>[n].session = i THEN << >>[n].cash ELSE 0], {})
      /\ CashIn(i, << >>) = SumFunctionOnSet([n \in DOMAIN << >> |->
             IF << >>[n].at = i THEN << >>[n].cash ELSE 0], {})
      /\ CashOf(<< >>) = SumFunctionOnSet([n \in DOMAIN << >> |-> << >>[n].cash], {})
      /\ CashOut(i, << >>) = SumFunctionOnSet([n \in DOMAIN << >> |->
             IF << >>[n].at = i THEN << >>[n].cash ELSE 0], {})
      /\ Moved(<< >>) = SumFunctionOnSet([n \in DOMAIN << >> |-> MoveEffect(<< >>[n])], {})
  BY <1>1 DEF CashTo, CashIn, CashOf, CashOut, Moved, SumFunction
<1> QED BY <1>2, SumEmpty

------------------------------------------------------------------------------
(***************************************************************************)
(* What a sale adds to a session and to a drawer.                           *)
(***************************************************************************)

\* What the code counts for session i of a sale or an order.
Counted(i, row) ==
  CashTo(i, row.payments) - (IF IsCashSale(i, row) THEN row.change ELSE 0)
    - (IF row.session = i THEN CashOf(row.refunds) ELSE 0)

\* What is in drawer i of it, once it is booked.
Held(i, row) ==
  CashIn(i, row.payments)
    - (IF \E n \in DOMAIN row.payments : row.payments[n].at = i THEN row.change ELSE 0)
    - CashOut(i, row.refunds)

\* And of an offline sale that was not booked yet.
InDrawer(i, off, row) ==
  Held(i, row)
    + IF off.made /\ row.status = "NONE" /\ off.at = i THEN off.total - off.paid.other ELSE 0

AllCounted(i, sales) == SumFunctionOnSet([s \in SaleRefs |-> Counted(i, sales[s])], SaleRefs)

AllInDrawer(i, offs, sales) ==
  SumFunctionOnSet([s \in SaleRefs |-> InDrawer(i, offs[s], sales[s])], SaleRefs)

\* They are numbers.
LEMMA SaleSums ==
  ASSUME NEW i, NEW row \in SaleRows
  PROVE  /\ CashTo(i, row.payments) \in Int /\ CashIn(i, row.payments) \in Int
         /\ CashOf(row.refunds) \in Int /\ CashOut(i, row.refunds) \in Int
         /\ row.change \in Nat
         /\ Counted(i, row) \in Int /\ Held(i, row) \in Int
<1>1. row.payments \in Seq(PaymentRows) /\ row.refunds \in Seq(RefundRows) /\ row.change \in Nat
  BY DEF SaleRows
<1> DEFINE pay == [session |-> NoSession, cash |-> 1, at |-> NoSession, deposit |-> TRUE]
           refund == [amount |-> 1, cash |-> 1, at |-> NoSession]
<1>2. pay \in PaymentRows /\ refund \in RefundRows
  BY DEF PaymentRows, RefundRows, Places
<1> HIDE DEF pay, refund
<1>3. CashTo(i, row.payments) \in Int /\ CashIn(i, row.payments) \in Int
  BY <1>1, <1>2, PaymentAdded
<1>4. CashOf(row.refunds) \in Int /\ CashOut(i, row.refunds) \in Int
  BY <1>1, <1>2, RefundAdded
<1>5. Counted(i, row) \in Int
  BY <1>1, <1>3, <1>4 DEF Counted
<1>6. Held(i, row) \in Int
  BY <1>1, <1>3, <1>4 DEF Held
<1> QED BY <1>1, <1>3, <1>4, <1>5, <1>6

\* An amount in a drawer is a number.
LEMMA DrawerSums ==
  ASSUME NEW i, NEW off \in OfflineSales, NEW row \in SaleRows
  PROVE  InDrawer(i, off, row) \in Int
<1>1. off.total \in Nat /\ off.paid.other \in Nat
  <2>1. off.total \in Totals \cup {0}
    BY DEF OfflineSales
  <2>2. off.paid \in PaidRows
    BY DEF OfflineSales
  <2>3. off.paid.other \in Nat
    BY <2>2 DEF PaidRows
  <2>4. Totals \subseteq Nat
    BY CashAssumption
  <2>5. \A x \in Totals \cup {0} : x \in Nat
    BY <2>4
  <2>6. off.total \in Nat
    BY <2>1, <2>5
  <2> QED BY <2>3, <2>6
<1>2. Held(i, row) \in Int
  BY SaleSums
<1> QED BY <1>1, <1>2 DEF InDrawer

\* A sum over the sales where one of them changes.
LEMMA OneSale ==
  ASSUME NEW f, NEW g, NEW s \in SaleRefs,
         \A r \in SaleRefs : f[r] \in Int /\ g[r] \in Int,
         \A r \in SaleRefs : r # s => g[r] = f[r]
  PROVE  /\ SumFunctionOnSet(f, SaleRefs) \in Int
         /\ SumFunctionOnSet(g, SaleRefs) = SumFunctionOnSet(f, SaleRefs) + (g[s] - f[s])
<1>1. SumFunctionOnSet(g, SaleRefs) = SumFunctionOnSet(f, SaleRefs) + (g[s] - f[s])
  BY SalesAssumption, SumChange
<1>2. SumFunctionOnSet(f, SaleRefs) \in Int
  BY SalesAssumption, SumType
<1> QED BY <1>1, <1>2

\* Where one sale changes, so do the sums.
LEMMA CountedChange ==
  ASSUME NEW i, NEW sales \in [SaleRefs -> SaleRows], NEW new \in [SaleRefs -> SaleRows],
         NEW s \in SaleRefs, \A r \in SaleRefs : r # s => new[r] = sales[r]
  PROVE  /\ AllCounted(i, sales) \in Int
         /\ AllCounted(i, new) = AllCounted(i, sales) + (Counted(i, new[s]) - Counted(i, sales[s]))
<1> DEFINE f == [r \in SaleRefs |-> Counted(i, sales[r])]
           g == [r \in SaleRefs |-> Counted(i, new[r])]
<1>1. \A r \in SaleRefs : f[r] \in Int /\ g[r] \in Int
  <2>1. \A r \in SaleRefs : sales[r] \in SaleRows /\ new[r] \in SaleRows
    OBVIOUS
  <2> QED BY <2>1, SaleSums
<1>2. \A r \in SaleRefs : r # s => g[r] = f[r]
  OBVIOUS
<1>3. f[s] = Counted(i, sales[s]) /\ g[s] = Counted(i, new[s])
  OBVIOUS
<1>4. AllCounted(i, sales) = SumFunctionOnSet(f, SaleRefs)
      /\ AllCounted(i, new) = SumFunctionOnSet(g, SaleRefs)
  BY DEF AllCounted
<1> HIDE DEF f, g
<1>5. /\ SumFunctionOnSet(f, SaleRefs) \in Int
      /\ SumFunctionOnSet(g, SaleRefs) = SumFunctionOnSet(f, SaleRefs) + (g[s] - f[s])
  BY <1>1, <1>2, OneSale
<1> QED BY <1>3, <1>4, <1>5

\* So do those of the drawers.
LEMMA DrawerChange ==
  ASSUME NEW i, NEW sales \in [SaleRefs -> SaleRows], NEW new \in [SaleRefs -> SaleRows],
         NEW offs \in [SaleRefs -> OfflineSales], NEW newOffs \in [SaleRefs -> OfflineSales],
         NEW s \in SaleRefs,
         \A r \in SaleRefs : r # s => new[r] = sales[r],
         \A r \in SaleRefs : r # s => newOffs[r] = offs[r]
  PROVE  /\ AllInDrawer(i, offs, sales) \in Int
         /\ AllInDrawer(i, newOffs, new) = AllInDrawer(i, offs, sales)
              + (InDrawer(i, newOffs[s], new[s]) - InDrawer(i, offs[s], sales[s]))
<1> DEFINE f == [r \in SaleRefs |-> InDrawer(i, offs[r], sales[r])]
           g == [r \in SaleRefs |-> InDrawer(i, newOffs[r], new[r])]
<1>1. \A r \in SaleRefs : f[r] \in Int /\ g[r] \in Int
  BY DrawerSums
<1>2. \A r \in SaleRefs : r # s => g[r] = f[r]
  OBVIOUS
<1>3. f[s] = InDrawer(i, offs[s], sales[s]) /\ g[s] = InDrawer(i, newOffs[s], new[s])
  OBVIOUS
<1>4. AllInDrawer(i, offs, sales) = SumFunctionOnSet(f, SaleRefs)
      /\ AllInDrawer(i, newOffs, new) = SumFunctionOnSet(g, SaleRefs)
  BY DEF AllInDrawer
<1> HIDE DEF f, g
<1>5. /\ SumFunctionOnSet(f, SaleRefs) \in Int
      /\ SumFunctionOnSet(g, SaleRefs) = SumFunctionOnSet(f, SaleRefs) + (g[s] - f[s])
  BY <1>1, <1>2, OneSale
<1> QED BY <1>3, <1>4, <1>5

\* They are numbers, also when there is no sale.
LEMMA DrawerTypes ==
  ASSUME NEW i, NEW sales \in [SaleRefs -> SaleRows], NEW offs \in [SaleRefs -> OfflineSales]
  PROVE  AllInDrawer(i, offs, sales) \in Int
<1> DEFINE f == [r \in SaleRefs |-> InDrawer(i, offs[r], sales[r])]
<1>1. \A r \in SaleRefs : f[r] \in Int
  BY DrawerSums
<1>2. AllInDrawer(i, offs, sales) = SumFunctionOnSet(f, SaleRefs)
  BY DEF AllInDrawer
<1> HIDE DEF f
<1> QED BY <1>1, <1>2, SalesAssumption, SumType

\* The expected cash is the float, what the sales add and the movements.
LEMMA ExpectedIs ==
  ASSUME NEW i, NEW sales \in [SaleRefs -> SaleRows]
  PROVE  /\ AllCounted(i, sales) \in Int
         /\ SumFunction([s \in SaleRefs |-> CashTo(i, sales[s].payments)]) \in Int
         /\ SumFunction([s \in SaleRefs |->
                          IF IsCashSale(i, sales[s]) THEN sales[s].change ELSE 0]) \in Int
         /\ SumFunction([s \in SaleRefs |->
                          IF sales[s].session = i THEN CashOf(sales[s].refunds) ELSE 0]) \in Int
         /\ SumFunction([s \in SaleRefs |-> CashTo(i, sales[s].payments)])
              - SumFunction([s \in SaleRefs |->
                              IF IsCashSale(i, sales[s]) THEN sales[s].change ELSE 0])
              - SumFunction([s \in SaleRefs |->
                              IF sales[s].session = i THEN CashOf(sales[s].refunds) ELSE 0])
            = AllCounted(i, sales)
<1> DEFINE paid == [s \in SaleRefs |-> CashTo(i, sales[s].payments)]
           change == [s \in SaleRefs |-> IF IsCashSale(i, sales[s]) THEN sales[s].change ELSE 0]
           refunds == [s \in SaleRefs |->
                        IF sales[s].session = i THEN CashOf(sales[s].refunds) ELSE 0]
           counted == [s \in SaleRefs |-> Counted(i, sales[s])]
           rest == [s \in SaleRefs |-> counted[s] + change[s]]
<1>1. ASSUME NEW s \in SaleRefs
      PROVE  /\ paid[s] \in Int /\ change[s] \in Int /\ refunds[s] \in Int /\ counted[s] \in Int
             /\ rest[s] = counted[s] + change[s] /\ rest[s] \in Int
             /\ paid[s] = rest[s] + refunds[s]
  <2> DEFINE row == sales[s]
             p == CashTo(i, row.payments)
             c == IF IsCashSale(i, row) THEN row.change ELSE 0
             r == IF row.session = i THEN CashOf(row.refunds) ELSE 0
  <2>1. row \in SaleRows
    OBVIOUS
  <2>2. p \in Int /\ c \in Int /\ r \in Int /\ Counted(i, row) \in Int
    <3> HIDE DEF row
    <3> QED BY <2>1, SaleSums
  <2>3. Counted(i, row) = p - c - r
    BY DEF Counted
  <2>4. paid[s] = p /\ change[s] = c /\ refunds[s] = r /\ counted[s] = Counted(i, row)
    OBVIOUS
  <2>5. rest[s] = counted[s] + change[s]
    OBVIOUS
  <2> HIDE DEF row, p, c, r, paid, change, refunds, counted, rest
  <2> QED BY <2>2, <2>3, <2>4, <2>5
<1>2. /\ SumFunction(paid) = SumFunctionOnSet(paid, SaleRefs)
      /\ SumFunction(change) = SumFunctionOnSet(change, SaleRefs)
      /\ SumFunction(refunds) = SumFunctionOnSet(refunds, SaleRefs)
      /\ AllCounted(i, sales) = SumFunctionOnSet(counted, SaleRefs)
  BY DEF SumFunction, AllCounted
<1> HIDE DEF paid, change, refunds, counted, rest
<1>3. SumFunctionOnSet(rest, SaleRefs)
        = SumFunctionOnSet(counted, SaleRefs) + SumFunctionOnSet(change, SaleRefs)
  BY <1>1, SalesAssumption, SumAdd
<1>4. SumFunctionOnSet(paid, SaleRefs)
        = SumFunctionOnSet(rest, SaleRefs) + SumFunctionOnSet(refunds, SaleRefs)
  BY <1>1, SalesAssumption, SumAdd
<1>5. /\ SumFunctionOnSet(paid, SaleRefs) \in Int
      /\ SumFunctionOnSet(change, SaleRefs) \in Int
      /\ SumFunctionOnSet(refunds, SaleRefs) \in Int
      /\ SumFunctionOnSet(counted, SaleRefs) \in Int
  BY <1>1, SalesAssumption, SumType
<1>6. SumFunction(paid) - SumFunction(change) - SumFunction(refunds) = AllCounted(i, sales)
  BY <1>2, <1>3, <1>4, <1>5
<1> QED BY <1>2, <1>5, <1>6 DEF paid, change, refunds

------------------------------------------------------------------------------
(***************************************************************************)
(* The invariant.                                                          *)
(***************************************************************************)

\* A till has at most one open session.
OneOpen == \A i, j \in Open : session[i].register = session[j].register => i = j

\* The drawer of a session that was not opened yet is not used.
Unopened ==
  \A i \in Sessions : session[i].status = "NONE" => session[i].float = 0 /\ drawer[i] = 0

\* An offline sale and the sale or order of its reference: a sale that was made in time
\* named the session of its drawer; a deposit that names a session went into its drawer;
\* another payment names the session of its sale, and went into its drawer unless it was
\* made offline; change is given by sales without deposits.
SaleOK(off, row) ==
  /\ off.inTime => off.claim \in Sessions /\ off.claim = off.at
  /\ off.made => MayPay(off.total, off.paid)
  /\ row.status = "NONE" => row = NoSale
  /\ row.status = "ORDER" => row.change = 0
  /\ \A n \in DOMAIN row.payments :
       LET p == row.payments[n] IN
       IF p.deposit THEN row.change = 0 /\ (p.session \in Sessions => p.at = p.session)
       ELSE p.session = row.session /\ p.at = IF off.made THEN off.at ELSE row.session
  /\ off.made /\ row.status # "NONE" /\ off.claim \in Sessions
       => row.session = off.claim /\ off.inTime

\* That of every reference.
SalesOK == \A s \in SaleRefs : SaleOK(offline[s], sale[s])

\* What is in the drawers, by where it really went.
DrawersHold ==
  \A i \in Sessions :
    drawer[i] = session[i].float + AllInDrawer(i, offline, sale) + Moved(moves[i])

\* The inductive invariant of the tills.
TillInv == TillTypeOK /\ OneOpen /\ Unopened /\ SalesOK /\ DrawersHold

\* Nothing is counted and nothing is held of what is not there.
LEMMA NothingYet ==
  ASSUME NEW i
  PROVE  NoSale \in SaleRows /\ Counted(i, NoSale) = 0 /\ Held(i, NoSale) = 0
<1>1. /\ NoSale.payments = << >> /\ NoSale.refunds = << >> /\ NoSale.change = 0
      /\ NoSale.session = NoSession
  BY DEF NoSale
<1>2. NoSale \in SaleRows
  <2>1. << >> \in Seq(PaymentRows) /\ << >> \in Seq(RefundRows)
    BY EmptySeq
  <2> QED BY <2>1 DEF NoSale, SaleRows, Places
<1>3. /\ CashTo(i, << >>) = 0 /\ CashIn(i, << >>) = 0 /\ CashOf(<< >>) = 0 /\ CashOut(i, << >>) = 0
  BY NoRows
<1>4. Counted(i, NoSale) = 0
  BY <1>1, <1>3 DEF Counted
<1>5. Held(i, NoSale) = 0
  BY <1>1, <1>3 DEF Held
<1> QED BY <1>2, <1>4, <1>5

\* A booked sale, field by field.
LEMMA BookedRow ==
  ASSUME NEW j, NEW total, NEW paid, NEW at
  PROVE  Booked(j, total, paid, at) =
           [status |-> "COMPLETED", session |-> j, total |-> total,
            change |-> paid.cash + paid.other - total,
            payments |-> CashRow(j, paid.cash, at, FALSE), refunds |-> << >>]
<1> DEFINE change == paid.cash + paid.other - total
           payments == CashRow(j, paid.cash, at, FALSE)
<1>1. Booked(j, total, paid, at) =
        [NoSale EXCEPT !.status = "COMPLETED", !.session = j, !.total = total,
                       !.change = change, !.payments = payments]
  BY DEF Booked
<1> HIDE DEF change, payments
<1>2. Booked(j, total, paid, at) =
        [status |-> "COMPLETED", session |-> j, total |-> total, change |-> change,
         payments |-> payments, refunds |-> << >>]
  BY <1>1 DEF NoSale
<1> QED BY <1>2 DEF change, payments

\* A booked sale: it is counted for its session only, and its total less what was paid
\* otherwise is in its drawer.
LEMMA BookedIs ==
  ASSUME NEW j \in Places, NEW total \in Totals \cup {0}, NEW paid \in PaidRows, MayPay(total, paid),
         NEW at \in Places, NEW i
  PROVE  LET row == Booked(j, total, paid, at) IN
         /\ row \in SaleRows
         /\ row.status = "COMPLETED" /\ row.session = j
         /\ i # j => Counted(i, row) = 0
         /\ Held(i, row) = IF i = at THEN total - paid.other ELSE 0
         /\ \A n \in DOMAIN row.payments :
              LET p == row.payments[n] IN ~p.deposit /\ p.session = j /\ p.at = at
<1> DEFINE row == Booked(j, total, paid, at)
           change == paid.cash + paid.other - total
           p == [session |-> j, cash |-> paid.cash, at |-> at, deposit |-> FALSE]
<1>1. /\ total \in Nat /\ paid.cash \in Nat /\ paid.other \in Nat
      /\ change \in Nat /\ (paid.cash = 0 => change = 0 /\ total - paid.other = 0)
  <2>1. \A x \in Totals \cup {0} : x \in Nat
    BY CashAssumption
  <2>2. total \in Nat /\ paid.cash \in Nat /\ paid.other \in Nat
    BY <2>1 DEF PaidRows
  <2> QED BY <2>2 DEF MayPay
<1> DEFINE payments == CashRow(j, paid.cash, at, FALSE)
<1>0. row = [status |-> "COMPLETED", session |-> j, total |-> total, change |-> change,
             payments |-> payments, refunds |-> << >>]
  BY BookedRow
<1> HIDE DEF row, change, payments
<1>2. /\ row.status = "COMPLETED" /\ row.session = j /\ row.change = change
      /\ row.refunds = << >> /\ row.total = total /\ row.payments = payments
  BY <1>0
<1>5. payments \in Seq(PaymentRows) => row \in SaleRows
  <2>1. << >> \in Seq(RefundRows)
    BY EmptySeq
  <2> QED BY <1>0, <1>1, <2>1 DEF SaleRows
<1>3. CASE paid.cash = 0
  <2>1. payments = << >> /\ row.payments = << >> /\ row.change = 0
    BY <1>1, <1>2, <1>3 DEF payments, CashRow
  <2>2. row \in SaleRows
    BY <1>5, <2>1, EmptySeq
  <2>3. DOMAIN row.payments = {}
    BY <2>1
  <2>4. Counted(i, row) = 0 /\ Held(i, row) = 0
    BY <1>2, <2>1, <2>3, NoRows DEF Counted, Held
  <2> QED BY <1>1, <1>2, <1>3, <2>2, <2>3, <2>4 DEF row
<1>4. CASE paid.cash # 0
  <2>1. p \in PaymentRows /\ << >> \in Seq(PaymentRows) /\ << >> \in Seq(RefundRows)
    BY <1>1, <1>4, EmptySeq DEF PaymentRows
  <2>2. <<p>> = Append(<< >>, p) /\ DOMAIN <<p>> = {1} /\ <<p>>[1] = p
    OBVIOUS
  <2>3. p.session = j /\ p.at = at /\ p.cash = paid.cash /\ ~p.deposit
    OBVIOUS
  <2> HIDE DEF p
  <2>0. payments = <<p>>
    BY <1>4 DEF payments, CashRow, p
  <2>4. row.payments = <<p>> /\ <<p>> \in Seq(PaymentRows)
    BY <1>2, <2>0, <2>1, <2>2, AppendProperties
  <2>5. row \in SaleRows
    BY <1>5, <2>0, <2>4
  <2>6. /\ CashTo(i, <<p>>) = CashTo(i, << >>) + IF p.session = i THEN p.cash ELSE 0
        /\ CashIn(i, <<p>>) = CashIn(i, << >>) + IF p.at = i THEN p.cash ELSE 0
    <3>1. /\ CashTo(i, Append(<< >>, p)) = CashTo(i, << >>) + IF p.session = i THEN p.cash ELSE 0
          /\ CashIn(i, Append(<< >>, p)) = CashIn(i, << >>) + IF p.at = i THEN p.cash ELSE 0
      BY <2>1, PaymentAdded
    <3> QED BY <2>2, <3>1
  <2>7. /\ CashTo(i, <<p>>) = IF i = j THEN paid.cash ELSE 0
        /\ CashIn(i, <<p>>) = IF i = at THEN paid.cash ELSE 0
        /\ CashOut(i, << >>) = 0 /\ CashOf(<< >>) = 0
    BY <1>1, <2>3, <2>6, NoRows
  <2>8. Held(i, row) = IF i = at THEN total - paid.other ELSE 0
    <3>1. Held(i, row) = CashIn(i, <<p>>) - (IF i = at THEN change ELSE 0) - 0
      BY <1>2, <2>2, <2>3, <2>4, <2>7 DEF Held
    <3>2. change = paid.cash + paid.other - total
      BY DEF change
    <3> QED BY <1>1, <2>7, <3>1, <3>2
  <2>9. i # j => Counted(i, row) = 0
    BY <1>2, <2>2, <2>3, <2>4, <2>7 DEF Counted, IsCashSale
  <2> QED BY <1>2, <2>2, <2>3, <2>4, <2>5, <2>8, <2>9 DEF row
<1> QED BY <1>3, <1>4

------------------------------------------------------------------------------
(***************************************************************************)
(* What a step has to show.                                                *)
(***************************************************************************)

\* The expected cash of a session, by what each sale adds.
LEMMA ExpectedNow ==
  ASSUME TillTypeOK, NEW i \in Sessions
  PROVE  /\ AllCounted(i, sale) \in Int /\ Moved(moves[i]) \in Int /\ session[i].float \in Int
         /\ Expected(i) = session[i].float + AllCounted(i, sale) + Moved(moves[i])
<1>1. sale \in [SaleRefs -> SaleRows] /\ moves[i] \in Seq(MoveRows) /\ session[i] \in SessionRows
  BY DEF TillTypeOK
<1>2. session[i].float \in Int
  <2>1. session[i].float \in Floats \cup {0}
    BY <1>1 DEF SessionRows
  <2>2. \A x \in Floats \cup {0} : x \in Int
    BY CashAssumption
  <2> QED BY <2>1, <2>2
<1>3. Moved(moves[i]) \in Int
  BY <1>1, MovedType
<1> DEFINE paid == SumFunction([s \in SaleRefs |-> CashTo(i, sale[s].payments)])
           change == SumFunction([s \in SaleRefs |->
                       IF IsCashSale(i, sale[s]) THEN sale[s].change ELSE 0])
           refunds == SumFunction([s \in SaleRefs |->
                        IF sale[s].session = i THEN CashOf(sale[s].refunds) ELSE 0])
<1>4. Expected(i) = session[i].float + paid - change - refunds + Moved(moves[i])
  BY DEF Expected, CashPaid, ChangeGiven, CashRefunded
<1>5. paid \in Int /\ change \in Int /\ refunds \in Int /\ AllCounted(i, sale) \in Int
      /\ paid - change - refunds = AllCounted(i, sale)
  BY <1>1, ExpectedIs
<1> HIDE DEF paid, change, refunds
<1> QED BY <1>2, <1>3, <1>4, <1>5

\* And after a step.
LEMMA ExpectedNext ==
  ASSUME TillTypeOK', NEW i \in Sessions
  PROVE  /\ AllCounted(i, sale') \in Int /\ Moved(moves'[i]) \in Int /\ session'[i].float \in Int
         /\ Expected(i)' = session'[i].float + AllCounted(i, sale') + Moved(moves'[i])
<1>1. sale' \in [SaleRefs -> SaleRows] /\ moves'[i] \in Seq(MoveRows) /\ session'[i] \in SessionRows
  BY DEF TillTypeOK
<1>2. session'[i].float \in Int
  <2>1. session'[i].float \in Floats \cup {0}
    BY <1>1 DEF SessionRows
  <2>2. \A x \in Floats \cup {0} : x \in Int
    BY CashAssumption
  <2> QED BY <2>1, <2>2
<1>3. Moved(moves'[i]) \in Int
  BY <1>1, MovedType
<1> DEFINE sales == sale'
           paid == SumFunction([s \in SaleRefs |-> CashTo(i, sales[s].payments)])
           change == SumFunction([s \in SaleRefs |->
                       IF IsCashSale(i, sales[s]) THEN sales[s].change ELSE 0])
           refunds == SumFunction([s \in SaleRefs |->
                        IF sales[s].session = i THEN CashOf(sales[s].refunds) ELSE 0])
<1>4. Expected(i)' = session'[i].float + paid - change - refunds + Moved(moves'[i])
  BY DEF Expected, CashPaid, ChangeGiven, CashRefunded
<1>5. paid \in Int /\ change \in Int /\ refunds \in Int /\ AllCounted(i, sales) \in Int
      /\ paid - change - refunds = AllCounted(i, sales)
  BY <1>1, ExpectedIs
<1> HIDE DEF paid, change, refunds
<1> QED BY <1>2, <1>3, <1>4, <1>5

\* A step at one sale keeps the invariant when the drawers take the difference.
LEMMA SaleChanges ==
  ASSUME TillInv, NEW s \in SaleRefs, session' = session, moves' = moves,
         sale' \in [SaleRefs -> SaleRows], offline' \in [SaleRefs -> OfflineSales],
         \A r \in SaleRefs : r # s => sale'[r] = sale[r],
         \A r \in SaleRefs : r # s => offline'[r] = offline[r],
         SaleOK(offline'[s], sale'[s]), late' \subseteq Sessions,
         drawer' \in [Places -> Int],
         \A i \in Sessions :
           /\ drawer'[i] >= 0
           /\ session[i].status = "NONE" => drawer'[i] = drawer[i]
           /\ drawer'[i] = drawer[i] + (InDrawer(i, offline'[s], sale'[s])
                                         - InDrawer(i, offline[s], sale[s]))
  PROVE  TillInv'
<1>1. TillTypeOK /\ OneOpen /\ Unopened /\ SalesOK /\ DrawersHold
  BY DEF TillInv
<1>2. TillTypeOK'
  BY <1>1 DEF TillTypeOK
<1>3. OneOpen'
  BY <1>1 DEF OneOpen, Open
<1>4. Unopened'
  BY <1>1 DEF Unopened
<1>5. SalesOK'
  <2>1. \A r \in SaleRefs : SaleOK(offline[r], sale[r])
    BY <1>1 DEF SalesOK
  <2>2. \A r \in SaleRefs : SaleOK(offline'[r], sale'[r])
    BY <2>1
  <2> QED BY <2>2 DEF SalesOK
<1>6. ASSUME NEW i \in Sessions
      PROVE  drawer'[i] = session'[i].float + AllInDrawer(i, offline', sale') + Moved(moves'[i])
  <2>1. sale \in [SaleRefs -> SaleRows] /\ offline \in [SaleRefs -> OfflineSales]
        /\ drawer[i] \in Int
    BY <1>1 DEF TillTypeOK, Places
  <2> DEFINE sum == AllInDrawer(i, offline, sale)
             next == AllInDrawer(i, offline', sale')
             before == InDrawer(i, offline[s], sale[s])
             after == InDrawer(i, offline'[s], sale'[s])
  <2>2. sum \in Int /\ next = sum + (after - before)
    BY <2>1, DrawerChange
  <2>3. before \in Int /\ after \in Int
    BY <2>1, DrawerSums
  <2>4. drawer[i] = session[i].float + sum + Moved(moves[i])
    BY <1>1 DEF DrawersHold
  <2>5. session[i].float \in Int /\ Moved(moves[i]) \in Int
    BY <1>1, ExpectedNow
  <2>6. drawer'[i] = drawer[i] + (after - before)
    OBVIOUS
  <2> HIDE DEF sum, next, before, after
  <2>7. drawer'[i] = session[i].float + next + Moved(moves[i])
    BY <2>1, <2>2, <2>3, <2>4, <2>5, <2>6
  <2> QED BY <2>7 DEF next
<1>7. DrawersHold'
  BY <1>6 DEF DrawersHold
<1> QED BY <1>2, <1>3, <1>4, <1>5, <1>7 DEF TillInv

\* And the stored expected cash when a closed session it does not add to counts the same.
LEMMA RecordChanges ==
  ASSUME TillTypeOK, TillTypeOK', RecordedIsExpected, NEW s \in SaleRefs,
         session' = session, moves' = moves, late \subseteq late',
         \A r \in SaleRefs : r # s => sale'[r] = sale[r],
         \A i \in Sessions : session[i].status = "CLOSED" /\ i \notin late'
                               => Counted(i, sale'[s]) = Counted(i, sale[s])
  PROVE  RecordedIsExpected'
<1>1. SUFFICES ASSUME NEW i \in Sessions, session[i].status = "CLOSED", i \notin late'
               PROVE  session[i].expected = Expected(i)'
  BY DEF RecordedIsExpected
<1>2. session[i].expected = Expected(i)
  BY <1>1 DEF RecordedIsExpected
<1>3. sale \in [SaleRefs -> SaleRows] /\ sale' \in [SaleRefs -> SaleRows]
  BY DEF TillTypeOK
<1> DEFINE counted == Counted(i, sale[s])
<1>4. AllCounted(i, sale') = AllCounted(i, sale) + (Counted(i, sale'[s]) - Counted(i, sale[s]))
  BY <1>3, CountedChange
<1>5. counted \in Int /\ Counted(i, sale'[s]) = counted
  BY <1>1, <1>3, SaleSums
<1>6. AllCounted(i, sale) \in Int
  BY ExpectedNow
<1> HIDE DEF counted
<1>7. AllCounted(i, sale') = AllCounted(i, sale)
  BY <1>4, <1>5, <1>6 DEF counted
<1> QED BY <1>2, <1>7, ExpectedNow, ExpectedNext

\* Money that is put into an open drawer, or elsewhere, is the only change of the drawers.
LEMMA PutChanges ==
  ASSUME TillTypeOK, NEW at \in Open \cup {NoSession}, NEW amount \in Int, Put(at, amount)
  PROVE  /\ drawer' \in [Places -> Int]
         /\ \A i \in Sessions :
              /\ drawer'[i] >= 0
              /\ session[i].status = "NONE" => drawer'[i] = drawer[i]
              /\ drawer'[i] = drawer[i] + IF i = at THEN amount ELSE 0
<1>1. /\ drawer \in [Places -> Int] /\ \A i \in Sessions : drawer[i] \in Int /\ drawer[i] >= 0
      /\ at \in Places /\ (at \in Sessions => session[at].status = "OPEN")
      /\ (at \in Sessions \/ at \notin Sessions)
  BY NoSessionAssumption DEF TillTypeOK, Places, Open
<1>2. (at \in Sessions => drawer[at] + amount >= 0)
      /\ drawer' = [drawer EXCEPT ![at] = drawer[at] + amount]
  BY DEF Put
<1>3. drawer[at] + amount \in Int
  BY <1>1
<1>4. drawer' \in [Places -> Int]
  BY <1>1, <1>2, <1>3
<1>5. ASSUME NEW i \in Sessions
      PROVE  /\ drawer'[i] >= 0
             /\ session[i].status = "NONE" => drawer'[i] = drawer[i]
             /\ drawer'[i] = drawer[i] + IF i = at THEN amount ELSE 0
  <2>1. i \in Places
    BY DEF Places
  <2>2. CASE i = at
    <3>1. drawer'[i] = drawer[i] + amount
      BY <1>1, <1>2, <2>1, <2>2
    <3> QED BY <1>1, <1>2, <2>2, <3>1
  <2>3. CASE i # at
    <3>1. drawer'[i] = drawer[i]
      BY <1>1, <1>2, <2>1, <2>3
    <3> QED BY <1>1, <2>3, <3>1
  <2> QED BY <2>2, <2>3
<1> QED BY <1>4, <1>5

------------------------------------------------------------------------------
(***************************************************************************)
(* The steps of a session.                                                 *)
(***************************************************************************)

\* Opening a session finds its drawer empty and no other session at its till.
LEMMA OpenSessionKeeps ==
  ASSUME TillInv, RecordedIsExpected, NEW j \in Sessions, NEW r \in Registers, NEW float \in Floats,
         OpenSession(j, r, float)
  PROVE  TillInv' /\ RecordedIsExpected'
<1> DEFINE row == [status |-> "OPEN", register |-> r, float |-> float, expected |-> 0]
<1>1. TillTypeOK /\ OneOpen /\ Unopened /\ SalesOK /\ DrawersHold
  BY DEF TillInv
<1>2. /\ session[j].status = "NONE" /\ OpenAt(r) = {}
      /\ session' = [session EXCEPT ![j] = row] /\ drawer' = [drawer EXCEPT ![j] = float]
      /\ moves' = moves /\ offline' = offline /\ sale' = sale /\ late' = late
  BY DEF OpenSession, MayOpen
<1>3. /\ session \in [Sessions -> SessionRows] /\ drawer \in [Places -> Int]
      /\ \A i \in Sessions : drawer[i] >= 0
      /\ j \in Places /\ float \in Int /\ float >= 0
  BY <1>1, CashAssumption DEF TillTypeOK, Places
<1>4. row \in SessionRows
  BY DEF SessionRows
<1>5. /\ session'[j] = row /\ drawer'[j] = float
      /\ \A i \in Sessions : i # j => session'[i] = session[i] /\ drawer'[i] = drawer[i]
  BY <1>2, <1>3 DEF Places
<1>6. row.status = "OPEN" /\ row.register = r /\ row.float = float
  OBVIOUS
<1>7. session' \in [Sessions -> SessionRows] /\ drawer' \in [Places -> Int]
  BY <1>2, <1>3, <1>4
<1> HIDE DEF row
<1>8. TillTypeOK'
  <2>1. \A i \in Sessions : drawer'[i] >= 0
    BY <1>3, <1>5
  <2> QED BY <1>1, <1>2, <1>7, <2>1 DEF TillTypeOK
<1>9. OneOpen'
  <2>1. SUFFICES ASSUME NEW i \in Sessions, NEW k \in Sessions,
                        session'[i].status = "OPEN", session'[k].status = "OPEN",
                        session'[i].register = session'[k].register
                 PROVE  i = k
    BY DEF OneOpen, Open
  <2>2. ASSUME NEW x \in Sessions, x # j, session'[x].status = "OPEN"
        PROVE  x \in Open /\ session[x].register # r /\ session'[x] = session[x]
    BY <1>2, <1>5, <2>2 DEF Open, OpenAt
  <2> QED BY <1>1, <1>5, <1>6, <2>1, <2>2 DEF OneOpen
<1>10. Unopened'
  BY <1>1, <1>5, <1>6 DEF Unopened
<1>11. SalesOK'
  BY <1>1, <1>2 DEF SalesOK
<1>12. DrawersHold'
  <2>1. SUFFICES ASSUME NEW i \in Sessions
                 PROVE  drawer'[i] = session'[i].float + AllInDrawer(i, offline, sale) + Moved(moves[i])
    BY <1>2 DEF DrawersHold
  <2>2. drawer[i] = session[i].float + AllInDrawer(i, offline, sale) + Moved(moves[i])
    BY <1>1 DEF DrawersHold
  <2>3. CASE i # j
    BY <1>5, <2>2, <2>3
  <2>4. CASE i = j
    <3>1. session[i].float = 0 /\ drawer[i] = 0
      BY <1>1, <1>2, <2>4 DEF Unopened
    <3>2. AllInDrawer(i, offline, sale) \in Int
      BY <1>1, DrawerTypes DEF TillTypeOK
    <3>3. Moved(moves[i]) \in Int
      BY <1>1, ExpectedNow
    <3>4. drawer'[i] = float /\ session'[i].float = float
      BY <1>5, <1>6, <2>4
    <3> QED BY <1>3, <2>2, <3>1, <3>2, <3>3, <3>4
  <2> QED BY <2>3, <2>4
<1>13. RecordedIsExpected'
  <2>1. SUFFICES ASSUME NEW i \in Sessions, session'[i].status = "CLOSED", i \notin late
                 PROVE  session'[i].expected = Expected(i)'
    BY <1>2 DEF RecordedIsExpected
  <2>2. i # j /\ session'[i] = session[i]
    BY <1>5, <1>6, <2>1
  <2>3. session[i].expected = Expected(i)
    BY <2>1, <2>2 DEF RecordedIsExpected
  <2> QED BY <1>1, <1>2, <1>8, <2>2, <2>3, ExpectedNow, ExpectedNext
<1> QED BY <1>8, <1>9, <1>10, <1>11, <1>12, <1>13 DEF TillInv

\* A movement is in the drawer as it is in the rows.
LEMMA MoveCashKeeps ==
  ASSUME TillInv, RecordedIsExpected, NEW j \in Sessions, NEW move \in MoveRows, MoveCash(j, move)
  PROVE  TillInv' /\ RecordedIsExpected'
<1> DEFINE amount == MoveEffect(move)
           rows == moves[j]
<1>1. TillTypeOK /\ OneOpen /\ Unopened /\ SalesOK /\ DrawersHold
  BY DEF TillInv
<1>2. /\ j \in Open /\ moves' = [moves EXCEPT ![j] = Append(rows, move)] /\ Put(j, amount)
      /\ session' = session /\ offline' = offline /\ sale' = sale /\ late' = late
  BY DEF MoveCash
<1>3. moves \in [Sessions -> Seq(MoveRows)] /\ rows \in Seq(MoveRows)
  BY <1>1 DEF TillTypeOK
<1>4. amount \in Int /\ Moved(Append(rows, move)) = Moved(rows) + amount /\ Moved(rows) \in Int
  BY <1>3, MoveAdded
<1> HIDE DEF amount
<1>5. /\ drawer' \in [Places -> Int]
      /\ \A i \in Sessions :
           /\ drawer'[i] >= 0
           /\ session[i].status = "NONE" => drawer'[i] = drawer[i]
           /\ drawer'[i] = drawer[i] + IF i = j THEN amount ELSE 0
  BY <1>1, <1>2, <1>4, PutChanges
<1>6. moves' \in [Sessions -> Seq(MoveRows)] /\ moves'[j] = Append(rows, move)
      /\ \A i \in Sessions : i # j => moves'[i] = moves[i]
  BY <1>2, <1>3, AppendProperties
<1>7. TillTypeOK'
  BY <1>1, <1>2, <1>5, <1>6 DEF TillTypeOK
<1>8. OneOpen' /\ SalesOK'
  BY <1>1, <1>2 DEF OneOpen, Open, SalesOK
<1>9. Unopened'
  BY <1>1, <1>2, <1>5 DEF Unopened
<1>10. DrawersHold'
  <2>1. SUFFICES ASSUME NEW i \in Sessions
                 PROVE  drawer'[i] = session[i].float + AllInDrawer(i, offline, sale) + Moved(moves'[i])
    BY <1>2 DEF DrawersHold
  <2> DEFINE sum == AllInDrawer(i, offline, sale)
  <2>2. drawer[i] = session[i].float + sum + Moved(moves[i])
    BY <1>1 DEF DrawersHold
  <2>3. sum \in Int
    BY <1>1, DrawerTypes DEF TillTypeOK
  <2>4. session[i].float \in Int /\ Moved(moves[i]) \in Int
    BY <1>1, ExpectedNow
  <2> HIDE DEF sum
  <2>5. CASE i # j
    <3>1. drawer'[i] = drawer[i] + 0 /\ moves'[i] = moves[i]
      BY <1>5, <1>6, <2>5
    <3>2. drawer'[i] = session[i].float + sum + Moved(moves'[i])
      BY <2>2, <2>3, <2>4, <3>1
    <3> QED BY <3>2 DEF sum
  <2>6. CASE i = j
    <3>1. drawer'[i] = drawer[i] + amount /\ Moved(moves'[i]) = Moved(moves[i]) + amount
      BY <1>4, <1>5, <1>6, <2>6
    <3>2. drawer'[i] = session[i].float + sum + Moved(moves'[i])
      BY <1>4, <2>2, <2>3, <2>4, <3>1
    <3> QED BY <3>2 DEF sum
  <2> QED BY <2>5, <2>6
<1>11. RecordedIsExpected'
  <2>1. SUFFICES ASSUME NEW i \in Sessions, session[i].status = "CLOSED", i \notin late
                 PROVE  session[i].expected = Expected(i)'
    BY <1>2 DEF RecordedIsExpected
  <2>2. i # j /\ moves'[i] = moves[i]
    BY <1>2, <1>6, <2>1 DEF Open
  <2>3. session[i].expected = Expected(i)
    BY <2>1 DEF RecordedIsExpected
  <2> QED BY <1>1, <1>2, <1>7, <2>2, <2>3, ExpectedNow, ExpectedNext
<1> QED BY <1>7, <1>8, <1>9, <1>10, <1>11 DEF TillInv

\* The close stores what is expected, and changes nothing that it depends on.
LEMMA CloseSessionKeeps ==
  ASSUME TillInv, RecordedIsExpected, NEW j \in Sessions, CloseSession(j)
  PROVE  TillInv' /\ RecordedIsExpected'
<1>1. TillTypeOK /\ OneOpen /\ Unopened /\ SalesOK /\ DrawersHold
  BY DEF TillInv
<1> DEFINE row == [session[j] EXCEPT !.status = "CLOSED", !.expected = Expected(j)]
<1>2. /\ session[j].status = "OPEN" /\ session' = [session EXCEPT ![j] = row]
      /\ moves' = moves /\ offline' = offline /\ sale' = sale /\ drawer' = drawer /\ late' = late
  <2>1. session' = [session EXCEPT ![j].status = "CLOSED", ![j].expected = Expected(j)]
    BY DEF CloseSession
  <2>2. session \in [Sessions -> SessionRows]
    BY <1>1 DEF TillTypeOK
  <2>3. session' = [session EXCEPT ![j] = row]
    BY <2>1, <2>2
  <2> QED BY <2>3 DEF CloseSession, Open
<1>3. session \in [Sessions -> SessionRows] /\ session[j] \in SessionRows
  BY <1>1 DEF TillTypeOK
<1>4. Expected(j) \in Int
  BY <1>1, ExpectedNow
<1>5. /\ row \in SessionRows /\ row.status = "CLOSED" /\ row.expected = Expected(j)
      /\ row.float = session[j].float /\ row.register = session[j].register
  BY <1>3, <1>4 DEF SessionRows
<1> HIDE DEF row
<1>6. /\ session' \in [Sessions -> SessionRows] /\ session'[j] = row
      /\ \A i \in Sessions : i # j => session'[i] = session[i]
  BY <1>2, <1>3, <1>5
<1>7. TillTypeOK'
  BY <1>1, <1>2, <1>6 DEF TillTypeOK
<1>8. OneOpen'
  <2>1. ASSUME NEW i \in Sessions, session'[i].status = "OPEN"
        PROVE  i \in Open /\ session'[i] = session[i]
    BY <1>5, <1>6, <2>1 DEF Open
  <2> QED BY <1>1, <2>1 DEF OneOpen, Open
<1>9. Unopened' /\ SalesOK'
  BY <1>1, <1>2, <1>5, <1>6 DEF Unopened, SalesOK
<1>10. DrawersHold'
  <2>1. \A i \in Sessions : session'[i].float = session[i].float
    BY <1>5, <1>6
  <2> QED BY <1>1, <1>2, <2>1 DEF DrawersHold
<1>11. RecordedIsExpected'
  <2>1. SUFFICES ASSUME NEW i \in Sessions, session'[i].status = "CLOSED", i \notin late
                 PROVE  session'[i].expected = Expected(i)'
    BY <1>2 DEF RecordedIsExpected
  <2>2. session'[i].float = session[i].float
    BY <1>5, <1>6
  <2>3. Expected(i)' = Expected(i)
    BY <1>1, <1>2, <1>7, <2>2, ExpectedNow, ExpectedNext
  <2>4. session'[i].expected = Expected(i)
    BY <1>5, <1>6, <2>1 DEF RecordedIsExpected
  <2> QED BY <2>3, <2>4
<1> QED BY <1>7, <1>8, <1>9, <1>10, <1>11 DEF TillInv

------------------------------------------------------------------------------
(***************************************************************************)
(* The steps of a sale.                                                    *)
(***************************************************************************)

\* The types a sale step starts from.
LEMMA SaleTypes ==
  ASSUME TillInv, NEW s \in SaleRefs
  PROVE  /\ sale \in [SaleRefs -> SaleRows] /\ sale[s] \in SaleRows
         /\ offline \in [SaleRefs -> OfflineSales] /\ offline[s] \in OfflineSales
         /\ late \subseteq Sessions /\ SaleOK(offline[s], sale[s])
         /\ (sale[s].status = "NONE" => sale[s] = NoSale)
<1>1. TillTypeOK /\ SalesOK
  BY DEF TillInv
<1>2. SaleOK(offline[s], sale[s])
  BY <1>1 DEF SalesOK
<1>3. sale[s].status = "NONE" => sale[s] = NoSale
  BY <1>2 DEF SaleOK
<1> QED BY <1>1, <1>2, <1>3 DEF TillTypeOK

\* A new row of a sale, written to the table.
LEMMA SaleWritten ==
  ASSUME TillInv, NEW s \in SaleRefs, NEW row \in SaleRows, sale' = [sale EXCEPT ![s] = row]
  PROVE  /\ sale' \in [SaleRefs -> SaleRows] /\ sale'[s] = row
         /\ \A r \in SaleRefs : r # s => sale'[r] = sale[r]
<1>1. sale \in [SaleRefs -> SaleRows]
  BY SaleTypes
<1> QED BY <1>1

\* The money of a booking: the drawers take it, unless they have it since the sale was
\* made offline.
DrawersBook(s, at, total, paid) ==
  /\ drawer' \in [Places -> Int]
  /\ \A i \in Sessions :
       /\ drawer'[i] >= 0
       /\ session[i].status = "NONE" => drawer'[i] = drawer[i]
       /\ drawer'[i] = drawer[i] + ((IF i = at THEN total - paid.other ELSE 0)
            - (IF offline[s].made /\ offline[s].at = i
               THEN offline[s].total - offline[s].paid.other ELSE 0))

\* A sale is booked: what is put into the drawer, or was when it was made, is its cash.
LEMMA BookingKeeps ==
  ASSUME TillInv, RecordedIsExpected, NEW s \in SaleRefs, NEW j \in Places, NEW at \in Places,
         NEW total \in Totals \cup {0}, NEW paid \in PaidRows, MayPay(total, paid),
         sale[s].status = "NONE", sale' = [sale EXCEPT ![s] = Booked(j, total, paid, at)],
         session' = session, moves' = moves, offline' = offline,
         late \subseteq late', late' \subseteq Sessions, j \in Sessions => j \in Open \cup late',
         SaleOK(offline[s], Booked(j, total, paid, at)),
         DrawersBook(s, at, total, paid)
  PROVE  TillInv' /\ RecordedIsExpected'
<1> DEFINE row == Booked(j, total, paid, at)
           off == offline[s]
<1>1. /\ sale \in [SaleRefs -> SaleRows] /\ offline \in [SaleRefs -> OfflineSales]
      /\ off \in OfflineSales /\ sale[s] = NoSale
  BY SaleTypes
<1>2. TillTypeOK
  BY DEF TillInv
<1>3. /\ NoSale \in SaleRows
      /\ \A i \in Sessions : Counted(i, NoSale) = 0 /\ Held(i, NoSale) = 0
  BY NothingYet
<1>4. ASSUME NEW i \in Sessions
      PROVE  /\ row \in SaleRows /\ row.status = "COMPLETED"
             /\ (i # j => Counted(i, row) = 0)
             /\ Held(i, row) = IF i = at THEN total - paid.other ELSE 0
  BY BookedIs
<1>5. row \in SaleRows
  <2>1. NoSession \in Places
    BY DEF Places
  <2> QED BY <2>1, BookedIs
<1>6. SaleOK(off, row)
  OBVIOUS
<1>7. /\ sale' \in [SaleRefs -> SaleRows] /\ sale'[s] = row
      /\ \A r \in SaleRefs : r # s => sale'[r] = sale[r]
  BY <1>5, SaleWritten
<1>8. ASSUME NEW i \in Sessions
      PROVE  /\ drawer'[i] >= 0
             /\ session[i].status = "NONE" => drawer'[i] = drawer[i]
             /\ drawer'[i] = drawer[i] + (InDrawer(i, off, row) - InDrawer(i, off, NoSale))
  <2> DEFINE new == IF i = at THEN total - paid.other ELSE 0
             old == IF off.made /\ off.at = i THEN off.total - off.paid.other ELSE 0
  <2>1. InDrawer(i, off, row) = Held(i, row) + 0
    BY <1>4 DEF InDrawer
  <2>2. InDrawer(i, off, NoSale) = Held(i, NoSale) + old
    BY DEF InDrawer, NoSale
  <2>3. Held(i, row) = new /\ Held(i, NoSale) = 0 /\ Held(i, row) \in Int
    BY <1>3, <1>4, SaleSums
  <2>4. InDrawer(i, off, NoSale) \in Int /\ InDrawer(i, off, row) \in Int
    BY <1>1, <1>3, <1>5, DrawerSums
  <2>5. /\ drawer'[i] >= 0 /\ (session[i].status = "NONE" => drawer'[i] = drawer[i])
        /\ drawer'[i] = drawer[i] + (new - old)
    BY DEF DrawersBook
  <2> HIDE DEF new, old, row
  <2>6. old \in Int
    <3>1. off.total \in Totals \cup {0}
      BY <1>1 DEF OfflineSales
    <3>2. off.paid \in PaidRows
      BY <1>1 DEF OfflineSales
    <3>3. off.paid.other \in Nat
      BY <3>2 DEF PaidRows
    <3>4. \A x \in Totals \cup {0} : x \in Nat
      BY CashAssumption
    <3>5. off.total \in Nat
      BY <3>1, <3>4
    <3> QED BY <3>3, <3>5 DEF old
  <2>7. InDrawer(i, off, row) = new /\ InDrawer(i, off, NoSale) = old
    BY <2>1, <2>2, <2>3, <2>6
  <2> QED BY <2>5, <2>7
<1>9. TillInv'
  <2>1. /\ offline' \in [SaleRefs -> OfflineSales] /\ offline'[s] = off
        /\ \A r \in SaleRefs : r # s => offline'[r] = offline[r]
    BY <1>1
  <2>2. ASSUME NEW i \in Sessions
        PROVE  /\ drawer'[i] >= 0
               /\ session[i].status = "NONE" => drawer'[i] = drawer[i]
               /\ drawer'[i] = drawer[i] + (InDrawer(i, offline'[s], sale'[s])
                                            - InDrawer(i, offline[s], sale[s]))
    BY <1>1, <1>7, <1>8, <2>1
  <2>3. SaleOK(offline'[s], sale'[s])
    BY <1>6, <1>7, <2>1
  <2> HIDE DEF off, row
  <2>4. drawer' \in [Places -> Int]
    BY DEF DrawersBook
  <2> QED BY <1>7, <2>1, <2>2, <2>3, <2>4, SaleChanges
<1>10. RecordedIsExpected'
  <2>1. TillTypeOK'
    BY <1>9 DEF TillInv
  <2>2. ASSUME NEW i \in Sessions, session[i].status = "CLOSED", i \notin late'
        PROVE  Counted(i, sale'[s]) = Counted(i, sale[s])
    <3>1. i # j
      BY <2>2 DEF Open
    <3> QED BY <1>1, <1>3, <1>4, <1>7, <3>1
  <2> QED BY <1>2, <1>7, <2>1, <2>2, RecordChanges
<1> QED BY <1>9, <1>10

\* A booking fits the offline sale of its reference, if there is one.
LEMMA BookedOK ==
  ASSUME NEW off, SaleOK(off, NoSale), NEW j \in Places, NEW at \in Places,
         NEW total \in Totals \cup {0}, NEW paid \in PaidRows, MayPay(total, paid),
         at = (IF off.made THEN off.at ELSE j),
         off.made /\ off.claim \in Sessions => j = off.claim /\ off.inTime
  PROVE  SaleOK(off, Booked(j, total, paid, at))
<1> DEFINE row == Booked(j, total, paid, at)
<1>1. /\ row.status = "COMPLETED" /\ row.session = j
      /\ \A n \in DOMAIN row.payments :
           LET p == row.payments[n] IN ~p.deposit /\ p.session = j /\ p.at = at
      /\ Held(NoSession, row) = IF NoSession = at THEN total - paid.other ELSE 0
  BY BookedIs
<1> HIDE DEF row
<1>2. /\ off.inTime => off.claim \in Sessions /\ off.claim = off.at
      /\ off.made => MayPay(off.total, off.paid)
  BY DEF SaleOK
<1>3. SaleOK(off, row)
  BY <1>1, <1>2 DEF SaleOK
<1> QED BY <1>3 DEF row

\* A sale at a till is in the drawer of the session it is booked to.
LEMMA SaleAtTillKeeps ==
  ASSUME TillInv, RecordedIsExpected, NEW s \in SaleRefs, NEW r \in Registers,
         NEW total \in Totals, NEW paid \in Tenders, SaleAtTill(s, r, total, paid)
  PROVE  TillInv' /\ RecordedIsExpected'
<1>1. /\ sale[s].status = "NONE" /\ ~offline[s].made /\ MayPay(total, paid)
      /\ session' = session /\ moves' = moves /\ offline' = offline /\ late' = late
  BY DEF SaleAtTill
<1>2. PICK at \in OpenAt(r), i \in OpenAt(r) :
        /\ sale' = [sale EXCEPT ![s] = Booked(i, total, paid, at)]
        /\ Put(at, total - paid.other)
  BY DEF SaleAtTill
<1>3. TillTypeOK /\ OneOpen
  BY DEF TillInv
<1>4. i \in Open /\ at = i /\ i \in Places
  BY <1>3 DEF OneOpen, OpenAt, Open, Places
<1>5. total \in Nat /\ paid \in PaidRows /\ paid.other \in Nat /\ total \in Totals \cup {0}
  BY CashAssumption DEF PaidRows
<1> DEFINE amount == total - paid.other
<1>6. amount \in Int
  BY <1>5
<1>7. /\ drawer' \in [Places -> Int]
      /\ \A k \in Sessions :
           /\ drawer'[k] >= 0
           /\ session[k].status = "NONE" => drawer'[k] = drawer[k]
           /\ drawer'[k] = drawer[k] + IF k = i THEN amount ELSE 0
  <2>1. Put(i, amount) /\ i \in Open \cup {NoSession}
    BY <1>2, <1>4
  <2> HIDE DEF amount
  <2> QED BY <1>3, <1>6, <2>1, PutChanges
<1>8. ASSUME NEW k \in Sessions
      PROVE  drawer'[k] = drawer[k] + ((IF k = i THEN total - paid.other ELSE 0)
                - (IF offline[s].made /\ offline[s].at = k
                   THEN offline[s].total - offline[s].paid.other ELSE 0))
  <2>1. (IF k = i THEN amount ELSE 0) - 0 = IF k = i THEN amount ELSE 0
    BY <1>6
  <2> QED BY <1>1, <1>7, <2>1
<1>9. SaleOK(offline[s], Booked(i, total, paid, i))
  <2>1. SaleOK(offline[s], NoSale)
    BY <1>1, SaleTypes
  <2> QED BY <1>1, <1>4, <1>5, <2>1, BookedOK
<1>10. late \subseteq late' /\ late' \subseteq Sessions
  BY <1>1, SaleTypes
<1>11. sale' = [sale EXCEPT ![s] = Booked(i, total, paid, i)]
  BY <1>2, <1>4
<1>12. DrawersBook(s, i, total, paid)
  BY <1>7, <1>8 DEF DrawersBook
<1> HIDE DEF amount
<1> QED BY <1>1, <1>4, <1>5, <1>9, <1>10, <1>11, <1>12, BookingKeeps

\* A sale without a till is in no drawer.
LEMMA SaleWithoutTillKeeps ==
  ASSUME TillInv, RecordedIsExpected, NEW s \in SaleRefs, NEW total \in Totals, NEW paid \in Tenders,
         SaleWithoutTill(s, total, paid)
  PROVE  TillInv' /\ RecordedIsExpected'
<1> DEFINE amount == total - paid.other
           i == NoSession
<1>1. /\ sale[s].status = "NONE" /\ ~offline[s].made /\ MayPay(total, paid)
      /\ session' = session /\ moves' = moves /\ offline' = offline /\ late' = late
      /\ sale' = [sale EXCEPT ![s] = Booked(i, total, paid, i)]
      /\ Put(i, amount)
  BY DEF SaleWithoutTill
<1>3. TillTypeOK
  BY DEF TillInv
<1>4. i \notin Sessions /\ i \in Places /\ i \in Open \cup {NoSession}
  BY NoSessionAssumption DEF Places
<1>5. total \in Nat /\ paid \in PaidRows /\ paid.other \in Nat /\ total \in Totals \cup {0}
  BY CashAssumption DEF PaidRows
<1>6. amount \in Int
  BY <1>5
<1> HIDE DEF i
<1>7. /\ drawer' \in [Places -> Int]
      /\ \A k \in Sessions :
           /\ drawer'[k] >= 0
           /\ session[k].status = "NONE" => drawer'[k] = drawer[k]
           /\ drawer'[k] = drawer[k] + IF k = i THEN amount ELSE 0
  <2> HIDE DEF amount
  <2> QED BY <1>1, <1>3, <1>4, <1>6, PutChanges
<1>8. ASSUME NEW k \in Sessions
      PROVE  drawer'[k] = drawer[k] + ((IF k = i THEN total - paid.other ELSE 0)
                - (IF offline[s].made /\ offline[s].at = k
                   THEN offline[s].total - offline[s].paid.other ELSE 0))
  <2>1. (IF k = i THEN amount ELSE 0) - 0 = IF k = i THEN amount ELSE 0
    BY <1>6
  <2> QED BY <1>1, <1>7, <2>1
<1>9. SaleOK(offline[s], Booked(i, total, paid, i))
  <2>1. SaleOK(offline[s], NoSale)
    BY <1>1, SaleTypes
  <2> QED BY <1>1, <1>4, <1>5, <2>1, BookedOK
<1>10. late \subseteq late' /\ late' \subseteq Sessions
  BY <1>1, SaleTypes
<1>11. i \in Sessions => i \in Open \cup late'
  BY <1>4
<1>12. DrawersBook(s, i, total, paid)
  BY <1>7, <1>8 DEF DrawersBook
<1>13. i \in Places
  BY <1>4
<1>14. /\ paid \in PaidRows /\ total \in Totals \cup {0} /\ MayPay(total, paid)
       /\ sale[s].status = "NONE" /\ session' = session /\ moves' = moves /\ offline' = offline
       /\ sale' = [sale EXCEPT ![s] = Booked(i, total, paid, i)]
  BY <1>1, <1>5
<1> HIDE DEF amount
<1> QED BY <1>9, <1>10, <1>11, <1>12, <1>13, <1>14, BookingKeeps

\* An offline sale is booked to the session it names, which was the one of its drawer,
\* or to the one that is open now.
LEMMA BookOfflineKeeps ==
  ASSUME TillInv, RecordedIsExpected, NEW s \in SaleRefs, BookOffline(s)
  PROVE  TillInv' /\ RecordedIsExpected'
<1> DEFINE o == offline[s]
<1>1. /\ o.made /\ sale[s].status = "NONE"
      /\ session' = session /\ moves' = moves /\ offline' = offline /\ drawer' = drawer
  BY DEF BookOffline
<1>2. PICK i \in SessionsFor(o) :
        /\ sale' = [sale EXCEPT ![s] = Booked(i, o.total, o.paid, o.at)]
        /\ late' = late \cup ({i} \cap (Sessions \ Open))
  BY DEF BookOffline, Attach
<1>3. TillTypeOK /\ SaleOK(o, NoSale) /\ o \in OfflineSales
  BY <1>1, SaleTypes DEF TillInv
<1>4. o.total \in Totals \cup {0} /\ o.paid \in PaidRows /\ o.at \in Places /\ MayPay(o.total, o.paid)
  BY <1>1, <1>3 DEF OfflineSales, SaleOK
<1>5. /\ i \in Places /\ (i \in Sessions => i \in Open \cup late')
      /\ (o.claim \in Sessions => i = o.claim /\ o.inTime)
  BY <1>2 DEF SessionsFor, OpenAt, Open, Places
<1>6. SaleOK(o, Booked(i, o.total, o.paid, o.at))
  <2> HIDE DEF o
  <2> QED BY <1>1, <1>3, <1>4, <1>5, BookedOK
<1>7. late \subseteq late' /\ late' \subseteq Sessions
  BY <1>2, SaleTypes
<1>8. drawer' \in [Places -> Int] /\ \A k \in Sessions : drawer[k] \in Int /\ drawer[k] >= 0
  BY <1>1, <1>3 DEF TillTypeOK, Places
<1>9. ASSUME NEW k \in Sessions
      PROVE  /\ drawer'[k] >= 0
             /\ session[k].status = "NONE" => drawer'[k] = drawer[k]
             /\ drawer'[k] = drawer[k] + ((IF k = o.at THEN o.total - o.paid.other ELSE 0)
                  - (IF o.made /\ o.at = k THEN o.total - o.paid.other ELSE 0))
  <2> DEFINE amount == IF k = o.at THEN o.total - o.paid.other ELSE 0
             again == IF o.made /\ o.at = k THEN o.total - o.paid.other ELSE 0
  <2>1. amount \in Int
    <3>1. \A x \in Totals \cup {0} : x \in Nat
      BY CashAssumption
    <3>2. o.total \in Nat /\ o.paid.other \in Nat
      BY <1>4, <3>1 DEF PaidRows
    <3> QED BY <3>2
  <2>2. again = amount
    BY <1>1
  <2> HIDE DEF amount, again
  <2>3. drawer[k] = drawer[k] + (amount - again)
    BY <1>8, <2>1, <2>2
  <2> QED BY <1>1, <1>8, <2>3 DEF amount, again
<1>10. i \in Places /\ (i \in Sessions => i \in Open \cup late')
  BY <1>5
<1> DEFINE total == o.total
           paid == o.paid
           at == o.at
<1>11. /\ total \in Totals \cup {0} /\ paid \in PaidRows /\ at \in Places /\ MayPay(total, paid)
       /\ sale' = [sale EXCEPT ![s] = Booked(i, total, paid, at)]
       /\ SaleOK(offline[s], Booked(i, total, paid, at))
  BY <1>2, <1>4, <1>6
<1>12. DrawersBook(s, at, total, paid)
  BY <1>8, <1>9 DEF DrawersBook
<1> HIDE DEF o, total, paid, at
<1> QED BY <1>1, <1>7, <1>10, <1>11, <1>12, BookingKeeps

\* A sale made offline is in the drawer before it is booked.
LEMMA SellOfflineKeeps ==
  ASSUME TillInv, RecordedIsExpected, NEW s \in SaleRefs, NEW r \in Registers, NEW claim \in Places,
         NEW total \in Totals, NEW paid \in Tenders, SellOffline(s, r, claim, total, paid)
  PROVE  TillInv' /\ RecordedIsExpected'
<1> DEFINE amount == total - paid.other
           off(at) == [made |-> TRUE, register |-> r, claim |-> claim, inTime |-> claim \in Open,
                       at |-> at, total |-> total, paid |-> paid]
<1>1. /\ sale[s].status = "NONE" /\ ~offline[s].made /\ MayPay(total, paid)
      /\ (claim \in Sessions => session[claim].register = r)
      /\ session' = session /\ moves' = moves /\ sale' = sale /\ late' = late
  BY DEF SellOffline
<1>2. PICK at \in IF OpenAt(r) = {} THEN {NoSession} ELSE OpenAt(r) :
        offline' = [offline EXCEPT ![s] = off(at)] /\ Put(at, amount)
  BY DEF SellOffline
<1>3. TillTypeOK /\ OneOpen
  BY DEF TillInv
<1>4. at \in Open \cup {NoSession} /\ at \in Places
  BY <1>2 DEF OpenAt, Open, Places
<1>5. total \in Nat /\ paid \in PaidRows /\ paid.other \in Nat /\ total \in Totals \cup {0}
  BY CashAssumption DEF PaidRows
<1>6. amount \in Int
  BY <1>5
<1> DEFINE row == off(at)
<1>7. /\ row \in OfflineSales /\ row.made /\ row.claim = claim /\ row.at = at
      /\ row.total = total /\ row.paid = paid /\ row.inTime = (claim \in Open)
  BY <1>4, <1>5 DEF OfflineSales
<1>8. offline' = [offline EXCEPT ![s] = row]
  BY <1>2
<1> HIDE DEF row, off
<1>9. /\ sale[s] = NoSale /\ offline \in [SaleRefs -> OfflineSales] /\ late \subseteq Sessions
      /\ sale \in [SaleRefs -> SaleRows]
  BY <1>1, SaleTypes
<1>10. /\ offline' \in [SaleRefs -> OfflineSales] /\ offline'[s] = row
       /\ \A x \in SaleRefs : x # s => offline'[x] = offline[x]
  BY <1>7, <1>8, <1>9
<1>11. SaleOK(row, NoSale)
  <2>1. ASSUME claim \in Open PROVE claim \in Sessions /\ claim = at
    <3>1. claim \in OpenAt(r)
      BY <1>1, <2>1 DEF OpenAt, Open
    <3>2. at \in OpenAt(r)
      BY <1>2, <3>1
    <3> QED BY <1>3, <3>1, <3>2 DEF OneOpen, OpenAt, Open
  <2>2. NoSale.payments = << >> /\ NoSale.status = "NONE" /\ DOMAIN << >> = {}
    BY DEF NoSale
  <2> QED BY <1>1, <1>7, <2>1, <2>2 DEF SaleOK
<1>12. /\ drawer' \in [Places -> Int]
       /\ \A k \in Sessions :
            /\ drawer'[k] >= 0
            /\ session[k].status = "NONE" => drawer'[k] = drawer[k]
            /\ drawer'[k] = drawer[k] + IF k = at THEN amount ELSE 0
  <2> HIDE DEF amount
  <2> QED BY <1>2, <1>3, <1>4, <1>6, PutChanges
<1>13. ASSUME NEW k \in Sessions
       PROVE  InDrawer(k, row, NoSale) - InDrawer(k, offline[s], NoSale) = IF k = at THEN amount ELSE 0
  <2>1. Held(k, NoSale) = 0 /\ NoSale.status = "NONE"
    BY NothingYet DEF NoSale
  <2>2. InDrawer(k, offline[s], NoSale) = 0
    BY <1>1, <2>1 DEF InDrawer
  <2>3. InDrawer(k, row, NoSale) = IF k = at THEN amount ELSE 0
    <3>1. InDrawer(k, row, NoSale) = Held(k, NoSale) + IF k = at THEN amount ELSE 0
      BY <1>7, <2>1 DEF InDrawer
    <3> HIDE DEF amount
    <3> QED BY <1>6, <2>1, <3>1
  <2> HIDE DEF amount
  <2> QED BY <1>6, <2>2, <2>3
<1>14. TillInv'
  <2>1. sale' \in [SaleRefs -> SaleRows] /\ \A x \in SaleRefs : x # s => sale'[x] = sale[x]
    BY <1>1, <1>9
  <2>2. SaleOK(offline'[s], sale'[s])
    BY <1>1, <1>9, <1>10, <1>11
  <2>3. late' \subseteq Sessions
    BY <1>1, <1>9
  <2>4. \A k \in Sessions :
          /\ drawer'[k] >= 0
          /\ session[k].status = "NONE" => drawer'[k] = drawer[k]
          /\ drawer'[k] = drawer[k] + (InDrawer(k, offline'[s], sale'[s])
                                       - InDrawer(k, offline[s], sale[s]))
    BY <1>1, <1>9, <1>10, <1>12, <1>13
  <2> QED BY <1>1, <1>10, <1>12, <2>1, <2>2, <2>3, <2>4, SaleChanges
<1>15. RecordedIsExpected'
  <2>1. TillTypeOK'
    BY <1>14 DEF TillInv
  <2>2. late \subseteq late'
    BY <1>1
  <2>3. \A x \in SaleRefs : x # s => sale'[x] = sale[x]
    BY <1>1
  <2>4. \A k \in Sessions : session[k].status = "CLOSED" /\ k \notin late'
                             => Counted(k, sale'[s]) = Counted(k, sale[s])
    BY <1>1
  <2> QED BY <1>1, <1>3, <2>1, <2>2, <2>3, <2>4, RecordChanges
<1> QED BY <1>14, <1>15

\* The money of a step: what the drawers hold after it, what the row of sale s says of it,
\* and that the row counts no other for a session that was closed before.
DrawersTake(at, amount) ==
  /\ drawer' \in [Places -> Int]
  /\ \A i \in Sessions :
       /\ drawer'[i] >= 0
       /\ session[i].status = "NONE" => drawer'[i] = drawer[i]
       /\ drawer'[i] = drawer[i] + IF i = at THEN amount ELSE 0

RowTakes(s, row, at, amount) ==
  \A i \in Sessions : Held(i, row) = Held(i, sale[s]) + IF i = at THEN amount ELSE 0

CountsAsBefore(s, row) ==
  \A i \in Sessions :
    session[i].status = "CLOSED" /\ i \notin late' => Counted(i, row) = Counted(i, sale[s])

\* A step at the row of a sale or an order puts into a drawer what the row then holds.
LEMMA RowKeeps ==
  ASSUME TillInv, RecordedIsExpected, NEW s \in SaleRefs, NEW row \in SaleRows,
         NEW at \in Places, NEW amount \in Int, sale' = [sale EXCEPT ![s] = row],
         session' = session, moves' = moves, offline' = offline,
         late \subseteq late', late' \subseteq Sessions, SaleOK(offline[s], row),
         row.status # "NONE", sale[s].status = "NONE" => ~offline[s].made,
         DrawersTake(at, amount), RowTakes(s, row, at, amount), CountsAsBefore(s, row)
  PROVE  TillInv' /\ RecordedIsExpected'
<1>1. /\ sale[s] \in SaleRows /\ offline \in [SaleRefs -> OfflineSales]
      /\ sale' \in [SaleRefs -> SaleRows] /\ sale'[s] = row
      /\ \A r \in SaleRefs : r # s => sale'[r] = sale[r]
  BY SaleTypes, SaleWritten
<1>2. ASSUME NEW i \in Sessions
      PROVE  InDrawer(i, offline[s], row) - InDrawer(i, offline[s], sale[s])
               = IF i = at THEN amount ELSE 0
  <2> DEFINE put == IF i = at THEN amount ELSE 0
             new == Held(i, row)
             old == Held(i, sale[s])
  <2>1. InDrawer(i, offline[s], row) = new + 0 /\ InDrawer(i, offline[s], sale[s]) = old + 0
    BY DEF InDrawer
  <2>2. new \in Int /\ old \in Int
    BY <1>1, SaleSums
  <2>3. new = old + put /\ put \in Int
    BY DEF RowTakes
  <2> HIDE DEF put, new, old
  <2>4. InDrawer(i, offline[s], row) - InDrawer(i, offline[s], sale[s]) = put
    BY <2>1, <2>2, <2>3
  <2> QED BY <2>4 DEF put
<1>3. TillInv'
  <2>1. \A i \in Sessions :
          /\ drawer'[i] >= 0
          /\ session[i].status = "NONE" => drawer'[i] = drawer[i]
          /\ drawer'[i] = drawer[i] + (InDrawer(i, offline'[s], sale'[s])
                                       - InDrawer(i, offline[s], sale[s]))
    BY <1>1, <1>2 DEF DrawersTake
  <2>3. drawer' \in [Places -> Int]
    BY DEF DrawersTake
  <2>2. SaleOK(offline'[s], sale'[s]) /\ offline' \in [SaleRefs -> OfflineSales]
        /\ \A r \in SaleRefs : r # s => offline'[r] = offline[r]
    BY <1>1
  <2> QED BY <1>1, <2>1, <2>2, <2>3, SaleChanges
<1>4. RecordedIsExpected'
  <2>1. TillTypeOK /\ TillTypeOK'
    BY <1>3 DEF TillInv
  <2>2. \A i \in Sessions : session[i].status = "CLOSED" /\ i \notin late'
                             => Counted(i, sale'[s]) = Counted(i, sale[s])
    BY <1>1 DEF CountsAsBefore
  <2> QED BY <1>1, <2>1, <2>2, RecordChanges
<1> QED BY <1>3, <1>4

\* So does a step at a row that moves no money.
LEMMA QuietRowKeeps ==
  ASSUME TillInv, RecordedIsExpected, NEW s \in SaleRefs, NEW row \in SaleRows,
         sale' = [sale EXCEPT ![s] = row],
         session' = session, moves' = moves, offline' = offline, late' = late, drawer' = drawer,
         SaleOK(offline[s], row),
         row.status # "NONE", sale[s].status = "NONE" => ~offline[s].made,
         \A i \in Sessions : Held(i, row) = Held(i, sale[s]),
         \A i \in Sessions : Counted(i, row) = Counted(i, sale[s])
  PROVE  TillInv' /\ RecordedIsExpected'
<1> DEFINE at == NoSession
           amount == 0
<1>1. /\ drawer \in [Places -> Int] /\ \A i \in Sessions : drawer[i] >= 0 /\ drawer[i] \in Int
      /\ late \subseteq Sessions /\ sale[s] \in SaleRows
  BY SaleTypes DEF TillInv, TillTypeOK, Places
<1>2. ASSUME NEW i \in Sessions PROVE drawer[i] = drawer[i] + IF i = at THEN amount ELSE 0
  BY <1>1
<1>3. ASSUME NEW i \in Sessions PROVE Held(i, row) = Held(i, sale[s]) + IF i = at THEN amount ELSE 0
  <2>1. Held(i, sale[s]) \in Int
    BY <1>1, SaleSums
  <2> QED BY <2>1
<1>4. amount \in Int /\ at \in Places /\ late \subseteq late' /\ late' \subseteq Sessions
  BY <1>1 DEF Places
<1> HIDE DEF at, amount
<1>5. DrawersTake(at, amount)
  BY <1>1, <1>2 DEF DrawersTake
<1>6. RowTakes(s, row, at, amount)
  BY <1>3 DEF RowTakes
<1>7. CountsAsBefore(s, row)
  BY DEF CountsAsBefore
<1> QED BY <1>4, <1>5, <1>6, <1>7, RowKeeps

\* An order begins without payments.
LEMMA CreateOrderKeeps ==
  ASSUME TillInv, RecordedIsExpected, NEW s \in SaleRefs, NEW total \in Totals, CreateOrder(s, total)
  PROVE  TillInv' /\ RecordedIsExpected'
<1> DEFINE row == [NoSale EXCEPT !.status = "ORDER", !.total = total]
<1>1. /\ sale[s].status = "NONE" /\ ~offline[s].made /\ sale' = [sale EXCEPT ![s] = row]
      /\ session' = session /\ moves' = moves /\ offline' = offline /\ late' = late /\ drawer' = drawer
  BY DEF CreateOrder
<1>2. sale[s] = NoSale /\ SaleOK(offline[s], NoSale)
  BY <1>1, SaleTypes
<1>3. /\ NoSale \in SaleRows /\ NoSale.payments = << >> /\ NoSale.refunds = << >>
      /\ NoSale.change = 0 /\ NoSale.session = NoSession /\ DOMAIN << >> = {}
  BY NothingYet DEF NoSale
<1>4. /\ row \in SaleRows /\ row.status = "ORDER" /\ row.change = NoSale.change
      /\ row.payments = NoSale.payments /\ row.refunds = NoSale.refunds
      /\ row.session = NoSale.session
  BY <1>3 DEF SaleRows
<1> HIDE DEF row
<1>5. row.payments = << >> /\ row.change = 0 /\ row.status = "ORDER" /\ row \in SaleRows
  BY <1>3, <1>4
<1>7. \A i \in Sessions : Held(i, row) = Held(i, NoSale) /\ Counted(i, row) = Counted(i, NoSale)
  BY <1>4 DEF Held, Counted, IsCashSale
<1>8. SaleOK(offline[s], row)
  BY <1>1, <1>2, <1>3, <1>5 DEF SaleOK
<1>9. /\ \A i \in Sessions : Held(i, row) = Held(i, sale[s])
      /\ \A i \in Sessions : Counted(i, row) = Counted(i, sale[s])
  BY <1>2, <1>7
<1>10. row.status # "NONE"
  BY <1>5
<1> QED BY <1>1, <1>5, <1>8, <1>9, <1>10, QuietRowKeeps

\* A completed order keeps its payments.
LEMMA CompleteOrderKeeps ==
  ASSUME TillInv, RecordedIsExpected, NEW s \in SaleRefs, CompleteOrder(s)
  PROVE  TillInv' /\ RecordedIsExpected'
<1> DEFINE old == sale[s]
           row == [old EXCEPT !.status = "COMPLETED"]
<1>1. /\ old \in SaleRows /\ SaleOK(offline[s], old) /\ sale \in [SaleRefs -> SaleRows]
  BY SaleTypes
<1>2. /\ sale[s].status = "ORDER"
      /\ sale' = [sale EXCEPT ![s].status = "COMPLETED"]
      /\ session' = session /\ moves' = moves /\ offline' = offline /\ late' = late /\ drawer' = drawer
  BY DEF CompleteOrder
<1>3. sale' = [sale EXCEPT ![s] = row]
  BY <1>1, <1>2
<1>4. /\ row \in SaleRows /\ row.status = "COMPLETED" /\ row.session = old.session
      /\ row.change = old.change /\ row.payments = old.payments /\ row.refunds = old.refunds
  BY <1>1 DEF SaleRows
<1> HIDE DEF row
<1>5. \A i \in Sessions : Held(i, row) = Held(i, old) /\ Counted(i, row) = Counted(i, old)
  BY <1>4 DEF Held, Counted, IsCashSale
<1>6. SaleOK(offline[s], row)
  BY <1>1, <1>2, <1>4 DEF SaleOK
<1>7. /\ \A i \in Sessions : Held(i, row) = Held(i, sale[s])
      /\ \A i \in Sessions : Counted(i, row) = Counted(i, sale[s])
  BY <1>5
<1>8. row.status # "NONE" /\ sale[s].status # "NONE"
  BY <1>2, <1>4
<1> HIDE DEF old
<1> QED BY <1>2, <1>3, <1>4, <1>6, <1>7, <1>8, QuietRowKeeps

\* A deposit goes into the drawer, and counts for the session it names, which is open.
LEMMA PayOrderKeeps ==
  ASSUME TillInv, RecordedIsExpected, NEW s \in SaleRefs, NEW j \in Places, NEW at \in Places,
         NEW cash \in 1..sale[s].total, PayOrder(s, j, at, cash)
  PROVE  TillInv' /\ RecordedIsExpected'
<1> DEFINE old == sale[s]
           p == [session |-> j, cash |-> cash, at |-> at, deposit |-> TRUE]
           more == Append(old.payments, p)
           row == [old EXCEPT !.payments = more]
<1>0. /\ old \in SaleRows /\ SaleOK(offline[s], old) /\ sale \in [SaleRefs -> SaleRows]
      /\ late \subseteq Sessions /\ old.payments \in Seq(PaymentRows)
  BY SaleTypes DEF SaleRows
<1>1. cash \in Nat \ {0} /\ cash # 0
  <2>1. old.total \in Totals \cup {0}
    BY <1>0 DEF SaleRows
  <2>2. \A x \in Totals \cup {0} : x \in Nat
    BY CashAssumption
  <2> QED BY <2>1, <2>2
<1>2. /\ old.status = "ORDER" /\ (j \in Sessions => j \in Open)
      /\ at \in Open \cup {NoSession} /\ (j \in Open => j = at)
      /\ sale' = [sale EXCEPT ![s].payments = @ \o CashRow(j, cash, at, TRUE)] /\ Put(at, cash)
      /\ session' = session /\ moves' = moves /\ offline' = offline /\ late' = late
  BY DEF PayOrder, MayDeposit
<1>3. p \in PaymentRows /\ p.session = j /\ p.at = at /\ p.cash = cash /\ p.deposit
  BY <1>1 DEF PaymentRows
<1>4. old.payments \o CashRow(j, cash, at, TRUE) = more
  <2>1. CashRow(j, cash, at, TRUE) = <<p>>
    BY <1>1 DEF CashRow
  <2> HIDE DEF p
  <2>2. old.payments \o <<p>> = Append(old.payments, p)
    BY <1>0, <1>3
  <2> QED BY <2>1, <2>2
<1>5. sale' = [sale EXCEPT ![s] = row]
  <2> HIDE DEF more
  <2> QED BY <1>0, <1>2, <1>4
<1> HIDE DEF p
<1>6. /\ more \in Seq(PaymentRows) /\ DOMAIN more = 1..(Len(old.payments) + 1)
      /\ Len(old.payments) \in Nat /\ DOMAIN old.payments = 1..Len(old.payments)
      /\ more[Len(old.payments) + 1] = p
      /\ \A n \in 1..Len(old.payments) : more[n] = old.payments[n]
  BY <1>0, <1>3, NextRow
<1>7. ASSUME NEW i \in Sessions
      PROVE  /\ CashTo(i, more) = CashTo(i, old.payments) + IF j = i THEN cash ELSE 0
             /\ CashIn(i, more) = CashIn(i, old.payments) + IF at = i THEN cash ELSE 0
  BY <1>0, <1>3, PaymentAdded
<1> HIDE DEF more
<1>8. /\ row \in SaleRows /\ row.status = old.status /\ row.session = old.session
      /\ row.change = old.change /\ row.payments = more /\ row.refunds = old.refunds
  BY <1>0, <1>6 DEF SaleRows
<1>9. old.change = 0
  BY <1>0, <1>2 DEF SaleOK
<1> HIDE DEF row
<1>10. SaleOK(offline[s], row)
  <2>1. ASSUME NEW n \in DOMAIN more
        PROVE  LET q == more[n] IN
               IF q.deposit THEN row.change = 0 /\ (q.session \in Sessions => q.at = q.session)
               ELSE q.session = row.session
                    /\ q.at = IF offline[s].made THEN offline[s].at ELSE row.session
    <3>1. CASE n = Len(old.payments) + 1
      BY <1>2, <1>3, <1>6, <1>8, <1>9, <3>1
    <3>2. CASE n # Len(old.payments) + 1
      <4>1. n \in DOMAIN old.payments /\ more[n] = old.payments[n]
        BY <1>6, <3>2
      <4> QED BY <1>0, <1>8, <4>1 DEF SaleOK
    <3> QED BY <3>1, <3>2
  <2> QED BY <1>0, <1>2, <1>8, <1>9, <2>1 DEF SaleOK
<1>11. ASSUME NEW i \in Sessions
       PROVE  /\ Held(i, row) = Held(i, old) + IF i = at THEN cash ELSE 0
              /\ i # j => Counted(i, row) = Counted(i, old)
  <2> DEFINE in == CashIn(i, old.payments)
             to == CashTo(i, old.payments)
             out == CashOut(i, old.refunds)
             of == IF old.session = i THEN CashOf(old.refunds) ELSE 0
  <2>0. /\ CashIn(i, old.payments) \in Int /\ CashOut(i, old.refunds) \in Int
        /\ CashTo(i, old.payments) \in Int /\ CashOf(old.refunds) \in Int
    <3> HIDE DEF old
    <3> QED BY <1>0, SaleSums
  <2>1. in \in Int /\ out \in Int /\ to \in Int /\ of \in Int
    BY <2>0
  <2>2. /\ Held(i, old) = in - 0 - out /\ Counted(i, old) = to - 0 - of
        /\ Held(i, row) = CashIn(i, more) - 0 - out /\ Counted(i, row) = CashTo(i, more) - 0 - of
    BY <1>8, <1>9 DEF Held, Counted
  <2> HIDE DEF in, to, out, of
  <2>3. CashIn(i, more) = in + (IF i = at THEN cash ELSE 0) /\ (i # j => CashTo(i, more) = to + 0)
    BY <1>7 DEF in, to
  <2> QED BY <1>1, <2>1, <2>2, <2>3
<1>12. DrawersTake(at, cash)
  <2>1. TillTypeOK /\ cash \in Int
    BY <1>1 DEF TillInv
  <2> QED BY <1>2, <2>1, PutChanges DEF DrawersTake
<1>13. CountsAsBefore(s, row)
  <2>1. ASSUME NEW i \in Sessions, session[i].status = "CLOSED" PROVE i # j
    BY <1>2, <2>1 DEF Open
  <2> QED BY <1>11, <2>1 DEF CountsAsBefore
<1>14. RowTakes(s, row, at, cash)
  BY <1>11 DEF RowTakes
<1>15. /\ cash \in Int /\ row.status # "NONE" /\ row \in SaleRows
       /\ (sale[s].status = "NONE" => ~offline[s].made)
       /\ late \subseteq late' /\ late' \subseteq Sessions
       /\ session' = session /\ moves' = moves /\ offline' = offline
  BY <1>0, <1>1, <1>2, <1>8
<1> HIDE DEF old
<1> QED BY <1>5, <1>10, <1>12, <1>13, <1>14, <1>15, RowKeeps

\* A refund leaves the drawer it is paid from, and counts for the session of its sale,
\* which is noted when it was closed before.
LEMMA RefundSaleKeeps ==
  ASSUME TillInv, RecordedIsExpected, NEW s \in SaleRefs, NEW amount \in 1..sale[s].total,
         NEW cash \in 0..sale[s].total, NEW at \in Places, RefundSale(s, amount, cash, at)
  PROVE  TillInv' /\ RecordedIsExpected'
<1> DEFINE old == sale[s]
           f == [amount |-> amount, cash |-> cash, at |-> at]
           more == Append(old.refunds, f)
           status == IF Refunded(s) + amount = old.total THEN "REFUNDED" ELSE "PARTIALLY_REFUNDED"
           row == [old EXCEPT !.refunds = more, !.status = status]
           taken == -cash
<1>0. /\ old \in SaleRows /\ SaleOK(offline[s], old) /\ sale \in [SaleRefs -> SaleRows]
      /\ late \subseteq Sessions /\ old.refunds \in Seq(RefundRows)
  BY SaleTypes DEF SaleRows
<1>1. amount \in Nat \ {0} /\ cash \in Nat /\ taken \in Int
  <2>1. old.total \in Totals \cup {0}
    BY <1>0 DEF SaleRows
  <2>2. \A x \in Totals \cup {0} : x \in Nat
    BY CashAssumption
  <2> QED BY <2>1, <2>2
<1>2. /\ old.status \in {"COMPLETED", "PARTIALLY_REFUNDED"} /\ at \in Open \cup {NoSession}
      /\ sale' = [sale EXCEPT ![s].refunds = more, ![s].status = status]
      /\ Put(at, taken) /\ late' = late \cup ({old.session} \cap (Sessions \ Open))
      /\ session' = session /\ moves' = moves /\ offline' = offline
  BY DEF RefundSale, Attach
<1>3. f \in RefundRows /\ f.at = at /\ f.cash = cash
  BY <1>1 DEF RefundRows
<1>4. sale' = [sale EXCEPT ![s] = row]
  <2> HIDE DEF more, status
  <2> QED BY <1>0, <1>2
<1> HIDE DEF f
<1>5. more \in Seq(RefundRows)
  BY <1>0, <1>3, NextRow
<1>6. ASSUME NEW i \in Sessions
      PROVE  /\ CashOf(more) = CashOf(old.refunds) + cash
             /\ CashOut(i, more) = CashOut(i, old.refunds) + IF at = i THEN cash ELSE 0
  BY <1>0, <1>3, RefundAdded
<1>7. status \in {"REFUNDED", "PARTIALLY_REFUNDED"}
  OBVIOUS
<1> HIDE DEF more, status
<1>8. /\ row \in SaleRows /\ row.status = status /\ row.session = old.session
      /\ row.change = old.change /\ row.payments = old.payments /\ row.refunds = more
  BY <1>0, <1>5, <1>7 DEF SaleRows
<1> HIDE DEF row
<1>9. SaleOK(offline[s], row)
  BY <1>0, <1>2, <1>7, <1>8 DEF SaleOK
<1>10. ASSUME NEW i \in Sessions
       PROVE  /\ Held(i, row) = Held(i, old) + IF i = at THEN taken ELSE 0
              /\ i # old.session => Counted(i, row) = Counted(i, old)
  <2> DEFINE in == CashIn(i, old.payments)
             to == CashTo(i, old.payments)
             out == CashOut(i, old.refunds)
             given == IF \E n \in DOMAIN old.payments : old.payments[n].at = i
                      THEN old.change ELSE 0
             change == IF IsCashSale(i, old) THEN old.change ELSE 0
  <2>0. /\ CashIn(i, old.payments) \in Int /\ CashOut(i, old.refunds) \in Int
        /\ CashTo(i, old.payments) \in Int /\ old.change \in Nat
    <3> HIDE DEF old
    <3> QED BY <1>0, SaleSums
  <2>1. in \in Int /\ out \in Int /\ to \in Int /\ given \in Int /\ change \in Int
    BY <2>0
  <2>2. Held(i, old) = in - given - out /\ Held(i, row) = in - given - CashOut(i, more)
    BY <1>8 DEF Held
  <2>3. i # old.session => Counted(i, old) = to - change - 0 /\ Counted(i, row) = to - change - 0
    BY <1>8 DEF Counted, IsCashSale
  <2> HIDE DEF in, to, out, given, change
  <2>4. CashOut(i, more) = out + (IF i = at THEN cash ELSE 0)
    BY <1>6 DEF out
  <2>5. Held(i, row) = Held(i, old) + IF i = at THEN taken ELSE 0
    BY <1>1, <2>1, <2>2, <2>4
  <2> QED BY <2>3, <2>5
<1>11. DrawersTake(at, taken)
  <2>1. TillTypeOK
    BY DEF TillInv
  <2> HIDE DEF taken
  <2> QED BY <1>1, <1>2, <2>1, PutChanges DEF DrawersTake
<1>12. CountsAsBefore(s, row)
  <2>1. ASSUME NEW i \in Sessions, session[i].status = "CLOSED", i \notin late' PROVE i # old.session
    BY <1>2, <2>1 DEF Open
  <2> QED BY <1>10, <2>1 DEF CountsAsBefore
<1>13. RowTakes(s, row, at, taken)
  BY <1>10 DEF RowTakes
<1>14. /\ row.status # "NONE" /\ row \in SaleRows /\ (sale[s].status = "NONE" => ~offline[s].made)
       /\ late \subseteq late' /\ late' \subseteq Sessions
       /\ session' = session /\ moves' = moves /\ offline' = offline
  BY <1>0, <1>2, <1>7, <1>8
<1> HIDE DEF old, taken
<1> QED BY <1>1, <1>4, <1>9, <1>11, <1>12, <1>13, <1>14, RowKeeps

------------------------------------------------------------------------------
(***************************************************************************)
(* What follows from the invariant.                                        *)
(***************************************************************************)

\* The invariant keeps what the tills promise.
LEMMA TillStep ==
  ASSUME TillInv, RecordedIsExpected, [TillNext]_tillVars
  PROVE  TillInv' /\ RecordedIsExpected'
<1>1. ASSUME NEW i \in Sessions, SessionStep(i) PROVE TillInv' /\ RecordedIsExpected'
  <2>1. ASSUME NEW r \in Registers, NEW float \in Floats, OpenSession(i, r, float)
        PROVE  TillInv' /\ RecordedIsExpected'
    BY <2>1, OpenSessionKeeps
  <2>2. ASSUME NEW type \in MoveTypes, NEW amount \in MoveAmounts,
               MoveCash(i, [type |-> type, amount |-> amount])
        PROVE  TillInv' /\ RecordedIsExpected'
    <3> DEFINE move == [type |-> type, amount |-> amount]
    <3>1. move \in MoveRows /\ MoveCash(i, move)
      BY <2>2 DEF MoveRows
    <3> HIDE DEF move
    <3> QED BY <3>1, MoveCashKeeps
  <2>3. CASE CloseSession(i)
    BY <2>3, CloseSessionKeeps
  <2> QED BY <1>1, <2>1, <2>2, <2>3 DEF SessionStep
<1>2. ASSUME NEW s \in SaleRefs, SaleStep(s) PROVE TillInv' /\ RecordedIsExpected'
  <2>1. ASSUME NEW total \in Totals, NEW paid \in Tenders, NEW r \in Registers,
               SaleAtTill(s, r, total, paid)
        PROVE  TillInv' /\ RecordedIsExpected'
    BY <2>1, SaleAtTillKeeps
  <2>2. ASSUME NEW total \in Totals, NEW paid \in Tenders, SaleWithoutTill(s, total, paid)
        PROVE  TillInv' /\ RecordedIsExpected'
    BY <2>2, SaleWithoutTillKeeps
  <2>3. ASSUME NEW total \in Totals, NEW paid \in Tenders, NEW r \in Registers,
               NEW claim \in Places, SellOffline(s, r, claim, total, paid)
        PROVE  TillInv' /\ RecordedIsExpected'
    BY <2>3, SellOfflineKeeps
  <2>4. CASE BookOffline(s)
    BY <2>4, BookOfflineKeeps
  <2>5. ASSUME NEW total \in Totals, CreateOrder(s, total)
        PROVE  TillInv' /\ RecordedIsExpected'
    BY <2>5, CreateOrderKeeps
  <2>6. ASSUME NEW i \in Places, NEW at \in Places, NEW cash \in 1..sale[s].total,
               PayOrder(s, i, at, cash)
        PROVE  TillInv' /\ RecordedIsExpected'
    BY <2>6, PayOrderKeeps
  <2>7. CASE CompleteOrder(s)
    BY <2>7, CompleteOrderKeeps
  <2>8. ASSUME NEW amount \in 1..sale[s].total, NEW cash \in 0..sale[s].total, NEW at \in Places,
               RefundSale(s, amount, cash, at)
        PROVE  TillInv' /\ RecordedIsExpected'
    BY <2>8, RefundSaleKeeps
  <2> QED BY <1>2, <2>1, <2>2, <2>3, <2>4, <2>5, <2>6, <2>7, <2>8 DEF SaleStep
<1>3. CASE UNCHANGED tillVars
  <2>1. TillTypeOK /\ OneOpen /\ Unopened /\ SalesOK /\ DrawersHold
    BY DEF TillInv
  <2>2. /\ session' = session /\ moves' = moves /\ offline' = offline /\ sale' = sale
        /\ drawer' = drawer /\ late' = late
    BY <1>3 DEF tillVars
  <2>3. TillTypeOK'
    BY <2>1, <2>2 DEF TillTypeOK
  <2>4. OneOpen' /\ Unopened' /\ SalesOK' /\ DrawersHold'
    BY <2>1, <2>2 DEF OneOpen, Open, Unopened, SalesOK, DrawersHold
  <2>5. RecordedIsExpected'
    BY <2>1, <2>2, <2>3, ExpectedNow, ExpectedNext DEF RecordedIsExpected
  <2> QED BY <2>3, <2>4, <2>5 DEF TillInv
<1> QED BY <1>1, <1>2, <1>3 DEF TillNext

\* At first no session was opened and nothing was sold.
LEMMA TillStart == ASSUME TillInit PROVE TillInv /\ RecordedIsExpected
<1>1. /\ session = [i \in Sessions |-> NotOpened] /\ moves = [i \in Sessions |-> << >>]
      /\ offline = [s \in SaleRefs |-> NotMade] /\ sale = [s \in SaleRefs |-> NoSale]
      /\ drawer = [p \in Places |-> 0] /\ late = {}
  BY DEF TillInit
<1>2. NotOpened \in SessionRows /\ NotOpened.status = "NONE" /\ NotOpened.float = 0
  BY DEF NotOpened, SessionRows
<1>3. /\ NotMade \in OfflineSales /\ ~NotMade.made /\ ~NotMade.inTime
  <2>1. [cash |-> 0, other |-> 0] \in PaidRows
    BY DEF PaidRows
  <2> QED BY <2>1 DEF NotMade, OfflineSales, Places
<1>4. NoSale \in SaleRows
  BY NothingYet
<1>5. TillTypeOK
  <2>1. << >> \in Seq(MoveRows)
    BY EmptySeq
  <2>2. session \in [Sessions -> SessionRows] /\ moves \in [Sessions -> Seq(MoveRows)]
    BY <1>1, <1>2, <2>1
  <2>3. offline \in [SaleRefs -> OfflineSales] /\ sale \in [SaleRefs -> SaleRows]
    BY <1>1, <1>3, <1>4
  <2>4. drawer \in [Places -> Int] /\ \A i \in Sessions : drawer[i] >= 0
    BY <1>1 DEF Places
  <2> QED BY <1>1, <2>2, <2>3, <2>4 DEF TillTypeOK
<1>6. \A i \in Sessions : session[i].status = "NONE" /\ session[i].float = 0 /\ drawer[i] = 0
  BY <1>1, <1>2 DEF Places
<1>7. OneOpen /\ Unopened /\ RecordedIsExpected
  BY <1>6 DEF OneOpen, Open, Unopened, RecordedIsExpected
<1>8. SalesOK
  <2>1. NoSale.status = "NONE" /\ NoSale.payments = << >> /\ DOMAIN << >> = {}
    BY DEF NoSale
  <2>2. SaleOK(NotMade, NoSale)
    BY <1>3, <2>1 DEF SaleOK
  <2> QED BY <1>1, <2>2 DEF SalesOK
<1>9. ASSUME NEW i \in Sessions
      PROVE  drawer[i] = session[i].float + AllInDrawer(i, offline, sale) + Moved(moves[i])
  <2> DEFINE f == [s \in SaleRefs |-> InDrawer(i, offline[s], sale[s])]
  <2>1. \A s \in SaleRefs : f[s] = 0
    <3>1. InDrawer(i, NotMade, NoSale) = 0
      BY <1>3, NothingYet DEF InDrawer
    <3> QED BY <1>1, <3>1
  <2>2. AllInDrawer(i, offline, sale) = SumFunctionOnSet(f, SaleRefs)
    BY DEF AllInDrawer
  <2> HIDE DEF f
  <2>3. AllInDrawer(i, offline, sale) = 0
    BY <2>1, <2>2, SalesAssumption, SumZero
  <2>4. Moved(moves[i]) = 0
    BY <1>1, NoRows
  <2> QED BY <1>6, <2>3, <2>4
<1>10. DrawersHold
  BY <1>9 DEF DrawersHold
<1> QED BY <1>5, <1>7, <1>8, <1>10 DEF TillInv

\* The invariant of the tills.
THEOREM TillInvariant == TillSpec => [](TillInv /\ RecordedIsExpected)
<1>1. TillInit => TillInv /\ RecordedIsExpected
  BY TillStart
<1>2. TillInv /\ RecordedIsExpected /\ [TillNext]_tillVars => TillInv' /\ RecordedIsExpected'
  BY TillStep
<1> QED BY <1>1, <1>2, PTL DEF TillSpec

\* Sessions, movements, sales, payments and refunds keep their types, and no drawer is
\* ever overdrawn.
THEOREM TillTypeCorrect == TillSpec => []TillTypeOK
<1>1. TillInv => TillTypeOK
  BY DEF TillInv
<1> QED BY <1>1, TillInvariant, PTL

\* The expected cash that a close stored (registers/routes.ts) stays the expected cash
\* of the session, unless a sale or a refund was added to it afterwards.
THEOREM RecordedCorrect == TillSpec => []RecordedIsExpected
BY TillInvariant, PTL

\* Of a sale whose tills did their part, a session counts what its drawer holds.
LEMMA TidySale ==
  ASSUME NEW i \in Sessions, NEW off \in OfflineSales, NEW row \in SaleRows, SaleOK(off, row),
         off.made /\ off.at = i => off.claim = i /\ row.status # "NONE",
         off.made /\ off.claim = NoSession => row.session # i,
         \A n \in DOMAIN row.payments :
           LET p == row.payments[n] IN p.deposit /\ p.at = i => p.session = i,
         \A n \in DOMAIN row.refunds :
           LET f == row.refunds[n] IN f.cash > 0 => (f.at = i <=> row.session = i)
  PROVE  Counted(i, row) = InDrawer(i, off, row)
<1>1. /\ row.payments \in Seq(PaymentRows) /\ row.refunds \in Seq(RefundRows)
      /\ row.change \in Nat /\ off.claim \in Sessions \cup {NoSession}
  BY DEF SaleRows, OfflineSales, Places
<1>2. ASSUME NEW n \in DOMAIN row.payments
      PROVE  row.payments[n].session = i <=> row.payments[n].at = i
  <2> DEFINE p == row.payments[n]
  <2>1. row.status # "NONE"
    <3>1. NoSale.payments = << >> /\ DOMAIN << >> = {}
      BY DEF NoSale
    <3> QED BY <3>1 DEF SaleOK
  <2>2. CASE p.deposit
    <3>1. p.session \in Sessions => p.at = p.session
      BY <2>2 DEF SaleOK
    <3>2. p.at = i => p.session = i
      BY <2>2
    <3> QED BY <3>1, <3>2
  <2>3. CASE ~p.deposit
    <3>1. p.session = row.session /\ p.at = IF off.made THEN off.at ELSE row.session
      BY <2>3 DEF SaleOK
    <3>2. CASE ~off.made
      BY <3>1, <3>2
    <3>3. CASE off.made
      <4>1. off.claim \in Sessions => row.session = off.claim /\ off.inTime
        BY <2>1, <3>3 DEF SaleOK
      <4>2. off.inTime => off.claim = off.at
        BY DEF SaleOK
      <4>3. off.at = i => row.session = i
        BY <3>3, <4>1
      <4>4. row.session = i => off.at = i
        BY <1>1, <3>3, <4>1, <4>2
      <4> QED BY <3>1, <3>3, <4>3, <4>4
    <3> QED BY <3>2, <3>3
  <2> QED BY <2>2, <2>3
<1>3. CashTo(i, row.payments) = CashIn(i, row.payments)
  <2> DEFINE to == [n \in DOMAIN row.payments |->
                     IF row.payments[n].session = i THEN row.payments[n].cash ELSE 0]
             in == [n \in DOMAIN row.payments |->
                     IF row.payments[n].at = i THEN row.payments[n].cash ELSE 0]
  <2>1. to = in
    BY <1>2
  <2> HIDE DEF to, in
  <2>2. SumFunction(to) = SumFunction(in)
    BY <2>1
  <2> QED BY <2>2 DEF CashTo, CashIn, to, in
<1> DEFINE given == IF IsCashSale(i, row) THEN row.change ELSE 0
           held == IF \E n \in DOMAIN row.payments : row.payments[n].at = i THEN row.change ELSE 0
           of == IF row.session = i THEN CashOf(row.refunds) ELSE 0
<1>4. given = held /\ given \in Int
  <2>1. CASE row.change = 0
    BY <2>1
  <2>2. CASE row.change # 0
    <3>1. \A n \in DOMAIN row.payments : row.payments[n].session = row.session
      BY <2>2 DEF SaleOK
    <3>2. IsCashSale(i, row) <=> \E n \in DOMAIN row.payments : row.payments[n].at = i
      BY <1>2, <3>1 DEF IsCashSale
    <3> QED BY <1>1, <3>2
  <2> QED BY <2>1, <2>2
<1>5. of = CashOut(i, row.refunds)
  <2> DEFINE cash == [n \in DOMAIN row.refunds |-> row.refunds[n].cash]
             out == [n \in DOMAIN row.refunds |->
                      IF row.refunds[n].at = i THEN row.refunds[n].cash ELSE 0]
  <2>1. ASSUME NEW n \in DOMAIN row.refunds
        PROVE  /\ row.refunds[n].cash \in Nat
               /\ row.refunds[n].cash > 0 => (row.refunds[n].at = i <=> row.session = i)
    <3>1. row.refunds[n] \in RefundRows
      BY <1>1, ElementOfSeq, LenProperties
    <3> QED BY <3>1 DEF RefundRows
  <2>2. CashOf(row.refunds) = SumFunction(cash) /\ CashOut(i, row.refunds) = SumFunction(out)
    BY DEF CashOf, CashOut
  <2>3. CASE row.session = i
    <3>1. cash = out
      BY <2>1, <2>3
    <3> HIDE DEF cash, out
    <3> QED BY <2>2, <2>3, <3>1
  <2>4. CASE row.session # i
    <3>1. \A n \in DOMAIN row.refunds : out[n] = 0
      BY <2>1, <2>4
    <3>2. IsFiniteSet(DOMAIN row.refunds) /\ DOMAIN out = DOMAIN row.refunds
      BY <1>1, LenProperties, FS_Interval
    <3> HIDE DEF out
    <3>3. SumFunctionOnSet(out, DOMAIN row.refunds) = 0
      BY <3>1, <3>2, SumZero
    <3>4. SumFunction(out) = 0
      BY <3>2, <3>3 DEF SumFunction
    <3> QED BY <2>2, <2>4, <3>4
  <2> QED BY <2>3, <2>4
<1>6. Counted(i, row) = CashTo(i, row.payments) - given - of
  BY DEF Counted
<1>7. InDrawer(i, off, row) = (CashIn(i, row.payments) - held - CashOut(i, row.refunds)) + 0
  BY DEF InDrawer, Held
<1>8. CashTo(i, row.payments) \in Int /\ CashOut(i, row.refunds) \in Int
  BY SaleSums
<1> HIDE DEF given, held, of
<1> QED BY <1>3, <1>4, <1>5, <1>6, <1>7, <1>8

\* The expected cash of a session (registers/cash.ts) is what is in its drawer, whatever
\* was sold, deposited, refunded and moved, as long as the tills did their part for it.
THEOREM DrawersCorrect == TillSpec => []ExpectedFollowsDrawer
<1>1. TillInv => ExpectedFollowsDrawer
  <2> SUFFICES ASSUME TillInv, NEW i \in Sessions, IsTidy(i) PROVE Expected(i) = drawer[i]
    BY DEF ExpectedFollowsDrawer
  <2>1. TillTypeOK /\ DrawersHold
    BY DEF TillInv
  <2> DEFINE f == [s \in SaleRefs |-> Counted(i, sale[s])]
             g == [s \in SaleRefs |-> InDrawer(i, offline[s], sale[s])]
  <2>2. ASSUME NEW s \in SaleRefs PROVE f[s] \in Int /\ g[s] = f[s]
    <3> DEFINE row == sale[s]
               off == offline[s]
    <3>1. row \in SaleRows /\ off \in OfflineSales /\ SaleOK(off, row)
      BY SaleTypes
    <3>2. /\ off.made /\ off.at = i => off.claim = i /\ row.status # "NONE"
          /\ off.made /\ off.claim = NoSession => row.session # i
          /\ \A n \in DOMAIN row.payments :
               LET p == row.payments[n] IN p.deposit /\ p.at = i => p.session = i
          /\ \A n \in DOMAIN row.refunds :
               LET r == row.refunds[n] IN r.cash > 0 => (r.at = i <=> row.session = i)
      BY DEF IsTidy
    <3> HIDE DEF row, off
    <3>3. Counted(i, row) = InDrawer(i, off, row) /\ Counted(i, row) \in Int
      BY <3>1, <3>2, TidySale, SaleSums
    <3> QED BY <3>3 DEF row, off
  <2>3. AllCounted(i, sale) = SumFunctionOnSet(f, SaleRefs)
        /\ AllInDrawer(i, offline, sale) = SumFunctionOnSet(g, SaleRefs)
    BY DEF AllCounted, AllInDrawer
  <2> HIDE DEF f, g
  <2>4. SumFunctionOnSet(g, SaleRefs) = SumFunctionOnSet(f, SaleRefs)
    BY <2>2, SalesAssumption, SumSame
  <2> QED BY <2>1, <2>3, <2>4, ExpectedNow DEF DrawersHold
<1> QED BY <1>1, TillInvariant, PTL

==============================================================================
