------------------------- MODULE ReplenishmentProofs -------------------------
(***************************************************************************)
(* Theorems about Replenishment and the planning rules, for every set of    *)
(* items, orders, shipments and recalculations, and every policy.           *)
(*                                                                         *)
(* The arguments: rounding up to packs reaches the target with less than a  *)
(* pack to spare; without an alarm no day of the lead time falls below the  *)
(* safety stock.  The loop over an order's shipments takes no more from a   *)
(* line than is outstanding, so incoming is what is outstanding of the      *)
(* orders.  The stock is read before the orders: what a receipt moves to    *)
(* the shelf in between is missed, never counted twice (CountsOnce).        *)
(* A recommendation that counted every draft stays within the target until  *)
(* an order is made of it (PagesWithinTarget); from then on only receipts   *)
(* and smaller shipments change what is on order, which lower it.           *)
(***************************************************************************)
EXTENDS Replenishment, FiniteFacts, SequenceTheorems

(***************************************************************************)
(* What an order comes to.                                                 *)
(***************************************************************************)

\* Rounding up to packs reaches the quantity with less than a pack to spare.
LEMMA RoundingUp ==
  ASSUME NEW n \in Nat, NEW d \in Nat \ {0}
  PROVE  /\ RoundUpToPack(n, d) \in Nat
         /\ RoundUpToPack(n, d) % d = 0
         /\ RoundUpToPack(n, d) - n \in 0..(d - 1)
<1> DEFINE m == n + d - 1
           q == m \div d
           r == m % d
<1>1. q \in Nat /\ r \in 0..(d - 1) /\ m = d * q + r
  <2>1. m \in Nat
    OBVIOUS
  <2> HIDE DEF m
  <2> QED BY <2>1, DivMod
<1>2. RoundUpToPack(n, d) = q * d
  BY DEF RoundUpToPack, CeilDiv
<1>3. q * d \in Nat /\ (q * d) % d = 0
  <2> HIDE DEF q
  <2> QED BY <1>1, Multiple
<1>4. q * d = d * q
  <2> HIDE DEF q
  <2> QED BY <1>1, Z3
<1>5. q * d - n = d - 1 - r
  <2> DEFINE t == d * q
  <2>1. q * d = t /\ n + d - 1 = t + r /\ t \in Nat
    BY <1>1, <1>3, <1>4
  <2> HIDE DEF t, r
  <2>2. t - n = d - 1 - r
    BY <1>1, <2>1
  <2> QED BY <2>1, <2>2
<1> QED
  <2> HIDE DEF m, q, r
  <2> QED BY <1>1, <1>2, <1>3, <1>5

\* A whole number of packs is not rounded any further.
LEMMA RoundingAgain ==
  ASSUME NEW n \in Nat, NEW d \in Nat \ {0}, n % d = 0
  PROVE  RoundUpToPack(n, d) = n
<1> DEFINE r == RoundUpToPack(n, d)
<1>1. r \in Nat /\ r % d = 0 /\ r - n \in 0..(d - 1)
  BY RoundingUp
<1>2. /\ n \div d \in Nat /\ n = d * (n \div d)
      /\ r \div d \in Nat /\ r = d * (r \div d)
  <2>1. \A x, y \in Nat : x = y + 0 => x = y
    OBVIOUS
  <2>2. n \div d \in Nat /\ n = d * (n \div d) + 0
    BY DivMod
  <2>3. r \div d \in Nat /\ r = d * (r \div d) + 0
    <3> HIDE DEF r
    <3> QED BY <1>1, DivMod
  <2>4. \A x \in Nat : d * x \in Nat
    BY Z3
  <2> HIDE DEF r
  <2> QED BY <1>1, <2>1, <2>2, <2>3, <2>4
<1>3. \A x, y \in Nat : d * y - d * x \in 0..(d - 1) => d * y = d * x
  <2> SUFFICES ASSUME NEW x \in Nat, NEW y \in Nat, d * y - d * x \in 0..(d - 1)
               PROVE  d * y = d * x
    OBVIOUS
  <2>1. d * y - d * x = d * (y - x)
    BY Z3
  <2>2. CASE y - x >= 1
    <3>1. d * (y - x) >= d
      BY <2>2, Z3
    <3> QED BY <2>1, <3>1, Z3
  <2>3. CASE y = x
    BY <2>3
  <2>4. CASE y - x <= -1
    <3>1. d * (y - x) < 0
      BY <2>4, Z3
    <3> QED BY <2>1, <3>1, Z3
  <2> QED BY <2>2, <2>3, <2>4, SMT
<1> HIDE DEF r
<1>4. r = n
  BY <1>1, <1>2, <1>3
<1> QED BY <1>4 DEF r

\* An order is placed exactly when the position (what is available and what is
\* incoming) is below the target, it is a whole number of packs, and beyond the
\* larger of the shortage and the minimum order it buys less than one pack:
\* calculateReplenishment never buys a pack too many, whatever the minimum.
THEOREM OrderFills ==
  ASSUME NEW in, Position(in) \in Int, TargetStock(in) \in Int,
         in.pack \in Nat \ {0}, in.minimum \in Nat
  PROVE  LET short == TargetStock(in) - Position(in)
         IN  /\ short <= 0 => OrderQty(in) = 0
             /\ short > 0 => /\ OrderQty(in) % in.pack = 0
                             /\ OrderQty(in) - Larger(short, in.minimum) \in 0..(in.pack - 1)
<1> DEFINE short == TargetStock(in) - Position(in)
           whole == RoundUpToPack(short, in.pack)
           least == Larger(whole, in.minimum)
           pack == in.pack
           minimum == in.minimum
<1>1. CASE short <= 0
  BY <1>1 DEF OrderQty, Larger
<1>2. CASE short > 0
  <2>1. short \in Nat /\ short # 0 /\ Larger(0, short) = short
    BY <1>2 DEF Larger
  <2>2. OrderQty(in) = RoundUpToPack(least, pack)
    BY <2>1 DEF OrderQty
  <2>3. whole \in Nat /\ whole % pack = 0 /\ whole - short \in 0..(pack - 1)
    <3> HIDE DEF short
    <3> QED BY <2>1, RoundingUp
  <2>4. least \in Nat
    <3> HIDE DEF whole
    <3> QED BY <2>3 DEF Larger
  <2>5. /\ RoundUpToPack(least, pack) \in Nat
        /\ RoundUpToPack(least, pack) % pack = 0
        /\ RoundUpToPack(least, pack) - least \in 0..(pack - 1)
    <3> HIDE DEF least
    <3> QED BY <2>4, RoundingUp
  <2>6. CASE whole >= minimum
    \* The second rounding changes nothing.
    <3>1. least = whole
      BY <2>6 DEF Larger
    <3>2. RoundUpToPack(whole, pack) = whole
      <4> HIDE DEF whole
      <4> QED BY <2>3, RoundingAgain
    <3>3. whole - Larger(short, minimum) \in 0..(pack - 1)
      <4> HIDE DEF whole, short
      <4> QED BY <2>1, <2>3, <2>6 DEF Larger
    <3> QED BY <2>2, <2>3, <3>1, <3>2, <3>3, <1>2
  <2>7. CASE whole < minimum
    <3>1. least = minimum
      BY <2>3, <2>7 DEF Larger
    <3>2. Larger(short, minimum) = minimum
      <4> HIDE DEF whole, short
      <4> QED BY <2>1, <2>3, <2>7 DEF Larger
    <3> HIDE DEF whole, least
    <3> QED BY <1>2, <2>2, <2>5, <3>1, <3>2
  <2> QED
    <3> HIDE DEF whole
    <3> QED BY <2>3, <2>6, <2>7
<1>3. short \in Int
  OBVIOUS
<1> QED
  <2> HIDE DEF short
  <2>1. short <= 0 \/ short > 0
    BY <1>3
  <2> QED BY <1>1, <1>2, <2>1 DEF short

(***************************************************************************)
(* Whether an alarm comes in time.                                         *)
(***************************************************************************)

\* The first day on which the projected stock is at most a level: on no day
\* before it is the stock that low.
LEMMA FirstDayIsFirst ==
  ASSUME NEW in, Horizon(in) \in Nat, NEW level
  PROVE  /\ FirstDayAtMost(in, level) \in Nat
         /\ \A d \in 0..Horizon(in) :
              ProjectedStock(in, d) <= level => FirstDayAtMost(in, level) <= d
<1> DEFINE low == { d \in 0..Horizon(in) : ProjectedStock(in, d) <= level }
           days == low \cup {Horizon(in) + 1}
<1>1. days \in SUBSET Nat /\ days # {}
  BY SMT
<1>2. Min(days) \in days /\ \A n \in days : Min(days) <= n
  <2> HIDE DEF days
  <2> QED BY <1>1, MinIsSmallest
<1>3. FirstDayAtMost(in, level) = Min(days)
  BY DEF FirstDayAtMost
<1>4. \A d \in 0..Horizon(in) : ProjectedStock(in, d) <= level => d \in days
  OBVIOUS
<1> HIDE DEF days
<1> QED BY <1>1, <1>2, <1>3, <1>4

\* No alarm, no hurry: while a planned item's status is not urgent, the projected
\* stock stays above the safety stock for a whole lead time, so goods ordered a
\* day later still arrive before it is touched, whatever is incoming and when.
\* (The last branch of the status, by reorder point, can only add alarms.)
THEOREM QuietMeansTime ==
  ASSUME NEW in, in.demand # 0,
         in.lead \in Nat, in.review \in Nat,
         Status(in) \notin Urgent
  PROVE  \A d \in 0..in.lead : ~(ProjectedStock(in, d) <= in.safety)
<1> DEFINE first == FirstDayAtMost(in, in.safety)
           lead == in.lead
           review == in.review
<1>1. Horizon(in) \in Nat /\ lead <= Horizon(in)
  BY SMT DEF Horizon, Larger
<1>2. first \in Nat
  BY <1>1, FirstDayIsFirst
<1>3. ~(first - lead <= 0)
  <2>1. SUFFICES ASSUME OrderBy(in) <= 0 PROVE FALSE
    BY DEF OrderBy
  <2>2. Status(in) \in {"STOCKED_OUT", "STOCKOUT_RISK", "ORDER_NOW"}
    BY <2>1 DEF Status
  <2> QED BY <2>2 DEF Urgent
<1>4. \A d \in 0..lead : d \in 0..Horizon(in) /\ ~(first <= d)
  <2> HIDE DEF first
  <2> QED BY <1>1, <1>2, <1>3
<1>5. \A d \in 0..Horizon(in) : ProjectedStock(in, d) <= in.safety => first <= d
  BY <1>1, FirstDayIsFirst
<1> HIDE DEF first
<1> QED BY <1>4, <1>5

------------------------------------------------------------------------------
(***************************************************************************)
(* What is incoming: a line brings exactly what is outstanding of it, in    *)
(* whatever order its shipments are read and however they overlap.          *)
(***************************************************************************)

\* What is left of each order as the loop over shipments goes: g is what it computes.
RestFollows(g, out, shipped, n) ==
  g = [i \in 0..n |-> IF i = 0 THEN out ELSE Larger(0, g[i - 1] - shipped[i].qty)]

\* There is such a function.
LEMMA RestIsDefined ==
  ASSUME NEW out, NEW shipped, NEW n \in Nat
  PROVE  \E g : RestFollows(g, out, shipped, n)
<1> DEFINE Good == { m \in Nat : \E g : RestFollows(g, out, shipped, m) }
<1>1. 0 \in Good
  <2>1. RestFollows([i \in 0..0 |-> out], out, shipped, 0)
    BY DEF RestFollows
  <2> QED BY <2>1
<1>2. ASSUME NEW m \in Good PROVE m + 1 \in Good
  <2>1. m \in Nat
    BY <1>2
  <2>2. PICK g : RestFollows(g, out, shipped, m)
    BY <1>2
  <2> DEFINE value(i) == IF i = 0 THEN out ELSE Larger(0, g[i - 1] - shipped[i].qty)
             h == [i \in 0..(m + 1) |-> value(i)]
  <2>3. \A i \in 0..m : g[i] = value(i)
    BY <2>2 DEF RestFollows
  <2>4. \A i \in 0..m : h[i] = g[i]
    BY <2>1, <2>3
  <2>5. \A i \in 0..(m + 1) : i # 0 => h[i - 1] = g[i - 1]
    <3> SUFFICES ASSUME NEW i \in 0..(m + 1), i # 0 PROVE h[i - 1] = g[i - 1]
      OBVIOUS
    <3>1. i - 1 \in 0..m
      BY <2>1
    <3> HIDE DEF h
    <3> QED BY <2>4, <3>1
  <2>6. RestFollows(h, out, shipped, m + 1)
    <3>1. \A i \in 0..(m + 1) :
            value(i) = IF i = 0 THEN out ELSE Larger(0, h[i - 1] - shipped[i].qty)
      <4> HIDE DEF h
      <4> QED BY <2>5
    <3>2. h = [i \in 0..(m + 1) |-> IF i = 0 THEN out ELSE Larger(0, h[i - 1] - shipped[i].qty)]
      <4> DEFINE d == 0..(m + 1)
                 k == h
      <4>1. k = [i \in d |-> value(i)]
        OBVIOUS
      <4>2. \A i \in d : value(i) = IF i = 0 THEN out ELSE Larger(0, k[i - 1] - shipped[i].qty)
        BY <3>1
      <4> HIDE DEF d, k, value
      <4>3. k = [i \in d |-> IF i = 0 THEN out ELSE Larger(0, k[i - 1] - shipped[i].qty)]
        BY <4>1, <4>2
      <4> QED BY <4>3 DEF d, k
    <3> HIDE DEF h
    <3> QED BY <3>2 DEF RestFollows
  <2> HIDE DEF h
  <2> QED BY <2>1, <2>6
<1>3. Good = Nat
  <2> HIDE DEF Good
  <2>1. Good \subseteq Nat
    BY DEF Good
  <2> QED BY <1>1, <1>2, <2>1, EveryNumber
<1> QED BY <1>3

\* The quantities of shipments and the days they are due.
Shippings == [qty : Nat, due : 0..MaxDue]

\* What the shipments leave of a line never goes up, and never below nothing.
LEMMA RestGoesDown ==
  ASSUME NEW out \in Nat, NEW shipped \in Seq(Shippings)
  PROVE  /\ Rest(out, shipped) \in [0..Len(shipped) -> Nat]
         /\ Rest(out, shipped)[0] = out
         /\ \A i \in 1..Len(shipped) : Rest(out, shipped)[i] <= Rest(out, shipped)[i - 1]
<1> DEFINE n == Len(shipped)
           rest == Rest(out, shipped)
<1>0. n \in Nat /\ \A i \in 1..n : shipped[i].qty \in Nat
  <2>1. \A i \in 1..Len(shipped) : shipped[i] \in Shippings
    OBVIOUS
  <2>2. Len(shipped) \in Nat
    OBVIOUS
  <2>3. \A s \in Shippings : s.qty \in Nat
    BY DEF Shippings
  <2> QED BY <2>1, <2>2, <2>3
<1>1. RestFollows(rest, out, shipped, n)
  <2>1. \E g : RestFollows(g, out, shipped, n)
    BY <1>0, RestIsDefined
  <2>2. RestFollows(CHOOSE g : RestFollows(g, out, shipped, n), out, shipped, n)
    <3> DEFINE Right(g) == RestFollows(g, out, shipped, n)
    <3> HIDE DEF Right
    <3>1. \E g : Right(g)
      BY <2>1 DEF Right
    <3>2. Right(CHOOSE g : Right(g))
      BY <3>1
    <3> QED BY <3>2 DEF Right
  <2>3. rest = CHOOSE g : RestFollows(g, out, shipped, n)
    BY DEF Rest, RestFollows
  <2> QED BY <2>2, <2>3
<1> HIDE DEF rest, n
<1>2. /\ rest = [i \in 0..n |-> rest[i]]
      /\ rest[0] = out
      /\ \A i \in 1..n : rest[i] = Larger(0, rest[i - 1] - shipped[i].qty)
  <2> DEFINE value(i) == IF i = 0 THEN out ELSE Larger(0, rest[i - 1] - shipped[i].qty)
             dom == 0..n
  <2>1. rest = [i \in dom |-> value(i)]
    BY <1>1 DEF RestFollows
  <2>2. 0 \in dom /\ \A i \in 1..n : i \in dom /\ i # 0
    BY <1>0
  <2>3. value(0) = out /\ \A i : i # 0 => value(i) = Larger(0, rest[i - 1] - shipped[i].qty)
    OBVIOUS
  <2> HIDE DEF value, dom
  <2>4. rest = [i \in dom |-> rest[i]] /\ \A i \in dom : rest[i] = value(i)
    BY <2>1
  <2> QED BY <2>2, <2>3, <2>4 DEF dom
<1> DEFINE Good == { m \in Nat : m <= n => rest[m] \in Nat }
<1>3. 0 \in Good
  BY <1>2
<1>4. ASSUME NEW m \in Good PROVE m + 1 \in Good
  <2>1. m \in Nat /\ (m <= n => rest[m] \in Nat)
    BY <1>4
  <2> SUFFICES ASSUME m + 1 <= n PROVE rest[m + 1] \in Nat
    BY <2>1
  <2>2. m + 1 \in 1..n /\ (m + 1) - 1 = m
    BY <1>0, <2>1
  <2>3. rest[m + 1] = Larger(0, rest[m] - shipped[m + 1].qty)
    BY <1>2, <2>2
  <2>4. rest[m] \in Nat /\ shipped[m + 1].qty \in Nat
    BY <1>0, <2>1, <2>2
  <2> QED BY <2>3, <2>4 DEF Larger
<1>5. Good = Nat
  <2> HIDE DEF Good
  <2>1. Good \subseteq Nat
    BY DEF Good
  <2> QED BY <1>3, <1>4, <2>1, EveryNumber
<1>6. \A i \in 0..n : rest[i] \in Nat
  BY <1>0, <1>5
<1>7. ASSUME NEW i \in 1..n PROVE rest[i] <= rest[i - 1]
  <2>1. rest[i] = Larger(0, rest[i - 1] - shipped[i].qty) /\ shipped[i].qty \in Nat
    BY <1>0, <1>2
  <2>2. rest[i - 1] \in Nat
    <3>1. i - 1 \in 0..n
      BY <1>0
    <3> QED BY <1>6, <3>1
  <2> QED BY <2>1, <2>2 DEF Larger
<1>8. rest \in [0..n -> Nat]
  BY <1>2, <1>6
<1> QED BY <1>2, <1>7, <1>8 DEF rest, n

\* A line brings what is outstanding of it, all of it on some day: partial shipments,
\* shipments of more than is left and shipments on one day neither lose nor double units.
LEMMA LineBrings ==
  ASSUME NEW out \in Nat, NEW due \in 0..MaxDue, NEW shipped \in Seq(Shippings)
  PROVE  /\ \A d \in 0..MaxDue : LineDue(out, due, shipped, d) \in Nat
         /\ SumFunction([d \in 0..MaxDue |-> LineDue(out, due, shipped, d)]) = out
<1> DEFINE n == Len(shipped)
           rest == Rest(out, shipped)
           days == 0..MaxDue
           dated(i) == shipped[i].due
           last == [d \in days |-> IF d = due THEN rest[n] ELSE 0]
           step == [i \in 1..n |-> rest[i - 1] - rest[i]]
           part == [i \in 1..n |-> [d \in days |-> IF dated(i) = d THEN step[i] ELSE 0]]
           column(d) == [i \in 1..n |-> part[i][d]]
           columns == [d \in days |-> SumFunctionOnSet(column(d), 1..n)]
           rows == [i \in 1..n |-> SumFunctionOnSet(part[i], days)]
           brings == [d \in days |-> LineDue(out, due, shipped, d)]
<1>1. /\ n \in Nat /\ IsFiniteSet(1..n) /\ IsFiniteSet(days) /\ due \in days
      /\ DOMAIN shipped = 1..n
      /\ \A i \in 1..n : dated(i) \in days
  <2>1. \A i \in 1..n : shipped[i] \in Shippings
    OBVIOUS
  <2>2. \A s \in Shippings : s.due \in days
    BY DEF Shippings
  <2>3. n \in Nat /\ DOMAIN shipped = 1..n
    OBVIOUS
  <2>4. MaxDue \in Nat
    BY BoundsAssumption
  <2> QED BY <2>1, <2>2, <2>3, <2>4, FS_Interval
<1>2. /\ rest[0] = out
      /\ \A i \in 0..n : rest[i] \in Nat
      /\ \A i \in 1..n : rest[i] <= rest[i - 1]
  BY RestGoesDown
<1>3. \A i \in 1..n : step[i] \in Nat /\ step[i] = rest[i - 1] - rest[i]
  <2> HIDE DEF n, rest
  <2> SUFFICES ASSUME NEW i \in 1..n PROVE rest[i - 1] - rest[i] \in Nat
    OBVIOUS
  <2>1. i - 1 \in 0..n /\ i \in 0..n
    BY <1>1
  <2> QED BY <1>2, <2>1
<1>4. \A d \in days : brings[d] = last[d] + columns[d]
  <2> SUFFICES ASSUME NEW d \in days PROVE brings[d] = last[d] + columns[d]
    OBVIOUS
  <2> DEFINE f == [i \in DOMAIN shipped |->
                    IF shipped[i].due = d THEN rest[i - 1] - rest[i] ELSE 0]
  <2>1. brings[d] = last[d] + SumFunction(f)
    BY DEF LineDue
  <2>2. f = column(d)
    <3>1. f = [i \in 1..n |-> IF dated(i) = d THEN rest[i - 1] - rest[i] ELSE 0]
      BY <1>1
    <3>2. \A i \in 1..n : part[i][d] = IF dated(i) = d THEN rest[i - 1] - rest[i] ELSE 0
      OBVIOUS
    <3> HIDE DEF part, dated, n, rest, f
    <3> QED BY <3>1, <3>2
  <2>3. SumFunction(f) = SumFunctionOnSet(f, 1..n)
    BY <1>1 DEF SumFunction
  <2>4. columns[d] = SumFunctionOnSet(column(d), 1..n)
    OBVIOUS
  <2> HIDE DEF columns, column, f, last, brings
  <2> QED BY <2>1, <2>2, <2>3, <2>4
<1>5. \A i \in 1..n : \A d \in days : part[i][d] = IF dated(i) = d THEN step[i] ELSE 0
  OBVIOUS
<1>6. \A d \in days : last[d] = IF d = due THEN rest[n] ELSE 0
  OBVIOUS
<1>7. \A d \in days : columns[d] = SumFunctionOnSet(column(d), 1..n)
                      /\ \A i \in 1..n : column(d)[i] = part[i][d]
  OBVIOUS
<1>8. \A i \in 1..n : rows[i] = SumFunctionOnSet(part[i], days)
  OBVIOUS
<1>9. SumFunctionOnSet(rows, 1..n) = SumFunctionOnSet(columns, days)
  <2>1. \A i \in 1..n : \A d \in days : part[i][d] \in Int
    <3> HIDE DEF part, step, dated
    <3> QED BY <1>3, <1>5
  <2> DEFINE S == 1..n
  <2>2. SumFunctionOnSet([i \in S |-> SumFunctionOnSet(part[i], days)], S)
         = SumFunctionOnSet([d \in days |-> SumFunctionOnSet([i \in S |-> part[i][d]], S)], days)
    <3>1. IsFiniteSet(S) /\ IsFiniteSet(days)
      BY <1>1
    <3>2. \A i \in S : \A d \in days : part[i][d] \in Int
      BY <2>1
    <3> HIDE DEF part, days, S
    <3> QED BY <3>1, <3>2, SumExchange
  <2> QED BY <2>2
<1>10. SumFunction(brings) = SumFunctionOnSet(brings, days)
  BY DEF SumFunction
<1> HIDE DEF n, rest, days, dated, last, step, part, column, columns, rows
<1>11. rest[n] \in Nat
  BY <1>1, <1>2
<1>12. \A d \in days : last[d] \in Nat /\ columns[d] \in Nat
  <2> SUFFICES ASSUME NEW d \in days PROVE last[d] \in Nat /\ columns[d] \in Nat
    OBVIOUS
  <2>1. last[d] \in Nat
    BY <1>6, <1>11
  <2>2. \A i \in 1..n : column(d)[i] \in Nat
    BY <1>3, <1>5, <1>7
  <2> DEFINE f == column(d)
  <2>3. \A i \in 1..n : f[i] \in Int /\ f[i] >= 0
    BY <2>2
  <2> HIDE DEF f
  <2>4. SumFunctionOnSet(f, 1..n) \in Int /\ SumFunctionOnSet(f, 1..n) >= 0
    BY <1>1, <2>3, SumType
  <2> QED BY <1>7, <2>1, <2>4 DEF f
<1>13. SumFunctionOnSet(brings, days) = SumFunctionOnSet(last, days) + SumFunctionOnSet(columns, days)
  <2> HIDE DEF brings
  <2>1. \A d \in days : last[d] \in Int /\ columns[d] \in Int /\ brings[d] = last[d] + columns[d]
    BY <1>4, <1>12
  <2> QED BY <1>1, <2>1, SumAdd
<1>14. SumFunctionOnSet(last, days) = rest[n]
  <2>1. last[due] = rest[n] /\ last[due] \in Int /\ \A d \in days : d # due => last[d] = 0
    BY <1>1, <1>6, <1>11
  <2> QED BY <1>1, <2>1, SumSingle
<1>15. \A i \in 1..n : rows[i] = step[i]
  <2> SUFFICES ASSUME NEW i \in 1..n PROVE rows[i] = step[i]
    OBVIOUS
  <2> DEFINE f == part[i]
             x == dated(i)
  <2>1. x \in days /\ f[x] = step[i] /\ f[x] \in Int /\ \A d \in days : d # x => f[d] = 0
    <3>1. x \in days /\ step[i] \in Int
      BY <1>1, <1>3
    <3>2. \A d \in days : f[d] = IF x = d THEN step[i] ELSE 0
      BY <1>5
    <3> HIDE DEF f, x
    <3> QED BY <3>1, <3>2
  <2> HIDE DEF f, x
  <2>2. SumFunctionOnSet(f, days) = f[x]
    BY <1>1, <2>1, SumSingle
  <2> QED BY <1>8, <2>1, <2>2 DEF f
<1>16. SumFunctionOnSet(rows, 1..n) = rest[0] - rest[n]
  <2>1. \A i \in 1..n : rows[i] = rest[i - 1] - rest[i]
    BY <1>3, <1>15
  <2>2. \A i \in 0..n : rest[i] \in Int
    BY <1>2
  <2> QED BY <1>1, <2>1, <2>2, SumOfSteps
<1>17. SumFunctionOnSet(brings, days) = out
  <2> HIDE DEF brings
  <2> QED BY <1>2, <1>9, <1>11, <1>13, <1>14, <1>16
<1>18. \A d \in days : brings[d] \in Nat
  <2> HIDE DEF brings
  <2> QED BY <1>4, <1>12
<1> QED
  <2>1. \A d \in days : LineDue(out, due, shipped, d) \in Nat
    BY <1>18
  <2>2. SumFunction(brings) = out
    BY <1>10, <1>17
  <2> QED BY <2>1, <2>2 DEF days

\* What the open shipments bring of a line is a sequence, in any order of the query.
LEMMA ShippedIsThere ==
  ASSUME TypeOK, NEW p \in Orders, NEW k \in Items, NEW inOrder \in ShipmentOrders
  PROVE  ShippedOf(p, k, inOrder) \in Seq(Shippings)
<1> DEFINE S == { h \in Shipments : shipment[h].open }
           n == Cardinality(S)
           row(i) == LET ship == shipment[inOrder[i]]
                     IN  [qty |-> IF ship.po = p THEN ship.qty[k] ELSE 0, due |-> ship.due]
<1>1. n \in Nat
  <2>1. S \subseteq Shipments /\ IsFiniteSet(Shipments)
    BY BoundsAssumption
  <2> HIDE DEF S
  <2>2. IsFiniteSet(S)
    BY <2>1, FS_Subset
  <2> QED BY <2>2, FS_CardinalityType
<1>2. inOrder \in [1..n -> S]
  BY DEF ShipmentOrders, SetToSeqs
<1>3. \A i \in 1..n : row(i) \in Shippings
  <2> SUFFICES ASSUME NEW i \in 1..n PROVE row(i) \in Shippings
    OBVIOUS
  <2> DEFINE ship == shipment[inOrder[i]]
  <2>1. inOrder[i] \in Shipments
    BY <1>2
  <2>2. ship \in [open : BOOLEAN, po : Orders, qty : [Items -> Nat], due : 0..MaxDue]
    BY <2>1 DEF TypeOK
  <2>3. ship.qty[k] \in Nat /\ ship.due \in 0..MaxDue
    BY <2>2
  <2> HIDE DEF ship
  <2>4. [qty |-> IF ship.po = p THEN ship.qty[k] ELSE 0, due |-> ship.due] \in Shippings
    BY <2>3 DEF Shippings
  <2> QED BY <2>4 DEF ship
<1>4. ShippedOf(p, k, inOrder) = [i \in 1..n |-> row(i)]
  <2>1. DOMAIN inOrder = 1..n
    BY <1>2
  <2> QED BY <2>1 DEF ShippedOf
<1> HIDE DEF n, row
<1>5. [i \in 1..n |-> row(i)] \in [1..n -> Shippings]
  BY <1>3
<1>6. \A f : f \in [1..n -> Shippings] => f \in Seq(Shippings)
  BY <1>1
<1> QED BY <1>4, <1>5, <1>6

\* Orders whose outstanding quantity counts as confirmed.
ConfirmedOrders(orders) ==
  { q \in Orders : orders[q].status \in {"APPROVED", "PARTIALLY_RECEIVED"} }

\* What a recalculation takes for incoming is what is outstanding of the confirmed
\* orders, neither more nor less, however shipments cut it up and delay it.
LEMMA IncomingIsOnOrder ==
  ASSUME TypeOK, NEW k \in Items, NEW inOrder \in ShipmentOrders
  PROVE  /\ InboundReceipts(k, inOrder) \in [0..MaxDue -> Nat]
         /\ SumFunction(InboundReceipts(k, inOrder)) = OnConfirmed(k, po)
         /\ OnConfirmed(k, po) \in Nat
<1> DEFINE C == ConfirmedOrders(po)
           days == 0..MaxDue
           line(p) == [d \in days |-> LineDue(po[p].left[k], po[p].due, ShippedOf(p, k, inOrder), d)]
           t == [p \in C |-> line(p)]
           left == [p \in C |-> po[p].left[k]]
           rows == [p \in C |-> SumFunctionOnSet(t[p], days)]
           receipts == [d \in days |-> SumFunctionOnSet([p \in C |-> t[p][d]], C)]
<1>1. IsFiniteSet(C) /\ IsFiniteSet(days)
  <2>1. C \subseteq Orders /\ IsFiniteSet(Orders) /\ MaxDue \in Nat
    BY BoundsAssumption DEF ConfirmedOrders
  <2> HIDE DEF C
  <2> QED BY <2>1, FS_Subset, FS_Interval
<1>2. OnConfirmed(k, po) = SumFunctionOnSet(left, C)
  BY DEF OnConfirmed, ConfirmedOrders, SumFunction
<1>3. InboundReceipts(k, inOrder) = receipts
  <2>1. \A d \in days :
          [p \in { q \in Orders : po[q].status \in Confirmed } |->
             LineDue(po[p].left[k], po[p].due, ShippedOf(p, k, inOrder), d)]
          = [p \in C |-> t[p][d]]
    BY DEF Confirmed, ConfirmedOrders
  <2>2. \A d \in days : SumFunction([p \in C |-> t[p][d]]) = SumFunctionOnSet([p \in C |-> t[p][d]], C)
    BY DEF SumFunction
  <2> HIDE DEF t
  <2> QED BY <2>1, <2>2 DEF InboundReceipts
<1>4. ASSUME NEW p \in C
      PROVE  /\ \A d \in days : t[p][d] \in Nat
             /\ SumFunctionOnSet(t[p], days) = left[p]
             /\ left[p] \in Nat
  <2> DEFINE out == po[p].left[k]
             due == po[p].due
             shipped == ShippedOf(p, k, inOrder)
  <2>1. p \in Orders
    BY DEF ConfirmedOrders
  <2>2. out \in Nat /\ due \in 0..MaxDue
    <3>1. po[p] \in [ status : {"NONE", "DRAFT", "APPROVED", "PARTIALLY_RECEIVED"},
                      left : [Items -> Nat], due : 0..MaxDue ]
      BY <2>1 DEF TypeOK
    <3> QED BY <3>1
  <2>3. shipped \in Seq(Shippings)
    BY <2>1, ShippedIsThere
  <2>4. t[p] = [d \in days |-> LineDue(out, due, shipped, d)] /\ left[p] = out
    OBVIOUS
  <2> HIDE DEF out, due, shipped, t, left
  <2>5. /\ \A d \in days : LineDue(out, due, shipped, d) \in Nat
        /\ SumFunction([d \in days |-> LineDue(out, due, shipped, d)]) = out
    BY <2>2, <2>3, LineBrings
  <2>6. SumFunction([d \in days |-> LineDue(out, due, shipped, d)])
          = SumFunctionOnSet([d \in days |-> LineDue(out, due, shipped, d)], days)
    BY DEF SumFunction
  <2> QED BY <2>2, <2>4, <2>5, <2>6
<1>5. \A p \in C : rows[p] = SumFunctionOnSet(t[p], days)
  OBVIOUS
<1>6. SumFunctionOnSet(rows, C) = SumFunctionOnSet(receipts, days)
  <2> HIDE DEF C, days, t
  <2>1. \A p \in C : \A d \in days : t[p][d] \in Int
    BY <1>4
  <2> QED BY <1>1, <2>1, SumExchange
<1>7. receipts \in [days -> Nat]
  <2> SUFFICES ASSUME NEW d \in days PROVE SumFunctionOnSet([p \in C |-> t[p][d]], C) \in Nat
    OBVIOUS
  <2> DEFINE f == [p \in C |-> t[p][d]]
  <2>1. \A p \in C : f[p] = t[p][d]
    OBVIOUS
  <2> HIDE DEF f, t, C
  <2>2. \A p \in C : f[p] \in Int /\ f[p] >= 0
    BY <1>4, <2>1
  <2>3. SumFunctionOnSet(f, C) \in Int /\ SumFunctionOnSet(f, C) >= 0
    BY <1>1, <2>2, SumType
  <2>4. SumFunctionOnSet(f, C) \in Nat
    BY <2>3
  <2> QED BY <2>4 DEF f
<1>8. SumFunction(receipts) = SumFunctionOnSet(receipts, days)
  BY DEF SumFunction
<1> HIDE DEF C, days, t, left, rows, receipts
<1>9. SumFunctionOnSet(rows, C) = SumFunctionOnSet(left, C)
  <2>1. \A p \in C : left[p] \in Int /\ rows[p] = left[p]
    BY <1>4, <1>5
  <2> QED BY <1>1, <2>1, SumSame
<1>10. SumFunctionOnSet(left, C) \in Nat
  <2>1. \A p \in C : left[p] \in Int /\ left[p] >= 0
    BY <1>4
  <2>2. SumFunctionOnSet(left, C) \in Int /\ SumFunctionOnSet(left, C) >= 0
    BY <1>1, <2>1, SumType
  <2> QED BY <2>2
<1> QED BY <1>2, <1>3, <1>6, <1>7, <1>8, <1>9, <1>10 DEF days

------------------------------------------------------------------------------
(***************************************************************************)
(* The inputs of a calculation.                                            *)
(***************************************************************************)

\* The percentile of observed lead times is one of them.
LEMMA PercentileIsThere ==
  ASSUME NEW values \in Seq(0..MaxDue), values # << >>
  PROVE  \E i \in 1..Len(values) : Percentile(values, 80) = values[i]
<1> DEFINE n == Len(values)
           vals == { values[i] : i \in DOMAIN values }
           NotAbove(v) == { i \in DOMAIN values : values[i] <= v }
           good == { v \in vals : 100 * Cardinality(NotAbove(v)) >= 80 * n }
<1>1. n \in Nat /\ n # 0 /\ DOMAIN values = 1..n /\ \A i \in 1..n : values[i] \in 0..MaxDue
  <2>1. n \in Nat \ {0}
    BY EmptySeq
  <2> QED BY <2>1, LenProperties, ElementOfSeq
<1>2. MaxDue \in Nat
  BY BoundsAssumption
<1>3. vals \in SUBSET (0..MaxDue) /\ vals # {}
  <2>1. 1 \in 1..n
    BY <1>1
  <2> HIDE DEF n
  <2> QED BY <1>1, <2>1
<1>4. Max(vals) \in vals /\ \A v \in vals : v <= Max(vals)
  <2> HIDE DEF vals
  <2> QED BY <1>2, <1>3, MaxIsLargest
<1>5. NotAbove(Max(vals)) = 1..n
  <2> DEFINE most == Max(vals)
  <2>1. \A i \in 1..n : values[i] <= most
    BY <1>1, <1>4
  <2> HIDE DEF most
  <2> QED BY <1>1, <2>1 DEF most
<1>6. Cardinality(1..n) = n
  <2> HIDE DEF n
  <2> QED BY <1>1, FS_Interval
<1>7. 100 * n >= 80 * n
  <2> HIDE DEF n
  <2> QED BY <1>1
<1>8. Max(vals) \in good
  <2> DEFINE most == Max(vals)
  <2>1. most \in vals /\ 100 * Cardinality(NotAbove(most)) >= 80 * n
    BY <1>4, <1>5, <1>6, <1>7
  <2> HIDE DEF most
  <2> QED BY <2>1 DEF most
<1>9. good \in SUBSET Nat /\ good # {}
  <2> HIDE DEF vals, n, NotAbove
  <2>1. good \subseteq vals
    OBVIOUS
  <2> HIDE DEF good
  <2> QED BY <1>2, <1>3, <1>8, <2>1
<1>10. Min(good) \in good
  <2> HIDE DEF good
  <2> QED BY <1>9, MinIsSmallest
<1>11. Percentile(values, 80) = Min(good)
  BY DEF Percentile
<1> HIDE DEF n
<1> QED BY <1>1, <1>10, <1>11

\* A lead time to plan with is the policy's, the supplier's or one that was observed.
LEMMA LeadIsKnown ==
  ASSUME NEW k \in Items, NEW rule \in Policies[k], NEW seen \in Seq(LeadTimes)
  PROVE  /\ PlanningLead(rule.lead, Terms[k].quoted, seen) \in LeadsOf(k, rule)
         /\ PlanningLead(rule.lead, Terms[k].quoted, seen) \in 0..MaxDue
<1> DEFINE quoted == Terms[k].quoted
           lead == PlanningLead(rule.lead, quoted, seen)
<1>1. /\ MaxDue \in Nat /\ rule.lead \in SUBSET (0..MaxDue)
      /\ LeadTimes \subseteq 0..MaxDue /\ quoted \in 0..MaxDue
  <2>1. Terms[k] \in [pack : Nat \ {0}, minimum : Nat, quoted : Nat]
    BY ItemsAssumption
  <2>2. quoted \in Nat /\ quoted <= MaxDue /\ MaxDue \in Nat /\ LeadTimes \subseteq 0..MaxDue
    BY <2>1, PoliciesAssumption, BoundsAssumption
  <2>3. rule \in UNION { Policies[j] : j \in Items }
    OBVIOUS
  <2>4. rule.lead \in SUBSET (0..MaxDue)
    BY <2>3, PoliciesAssumption
  <2> HIDE DEF quoted
  <2> QED BY <2>2, <2>4
<1>2. CASE rule.lead # {}
  <2>1. lead = Max(rule.lead)
    BY <1>2 DEF PlanningLead
  <2> DEFINE manual == rule.lead
  <2>2. Max(manual) \in manual
    <3>1. manual \in SUBSET (0..MaxDue) /\ manual # {}
      BY <1>1, <1>2
    <3> HIDE DEF manual
    <3> QED BY <1>1, <3>1, MaxIsLargest
  <2> QED BY <1>1, <1>2, <2>1, <2>2 DEF LeadsOf
<1>3. CASE rule.lead = {} /\ seen = << >>
  BY <1>1, <1>3 DEF PlanningLead, LeadsOf
<1>4. CASE rule.lead = {} /\ seen # << >>
  <2> DEFINE slow == Percentile(seen, 80)
  <2>1. lead = Larger(quoted, slow)
    BY <1>4 DEF PlanningLead
  <2>2. \A i \in 1..Len(seen) : seen[i] \in LeadTimes
    OBVIOUS
  <2>3. seen \in Seq(0..MaxDue)
    BY <1>1, SeqMonotonic
  <2>4. slow \in LeadTimes
    BY <1>4, <2>2, <2>3, PercentileIsThere
  <2> HIDE DEF slow
  <2>5. lead = quoted \/ lead \in LeadTimes
    BY <2>1, <2>4 DEF Larger
  <2> QED BY <1>1, <1>4, <2>5 DEF LeadsOf
<1> QED BY <1>2, <1>3, <1>4

\* What the formulas of a recommendation take, with an item's types.
PlanInputs ==
  [free : Int, incoming : [0..MaxDue -> Nat], demand : Nat, lead : 0..MaxDue, safety : Nat,
   review : Nat \ {0}, pack : Nat \ {0}, minimum : Nat]

\* A calculation that has read the stock and not yet planned.
StockRead(w) == w \in Runs /\ calc[w].step = "STOCK_READ"

\* What a recalculation that has read the stock has in hand.
LEMMA ReadingIsThere ==
  ASSUME TypeOK, NEW w, StockRead(w)
  PROVE  /\ calc[w].item \in Items /\ calc[w].free \in Int /\ calc[w].demand \in Nat
         /\ calc[w].known \in Int /\ calc[w].todo \in SUBSET Items
         /\ calc[w].policy \in PolicyRows
         /\ calc[w].policy[calc[w].item] \in Policies[calc[w].item]
         /\ calc[w].demand \in DemandsOf(calc[w].policy[calc[w].item])
<1> DEFINE row == calc[w]
<1>1. row \in CalcRows /\ row.step = "STOCK_READ"
  BY DEF TypeOK, StockRead
<1> HIDE DEF row
<1>2. /\ row \in [step : {"STOCK_READ"}, todo : SUBSET Items, policy : PolicyRows, item : Items,
                  free : Int, demand : Nat, known : Int]
      /\ row.demand \in DemandsOf(row.policy[row.item])
  BY <1>1 DEF CalcRows, Idle
<1>3. row.policy[row.item] \in Policies[row.item]
  BY <1>2 DEF PolicyRows
<1> QED BY <1>2, <1>3 DEF row

\* A calculation is given numbers of the right kind, and as incoming exactly what is
\* outstanding of the confirmed orders.
LEMMA InputIsThere ==
  ASSUME TypeOK, NEW w, StockRead(w), NEW inOrder \in ShipmentOrders
  PROVE  /\ InputOf(w, inOrder) \in PlanInputs
         /\ Incoming(InputOf(w, inOrder)) = OnConfirmed(calc[w].item, po)
         /\ OnConfirmed(calc[w].item, po) \in Nat
         /\ InputOf(w, inOrder).lead \in LeadsOf(calc[w].item, calc[w].policy[calc[w].item])
<1> DEFINE k == calc[w].item
           rule == calc[w].policy[k]
           demand == calc[w].demand
           lead == PlanningLead(rule.lead, Terms[k].quoted, observed[k])
           safety == Larger(rule.safety, demand * rule.safetyDays)
           receipts == InboundReceipts(k, inOrder)
<1>1. k \in Items /\ calc[w].free \in Int /\ demand \in Nat /\ rule \in Policies[k]
  BY ReadingIsThere
<1>2. Terms[k].pack \in Nat \ {0} /\ Terms[k].minimum \in Nat
  BY <1>1, ItemsAssumption
<1>3. rule.safety \in Nat /\ rule.safetyDays \in Nat /\ rule.review \in Nat \ {0}
  <2>1. rule \in UNION { Policies[j] : j \in Items }
    BY <1>1
  <2> QED BY <2>1, PoliciesAssumption
<1>4. safety \in Nat
  <2> DEFINE a == rule.safety
             b == rule.safetyDays
  <2>1. a \in Nat /\ b \in Nat /\ demand \in Nat
    BY <1>1, <1>3
  <2> HIDE DEF a, b, demand
  <2>2. demand * b \in Nat
    BY <2>1, Z3
  <2>3. Larger(a, demand * b) \in Nat
    BY <2>1, <2>2 DEF Larger
  <2> QED BY <2>3 DEF a, b
<1>5. lead \in LeadsOf(k, rule) /\ lead \in 0..MaxDue
  <2>1. observed[k] \in Seq(LeadTimes)
    BY <1>1 DEF TypeOK
  <2> HIDE DEF k, rule
  <2> QED BY <1>1, <2>1, LeadIsKnown
<1>6. /\ receipts \in [0..MaxDue -> Nat]
      /\ SumFunction(receipts) = OnConfirmed(k, po)
      /\ OnConfirmed(k, po) \in Nat
  <2> HIDE DEF k
  <2> QED BY <1>1, IncomingIsOnOrder
<1>7. InputOf(w, inOrder) =
        [ free |-> calc[w].free, incoming |-> receipts, demand |-> demand, lead |-> lead,
          safety |-> safety, review |-> rule.review, pack |-> Terms[k].pack,
          minimum |-> Terms[k].minimum ]
  BY DEF InputOf
<1>8. Incoming(InputOf(w, inOrder)) = OnConfirmed(k, po)
  BY <1>6, <1>7 DEF Incoming
<1>9. InputOf(w, inOrder) \in PlanInputs
  <2> HIDE DEF k, rule, demand, lead, safety, receipts
  <2> QED BY <1>1, <1>2, <1>3, <1>4, <1>5, <1>6, <1>7 DEF PlanInputs
<1>10. InputOf(w, inOrder).lead = lead
  BY <1>7
<1> QED BY <1>5, <1>6, <1>8, <1>9, <1>10

------------------------------------------------------------------------------
(***************************************************************************)
(* What the calculation makes of its inputs.                               *)
(***************************************************************************)

\* Position, target and reorder point are numbers.
LEMMA PlanNumbers ==
  ASSUME NEW in \in PlanInputs
  PROVE  /\ Available(in) \in Nat /\ Incoming(in) \in Nat /\ Position(in) \in Nat
         /\ TargetStock(in) \in Nat /\ ReorderPoint(in) \in Nat
         /\ in.demand * (in.lead + in.review) \in Nat
<1> DEFINE incoming == in.incoming
           demand == in.demand
           lead == in.lead
           review == in.review
<1>1. /\ in.free \in Int /\ incoming \in [0..MaxDue -> Nat] /\ demand \in Nat
      /\ lead \in 0..MaxDue /\ in.safety \in Nat /\ review \in Nat \ {0}
  BY DEF PlanInputs
<1>2. MaxDue \in Nat /\ IsFiniteSet(0..MaxDue)
  <2>1. MaxDue \in Int /\ 0 \in Int /\ MaxDue \in Nat
    BY BoundsAssumption
  <2> QED BY <2>1, FS_Interval
<1>3. Available(in) \in Nat
  BY <1>1 DEF Available, Larger
<1>4. Incoming(in) \in Nat
  <2>1. DOMAIN incoming = 0..MaxDue /\ \A d \in 0..MaxDue : incoming[d] \in Int /\ incoming[d] >= 0
    <3> HIDE DEF incoming
    <3>1. DOMAIN incoming = 0..MaxDue /\ \A d \in 0..MaxDue : incoming[d] \in Nat
      BY <1>1
    <3>2. \A n \in Nat : n \in Int /\ n >= 0
      OBVIOUS
    <3> QED BY <3>1, <3>2
  <2> DEFINE days == 0..MaxDue
  <2> HIDE DEF incoming, days
  <2>2. SumFunctionOnSet(incoming, days) \in Int /\ SumFunctionOnSet(incoming, days) >= 0
    BY <1>2, <2>1, SumType DEF days
  <2>3. SumFunctionOnSet(incoming, days) \in Nat
    BY <2>2
  <2> QED BY <2>1, <2>3 DEF Incoming, SumFunction, incoming, days
<1>5. demand * (lead + review) \in Nat /\ demand * lead \in Nat
  <2> HIDE DEF demand, lead, review
  <2>1. lead \in Nat /\ lead + review \in Nat
    BY <1>1, <1>2
  <2>2. \A x, y \in Nat : x * y \in Nat
    BY Z3
  <2> QED BY <1>1, <2>1, <2>2
<1>6. TargetStock(in) \in Nat /\ ReorderPoint(in) \in Nat
  <2> DEFINE a == demand * (lead + review)
             b == demand * lead
             c == in.safety
  <2>1. a \in Nat /\ b \in Nat /\ c \in Nat
    BY <1>1, <1>5
  <2>2. TargetStock(in) = a + c /\ ReorderPoint(in) = b + c
    BY DEF TargetStock, ReorderPoint
  <2> HIDE DEF a, b, c
  <2> QED BY <2>1, <2>2
<1>7. Position(in) \in Nat
  BY <1>3, <1>4 DEF Position
<1> QED BY <1>3, <1>4, <1>5, <1>6, <1>7

\* An order is a number of units, and beyond the larger of the shortage and the minimum
\* less than a pack.
LEMMA OrderIsBounded ==
  ASSUME NEW in \in PlanInputs
  PROVE  /\ OrderQty(in) \in Nat
         /\ OrderQty(in) > 0 =>
              /\ TargetStock(in) - Position(in) > 0
              /\ OrderQty(in) <= Larger(TargetStock(in) - Position(in), in.minimum) + in.pack - 1
<1> DEFINE target == TargetStock(in)
           position == Position(in)
           pack == in.pack
           minimum == in.minimum
           qty == OrderQty(in)
           short == target - position
           enough == Larger(short, minimum)
<1>1. target \in Nat /\ position \in Nat
  BY PlanNumbers
<1>2. pack \in Nat \ {0} /\ minimum \in Nat
  BY DEF PlanInputs
<1>3. /\ short <= 0 => qty = 0
      /\ short > 0 => qty - enough \in 0..(pack - 1)
  <2>1. target \in Int /\ position \in Int
    BY <1>1
  <2> QED BY <1>2, <2>1, OrderFills
<1>4. short > 0 => qty \in Int
  <2>1. CASE short > 0
    <3> DEFINE whole == RoundUpToPack(short, pack)
               least == Larger(whole, minimum)
    <3>1. Larger(0, short) = short /\ short # 0 /\ short \in Nat
      <4> HIDE DEF target, position
      <4> QED BY <1>1, <2>1 DEF Larger
    <3>2. qty = RoundUpToPack(least, pack)
      BY <3>1 DEF OrderQty
    <3>3. whole \in Nat
      <4> HIDE DEF short, pack
      <4> QED BY <1>2, <3>1, RoundingUp
    <3>4. least \in Nat
      <4> HIDE DEF whole, minimum
      <4> QED BY <1>2, <3>3 DEF Larger
    <3>5. RoundUpToPack(least, pack) \in Nat
      <4> HIDE DEF least, pack
      <4> QED BY <1>2, <3>4, RoundingUp
    <3> HIDE DEF qty, least
    <3> QED BY <3>2, <3>5
  <2> QED BY <2>1
<1> HIDE DEF target, position, pack, minimum, qty
<1>5. short \in Int /\ enough \in Nat /\ (short > 0 => enough >= short)
  BY <1>1, <1>2 DEF Larger
<1> HIDE DEF short, enough
<1>6. qty \in Nat /\ (qty > 0 => short > 0 /\ qty <= enough + pack - 1)
  BY <1>2, <1>3, <1>4, <1>5
<1> QED BY <1>6 DEF qty, short, enough, target, position, pack, minimum

\* The projection and what is expected differ by what is overdue or has no date.
LEMMA ExpectedAndProjected ==
  ASSUME NEW in \in PlanInputs, NEW d \in Nat
  PROVE  /\ ProjectedStock(in, d) \in Int
         /\ in.incoming[0] \in Nat
         /\ ExpectedStock(in, d) = ProjectedStock(in, d) + in.incoming[0]
<1> DEFINE incoming == in.incoming
           later == DOMAIN incoming \cap 1..d
           onTime == SumFunctionOnSet(incoming, later)
           used == d * in.demand
<1>1. /\ MaxDue \in Nat /\ IsFiniteSet(0..MaxDue)
      /\ incoming \in [0..MaxDue -> Nat] /\ in.demand \in Nat
  BY BoundsAssumption, FS_Interval DEF PlanInputs
<1>2. DOMAIN incoming \cap 0..d = later \cup {0} /\ 0 \notin later /\ later \subseteq 0..MaxDue
  <2>1. DOMAIN incoming = 0..MaxDue
    BY <1>1
  <2> QED BY <1>1, <2>1
<1>3. used \in Nat
  <2> DEFINE n == in.demand
  <2>1. n \in Nat
    BY <1>1
  <2> HIDE DEF n
  <2>2. d * n \in Nat
    BY <2>1, Z3
  <2> QED BY <2>2 DEF n
<1>4. IsFiniteSet(later) /\ \A x \in later \cup {0} : incoming[x] \in Int /\ incoming[x] >= 0
  <2>1. IsFiniteSet(later)
    BY <1>1, <1>2, FS_Subset
  <2>2. \A x \in later \cup {0} : x \in 0..MaxDue
    BY <1>1, <1>2
  <2> QED BY <1>1, <2>1, <2>2
<1>5. /\ onTime \in Int
      /\ SumFunctionOnSet(incoming, later \cup {0}) = incoming[0] + onTime
  <2> HIDE DEF later, incoming
  <2> QED BY <1>2, <1>4, SumType, SumInsert
<1>6. Available(in) \in Nat
  BY PlanNumbers
<1>7. ProjectedStock(in, d) = Available(in) + onTime - used
  BY DEF ProjectedStock, ArrivesOn
<1>8. ExpectedStock(in, d) = Available(in) + SumFunctionOnSet(incoming, later \cup {0}) - used
  BY <1>2 DEF ExpectedStock, ArrivesOn
<1>9. incoming[0] \in Nat
  BY <1>1
<1> HIDE DEF used, onTime, later
<1> QED BY <1>3, <1>5, <1>6, <1>7, <1>8, <1>9

\* No alarm means time to order, whatever is overdue.
LEMMA QuietIsSafe ==
  ASSUME NEW in \in PlanInputs, in.demand > 0, Status(in) \notin Urgent
  PROVE  \A d \in 0..in.lead : ExpectedStock(in, d) > in.safety
<1>1. /\ in.lead \in Nat /\ in.review \in Nat /\ in.demand # 0 /\ in.safety \in Nat
  BY BoundsAssumption DEF PlanInputs
<1>2. \A d \in 0..in.lead : ~(ProjectedStock(in, d) <= in.safety)
  BY <1>1, QuietMeansTime
<1> SUFFICES ASSUME NEW d \in 0..in.lead PROVE ExpectedStock(in, d) > in.safety
  OBVIOUS
<1>3. d \in Nat
  BY <1>1
<1>4. /\ ProjectedStock(in, d) \in Int
      /\ in.incoming[0] \in Nat
      /\ ExpectedStock(in, d) = ProjectedStock(in, d) + in.incoming[0]
  BY <1>3, ExpectedAndProjected
<1> DEFINE a == ProjectedStock(in, d)
           b == in.incoming[0]
           c == in.safety
<1>5. a \in Int /\ b \in Nat /\ c \in Nat /\ ~(a <= c) /\ ExpectedStock(in, d) = a + b
  BY <1>1, <1>2, <1>4
<1> HIDE DEF a, b, c
<1>6. a + b > c
  BY <1>5
<1> QED BY <1>5, <1>6 DEF c

\* The first day on which the stock is low enough, when it is within the horizon.
LEMMA FirstDayIsLow ==
  ASSUME NEW in, Horizon(in) \in Nat, NEW level, FirstDayAtMost(in, level) <= Horizon(in)
  PROVE  /\ FirstDayAtMost(in, level) \in Nat
         /\ ProjectedStock(in, FirstDayAtMost(in, level)) <= level
<1> DEFINE low == { d \in 0..Horizon(in) : ProjectedStock(in, d) <= level }
           days == low \cup {Horizon(in) + 1}
           first == FirstDayAtMost(in, level)
<1>1. days \in SUBSET Nat /\ days # {}
  BY SMT
<1>2. first \in days
  <2>1. Min(days) \in days
    <3> HIDE DEF days
    <3> QED BY <1>1, MinIsSmallest
  <2>2. first = Min(days)
    BY DEF FirstDayAtMost
  <2> HIDE DEF first, days
  <2> QED BY <2>1, <2>2
<1>3. first # Horizon(in) + 1
  <2> HIDE DEF first
  <2> QED BY DEF first
<1>4. first \in low
  <2> HIDE DEF first, low
  <2> QED BY <1>2, <1>3
<1> HIDE DEF first
<1>5. first \in Nat /\ ProjectedStock(in, first) <= level
  BY <1>4
<1> QED BY <1>5 DEF first

\* An alarm is not raised without need, when nothing is overdue.
LEMMA AlarmIsNeeded ==
  ASSUME NEW in \in PlanInputs, Status(in) \in Urgent, in.incoming[0] = 0
  PROVE  RunsShort(in)
<1> DEFINE lead == in.lead
           review == in.review
           safety == in.safety
<1>1. lead \in Nat /\ review \in Nat /\ safety \in Nat
  BY BoundsAssumption DEF PlanInputs
<1>2. Horizon(in) \in Nat /\ lead <= Horizon(in)
  BY <1>1, SMT DEF Horizon, Larger
<1>3. \A d \in 0..lead : ProjectedStock(in, d) <= safety => RunsShort(in)
  <2> SUFFICES ASSUME NEW d \in 0..lead, ProjectedStock(in, d) <= safety PROVE RunsShort(in)
    OBVIOUS
  <2>1. d \in Nat
    BY <1>1
  <2>2. /\ ProjectedStock(in, d) \in Int
        /\ ExpectedStock(in, d) = ProjectedStock(in, d) + in.incoming[0]
    BY <2>1, ExpectedAndProjected
  <2>3. ExpectedStock(in, d) = ProjectedStock(in, d)
    <3> DEFINE a == ProjectedStock(in, d)
    <3>1. a \in Int /\ ExpectedStock(in, d) = a + 0
      BY <2>2
    <3> HIDE DEF a
    <3>2. ExpectedStock(in, d) = a
      BY <3>1
    <3> QED BY <3>2 DEF a
  <2>4. ExpectedStock(in, d) <= in.safety
    BY <2>3
  <2> QED BY <2>4 DEF RunsShort
<1>4. ASSUME NEW level, level \in {0, safety}, FirstDayAtMost(in, level) - lead <= 0
      PROVE  RunsShort(in)
  <2> DEFINE first == FirstDayAtMost(in, level)
  <2>1. first \in Nat
    BY <1>2, FirstDayIsFirst
  <2>2. first <= lead /\ first <= Horizon(in) /\ first \in 0..lead
    <3> HIDE DEF first
    <3> QED BY <1>1, <1>2, <1>4, <2>1 DEF first
  <2>3. ProjectedStock(in, first) <= level
    BY <1>2, <2>2, FirstDayIsLow
  <2>4. ProjectedStock(in, first) \in Int
    BY <2>1, ExpectedAndProjected
  <2> DEFINE stock == ProjectedStock(in, first)
  <2>5. stock <= safety
    <3>1. stock \in Int /\ stock <= level /\ (level = 0 \/ level = safety)
      BY <1>4, <2>3, <2>4
    <3> HIDE DEF stock, safety
    <3> QED BY <1>1, <3>1
  <2> HIDE DEF first
  <2> QED BY <1>3, <2>2, <2>5
<1>5. \/ Available(in) = 0
      \/ FirstDayAtMost(in, 0) < lead
      \/ FirstDayAtMost(in, safety) - lead <= 0
      \/ Position(in) <= ReorderPoint(in)
  <2>1. Status(in) # "HEALTHY" /\ Status(in) # "ORDER_SOON" /\ Status(in) # "PLAN"
    BY DEF Urgent
  <2> QED BY <2>1 DEF Status, OrderBy
<1>6. CASE Available(in) = 0
  <2>1. ProjectedStock(in, 0) <= safety
    <3> DEFINE none == SumFunctionOnSet(in.incoming, {})
               n == in.demand
    <3>1. DOMAIN in.incoming \cap 1..0 = {}
      BY SMT
    <3>2. none = 0
      BY SumEmpty
    <3>3. ProjectedStock(in, 0) = 0 + none - 0 * n
      BY <1>6, <3>1 DEF ProjectedStock, ArrivesOn
    <3>4. 0 * n = 0
      <4>1. n \in Nat
        BY DEF PlanInputs
      <4> HIDE DEF n
      <4> QED BY <4>1
    <3> HIDE DEF none, n, safety
    <3> QED BY <1>1, <3>2, <3>3, <3>4
  <2> QED BY <1>1, <1>3, <2>1
<1>7. CASE FirstDayAtMost(in, 0) < lead
  <2>1. FirstDayAtMost(in, 0) \in Nat
    BY <1>2, FirstDayIsFirst
  <2>2. FirstDayAtMost(in, 0) - lead <= 0
    BY <1>1, <1>7, <2>1
  <2> QED BY <1>4, <2>2
<1>8. CASE FirstDayAtMost(in, safety) - lead <= 0
  BY <1>4, <1>8
<1>9. CASE Position(in) <= ReorderPoint(in)
  BY <1>9 DEF RunsShort
<1> QED BY <1>5, <1>6, <1>7, <1>8, <1>9

\* The two properties of a calculation hold of every input that can come about.
LEMMA InputsAreThere == TypeOK => Inputs \subseteq PlanInputs
<1> SUFFICES ASSUME TypeOK, NEW in \in Inputs PROVE in \in PlanInputs
  OBVIOUS
<1>1. PICK w \in { v \in Runs : calc[v].step = "STOCK_READ" }, inOrder \in ShipmentOrders :
        in = InputOf(w, inOrder)
  BY DEF Inputs
<1>2. StockRead(w)
  BY DEF StockRead
<1> QED BY <1>1, <1>2, InputIsThere

\* Every advice made from typed values fills its target.
LEMMA OrdersFill == TypeOK => OrderFillsTarget
<1> SUFFICES ASSUME TypeOK, NEW in \in Inputs
             PROVE  LET short == TargetStock(in) - Position(in)
                    IN  IF short <= 0 THEN OrderQty(in) = 0
                        ELSE /\ OrderQty(in) % in.pack = 0
                             /\ OrderQty(in) - Larger(short, in.minimum) \in 0..(in.pack - 1)
  BY DEF OrderFillsTarget
<1> DEFINE target == TargetStock(in)
           position == Position(in)
           short == target - position
<1>1. in \in PlanInputs
  BY InputsAreThere
<1>2. target \in Int /\ position \in Int
  BY <1>1, PlanNumbers
<1>3. in.pack \in Nat \ {0} /\ in.minimum \in Nat
  BY <1>1 DEF PlanInputs
<1>4. /\ short <= 0 => OrderQty(in) = 0
      /\ short > 0 => /\ OrderQty(in) % in.pack = 0
                      /\ OrderQty(in) - Larger(short, in.minimum) \in 0..(in.pack - 1)
  BY <1>2, <1>3, OrderFills
<1>5. short <= 0 \/ short > 0
  <2> HIDE DEF target, position
  <2> QED BY <1>2
<1> HIDE DEF short
<1>6. IF short <= 0 THEN OrderQty(in) = 0
      ELSE /\ OrderQty(in) % in.pack = 0
           /\ OrderQty(in) - Larger(short, in.minimum) \in 0..(in.pack - 1)
  BY <1>4, <1>5
<1> QED BY <1>6 DEF short

\* Every alarm of an advice made from typed values comes in time.
LEMMA AlarmsAreRight == TypeOK => AlarmsInTime
<1> SUFFICES ASSUME TypeOK, NEW in \in Inputs
             PROVE  LET urgent == Status(in) \in Urgent IN
                    /\ in.demand > 0 /\ ~urgent
                         => \A d \in 0..in.lead : ExpectedStock(in, d) > in.safety
                    /\ urgent /\ in.incoming[0] = 0 => RunsShort(in)
  BY DEF AlarmsInTime
<1>1. in \in PlanInputs
  BY InputsAreThere
<1> QED BY <1>1, QuietIsSafe, AlarmIsNeeded

------------------------------------------------------------------------------
(***************************************************************************)
(* Every step keeps the rows in order.                                     *)
(***************************************************************************)

\* Order rows, shipment rows and the rows of one read, typed.
OrderRows ==
  [ status : {"NONE", "DRAFT", "APPROVED", "PARTIALLY_RECEIVED"},
    left : [Items -> Nat], due : 0..MaxDue ]
ShipmentRows == [ open : BOOLEAN, po : Orders, qty : [Items -> Nat], due : 0..MaxDue ]
PageRows == [qty : Nat, lead : 0..MaxDue, whole : BOOLEAN]

\* The empty rows are rows.
LEMMA EmptyRows ==
  /\ Nothing \in [Items -> Nat] /\ NoOrder \in OrderRows /\ NoShipment \in ShipmentRows
  /\ NoRow \in PageRows /\ Idle \in CalcRows
<1>1. MaxDue \in Nat /\ Orders # {}
  BY BoundsAssumption
<1>2. Nothing \in [Items -> Nat]
  BY DEF Nothing
<1>3. NoOrder \in OrderRows
  BY <1>1, <1>2 DEF NoOrder, OrderRows
<1>4. NoShipment \in ShipmentRows
  <2> DEFINE some == CHOOSE p \in Orders : TRUE
  <2>1. some \in Orders
    BY <1>1
  <2> HIDE DEF some
  <2>2. [open |-> FALSE, po |-> some, qty |-> Nothing, due |-> 0] \in ShipmentRows
    BY <1>1, <1>2, <2>1 DEF ShipmentRows
  <2> QED BY <2>2 DEF NoShipment, some
<1>5. NoRow \in PageRows
  BY <1>1 DEF NoRow, PageRows
<1>6. Idle \in CalcRows
  BY DEF CalcRows
<1> QED BY <1>2, <1>3, <1>4, <1>5, <1>6

\* What is outstanding of the confirmed orders, as a sum over all orders.
LEMMA ConfirmedSum ==
  ASSUME NEW orders \in [Orders -> OrderRows], NEW k \in Items
  PROVE  /\ OnConfirmed(k, orders) \in Nat
         /\ OnConfirmed(k, orders) =
              SumFunctionOnSet([p \in Orders |-> IF p \in ConfirmedOrders(orders)
                                                 THEN orders[p].left[k] ELSE 0], Orders)
<1> DEFINE C == ConfirmedOrders(orders)
           left == [p \in C |-> orders[p].left[k]]
           all == [p \in Orders |-> IF p \in C THEN orders[p].left[k] ELSE 0]
<1>1. IsFiniteSet(Orders) /\ C \in SUBSET Orders
  BY BoundsAssumption DEF ConfirmedOrders
<1>2. \A p \in C : left[p] \in Nat
  <2> SUFFICES ASSUME NEW p \in C PROVE orders[p].left[k] \in Nat
    OBVIOUS
  <2>1. orders[p] \in OrderRows
    BY <1>1
  <2> QED BY <2>1 DEF OrderRows
<1>3. \A p \in Orders : all[p] = IF p \in C THEN left[p] ELSE 0
  OBVIOUS
<1>4. OnConfirmed(k, orders) = SumFunctionOnSet(left, C)
  BY DEF OnConfirmed, ConfirmedOrders, SumFunction
<1> HIDE DEF C, left, all
<1>5. SumFunctionOnSet(all, Orders) = SumFunctionOnSet(left, C)
  <2>1. \A p \in C : left[p] \in Int
    BY <1>2
  <2> QED BY <1>1, <1>3, <2>1, SumWithin
<1>6. SumFunctionOnSet(left, C) \in Nat
  <2>1. IsFiniteSet(C)
    BY <1>1, FS_Subset
  <2>2. \A p \in C : left[p] \in Int /\ left[p] >= 0
    BY <1>2
  <2>3. SumFunctionOnSet(left, C) \in Int /\ SumFunctionOnSet(left, C) >= 0
    BY <2>1, <2>2, SumType
  <2> QED BY <2>3
<1> QED BY <1>4, <1>5, <1>6 DEF all, C

\* Learning what was confirmed keeps a recalculation's row in order.
LEMMA KnowingMore ==
  ASSUME TypeOK, NEW orders \in [Orders -> OrderRows]
  PROVE  KnowMore(orders) \in [Runs -> CalcRows]
<1> DEFINE row(w) ==
      IF calc[w].step = "STOCK_READ"
      THEN LET k == calc[w].item
               more == Larger(0, OnConfirmed(k, orders) - OnConfirmed(k, po))
           IN  [calc[w] EXCEPT !.known = @ + more]
      ELSE calc[w]
<1>1. ASSUME NEW w \in Runs PROVE row(w) \in CalcRows
  <2>1. CASE calc[w].step # "STOCK_READ"
    BY <2>1 DEF TypeOK
  <2>2. CASE calc[w].step = "STOCK_READ"
    <3> DEFINE k == calc[w].item
               more == Larger(0, OnConfirmed(k, orders) - OnConfirmed(k, po))
               old == calc[w]
               policies == PolicyRows
    <3>1. StockRead(w)
      BY <2>2 DEF StockRead
    <3>2. k \in Items /\ calc[w].known \in Int
      BY <3>1, ReadingIsThere
    <3>3. po \in [Orders -> OrderRows]
      BY DEF TypeOK, OrderRows
    <3>4. more \in Int
      <4> DEFINE a == OnConfirmed(k, orders)
                 b == OnConfirmed(k, po)
      <4>1. a \in Nat /\ b \in Nat
        BY <3>2, <3>3, ConfirmedSum
      <4> HIDE DEF a, b
      <4>2. Larger(0, a - b) \in Int
        BY <4>1 DEF Larger
      <4> QED BY <4>2 DEF a, b
    <3>5. /\ old \in [step : {"STOCK_READ"}, todo : SUBSET Items, policy : policies, item : Items,
                      free : Int, demand : Nat, known : Int]
          /\ old.demand \in DemandsOf(old.policy[old.item])
      <4>1. old \in CalcRows /\ old.step = "STOCK_READ"
        BY <2>2 DEF TypeOK
      <4> HIDE DEF old
      <4> QED BY <4>1 DEF CalcRows, Idle
    <3> HIDE DEF k, more, old, policies
    <3>6. [old EXCEPT !.known = @ + more] \in
             { r \in [step : {"STOCK_READ"}, todo : SUBSET Items, policy : policies, item : Items,
                      free : Int, demand : Nat, known : Int] :
               r.demand \in DemandsOf(r.policy[r.item]) }
      <4> DEFINE new == [old EXCEPT !.known = @ + more]
      <4>1. old.known + more \in Int
        BY <3>4, <3>5
      <4>2. new \in [step : {"STOCK_READ"}, todo : SUBSET Items, policy : policies, item : Items,
                     free : Int, demand : Nat, known : Int]
        BY <3>5, <4>1
      <4>3. new.demand = old.demand /\ new.policy = old.policy /\ new.item = old.item
        BY <3>5
      <4> HIDE DEF new
      <4>4. new.demand \in DemandsOf(new.policy[new.item])
        BY <3>5, <4>3
      <4>5. new \in { r \in [step : {"STOCK_READ"}, todo : SUBSET Items, policy : policies,
                             item : Items, free : Int, demand : Nat, known : Int] :
                      r.demand \in DemandsOf(r.policy[r.item]) }
        BY <4>2, <4>4
      <4> QED BY <4>5 DEF new
    <3>7. row(w) = [old EXCEPT !.known = @ + more]
      BY <2>2 DEF old, more, k
    <3> HIDE DEF row
    <3> QED BY <3>6, <3>7 DEF CalcRows, policies
  <2> QED BY <2>1, <2>2
<1>2. KnowMore(orders) = [w \in Runs |-> row(w)]
  BY DEF KnowMore
<1> HIDE DEF row
<1> QED BY <1>1, <1>2

\* The initial state is typed.
LEMMA TypeInit == Init => TypeOK
<1> SUFFICES ASSUME Init PROVE TypeOK
  OBVIOUS
<1>1. {Newest, MaxDue, MaxFree, MaxOversold, MaxAborts} \subseteq Nat
  BY BoundsAssumption
<1>2. policy \in PolicyRows /\ aborts \in 0..MaxAborts /\ doubled \subseteq Items
  BY <1>1 DEF Init
<1>3. free \in [Items -> -MaxOversold..MaxFree]
  <2>1. 0..MaxFree \subseteq -MaxOversold..MaxFree
    BY <1>1
  <2>2. free \in [Items -> 0..MaxFree]
    BY DEF Init
  <2> QED BY <2>1, <2>2
<1>4. observed \in [Items -> Seq(LeadTimes)] /\ \A k \in Items : Len(observed[k]) <= Newest
  <2>1. << >> \in Seq(LeadTimes) /\ Len(<< >>) <= Newest
    BY <1>1, EmptySeq
  <2> QED BY <2>1 DEF Init
<1>5. po \in [Orders -> OrderRows]
  BY EmptyRows DEF Init
<1>6. shipment \in [Shipments -> ShipmentRows]
  BY EmptyRows DEF Init
<1>7. page \in [Items -> PageRows] /\ alert \in [Items -> {"NONE", "UNREAD", "READ"}]
  BY EmptyRows DEF Init
<1>8. calc \in [Runs -> CalcRows]
  BY EmptyRows DEF Init
<1> QED BY <1>2, <1>3, <1>4, <1>5, <1>6, <1>7, <1>8 DEF TypeOK, OrderRows, ShipmentRows, PageRows

\* The rows of an unchanged part stay in order: what is left to show for a step.
OrdersFine == po \in [Orders -> OrderRows] /\ shipment \in [Shipments -> ShipmentRows]

\* The part of TypeOK about shelves and observed lead times, and the one about advice.
StockFine ==
  /\ free \in [Items -> -MaxOversold..MaxFree]
  /\ observed \in [Items -> Seq(LeadTimes)]
  /\ \A k \in Items : Len(observed[k]) <= Newest

\* The part of TypeOK about policies, recommendations, alerts and recalculations.
AdviceFine ==
  /\ policy \in PolicyRows
  /\ page \in [Items -> PageRows]
  /\ alert \in [Items -> {"NONE", "UNREAD", "READ"}]
  /\ calc \in [Runs -> CalcRows]
  /\ aborts \in 0..MaxAborts
  /\ doubled \subseteq Items

\* TypeOK is these three parts.
LEMMA TypeParts == TypeOK <=> OrdersFine /\ StockFine /\ AdviceFine
BY DEF TypeOK, OrdersFine, StockFine, AdviceFine, OrderRows, ShipmentRows, PageRows

\* The steps of a recalculation.
LEMMA RunTypes ==
  ASSUME TypeOK, NEW w \in Runs, RunStep(w) \/ Abort(w)
  PROVE  TypeOK'
<1>1. policy \in PolicyRows /\ page \in [Items -> PageRows]
      /\ alert \in [Items -> {"NONE", "UNREAD", "READ"}]
      /\ calc \in [Runs -> CalcRows] /\ calc[w] \in CalcRows
      /\ aborts \in 0..MaxAborts /\ doubled \subseteq Items
      /\ free \in [Items -> -MaxOversold..MaxFree] /\ po \in [Orders -> OrderRows]
  BY TypeParts DEF AdviceFine, OrdersFine, StockFine
<1>2. SUFFICES AdviceFine'
  <2>1. UNCHANGED << po, shipment, observed, free >>
    BY DEF RunStep, Start, ReadStock, Advise, Notify, Abort, orderVars
  <2>2. OrdersFine' /\ StockFine'
    BY <2>1, TypeParts DEF OrdersFine, StockFine
  <2> QED BY <2>2 DEF TypeOK, OrdersFine, StockFine, AdviceFine, OrderRows, ShipmentRows, PageRows
<1>3. CASE Start(w)
  <2> DEFINE row == [step |-> "NEXT", todo |-> { k \in Items : policy[k].enabled }, policy |-> policy]
  <2>1. row \in [step : {"NEXT"}, todo : SUBSET Items, policy : PolicyRows]
    BY <1>1
  <2>2. row \in CalcRows
    BY <2>1 DEF CalcRows
  <2>3. calc' = [calc EXCEPT ![w] = row] /\ UNCHANGED << policy, page, alert, doubled, aborts >>
    BY <1>3 DEF Start, adviceVars
  <2> HIDE DEF row
  <2> QED BY <1>1, <2>2, <2>3 DEF AdviceFine
<1>4. ASSUME NEW k \in Items, ReadStock(w, k) PROVE AdviceFine'
  <2> DEFINE old == calc[w]
  <2>0. UNCHANGED << policy, page, alert, doubled, aborts >>
    BY <1>4 DEF ReadStock, adviceVars
  <2>1. PICK demand \in DemandsOf(old.policy[k]) :
          calc' = [calc EXCEPT ![w] =
            [step |-> "STOCK_READ", todo |-> @.todo \ {k}, policy |-> @.policy,
             item |-> k, free |-> free[k], demand |-> demand,
             known |-> Larger(0, free[k]) + OnConfirmed(k, po)]]
    BY <1>4 DEF ReadStock
  <2>2. old.todo \in SUBSET Items /\ old.policy \in PolicyRows
    <3>1. old \in CalcRows /\ old.step = "NEXT"
      BY <1>1, <1>4 DEF ReadStock
    <3> HIDE DEF old
    <3> QED BY <3>1 DEF CalcRows, Idle
  <2> DEFINE known == Larger(0, free[k]) + OnConfirmed(k, po)
             row == [step |-> "STOCK_READ", todo |-> old.todo \ {k}, policy |-> old.policy,
                     item |-> k, free |-> free[k], demand |-> demand, known |-> known]
  <2>3. known \in Int /\ free[k] \in Int
    <3> DEFINE a == free[k]
               b == OnConfirmed(k, po)
    <3>1. a \in Int /\ b \in Nat
      <4>1. MaxOversold \in Nat /\ MaxFree \in Nat
        BY BoundsAssumption
      <4>2. a \in -MaxOversold..MaxFree
        BY <1>1
      <4>3. b \in Nat
        BY <1>1, ConfirmedSum
      <4> HIDE DEF a, b
      <4> QED BY <4>1, <4>2, <4>3
    <3> HIDE DEF a, b
    <3>2. Larger(0, a) + b \in Int
      BY <3>1 DEF Larger
    <3> QED BY <3>1, <3>2 DEF a, b
  <2>4. demand \in Nat
    <3>1. old.policy[k] \in UNION { Policies[j] : j \in Items }
      BY <2>2 DEF PolicyRows
    <3>2. old.policy[k].demand \subseteq Nat /\ Forecasts \subseteq Nat
      BY <3>1, PoliciesAssumption
    <3> QED BY <3>2 DEF DemandsOf
  <2>5. row \in [step : {"STOCK_READ"}, todo : SUBSET Items, policy : PolicyRows, item : Items,
                 free : Int, demand : Nat, known : Int]
    <3> HIDE DEF known, old
    <3> QED BY <2>2, <2>3, <2>4
  <2>6. row.demand \in DemandsOf(row.policy[row.item])
    OBVIOUS
  <2>7. calc' = [calc EXCEPT ![w] = row]
    BY <2>1
  <2>8. row \in CalcRows
    <3> HIDE DEF row
    <3> QED BY <2>5, <2>6 DEF CalcRows
  <2> HIDE DEF row
  <2> QED BY <1>1, <2>0, <2>7, <2>8 DEF AdviceFine
<1>5. CASE Advise(w)
  <2> DEFINE k == calc[w].item
             old == calc[w]
  <2>1. StockRead(w)
    BY <1>5 DEF Advise, StockRead
  <2>2. k \in Items /\ old.todo \in SUBSET Items /\ old.policy \in PolicyRows
    BY <2>1, ReadingIsThere
  <2>3. UNCHANGED << policy, alert, doubled, aborts >>
    BY <1>5 DEF Advise
  <2>4. PICK inOrder \in ShipmentOrders, looked \in BOOLEAN :
          LET in == InputOf(w, inOrder)
              whole == \A p \in Orders : po[p].status = "DRAFT" => po[p].left[k] = 0
          IN
          /\ page' = IF looked
                     THEN [page EXCEPT ![k] = [qty |-> OrderQty(in), lead |-> in.lead,
                                               whole |-> whole]]
                     ELSE page
          /\ calc' = [calc EXCEPT ![w] =
               [step |-> "ADVISED", todo |-> @.todo, policy |-> @.policy, item |-> k,
                urgent |-> Status(in) \in Urgent]]
    BY <1>5 DEF Advise
  <2> DEFINE in == InputOf(w, inOrder)
             whole == \A p \in Orders : po[p].status = "DRAFT" => po[p].left[k] = 0
             urgent == Status(in) \in Urgent
             seen == [qty |-> OrderQty(in), lead |-> in.lead, whole |-> whole]
             row == [step |-> "ADVISED", todo |-> old.todo, policy |-> old.policy, item |-> k,
                     urgent |-> urgent]
  <2>5. in \in PlanInputs
    BY <2>1, InputIsThere
  <2>6. OrderQty(in) \in Nat /\ in.lead \in 0..MaxDue
    <3> HIDE DEF in
    <3> QED BY <2>5, OrderIsBounded DEF PlanInputs
  <2>7. seen \in PageRows
    <3>1. whole \in BOOLEAN
      OBVIOUS
    <3> HIDE DEF in, whole
    <3> QED BY <2>6, <3>1 DEF PageRows
  <2>8. row \in CalcRows
    <3>1. urgent \in BOOLEAN
      OBVIOUS
    <3> HIDE DEF urgent, old, k
    <3>2. row \in [step : {"ADVISED"}, todo : SUBSET Items, policy : PolicyRows, item : Items,
                   urgent : BOOLEAN]
      BY <2>2, <3>1
    <3> QED BY <3>2 DEF CalcRows
  <2>9. page' = (IF looked THEN [page EXCEPT ![k] = seen] ELSE page)
        /\ calc' = [calc EXCEPT ![w] = row]
    BY <2>4
  <2> HIDE DEF seen, row, k
  <2>10. page' \in [Items -> PageRows]
    BY <1>1, <2>2, <2>7, <2>9
  <2>11. calc' \in [Runs -> CalcRows]
    BY <1>1, <2>8, <2>9
  <2> QED BY <1>1, <2>3, <2>10, <2>11 DEF AdviceFine
<1>6. CASE Notify(w)
  <2> DEFINE old == calc[w]
             row == IF old.todo = {} THEN Idle
                    ELSE [step |-> "NEXT", todo |-> old.todo, policy |-> old.policy]
  <2>1. old.todo \in SUBSET Items /\ old.policy \in PolicyRows /\ old.item \in Items
    <3>1. old \in CalcRows /\ old.step = "ADVISED"
      BY <1>1, <1>6 DEF Notify
    <3> HIDE DEF old
    <3> QED BY <3>1 DEF CalcRows, Idle
  <2>2. row \in CalcRows
    <3> HIDE DEF old
    <3> QED BY <2>1 DEF CalcRows
  <2>3. calc' = [calc EXCEPT ![w] = row]
    BY <1>6 DEF Notify
  <2>4. alert' \in [Items -> {"NONE", "UNREAD", "READ"}]
    <3> DEFINE k == calc[w].item
               new == AlertAfter(alert[k], calc[w].urgent)
    <3>1. new \in {"NONE", "UNREAD", "READ"}
      BY <1>1, <2>1 DEF AlertAfter
    <3>2. alert' = [alert EXCEPT ![k] = new]
      BY <1>6 DEF Notify
    <3> HIDE DEF new, k
    <3> QED BY <1>1, <3>1, <3>2
  <2>5. UNCHANGED << policy, page, doubled, aborts >>
    BY <1>6 DEF Notify
  <2> HIDE DEF row
  <2> QED BY <1>1, <2>2, <2>3, <2>4, <2>5 DEF AdviceFine
<1>7. CASE Abort(w)
  <2>1. /\ calc' = [calc EXCEPT ![w] = Idle]
        /\ aborts' \in 0..MaxAborts
        /\ UNCHANGED << policy, page, alert, doubled >>
    <3>1. MaxAborts \in Nat
      BY BoundsAssumption
    <3> QED BY <1>1, <1>7, <3>1 DEF Abort, adviceVars
  <2> QED BY <1>1, <2>1, EmptyRows DEF AdviceFine
<1> QED BY <1>3, <1>4, <1>5, <1>6, <1>7 DEF RunStep

\* The requests, receipts and days.
LEMMA ShopTypes ==
  ASSUME TypeOK,
         \/ \E k \in Items : \E rule \in Policies[k] : PutPolicy(k, rule)
         \/ \E k \in Items : Sell(k)
  PROVE  TypeOK'
<1>1. OrdersFine /\ StockFine /\ AdviceFine
  BY TypeParts
<1> SUFFICES OrdersFine' /\ StockFine' /\ AdviceFine'
  BY DEF TypeOK, OrdersFine, StockFine, AdviceFine, OrderRows, ShipmentRows, PageRows
<1>2. ASSUME NEW k \in Items, NEW rule \in Policies[k], PutPolicy(k, rule)
      PROVE  OrdersFine' /\ StockFine' /\ AdviceFine'
  <2>1. policy' = [policy EXCEPT ![k] = rule]
        /\ UNCHANGED << free, po, shipment, observed, page, alert, doubled, calc, aborts >>
    BY <1>2 DEF PutPolicy, orderVars, adviceVars
  <2>2. policy' \in PolicyRows
    <3>1. /\ policy \in [Items -> UNION { Policies[j] : j \in Items }]
          /\ \A j \in Items : policy[j] \in Policies[j]
          /\ rule \in UNION { Policies[j] : j \in Items }
      BY <1>1 DEF AdviceFine, PolicyRows
    <3>2. /\ policy' \in [Items -> UNION { Policies[j] : j \in Items }]
          /\ \A j \in Items : policy'[j] \in Policies[j]
      BY <2>1, <3>1
    <3> QED BY <3>2 DEF PolicyRows
  <2> QED BY <1>1, <2>1, <2>2 DEF OrdersFine, StockFine, AdviceFine
<1>3. ASSUME NEW k \in Items, Sell(k)
      PROVE  OrdersFine' /\ StockFine' /\ AdviceFine'
  <2>1. free' = [free EXCEPT ![k] = @ - 1]
        /\ UNCHANGED << policy, po, shipment, observed, page, alert, doubled, calc, aborts >>
    BY <1>3 DEF Sell, orderVars, adviceVars
  <2>2. free[k] - 1 \in -MaxOversold..MaxFree
    <3> DEFINE stock == free[k]
    <3>1. stock \in -MaxOversold..MaxFree /\ stock > -MaxOversold
      BY <1>1, <1>3 DEF StockFine, Sell
    <3>2. MaxOversold \in Nat /\ MaxFree \in Nat
      BY BoundsAssumption
    <3> HIDE DEF stock
    <3>3. stock - 1 \in -MaxOversold..MaxFree
      BY <3>1, <3>2
    <3> QED BY <3>3 DEF stock
  <2>3. StockFine'
    BY <1>1, <2>1, <2>2 DEF StockFine
  <2> QED BY <1>1, <2>1, <2>3 DEF OrdersFine, AdviceFine
<1> QED BY <1>2, <1>3

\* Drafting an order keeps the types.
LEMMA DraftTypes ==
  ASSUME TypeOK, NEW p \in Orders, NEW items \in (SUBSET Items) \ {{}}, CreateDraft(p, items)
  PROVE  TypeOK'
<1>1. OrdersFine /\ StockFine /\ AdviceFine
  BY TypeParts
<1> SUFFICES OrdersFine' /\ StockFine' /\ AdviceFine'
  BY DEF TypeOK, OrdersFine, StockFine, AdviceFine, OrderRows, ShipmentRows, PageRows
<1> DEFINE leads == { page[k].lead : k \in items }
           row == [status |-> "DRAFT",
                   left |-> [k \in Items |-> IF k \in items THEN page[k].qty ELSE 0],
                   due |-> Max(leads)]
<1>2. /\ po' = [po EXCEPT ![p] = row]
      /\ doubled' = doubled \cup { k \in items : ~page[k].whole }
      /\ page' = [k \in Items |-> [page[k] EXCEPT !.whole = @ /\ k \notin items]]
      /\ UNCHANGED << policy, free, observed, shipment, alert, calc, aborts >>
  BY DEF CreateDraft
<1>3. \A k \in Items : page[k].qty \in Nat /\ page[k].lead \in 0..MaxDue
  <2>1. \A k \in Items : page[k] \in PageRows
    BY <1>1 DEF AdviceFine
  <2> QED BY <2>1 DEF PageRows
<1>4. Max(leads) \in 0..MaxDue
  <2>1. leads \in SUBSET (0..MaxDue) /\ leads # {} /\ MaxDue \in Nat
    <3>1. \A k \in items : k \in Items /\ page[k].lead \in leads
      OBVIOUS
    <3>2. \E k : k \in items
      OBVIOUS
    <3>3. MaxDue \in Nat
      BY BoundsAssumption
    <3> QED BY <1>3, <3>1, <3>2, <3>3
  <2> HIDE DEF leads
  <2> QED BY <2>1, MaxIsLargest
<1>5. row \in OrderRows
  <2> HIDE DEF leads
  <2> QED BY <1>3, <1>4 DEF OrderRows
<1>6. page' \in [Items -> PageRows]
  <2> SUFFICES ASSUME NEW k \in Items
               PROVE  [page[k] EXCEPT !.whole = @ /\ k \notin items] \in PageRows
    BY <1>2
  <2> DEFINE old == page[k]
             whole == old.whole /\ k \notin items
  <2>1. old \in PageRows /\ whole \in BOOLEAN
    BY <1>1 DEF AdviceFine
  <2>2. [page[k] EXCEPT !.whole = @ /\ k \notin items] = [old EXCEPT !.whole = whole]
    OBVIOUS
  <2> HIDE DEF old, whole
  <2> QED BY <2>1, <2>2 DEF PageRows
<1>7. OrdersFine'
  <2> HIDE DEF row
  <2> QED BY <1>1, <1>2, <1>5 DEF OrdersFine
<1>8. doubled' \subseteq Items
  BY <1>1, <1>2 DEF AdviceFine
<1>9. StockFine' /\ AdviceFine'
  BY <1>1, <1>2, <1>6, <1>8 DEF StockFine, AdviceFine
<1> QED BY <1>7, <1>9

\* Approving an order keeps the types.
LEMMA ApproveTypes ==
  ASSUME TypeOK, NEW p \in Orders, Approve(p)
  PROVE  TypeOK'
<1>1. OrdersFine /\ StockFine /\ AdviceFine
  BY TypeParts
<1> SUFFICES OrdersFine' /\ StockFine' /\ AdviceFine'
  BY DEF TypeOK, OrdersFine, StockFine, AdviceFine, OrderRows, ShipmentRows, PageRows
<1>2. /\ po' = [po EXCEPT ![p].status = "APPROVED"]
      /\ calc' = KnowMore(po')
      /\ UNCHANGED << policy, free, observed, shipment, page, alert, doubled, aborts >>
  BY DEF Approve, adviceVars
<1>3. po' \in [Orders -> OrderRows]
  BY <1>1, <1>2 DEF OrdersFine, OrderRows
<1>4. calc' \in [Runs -> CalcRows]
  BY <1>2, <1>3, KnowingMore
<1> QED BY <1>1, <1>2, <1>3, <1>4 DEF OrdersFine, StockFine, AdviceFine

\* The orders as a receipt leaves them, before a full one is taken away.
Received(p, qty) ==
  [po EXCEPT ![p] = [@ EXCEPT !.status = "PARTIALLY_RECEIVED",
                              !.left = [k \in Items |-> po[p].left[k] - qty[k]]]]

\* An order's row after a receipt is an order's row.
LEMMA ReceivedRows ==
  ASSUME TypeOK, NEW p \in Orders, NEW qty \in Quantity, \A k \in Items : qty[k] <= po[p].left[k]
  PROVE  /\ Received(p, qty) \in [Orders -> OrderRows]
         /\ \A k \in Items : qty[k] \in Nat /\ po[p].left[k] \in Nat
<1> DEFINE left == [k \in Items |-> po[p].left[k] - qty[k]]
<1>1. po \in [Orders -> OrderRows] /\ po[p] \in OrderRows
  BY TypeParts DEF OrdersFine
<1>2. \A k \in Items : qty[k] \in Nat /\ po[p].left[k] \in Nat
  <2>1. MaxFree \in Nat /\ MaxOversold \in Nat
    BY BoundsAssumption
  <2>2. \A k \in Items : qty[k] \in 0..MaxFree + MaxOversold
    BY DEF Quantity
  <2>3. \A n \in 0..MaxFree + MaxOversold : n \in Nat
    BY <2>1
  <2>4. po[p].left \in [Items -> Nat]
    BY <1>1 DEF OrderRows
  <2> QED BY <2>2, <2>3, <2>4
<1>3. left \in [Items -> Nat]
  <2> SUFFICES ASSUME NEW k \in Items PROVE po[p].left[k] - qty[k] \in Nat
    OBVIOUS
  <2> DEFINE a == po[p].left[k]
             b == qty[k]
  <2>1. a \in Nat /\ b \in Nat /\ b <= a
    BY <1>2
  <2> HIDE DEF a, b
  <2>2. a - b \in Nat
    BY <2>1
  <2> QED BY <2>2 DEF a, b
<1> DEFINE old == po[p]
           row == [old EXCEPT !.status = "PARTIALLY_RECEIVED", !.left = left]
<1>4. row \in OrderRows
  <2> HIDE DEF old, left
  <2> QED BY <1>1, <1>3 DEF OrderRows, old
<1>5. Received(p, qty) = [po EXCEPT ![p] = row]
  BY DEF Received
<1> HIDE DEF row
<1> QED BY <1>1, <1>2, <1>4, <1>5

\* Receiving goods keeps the types.
LEMMA ReceiveTypes ==
  ASSUME TypeOK, NEW p \in Orders, NEW qty \in Quantity, NEW days \in LeadTimes,
         Receive(p, qty, days)
  PROVE  TypeOK'
<1>1. OrdersFine /\ StockFine /\ AdviceFine
  BY TypeParts
<1> SUFFICES OrdersFine' /\ StockFine' /\ AdviceFine'
  BY DEF TypeOK, OrdersFine, StockFine, AdviceFine, OrderRows, ShipmentRows, PageRows
<1> DEFINE done == [k \in Items |-> po[p].left[k] - qty[k]] = Nothing
<1>2. /\ \A k \in Items : qty[k] <= po[p].left[k] /\ free[k] + qty[k] <= MaxFree
      /\ free' = [k \in Items |-> free[k] + qty[k]]
      /\ observed' = [k \in Items |->
           IF qty[k] > 0
           THEN SubSeq(<< days >> \o observed[k], 1, Smaller(Newest, Len(observed[k]) + 1))
           ELSE observed[k]]
      /\ po' = IF done THEN [po EXCEPT ![p] = NoOrder] ELSE Received(p, qty)
      /\ shipment' = [h \in Shipments |->
           IF done /\ shipment[h].po = p THEN NoShipment ELSE shipment[h]]
      /\ calc' = KnowMore(Received(p, qty))
      /\ UNCHANGED << policy, page, alert, doubled, aborts >>
  <2>1. po' = [po EXCEPT ![p] =
                IF done THEN NoOrder
                ELSE [@ EXCEPT !.status = "PARTIALLY_RECEIVED",
                               !.left = [k \in Items |-> po[p].left[k] - qty[k]]]]
    BY DEF Receive
  <2>2. po' = IF done THEN [po EXCEPT ![p] = NoOrder] ELSE Received(p, qty)
    BY <2>1 DEF Received
  <2>3. calc' = KnowMore(Received(p, qty))
    BY DEF Receive, Received
  <2>4. shipment' = [h \in Shipments |->
           IF done /\ shipment[h].po = p THEN NoShipment ELSE shipment[h]]
    BY DEF Receive
  <2> QED BY <2>2, <2>3, <2>4 DEF Receive, adviceVars
<1>3. /\ Received(p, qty) \in [Orders -> OrderRows]
      /\ \A k \in Items : qty[k] \in Nat
  BY <1>2, ReceivedRows
<1>4. po' \in [Orders -> OrderRows]
  <2> HIDE DEF done
  <2> QED BY <1>1, <1>2, <1>3, EmptyRows DEF OrdersFine
<1>5. shipment' \in [Shipments -> ShipmentRows]
  <2> HIDE DEF done
  <2> QED BY <1>1, <1>2, EmptyRows DEF OrdersFine
<1>6. calc' \in [Runs -> CalcRows]
  BY <1>2, <1>3, KnowingMore
<1>7. free' \in [Items -> -MaxOversold..MaxFree]
  <2> SUFFICES ASSUME NEW k \in Items PROVE free[k] + qty[k] \in -MaxOversold..MaxFree
    BY <1>2
  <2> DEFINE a == free[k]
             b == qty[k]
  <2>1. a \in -MaxOversold..MaxFree /\ b \in Nat /\ a + b <= MaxFree
    BY <1>1, <1>2, <1>3 DEF StockFine
  <2>2. MaxFree \in Nat /\ MaxOversold \in Nat
    BY BoundsAssumption
  <2> HIDE DEF a, b
  <2>3. a + b \in -MaxOversold..MaxFree
    BY <2>1, <2>2
  <2> QED BY <2>3 DEF a, b
<1>8. observed' \in [Items -> Seq(LeadTimes)] /\ \A k \in Items : Len(observed'[k]) <= Newest
  <2>1. ASSUME NEW k \in Items
        PROVE  observed'[k] \in Seq(LeadTimes) /\ Len(observed'[k]) <= Newest
    <3> DEFINE old == observed[k]
               all == << days >> \o old
               n == Smaller(Newest, Len(old) + 1)
    <3>1. old \in Seq(LeadTimes) /\ Len(old) <= Newest /\ Newest \in Nat /\ Len(old) \in Nat
      <4>1. old \in Seq(LeadTimes) /\ Len(old) <= Newest
        BY <1>1 DEF StockFine
      <4>2. Newest \in Nat
        BY BoundsAssumption
      <4> HIDE DEF old
      <4> QED BY <4>1, <4>2, LenProperties
    <3>2. observed'[k] = IF qty[k] > 0 THEN SubSeq(all, 1, n) ELSE old
      BY <1>2
    <3>3. all \in Seq(LeadTimes) /\ Len(all) = Len(old) + 1
      <4>1. << days >> \in Seq(LeadTimes) /\ Len(<< days >>) = 1
        OBVIOUS
      <4> HIDE DEF old
      <4>2. all \in Seq(LeadTimes) /\ Len(all) = Len(<< days >>) + Len(old)
        BY <3>1, <4>1, ConcatProperties
      <4> HIDE DEF all
      <4> QED BY <3>1, <4>1, <4>2
    <3>4. n \in Nat /\ n <= Newest /\ n <= Len(old) + 1
      <4> HIDE DEF old
      <4> QED BY <3>1 DEF Smaller
    <3> HIDE DEF all, n, old
    <3>5. \A i \in 1..n : all[i] \in LeadTimes
      <4>1. 1..n \subseteq 1..Len(all)
        BY <3>1, <3>3, <3>4
      <4> QED BY <3>3, <4>1, ElementOfSeq
    <3>6. SubSeq(all, 1, n) \in Seq(LeadTimes) /\ Len(SubSeq(all, 1, n)) <= Newest
      <4>1. /\ SubSeq(all, 1, n) \in Seq(LeadTimes)
            /\ Len(SubSeq(all, 1, n)) = IF 1 <= n THEN n - 1 + 1 ELSE 0
        <5>1. n \in Int /\ 1 \in Int
          BY <3>4
        <5> QED BY <3>5, <5>1, SubSeqProperties
      <4> DEFINE len == Len(SubSeq(all, 1, n))
      <4>2. len = IF 1 <= n THEN n - 1 + 1 ELSE 0
        BY <4>1
      <4> HIDE DEF len
      <4>3. len <= Newest
        BY <3>1, <3>4, <4>2
      <4> QED BY <4>1, <4>3 DEF len
    <3> QED BY <3>1, <3>2, <3>6
  <2>2. DOMAIN observed' = Items /\ observed' = [k \in Items |-> observed'[k]]
    BY <1>2
  <2> QED BY <2>1, <2>2
<1> HIDE DEF done
<1> QED BY <1>1, <1>2, <1>4, <1>5, <1>6, <1>7, <1>8 DEF OrdersFine, StockFine, AdviceFine

\* Shipments and the passing of days keep the types.
LEMMA ShipmentTypes ==
  ASSUME TypeOK,
         \/ \E h \in Shipments, p \in Orders, qty \in Quantity, due \in 0..MaxDue :
              CreateShipment(h, p, qty, due)
         \/ \E h \in Shipments, open \in BOOLEAN, due \in 0..MaxDue : PatchShipment(h, open, due)
         \/ DayPasses
  PROVE  TypeOK'
<1>1. OrdersFine /\ StockFine /\ AdviceFine
  BY TypeParts
<1>2. SUFFICES OrdersFine'
  <2>1. UNCHANGED << policy, free, observed, page, alert, doubled, calc, aborts >>
    BY DEF CreateShipment, PatchShipment, DayPasses, adviceVars
  <2>2. StockFine' /\ AdviceFine'
    BY <1>1, <2>1 DEF StockFine, AdviceFine
  <2> QED BY <2>2 DEF TypeOK, OrdersFine, StockFine, AdviceFine, OrderRows, ShipmentRows, PageRows
<1>3. ASSUME NEW h \in Shipments, NEW p \in Orders, NEW qty \in Quantity, NEW due \in 0..MaxDue,
             CreateShipment(h, p, qty, due)
      PROVE  OrdersFine'
  <2> DEFINE row == [open |-> TRUE, po |-> p, qty |-> qty, due |-> due]
  <2>1. qty \in [Items -> Nat]
    <3>1. \A n \in 0..MaxFree + MaxOversold : n \in Nat
      BY BoundsAssumption
    <3> QED BY <3>1 DEF Quantity
  <2>2. row \in ShipmentRows
    BY <2>1 DEF ShipmentRows
  <2>3. shipment' = [shipment EXCEPT ![h] = row] /\ po' = po
    BY <1>3 DEF CreateShipment
  <2> HIDE DEF row
  <2> QED BY <1>1, <2>2, <2>3 DEF OrdersFine
<1>4. ASSUME NEW h \in Shipments, NEW open \in BOOLEAN, NEW due \in 0..MaxDue,
             PatchShipment(h, open, due)
      PROVE  OrdersFine'
  <2> DEFINE old == shipment[h]
             row == [old EXCEPT !.open = open, !.due = due]
  <2>1. row \in ShipmentRows
    <3>1. old \in ShipmentRows
      BY <1>1 DEF OrdersFine
    <3> HIDE DEF old
    <3> QED BY <3>1 DEF ShipmentRows
  <2>2. shipment' = [shipment EXCEPT ![h] = row] /\ po' = po
    <3>1. shipment' = [shipment EXCEPT ![h].open = open, ![h].due = due] /\ po' = po
      BY <1>4 DEF PatchShipment
    <3>2. [shipment EXCEPT ![h].open = open, ![h].due = due] = [shipment EXCEPT ![h] = row]
      BY <1>1 DEF OrdersFine
    <3> QED BY <3>1, <3>2
  <2> HIDE DEF row
  <2> QED BY <1>1, <2>1, <2>2 DEF OrdersFine
<1>5. CASE DayPasses
  <2>1. \A d \in 0..MaxDue : Sooner(d) \in 0..MaxDue
    <3>1. MaxDue \in Nat
      BY BoundsAssumption
    <3> QED BY <3>1 DEF Sooner, Larger
  <2>2. po' = [p \in Orders |-> [po[p] EXCEPT !.due = Sooner(@)]]
        /\ shipment' = [h \in Shipments |-> [shipment[h] EXCEPT !.due = Sooner(@)]]
    BY <1>5 DEF DayPasses
  <2>3. \A row \in OrderRows : [row EXCEPT !.due = Sooner(@)] \in OrderRows
    BY <2>1 DEF OrderRows
  <2>4. \A row \in ShipmentRows : [row EXCEPT !.due = Sooner(@)] \in ShipmentRows
    BY <2>1 DEF ShipmentRows
  <2> QED BY <1>1, <2>2, <2>3, <2>4 DEF OrdersFine
<1> QED BY <1>3, <1>4, <1>5

\* Every step keeps the types.
LEMMA TypeStep == TypeOK /\ [Next]_vars => TypeOK'
<1> SUFFICES ASSUME TypeOK, [Next]_vars PROVE TypeOK'
  OBVIOUS
<1>1. CASE UNCHANGED vars
  BY <1>1 DEF TypeOK, vars
<1>2. CASE Next
  <2>1. ASSUME NEW w \in Runs, RunStep(w) \/ Abort(w) PROVE TypeOK'
    BY <2>1, RunTypes
  <2>2. ASSUME NEW p \in Orders, NEW items \in (SUBSET Items) \ {{}}, CreateDraft(p, items)
        PROVE  TypeOK'
    BY <2>2, DraftTypes
  <2>3. ASSUME NEW p \in Orders, Approve(p) PROVE TypeOK'
    BY <2>3, ApproveTypes
  <2>4. ASSUME NEW p \in Orders, NEW qty \in Quantity, NEW days \in LeadTimes, Receive(p, qty, days)
        PROVE  TypeOK'
    BY <2>4, ReceiveTypes
  <2>5. ASSUME NEW p \in Orders, NEW h \in Shipments, NEW qty \in Quantity, NEW due \in 0..MaxDue,
               CreateShipment(h, p, qty, due)
        PROVE  TypeOK'
    BY <2>5, ShipmentTypes
  <2> QED BY <1>2, <2>1, <2>2, <2>3, <2>4, <2>5, ShopTypes, ShipmentTypes DEF Next
<1> QED BY <1>1, <1>2

\* The rows of policies, stock, orders, shipments, recommendations, alerts and
\* recalculations are as the schema and the code have them, in every reachable state.
THEOREM ReplenishmentTypes == Spec => []TypeOK
BY TypeInit, TypeStep, PTL DEF Spec

\* The order of every calculation that can come about, with the stock and the orders
\* it reads, fills its target in whole packs.
THEOREM OrdersFillTarget == Spec => []OrderFillsTarget
BY ReplenishmentTypes, OrdersFill, PTL

\* No calculation that can come about misses an alarm or raises one without need.
THEOREM AlarmsCorrect == Spec => []AlarmsInTime
BY ReplenishmentTypes, AlarmsAreRight, PTL

------------------------------------------------------------------------------
(***************************************************************************)
(* What is on order, as orders change.                                     *)
(***************************************************************************)

\* What one order adds to the confirmed quantity of an item.
ConfirmedPart(orders, p, k) ==
  IF orders[p].status \in {"APPROVED", "PARTIALLY_RECEIVED"} THEN orders[p].left[k] ELSE 0

\* Orders of which less is confirmed line by line have less confirmed.
LEMMA ConfirmedGrows ==
  ASSUME NEW some \in [Orders -> OrderRows], NEW more \in [Orders -> OrderRows], NEW k \in Items,
         \A p \in Orders : ConfirmedPart(some, p, k) <= ConfirmedPart(more, p, k)
  PROVE  OnConfirmed(k, some) <= OnConfirmed(k, more)
<1> DEFINE f == [p \in Orders |-> IF p \in ConfirmedOrders(some) THEN some[p].left[k] ELSE 0]
           g == [p \in Orders |-> IF p \in ConfirmedOrders(more) THEN more[p].left[k] ELSE 0]
<1>1. \A p \in Orders : f[p] = ConfirmedPart(some, p, k) /\ g[p] = ConfirmedPart(more, p, k)
  BY DEF ConfirmedPart, ConfirmedOrders
<1>2. \A p \in Orders : ConfirmedPart(some, p, k) \in Int /\ ConfirmedPart(more, p, k) \in Int
  <2> SUFFICES ASSUME NEW p \in Orders
               PROVE  ConfirmedPart(some, p, k) \in Int /\ ConfirmedPart(more, p, k) \in Int
    OBVIOUS
  <2>1. some[p] \in OrderRows /\ more[p] \in OrderRows
    OBVIOUS
  <2>2. some[p].left[k] \in Nat /\ more[p].left[k] \in Nat
    BY <2>1 DEF OrderRows
  <2> QED BY <2>2 DEF ConfirmedPart
<1>3. OnConfirmed(k, some) = SumFunctionOnSet(f, Orders)
  BY ConfirmedSum
<1>4. OnConfirmed(k, more) = SumFunctionOnSet(g, Orders)
  BY ConfirmedSum
<1>5. IsFiniteSet(Orders)
  BY BoundsAssumption
<1> HIDE DEF f, g
<1>6. SumFunctionOnSet(f, Orders) <= SumFunctionOnSet(g, Orders)
  BY <1>1, <1>2, <1>5, SumMonotone
<1> QED BY <1>3, <1>4, <1>6

\* OnOrder of any orders.
OnOrderIn(orders, k) == SumFunction([p \in Orders |-> orders[p].left[k]])

\* What is on order is the sum of what each order adds.
LEMMA OrderedSum ==
  ASSUME NEW orders \in [Orders -> OrderRows], NEW k \in Items
  PROVE  /\ OnOrderIn(orders, k) \in Nat
         /\ OnOrderIn(orders, k) = SumFunctionOnSet([p \in Orders |-> orders[p].left[k]], Orders)
         /\ \A p \in Orders : orders[p].left[k] \in Nat
<1> DEFINE f == [p \in Orders |-> orders[p].left[k]]
<1>1. IsFiniteSet(Orders)
  BY BoundsAssumption
<1>2. \A p \in Orders : orders[p].left[k] \in Nat
  <2> SUFFICES ASSUME NEW p \in Orders PROVE orders[p].left[k] \in Nat
    OBVIOUS
  <2>1. orders[p] \in OrderRows
    OBVIOUS
  <2> QED BY <2>1 DEF OrderRows
<1>3. OnOrderIn(orders, k) = SumFunctionOnSet(f, Orders)
  BY DEF OnOrderIn, SumFunction
<1>4. \A p \in Orders : f[p] \in Int /\ f[p] >= 0
  BY <1>2
<1> HIDE DEF f
<1>5. SumFunctionOnSet(f, Orders) \in Int /\ SumFunctionOnSet(f, Orders) >= 0
  BY <1>1, <1>4, SumType
<1>6. SumFunctionOnSet(f, Orders) \in Nat
  BY <1>5
<1> QED BY <1>2, <1>3, <1>6 DEF f

\* Less left of every line is less on order.
LEMMA OrderedShrinks ==
  ASSUME NEW less \in [Orders -> OrderRows], NEW orders \in [Orders -> OrderRows], NEW k \in Items,
         \A p \in Orders : less[p].left[k] <= orders[p].left[k]
  PROVE  OnOrderIn(less, k) <= OnOrderIn(orders, k)
<1> DEFINE f == [p \in Orders |-> less[p].left[k]]
           g == [p \in Orders |-> orders[p].left[k]]
<1>1. \A p \in Orders : f[p] \in Int /\ g[p] \in Int /\ f[p] <= g[p]
  <2>1. \A p \in Orders : less[p].left[k] \in Nat /\ orders[p].left[k] \in Nat
    BY OrderedSum
  <2> QED BY <2>1
<1>2. OnOrderIn(less, k) = SumFunctionOnSet(f, Orders) /\ OnOrderIn(orders, k) = SumFunctionOnSet(g, Orders)
  BY OrderedSum
<1>3. IsFiniteSet(Orders)
  BY BoundsAssumption
<1> HIDE DEF f, g
<1> QED BY <1>1, <1>2, <1>3, SumMonotone

\* A new order adds what it asks for to the sum.
LEMMA SumOfNewOrder ==
  ASSUME NEW p \in Orders, NEW f, NEW g,
         \A q \in Orders : f[q] \in Int /\ g[q] \in Int,
         \A q \in Orders : q # p => g[q] = f[q]
  PROVE  SumFunctionOnSet(g, Orders) = SumFunctionOnSet(f, Orders) + (g[p] - f[p])
BY BoundsAssumption, SumChange

\* A new order adds what is ordered.
LEMMA OrderedGrows ==
  ASSUME NEW orders \in [Orders -> OrderRows], NEW new \in [Orders -> OrderRows],
         NEW p \in Orders, NEW k \in Items, orders[p].left[k] = 0,
         \A q \in Orders : q # p => new[q] = orders[q]
  PROVE  OnOrderIn(new, k) = OnOrderIn(orders, k) + new[p].left[k]
<1> DEFINE f == [q \in Orders |-> orders[q].left[k]]
           g == [q \in Orders |-> new[q].left[k]]
           a == OnOrderIn(orders, k)
           n == new[p].left[k]
<1>1. \A q \in Orders : f[q] \in Int /\ g[q] \in Int
  <2>1. \A q \in Orders : orders[q].left[k] \in Nat
    BY OrderedSum
  <2>2. \A q \in Orders : new[q].left[k] \in Nat
    BY OrderedSum
  <2> QED BY <2>1, <2>2
<1>2. \A q \in Orders : q # p => g[q] = f[q]
  OBVIOUS
<1>3. f[p] = 0 /\ g[p] = n
  OBVIOUS
<1>4. a = SumFunctionOnSet(f, Orders) /\ OnOrderIn(new, k) = SumFunctionOnSet(g, Orders)
  BY OrderedSum
<1>5. a \in Nat /\ n \in Nat
  BY OrderedSum
<1> HIDE DEF f, g, a, n
<1>6. SumFunctionOnSet(g, Orders) = SumFunctionOnSet(f, Orders) + (g[p] - f[p])
  BY <1>1, <1>2, SumOfNewOrder
<1>7. OnOrderIn(new, k) = a + (n - 0)
  BY <1>3, <1>4, <1>6
<1>8. OnOrderIn(new, k) = a + n
  BY <1>5, <1>7
<1> QED BY <1>8 DEF a, n

\* Without drafts of an item, all that is on order of it is confirmed.
LEMMA NoDraftLeftOut ==
  ASSUME NEW orders \in [Orders -> OrderRows], NEW k \in Items,
         \A p \in Orders : orders[p].status \in {"NONE", "DRAFT"} => orders[p].left[k] = 0
  PROVE  OnOrderIn(orders, k) = OnConfirmed(k, orders)
<1> DEFINE f == [p \in Orders |-> orders[p].left[k]]
           g == [p \in Orders |-> IF p \in ConfirmedOrders(orders) THEN orders[p].left[k] ELSE 0]
<1>1. \A p \in Orders : f[p] \in Int /\ g[p] = f[p]
  <2> SUFFICES ASSUME NEW p \in Orders PROVE f[p] \in Int /\ g[p] = f[p]
    OBVIOUS
  <2>1. orders[p].left[k] \in Nat
    BY OrderedSum
  <2>2. orders[p].status \in {"NONE", "DRAFT", "APPROVED", "PARTIALLY_RECEIVED"}
    <3>1. orders[p] \in OrderRows
      OBVIOUS
    <3> QED BY <3>1 DEF OrderRows
  <2> QED BY <2>1, <2>2 DEF ConfirmedOrders
<1>2. OnOrderIn(orders, k) = SumFunctionOnSet(f, Orders)
  BY OrderedSum
<1>3. OnConfirmed(k, orders) = SumFunctionOnSet(g, Orders)
  BY ConfirmedSum
<1>4. IsFiniteSet(Orders)
  BY BoundsAssumption
<1> HIDE DEF f, g
<1> QED BY <1>1, <1>2, <1>3, <1>4, SumSame

------------------------------------------------------------------------------
(***************************************************************************)
(* What is incoming is not counted twice.                                  *)
(***************************************************************************)

\* What a recalculation goes by - the stock it read and the orders as they are by
\* now - is no more than what it knows of.  It holds because the stock is read before
\* the orders: what a receipt moves from the orders to the shelf in between is missed,
\* never counted twice.
CountsOnce ==
  \A w \in Runs : calc[w].step = "STOCK_READ" =>
    Larger(0, calc[w].free) + OnConfirmed(calc[w].item, po) <= calc[w].known

\* What is confirmed of an item, when the confirmed parts of orders only shrink.
LEMMA StillCounted ==
  ASSUME TypeOK, TypeOK', CountsOnce, UNCHANGED calc,
         \A p \in Orders, k \in Items : ConfirmedPart(po', p, k) <= ConfirmedPart(po, p, k)
  PROVE  CountsOnce'
<1> SUFFICES ASSUME NEW w \in Runs, calc[w].step = "STOCK_READ"
             PROVE  Larger(0, calc[w].free) + OnConfirmed(calc[w].item, po') <= calc[w].known
  BY DEF CountsOnce
<1> DEFINE k == calc[w].item
           a == Larger(0, calc[w].free)
           old == OnConfirmed(k, po)
           new == OnConfirmed(k, po')
<1>1. k \in Items /\ calc[w].free \in Int /\ calc[w].known \in Int
  BY ReadingIsThere DEF StockRead
<1>2. po \in [Orders -> OrderRows] /\ po' \in [Orders -> OrderRows]
  BY DEF TypeOK, OrderRows
<1>3. old \in Nat /\ new \in Nat /\ new <= old
  <2> HIDE DEF k
  <2> QED BY <1>1, <1>2, ConfirmedSum, ConfirmedGrows
<1>4. a + old <= calc[w].known
  BY DEF CountsOnce
<1>5. a \in Nat
  BY <1>1 DEF Larger
<1> HIDE DEF a, old, new
<1>6. a + new <= calc[w].known
  BY <1>1, <1>3, <1>4, <1>5
<1> QED BY <1>6 DEF a, new, k

\* Learning of what was confirmed keeps up with it.
LEMMA KnownKeepsUp ==
  ASSUME TypeOK, TypeOK', CountsOnce, NEW orders \in [Orders -> OrderRows],
         calc' = KnowMore(orders),
         \A p \in Orders, k \in Items : ConfirmedPart(po', p, k) <= ConfirmedPart(orders, p, k)
  PROVE  CountsOnce'
<1> SUFFICES ASSUME NEW w \in Runs, calc'[w].step = "STOCK_READ"
             PROVE  Larger(0, calc'[w].free) + OnConfirmed(calc'[w].item, po') <= calc'[w].known
  BY DEF CountsOnce
<1> DEFINE k == calc[w].item
           a == Larger(0, calc[w].free)
           old == OnConfirmed(k, po)
           most == OnConfirmed(k, orders)
           new == OnConfirmed(k, po')
           row == calc[w]
           more == Larger(0, most - old)
<1>1. calc'[w] = IF row.step = "STOCK_READ" THEN [row EXCEPT !.known = @ + more] ELSE row
  BY DEF KnowMore
<1>2. row.step = "STOCK_READ"
  <2> HIDE DEF row, more
  <2> QED BY <1>1
<1>3. StockRead(w)
  BY <1>2 DEF StockRead
<1>4. k \in Items /\ row.free \in Int /\ row.known \in Int
  BY <1>3, ReadingIsThere
<1>5. calc'[w].item = k /\ calc'[w].free = row.free /\ calc'[w].known = row.known + more
  <2>1. row \in { r \in [step : {"STOCK_READ"}, todo : SUBSET Items, policy : PolicyRows, item : Items,
                  free : Int, demand : Nat, known : Int] :
           r.demand \in DemandsOf(r.policy[r.item]) }
    <3>1. row \in CalcRows
      BY DEF TypeOK
    <3> HIDE DEF row
    <3> QED BY <1>2, <3>1 DEF CalcRows, Idle
  <2>2. calc'[w] = [row EXCEPT !.known = @ + more]
    <3> HIDE DEF row, more
    <3> QED BY <1>1, <1>2
  <2>3. k = row.item
    OBVIOUS
  <2> DEFINE policies == PolicyRows
             next == calc'[w]
  <2>4. row \in [step : {"STOCK_READ"}, todo : SUBSET Items, policy : policies, item : Items,
                 free : Int, demand : Nat, known : Int]
    BY <2>1
  <2>5. next = [row EXCEPT !.known = @ + more]
    BY <2>2
  <2> HIDE DEF row, more, policies, next, k
  <2>6. next.item = row.item /\ next.free = row.free /\ next.known = row.known + more
    BY <2>4, <2>5
  <2> QED BY <2>3, <2>6 DEF next
<1>6. po \in [Orders -> OrderRows] /\ po' \in [Orders -> OrderRows]
  BY DEF TypeOK, OrderRows
<1>7. old \in Nat /\ most \in Nat /\ new \in Nat /\ new <= most
  <2> HIDE DEF k
  <2> QED BY <1>4, <1>6, ConfirmedSum, ConfirmedGrows
<1>8. a + old <= row.known
  BY <1>2 DEF CountsOnce
<1>9. a \in Nat
  BY <1>4 DEF Larger
<1> DEFINE known == row.known
<1>10. a + new <= known + more
  <2>1. known \in Int /\ a + old <= known
    BY <1>4, <1>8
  <2> HIDE DEF a, old, most, new, known
  <2> QED BY <1>7, <1>9, <2>1 DEF Larger
<1>11. Larger(0, calc'[w].free) = a
  BY <1>5
<1> HIDE DEF a, new, more, k
<1> QED BY <1>5, <1>10, <1>11 DEF new

\* A recalculation's own steps.
LEMMA ReadingCounts ==
  ASSUME TypeOK, TypeOK', CountsOnce, NEW w \in Runs, RunStep(w) \/ Abort(w)
  PROVE  CountsOnce'
<1>1. po' = po
  BY DEF RunStep, Start, ReadStock, Advise, Notify, Abort, orderVars
<1> SUFFICES ASSUME NEW v \in Runs, calc'[v].step = "STOCK_READ"
             PROVE  Larger(0, calc'[v].free) + OnConfirmed(calc'[v].item, po) <= calc'[v].known
  BY <1>1 DEF CountsOnce
<1>2. calc \in [Runs -> CalcRows]
  BY DEF TypeOK
<1>3. CASE v # w
  <2>1. calc'[v] = calc[v]
    BY <1>2, <1>3 DEF RunStep, Start, ReadStock, Advise, Notify, Abort
  <2> QED BY <2>1 DEF CountsOnce
<1>4. CASE v = w
  <2>1. \E k \in Items : ReadStock(w, k)
    <3>1. CASE Start(w)
      <4>1. calc'[w].step = "NEXT"
        BY <1>2, <3>1 DEF Start
      <4> QED BY <1>4, <4>1
    <3>2. CASE Advise(w)
      <4>1. calc'[w].step = "ADVISED"
        BY <1>2, <3>2 DEF Advise
      <4> QED BY <1>4, <4>1
    <3>3. CASE Notify(w)
      <4>1. calc'[w].step \in {"IDLE", "NEXT"}
        BY <1>2, <3>3 DEF Notify, Idle
      <4> QED BY <1>4, <4>1
    <3>4. CASE Abort(w)
      <4>1. calc'[w].step = "IDLE"
        BY <1>2, <3>4 DEF Abort, Idle
      <4> QED BY <1>4, <4>1
    <3> QED BY <3>1, <3>2, <3>3, <3>4 DEF RunStep
  <2>2. PICK k \in Items : ReadStock(w, k)
    BY <2>1
  <2> DEFINE known == Larger(0, free[k]) + OnConfirmed(k, po)
  <2>3. calc'[w].free = free[k] /\ calc'[w].item = k /\ calc'[w].known = known
    <3>1. PICK demand : calc' = [calc EXCEPT ![w] =
            [step |-> "STOCK_READ", todo |-> @.todo \ {k}, policy |-> @.policy,
             item |-> k, free |-> free[k], demand |-> demand, known |-> known]]
      BY <2>2 DEF ReadStock
    <3> HIDE DEF known
    <3> QED BY <1>2, <3>1
  <2>4. known \in Int
    <3>1. free[k] \in Int
      <4>1. free[k] \in -MaxOversold..MaxFree /\ MaxOversold \in Nat /\ MaxFree \in Nat
        BY BoundsAssumption DEF TypeOK
      <4> QED BY <4>1
    <3>2. po \in [Orders -> OrderRows]
      BY DEF TypeOK, OrderRows
    <3> DEFINE b == OnConfirmed(k, po)
               a == Larger(0, free[k])
    <3>3. b \in Nat
      BY <3>2, ConfirmedSum
    <3>4. a \in Nat
      BY <3>1 DEF Larger
    <3> HIDE DEF a, b
    <3>5. a + b \in Int
      BY <3>3, <3>4
    <3> QED BY <3>5 DEF a, b
  <2>5. Larger(0, calc'[w].free) + OnConfirmed(calc'[w].item, po) = known
    BY <2>3
  <2> HIDE DEF known
  <2>6. known <= known
    BY <2>4
  <2> QED BY <1>4, <2>3, <2>5, <2>6
<1> QED BY <1>3, <1>4

\* What every order has confirmed, after each step.
LEMMA ConfirmedInOrder ==
  ASSUME NEW orders \in [Orders -> OrderRows], NEW p \in Orders, NEW k \in Items
  PROVE  /\ ConfirmedPart(orders, p, k) \in Nat
         /\ ConfirmedPart(orders, p, k) <= ConfirmedPart(orders, p, k)
<1>1. orders[p] \in OrderRows
  OBVIOUS
<1>2. orders[p].left[k] \in Nat
  BY <1>1 DEF OrderRows
<1>3. ConfirmedPart(orders, p, k) \in Nat
  BY <1>2 DEF ConfirmedPart
<1> DEFINE a == ConfirmedPart(orders, p, k)
<1>4. a \in Nat
  BY <1>3
<1> HIDE DEF a
<1>5. a <= a
  BY <1>4
<1> QED BY <1>3, <1>5 DEF a

\* Every step keeps CountsOnce.
LEMMA CountingStep ==
  ASSUME TypeOK, TypeOK', CountsOnce, [Next]_vars
  PROVE  CountsOnce'
<1>0. po \in [Orders -> OrderRows] /\ po' \in [Orders -> OrderRows]
  BY DEF TypeOK, OrderRows
<1>1. CASE UNCHANGED << po, calc >>
  <2>1. \A p \in Orders, k \in Items : ConfirmedPart(po', p, k) <= ConfirmedPart(po, p, k)
    BY <1>0, <1>1, ConfirmedInOrder
  <2> QED BY <1>1, <2>1, StillCounted
<1>2. ASSUME NEW w \in Runs, RunStep(w) \/ Abort(w) PROVE CountsOnce'
  BY <1>2, ReadingCounts
<1>3. ASSUME NEW p \in Orders, NEW items \in (SUBSET Items) \ {{}}, CreateDraft(p, items)
      PROVE  CountsOnce'
  <2>1. calc' = calc /\ po[p].status = "NONE" /\ po'[p].status = "DRAFT"
        /\ \A q \in Orders : q # p => po'[q] = po[q]
    BY <1>0, <1>3 DEF CreateDraft
  <2>2. \A q \in Orders, k \in Items : ConfirmedPart(po', q, k) <= ConfirmedPart(po, q, k)
    <3> SUFFICES ASSUME NEW q \in Orders, NEW k \in Items
                 PROVE  ConfirmedPart(po', q, k) <= ConfirmedPart(po, q, k)
      OBVIOUS
    <3>1. CASE q = p
      BY <2>1, <3>1 DEF ConfirmedPart
    <3>2. CASE q # p
      <4>1. ConfirmedPart(po', q, k) = ConfirmedPart(po, q, k)
        BY <2>1, <3>2 DEF ConfirmedPart
      <4> QED BY <1>0, <4>1, ConfirmedInOrder
    <3> QED BY <3>1, <3>2
  <2> QED BY <2>1, <2>2, StillCounted
<1>4. ASSUME NEW p \in Orders, Approve(p) PROVE CountsOnce'
  <2>1. calc' = KnowMore(po')
    BY <1>4 DEF Approve
  <2>2. \A q \in Orders, k \in Items : ConfirmedPart(po', q, k) <= ConfirmedPart(po', q, k)
    BY <1>0, ConfirmedInOrder
  <2> QED BY <1>0, <2>1, <2>2, KnownKeepsUp
<1>5. ASSUME NEW p \in Orders, NEW qty \in Quantity, NEW days \in LeadTimes, Receive(p, qty, days)
      PROVE  CountsOnce'
  <2> DEFINE done == [k \in Items |-> po[p].left[k] - qty[k]] = Nothing
             orders == Received(p, qty)
  <2>1. /\ \A k \in Items : qty[k] <= po[p].left[k]
        /\ po' = IF done THEN [po EXCEPT ![p] = NoOrder] ELSE orders
        /\ calc' = KnowMore(orders)
    <3>1. po' = [po EXCEPT ![p] =
                  IF done THEN NoOrder
                  ELSE [@ EXCEPT !.status = "PARTIALLY_RECEIVED",
                                 !.left = [k \in Items |-> po[p].left[k] - qty[k]]]]
      BY <1>5 DEF Receive
    <3>2. po' = IF done THEN [po EXCEPT ![p] = NoOrder] ELSE orders
      BY <3>1 DEF Received
    <3>3. calc' = KnowMore(orders)
      BY <1>5 DEF Receive, Received
    <3> QED BY <1>5, <3>2, <3>3 DEF Receive
  <2>2. orders \in [Orders -> OrderRows]
    BY <2>1, ReceivedRows
  <2>3. \A q \in Orders : q # p => orders[q] = po[q]
    BY <1>0 DEF Received
  <2>4. \A q \in Orders, k \in Items : ConfirmedPart(po', q, k) <= ConfirmedPart(orders, q, k)
    <3> SUFFICES ASSUME NEW q \in Orders, NEW k \in Items
                 PROVE  ConfirmedPart(po', q, k) <= ConfirmedPart(orders, q, k)
      OBVIOUS
    <3> HIDE DEF orders
    <3>1. ConfirmedPart(orders, q, k) \in Nat
          /\ ConfirmedPart(orders, q, k) <= ConfirmedPart(orders, q, k)
      BY <2>2, ConfirmedInOrder
    <3>2. CASE ~done
      BY <2>1, <3>1, <3>2
    <3>3. CASE done /\ q = p
      <4>1. po'[q] = NoOrder
        <5> HIDE DEF done
        <5> QED BY <1>0, <2>1, <3>3
      <4>2. ConfirmedPart(po', q, k) = 0
        BY <4>1 DEF ConfirmedPart, NoOrder
      <4> QED BY <3>1, <4>2
    <3>4. CASE done /\ q # p
      <4>1. po'[q] = orders[q]
        <5> HIDE DEF done
        <5> QED BY <1>0, <2>1, <2>3, <3>4
      <4>2. ConfirmedPart(po', q, k) = ConfirmedPart(orders, q, k)
        BY <4>1 DEF ConfirmedPart
      <4> QED BY <3>1, <4>2
    <3> QED BY <3>2, <3>3, <3>4
  <2> HIDE DEF orders
  <2> QED BY <2>1, <2>2, <2>4, KnownKeepsUp
<1>6. CASE DayPasses
  <2>1. calc' = calc /\ po' = [p \in Orders |-> [po[p] EXCEPT !.due = Sooner(@)]]
    BY <1>6 DEF DayPasses
  <2>2. \A row \in OrderRows : LET next == [row EXCEPT !.due = Sooner(@)]
                               IN  next.status = row.status /\ next.left = row.left
    BY DEF OrderRows
  <2>3. \A p \in Orders : po'[p].status = po[p].status /\ po'[p].left = po[p].left
    BY <1>0, <2>1, <2>2
  <2>4. \A p \in Orders, k \in Items : ConfirmedPart(po', p, k) <= ConfirmedPart(po, p, k)
    <3> SUFFICES ASSUME NEW p \in Orders, NEW k \in Items
                 PROVE  ConfirmedPart(po', p, k) <= ConfirmedPart(po, p, k)
      OBVIOUS
    <3>1. ConfirmedPart(po', p, k) = ConfirmedPart(po, p, k)
      BY <2>3 DEF ConfirmedPart
    <3> QED BY <1>0, <3>1, ConfirmedInOrder
  <2> QED BY <2>1, <2>4, StillCounted
<1>7. CASE \/ \E k \in Items : \E rule \in Policies[k] : PutPolicy(k, rule)
           \/ \E k \in Items : Sell(k)
           \/ \E h \in Shipments, p \in Orders, qty \in Quantity, due \in 0..MaxDue :
                CreateShipment(h, p, qty, due)
           \/ \E h \in Shipments, open \in BOOLEAN, due \in 0..MaxDue : PatchShipment(h, open, due)
           \/ UNCHANGED vars
  <2>1. UNCHANGED << po, calc >>
    BY <1>7 DEF PutPolicy, Sell, CreateShipment, PatchShipment, vars, orderVars
  <2> QED BY <1>1, <2>1
<1> QED BY <1>2, <1>3, <1>4, <1>5, <1>6, <1>7 DEF Next

\* CountsOnce holds at first: nothing is on order.
LEMMA CountingInit == Init => CountsOnce
<1> SUFFICES ASSUME Init, NEW w \in Runs, calc[w].step = "STOCK_READ" PROVE FALSE
  BY DEF CountsOnce
<1>1. calc[w].step = "IDLE"
  BY DEF Init, Idle
<1> QED BY <1>1

\* Whatever arrives, is shipped, ordered or approved between the reads of a
\* recalculation, the position it decides on is covered by what was on the shelf and on
\* confirmed orders at its start and what was confirmed since.
THEOREM PositionCorrect == Spec => []NothingCountedTwice
<1>1. TypeOK /\ CountsOnce => NothingCountedTwice
  <2> SUFFICES ASSUME TypeOK, CountsOnce, NEW w \in Runs, calc[w].step = "STOCK_READ",
                      NEW inOrder \in ShipmentOrders
               PROVE  Position(InputOf(w, inOrder)) <= calc[w].known
    BY DEF NothingCountedTwice
  <2>1. Incoming(InputOf(w, inOrder)) = OnConfirmed(calc[w].item, po)
    BY InputIsThere DEF StockRead
  <2>2. Available(InputOf(w, inOrder)) = Larger(0, calc[w].free)
    BY DEF Available, InputOf
  <2>3. Larger(0, calc[w].free) + OnConfirmed(calc[w].item, po) <= calc[w].known
    BY DEF CountsOnce
  <2> QED BY <2>1, <2>2, <2>3 DEF Position
<1>2. Init => TypeOK /\ CountsOnce
  BY TypeInit, CountingInit
<1>3. TypeOK /\ CountsOnce /\ [Next]_vars => TypeOK' /\ CountsOnce'
  BY TypeStep, CountingStep
<1> QED BY <1>1, <1>2, <1>3, PTL DEF Spec

------------------------------------------------------------------------------
(***************************************************************************)
(* Nothing is ordered beyond the target.                                   *)
(***************************************************************************)

\* A quantity some policy, demand and lead time of the item have room for.
WithinTarget(k, qty) ==
  \E rule \in Policies[k] : \E demand \in DemandsOf(rule), lead \in LeadsOf(k, rule) :
    qty <= MostOnOrder(k, rule, demand, lead)

\* An order that is not placed has nothing outstanding.
NotOrdered == \A p \in Orders : po[p].status = "NONE" => po[p].left = Nothing

\* A recommendation that counted every draft, of which no order was made since, may be
\* ordered as well as what is on order now.
PagesWithinTarget ==
  \A k \in Items : page[k].whole /\ page[k].qty > 0 => WithinTarget(k, OnOrder(k) + page[k].qty)

\* The bound on what is ordered is a number.
LEMMA MostIsNumber ==
  ASSUME NEW k \in Items, NEW rule \in Policies[k], NEW demand \in DemandsOf(rule),
         NEW lead \in LeadsOf(k, rule)
  PROVE  MostOnOrder(k, rule, demand, lead) \in Int
<1> DEFINE review == rule.review
           a == rule.safety
           b == rule.safetyDays
           pack == Terms[k].pack
           minimum == Terms[k].minimum
<1>1. /\ rule.demand \subseteq Nat /\ rule.lead \subseteq 0..MaxDue
      /\ a \in Nat /\ b \in Nat /\ review \in Nat \ {0}
  <2>1. rule \in UNION { Policies[j] : j \in Items }
    OBVIOUS
  <2> QED BY <2>1, PoliciesAssumption
<1>2. Terms[k] \in [pack : Nat \ {0}, minimum : Nat, quoted : Nat]
  BY ItemsAssumption
<1>3. demand \in Nat
  BY <1>1, PoliciesAssumption DEF DemandsOf
<1>4. lead \in Nat
  <2>1. lead \in rule.lead \/ lead \in LeadTimes \/ lead = Terms[k].quoted
    BY DEF LeadsOf
  <2>2. LeadTimes \subseteq 0..MaxDue /\ MaxDue \in Nat
    BY PoliciesAssumption, BoundsAssumption
  <2>3. Terms[k].quoted \in Nat
    BY <1>2
  <2>4. \A d \in 0..MaxDue : d \in Nat
    BY <2>2
  <2>5. lead \in 0..MaxDue \/ lead = Terms[k].quoted
    BY <1>1, <2>1, <2>2
  <2> QED BY <2>3, <2>4, <2>5
<1>5. pack \in Nat /\ minimum \in Nat
  BY <1>2
<1> DEFINE used == demand * (lead + review)
           safe == demand * b
<1>6. used \in Nat /\ safe \in Nat
  <2>1. \A x, y \in Nat : x * y \in Nat
    BY Z3
  <2>2. lead + review \in Nat
    BY <1>1, <1>4
  <2> HIDE DEF b, review
  <2> QED BY <1>1, <1>3, <2>1, <2>2
<1>7. MostOnOrder(k, rule, demand, lead) =
        used + Larger(a, safe) + Larger(0, minimum - 1) + pack - 1
  BY DEF MostOnOrder
<1> HIDE DEF a, pack, minimum, used, safe
<1>8. used + Larger(a, safe) + Larger(0, minimum - 1) + pack - 1 \in Int
  BY <1>1, <1>5, <1>6 DEF Larger
<1> QED BY <1>7, <1>8

\* Less is still within the target.
LEMMA LessIsWithin ==
  ASSUME NEW k \in Items, NEW qty \in Int, NEW less \in Int, less <= qty, WithinTarget(k, qty)
  PROVE  WithinTarget(k, less)
<1>1. PICK rule \in Policies[k] : \E demand \in DemandsOf(rule), lead \in LeadsOf(k, rule) :
        qty <= MostOnOrder(k, rule, demand, lead)
  BY DEF WithinTarget
<1>2. PICK demand \in DemandsOf(rule), lead \in LeadsOf(k, rule) :
        qty <= MostOnOrder(k, rule, demand, lead)
  BY <1>1
<1> DEFINE most == MostOnOrder(k, rule, demand, lead)
<1>3. most \in Int /\ qty <= most
  BY <1>2, MostIsNumber
<1> HIDE DEF most
<1>4. less <= most
  BY <1>3
<1> QED BY <1>4 DEF WithinTarget, most

\* A new recommendation, made when no draft is left out, keeps within the target.
LEMMA AdviceIsWithin ==
  ASSUME TypeOK, NotOrdered, NEW w, StockRead(w), NEW inOrder \in ShipmentOrders,
         \A p \in Orders : po[p].status = "DRAFT" => po[p].left[calc[w].item] = 0,
         OrderQty(InputOf(w, inOrder)) > 0
  PROVE  WithinTarget(calc[w].item, OnOrder(calc[w].item) + OrderQty(InputOf(w, inOrder)))
<1> DEFINE k == calc[w].item
           rule == calc[w].policy[k]
           demand == calc[w].demand
           in == InputOf(w, inOrder)
           lead == in.lead
           used == demand * (lead + rule.review)
           safe == Larger(rule.safety, demand * rule.safetyDays)
           pack == Terms[k].pack
           minimum == Terms[k].minimum
           qty == OrderQty(in)
           here == Available(in)
           coming == Incoming(in)
<1>1. /\ k \in Items /\ rule \in Policies[k] /\ demand \in DemandsOf(rule)
  BY ReadingIsThere
<1>2. /\ in \in PlanInputs /\ coming = OnConfirmed(k, po) /\ lead \in LeadsOf(k, rule)
  BY InputIsThere
<1>3. OnOrder(k) = coming
  <2>1. po \in [Orders -> OrderRows]
    BY DEF TypeOK, OrderRows
  <2>2. \A p \in Orders : po[p].status \in {"NONE", "DRAFT"} => po[p].left[k] = 0
    <3>1. Nothing[k] = 0
      BY <1>1 DEF Nothing
    <3> QED BY <3>1 DEF NotOrdered
  <2>3. OnOrderIn(po, k) = OnConfirmed(k, po)
    <3> HIDE DEF k
    <3> QED BY <1>1, <2>1, <2>2, NoDraftLeftOut
  <2>4. OnOrder(k) = OnOrderIn(po, k)
    BY DEF OnOrder, OnOrderIn
  <2> QED BY <1>2, <2>3, <2>4
<1>4. /\ in.demand = demand /\ in.safety = safe /\ in.review = rule.review
      /\ in.pack = pack /\ in.minimum = minimum
  BY DEF InputOf
<1>5. here \in Nat /\ coming \in Nat /\ in.demand * (in.lead + in.review) \in Nat
  <2> HIDE DEF in
  <2> QED BY <1>2, PlanNumbers
<1>6. qty \in Nat /\ qty <= Larger(TargetStock(in) - Position(in), in.minimum) + in.pack - 1
      /\ TargetStock(in) - Position(in) > 0
  <2> HIDE DEF in
  <2> QED BY <1>2, OrderIsBounded DEF in
<1>7. TargetStock(in) = used + safe /\ Position(in) = here + coming
  BY <1>4 DEF TargetStock, Position
<1>8. used \in Nat
  BY <1>4, <1>5
<1>9. safe \in Nat /\ pack \in Nat \ {0} /\ minimum \in Nat
  <2>1. in.safety \in Nat /\ in.pack \in Nat \ {0} /\ in.minimum \in Nat
    <3> HIDE DEF in
    <3> QED BY <1>2 DEF PlanInputs
  <2> HIDE DEF in, safe, pack, minimum
  <2> QED BY <1>4, <2>1
<1>10. MostOnOrder(k, rule, demand, lead) = used + safe + Larger(0, minimum - 1) + pack - 1
  BY DEF MostOnOrder
<1> DEFINE target == TargetStock(in)
           position == Position(in)
<1>11. /\ target = used + safe /\ position = here + coming
       /\ target - position > 0
       /\ qty <= Larger(target - position, minimum) + pack - 1
  BY <1>4, <1>6, <1>7
<1>12. coming + qty <= used + safe + Larger(0, minimum - 1) + pack - 1
  <2>1. qty \in Nat /\ here \in Nat /\ coming \in Nat
    BY <1>5, <1>6
  <2> HIDE DEF used, safe, pack, minimum, qty, here, coming, target, position
  <2>2. CASE target - position >= minimum
    <3>1. Larger(target - position, minimum) = target - position
      BY <2>2 DEF Larger
    <3>2. Larger(0, minimum - 1) \in Int /\ Larger(0, minimum - 1) >= 0
      BY <1>9 DEF Larger
    <3> QED BY <1>8, <1>9, <1>11, <2>1, <3>1, <3>2
  <2>3. CASE target - position < minimum
    <3>1. Larger(target - position, minimum) = minimum
      BY <1>8, <1>9, <1>11, <2>1, <2>3 DEF Larger
    <3>2. Larger(0, minimum - 1) = minimum - 1
      BY <1>8, <1>9, <1>11, <2>1, <2>3 DEF Larger
    <3> QED BY <1>8, <1>9, <1>11, <2>1, <3>1, <3>2
  <2>4. target - position \in Int
    BY <1>8, <1>9, <1>11, <2>1
  <2> QED BY <1>9, <2>2, <2>3, <2>4
<1>13. OnOrder(k) + qty <= MostOnOrder(k, rule, demand, lead)
  <2> HIDE DEF k, rule, demand, lead, qty, coming, used, safe, pack, minimum
  <2> QED BY <1>3, <1>10, <1>12
<1> HIDE DEF k, rule, demand, lead, qty
<1>14. WithinTarget(k, OnOrder(k) + qty)
  BY <1>1, <1>2, <1>13 DEF WithinTarget
<1> QED BY <1>14 DEF k, qty, in

\* Every step keeps NotOrdered.
LEMMA NotOrderedStep ==
  ASSUME TypeOK, NotOrdered, [Next]_vars
  PROVE  NotOrdered'
<1>0. po \in [Orders -> OrderRows]
  BY DEF TypeOK, OrderRows
<1> SUFFICES ASSUME NEW q \in Orders, po'[q].status = "NONE" PROVE po'[q].left = Nothing
  BY DEF NotOrdered, Nothing
<1>1. CASE po'[q] = po[q]
  BY <1>1 DEF NotOrdered
<1>2. CASE UNCHANGED po
  BY <1>1, <1>2
<1>3. ASSUME NEW p \in Orders, NEW items \in (SUBSET Items) \ {{}}, CreateDraft(p, items)
      PROVE  po'[q].left = Nothing
  <2>1. po'[p].status = "DRAFT" /\ \A r \in Orders : r # p => po'[r] = po[r]
    BY <1>0, <1>3 DEF CreateDraft
  <2> QED BY <1>1, <2>1
<1>4. ASSUME NEW p \in Orders, Approve(p) PROVE po'[q].left = Nothing
  <2>1. po'[p].status = "APPROVED" /\ \A r \in Orders : r # p => po'[r] = po[r]
    <3>1. po' = [po EXCEPT ![p].status = "APPROVED"]
      BY <1>4 DEF Approve
    <3> QED BY <1>0, <3>1 DEF OrderRows
  <2> QED BY <1>1, <2>1
<1>5. ASSUME NEW p \in Orders, NEW qty \in Quantity, NEW days \in LeadTimes, Receive(p, qty, days)
      PROVE  po'[q].left = Nothing
  <2> DEFINE left == [k \in Items |-> po[p].left[k] - qty[k]]
             old == po[p]
             row == [old EXCEPT !.status = "PARTIALLY_RECEIVED", !.left = left]
             new == IF left = Nothing THEN NoOrder ELSE row
  <2>1. po' = [po EXCEPT ![p] = new]
    BY <1>5 DEF Receive
  <2>2. row.status = "PARTIALLY_RECEIVED"
    <3>1. old \in OrderRows
      BY <1>0
    <3> HIDE DEF old, left
    <3> QED BY <3>1 DEF OrderRows
  <2>3. new.status = "NONE" => new.left = Nothing
    <3> HIDE DEF row, left
    <3> QED BY <2>2 DEF NoOrder
  <2> HIDE DEF new
  <2> QED BY <1>0, <1>1, <2>1, <2>3
<1>6. CASE DayPasses
  <2>1. po' = [p \in Orders |-> [po[p] EXCEPT !.due = Sooner(@)]]
    BY <1>6 DEF DayPasses
  <2>2. \A row \in OrderRows : LET next == [row EXCEPT !.due = Sooner(@)]
                               IN  next.status = row.status /\ next.left = row.left
    BY DEF OrderRows
  <2>3. po'[q].status = po[q].status /\ po'[q].left = po[q].left
    BY <1>0, <2>1, <2>2
  <2> QED BY <2>3 DEF NotOrdered
<1>7. CASE \/ \E w \in Runs : RunStep(w) \/ Abort(w)
           \/ \E k \in Items : \E rule \in Policies[k] : PutPolicy(k, rule)
           \/ \E k \in Items : Sell(k)
           \/ \E h \in Shipments, p \in Orders, qty \in Quantity, due \in 0..MaxDue :
                CreateShipment(h, p, qty, due)
           \/ \E h \in Shipments, open \in BOOLEAN, due \in 0..MaxDue : PatchShipment(h, open, due)
           \/ UNCHANGED vars
  <2>1. UNCHANGED po
    BY <1>7 DEF RunStep, Start, ReadStock, Advise, Notify, Abort, PutPolicy, Sell, CreateShipment,
                PatchShipment, vars, orderVars
  <2> QED BY <1>2, <2>1
<1> QED BY <1>3, <1>4, <1>5, <1>6, <1>7 DEF Next

\* Where less is left of every line and no recommendation is made, all keeps within.
TargetsKept == PagesWithinTarget /\ OrdersWithinTarget

\* Receipts and shipments order nothing: what is on order only falls.
LEMMA OrdersShrink ==
  ASSUME TypeOK, TypeOK', TargetsKept, UNCHANGED << page, doubled >>,
         \A p \in Orders, k \in Items : po'[p].left[k] <= po[p].left[k]
  PROVE  TargetsKept'
<1>1. po \in [Orders -> OrderRows] /\ po' \in [Orders -> OrderRows] /\ page \in [Items -> PageRows]
  BY DEF TypeOK, OrderRows, PageRows
<1>2. \A k \in Items : OnOrder(k) = OnOrderIn(po, k) /\ OnOrder(k)' = OnOrderIn(po', k)
  BY DEF OnOrder, OnOrderIn
<1>3. ASSUME NEW k \in Items
      PROVE  /\ OnOrderIn(po, k) \in Nat /\ OnOrderIn(po', k) \in Nat
             /\ OnOrderIn(po', k) <= OnOrderIn(po, k)
  BY <1>1, OrderedSum, OrderedShrinks
<1>4. ASSUME NEW k \in Items, page[k].whole, page[k].qty > 0
      PROVE  WithinTarget(k, OnOrderIn(po', k) + page[k].qty)
  <2> DEFINE old == OnOrderIn(po, k)
             new == OnOrderIn(po', k)
             qty == page[k].qty
  <2>1. WithinTarget(k, old + qty)
    BY <1>2, <1>4 DEF TargetsKept, PagesWithinTarget
  <2>2. page[k] \in PageRows
    BY <1>1
  <2>3. qty \in Nat
    BY <2>2 DEF PageRows
  <2> HIDE DEF old, new, qty
  <2>4. old + qty \in Int /\ new + qty \in Int /\ new + qty <= old + qty
    BY <1>3, <2>3 DEF old, new
  <2>5. WithinTarget(k, new + qty)
    BY <2>1, <2>4, LessIsWithin
  <2> QED BY <2>5 DEF new, qty
<1>5. ASSUME NEW k \in Items \ doubled, OnOrderIn(po', k) > 0
      PROVE  WithinTarget(k, OnOrderIn(po', k))
  <2> DEFINE old == OnOrderIn(po, k)
             new == OnOrderIn(po', k)
  <2>1. old \in Nat /\ new \in Nat /\ new <= old /\ new > 0
    BY <1>3, <1>5
  <2>2. old > 0 => WithinTarget(k, old)
    BY <1>2 DEF TargetsKept, OrdersWithinTarget, WithinTarget
  <2> HIDE DEF old, new
  <2>3. old > 0
    BY <2>1
  <2>4. WithinTarget(k, new)
    BY <2>1, <2>2, <2>3, LessIsWithin
  <2> QED BY <2>4 DEF new
<1>6. PagesWithinTarget'
  <2> SUFFICES ASSUME NEW k \in Items, page'[k].whole, page'[k].qty > 0
               PROVE  WithinTarget(k, OnOrder(k)' + page'[k].qty)
    BY DEF PagesWithinTarget, WithinTarget
  <2>1. page'[k] = page[k]
    OBVIOUS
  <2> QED BY <1>2, <1>4, <2>1
<1>7. OrdersWithinTarget'
  <2> SUFFICES ASSUME NEW k \in Items \ doubled', OnOrder(k)' > 0
               PROVE  WithinTarget(k, OnOrder(k)')
    BY DEF OrdersWithinTarget, WithinTarget
  <2> QED BY <1>2, <1>5
<1> QED BY <1>6, <1>7 DEF TargetsKept

\* A recommendation is added.
LEMMA AdviceKeepsTargets ==
  ASSUME TypeOK, NotOrdered, TargetsKept, NEW w \in Runs, Advise(w)
  PROVE  TargetsKept'
<1> DEFINE k == calc[w].item
<1>1. StockRead(w)
  BY DEF Advise, StockRead
<1>2. k \in Items
  BY <1>1, ReadingIsThere
<1>3. UNCHANGED << po, doubled >> /\ page \in [Items -> PageRows]
  BY DEF Advise, orderVars, TypeOK, PageRows
<1>4. \A j \in Items : OnOrder(j)' = OnOrder(j)
  BY <1>3 DEF OnOrder
<1>5. PICK inOrder \in ShipmentOrders, looked \in BOOLEAN :
        LET in == InputOf(w, inOrder)
            whole == \A p \in Orders : po[p].status = "DRAFT" => po[p].left[k] = 0
        IN  page' = IF looked
                    THEN [page EXCEPT ![k] = [qty |-> OrderQty(in), lead |-> in.lead,
                                              whole |-> whole]]
                    ELSE page
  BY DEF Advise
<1> DEFINE in == InputOf(w, inOrder)
           whole == \A p \in Orders : po[p].status = "DRAFT" => po[p].left[k] = 0
           qty == OrderQty(in)
           row == [qty |-> qty, lead |-> in.lead, whole |-> whole]
<1>6. page' = IF looked THEN [page EXCEPT ![k] = row] ELSE page
  BY <1>5
<1>7. row.qty = qty /\ (row.whole <=> whole)
  OBVIOUS
<1>8. whole /\ qty > 0 => WithinTarget(k, OnOrder(k) + qty)
  BY <1>1, AdviceIsWithin
<1> HIDE DEF row, qty, whole, in, k
<1>9. PagesWithinTarget'
  <2> SUFFICES ASSUME NEW j \in Items, page'[j].whole, page'[j].qty > 0
               PROVE  WithinTarget(j, OnOrder(j) + page'[j].qty)
    BY <1>4 DEF PagesWithinTarget, WithinTarget
  <2>1. CASE looked /\ j = k
    <3>1. page'[j] = row
      BY <1>2, <1>3, <1>6, <2>1
    <3> QED BY <1>7, <1>8, <2>1, <3>1
  <2>2. CASE ~looked \/ j # k
    <3>1. page'[j] = page[j]
      BY <1>2, <1>3, <1>6, <2>2
    <3> QED BY <3>1 DEF TargetsKept, PagesWithinTarget
  <2> QED BY <2>1, <2>2
<1>10. OrdersWithinTarget'
  <2> SUFFICES ASSUME NEW j \in Items \ doubled, OnOrder(j) > 0 PROVE WithinTarget(j, OnOrder(j))
    BY <1>3, <1>4 DEF OrdersWithinTarget, WithinTarget
  <2> QED BY DEF TargetsKept, OrdersWithinTarget, WithinTarget
<1> QED BY <1>9, <1>10 DEF TargetsKept

\* Recommendations are ordered: each at most once while it counts as whole.
LEMMA DraftKeepsTargets ==
  ASSUME TypeOK, NotOrdered, TargetsKept, NEW p \in Orders, NEW items \in (SUBSET Items) \ {{}},
         CreateDraft(p, items), TypeOK'
  PROVE  TargetsKept'
<1> DEFINE row == po'[p]
<1>1. po \in [Orders -> OrderRows] /\ po' \in [Orders -> OrderRows] /\ page \in [Items -> PageRows]
  BY DEF TypeOK, OrderRows, PageRows
<1>2. /\ po' = [po EXCEPT ![p] = row] /\ row \in OrderRows
      /\ \A k \in Items : row.left[k] = IF k \in items THEN page[k].qty ELSE 0
  <2> DEFINE new == [status |-> "DRAFT",
                     left |-> [k \in Items |-> IF k \in items THEN page[k].qty ELSE 0],
                     due |-> Max({ page[k].lead : k \in items })]
  <2>1. po' = [po EXCEPT ![p] = new]
    BY DEF CreateDraft
  <2>2. \A k \in Items : new.left[k] = IF k \in items THEN page[k].qty ELSE 0
    OBVIOUS
  <2> HIDE DEF new
  <2> QED BY <1>1, <2>1, <2>2
<1>3. \A k \in Items : po[p].left[k] = 0
  BY DEF CreateDraft, NotOrdered, Nothing
<1>4. \A k \in Items : /\ OnOrder(k) = OnOrderIn(po, k)
                       /\ OnOrder(k)' = OnOrderIn(po', k)
  BY DEF OnOrder, OnOrderIn
<1>5. ASSUME NEW k \in Items
      PROVE  /\ OnOrder(k)' = OnOrder(k) + (IF k \in items THEN page[k].qty ELSE 0)
             /\ OnOrder(k) \in Nat
  <2>1. \A q \in Orders : q # p => po'[q] = po[q]
    <3> HIDE DEF row
    <3> QED BY <1>1, <1>2
  <2>2. po[p].left[k] = 0
    BY <1>3
  <2>3. OnOrderIn(po', k) = OnOrderIn(po, k) + po'[p].left[k]
    BY <1>1, <2>1, <2>2, OrderedGrows
  <2>4. OnOrderIn(po, k) \in Nat
    BY <1>1, OrderedSum
  <2>5. po'[p].left[k] = IF k \in items THEN page[k].qty ELSE 0
    BY <1>2
  <2> QED BY <1>4, <2>3, <2>4, <2>5
<1>6. \A k \in Items \ items : OnOrder(k)' = OnOrder(k)
  <2> SUFFICES ASSUME NEW k \in Items \ items PROVE OnOrder(k)' = OnOrder(k)
    OBVIOUS
  <2> DEFINE old == OnOrder(k)
             new == OnOrder(k)'
  <2>1. new = old + 0 /\ old \in Nat
    BY <1>5
  <2> HIDE DEF old, new
  <2>2. new = old
    BY <2>1
  <2> QED BY <2>2 DEF new, old
<1>7. \A k \in items : OnOrder(k)' = OnOrder(k) + page[k].qty
  BY <1>5
<1>8. /\ doubled' = doubled \cup { k \in items : ~page[k].whole }
      /\ \A k \in items : page[k].qty > 0
      /\ \A k \in Items : /\ page'[k].qty = page[k].qty
                          /\ page'[k].whole <=> page[k].whole /\ k \notin items
  <2>1. \A r \in PageRows : \A b \in BOOLEAN :
          LET next == [r EXCEPT !.whole = b] IN next.qty = r.qty /\ next.whole = b
    BY DEF PageRows
  <2>2. \A k \in Items : page'[k] = [page[k] EXCEPT !.whole = page[k].whole /\ k \notin items]
    BY DEF CreateDraft
  <2>3. \A k \in Items : page[k] \in PageRows /\ (page[k].whole /\ k \notin items) \in BOOLEAN
    BY <1>1
  <2>4. ASSUME NEW k \in Items
        PROVE  /\ page'[k].qty = page[k].qty
               /\ page'[k].whole = (page[k].whole /\ k \notin items)
    <3> DEFINE r == page[k]
               b == page[k].whole /\ k \notin items
               next == page'[k]
    <3>1. next = [r EXCEPT !.whole = b] /\ r \in PageRows /\ b \in BOOLEAN
      BY <2>2, <2>3
    <3> HIDE DEF r, b, next
    <3>2. next.qty = r.qty /\ next.whole = b
      BY <2>1, <3>1
    <3> QED BY <3>2 DEF r, b, next
  <2> QED BY <2>4 DEF CreateDraft
<1>9. PagesWithinTarget'
  <2> SUFFICES ASSUME NEW k \in Items, page'[k].whole, page'[k].qty > 0
               PROVE  WithinTarget(k, OnOrder(k)' + page'[k].qty)
    BY DEF PagesWithinTarget, WithinTarget
  <2>1. k \notin items /\ page[k].whole /\ page'[k].qty = page[k].qty
    BY <1>8
  <2>2. WithinTarget(k, OnOrder(k) + page[k].qty)
    BY <1>8, <2>1 DEF TargetsKept, PagesWithinTarget
  <2> QED BY <1>6, <2>1, <2>2
<1>10. OrdersWithinTarget'
  <2> SUFFICES ASSUME NEW k \in Items, k \notin doubled', OnOrder(k)' > 0
               PROVE  WithinTarget(k, OnOrder(k)')
    BY DEF OrdersWithinTarget, WithinTarget
  <2>1. CASE k \in items
    <3>1. page[k].whole /\ page[k].qty > 0
      BY <1>8, <2>1
    <3>2. WithinTarget(k, OnOrder(k) + page[k].qty)
      BY <3>1 DEF TargetsKept, PagesWithinTarget
    <3> QED BY <1>7, <2>1, <3>2
  <2>2. CASE k \notin items
    <3>1. OnOrder(k)' = OnOrder(k) /\ k \notin doubled
      BY <1>6, <1>8, <2>2
    <3>2. OnOrder(k) > 0
      BY <3>1
    <3>3. WithinTarget(k, OnOrder(k))
      BY <3>1, <3>2 DEF TargetsKept, OrdersWithinTarget, WithinTarget
    <3> QED BY <3>1, <3>3
  <2> QED BY <2>1, <2>2
<1> QED BY <1>9, <1>10 DEF TargetsKept

\* Every step keeps TargetsKept.
LEMMA TargetsStep ==
  ASSUME TypeOK, TypeOK', NotOrdered, TargetsKept, [Next]_vars
  PROVE  TargetsKept'
<1>0. po \in [Orders -> OrderRows] /\ \A p \in Orders, k \in Items : po[p].left[k] \in Nat
  <2>1. po \in [Orders -> OrderRows]
    BY DEF TypeOK, OrderRows
  <2> QED BY <2>1, OrderedSum
<1>1. CASE UNCHANGED << po, page, doubled >>
  <2>1. \A p \in Orders, k \in Items : po'[p].left[k] <= po[p].left[k]
    BY <1>0, <1>1
  <2> QED BY <1>1, <2>1, OrdersShrink
<1>2. ASSUME NEW w \in Runs, RunStep(w) \/ Abort(w) PROVE TargetsKept'
  <2>1. CASE Advise(w)
    BY <2>1, AdviceKeepsTargets
  <2>2. CASE Start(w) \/ (\E k \in Items : ReadStock(w, k)) \/ Notify(w) \/ Abort(w)
    <3>1. UNCHANGED << po, page, doubled >>
      BY <2>2 DEF Start, ReadStock, Notify, Abort, orderVars, adviceVars
    <3> QED BY <1>1, <3>1
  <2> QED BY <1>2, <2>1, <2>2 DEF RunStep
<1>3. ASSUME NEW p \in Orders, NEW items \in (SUBSET Items) \ {{}}, CreateDraft(p, items)
      PROVE  TargetsKept'
  BY <1>3, DraftKeepsTargets
<1>4. ASSUME NEW p \in Orders, Approve(p) PROVE TargetsKept'
  <2>1. po' = [po EXCEPT ![p].status = "APPROVED"] /\ UNCHANGED << page, doubled >>
    BY <1>4 DEF Approve, adviceVars
  <2>2. \A q \in Orders : po'[q].left = po[q].left
    BY <1>0, <2>1 DEF OrderRows
  <2>3. \A q \in Orders, k \in Items : po'[q].left[k] <= po[q].left[k]
    BY <1>0, <2>2
  <2> QED BY <2>1, <2>3, OrdersShrink
<1>5. ASSUME NEW p \in Orders, NEW qty \in Quantity, NEW days \in LeadTimes, Receive(p, qty, days)
      PROVE  TargetsKept'
  <2> DEFINE left == [k \in Items |-> po[p].left[k] - qty[k]]
             old == po[p]
             row == [old EXCEPT !.status = "PARTIALLY_RECEIVED", !.left = left]
             new == IF left = Nothing THEN NoOrder ELSE row
  <2>1. /\ po' = [po EXCEPT ![p] = new] /\ UNCHANGED << page, doubled >>
        /\ \A k \in Items : qty[k] <= po[p].left[k]
    BY <1>5 DEF Receive, adviceVars
  <2>2. \A k \in Items : qty[k] \in Nat
    BY <2>1, ReceivedRows
  <2>3. row.left = left
    <3>1. old \in OrderRows
      BY <1>0
    <3> HIDE DEF old, left
    <3> QED BY <3>1 DEF OrderRows
  <2>4. \A k \in Items : new.left[k] <= po[p].left[k]
    <3> SUFFICES ASSUME NEW k \in Items PROVE new.left[k] <= po[p].left[k]
      OBVIOUS
    <3> DEFINE a == po[p].left[k]
               b == qty[k]
    <3>1. a \in Nat /\ b \in Nat
      BY <1>0, <2>2
    <3>2. left[k] = a - b
      OBVIOUS
    <3>3. CASE left = Nothing
      <4>1. new.left[k] = 0
        BY <3>3 DEF NoOrder, Nothing
      <4> HIDE DEF a, new
      <4>2. 0 <= a
        BY <3>1
      <4> QED BY <4>1, <4>2 DEF a
    <3>4. CASE left # Nothing
      <4>1. new.left[k] = a - b
        BY <2>3, <3>2, <3>4
      <4> HIDE DEF a, b, new
      <4>2. a - b <= a
        BY <3>1
      <4> QED BY <4>1, <4>2 DEF a
    <3> QED BY <3>3, <3>4
  <2> HIDE DEF new
  <2>5. \A q \in Orders, k \in Items : po'[q].left[k] <= po[q].left[k]
    <3> SUFFICES ASSUME NEW q \in Orders, NEW k \in Items
                 PROVE  po'[q].left[k] <= po[q].left[k]
      OBVIOUS
    <3>1. CASE q = p
      BY <1>0, <2>1, <2>4, <3>1
    <3>2. CASE q # p
      BY <1>0, <2>1, <3>2
    <3> QED BY <3>1, <3>2
  <2> QED BY <2>1, <2>5, OrdersShrink
<1>6. CASE DayPasses
  <2>1. po' = [p \in Orders |-> [po[p] EXCEPT !.due = Sooner(@)]] /\ UNCHANGED << page, doubled >>
    BY <1>6 DEF DayPasses, adviceVars
  <2>2. \A row \in OrderRows : [row EXCEPT !.due = Sooner(@)].left = row.left
    BY DEF OrderRows
  <2>3. \A p \in Orders : po'[p].left = po[p].left
    BY <1>0, <2>1, <2>2
  <2>4. \A p \in Orders, k \in Items : po'[p].left[k] <= po[p].left[k]
    BY <1>0, <2>3
  <2> QED BY <2>1, <2>4, OrdersShrink
<1>7. CASE \/ \E k \in Items : \E rule \in Policies[k] : PutPolicy(k, rule)
           \/ \E k \in Items : Sell(k)
           \/ \E h \in Shipments, p \in Orders, qty \in Quantity, due \in 0..MaxDue :
                CreateShipment(h, p, qty, due)
           \/ \E h \in Shipments, open \in BOOLEAN, due \in 0..MaxDue : PatchShipment(h, open, due)
           \/ UNCHANGED vars
  <2>1. UNCHANGED << po, page, doubled >>
    BY <1>7 DEF PutPolicy, Sell, CreateShipment, PatchShipment, vars, orderVars, adviceVars
  <2> QED BY <1>1, <2>1
<1> QED BY <1>2, <1>3, <1>4, <1>5, <1>6, <1>7 DEF Next

\* Both hold at first.
LEMMA TargetsInit == Init => NotOrdered /\ TargetsKept
<1> SUFFICES ASSUME Init PROVE NotOrdered /\ TargetsKept
  OBVIOUS
<1>1. NotOrdered
  BY DEF Init, NotOrdered, NoOrder
<1>2. PagesWithinTarget
  <2>1. \A k \in Items : ~page[k].whole
    BY DEF Init, NoRow
  <2> QED BY <2>1 DEF PagesWithinTarget
<1>3. \A k \in Items : OnOrder(k) = 0
  <2> SUFFICES ASSUME NEW k \in Items PROVE OnOrder(k) = 0
    OBVIOUS
  <2> DEFINE f == [p \in Orders |-> po[p].left[k]]
  <2>1. \A p \in Orders : f[p] = 0
    BY DEF Init, NoOrder, Nothing
  <2>2. OnOrder(k) = SumFunctionOnSet(f, Orders)
    BY DEF OnOrder, SumFunction
  <2>3. IsFiniteSet(Orders)
    BY BoundsAssumption
  <2> HIDE DEF f
  <2> QED BY <2>1, <2>2, <2>3, SumZero
<1>4. OrdersWithinTarget
  <2>1. \A k \in Items : ~(OnOrder(k) > 0)
    BY <1>3
  <2> QED BY <2>1 DEF OrdersWithinTarget
<1> QED BY <1>1, <1>2, <1>4 DEF TargetsKept

\* An item that was only ever ordered on recommendations which counted every order is
\* never on order beyond what some policy of it calls for, whatever is received, shipped
\* or delayed in between and however recalculations overlap.
THEOREM OrderedCorrect == Spec => []OrdersWithinTarget
<1>1. Init => TypeOK /\ NotOrdered /\ TargetsKept
  BY TypeInit, TargetsInit
<1>2. TypeOK /\ NotOrdered /\ TargetsKept /\ [Next]_vars
        => TypeOK' /\ NotOrdered' /\ TargetsKept'
  BY TypeStep, NotOrderedStep, TargetsStep
<1>3. TargetsKept => OrdersWithinTarget
  BY DEF TargetsKept
<1> QED BY <1>1, <1>2, <1>3, PTL DEF Spec
==============================================================================
