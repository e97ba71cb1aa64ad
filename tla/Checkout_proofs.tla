-------------------------- MODULE Checkout_proofs --------------------------
(***************************************************************************)
(* Proofs about what a buyer's order goes through before it is there: what *)
(* it costs (Pricing) and that it is placed once, as previewed, out of the *)
(* cart (TradeCreate).  The two have no state in common.                   *)
(***************************************************************************)
EXTENDS Pricing, TradeCreate, TLAPS

-----------------------------------------------------------------------------
(***************************************************************************)
(* Pricing, for every int64, number of items, price, quantity, coupon and  *)
(* commission rate.  A loop over the items is proved through what its      *)
(* running sum is after each of them.                                      *)
(***************************************************************************)

\* What \div returns, as multiplyDivideFloor and the commission use it.
LEMMA Floor ==
  ASSUME NEW x \in Nat, NEW t \in Nat, t > 0
  PROVE  /\ x \div t \in Nat
         /\ t * (x \div t) <= x
         /\ x < t * (x \div t) + t
BY SMT

\* What % returns.
LEMMA Remainder ==
  ASSUME NEW x \in Nat, NEW t \in Nat, t > 0
  PROVE  /\ x % t \in 0..(t - 1)
         /\ x = t * (x \div t) + (x % t)
BY SMT

\* Only the quotient lies that close below.
LEMMA FloorUnique ==
  ASSUME NEW x \in Nat, NEW t \in Nat, t > 0, NEW q \in Nat,
         t * q <= x, x < t * q + t
  PROVE  x \div t = q
BY SMT

\* A smaller factor gives a smaller product, and the other way round.
LEMMA Monotone ==
  ASSUME NEW a \in Int, NEW b \in Int, NEW c \in Nat, a <= b
  PROVE  a * c <= b * c
BY SMT

\* A factor that both sides have can be left out.
LEMMA Cancel ==
  ASSUME NEW a \in Int, NEW b \in Int, NEW c \in Nat, c > 0, a * c <= b * c
  PROVE  a <= b
BY SMT

\* So it can of a strict inequality.
LEMMA CancelStrictly ==
  ASSUME NEW a \in Int, NEW b \in Int, NEW c \in Nat, a * c < b * c
  PROVE  a < b
BY SMT

\* The product of a sum or a difference.
LEMMA Distributes ==
  ASSUME NEW a \in Int, NEW b \in Int, NEW c \in Int
  PROVE  (a - b) * c = a * c - b * c /\ (a + b) * c = a * c + b * c
BY SMT

\* Taking the quotient and the remainder apart loses nothing: the commission is
\* the rounded down share of what is paid (calculateCommissionAmount).
LEMMA CommissionIsShare ==
  ASSUME NEW p \in Nat, NEW r \in Nat, NEW s \in Nat, s > 0
  PROVE  (p \div s) * r + ((p % s) * r) \div s = (p * r) \div s
<1> DEFINE q == p \div s
<1> DEFINE m == p % s
<1> DEFINE f == (m * r) \div s
<1>1. q \in Nat /\ m \in 0..(s - 1) /\ p = s * q + m
  BY Floor, Remainder
<1> HIDE DEF q, m
<1>2. m * r \in Nat
  BY <1>1
<1>3. f \in Nat /\ s * f <= m * r /\ m * r < s * f + s
  BY <1>2, Floor
<1> HIDE DEF f
<1>4. p * r = s * (q * r) + m * r
  BY <1>1
<1>5. q * r \in Nat /\ p * r \in Nat
  BY <1>1
<1>6. s * (q * r + f) <= p * r /\ p * r < s * (q * r + f) + s
  BY <1>1, <1>3, <1>4, <1>5
<1>7. (p * r) \div s = q * r + f
  BY <1>3, <1>5, <1>6, FloorUnique
<1> QED
  BY <1>7 DEF q, m, f

-----------------------------------------------------------------------------
\* How many subtotals are summed up.
Summed ==
  IF phase \in {"price", "priceRefused"} THEN 0
  ELSE IF phase \in {"sum", "sumRefused", "couponRefused"} THEN item ELSE count

\* goodsAmount[k] is the sum of the first k subtotals, which does not change
\* any more after the last positive one.
SumsSane ==
  /\ goodsAmount[0] = 0
  /\ \A k \in 1..Summed : goodsAmount[k] = goodsAmount[k - 1] + subtotal[k]
  /\ \A k \in 0..Summed : goodsAmount[k] <= goodsAmount[Summed]
  /\ lastPositive \in 0..Summed
  /\ lastPositive > 0 => subtotal[lastPositive] > 0
  /\ \A k \in lastPositive..Summed : goodsAmount[k] = goodsAmount[Summed]
  /\ \A k \in (lastPositive + 1)..Summed : subtotal[k] = 0

Unsplit ==
  /\ \A k \in 0..count : remainingDiscount[k] = 0
  /\ \A k \in Items : itemDiscount[k] = 0

Splitting == {"split", "splitRefused", "commission", "quoted", "incomplete"}

\* After k items the discount that is left lies between the share of the items
\* to come and that share with a fraction of a fen for each item before.
Leftover(k) ==
  LET due == discountAmount * (GoodsAmount - goodsAmount[k]) IN
  /\ due <= remainingDiscount[k] * GoodsAmount
  /\ remainingDiscount[k] * GoodsAmount <= due + k * (GoodsAmount - 1)

SplitSane ==
  phase \in Splitting =>
    /\ discountAmount <= GoodsAmount
    /\ remainingDiscount[0] = discountAmount
    /\ \A k \in 1..item : PartOfDiscount(k) /\ FairPart(k)
    /\ \A k \in 0..item : Leftover(k)
    /\ \A k \in 0..item : k >= lastPositive => remainingDiscount[k] = 0

PhaseSane ==
  /\ phase \in {"price", "sum"} => Unsplit
  /\ phase \in {"split", "splitRefused"} => GoodsAmount > 0
  /\ phase = "price" => item = 0
  /\ phase \in {"commission", "quoted"} =>
       item = count \/ (GoodsAmount = 0 /\ Unsplit)

CommissionSane ==
  phase = "quoted" =>
    /\ commissionAmount = (PayableAmount * rate) \div BasisPoints
    /\ commissionAmount <= PayableAmount
    /\ (PayableAmount \div BasisPoints) * rate <= MaxInt64
    /\ (PayableAmount % BasisPoints) * rate <= MaxInt64

\* The inductive invariant.
PricingInv ==
  /\ PricingTypeOK /\ SumsSane /\ SplitSane /\ PhaseSane /\ CommissionSane
  /\ RefusedForFractions

-----------------------------------------------------------------------------
\* The share of one item that costs s of g in all, when d is taken off: less
\* than a fen is rounded off, and no share exceeds its item.
LEMMA Share ==
  ASSUME NEW d \in Nat, NEW s \in Nat, NEW g \in Nat, g > 0, d <= g
  PROVE  LET q == multiplyDivideFloor(d, s, g) IN
         /\ q \in Nat
         /\ q * g - d * s \in (1 - g)..0
         /\ q <= s
<1> DEFINE q == (d * s) \div g
<1>1. d * s \in Nat
  OBVIOUS
<1>2. q \in Nat /\ g * q <= d * s /\ d * s < g * q + g
  BY <1>1, Floor
<1> HIDE DEF q
<1>3. q * g = g * q /\ g * q \in Nat
  BY <1>2
<1>4. q * g - d * s \in (1 - g)..0
  BY <1>1, <1>2, <1>3
<1>5. d * s <= g * s
  BY Monotone
<1>6. q * g <= s * g
  BY <1>1, <1>2, <1>3, <1>5
<1>7. q <= s
  BY <1>2, <1>6, Cancel
<1> QED
  BY <1>2, <1>4, <1>7 DEF q, multiplyDivideFloor

\* Taking off one share keeps what is left between its bounds.
LEMMA LeftoverStep ==
  ASSUME NEW d \in Nat, NEW s \in Nat, NEW g \in Nat, NEW sum \in Nat,
         NEW left \in Nat, NEW k \in Nat, NEW q \in Nat,
         d * (g - sum) <= left * g,
         left * g <= d * (g - sum) + k * (g - 1),
         q * g - d * s \in (1 - g)..0
  PROVE  /\ d * (g - (sum + s)) <= (left - q) * g
         /\ (left - q) * g <= d * (g - (sum + s)) + (k + 1) * (g - 1)
<1>1. d * (g - (sum + s)) = d * (g - sum) - d * s
  BY Distributes
<1>2. (left - q) * g = left * g - q * g
  BY Distributes
<1>3. (k + 1) * (g - 1) = k * (g - 1) + (g - 1)
  BY Distributes
<1> QED
  BY <1>1, <1>2, <1>3

\* There is enough left for every share.
LEMMA LeftCovers ==
  ASSUME NEW d \in Nat, NEW s \in Nat, NEW g \in Nat, NEW sum \in Nat,
         NEW left \in Nat, NEW q \in Nat, g > 0,
         sum + s <= g, d * (g - sum) <= left * g, q * g - d * s \in (1 - g)..0
  PROVE  q <= left
<1>1. s * d <= (g - sum) * d
  BY Monotone
<1>2. q * g <= left * g
  BY <1>1
<1> QED
  BY <1>2, Cancel

\* What is too much for the last item are fractions of the items before it.
LEMMA Fractions ==
  ASSUME NEW d \in Nat, NEW s \in Nat, NEW g \in Nat, NEW left \in Nat,
         NEW k \in Nat, g > 0, d <= g, left > s,
         left * g <= d * s + k * (g - 1)
  PROVE  k >= 2 /\ left - s \in 1..(k - 1)
<1>1. d * s <= g * s
  BY Monotone
<1>2. (left - s) * g = left * g - s * g
  BY Distributes
<1>3. (left - s) * g <= k * (g - 1)
  BY <1>1, <1>2
<1>4. k * (g - 1) = k * g - k
  BY Distributes
<1>5. 0 < (left - s) * g
  BY <1>2, Monotone, CancelStrictly
<1>6. k > 0
  BY <1>3, <1>5
<1>7. (left - s) * g < k * g
  BY <1>3, <1>4, <1>6
<1>8. left - s < k
  BY <1>7, CancelStrictly
<1> QED
  BY <1>6, <1>8

-----------------------------------------------------------------------------
\* Prices, quantities and rates are natural numbers.
LEMMA NaturalInputs ==
  Prices \subseteq Nat /\ Quantities \subseteq Nat /\ MaxInt64 \in Nat
BY AmountAssumption DEF AmountAssumption

\* The invariant of a quote holds before anything is computed.
LEMMA PricingStarts == PricingInit => PricingInv
<1> SUFFICES ASSUME PricingInit PROVE PricingInv
  OBVIOUS
<1> USE AmountAssumption, RateAssumption DEF AmountAssumption, RateAssumption
<1>1. PricingTypeOK
  BY DEF PricingInit, PricingTypeOK, Items, Amounts, Phases
<1>2. Summed = 0
  BY DEF PricingInit, Summed
<1>3. SumsSane
  BY <1>2 DEF PricingInit, SumsSane
<1>4. SplitSane /\ CommissionSane /\ RefusedForFractions
  BY DEF PricingInit, SplitSane, CommissionSane, RefusedForFractions, Splitting
<1>5. PhaseSane
  BY DEF PricingInit, PhaseSane, Unsplit, Items
<1> QED
  BY <1>1, <1>3, <1>4, <1>5 DEF PricingInv

\* What a step that leaves the sums and the split alone does not disturb.
LEMMA SumsUnchanged ==
  ASSUME SumsSane, UNCHANGED <<input, sums>>, Summed' = Summed
  PROVE  SumsSane'
BY DEF SumsSane, sums, input

\* Subtotals are computed or refused as a whole.
LEMMA CalculateSubtotalsStep == PricingInv /\ CalculateSubtotals => PricingInv'
<1> SUFFICES ASSUME PricingInv, CalculateSubtotals PROVE PricingInv'
  OBVIOUS
<1> USE AmountAssumption DEF AmountAssumption
<1>1. PricingTypeOK /\ PhaseSane /\ SumsSane /\ RefusedForFractions
  BY DEF PricingInv
<1>2. phase = "price" /\ item = 0 /\ Unsplit
  BY <1>1 DEF CalculateSubtotals, PhaseSane
<1>3. subtotal' \in [Items -> Amounts] /\ phase' \in {"sum", "priceRefused"}
  <2>1. CASE UNCHANGED subtotal /\ phase' = "priceRefused"
    BY <2>1, <1>1 DEF PricingTypeOK
  <2>2. CASE /\ \A k \in Items : SubtotalFits(k)
             /\ subtotal' = [k \in Items |-> price[k] * quantity[k]]
             /\ phase' = "sum"
    <3>1. ASSUME NEW k \in Items PROVE price[k] * quantity[k] \in Amounts
      <4>1. price[k] \in Nat /\ quantity[k] \in Nat /\ MaxInt64 \in Nat
        <5>1. price[k] \in Prices /\ quantity[k] \in Quantities
          BY <1>1, <3>1 DEF PricingTypeOK
        <5> QED
          BY <5>1, NaturalInputs
      <4>2. CASE price[k] = 0
        BY <4>1, <4>2 DEF Amounts
      <4>3. CASE price[k] > 0
        <5>1. quantity[k] <= MaxInt64 \div price[k]
          BY <2>2, <4>3 DEF SubtotalFits
        <5>2. price[k] * (MaxInt64 \div price[k]) <= MaxInt64
              /\ MaxInt64 \div price[k] \in Nat
          BY <4>1, <4>3, Floor
        <5>3. quantity[k] * price[k] <= (MaxInt64 \div price[k]) * price[k]
          BY <4>1, <5>1, <5>2, Monotone
        <5> QED
          BY <4>1, <5>2, <5>3 DEF Amounts
      <4> QED
        BY <4>1, <4>2, <4>3
    <3> QED
      BY <2>2, <3>1
  <2> QED
    BY <2>1, <2>2 DEF CalculateSubtotals
<1>4. /\ UNCHANGED <<input, item, goodsAmount, lastPositive, split>>
      /\ UNCHANGED commissionAmount
  BY DEF CalculateSubtotals
<1>5. PricingTypeOK'
  BY <1>1, <1>3, <1>4 DEF PricingTypeOK, Items, Amounts, Phases, input, split
<1>6. Summed = 0 /\ Summed' = 0
  BY <1>2, <1>3, <1>4 DEF Summed
<1>7. SumsSane'
  BY <1>1, <1>4, <1>6 DEF SumsSane
<1>8. SplitSane' /\ CommissionSane' /\ RefusedForFractions'
  BY <1>3 DEF SplitSane, CommissionSane, RefusedForFractions, Splitting
<1>9. PhaseSane'
  BY <1>2, <1>3, <1>4 DEF PhaseSane, Unsplit, Items, input, split
<1> QED
  BY <1>5, <1>7, <1>8, <1>9 DEF PricingInv

\* One more subtotal is added, within the range.
LEMMA SumSubtotalStep == PricingInv /\ SumSubtotal => PricingInv'
<1> SUFFICES ASSUME PricingInv, SumSubtotal PROVE PricingInv'
  OBVIOUS
<1> USE AmountAssumption DEF AmountAssumption
<1> DEFINE k == item + 1
<1>1. PricingTypeOK /\ PhaseSane /\ SumsSane
  BY DEF PricingInv
<1>2. /\ phase = "sum" /\ phase' = "sum" /\ item' = k
      /\ item < count /\ SumFits(k)
      /\ goodsAmount' = [goodsAmount EXCEPT ![k] = goodsAmount[item] + subtotal[k]]
      /\ lastPositive' = IF subtotal[k] > 0 THEN k ELSE lastPositive
      /\ UNCHANGED <<input, subtotal, split, commissionAmount>>
  BY DEF SumSubtotal
<1>3. k \in Items /\ k \in Nat /\ item \in 0..count /\ count \in Nat
  BY <1>1, <1>2 DEF PricingTypeOK, Items
<1>4. goodsAmount[item] \in Amounts /\ subtotal[k] \in Amounts
  BY <1>1, <1>3 DEF PricingTypeOK
<1>5. goodsAmount[item] + subtotal[k] \in Amounts
  BY <1>2, <1>3, <1>4 DEF SumFits, Amounts
<1>6. goodsAmount' \in [0..count -> Amounts]
  BY <1>1, <1>2, <1>5 DEF PricingTypeOK
<1>7. PricingTypeOK'
  <2>1. item' \in 0..count /\ lastPositive' \in 0..count
    BY <1>1, <1>2, <1>3 DEF PricingTypeOK
  <2> QED
    BY <1>1, <1>2, <1>6, <2>1 DEF PricingTypeOK, Items, Amounts, Phases, input, split
<1>8. Summed = item /\ Summed' = k
  BY <1>2 DEF Summed
<1>9. \A j \in 0..item : goodsAmount'[j] = goodsAmount[j]
  BY <1>1, <1>2, <1>3 DEF PricingTypeOK
<1>10. goodsAmount'[k] = goodsAmount[item] + subtotal[k]
  BY <1>1, <1>2, <1>3 DEF PricingTypeOK, Items
<1>11. \A j \in 0..item : goodsAmount[j] \in Nat
  BY <1>1, <1>3 DEF PricingTypeOK, Amounts
<1>12. SumsSane'
  <2>1. goodsAmount'[0] = 0
    BY <1>1, <1>3, <1>9 DEF SumsSane
  <2>2. \A j \in 1..k : goodsAmount'[j] = goodsAmount'[j - 1] + subtotal'[j]
    BY <1>1, <1>2, <1>3, <1>8, <1>9, <1>10 DEF SumsSane
  <2>3. \A j \in 0..k : goodsAmount'[j] <= goodsAmount'[k]
    BY <1>1, <1>3, <1>4, <1>8, <1>9, <1>10, <1>11 DEF SumsSane, Amounts
  <2>4. /\ lastPositive' \in 0..k
        /\ lastPositive' > 0 => subtotal'[lastPositive'] > 0
    BY <1>1, <1>2, <1>3, <1>8 DEF SumsSane
  <2>5. CASE subtotal[k] > 0
    <3>1. lastPositive' = k
      BY <1>2, <2>5
    <3>2. /\ \A j \in k..k : goodsAmount'[j] = goodsAmount'[k]
          /\ \A j \in (k + 1)..k : subtotal'[j] = 0
      BY <1>3
    <3> QED
      BY <1>8, <2>1, <2>2, <2>3, <2>4, <3>1, <3>2 DEF SumsSane
  <2>6. CASE subtotal[k] = 0
    <3>1. lastPositive' = lastPositive /\ lastPositive \in 0..item
      BY <1>1, <1>2, <1>8, <2>6 DEF SumsSane
    <3>2. goodsAmount'[k] = goodsAmount[item]
      BY <1>10, <1>11, <1>3, <2>6
    <3>3. \A j \in lastPositive..k : goodsAmount'[j] = goodsAmount'[k]
      BY <1>1, <1>3, <1>8, <1>9, <3>1, <3>2 DEF SumsSane
    <3>4. \A j \in (lastPositive + 1)..k : subtotal'[j] = 0
      BY <1>1, <1>2, <1>3, <1>8, <2>6, <3>1 DEF SumsSane
    <3> QED
      BY <1>8, <2>1, <2>2, <2>3, <2>4, <3>1, <3>3, <3>4 DEF SumsSane
  <2> QED
    BY <1>4, <2>5, <2>6 DEF Amounts
<1>13. SplitSane' /\ CommissionSane' /\ RefusedForFractions'
  BY <1>2 DEF SplitSane, CommissionSane, RefusedForFractions, Splitting
<1>14. PhaseSane'
  BY <1>1, <1>2 DEF PhaseSane, Unsplit, Items, input, split
<1> QED
  BY <1>7, <1>12, <1>13, <1>14 DEF PricingInv

\* A quote that is refused stays what it was.
LEMMA RefusalsStep == PricingInv /\ (RefuseSum \/ RefuseCoupon) => PricingInv'
<1> SUFFICES ASSUME PricingInv, RefuseSum \/ RefuseCoupon PROVE PricingInv'
  OBVIOUS
<1>1. PricingTypeOK /\ SumsSane
  BY DEF PricingInv
<1>2. /\ phase = "sum" /\ phase' \in {"sumRefused", "couponRefused"}
      /\ UNCHANGED <<input, item, sums, split, commissionAmount>>
  BY DEF RefuseSum, RefuseCoupon
<1>3. PricingTypeOK'
  BY <1>1, <1>2 DEF PricingTypeOK, Items, Amounts, Phases, input, sums, split
<1>4. Summed' = Summed
  BY <1>2 DEF Summed
<1>5. SumsSane'
  BY <1>1, <1>2, <1>4, SumsUnchanged
<1>6. SplitSane' /\ CommissionSane' /\ RefusedForFractions' /\ PhaseSane'
  BY <1>2 DEF SplitSane, CommissionSane, RefusedForFractions, PhaseSane, Splitting
<1> QED
  BY <1>3, <1>5, <1>6 DEF PricingInv

\* What is summed up when all items are.
LEMMA AllSummed ==
  ASSUME PricingTypeOK, SumsSane, Summed = count
  PROVE  /\ count \in Nat /\ GoodsAmount \in Amounts
         /\ \A k \in Items :
              /\ goodsAmount[k - 1] \in Nat /\ goodsAmount[k] \in Nat
              /\ subtotal[k] \in Nat
              /\ goodsAmount[k] = goodsAmount[k - 1] + subtotal[k]
              /\ goodsAmount[k] <= GoodsAmount
         /\ goodsAmount[0] = 0
         /\ lastPositive \in 0..count
         /\ \A k \in lastPositive..count : goodsAmount[k] = GoodsAmount
         /\ \A k \in (lastPositive + 1)..count : subtotal[k] = 0
         /\ lastPositive = 0 => GoodsAmount = 0
<1>1. count \in Nat /\ count > 0
  BY NaturalInputs, AmountAssumption DEF PricingTypeOK, AmountAssumption
<1>2. /\ goodsAmount \in [0..count -> Nat] /\ subtotal \in [1..count -> Nat]
      /\ GoodsAmount \in Amounts
  BY <1>1 DEF PricingTypeOK, Amounts, Items, GoodsAmount
<1>3. \A k \in 1..count : goodsAmount[k - 1] \in Nat /\ goodsAmount[k] \in Nat
  BY <1>1, <1>2
<1>4. /\ \A k \in 1..count : goodsAmount[k] = goodsAmount[k - 1] + subtotal[k]
      /\ \A k \in 0..count : goodsAmount[k] <= GoodsAmount
      /\ goodsAmount[0] = 0
  BY DEF SumsSane, GoodsAmount
<1>5. /\ lastPositive \in 0..count
      /\ \A k \in lastPositive..count : goodsAmount[k] = GoodsAmount
      /\ \A k \in (lastPositive + 1)..count : subtotal[k] = 0
  BY DEF SumsSane, GoodsAmount
<1>6. lastPositive = 0 => GoodsAmount = 0
  BY <1>1, <1>4, <1>5
<1>7. \A k \in Items : subtotal[k] \in Nat /\ goodsAmount[k] <= GoodsAmount
  BY <1>1, <1>2, <1>4 DEF Items
<1> QED
  BY <1>1, <1>2, <1>3, <1>4, <1>5, <1>6, <1>7 DEF Items

\* The discount is at most the goods amount, and all of it is left to split.
LEMMA UseCouponStep == PricingInv /\ UseCoupon => PricingInv'
<1> SUFFICES ASSUME PricingInv, UseCoupon PROVE PricingInv'
  OBVIOUS
<1>1. PricingTypeOK /\ SumsSane /\ PhaseSane
  BY DEF PricingInv
<1>2. /\ phase = "sum" /\ item = count
      /\ discountAmount' = IF coupon = NoCoupon THEN 0 ELSE Clip(coupon.discount)
      /\ remainingDiscount' = [remainingDiscount EXCEPT ![0] = discountAmount']
      /\ phase' = IF discountAmount' > GoodsAmount THEN "splitRefused"
                  ELSE IF GoodsAmount = 0 THEN "commission" ELSE "split"
      /\ item' = 0
      /\ UNCHANGED <<input, sums, itemDiscount, commissionAmount>>
  BY DEF UseCoupon, BeginSplit
<1>3. Unsplit
  BY <1>1, <1>2 DEF PhaseSane
<1>4. Summed = count
  BY <1>2 DEF Summed
<1>5. count \in Nat /\ GoodsAmount \in Amounts /\ goodsAmount[0] = 0
      /\ (lastPositive = 0 => GoodsAmount = 0) /\ lastPositive \in 0..count
  BY <1>1, <1>4, AllSummed
<1>6. discountAmount' \in Amounts /\ discountAmount' <= GoodsAmount
  <2>1. CASE coupon = NoCoupon
    BY <1>2, <1>5, <2>1, NaturalInputs DEF Amounts
  <2>2. CASE coupon # NoCoupon
    <3>1. coupon.discount \in Nat
      BY <1>1, <2>2, CouponAssumption, NaturalInputs DEF PricingTypeOK, CouponAssumption
    <3> QED
      BY <1>2, <1>5, <2>2, <3>1, NaturalInputs DEF Amounts, Clip
  <2> QED
    BY <2>1, <2>2
<1>7. phase' = IF GoodsAmount = 0 THEN "commission" ELSE "split"
  BY <1>2, <1>5, <1>6 DEF Amounts
<1>8. remainingDiscount' \in [0..count -> Amounts]
      /\ remainingDiscount'[0] = discountAmount'
      /\ \A k \in Items : remainingDiscount'[k] = 0
  BY <1>1, <1>2, <1>3, <1>5, <1>6 DEF PricingTypeOK, Items, Unsplit
<1>9. PricingTypeOK'
  <2>1. item' \in 0..count' /\ phase' \in Phases
    BY <1>2, <1>5, <1>7 DEF Phases, input
  <2> QED
    BY <1>1, <1>2, <1>6, <1>8, <2>1 DEF PricingTypeOK, Items, input, sums
<1>10. Summed' = count
  BY <1>2, <1>7 DEF Summed, input
<1>11. SumsSane'
  BY <1>1, <1>2, <1>4, <1>10, SumsUnchanged
<1>12. GoodsAmount' = GoodsAmount
  BY <1>2 DEF GoodsAmount, input, sums
<1>13. SplitSane'
  <2>1. \A k \in 0..item' : k = 0
    BY <1>2
  <2>2. Leftover(0)'
    BY <1>2, <1>5, <1>6, <1>8, <1>12 DEF Leftover, Amounts, sums
  <2>3. \A k \in 1..item' : FALSE
    BY <1>2
  <2>4. \A k \in 0..item' : k >= lastPositive' => remainingDiscount'[k] = 0
    <3>1. SUFFICES ASSUME lastPositive = 0 PROVE remainingDiscount'[0] = 0
      BY <1>2, <1>5, <2>1 DEF sums
    <3> QED
      BY <1>5, <1>6, <1>8, <3>1 DEF Amounts
  <2>5. \A k \in 0..item' : Leftover(k)'
    BY <2>1, <2>2
  <2> QED
    BY <1>6, <1>8, <1>12, <2>3, <2>4, <2>5 DEF SplitSane
<1>14. PhaseSane'
  <2>1. CASE GoodsAmount = 0
    <3>1. discountAmount' = 0
      BY <1>6, <2>1 DEF Amounts
    <3>2. Unsplit'
      BY <1>2, <1>3, <1>5, <1>8, <3>1 DEF Unsplit, Items, input
    <3> QED
      BY <1>7, <1>12, <2>1, <3>2 DEF PhaseSane
  <2>2. CASE GoodsAmount # 0
    BY <1>5, <1>7, <1>12, <2>2 DEF PhaseSane, Amounts
  <2> QED
    BY <2>1, <2>2
<1>15. CommissionSane' /\ RefusedForFractions'
  BY <1>7 DEF CommissionSane, RefusedForFractions
<1> QED
  BY <1>9, <1>11, <1>13, <1>14, <1>15 DEF PricingInv

\* What is known when the item after those done is to get its part.
LEMMA NextItem ==
  ASSUME PricingInv, phase = "split", item < count
  PROVE  LET k == item + 1
             g == GoodsAmount
             d == discountAmount
             left == remainingDiscount[item]
             sum == goodsAmount[item]
             s == subtotal[k]
         IN  /\ k \in Items /\ item \in Nat /\ count \in Nat
             /\ g \in Nat /\ g > 0 /\ d \in Nat /\ d <= g
             /\ left \in Nat /\ sum \in Nat /\ s \in Nat
             /\ goodsAmount[k] = sum + s /\ sum + s <= g
             /\ d * (g - sum) <= left * g
             /\ left * g <= d * (g - sum) + item * (g - 1)
             /\ lastPositive \in Items
             /\ k = lastPositive => sum + s = g
             /\ k > lastPositive => s = 0 /\ left = 0
<1> DEFINE k == item + 1
<1>1. PricingTypeOK /\ SumsSane /\ SplitSane /\ PhaseSane
  BY DEF PricingInv
<1>2. Summed = count
  BY DEF Summed
<1>3. count \in Nat /\ GoodsAmount \in Nat /\ GoodsAmount > 0
  BY <1>1, <1>2, AllSummed, NaturalInputs DEF PhaseSane, Amounts
<1>4. item \in Nat /\ k \in Items /\ k - 1 = item
  BY <1>1, <1>3 DEF PricingTypeOK, Items
<1>5. /\ goodsAmount[item] \in Nat /\ subtotal[k] \in Nat
      /\ goodsAmount[k] = goodsAmount[item] + subtotal[k]
      /\ goodsAmount[k] <= GoodsAmount
  <2>1. /\ goodsAmount[k - 1] \in Nat /\ subtotal[k] \in Nat
        /\ goodsAmount[k] = goodsAmount[k - 1] + subtotal[k]
        /\ goodsAmount[k] <= GoodsAmount
    BY <1>1, <1>2, <1>4, AllSummed
  <2> QED
    BY <1>4, <2>1
<1>6. /\ lastPositive \in Items
      /\ \A j \in lastPositive..count : goodsAmount[j] = GoodsAmount
      /\ \A j \in (lastPositive + 1)..count : subtotal[j] = 0
  <2>1. /\ lastPositive \in 0..count
        /\ \A j \in lastPositive..count : goodsAmount[j] = GoodsAmount
        /\ \A j \in (lastPositive + 1)..count : subtotal[j] = 0
        /\ lastPositive = 0 => GoodsAmount = 0
    BY <1>1, <1>2, AllSummed
  <2> QED
    BY <1>3, <2>1 DEF Items
<1>7. /\ discountAmount \in Nat /\ remainingDiscount[item] \in Nat
  BY <1>1, <1>3, <1>4, NaturalInputs DEF PricingTypeOK, Amounts, Items
<1>8. /\ discountAmount <= GoodsAmount
      /\ Leftover(item)
      /\ item >= lastPositive => remainingDiscount[item] = 0
  BY <1>1, <1>4 DEF SplitSane, Splitting
<1>9. k = lastPositive => goodsAmount[item] + subtotal[k] = GoodsAmount
  BY <1>3, <1>4, <1>5, <1>6 DEF Items
<1>10. k > lastPositive => subtotal[k] = 0 /\ remainingDiscount[item] = 0
  BY <1>3, <1>4, <1>6, <1>8 DEF Items
<1> QED
  BY <1>3, <1>4, <1>5, <1>6, <1>7, <1>8, <1>9, <1>10 DEF Leftover

\* Only the last item with a price can be refused, for fractions.
LEMMA RefuseItemStep == PricingInv /\ RefuseItem => PricingInv'
<1> SUFFICES ASSUME PricingInv, RefuseItem PROVE PricingInv'
  OBVIOUS
<1> DEFINE k == item + 1
<1> DEFINE g == GoodsAmount
<1> DEFINE d == discountAmount
<1> DEFINE left == remainingDiscount[item]
<1> DEFINE sum == goodsAmount[item]
<1> DEFINE s == subtotal[k]
<1>1. PricingTypeOK /\ SumsSane /\ SplitSane /\ PhaseSane
  BY DEF PricingInv
<1>2. /\ phase = "split" /\ item < count /\ ~ItemDiscountFits(k)
      /\ phase' = "splitRefused"
      /\ UNCHANGED <<input, item, sums, split, commissionAmount>>
  BY DEF RefuseItem
<1>3. /\ k \in Items /\ item \in Nat /\ count \in Nat
      /\ g \in Nat /\ g > 0 /\ d \in Nat /\ d <= g
      /\ left \in Nat /\ sum \in Nat /\ s \in Nat
      /\ goodsAmount[k] = sum + s /\ sum + s <= g
      /\ d * (g - sum) <= left * g
      /\ left * g <= d * (g - sum) + item * (g - 1)
      /\ lastPositive \in Items
      /\ k = lastPositive => sum + s = g
      /\ k > lastPositive => s = 0 /\ left = 0
  BY <1>2, NextItem
<1>4. k - 1 = item
  BY <1>3
<1>5. k = lastPositive
  <2> SUFFICES ASSUME k # lastPositive PROVE FALSE
    OBVIOUS
  <2> DEFINE q == multiplyDivideFloor(d, s, g)
  <2>1. ItemDiscount(k) = q
    BY DEF ItemDiscount
  <2>2. q \in Nat /\ q * g - d * s \in (1 - g)..0 /\ q <= s
    BY <1>3, Share
  <2> HIDE DEF q
  <2>3. q <= left
    <3> HIDE DEF d, s, g, sum, left
    <3> QED
      BY <1>3, <2>2, LeftCovers
  <2> QED
    BY <1>2, <1>4, <2>1, <2>2, <2>3 DEF ItemDiscountFits
<1>6. left > s
  BY <1>2, <1>3, <1>4, <1>5 DEF ItemDiscountFits, ItemDiscount
<1>7. item >= 2 /\ left - s \in 1..(item - 1)
  <2>1. g - sum = s
    BY <1>3, <1>5
  <2> HIDE DEF d, s, g, sum, left
  <2>2. left * g <= d * s + item * (g - 1)
    BY <1>3, <2>1
  <2> QED
    BY <1>3, <1>6, <2>2, Fractions
<1>8. RefusedForFractions'
  <2>1. lastPositive >= 3 /\ left - subtotal[lastPositive] \in 1..(lastPositive - 2)
    BY <1>3, <1>5, <1>7
  <2> QED
    BY <1>2, <1>5, <2>1 DEF RefusedForFractions, sums, split
<1>9. PricingTypeOK'
  BY <1>1, <1>2 DEF PricingTypeOK, Phases, Items, input, sums, split
<1>10. Summed' = Summed
  BY <1>2 DEF Summed, input
<1>11. SumsSane'
  BY <1>1, <1>2, <1>10, SumsUnchanged
<1>12. SplitSane'
  BY <1>1, <1>2 DEF SplitSane, Splitting, PartOfDiscount, FairPart, TooMuch,
     Leftover, GoodsAmount, input, sums, split
<1>13. PhaseSane' /\ CommissionSane'
  BY <1>2, <1>3 DEF PhaseSane, CommissionSane, GoodsAmount, input, sums
<1> QED
  BY <1>8, <1>9, <1>11, <1>12, <1>13 DEF PricingInv

\* After the last item nothing is left, so a split is never incomplete.
LEMMA EndSplitStep == PricingInv /\ EndSplit => PricingInv'
<1> SUFFICES ASSUME PricingInv, EndSplit PROVE PricingInv'
  OBVIOUS
<1>1. PricingTypeOK /\ SumsSane /\ SplitSane /\ PhaseSane
  BY DEF PricingInv
<1>2. /\ phase = "split" /\ item = count
      /\ phase' = IF remainingDiscount[count] = 0 THEN "commission" ELSE "incomplete"
      /\ UNCHANGED <<input, item, sums, split, commissionAmount>>
  BY DEF EndSplit
<1>3. Summed = count
  BY <1>2 DEF Summed
<1>4. count \in Nat /\ lastPositive \in 0..count
  BY <1>1, <1>3, AllSummed
<1>5. remainingDiscount[count] = 0
  BY <1>1, <1>2, <1>4 DEF SplitSane, Splitting
<1>6. phase' = "commission"
  BY <1>2, <1>5
<1>7. PricingTypeOK'
  BY <1>1, <1>2, <1>6 DEF PricingTypeOK, Phases, Items, input, sums, split
<1>8. Summed' = Summed
  BY <1>2, <1>6 DEF Summed, input
<1>9. SumsSane'
  BY <1>1, <1>2, <1>8, SumsUnchanged
<1>10. SplitSane'
  BY <1>1, <1>2 DEF SplitSane, Splitting, PartOfDiscount, FairPart, TooMuch,
     Leftover, GoodsAmount, input, sums, split
<1>11. PhaseSane' /\ CommissionSane' /\ RefusedForFractions'
  BY <1>2, <1>6 DEF PhaseSane, CommissionSane, RefusedForFractions, input
<1> QED
  BY <1>7, <1>9, <1>10, <1>11 DEF PricingInv

\* One more item takes its part, and enough is left for those to come.
LEMMA AllocateOrderItemStep == PricingInv /\ AllocateOrderItem => PricingInv'
<1> SUFFICES ASSUME PricingInv, AllocateOrderItem PROVE PricingInv'
  OBVIOUS
<1>0. PICK k : k = item + 1
  OBVIOUS
<1> DEFINE g == GoodsAmount
<1> DEFINE d == discountAmount
<1> DEFINE left == remainingDiscount[item]
<1> DEFINE sum == goodsAmount[item]
<1> DEFINE s == subtotal[k]
<1> DEFINE q == ItemDiscount(k)
<1>1. PricingTypeOK /\ SumsSane /\ SplitSane /\ PhaseSane
  BY DEF PricingInv
<1>2. /\ phase = "split" /\ phase' = "split"
      /\ item < count /\ item' = k /\ ItemDiscountFits(k)
      /\ itemDiscount' = [itemDiscount EXCEPT ![k] = q]
      /\ remainingDiscount' = [remainingDiscount EXCEPT ![k] = left - q]
      /\ UNCHANGED <<input, sums, discountAmount, commissionAmount>>
  BY <1>0 DEF AllocateOrderItem
<1>3. /\ k \in Items /\ item \in Nat /\ count \in Nat
      /\ g \in Nat /\ g > 0 /\ d \in Nat /\ d <= g
      /\ left \in Nat /\ sum \in Nat /\ s \in Nat
      /\ goodsAmount[k] = sum + s /\ sum + s <= g
      /\ d * (g - sum) <= left * g
      /\ left * g <= d * (g - sum) + item * (g - 1)
      /\ lastPositive \in Items
      /\ k = lastPositive => sum + s = g
      /\ k > lastPositive => s = 0 /\ left = 0
  BY <1>0, <1>2, NextItem
<1>4. k - 1 = item /\ k \in Nat /\ lastPositive \in Nat
  BY <1>0, <1>3 DEF Items
<1>5. q <= s /\ q <= left
  BY <1>2, <1>4 DEF ItemDiscountFits
<1> HIDE DEF d, g, left, sum, s, q
\* What the last item with a price takes, and what the others do.
<1>6. /\ q \in Nat
      /\ q * g - d * s \in IF k = lastPositive THEN 0..((k - 1) * (g - 1))
                           ELSE (1 - g)..0
      /\ d * (g - (sum + s)) <= (left - q) * g
      /\ (left - q) * g <= d * (g - (sum + s)) + k * (g - 1)
      /\ k >= lastPositive => left - q = 0
  <2>1. CASE k = lastPositive
    <3>1. q = left
      BY <1>4, <2>1 DEF q, left, ItemDiscount
    <3>2. g - sum = s /\ g - (sum + s) = 0
      BY <1>3, <2>1
    <3>3. q * g - d * s \in 0..((k - 1) * (g - 1))
      <4>1. d * s <= left * g /\ left * g <= d * s + item * (g - 1)
        BY <1>3, <3>2
      <4>2. item * (g - 1) \in Nat /\ d * s \in Nat /\ left * g \in Nat
        BY <1>3
      <4> QED
        BY <1>4, <3>1, <4>1, <4>2
    <3>4. left - q = 0
      BY <1>3, <3>1
    <3>5. (left - q) * g = 0 /\ d * (g - (sum + s)) = 0 /\ k * (g - 1) \in Nat
      BY <1>3, <1>4, <3>2, <3>4
    <3> QED
      BY <1>3, <2>1, <3>1, <3>3, <3>4, <3>5
  <2>2. CASE k # lastPositive
    <3>1. /\ q \in Nat /\ q * g - d * s \in (1 - g)..0
      <4>1. q = multiplyDivideFloor(d, s, g)
        BY <2>2 DEF q, d, s, g, ItemDiscount
      <4> QED
        BY <1>3, <4>1, Share
    <3>2. /\ d * (g - (sum + s)) <= (left - q) * g
          /\ (left - q) * g <= d * (g - (sum + s)) + k * (g - 1)
      <4>1. /\ d * (g - (sum + s)) <= (left - q) * g
            /\ (left - q) * g <= d * (g - (sum + s)) + (item + 1) * (g - 1)
        BY <1>3, <3>1, LeftoverStep
      <4> QED
        BY <1>0, <4>1
    <3>3. k > lastPositive => left - q = 0
      BY <1>3, <1>5, <3>1
    <3> QED
      BY <1>3, <1>4, <2>2, <3>1, <3>2, <3>3
  <2> QED
    BY <2>1, <2>2
<1>7. left - q \in Amounts /\ q \in Amounts
  <2>1. left \in Amounts
    BY <1>1, <1>3, <1>4 DEF PricingTypeOK, Items, left
  <2> QED
    BY <1>3, <1>5, <1>6, <2>1, NaturalInputs DEF Amounts
<1>8. PricingTypeOK'
  <2>1. remainingDiscount' \in [0..count -> Amounts]
    BY <1>1, <1>2, <1>7 DEF PricingTypeOK
  <2>2. itemDiscount' \in [Items -> Amounts]
    BY <1>1, <1>2, <1>7 DEF PricingTypeOK
  <2>3. item' \in 0..count
    BY <1>0, <1>2, <1>3 DEF Items
  <2> QED
    BY <1>1, <1>2, <2>1, <2>2, <2>3 DEF PricingTypeOK, Items, Phases, input, sums
<1>9. Summed' = Summed
  BY <1>2 DEF Summed, input
<1>10. SumsSane'
  BY <1>1, <1>2, <1>9, SumsUnchanged
<1>11. GoodsAmount' = GoodsAmount /\ UNCHANGED <<lastPositive, subtotal, goodsAmount>>
  BY <1>2 DEF GoodsAmount, input, sums
<1>12. /\ remainingDiscount'[k] = left - q /\ itemDiscount'[k] = q
       /\ \A j \in 0..item : remainingDiscount'[j] = remainingDiscount[j]
       /\ \A j \in 1..item : itemDiscount'[j] = itemDiscount[j]
  BY <1>0, <1>1, <1>2, <1>3, <1>4 DEF PricingTypeOK, Items
<1>13. SplitSane'
  <2>1. \A j \in 0..k : j \in 0..item \/ j = k
    BY <1>0, <1>3
  <2>2. \A j \in 1..item : PartOfDiscount(j)' /\ FairPart(j)'
    <3>1. \A j \in 1..item : PartOfDiscount(j) /\ FairPart(j) /\ j - 1 \in 0..item
      BY <1>1, <1>2, <1>3 DEF SplitSane, Splitting
    <3> QED
      BY <1>2, <1>3, <1>11, <1>12, <3>1 DEF PartOfDiscount, FairPart, TooMuch
  <2>3. PartOfDiscount(k)'
    <3>1. remainingDiscount'[k - 1] = left
      BY <1>3, <1>4, <1>12 DEF left
    <3>2. subtotal'[k] = s
      BY <1>11 DEF s
    <3> QED
      BY <1>3, <1>5, <1>6, <1>12, <3>1, <3>2 DEF PartOfDiscount
  <2>4. FairPart(k)'
    BY <1>2, <1>6, <1>11, <1>12 DEF FairPart, TooMuch, d, g, s
  <2>5. \A j \in 0..item : Leftover(j)'
    <3>1. \A j \in 0..item : Leftover(j)
      BY <1>1, <1>2 DEF SplitSane, Splitting
    <3> QED
      BY <1>2, <1>11, <1>12, <3>1 DEF Leftover
  <2>6. Leftover(k)'
    BY <1>2, <1>3, <1>6, <1>11, <1>12 DEF Leftover, d, g
  <2>7. \A j \in 0..k : j >= lastPositive => remainingDiscount'[j] = 0
    <3>1. \A j \in 0..item : j >= lastPositive => remainingDiscount[j] = 0
      BY <1>1, <1>2 DEF SplitSane, Splitting
    <3> QED
      BY <1>6, <1>12, <2>1, <3>1
  <2>8. remainingDiscount'[0] = discountAmount' /\ discountAmount' <= GoodsAmount'
    <3>1. remainingDiscount[0] = discountAmount /\ discountAmount <= GoodsAmount
      BY <1>1, <1>2 DEF SplitSane, Splitting
    <3> QED
      BY <1>2, <1>3, <1>11, <1>12, <3>1
  <2>9. \A j \in 1..k : j \in 1..item \/ j = k
    BY <1>0, <1>3
  <2> QED
    BY <1>2, <1>11, <2>1, <2>2, <2>3, <2>4, <2>5, <2>6, <2>7, <2>8, <2>9
    DEF SplitSane
<1>14. PhaseSane' /\ CommissionSane' /\ RefusedForFractions'
  BY <1>1, <1>2, <1>11 DEF PhaseSane, CommissionSane, RefusedForFractions
<1> QED
  BY <1>8, <1>10, <1>13, <1>14 DEF PricingInv

\* The commission found without a large product is the rounded share.
LEMMA CalculateCommissionStep == PricingInv /\ CalculateCommission => PricingInv'
<1> SUFFICES ASSUME PricingInv, CalculateCommission PROVE PricingInv'
  OBVIOUS
<1> DEFINE p == PayableAmount
<1>1. PricingTypeOK /\ SumsSane /\ SplitSane /\ PhaseSane
  BY DEF PricingInv
<1>2. /\ phase = "commission" /\ phase' = "quoted"
      /\ commissionAmount' = calculateCommissionAmount(p)
      /\ UNCHANGED <<input, item, sums, split>>
  BY DEF CalculateCommission
<1>3. /\ rate \in Nat /\ rate <= BasisPoints
      /\ BasisPoints \in Nat /\ BasisPoints > 0
      /\ BasisPoints * BasisPoints <= MaxInt64 /\ MaxInt64 \in Nat
  BY <1>1, NaturalInputs, RateAssumption DEF PricingTypeOK, RateAssumption
<1>4. p \in Nat /\ p <= MaxInt64
  <2>1. Summed = count
    BY <1>2 DEF Summed
  <2>2. GoodsAmount \in Amounts
    BY <1>1, <2>1, AllSummed
  <2>3. discountAmount \in Nat /\ discountAmount <= GoodsAmount
    BY <1>1, <1>2, NaturalInputs DEF PricingTypeOK, Amounts, SplitSane, Splitting
  <2> QED
    BY <1>3, <2>2, <2>3 DEF PayableAmount, Amounts
<1> HIDE DEF p
<1>5. commissionAmount' = (p * rate) \div BasisPoints
  BY <1>2, <1>3, <1>4, CommissionIsShare DEF calculateCommissionAmount
<1>6. commissionAmount' \in Nat /\ commissionAmount' <= p
  <2> DEFINE c == commissionAmount'
  <2>1. p * rate \in Nat /\ rate * p <= BasisPoints * p
    BY <1>3, <1>4, Monotone
  <2>2. /\ commissionAmount' \in Nat
        /\ BasisPoints * commissionAmount' <= p * rate
    BY <1>3, <1>5, <2>1, Floor
  <2>3. c \in Nat /\ BasisPoints * c <= p * rate
    BY <2>2
  <2> HIDE DEF c
  <2>4. c * BasisPoints <= p * BasisPoints
    BY <1>3, <1>4, <2>1, <2>3
  <2>5. c <= p
    BY <1>3, <1>4, <2>3, <2>4, Cancel
  <2> QED
    BY <2>3, <2>5 DEF c
<1>7. (p \div BasisPoints) * rate <= MaxInt64
  <2>1. p \div BasisPoints \in Nat /\ BasisPoints * (p \div BasisPoints) <= p
    BY <1>3, <1>4, Floor
  <2>2. rate * (p \div BasisPoints) <= BasisPoints * (p \div BasisPoints)
    BY <1>3, <2>1, Monotone
  <2> QED
    BY <1>3, <1>4, <2>1, <2>2
<1>8. (p % BasisPoints) * rate <= MaxInt64
  <2>1. p % BasisPoints \in 0..(BasisPoints - 1)
    BY <1>3, <1>4, Remainder
  <2>2. (p % BasisPoints) * rate <= BasisPoints * rate
    BY <1>3, <2>1, Monotone
  <2>3. rate * BasisPoints <= BasisPoints * BasisPoints
    BY <1>3, Monotone
  <2> QED
    BY <1>3, <2>1, <2>2, <2>3
<1>9. PayableAmount' = p /\ UNCHANGED <<rate, GoodsAmount>>
  BY <1>2 DEF PayableAmount, GoodsAmount, p, input, sums, split
<1>10. CommissionSane'
  BY <1>5, <1>6, <1>7, <1>8, <1>9 DEF CommissionSane
<1>11. PricingTypeOK'
  <2>1. commissionAmount' \in Amounts
    BY <1>3, <1>4, <1>6 DEF Amounts
  <2> QED
    BY <1>1, <1>2, <2>1 DEF PricingTypeOK, Phases, Items, input, sums, split
<1>12. Summed' = Summed
  BY <1>2 DEF Summed, input
<1>13. SumsSane'
  BY <1>1, <1>2, <1>12, SumsUnchanged
<1>14. SplitSane'
  BY <1>1, <1>2 DEF SplitSane, Splitting, PartOfDiscount, FairPart, TooMuch,
     Leftover, GoodsAmount, input, sums, split
<1>15. PhaseSane' /\ RefusedForFractions'
  BY <1>1, <1>2, <1>9 DEF PhaseSane, RefusedForFractions, Unsplit, Items,
     input, split
<1> QED
  BY <1>10, <1>11, <1>13, <1>14, <1>15 DEF PricingInv

\* Every step of a quote keeps the invariant.
LEMMA PricingGoesOn == PricingInv /\ [PricingNext]_pricing => PricingInv'
<1> SUFFICES ASSUME PricingInv, [PricingNext]_pricing PROVE PricingInv'
  OBVIOUS
<1>1. CASE PricingNext
  BY <1>1, CalculateSubtotalsStep, SumSubtotalStep, RefusalsStep,
     UseCouponStep, AllocateOrderItemStep, RefuseItemStep, EndSplitStep,
     CalculateCommissionStep DEF PricingNext
<1>2. CASE UNCHANGED pricing
  <2>1. UNCHANGED <<input, phase, item, sums, split, commissionAmount>>
    BY <1>2 DEF pricing
  <2>2. PricingTypeOK' /\ PhaseSane'
    BY <2>1 DEF PricingInv, PricingTypeOK, PhaseSane, Unsplit, GoodsAmount, Items,
       Amounts, Phases, input, sums, split
  <2>3. Summed' = Summed
    BY <2>1 DEF Summed, input
  <2>4. SumsSane'
    BY <2>1, <2>3, SumsUnchanged DEF PricingInv
  <2>5. SplitSane'
    BY <2>1 DEF PricingInv, SplitSane, Splitting, PartOfDiscount, FairPart, TooMuch,
       Leftover, GoodsAmount, input, sums, split
  <2>6. CommissionSane' /\ RefusedForFractions'
    BY <2>1 DEF PricingInv, CommissionSane, RefusedForFractions, PayableAmount,
       GoodsAmount, input, sums, split
  <2> QED
    BY <2>2, <2>4, <2>5, <2>6 DEF PricingInv
<1> QED
  BY <1>1, <1>2

-----------------------------------------------------------------------------
\* The inductive invariant holds in every state of every quote.
THEOREM PricingInvariance == PricingSpec => []PricingInv
<1>1. PricingInit => PricingInv
  BY PricingStarts
<1>2. PricingInv /\ [PricingNext]_pricing => PricingInv'
  BY PricingGoesOn
<1> QED
  BY <1>1, <1>2, PTL DEF PricingSpec

\* No amount leaves int64: the guards of CalculateSubtotal and SumSubtotals are
\* all that pricing needs against overflow, whatever prices and quantities are.
THEOREM AmountsInRange == PricingSpec => []PricingTypeOK
<1>1. PricingInv => PricingTypeOK
  BY DEF PricingInv
<1> QED
  BY <1>1, PricingInvariance, PTL

\* A quote adds up, whatever the number of items: AllocateOrderItems splits the
\* discount without a rest, no item gets more than it costs and every part is
\* fair up to rounding, and the commission is the exact rounded share.
THEOREM QuotesAddUp == PricingSpec => []QuoteAddsUp
<1>1. PricingInv => QuoteAddsUp
  <2> SUFFICES ASSUME PricingInv, phase = "quoted" PROVE QuoteAddsUp
    BY DEF QuoteAddsUp
  <2>1. PricingTypeOK /\ SumsSane /\ SplitSane /\ PhaseSane /\ CommissionSane
    BY DEF PricingInv
  <2>2. Summed = count
    BY DEF Summed
  <2>3. /\ count \in Nat /\ lastPositive \in 0..count /\ goodsAmount[0] = 0
        /\ \A k \in Items : subtotal[k] \in Nat
    BY <2>1, <2>2, AllSummed
  <2>4. CASE item = count
    BY <2>1, <2>3, <2>4
    DEF SplitSane, Splitting, CommissionSane, QuoteAddsUp, Items
  <2>5. CASE GoodsAmount = 0 /\ Unsplit
    <3>1. \A k \in Items : k \in 0..count /\ k - 1 \in 0..count
      BY <2>3 DEF Items
    <3>2. \A k \in Items : PartOfDiscount(k)
      BY <2>3, <2>5, <3>1 DEF Unsplit, PartOfDiscount
    <3>3. remainingDiscount[0] = discountAmount /\ remainingDiscount[count] = 0
      BY <2>1, <2>3, <2>5 DEF SplitSane, Splitting, Unsplit
    <3> QED
      BY <2>1, <2>5, <3>2, <3>3 DEF CommissionSane, QuoteAddsUp
  <2> QED
    BY <2>1, <2>4, <2>5 DEF PhaseSane
<1> QED
  BY <1>1, PricingInvariance, PTL

\* A coupon that may be used is refused by the split only because of fractions
\* of a fen, never on one or two items, and a split is never left incomplete:
\* the last check of AllocateOrderItems cannot fail.
THEOREM OnlyFractionsRefused == PricingSpec => []RefusedForFractions
<1>1. PricingInv => RefusedForFractions
  BY DEF PricingInv
<1> QED
  BY <1>1, PricingInvariance, PTL

-----------------------------------------------------------------------------
(***************************************************************************)
(* TradeCreate, for any number of tokens, offers, SKUs, baskets, requests, *)
(* devices and failures.  From the script that takes the token to the      *)
(* recovery, one request has it.                                           *)
(***************************************************************************)

\* A token that no preview handed out has not been used for anything.
Unused ==
  \A k \in Tokens :
    previewed[k] = NoQuote =>
      token[k] = "missing" /\ trades[k] = <<>> /\ k \notin told

\* What can still be taken has not bought anything, and nobody was sent away.
Fresh ==
  \A k \in Tokens : token[k] = "pending" => ~Placed(k) /\ k \notin told

\* A trade is the quote of its token.
Sold ==
  \A k \in Tokens :
    trades[k] = <<>> \/ (previewed[k] \in Quotes /\ trades[k] = <<previewed[k]>>)

\* The token of a request was handed out, and is in processing as long as the
\* request holds it.
Held ==
  \A r \in Requests, k \in Tokens :
    Holds(r, k) => token[k] = "processing" /\ k \notin told

\* The script gives a token to one request.
OneHolder ==
  \A r, q \in Requests, k \in Tokens : Holds(r, k) /\ Holds(q, k) => r = q

\* What a request knows of its token at each step.
RequestSound(r) ==
  LET k == request[r].token IN
  /\ request[r].pc # "idle" => k \in Tokens /\ previewed[k] # NoQuote
  /\ request[r].pc = "place" => ~Placed(k)
  /\ request[r].pc = "expired" => token[k] = "missing"
  /\ request[r].again => request[r].pc = "recover" /\ ~Placed(k)
  /\ request[r].pc \in {"save", "clear"} =>
       Placed(k) /\ request[r].input = previewed[k][2]

\* What is being added was available when it was looked at.
AdditionSound ==
  \A d \in Devices : adding[d] # NoAddition => adding[d].read + 1 <= MaxQuantity

GivenUp == \A k \in told : ~Placed(k)

Shape ==
  /\ offer \in Offers
  /\ token \in [Tokens -> TokenStates]
  /\ previewed \in [Tokens -> Quotes \cup {NoQuote}]
  /\ trades \in [Tokens -> Seq(Quotes)]
  /\ told \subseteq Tokens
  /\ cart \in [SKUs -> 0..MaxQuantity]
  /\ request \in [Requests -> Locals]
  /\ adding \in [Devices -> [sku : SUBSET SKUs, read : Nat]]
  /\ faults \in 0..MaxFaults

IInv ==
  /\ Shape
  /\ Unused
  /\ Fresh
  /\ Sold
  /\ Held
  /\ OneHolder
  /\ \A r \in Requests : RequestSound(r)
  /\ AdditionSound
  /\ GivenUp

-----------------------------------------------------------------------------
(***************************************************************************)
(* Steps of one request.                                                   *)
(***************************************************************************)

\* Request r goes on with the locals l.
Moves(r, l) ==
  /\ l \in Locals
  /\ request' = [request EXCEPT ![r] = l]
  /\ previewed' = previewed

\* What the invariant asks of request r after its step.
Sound(r) ==
  /\ RequestSound(r)
  /\ \A k \in Tokens : Holds(r, k) => token[k] = "processing" /\ k \notin told

\* The parts of the invariant that relate tokens and requests.
TokensSound ==
  /\ Unused
  /\ Fresh
  /\ Sold
  /\ Held
  /\ OneHolder
  /\ \A r \in Requests : RequestSound(r)
  /\ GivenUp

\* A step of request r that changes only its own locals, and does not start to
\* hold a token, touches nothing the others rely on.
LEMMA Alone ==
  ASSUME IInv, NEW r \in Requests, NEW l, Moves(r, l), Sound(r)',
         \A k \in Tokens : Holds(r, k)' => Holds(r, k),
         UNCHANGED <<token, trades, told>>
  PROVE  TokensSound'
<1>1. \A q \in Requests : q # r => request'[q] = request[q]
  BY DEF Moves, IInv, Shape
<1>2. \A q \in Requests, k \in Tokens : q # r => Holds(q, k)' = Holds(q, k)
  BY <1>1 DEF Holds
<1>3. Unused' /\ Fresh' /\ Sold' /\ GivenUp'
  BY DEF IInv, Unused, Fresh, Sold, GivenUp, Placed, FindTradeByIdempotencyKey,
         Moves
<1>4. Held'
  <2> SUFFICES ASSUME NEW q \in Requests, NEW k \in Tokens, Holds(q, k)'
               PROVE  token'[k] = "processing" /\ k \notin told'
    BY DEF Held
  <2>1. CASE q = r
    BY <2>1 DEF Sound
  <2>2. CASE q # r
    BY <2>2, <1>2 DEF IInv, Held
  <2> QED
    BY <2>1, <2>2
<1>5. OneHolder'
  <2>1. \A q \in Requests, k \in Tokens : Holds(q, k)' => Holds(q, k)
    BY <1>2
  <2> QED
    BY <2>1 DEF IInv, OneHolder
<1>6. ASSUME NEW q \in Requests PROVE RequestSound(q)'
  <2>1. CASE q = r
    BY <2>1 DEF Sound
  <2>2. CASE q # r
    <3>1. RequestSound(q)
      BY DEF IInv
    <3> QED
      BY <3>1, <2>2, <1>1
      DEF RequestSound, Placed, FindTradeByIdempotencyKey, Moves
  <2> QED
    BY <2>1, <2>2
<1> QED
  BY <1>3, <1>4, <1>5, <1>6 DEF TokensSound

\* The key of token k becomes t, its trades T.
Settles(k, t, T) ==
  /\ t \in TokenStates \ {"pending"}
  /\ token' = [token EXCEPT ![k] = t]
  /\ T \in Seq(Quotes)
  /\ trades' = [trades EXCEPT ![k] = T]
  /\ \/ T = trades[k]
     \/ trades[k] = <<>> /\ previewed[k] \in Quotes /\ T = <<previewed[k]>>
  /\ told \subseteq told' /\ told' \subseteq told \cup {k}
  /\ k \in told' => T = <<>>

\* The request that holds a token, or takes one that is pending, may change the
\* token's key, trade and fate: nobody else is at work with it.
LEMMA WithToken ==
  ASSUME IInv, NEW r \in Requests, NEW k \in Tokens, NEW l,
         Moves(r, l), Sound(r)',
         request[r].pc # "idle", request[r].token = k,
         l.pc # "idle" => l.token = k,
         Holds(r, k) \/ token[k] = "pending",
         NEW t, NEW T, Settles(k, t, T)
  PROVE  TokensSound'
<1> USE DEF Settles
<1>1. \A q \in Requests : q # r => request'[q] = request[q]
  BY DEF Moves, IInv, Shape
<1>2. \A q \in Requests, n \in Tokens : q # r => Holds(q, n)' = Holds(q, n)
  BY <1>1 DEF Holds
<1>3. \A q \in Requests : q # r => ~Holds(q, k)
  BY DEF IInv, Held, OneHolder
<1>4. /\ token'[k] = t /\ trades'[k] = T
      /\ \A n \in Tokens : n # k => /\ token'[n] = token[n]
                                    /\ trades'[n] = trades[n]
                                    /\ n \in told' <=> n \in told
  BY DEF IInv, Shape
<1>5. previewed[k] # NoQuote
  <2>1. RequestSound(r)
    BY DEF IInv
  <2> QED
    BY <2>1 DEF RequestSound
<1>6. token[k] # "missing" /\ (token[k] = "pending" => trades[k] = <<>>)
  BY DEF IInv, Held, Fresh, Placed, FindTradeByIdempotencyKey
<1>7. \A n \in Tokens : Holds(r, n)' => n = k
  BY DEF Holds, Moves, IInv, Shape
<1>8. Unused'
  BY <1>4, <1>5 DEF IInv, Unused, Moves
<1>9. Fresh'
  <2>1. \A n \in Tokens : token'[n] = "pending" => n # k
    BY <1>4
  <2> QED
    BY <1>4, <2>1 DEF IInv, Fresh, Placed, FindTradeByIdempotencyKey
<1>10. Sold'
  <2> SUFFICES ASSUME NEW n \in Tokens
               PROVE  trades'[n] = <<>>
                        \/ (previewed[n] \in Quotes /\ trades'[n] = <<previewed[n]>>)
    BY DEF Sold, Moves
  <2>1. CASE n = k
    BY <2>1, <1>4 DEF IInv, Sold
  <2>2. CASE n # k
    BY <2>2, <1>4 DEF IInv, Sold
  <2> QED
    BY <2>1, <2>2
<1>11. Held'
  <2> SUFFICES ASSUME NEW q \in Requests, NEW n \in Tokens, Holds(q, n)'
               PROVE  token'[n] = "processing" /\ n \notin told'
    BY DEF Held
  <2>1. CASE q = r
    BY <2>1 DEF Sound
  <2>2. CASE q # r
    <3>1. Holds(q, n) /\ n # k
      BY <2>2, <1>2, <1>3
    <3> QED
      BY <3>1, <1>4 DEF IInv, Held
  <2> QED
    BY <2>1, <2>2
<1>12. OneHolder'
  <2> SUFFICES ASSUME NEW q \in Requests, NEW p \in Requests, NEW n \in Tokens,
                      Holds(q, n)', Holds(p, n)'
               PROVE  q = p
    BY DEF OneHolder
  <2>1. CASE q = r
    BY <2>1, <1>2, <1>3, <1>7
  <2>2. CASE p = r
    BY <2>2, <1>2, <1>3, <1>7
  <2>3. CASE q # r /\ p # r
    BY <2>3, <1>2 DEF IInv, OneHolder
  <2> QED
    BY <2>1, <2>2, <2>3
<1>13. ASSUME NEW q \in Requests PROVE RequestSound(q)'
  <2>1. CASE q = r
    BY <2>1 DEF Sound
  <2>2. CASE q # r
    <3>1. RequestSound(q) /\ request'[q] = request[q] /\ previewed' = previewed
      BY <2>2, <1>1 DEF IInv, Moves
    <3>2. CASE request[q].token # k
      BY <3>1, <3>2, <1>4
      DEF RequestSound, Placed, FindTradeByIdempotencyKey, IInv, Shape, Locals,
          Idle
    <3>3. CASE request[q].token = k
      <4>1. request[q].pc \notin {"place", "recover", "save"}
        BY <3>3, <2>2, <1>3 DEF Holds
      <4>2. request[q].pc # "expired"
        BY <3>1, <3>3, <1>6 DEF RequestSound
      <4>3. Placed(k) => Placed(k)'
        BY <1>4 DEF Placed, FindTradeByIdempotencyKey
      <4> QED
        BY <3>1, <3>3, <4>1, <4>2, <4>3 DEF RequestSound
    <3> QED
      BY <3>2, <3>3
  <2> QED
    BY <2>1, <2>2
<1>14. GivenUp'
  <2> SUFFICES ASSUME NEW n \in told' PROVE trades'[n] = <<>>
    BY DEF GivenUp, Placed, FindTradeByIdempotencyKey
  <2>1. CASE n = k
    BY <2>1, <1>4
  <2>2. CASE n # k
    <3>1. n \in told /\ n \in Tokens
      BY <2>2 DEF IInv, Shape
    <3> QED
      BY <2>2, <3>1, <1>4 DEF IInv, GivenUp, Placed, FindTradeByIdempotencyKey
  <2> QED
    BY <2>1, <2>2
<1> QED
  BY <1>8, <1>9, <1>10, <1>11, <1>12, <1>13, <1>14 DEF TokensSound

-----------------------------------------------------------------------------
(***************************************************************************)
(* The steps.                                                              *)
(***************************************************************************)

\* Nothing that the tokens and the requests are made of has changed.
SameTokens == UNCHANGED <<token, previewed, trades, told, request>>

\* Who touches no token leaves all of them sound.
LEMMA Untouched == IInv /\ SameTokens => TokensSound'
<1> SUFFICES ASSUME IInv, SameTokens PROVE TokensSound'
  OBVIOUS
<1>1. TokensSound
  BY DEF IInv, TokensSound
<1> QED
  BY <1>1
  DEF SameTokens, TokensSound, Unused, Fresh, Sold, Held, OneHolder, RequestSound,
      GivenUp, Placed, FindTradeByIdempotencyKey, Holds

\* What the invariant says of the offer, the cart and the failures.
WorldSound ==
  /\ offer \in Offers
  /\ cart \in [SKUs -> 0..MaxQuantity]
  /\ adding \in [Devices -> [sku : SUBSET SKUs, read : Nat]]
  /\ faults \in 0..MaxFaults
  /\ AdditionSound

RowsShaped ==
  /\ token \in [Tokens -> TokenStates]
  /\ previewed \in [Tokens -> Quotes \cup {NoQuote}]
  /\ trades \in [Tokens -> Seq(Quotes)]
  /\ told \subseteq Tokens
  /\ request \in [Requests -> Locals]

\* The invariant in three parts: the world, the rows, the tokens.
LEMMA Parts == WorldSound' /\ RowsShaped' /\ TokensSound' => IInv'
BY DEF IInv, Shape, WorldSound, RowsShaped, TokensSound

\* An offer may change: what was previewed stays what it was.
LEMMA OfferChanges ==
  ASSUME IInv, NEW o \in Offers, ChangeOffer(o)
  PROVE  IInv'
<1>1. SameTokens /\ UNCHANGED <<cart, adding, faults>> /\ offer' \in Offers
  BY DEF ChangeOffer, redis, SameTokens
<1>2. WorldSound'
  BY <1>1 DEF IInv, Shape, WorldSound, AdditionSound
<1>3. RowsShaped'
  BY <1>1 DEF IInv, Shape, RowsShaped, SameTokens
<1> QED
  BY <1>1, <1>2, <1>3, Untouched, Parts

\* The cart stays within what may be bought at once.
LEMMA CartMoves ==
  ASSUME IInv, CartStep
  PROVE  IInv'
<1>1. SameTokens /\ UNCHANGED <<offer, faults>>
  BY DEF CartStep, AddStart, AddWrite, Update, DeleteItems, Elsewhere, SameTokens
<1>2. RowsShaped'
  BY <1>1 DEF IInv, Shape, RowsShaped, SameTokens
<1>3. MaxQuantity \in Nat
  BY TradeCreateAssumption DEF TradeCreateAssumption
<1>4. /\ cart \in [SKUs -> 0..MaxQuantity]
      /\ adding \in [Devices -> [sku : SUBSET SKUs, read : Nat]]
      /\ AdditionSound
  BY DEF IInv, Shape
<1>5. /\ cart' \in [SKUs -> 0..MaxQuantity]
      /\ adding' \in [Devices -> [sku : SUBSET SKUs, read : Nat]]
      /\ AdditionSound'
  <2>1. ASSUME NEW d \in Devices, AddWrite(d) PROVE <1>5!:
    <3>1. \A s \in SKUs : s \in adding[d].sku => adding[d].read + 1 \in 0..MaxQuantity
      BY <2>1, <1>3, <1>4 DEF AddWrite, AdditionSound
    <3>2. cart' \in [SKUs -> 0..MaxQuantity]
      BY <2>1, <3>1, <1>4 DEF AddWrite
    <3>3. NoAddition \in [sku : SUBSET SKUs, read : Nat]
      BY DEF NoAddition
    <3>4. adding' \in [Devices -> [sku : SUBSET SKUs, read : Nat]]
      BY <2>1, <3>3, <1>4 DEF AddWrite
    <3>5. AdditionSound'
      BY <2>1, <1>4 DEF AddWrite, AdditionSound
    <3> QED
      BY <3>2, <3>4, <3>5
  <2>2. ASSUME NEW d \in Devices, NEW s \in SKUs, AddStart(d, s) PROVE <1>5!:
    <3> DEFINE a == [sku |-> {s}, read |-> cart[s]]
    <3>1. /\ a \in [sku : SUBSET SKUs, read : Nat]
          /\ a.read + 1 <= MaxQuantity
      BY <2>2, <1>3, <1>4
      DEF AddStart, checkCartAvailable, getCurrentQuantity
    <3>2. adding' = [adding EXCEPT ![d] = a] /\ cart' = cart
      BY <2>2 DEF AddStart, getCurrentQuantity
    <3> HIDE DEF a
    <3> QED
      BY <3>1, <3>2, <1>4 DEF AdditionSound
  <2>3. ASSUME NEW s \in SKUs, NEW n \in 1..MaxQuantity, Update(s, n) PROVE <1>5!:
    BY <2>3, <1>3, <1>4 DEF Update, AdditionSound
  <2>4. ASSUME NEW skus, DeleteItems(skus) PROVE <1>5!:
    BY <2>4, <1>3, <1>4 DEF DeleteItems, AdditionSound
  <2> QED
    BY <2>1, <2>2, <2>3, <2>4 DEF CartStep
<1>6. WorldSound'
  BY <1>1, <1>5 DEF IInv, Shape, WorldSound
<1> QED
  BY <1>1, <1>2, <1>6, Untouched, Parts

\* A quote is made of the offer in force and the goods, each SKU once.
LEMMA QuoteMade ==
  ASSUME IInv, CanQuote, NEW items \in Baskets
  PROVE  <<offer, normalizeTradeInput(items)>> \in Quotes
BY DEF IInv, Shape, CanQuote, Quotes, Inputs

\* A preview hands out a token that nobody has used.
LEMMA Previewing ==
  ASSUME IInv, NEW k \in Tokens, NEW items \in Baskets, Preview(k, items)
  PROVE  IInv'
<1> DEFINE q == <<offer, normalizeTradeInput(items)>>
<1>1. q \in Quotes /\ NoQuote \notin Quotes
  BY QuoteMade, TradeCreateAssumption DEF Preview, TradeCreateAssumption
<1>2. /\ previewed' = [previewed EXCEPT ![k] = q]
      /\ token' = [token EXCEPT ![k] = "pending"]
      /\ UNCHANGED <<offer, trades, told, cart, request, adding, faults>>
  BY DEF Preview, SetToken
<1> HIDE DEF q
<1>3. previewed[k] = NoQuote /\ token[k] = "missing" /\ trades[k] = <<>> /\ k \notin told
  BY DEF Preview, IInv, Unused
<1>4. \A r \in Requests : ~Holds(r, k)
  BY <1>3 DEF IInv, Held
<1>5. WorldSound'
  BY <1>2 DEF IInv, Shape, WorldSound, AdditionSound
<1>6. RowsShaped'
  BY <1>1, <1>2 DEF IInv, Shape, RowsShaped, TokenStates
<1>7. /\ previewed'[k] = q /\ token'[k] = "pending"
      /\ \A n \in Tokens : n # k => /\ previewed'[n] = previewed[n]
                                    /\ token'[n] = token[n]
  BY <1>2 DEF IInv, Shape
<1>8. Unused'
  BY <1>1, <1>2, <1>7 DEF IInv, Unused
<1>9. Fresh'
  BY <1>2, <1>3, <1>7 DEF IInv, Fresh, Placed, FindTradeByIdempotencyKey
<1>10. Sold'
  <2> SUFFICES ASSUME NEW n \in Tokens
               PROVE  trades[n] = <<>>
                        \/ (previewed'[n] \in Quotes /\ trades[n] = <<previewed'[n]>>)
    BY <1>2 DEF Sold
  <2>1. CASE n = k
    BY <2>1, <1>3
  <2>2. CASE n # k
    BY <2>2, <1>7 DEF IInv, Sold
  <2> QED
    BY <2>1, <2>2
<1>11. Held' /\ OneHolder'
  <2>1. \A r \in Requests, n \in Tokens : Holds(r, n)' = Holds(r, n)
    BY <1>2 DEF Holds
  <2>2. Held'
    BY <2>1, <1>2, <1>4, <1>7 DEF IInv, Held
  <2>3. OneHolder'
    BY <2>1 DEF IInv, OneHolder
  <2> QED
    BY <2>2, <2>3
<1>12. ASSUME NEW r \in Requests PROVE RequestSound(r)'
  <2>1. RequestSound(r) /\ request[r] \in Locals
    BY DEF IInv, Shape
  <2>2. request[r].pc = "idle" \/ (request[r].token \in Tokens /\ request[r].token # k)
    BY <2>1, <1>3 DEF RequestSound
  <2>3. CASE request[r].pc = "idle"
    BY <2>1, <2>3, <1>2 DEF RequestSound, Placed, FindTradeByIdempotencyKey
  <2>4. CASE request[r].token \in Tokens /\ request[r].token # k
    BY <2>1, <2>4, <1>2, <1>7
    DEF RequestSound, Placed, FindTradeByIdempotencyKey
  <2> QED
    BY <2>2, <2>3, <2>4
<1>13. GivenUp'
  BY <1>2 DEF IInv, GivenUp, Placed, FindTradeByIdempotencyKey
<1>14. TokensSound'
  BY <1>8, <1>9, <1>10, <1>11, <1>12, <1>13 DEF TokensSound
<1> QED
  BY <1>5, <1>6, <1>14, Parts

\* A key expires only when no request is at work with it.
LEMMA Expires ==
  ASSUME IInv, NEW k \in Tokens, Expire(k)
  PROVE  IInv'
<1>1. /\ token' = [token EXCEPT ![k] = "missing"]
      /\ UNCHANGED <<offer, previewed, trades, told, cart, request, adding, faults>>
      /\ \A r \in Requests : ~Holds(r, k)
  BY DEF Expire, SetToken
<1>2. WorldSound'
  BY <1>1 DEF IInv, Shape, WorldSound, AdditionSound
<1>3. RowsShaped'
  BY <1>1 DEF IInv, Shape, RowsShaped, TokenStates
<1>4. /\ token'[k] = "missing"
      /\ \A n \in Tokens : n # k => token'[n] = token[n]
  BY <1>1 DEF IInv, Shape
<1>5. Unused' /\ Sold' /\ GivenUp'
  BY <1>1, <1>4
  DEF IInv, Unused, Sold, GivenUp, Placed, FindTradeByIdempotencyKey
<1>6. Fresh'
  BY <1>1, <1>4 DEF IInv, Fresh, Placed, FindTradeByIdempotencyKey
<1>7. Held' /\ OneHolder'
  <2>1. \A r \in Requests, n \in Tokens : Holds(r, n)' = Holds(r, n)
    BY <1>1 DEF Holds
  <2>2. Held'
    BY <2>1, <1>1, <1>4 DEF IInv, Held
  <2>3. OneHolder'
    BY <2>1 DEF IInv, OneHolder
  <2> QED
    BY <2>2, <2>3
<1>8. ASSUME NEW r \in Requests PROVE RequestSound(r)'
  <2>1. RequestSound(r) /\ request[r] \in Locals
    BY DEF IInv, Shape
  <2>2. request[r].pc = "expired" => token'[request[r].token] = "missing"
    BY <2>1, <1>4 DEF RequestSound
  <2> QED
    BY <2>1, <2>2, <1>1 DEF RequestSound, Placed, FindTradeByIdempotencyKey
<1>9. TokensSound'
  BY <1>5, <1>6, <1>7, <1>8 DEF TokensSound
<1> QED
  BY <1>2, <1>3, <1>9, Parts

-----------------------------------------------------------------------------
(***************************************************************************)
(* The steps of a request.                                                 *)
(***************************************************************************)

\* A request and the failures of its calls leave the offer and the cart alone.
LEMMA WorldKept ==
  ASSUME IInv, Rest \/ Fault
  PROVE  WorldSound' /\ previewed' = previewed
<1>1. UNCHANGED <<offer, previewed, cart, adding>> /\ faults' \in 0..MaxFaults
  BY TradeCreateAssumption
  DEF Rest, Fault, IInv, Shape, TradeCreateAssumption
<1> QED
  BY <1>1 DEF IInv, Shape, WorldSound, AdditionSound

\* A step that nobody else relies on keeps the invariant,
LEMMA AloneKeeps ==
  ASSUME IInv, WorldSound', NEW r \in Requests, NEW l, Moves(r, l), Sound(r)',
         \A k \in Tokens : Holds(r, k)' => Holds(r, k),
         UNCHANGED <<token, trades, told>>
  PROVE  IInv'
<1>1. TokensSound'
  BY Alone
<1>2. RowsShaped'
  BY DEF RowsShaped, IInv, Shape, Moves
<1> QED
  BY <1>1, <1>2, Parts

\* ... and so does a step on the token that the request has.
LEMMA WithTokenKeeps ==
  ASSUME IInv, WorldSound', NEW r \in Requests, NEW k \in Tokens, NEW l,
         Moves(r, l), Sound(r)',
         request[r].pc # "idle", request[r].token = k,
         l.pc # "idle" => l.token = k,
         Holds(r, k) \/ token[k] = "pending",
         NEW t, NEW T, Settles(k, t, T)
  PROVE  IInv'
<1>1. TokensSound'
  BY WithToken
<1>2. RowsShaped'
  BY DEF Settles, RowsShaped, IInv, Shape, Moves
<1> QED
  BY <1>1, <1>2, Parts

\* A request that has answered holds nothing and knows nothing.
LEMMA IdleSound ==
  ASSUME IInv, NEW r \in Requests, Answer(r), previewed' = previewed
  PROVE  Moves(r, Idle) /\ Sound(r)' /\ \A k \in Tokens : ~Holds(r, k)'
<1>1. Idle \in Locals
  BY DEF Idle, Locals, Steps
<1>2. request' = [request EXCEPT ![r] = Idle] /\ request'[r] = Idle
  BY DEF Answer, Goto, IInv, Shape
<1>3. \A k \in Tokens : ~Holds(r, k)'
  BY <1>2 DEF Holds, Idle
<1>4. RequestSound(r)'
  BY <1>2 DEF RequestSound, Idle
<1> QED
  BY <1>1, <1>2, <1>3, <1>4 DEF Moves, Sound

\* A request that answers and has touched nothing.
LEMMA Answered ==
  ASSUME IInv, NEW r \in Requests, Answer(r), Rest \/ Fault,
         UNCHANGED <<token, trades, told>>
  PROVE  IInv'
<1>1. WorldSound' /\ previewed' = previewed
  BY WorldKept
<1>2. Moves(r, Idle) /\ Sound(r)' /\ \A k \in Tokens : ~Holds(r, k)'
  BY <1>1, IdleSound
<1> QED
  BY <1>1, <1>2, AloneKeeps

\* What is known of a request that is under way.
LEMMA UnderWay ==
  ASSUME IInv, NEW r \in Requests, request[r].pc # "idle"
  PROVE  /\ request[r] \in Locals /\ request[r].token \in Tokens
         /\ previewed[request[r].token] \in Quotes
         /\ RequestSound(r)
BY DEF IInv, Shape, RequestSound

\* A step that only moves the program counter.
LEMMA StepMoves ==
  ASSUME IInv, NEW r \in Requests, NEW pc \in Steps, Step(r, pc),
         previewed' = previewed
  PROVE  /\ Moves(r, [request[r] EXCEPT !.pc = pc])
         /\ request'[r] = [request[r] EXCEPT !.pc = pc]
         /\ request'[r].pc = pc
         /\ request'[r].token = request[r].token
         /\ request'[r].input = request[r].input
         /\ request'[r].again = request[r].again
BY DEF Step, Goto, Moves, IInv, Shape, Locals

\* A request starts with the basket it was sent.
LEMMA Starts ==
  ASSUME IInv, NEW r \in Requests, NEW k \in Tokens, NEW items \in Baskets,
         CreateStart(r, k, items)
  PROVE  IInv'
<1> DEFINE basket == normalizeTradeInput(items)
           l == [pc |-> "acquire", token |-> k, input |-> basket, again |-> FALSE]
<1>1. WorldSound' /\ previewed' = previewed
  BY WorldKept DEF CreateStart
<1>2. basket \in Inputs
  BY DEF Inputs
<1>3. /\ request' = [request EXCEPT ![r] = l]
      /\ UNCHANGED <<token, trades, told>>
      /\ previewed[k] # NoQuote
  BY DEF CreateStart, Goto
<1> HIDE DEF basket
<1>4. l \in Locals
  BY <1>2 DEF Locals, Steps
<1>5. Moves(r, l) /\ request'[r] = l
  BY <1>1, <1>3, <1>4 DEF Moves, IInv, Shape
<1>6. \A n \in Tokens : ~Holds(r, n)'
  BY <1>5 DEF Holds
<1>7. RequestSound(r)'
  BY <1>1, <1>3, <1>5 DEF RequestSound
<1>8. Sound(r)'
  BY <1>6, <1>7 DEF Sound
<1> HIDE DEF l
<1> QED
  BY <1>1, <1>3, <1>5, <1>6, <1>8, AloneKeeps

\* A pending token goes to the request that finds it.
LEMMA Acquires ==
  ASSUME IInv, NEW r \in Requests, AcquirePreview(r)
  PROVE  IInv'
<1>1. WorldSound' /\ previewed' = previewed /\ UNCHANGED <<trades, told>>
  BY WorldKept DEF AcquirePreview
<1> DEFINE l == [request[r] EXCEPT !.pc = "place"]
<1>2. request[r].pc = "acquire" /\ ~request[r].again
  BY DEF AcquirePreview, IInv, RequestSound
<1>3. PICK k \in Tokens : k = request[r].token
  BY <1>2, UnderWay
<1>4. request[r] \in Locals /\ previewed[k] \in Quotes /\ RequestSound(r)
  BY <1>2, <1>3, UnderWay
<1>5. CASE token[k] = "pending" /\ TakeToken(k) /\ Step(r, "place")
  <2>1. /\ Moves(r, l) /\ request'[r] = l
        /\ l.pc = "place" /\ l.token = k
        /\ request'[r].token = k /\ ~request'[r].again
    BY <1>1, <1>2, <1>3, <1>4, <1>5, StepMoves DEF Steps, Locals
  <2>2. token' = [token EXCEPT ![k] = "processing"] /\ token'[k] = "processing"
    BY <1>3, <1>5 DEF TakeToken, SetToken, IInv, Shape
  <2>3. trades[k] = <<>> /\ k \notin told
    BY <1>3, <1>5 DEF IInv, Fresh, Placed, FindTradeByIdempotencyKey
  <2>4. Sound(r)'
    <3>1. \A n \in Tokens : Holds(r, n)' => token'[n] = "processing" /\ n \notin told'
      BY <1>1, <2>1, <2>2, <2>3 DEF Holds
    <3>2. previewed'[k] # NoQuote /\ ~Placed(k)'
      BY <1>1, <1>2, <1>3, <1>4, <2>3
      DEF RequestSound, Placed, FindTradeByIdempotencyKey
    <3>3. RequestSound(r)'
      BY <1>3, <1>4, <2>1, <3>2 DEF RequestSound
    <3> QED
      BY <3>1, <3>3 DEF Sound
  <2>5. Settles(k, "processing", trades[k])
    BY <1>1, <1>3, <2>2, <2>3 DEF Settles, TokenStates, IInv, Shape
  <2> HIDE DEF l
  <2> QED
    BY <1>1, <1>2, <1>3, <1>5, <2>1, <2>4, <2>5, WithTokenKeeps
<1>6. CASE token[k] = "missing" /\ Step(r, "expired") /\ UNCHANGED token
  <2> DEFINE e == [request[r] EXCEPT !.pc = "expired"]
  <2>1. /\ Moves(r, e) /\ request'[r].pc = "expired"
        /\ request'[r].token = k /\ ~request'[r].again
    BY <1>1, <1>2, <1>3, <1>6, StepMoves DEF Steps
  <2> HIDE DEF e
  <2>2. \A n \in Tokens : ~Holds(r, n)'
    BY <2>1 DEF Holds
  <2>3. RequestSound(r)'
    BY <1>1, <1>2, <1>3, <1>4, <1>6, <2>1 DEF RequestSound
  <2>4. Sound(r)'
    BY <2>2, <2>3 DEF Sound
  <2> QED
    BY <1>1, <1>6, <2>1, <2>2, <2>4, AloneKeeps
<1>7. CASE Answer(r) /\ UNCHANGED token
  BY <1>1, <1>7, Answered DEF AcquirePreview
<1> QED
  BY <1>2, <1>3, <1>5, <1>6, <1>7 DEF AcquirePreview

\* The buyer of an expired token is told only if nothing was bought with it.
LEMMA TellsExpired ==
  ASSUME IInv, NEW r \in Requests, Expired(r)
  PROVE  IInv'
<1> DEFINE k == request[r].token
<1>1. WorldSound' /\ previewed' = previewed /\ UNCHANGED <<token, trades>>
  BY WorldKept DEF Expired
<1>2. Moves(r, Idle) /\ Sound(r)' /\ \A n \in Tokens : ~Holds(r, n)'
  BY <1>1, IdleSound DEF Expired
<1>3. k \in Tokens /\ token[k] = "missing" /\ previewed[k] # NoQuote
  BY UnderWay DEF Expired, RequestSound
<1>4. CASE told' = told
  BY <1>1, <1>2, <1>4, AloneKeeps
<1>5. CASE ~Placed(k) /\ told' = told \cup {k}
  <2>1. \A q \in Requests : ~Holds(q, k)
    BY <1>3 DEF IInv, Held
  <2>2. \A q \in Requests : q # r => request'[q] = request[q]
    BY <1>2 DEF Moves, IInv, Shape
  <2>3. \A q \in Requests, n \in Tokens : Holds(q, n)' => Holds(q, n)
    BY <1>2, <2>2 DEF Holds
  <2>4. Unused' /\ Fresh' /\ Sold' /\ GivenUp'
    BY <1>1, <1>3, <1>5
    DEF IInv, Unused, Fresh, Sold, GivenUp, Placed, FindTradeByIdempotencyKey
  <2>5. Held' /\ OneHolder'
    <3>1. Held'
      BY <1>1, <1>5, <2>1, <2>3 DEF IInv, Held
    <3>2. OneHolder'
      BY <2>3 DEF IInv, OneHolder
    <3> QED
      BY <3>1, <3>2
  <2>6. ASSUME NEW q \in Requests PROVE RequestSound(q)'
    <3>1. CASE q = r
      BY <3>1, <1>2 DEF Sound
    <3>2. CASE q # r
      <4>1. RequestSound(q) /\ request'[q] = request[q]
        BY <3>2, <2>2 DEF IInv
      <4> QED
        BY <4>1, <1>1 DEF RequestSound, Placed, FindTradeByIdempotencyKey
    <3> QED
      BY <3>1, <3>2
  <2>7. TokensSound'
    BY <2>4, <2>5, <2>6 DEF TokensSound
  <2>8. RowsShaped'
    BY <1>1, <1>2, <1>3, <1>5 DEF RowsShaped, IInv, Shape, Moves
  <2> QED
    BY <1>1, <2>7, <2>8, Parts
<1> QED
  BY <1>4, <1>5 DEF Expired, FoundAfterAll

\* What a request that holds its token knows.
LEMMA Holding ==
  ASSUME IInv, NEW r \in Requests, NEW k \in Tokens, k = request[r].token,
         request[r].pc \in {"place", "recover", "save"}
  PROVE  /\ Holds(r, k) /\ token[k] = "processing" /\ k \notin told
         /\ request[r].pc # "idle"
         /\ trades[k] \in Seq(Quotes) /\ previewed[k] \in Quotes
<1>1. Holds(r, k)
  BY DEF Holds
<1>2. request[r].pc # "idle"
  OBVIOUS
<1> QED
  BY <1>1, <1>2, UnderWay DEF IInv, Held, Shape

\* A request that answers after it has settled its token.
LEMMA Ends ==
  ASSUME IInv, NEW r \in Requests, NEW k \in Tokens, k = request[r].token,
         request[r].pc # "idle", Holds(r, k) \/ token[k] = "pending",
         Answer(r), Rest \/ Fault, NEW t, NEW T, Settles(k, t, T)
  PROVE  IInv'
<1>1. WorldSound' /\ previewed' = previewed
  BY WorldKept
<1>2. Moves(r, Idle) /\ Sound(r)'
  BY <1>1, IdleSound
<1>3. Idle.pc = "idle"
  BY DEF Idle
<1> QED
  BY <1>1, <1>2, <1>3, WithTokenKeeps

\* The transaction writes the previewed quote, for the first time.
LEMMA Inserts ==
  ASSUME IInv, NEW r \in Requests, NEW k \in Tokens, k = request[r].token,
         request[r].pc = "place", SameFingerprint(r), Insert(r),
         UNCHANGED <<token, told>>
  PROVE  /\ Settles(k, "processing", <<previewed[k]>>)
         /\ trades'[k] # <<>>
         /\ request[r].input = previewed[k][2]
<1>1. /\ token[k] = "processing" /\ k \notin told
      /\ trades[k] \in Seq(Quotes) /\ previewed[k] \in Quotes
  BY Holding
<1>2. trades[k] = <<>> /\ trades' = [trades EXCEPT ![k] = Append(@, previewed[k])]
  BY DEF Insert, SameFingerprint, Placed, FindTradeByIdempotencyKey
<1>3. trades' = [trades EXCEPT ![k] = <<previewed[k]>>]
  <2>1. Append(<<>>, previewed[k]) = <<previewed[k]>>
    OBVIOUS
  <2> QED
    BY <1>2, <2>1
<1>4. <<previewed[k]>> \in Seq(Quotes)
  BY <1>1
<1>5. token' = [token EXCEPT ![k] = "processing"]
  BY <1>1 DEF IInv, Shape
<1>6. Settles(k, "processing", <<previewed[k]>>)
  BY <1>1, <1>2, <1>3, <1>4, <1>5 DEF Settles, TokenStates
<1>7. trades'[k] # <<>>
  BY <1>3 DEF IInv, Shape
<1>8. request[r].input = previewed[k][2]
  BY DEF SameFingerprint
<1> QED
  BY <1>6, <1>7, <1>8

\* A request that leaves everything as it is settles nothing new.
LEMMA LeavesToken ==
  ASSUME IInv, NEW k \in Tokens, token[k] = "processing",
         UNCHANGED <<token, trades, told>>, k \notin told
  PROVE  Settles(k, "processing", trades[k])
BY DEF Settles, TokenStates, IInv, Shape

\* Going on to the recovery.
LEMMA ToRecovery ==
  ASSUME IInv, NEW r \in Requests, NEW k \in Tokens, k = request[r].token,
         request[r].pc = "place", Rest \/ Fault,
         UNCHANGED <<token, told>>, NEW T, Settles(k, "processing", T),
         NEW again \in BOOLEAN, again => T = <<>>,
         Goto(r, [request[r] EXCEPT !.pc = "recover", !.again = again])
  PROVE  IInv'
<1> DEFINE l == [request[r] EXCEPT !.pc = "recover", !.again = again]
<1>1. WorldSound' /\ previewed' = previewed
  BY WorldKept
<1>2. /\ Holds(r, k) /\ token[k] = "processing" /\ k \notin told
      /\ previewed[k] \in Quotes
  BY Holding
<1>3. request[r] \in Locals
  BY DEF IInv, Shape
<1>4. l \in Locals /\ l.pc = "recover" /\ l.token = k /\ l.again = again
  BY <1>3 DEF Locals, Steps
<1> HIDE DEF l
<1>5. Moves(r, l) /\ request'[r] = l
  BY <1>1, <1>4 DEF Moves, Goto, IInv, Shape, l
<1>6. trades'[k] = T
  BY DEF Settles, IInv, Shape
<1>7. Sound(r)'
  <2>1. \A n \in Tokens : Holds(r, n)' => token'[n] = "processing" /\ n \notin told'
    BY <1>2, <1>4, <1>5 DEF Holds
  <2>2. previewed'[k] # NoQuote
    BY <1>1, <1>2, TradeCreateAssumption DEF TradeCreateAssumption
  <2>3. RequestSound(r)'
    BY <1>4, <1>5, <1>6, <2>2
    DEF RequestSound, Placed, FindTradeByIdempotencyKey
  <2> QED
    BY <2>1, <2>3 DEF Sound
<1> QED
  BY <1>1, <1>2, <1>4, <1>5, <1>7, WithTokenKeeps

\* An error before the commit, or an answer that got lost.
LEMMA Recovers ==
  ASSUME IInv, NEW r \in Requests, NEW k \in Tokens, k = request[r].token,
         request[r].pc = "place", Rest \/ Fault,
         UNCHANGED <<token, told>>, NEW T, Settles(k, "processing", T),
         Step(r, "recover")
  PROVE  IInv'
<1>1. RequestSound(r) /\ request[r] \in Locals
  BY DEF IInv, Shape
<1>2. request[r].again = FALSE
  BY <1>1 DEF RequestSound, Locals
<1>3. [request[r] EXCEPT !.pc = "recover"]
        = [request[r] EXCEPT !.pc = "recover", !.again = FALSE]
  BY <1>1, <1>2 DEF Locals
<1>4. Goto(r, [request[r] EXCEPT !.pc = "recover", !.again = FALSE])
  BY <1>3 DEF Step
<1> QED
  BY <1>4, ToRecovery

\* The placing transaction.
LEMMA Places ==
  ASSUME IInv, NEW r \in Requests, PlaceTrade(r)
  PROVE  IInv'
<1>1. WorldSound' /\ previewed' = previewed /\ UNCHANGED <<token, told>>
  BY WorldKept DEF PlaceTrade
<1>2. request[r].pc = "place" /\ RequestSound(r) /\ request[r] \in Locals
  BY DEF PlaceTrade, IInv, Shape
<1>3. PICK k \in Tokens : k = request[r].token
  BY <1>2, UnderWay
<1>4. /\ Holds(r, k) /\ token[k] = "processing" /\ k \notin told
      /\ previewed[k] \in Quotes /\ trades[k] \in Seq(Quotes)
  BY <1>2, <1>3, Holding
<1>5. CASE SameFingerprint(r) /\ Insert(r) /\ Step(r, "save")
  <2> DEFINE l == [request[r] EXCEPT !.pc = "save"]
  <2>1. /\ Moves(r, l) /\ request'[r].pc = "save" /\ request'[r].token = k
        /\ request'[r].input = request[r].input /\ ~request'[r].again
    BY <1>1, <1>2, <1>3, <1>5, StepMoves DEF Steps, RequestSound
  <2>2. l.pc = "save" /\ l.token = k
    BY <1>2, <1>3 DEF Locals
  <2> HIDE DEF l
  <2>3. /\ Settles(k, "processing", <<previewed[k]>>) /\ trades'[k] # <<>>
        /\ request[r].input = previewed[k][2]
    BY <1>1, <1>2, <1>3, <1>5, Inserts
  <2>4. Sound(r)'
    <3>1. \A n \in Tokens : Holds(r, n)' => token'[n] = "processing" /\ n \notin told'
      BY <1>1, <1>4, <2>1 DEF Holds
    <3>2. previewed'[k] # NoQuote
      BY <1>1, <1>4, TradeCreateAssumption DEF TradeCreateAssumption
    <3>3. RequestSound(r)'
      BY <1>1, <2>1, <2>3, <3>2 DEF RequestSound, Placed, FindTradeByIdempotencyKey
    <3> QED
      BY <3>1, <3>3 DEF Sound
  <2> QED
    BY <1>1, <1>2, <1>3, <1>4, <2>1, <2>2, <2>3, <2>4, WithTokenKeeps
<1>6. CASE Placed(request[r].token)
  BY <1>2, <1>6 DEF RequestSound
<1>7. CASE /\ Goto(r, [request[r] EXCEPT !.pc = "recover", !.again = CanQuote])
           /\ UNCHANGED trades
  <2>1. Settles(k, "processing", trades[k])
    BY <1>1, <1>4, <1>7, LeavesToken
  <2>2. trades[k] = <<>>
    BY <1>2, <1>3 DEF RequestSound, Placed, FindTradeByIdempotencyKey
  <2>3. CanQuote \in BOOLEAN
    BY DEF CanQuote
  <2> QED
    BY <1>1, <1>2, <1>3, <1>7, <2>1, <2>2, <2>3, ToRecovery DEF PlaceTrade
<1> QED
  BY <1>5, <1>6, <1>7 DEF PlaceTrade

\* A commit that is not answered: the trade may be there, and recovery looks.
LEMMA Unanswered ==
  ASSUME IInv, NEW r \in Requests, CommitUnanswered(r)
  PROVE  IInv'
<1>1. UNCHANGED <<token, told>> /\ request[r].pc = "place" /\ Step(r, "recover")
  BY DEF CommitUnanswered
<1>2. PICK k \in Tokens : k = request[r].token
  BY <1>1, UnderWay
<1>3. CASE SameFingerprint(r) /\ Insert(r)
  <2>1. Settles(k, "processing", <<previewed[k]>>)
    BY <1>1, <1>2, <1>3, Inserts
  <2> QED
    BY <1>1, <1>2, <2>1, Recovers DEF CommitUnanswered
<1>4. CASE UNCHANGED trades
  <2>1. Settles(k, "processing", trades[k])
    BY <1>1, <1>2, <1>4, Holding, LeavesToken
  <2> QED
    BY <1>1, <1>2, <2>1, Recovers DEF CommitUnanswered
<1> QED
  BY <1>3, <1>4 DEF CommitUnanswered

\* The buyer is told to preview again only when the token is free of a trade.
LEMMA Telling ==
  ASSUME IInv, NEW r \in Requests, NEW k \in Tokens, k = request[r].token, Tell(r)
  PROVE  /\ told \subseteq told' /\ told' \subseteq told \cup {k}
         /\ k \in told' => k \in told \/ trades[k] = <<>>
BY DEF Tell, IInv, RequestSound, Placed, FindTradeByIdempotencyKey

\* The token becomes what the lookup found.
LEMMA RecoveryEnds ==
  ASSUME IInv, NEW r \in Requests, request[r].pc = "recover",
         Rest \/ Fault, Answer(r), UNCHANGED trades,
         NEW t \in {"missing", "processing", "trade"},
         SetToken(request[r].token, t),
         told' = told \/ Tell(r)
  PROVE  IInv'
<1>1. PICK k \in Tokens : k = request[r].token
  BY UnderWay
<1>2. /\ Holds(r, k) /\ k \notin told /\ trades[k] \in Seq(Quotes)
  BY <1>1, Holding
<1>3. /\ told \subseteq told' /\ told' \subseteq told \cup {k}
      /\ k \in told' => trades[k] = <<>>
  BY <1>1, <1>2, Telling
<1>4. trades' = [trades EXCEPT ![k] = trades[k]]
  BY DEF IInv, Shape
<1>5. Settles(k, t, trades[k])
  BY <1>1, <1>2, <1>3, <1>4 DEF Settles, TokenStates, SetToken
<1> QED
  BY <1>1, <1>2, <1>5, Ends

\* The recovery ends the request, whether it finds a trade or not.
LEMMA RecoverKeeps ==
  ASSUME IInv, NEW r \in Requests, Recover(r)
  PROVE  IInv'
BY RecoveryEnds DEF Recover, AfterRecovery

\* So does one that cannot look.
LEMMA LookupFailsKeeps ==
  ASSUME IInv, NEW r \in Requests, LookupFails(r)
  PROVE  IInv'
BY RecoveryEnds DEF LookupFails

\* What was placed is what leaves the cart.
LEMMA ToClearing ==
  ASSUME IInv, NEW r \in Requests, NEW k \in Tokens, k = request[r].token,
         request[r].pc = "save", Rest \/ Fault, Step(r, "clear"),
         UNCHANGED <<trades, told>>,
         NEW t \in {"processing", "trade"}, SetToken(k, t)
  PROVE  IInv'
<1> DEFINE l == [request[r] EXCEPT !.pc = "clear"]
<1>1. WorldSound' /\ previewed' = previewed
  BY WorldKept
<1>2. RequestSound(r) /\ request[r] \in Locals
  BY DEF IInv, Shape
<1>3. /\ Holds(r, k) /\ k \notin told
      /\ previewed[k] \in Quotes /\ trades[k] \in Seq(Quotes)
  BY Holding
<1>4. /\ Moves(r, l) /\ request'[r].pc = "clear" /\ request'[r].token = k
      /\ request'[r].input = request[r].input /\ ~request'[r].again
  BY <1>1, <1>2, StepMoves DEF Steps, RequestSound
<1>5. l.pc = "clear" /\ l.token = k
  BY <1>2 DEF Locals
<1> HIDE DEF l
<1>6. trades' = [trades EXCEPT ![k] = trades[k]]
  BY DEF IInv, Shape
<1>7. Settles(k, t, trades[k])
  BY <1>3, <1>6 DEF Settles, TokenStates, SetToken
<1>8. Sound(r)'
  <2>1. \A n \in Tokens : ~Holds(r, n)'
    BY <1>4 DEF Holds
  <2>2. Placed(k) /\ request[r].input = previewed[k][2]
    BY <1>2 DEF RequestSound
  <2>3. previewed'[k] # NoQuote
    BY <1>1, <1>3, TradeCreateAssumption DEF TradeCreateAssumption
  <2>4. RequestSound(r)'
    BY <1>1, <1>4, <2>2, <2>3 DEF RequestSound, Placed, FindTradeByIdempotencyKey
  <2> QED
    BY <2>1, <2>4 DEF Sound
<1> QED
  BY <1>1, <1>3, <1>4, <1>5, <1>7, <1>8, WithTokenKeeps

\* The result is saved under the token, and the cart is next.
LEMMA Saves ==
  ASSUME IInv, NEW r \in Requests, SaveResult(r)
  PROVE  IInv'
<1>1. PICK k \in Tokens : k = request[r].token
  BY UnderWay DEF SaveResult
<1> QED
  BY <1>1, ToClearing DEF SaveResult

\* The bought goods leave the cart.
LEMMA Clears ==
  ASSUME IInv, NEW r \in Requests, ClearCart(r)
  PROVE  IInv'
<1>1. /\ UNCHANGED <<offer, previewed, token, trades, told, adding, faults>>
      /\ Answer(r)
  BY DEF ClearCart
<1>2. cart' \in [SKUs -> 0..MaxQuantity]
  BY TradeCreateAssumption DEF TradeCreateAssumption, ClearCart, IInv, Shape
<1>3. WorldSound'
  BY <1>1, <1>2 DEF IInv, Shape, WorldSound, AdditionSound
<1>4. Moves(r, Idle) /\ Sound(r)' /\ \A k \in Tokens : ~Holds(r, k)'
  BY <1>1, IdleSound
<1> QED
  BY <1>1, <1>3, <1>4, AloneKeeps

\* A token that is set to what it was has not changed.
LEMMA SetSame ==
  ASSUME IInv, NEW k \in Tokens, UNCHANGED token
  PROVE  SetToken(k, token[k])
BY DEF SetToken, IInv, Shape

\* A call of Redis fails, whether it has had its effect or not.
LEMMA RedisFailsKeeps ==
  ASSUME IInv, NEW r \in Requests, RedisFails(r)
  PROVE  IInv'
<1>1. Fault /\ UNCHANGED trades
  BY DEF RedisFails
<1>2. request[r].pc # "idle"
  BY DEF RedisFails
<1>3. PICK k \in Tokens : k = request[r].token
  BY <1>2, UnderWay
<1>4. CASE /\ request[r].pc = "acquire" /\ token[k] = "pending"
           /\ TakeToken(k) /\ Answer(r) /\ UNCHANGED told
  <2>1. k \notin told /\ trades[k] \in Seq(Quotes)
    BY <1>4 DEF IInv, Fresh, Shape
  <2>2. trades' = [trades EXCEPT ![k] = trades[k]]
    BY <1>1 DEF IInv, Shape
  <2>3. Settles(k, "processing", trades[k])
    BY <1>4, <2>1, <2>2 DEF Settles, TokenStates, TakeToken, SetToken
  <2> QED
    BY <1>1, <1>2, <1>3, <1>4, <2>3, Ends
<1>5. CASE request[r].pc = "save" /\ Step(r, "clear") /\ UNCHANGED <<token, told>>
  <2>1. token[k] = "processing"
    BY <1>3, <1>5, Holding
  <2>2. SetToken(k, "processing")
    BY <1>5, <2>1, SetSame
  <2> QED
    BY <1>1, <1>3, <1>5, <2>2, ToClearing
<1>6. CASE /\ request[r].pc = "recover" /\ Answer(r) /\ UNCHANGED token
           /\ told' = told \/ Tell(r)
  <2>1. token[k] = "processing"
    BY <1>3, <1>6, Holding
  <2>2. SetToken(k, "processing")
    BY <1>6, <2>1, SetSame
  <2> QED
    BY <1>1, <1>3, <1>6, <2>2, RecoveryEnds
<1>7. CASE Answer(r) /\ UNCHANGED <<token, told>>
  BY <1>1, <1>7, Answered
<1> QED
  BY <1>3, <1>4, <1>5, <1>6, <1>7 DEF RedisFails, AfterRecovery

\* A request that is gone is as one that was answered.
LEMMA Crashes ==
  ASSUME IInv, NEW r \in Requests, Crash(r)
  PROVE  IInv'
BY Answered DEF Crash

-----------------------------------------------------------------------------
(***************************************************************************)
(* The theorems.                                                           *)
(***************************************************************************)

\* The invariant holds at the start.
LEMMA Starting == Init => IInv
<1> SUFFICES ASSUME Init PROVE IInv
  OBVIOUS
<1>1. Idle \in Locals /\ Idle.pc = "idle" /\ Idle.again = FALSE
  BY DEF Idle, Locals, Steps
<1>2. NoAddition \in [sku : SUBSET SKUs, read : Nat]
  BY DEF NoAddition
<1>3. Shape
  BY <1>1, <1>2, TradeCreateAssumption
  DEF Init, Shape, TokenStates, TradeCreateAssumption
<1>4. \A r \in Requests, k \in Tokens : ~Holds(r, k)
  BY <1>1 DEF Init, Holds
<1>5. \A r \in Requests : RequestSound(r)
  BY <1>1 DEF Init, RequestSound
<1>6. Unused /\ Fresh /\ Sold /\ AdditionSound /\ GivenUp
  BY DEF Init, Unused, Fresh, Sold, AdditionSound, GivenUp
<1> QED
  BY <1>3, <1>4, <1>5, <1>6 DEF IInv, Held, OneHolder

\* It depends on nothing but the variables.
LEMMA Stuttering == IInv /\ UNCHANGED vars => IInv'
<1> SUFFICES ASSUME IInv, UNCHANGED vars PROVE IInv'
  OBVIOUS
<1>1. SameTokens /\ UNCHANGED <<offer, cart, adding, faults>>
  BY DEF vars, redis, SameTokens
<1>2. WorldSound' /\ RowsShaped'
  BY <1>1 DEF IInv, Shape, WorldSound, RowsShaped, AdditionSound, SameTokens
<1> QED
  BY <1>1, <1>2, Untouched, Parts

\* Every step keeps it.
LEMMA Keeping == IInv /\ [Next]_vars => IInv'
<1> SUFFICES ASSUME IInv, [Next]_vars PROVE IInv'
  OBVIOUS
<1>1. ASSUME NEW r \in Requests, Proceed(r) PROVE IInv'
  BY <1>1, Acquires, TellsExpired, Places, RecoverKeeps, Saves, Clears DEF Proceed
<1>2. ASSUME NEW r \in Requests,
             CommitUnanswered(r) \/ RedisFails(r) \/ LookupFails(r) \/ Crash(r)
      PROVE  IInv'
  BY <1>2, Unanswered, RedisFailsKeeps, LookupFailsKeeps, Crashes
<1> QED
  BY <1>1, <1>2, Stuttering, OfferChanges, Previewing, Starts, Expires, CartMoves
  DEF Next

\* However many requests use a token, and whatever fails meanwhile, the
\* invariant above holds: one request at a time is at work with the token.
THEOREM Invariance == Spec => []IInv
BY Starting, Keeping, PTL DEF Spec

\* Keys, rows, requests and the cart have the shape the code gives them, for
\* any number of tokens, requests, SKUs and devices: a token has one trade at
\* most, and the cart never holds more than may be bought.
THEOREM TypeCorrect == Spec => []TypeOK
<1>1. IInv => TypeOK
  <2> SUFFICES ASSUME IInv, NEW k \in Tokens PROVE Len(trades[k]) <= 1
    BY DEF IInv, Shape, TypeOK
  <2>1. trades[k] = <<>> \/ trades[k] = <<previewed[k]>>
    BY DEF IInv, Sold
  <2>2. Len(<<>>) <= 1 /\ Len(<<previewed[k]>>) <= 1
    OBVIOUS
  <2> QED
    BY <2>1, <2>2
<1> QED
  BY <1>1, Invariance, PTL

\* A token buys once and what was previewed, and nobody who was told to preview
\* again has bought with it, whatever is retried, expires or fails meanwhile.
THEOREM BoughtOnce == Spec => []BoughtOnceAsPreviewed
<1>1. IInv => BoughtOnceAsPreviewed
  BY DEF IInv, BoughtOnceAsPreviewed, PreviewAgainIsSafe, SoldAsPreviewed,
         GivenUp, Sold, Placed, FindTradeByIdempotencyKey
<1> QED
  BY <1>1, Invariance, PTL

\* Goods leave the cart by the buyer's own hand or because a trade has them:
\* the request that clears the cart has placed what it takes out.
THEOREM CartKept == Spec => CartKeptUntilBought
<1>1. ASSUME IInv, [Next]_vars, NEW s \in SKUs, cart[s] > 0, cart'[s] = 0
      PROVE  \/ \E k \in Tokens : Placed(k) /\ s \in DOMAIN trades[k][1][2]
             \/ DeleteItems({s}) \/ DeleteItems(SKUs)
  <2>1. cart' # cart
    BY <1>1
  <2>2. cart[s] \in Nat
    BY <1>1, TradeCreateAssumption DEF IInv, Shape, TradeCreateAssumption
  <2>3. CASE CartStep
    <3>1. ASSUME NEW d \in Devices, AddWrite(d) PROVE FALSE
      <4>1. adding[d].read + 1 > 0
        BY <1>1 DEF IInv, Shape
      <4> QED
        BY <1>1, <3>1, <4>1 DEF AddWrite
    <3>2. ASSUME NEW d \in Devices, NEW q \in SKUs, AddStart(d, q) PROVE FALSE
      BY <2>1, <3>2 DEF AddStart
    <3>3. ASSUME NEW q \in SKUs, NEW n \in 1..MaxQuantity, Update(q, n) PROVE FALSE
      <4>1. cart'[s] = IF s = q THEN n ELSE cart[s]
        BY <1>1, <3>3 DEF Update, IInv, Shape
      <4> QED
        BY <1>1, <4>1, TradeCreateAssumption DEF TradeCreateAssumption
    <3>4. ASSUME NEW q \in SKUs, DeleteItems({q}) PROVE DeleteItems({s})
      <4>1. q = s
        BY <1>1, <3>4 DEF DeleteItems
      <4> QED
        BY <3>4, <4>1
    <3> QED
      BY <2>3, <3>1, <3>2, <3>3, <3>4 DEF CartStep
  <2>4. CASE \E r \in Requests : ClearCart(r)
    <3>1. PICK r \in Requests : ClearCart(r)
      BY <2>4
    <3>2. request[r].pc = "clear" /\ s \in DOMAIN request[r].input
      BY <1>1, <3>1 DEF ClearCart
    <3>3. PICK k \in Tokens : k = request[r].token
      BY <1>1, <3>2, UnderWay
    <3>4. Placed(k) /\ request[r].input = previewed[k][2]
      BY <1>1, <3>2, <3>3 DEF IInv, RequestSound
    <3>5. trades[k] = <<previewed[k]>>
      BY <1>1, <3>4 DEF IInv, Sold, Placed, FindTradeByIdempotencyKey
    <3>6. trades[k][1] = previewed[k]
      BY <3>5
    <3> QED
      BY <3>2, <3>4, <3>6
  <2> QED
    BY <1>1, <2>1, <2>3, <2>4
    DEF Next, Proceed, ChangeOffer, Preview, CreateStart, AcquirePreview, Expired,
        PlaceTrade, Recover, SaveResult, Expire, Fault, CommitUnanswered,
        RedisFails, LookupFails, Crash, Rest, redis, vars
<1>2. IInv /\ [Next]_vars =>
        [\A s \in SKUs :
           cart[s] > 0 /\ cart'[s] = 0 =>
             \/ \E k \in Tokens : Placed(k) /\ s \in DOMAIN trades[k][1][2]
             \/ DeleteItems({s}) \/ DeleteItems(SKUs)]_vars
  BY <1>1
<1> QED
  BY <1>2, Invariance, PTL DEF Spec, CartKeptUntilBought

=============================================================================
