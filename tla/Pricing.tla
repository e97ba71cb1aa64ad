------------------------------ MODULE Pricing ------------------------------
(***************************************************************************)
(* What one merchant's part of a trade costs (internal/pricing,            *)
(* trade_quote.go, trade_service.go calculateCommissionAmount): subtotals, *)
(* the goods amount, a coupon's discount, its split over the items and the *)
(* commission. The legacy order quote (order_service.go) does the same for *)
(* its only merchant, and the backfill of old orders (bootstrap/migrate.go)*)
(* repeats the split. A loop over the items is one step per item; what a   *)
(* loop's running sum was after each item is kept, as goodsAmount[k] and   *)
(* remainingDiscount[k]. Amounts are fen and must fit in an int64.         *)
(***************************************************************************)
EXTENDS Integers

CONSTANTS
  MaxInt64,     \* the largest amount
  MaxItems,     \* items of one merchant in a trade
  Prices,
  Quantities,
  Coupons,      \* [threshold, discount]
  NoCoupon,
  BasisPoints,  \* 10000: a rate of BasisPoints takes everything
  Rates         \* commission rates of merchants

ASSUME AmountAssumption ==
  /\ MaxInt64 \in Nat /\ MaxItems \in Nat \ {0}
  /\ Prices \subseteq 0..MaxInt64 /\ Quantities \subseteq 1..MaxInt64

ASSUME CouponAssumption ==
  /\ Coupons \subseteq [threshold : 0..MaxInt64, discount : 1..MaxInt64]
  /\ NoCoupon \notin Coupons

ASSUME RateAssumption ==
  /\ BasisPoints \in Nat \ {0} /\ BasisPoints * BasisPoints <= MaxInt64
  /\ Rates \subseteq 0..BasisPoints

VARIABLES
  count,             \* the number of items
  price,
  quantity,
  coupon,
  rate,
  phase,             \* what is computed next, or how the quote ended
  item,              \* items that the running loop has done
  subtotal,
  goodsAmount,       \* goodsAmount[k]: the sum of the first k subtotals
  lastPositive,      \* the last item that costs something, or 0
  discountAmount,
  remainingDiscount, \* remainingDiscount[k]: what k items have left of it
  itemDiscount,
  commissionAmount

input == <<count, price, quantity, coupon, rate>>
sums == <<subtotal, goodsAmount, lastPositive>>
split == <<discountAmount, remainingDiscount, itemDiscount>>
pricing == <<input, phase, item, sums, split, commissionAmount>>

Items == 1..count
GoodsAmount == goodsAmount[count]
PayableAmount == GoodsAmount - discountAmount

PricingInit ==
  /\ count \in 1..MaxItems
  /\ price \in [1..count -> Prices]
  /\ quantity \in [1..count -> Quantities]
  /\ coupon \in Coupons \cup {NoCoupon}
  /\ rate \in Rates
  /\ phase = "price"
  /\ item = 0
  /\ subtotal = [k \in 1..count |-> 0]
  /\ goodsAmount = [k \in 0..count |-> 0]
  /\ lastPositive = 0
  /\ discountAmount = 0
  /\ remainingDiscount = [k \in 0..count |-> 0]
  /\ itemDiscount = [k \in 1..count |-> 0]
  /\ commissionAmount = 0

SubtotalFits(k) == price[k] > 0 => quantity[k] <= MaxInt64 \div price[k]

\* Every item gets its subtotal, unless one of them is out of range.
CalculateSubtotals ==
  /\ phase = "price"
  /\ \/ /\ \A k \in Items : SubtotalFits(k)
        /\ subtotal' = [k \in Items |-> price[k] * quantity[k]]
        /\ phase' = "sum"
     \/ /\ \E k \in Items : ~SubtotalFits(k)
        /\ phase' = "priceRefused"
        /\ UNCHANGED subtotal
  /\ UNCHANGED <<input, item, goodsAmount, lastPositive, split, commissionAmount>>

\* Mutant: the running sum may leave the range.
AnySum(k) == TRUE

SumFits(k) == subtotal[k] <= MaxInt64 - goodsAmount[k - 1]

\* The next subtotal is added, and is the last positive one so far if it is
\* positive (AllocateOrderItems sums the same numbers again for that).
SumSubtotal ==
  LET k == item + 1 IN
  /\ phase = "sum" /\ item < count
  /\ SumFits(k)
  /\ goodsAmount' = [goodsAmount EXCEPT ![k] = goodsAmount[item] + subtotal[k]]
  /\ lastPositive' = IF subtotal[k] > 0 THEN k ELSE lastPositive
  /\ item' = k
  /\ UNCHANGED <<input, phase, subtotal, split, commissionAmount>>

RefuseSum ==
  /\ phase = "sum" /\ item < count
  /\ ~SumFits(item + 1)
  /\ phase' = "sumRefused"
  /\ UNCHANGED <<input, item, sums, split, commissionAmount>>

Clip(discount) == IF discount > GoodsAmount THEN GoodsAmount ELSE discount

\* There is nothing to split when the goods are free.
BeginSplit(discount) ==
  IF discount > GoodsAmount THEN "splitRefused"
  ELSE IF GoodsAmount = 0 THEN "commission" ELSE "split"

\* All summed: the coupon, if there is one, takes off its discount but not
\* more than the goods cost.
UseCoupon ==
  /\ phase = "sum" /\ item = count
  /\ coupon # NoCoupon => GoodsAmount >= coupon.threshold
  /\ discountAmount' = IF coupon = NoCoupon THEN 0 ELSE Clip(coupon.discount)
  /\ remainingDiscount' = [remainingDiscount EXCEPT ![0] = discountAmount']
  /\ phase' = BeginSplit(discountAmount')
  /\ item' = 0
  /\ UNCHANGED <<input, sums, itemDiscount, commissionAmount>>

RefuseCoupon ==
  /\ phase = "sum" /\ item = count
  /\ coupon # NoCoupon /\ GoodsAmount < coupon.threshold
  /\ phase' = "couponRefused"
  /\ UNCHANGED <<input, item, sums, split, commissionAmount>>

\* Mutant: the share is rounded up.
multiplyDivideCeiling(value, part, total) == (value * part + total - 1) \div total

multiplyDivideFloor(value, part, total) == (value * part) \div total

\* Mutant: the remainder goes to the last item, whatever it costs.
LastItemDiscount(k) ==
  IF k = count THEN remainingDiscount[k - 1]
  ELSE multiplyDivideFloor(discountAmount, subtotal[k], GoodsAmount)

\* The rounded down share of the discount; what is left, for the last one.
ItemDiscount(k) ==
  IF k = lastPositive THEN remainingDiscount[k - 1]
  ELSE multiplyDivideFloor(discountAmount, subtotal[k], GoodsAmount)

ItemDiscountFits(k) ==
  ItemDiscount(k) <= subtotal[k] /\ ItemDiscount(k) <= remainingDiscount[k - 1]

AllocateOrderItem ==
  LET k == item + 1 IN
  /\ phase = "split" /\ item < count
  /\ ItemDiscountFits(k)
  /\ itemDiscount' = [itemDiscount EXCEPT ![k] = ItemDiscount(k)]
  /\ remainingDiscount' =
       [remainingDiscount EXCEPT ![k] = remainingDiscount[item] - ItemDiscount(k)]
  /\ item' = k
  /\ UNCHANGED <<input, phase, sums, discountAmount, commissionAmount>>

\* The split is refused: an item cannot take what it is to get.
RefuseItem ==
  /\ phase = "split" /\ item < count
  /\ ~ItemDiscountFits(item + 1)
  /\ phase' = "splitRefused"
  /\ UNCHANGED <<input, item, sums, split, commissionAmount>>

\* After the last item nothing may be left over.
EndSplit ==
  /\ phase = "split" /\ item = count
  /\ phase' = IF remainingDiscount[count] = 0 THEN "commission" ELSE "incomplete"
  /\ UNCHANGED <<input, item, sums, split, commissionAmount>>

\* The commission of what is paid, the quotient and the remainder apart so
\* that no product gets out of range.
calculateCommissionAmount(payable) ==
  (payable \div BasisPoints) * rate + ((payable % BasisPoints) * rate) \div BasisPoints

CalculateCommission ==
  /\ phase = "commission"
  /\ commissionAmount' = calculateCommissionAmount(PayableAmount)
  /\ phase' = "quoted"
  /\ UNCHANGED <<input, item, sums, split>>

PricingNext ==
  \/ CalculateSubtotals
  \/ SumSubtotal \/ RefuseSum
  \/ UseCoupon \/ RefuseCoupon
  \/ AllocateOrderItem \/ RefuseItem \/ EndSplit
  \/ CalculateCommission

PricingSpec == PricingInit /\ [][PricingNext]_pricing

-----------------------------------------------------------------------------
Phases == {"price", "sum", "split", "commission", "quoted", "priceRefused",
           "sumRefused", "couponRefused", "splitRefused", "incomplete"}

Amounts == 0..MaxInt64

\* Every variable has its type; above all, no amount ever leaves int64, though
\* prices, quantities and discounts may be as large as an int64 is.
PricingTypeOK ==
  /\ count \in 1..MaxItems
  /\ price \in [Items -> Prices] /\ quantity \in [Items -> Quantities]
  /\ coupon \in Coupons \cup {NoCoupon}
  /\ rate \in Rates
  /\ phase \in Phases
  /\ item \in 0..count
  /\ subtotal \in [Items -> Amounts]
  /\ goodsAmount \in [0..count -> Amounts]
  /\ lastPositive \in 0..count
  /\ discountAmount \in Amounts
  /\ remainingDiscount \in [0..count -> Amounts]
  /\ itemDiscount \in [Items -> Amounts]
  /\ commissionAmount \in Amounts

\* By how much item k's part of the discount exceeds its proportional share,
\* times the goods amount.
TooMuch(k) == itemDiscount[k] * GoodsAmount - discountAmount * subtotal[k]

PartOfDiscount(k) ==
  /\ itemDiscount[k] = remainingDiscount[k - 1] - remainingDiscount[k]
  /\ itemDiscount[k] \in 0..subtotal[k]

FairPart(k) ==
  TooMuch(k) \in IF k = lastPositive THEN 0..((k - 1) * (GoodsAmount - 1))
                 ELSE (1 - GoodsAmount)..0

\* A finished quote adds up to the fen. The parts of the discount are what it
\* was reduced by, item after item, down to nothing; none exceeds its item, and
\* each is the item's proportional share, rounded down, to which the last item
\* adds less than a fen for each item before it. The commission is the rounded
\* share of what is paid, found without a product that is out of range, and
\* leaves the merchant the rest.
QuoteAddsUp ==
  phase = "quoted" =>
    /\ remainingDiscount[0] = discountAmount
    /\ \A k \in Items : PartOfDiscount(k) /\ (GoodsAmount > 0 => FairPart(k))
    /\ remainingDiscount[count] = 0
    /\ commissionAmount = (PayableAmount * rate) \div BasisPoints
    /\ commissionAmount <= PayableAmount
    /\ (PayableAmount \div BasisPoints) * rate <= MaxInt64
    /\ (PayableAmount % BasisPoints) * rate <= MaxInt64

\* The split is refused for one reason only: the last item with a price cannot
\* take the fractions of a fen that rounding left over. That takes a third
\* item, and less than a fen for each one before it is too much. So no coupon
\* is refused on one or two items, and a split never ends with a remainder.
RefusedForFractions ==
  /\ phase # "incomplete"
  /\ phase = "splitRefused" =>
       /\ item + 1 = lastPositive /\ lastPositive >= 3
       /\ remainingDiscount[item] - subtotal[lastPositive] \in 1..(lastPositive - 2)

=============================================================================
