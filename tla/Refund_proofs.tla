--------------------------- MODULE Refund_proofs ---------------------------
(***************************************************************************)
(* Proofs about Refund, for any number of orders, items, after-sales and   *)
(* workers, and amounts of any size.                                       *)
(*                                                                         *)
(* Sums are numbers of fen, so that one more refund is one more set of fen *)
(* and no induction over the refunds is needed.                            *)
(***************************************************************************)
EXTENDS Refund, FiniteSetTheorems, TLAPS

Done == WithStatus({"succeeded"})

\* The fen of the rows S when row x has f[x] of them.
Fens(S, f) == {u \in S \X (1..MaxAmount) : u[2] <= f[u[1]]}

-----------------------------------------------------------------------------
(***************************************************************************)
(* Counting fen.                                                           *)
(***************************************************************************)

\* Finitely many rows have finitely many fen.
LEMMA FensFinite ==
  ASSUME NEW S, IsFiniteSet(S), NEW f
  PROVE  IsFiniteSet(Fens(S, f)) /\ Cardinality(Fens(S, f)) \in Nat
<1>1. IsFiniteSet(1..MaxAmount)
  BY FS_Interval, BoundsAssumption, OrdersAssumption
  DEF OrdersAssumption
<1>2. IsFiniteSet(S \X (1..MaxAmount))
  BY <1>1, FS_Product
<1>3. IsFiniteSet(Fens(S, f))
  BY <1>2, FS_Subset DEF Fens
<1> QED
  BY <1>3, FS_CardinalityType

\* The fen of one row.
LEMMA FensOfOne ==
  ASSUME NEW x, NEW n \in 0..MaxAmount
  PROVE  /\ IsFiniteSet({x} \X (1..n))
         /\ Cardinality({x} \X (1..n)) = n
<1>1. IsFiniteSet({x}) /\ Cardinality({x}) = 1
  BY FS_Singleton
<1>2. n \in Nat /\ IsFiniteSet(1..n) /\ Cardinality(1..n) = n
  BY FS_Interval, OrdersAssumption DEF OrdersAssumption
<1>3. /\ IsFiniteSet({x} \X (1..n))
      /\ Cardinality({x} \X (1..n)) = Cardinality({x}) * Cardinality(1..n)
  BY <1>1, <1>2, FS_Product
<1> QED
  BY <1>1, <1>2, <1>3

\* One more row has its own fen.
LEMMA FensAdd ==
  ASSUME NEW S, IsFiniteSet(S), NEW x, x \notin S, NEW f, f[x] \in 0..MaxAmount
  PROVE  Cardinality(Fens(S \cup {x}, f)) = Cardinality(Fens(S, f)) + f[x]
<1> DEFINE own == {x} \X (1..f[x])
<1>1. Fens(S \cup {x}, f) = Fens(S, f) \cup own
  <2>1. ASSUME NEW u \in Fens(S \cup {x}, f) PROVE u \in Fens(S, f) \cup own
    BY OrdersAssumption DEF Fens, OrdersAssumption
  <2>2. ASSUME NEW u \in Fens(S, f) \cup own PROVE u \in Fens(S \cup {x}, f)
    BY OrdersAssumption DEF Fens, OrdersAssumption
  <2> QED
    BY <2>1, <2>2
<1>2. Fens(S, f) \cap own = {}
  BY DEF Fens
<1>3. IsFiniteSet(own) /\ Cardinality(own) = f[x]
  BY FensOfOne
<1>4. IsFiniteSet(Fens(S, f)) /\ Cardinality(Fens(S, f)) \in Nat
  BY FensFinite
<1>5. f[x] \in Nat
  BY OrdersAssumption DEF OrdersAssumption
<1>6. Cardinality(Fens(S, f) \cup own)
        = Cardinality(Fens(S, f)) + Cardinality(own) - Cardinality({})
  BY <1>2, <1>3, <1>4, FS_Union
<1>7. Cardinality({}) = 0
  BY FS_EmptySet
<1>8. Cardinality(Fens(S, f) \cup own) = Cardinality(Fens(S, f)) + f[x]
  <2> DEFINE n == Cardinality(Fens(S, f))
  <2> HIDE DEF n
  <2>1. n \in Nat /\ Cardinality(Fens(S, f) \cup own) = n + f[x] - 0
    BY <1>3, <1>4, <1>6, <1>7 DEF n
  <2>2. Cardinality(Fens(S, f) \cup own) = n + f[x]
    BY <1>5, <2>1
  <2> QED
    BY <2>2 DEF n
<1> QED
  BY <1>1, <1>8

\* The fen depend on the amounts of the rows only.
LEMMA FensSame ==
  ASSUME NEW S, NEW f, NEW g, \A x \in S : f[x] = g[x]
  PROVE  Fens(S, f) = Fens(S, g)
BY DEF Fens

\* No rows, or rows of nothing, have no fen.
LEMMA FensNone ==
  ASSUME NEW S, NEW f, \A x \in S : f[x] = 0
  PROVE  Fens(S, f) = {} /\ Cardinality(Fens(S, f)) = 0
<1>1. Fens(S, f) = {}
  BY OrdersAssumption DEF Fens, OrdersAssumption
<1> QED
  BY <1>1, FS_EmptySet

-----------------------------------------------------------------------------
(***************************************************************************)
(* Rounded shares.                                                         *)
(***************************************************************************)

\* A share rounded down is a number, and grows with what it is a share of.
LEMMA Floor ==
  ASSUME NEW x \in Nat, NEW t \in Nat, t > 0
  PROVE  /\ x \div t \in Nat
         /\ t * (x \div t) <= x
         /\ x < t * (x \div t) + t
BY SMT

\* A smaller factor gives a smaller product.
LEMMA Monotone ==
  ASSUME NEW a \in Nat, NEW b \in Nat, NEW c \in Nat, a <= b
  PROVE  c * a \in Nat /\ c * b \in Nat /\ c * a <= c * b
BY SMT

\* If t times a number is less than t more than t times another, the number is
\* no larger.
LEMMA CancelFactor ==
  ASSUME NEW a \in Nat, NEW b \in Nat, NEW t \in Nat, t > 0, t * a < t * b + t
  PROVE  a <= b
<1> SUFFICES ASSUME a >= b + 1 PROVE FALSE
  OBVIOUS
<1>1. t * (b + 1) <= t * a
  BY Monotone
<1>2. t * (b + 1) = t * b + t
  BY SMT
<1>3. t * a \in Nat /\ t * b \in Nat
  BY SMT
<1> QED
  BY <1>1, <1>2, <1>3

\* The commission of more is no less, and of a part no more than of all.
LEMMA ShareGrows ==
  ASSUME NEW c \in Nat, NEW m \in Nat, NEW n \in Nat, NEW t \in Nat, t > 0,
         m <= n, n <= t
  PROVE  /\ (c * m) \div t \in Nat /\ (c * n) \div t \in Nat
         /\ (c * m) \div t <= (c * n) \div t
         /\ (c * n) \div t <= c
<1> DEFINE x == (c * m) \div t
           y == (c * n) \div t
<1>1. c * m \in Nat /\ c * n \in Nat /\ c * m <= c * n
  BY Monotone
<1>2. x \in Nat /\ t * x <= c * m
  BY <1>1, Floor
<1>3. y \in Nat /\ t * y <= c * n /\ c * n < t * y + t
  BY <1>1, Floor
<1>4. c * n <= t * c /\ t * c \in Nat
  <2>1. c * n <= c * t
    BY Monotone
  <2>2. c * t = t * c /\ t * c \in Nat
    BY SMT
  <2> QED
    BY <2>1, <2>2
<1> HIDE DEF x, y
<1>5. t * x \in Nat /\ t * y \in Nat
  BY <1>2, <1>3, SMT
<1>6. x <= y
  <2>1. t * x < t * y + t
    BY <1>1, <1>2, <1>3, <1>5
  <2> QED
    BY <1>2, <1>3, <2>1, CancelFactor
<1>7. y <= c
  <2>1. t * y < t * c + t
    BY <1>1, <1>3, <1>4, <1>5
  <2> QED
    BY <1>3, <2>1, CancelFactor
<1> QED
  BY <1>2, <1>3, <1>6, <1>7 DEF x, y

-----------------------------------------------------------------------------
(***************************************************************************)
(* The invariant.                                                          *)
(***************************************************************************)

Holding == {"approve", "query", "submit", "finalize", "fail", "unknown"}

\* What is true of a request in progress: an approval's after-sale can still be
\* approved, and what a request is about to book has been paid at Alipay.
Fits(l) ==
  /\ l.pc \in Holding => l.as \in AfterSales
  /\ l.pc = "insert" => l.item \in Items
  /\ l.pc = "approve" =>
       afterSale[l.as].status \in {"pending", "refunding", "refundFailed"}
  /\ l.pc = "finalize" /\ channel = "alipay" => provider[l.as] = "refunded"

Approving(w, a) == worker[w].pc = "approve" /\ worker[w].as = a

\* An after-sale's row lock is held once.
OneApproves ==
  \A v, w \in Workers, a \in AfterSales :
    Approving(v, a) /\ Approving(w, a) => v = w

\* The fen of the payment that have not been given back.
Left ==
  {u \in Orders \X (1..MaxAmount) :
     refundedAmount[u[1]] < u[2] /\ u[2] <= Allocated[u[1]]}

\* What has been given back and what is left are what was paid.
AllAccounted == Total(Done) + Cardinality(Left) = PaymentAmount

\* Commission entries are those of booked refunds, and no larger than amounts.
CommissionSane ==
  \A a \in AfterSales :
    /\ commissionEntry[a] <= MaxAmount
    /\ commissionEntry[a] # 0 => a \in refundEntry

BooksSane ==
  /\ EveryRefundBookedOnce
  /\ CommissionFollowsRefunds
  /\ StatusFollowsRefunds
  /\ AllAccounted
  /\ CommissionSane

IInv ==
  /\ TypeOK
  /\ AfterSaleMatchesRefund
  /\ BooksSane
  /\ \A w \in Workers : Fits(worker[w])
  /\ OneApproves

-----------------------------------------------------------------------------
(***************************************************************************)
(* Totals.                                                                 *)
(***************************************************************************)

\* The amounts of after-sales, by their rows.
AmountsOf(rws) == [a \in AfterSales |-> ItemPayable[rws[a].item]]

\* Totals are counted in fen of the rows, before a step and after it.
LEMMA TotalIsFens ==
  ASSUME NEW as \in SUBSET AfterSales
  PROVE  /\ Fen(as) = Fens(as, AmountsOf(afterSale))
         /\ Fen(as)' = Fens(as, AmountsOf(afterSale'))
BY DEF Fen, Fens, AmountsOf, RefundAmount

\* There are finitely many after-sales.
LEMMA AfterSalesFinite ==
  ASSUME NEW as \in SUBSET AfterSales
  PROVE  IsFiniteSet(as)
<1>1. IsFiniteSet(AfterSales)
  BY FS_Interval, BoundsAssumption DEF AfterSales, BoundsAssumption
<1> QED
  BY <1>1, FS_Subset

\* A total is a number.
LEMMA TotalTyped ==
  ASSUME NEW as \in SUBSET AfterSales
  PROVE  Total(as) \in Nat
<1>1. Cardinality(Fens(as, AmountsOf(afterSale))) \in Nat
  BY AfterSalesFinite, FensFinite
<1> QED
  BY <1>1, TotalIsFens DEF Total

\* What an after-sale that exists refunds.
LEMMA AmountTyped ==
  ASSUME TypeOK, NEW a \in AfterSales, Exists(a)
  PROVE  /\ RefundAmount(a) \in 0..MaxAmount
         /\ OrderOfAfterSale(a) \in Orders
         /\ RefundAmount(a) <= Allocated[OrderOfAfterSale(a)]
BY OrdersAssumption, ItemsAssumption
DEF OrdersAssumption, ItemsAssumption, TypeOK, RefundAmount, OrderOfAfterSale

\* A refund that is under way has an after-sale.
LEMMA RefundOfOne ==
  ASSUME TypeOK, AfterSaleMatchesRefund, NEW a \in AfterSales, refund[a] # "none"
  PROVE  Exists(a)
BY DEF AfterSaleMatchesRefund, RefundStatesOf, Exists

\* The payment is at least what the bounds of its order say.
LEMMA AllocatedTyped ==
  ASSUME NEW o \in Orders
  PROVE  /\ Allocated[o] \in Nat /\ Allocated[o] > 0 /\ Allocated[o] <= MaxAmount
         /\ Commission[o] \in Nat /\ Commission[o] <= MaxAmount
         /\ Commission[o] <= Allocated[o]
         /\ MaxAmount \in Nat
BY OrdersAssumption DEF OrdersAssumption

\* What is left of a payment is finite.
LEMMA LeftFinite ==
  /\ IsFiniteSet(Left) /\ Cardinality(Left) \in Nat
  /\ IsFiniteSet(Left)' /\ Cardinality(Left)' \in Nat
<1>0. IsFiniteSet(1..MaxAmount) /\ IsFiniteSet(Orders)
  BY FS_Interval, OrdersAssumption DEF OrdersAssumption
<1>1. IsFiniteSet(Orders \X (1..MaxAmount))
  BY <1>0, FS_Product
<1>2. IsFiniteSet(Left) /\ IsFiniteSet(Left')
  BY <1>1, FS_Subset DEF Left
<1> QED
  BY <1>2, FS_CardinalityType

-----------------------------------------------------------------------------
(***************************************************************************)
(* Steps that book nothing.                                                *)
(***************************************************************************)

Unbooked ==
  /\ UNCHANGED <<books, channel>>
  /\ Done' = Done
  /\ \A a \in AfterSales :
       /\ Exists(a) => Exists(a)' /\ afterSale'[a].item = afterSale[a].item
       /\ provider[a] = "refunded" => provider'[a] = "refunded"

\* They leave the books as they are.
LEMMA UnbookedKeeps ==
  ASSUME TypeOK, AfterSaleMatchesRefund, BooksSane, Unbooked
  PROVE  BooksSane'
<1>1. Done \in SUBSET AfterSales /\ Done' = Done
  BY DEF Unbooked, Done, WithStatus
<1>2. \A a \in Done : /\ Exists(a) /\ Exists(a)'
                      /\ afterSale'[a].item = afterSale[a].item
                      /\ OrderOfAfterSale(a)' = OrderOfAfterSale(a)
  BY <1>1, RefundOfOne DEF Unbooked, Done, WithStatus, OrderOfAfterSale
<1>3. \A as \in SUBSET Done : Fen(as)' = Fen(as)
  <2> TAKE as \in SUBSET Done
  <2>1. as \in SUBSET AfterSales
    BY <1>1
  <2>2. \A a \in as : AmountsOf(afterSale')[a] = AmountsOf(afterSale)[a]
    BY <1>1, <1>2 DEF AmountsOf
  <2>3. Fens(as, AmountsOf(afterSale')) = Fens(as, AmountsOf(afterSale))
    BY <2>2, FensSame
  <2> QED
    BY <2>1, <2>3, TotalIsFens
<1>4. \A o \in Orders : Succeeded(o)' = Succeeded(o) /\ Succeeded(o) \subseteq Done
  BY <1>1, <1>2 DEF Succeeded, OfOrder, Done
<1>5. Total(Done)' = Total(Done) /\ \A o \in Orders : Total(Succeeded(o))' = Total(Succeeded(o))
  <2>1. Fen(Done)' = Fen(Done)
    BY <1>1, <1>3 DEF Fen
  <2>2. \A o \in Orders : Fen(Succeeded(o))' = Fen(Succeeded(o))
    BY <1>3, <1>4 DEF Fen
  <2> QED
    BY <2>1, <2>2 DEF Total
<1>6. refundEntry = Done
  BY DEF BooksSane, EveryRefundBookedOnce, Done
<1>7. EveryRefundBookedOnce'
  BY <1>1, <1>5, <1>6 DEF BooksSane, EveryRefundBookedOnce, Unbooked, books, Done
<1>8. CommissionFollowsRefunds'
  <2>1. \A o \in Orders : OfOrder(o, refundEntry)' = OfOrder(o, refundEntry)
    BY <1>2, <1>6 DEF OfOrder, Unbooked, books
  <2> QED
    BY <2>1 DEF BooksSane, CommissionFollowsRefunds, CommissionReturned, Unbooked, books
<1>9. StatusFollowsRefunds'
  BY <1>1, <1>5 DEF BooksSane, StatusFollowsRefunds, Unbooked, books, Done, PaymentAmount
<1>10. AllAccounted' /\ CommissionSane'
  BY <1>5 DEF BooksSane, AllAccounted, CommissionSane, Left, Unbooked, books, PaymentAmount
<1> QED
  BY <1>7, <1>8, <1>9, <1>10 DEF BooksSane

-----------------------------------------------------------------------------
(***************************************************************************)
(* The step that books a refund.                                           *)
(***************************************************************************)

Booked(a) ==
  /\ refund[a] \in OpenRefunds
  /\ channel = "alipay" => provider[a] = "refunded"
  /\ FitsAllocation(a)
  /\ Book(a)
  /\ afterSale' = UpdateStatus(a, "refunded")
  /\ UpdateRefundStatus(RefundStatus(Done \cup {a}))
  /\ UNCHANGED <<channel, provider>>

\* One more refund has succeeded, and no row has another item.
LEMMA BookedRows ==
  ASSUME TypeOK, AfterSaleMatchesRefund, NEW a \in AfterSales, Booked(a)
  PROVE  /\ Exists(a) /\ a \notin Done
         /\ Done' = Done \cup {a}
         /\ AmountsOf(afterSale') = AmountsOf(afterSale)
         /\ AmountsOf(afterSale)[a] = RefundAmount(a)
         /\ \A o \in Orders :
              /\ Succeeded(o) \in SUBSET Done
              /\ Succeeded(o)' = IF o = OrderOfAfterSale(a)
                                   THEN Succeeded(o) \cup {a} ELSE Succeeded(o)
              /\ OfOrder(o, Done)' = Succeeded(o)'
<1>1. Exists(a)
  BY RefundOfOne DEF Booked, OpenRefunds
<1>2. refund' = [refund EXCEPT ![a] = "succeeded"]
  BY DEF Booked, Book, MarkRefund, TypeOK
<1>3. a \notin Done /\ Done' = Done \cup {a}
  BY <1>2 DEF Booked, Done, WithStatus, TypeOK, OpenRefunds
<1>4. \A b \in AfterSales :
        /\ afterSale'[b].item = afterSale[b].item
        /\ Exists(b)' <=> Exists(b)
  BY <1>1 DEF Booked, UpdateStatus, TypeOK, Exists
<1>5. AmountsOf(afterSale') = AmountsOf(afterSale)
  BY <1>4 DEF AmountsOf
<1>6. \A o \in Orders :
        /\ Succeeded(o) \in SUBSET Done
        /\ Succeeded(o)' = IF o = OrderOfAfterSale(a)
                             THEN Succeeded(o) \cup {a} ELSE Succeeded(o)
        /\ OfOrder(o, Done)' = Succeeded(o)'
  BY <1>1, <1>3, <1>4 DEF Succeeded, OfOrder, OrderOfAfterSale, Done, WithStatus
<1> QED
  BY <1>1, <1>3, <1>5, <1>6 DEF AmountsOf, RefundAmount

\* The totals grow by its amount.
LEMMA BookedTotals ==
  ASSUME TypeOK, AfterSaleMatchesRefund, NEW a \in AfterSales, Booked(a)
  PROVE  /\ Total(Done)' = Total(Done) + RefundAmount(a)
         /\ Total(Done \cup {a}) = Total(Done) + RefundAmount(a)
         /\ \A o \in Orders :
              Total(Succeeded(o))' =
                IF o = OrderOfAfterSale(a)
                  THEN Total(Succeeded(o)) + RefundAmount(a)
                  ELSE Total(Succeeded(o))
<1> DEFINE f == AmountsOf(afterSale)
<1>1. /\ Exists(a) /\ a \notin Done /\ Done \in SUBSET AfterSales
      /\ f[a] = RefundAmount(a) /\ f[a] \in 0..MaxAmount
      /\ AmountsOf(afterSale') = f
  BY BookedRows, AmountTyped DEF Done, WithStatus
<1>2. ASSUME NEW as \in SUBSET Done
      PROVE  /\ Cardinality(Fens(as \cup {a}, f)) = Total(as) + RefundAmount(a)
             /\ Cardinality(Fens(as, f)) = Total(as)
  <2>1. as \in SUBSET AfterSales /\ IsFiniteSet(as) /\ a \notin as
    BY <1>1, AfterSalesFinite
  <2>2. Cardinality(Fens(as, f)) = Total(as)
    BY <2>1, TotalIsFens DEF Total
  <2> HIDE DEF f
  <2> QED
    BY <1>1, <2>1, <2>2, FensAdd
<1>3. Total(Done)' = Total(Done) + RefundAmount(a)
  <2>1. Done' \in SUBSET AfterSales /\ Done' = Done \cup {a}
    BY <1>1, BookedRows
  <2>2. Fen(Done)' = Fens(Done', f)
    BY <1>1, <2>1, TotalIsFens DEF Fen
  <2> QED
    BY <1>2, <2>1, <2>2 DEF Total
<1>4. Total(Done \cup {a}) = Total(Done) + RefundAmount(a)
  <2>1. Fen(Done \cup {a}) = Fens(Done \cup {a}, f)
    BY <1>1, TotalIsFens
  <2> QED
    BY <1>2, <2>1 DEF Total
<1>5. ASSUME NEW o \in Orders
      PROVE  Total(Succeeded(o))' =
               IF o = OrderOfAfterSale(a)
                 THEN Total(Succeeded(o)) + RefundAmount(a)
                 ELSE Total(Succeeded(o))
  <2>1. /\ Succeeded(o) \in SUBSET Done
        /\ Succeeded(o)' = IF o = OrderOfAfterSale(a)
                             THEN Succeeded(o) \cup {a} ELSE Succeeded(o)
    BY BookedRows
  <2>2. Fen(Succeeded(o))' = Fens(Succeeded(o)', f)
    <3>1. Succeeded(o)' \in SUBSET AfterSales
      BY <1>1, <2>1
    <3> QED
      BY <1>1, <3>1, TotalIsFens DEF Fen
  <2>3. Total(Succeeded(o))' = Cardinality(Fens(Succeeded(o)', f))
    BY <2>2 DEF Total
  <2> HIDE DEF f
  <2> QED
    BY <1>2, <2>1, <2>3
<1> QED
  BY <1>3, <1>4, <1>5

\* What is left of the payment shrinks by its amount.
LEMMA BookedLeft ==
  ASSUME TypeOK, AfterSaleMatchesRefund, NEW a \in AfterSales, Booked(a)
  PROVE  Cardinality(Left) = Cardinality(Left') + RefundAmount(a)
<1> DEFINE o == OrderOfAfterSale(a)
           n == RefundAmount(a)
           r == refundedAmount[o]
           given == {o} \X ((r + 1)..(r + n))
<1>1. o \in Orders /\ n \in 0..MaxAmount /\ r \in 0..MaxAmount /\ MaxAmount \in Nat
  BY BookedRows, AmountTyped, OrdersAssumption DEF TypeOK, OrdersAssumption
<1>2. r + n <= Allocated[o] /\ Allocated[o] <= MaxAmount /\ Allocated[o] \in Nat
  BY <1>1, AllocatedTyped
  DEF Booked, FitsAllocation, FindPaidPaymentAllocationByOrderID
<1>3. /\ refundedAmount'[o] = r + n
      /\ \A p \in Orders \ {o} : refundedAmount'[p] = refundedAmount[p]
      /\ refundedAmount \in [Orders -> 0..MaxAmount]
  BY <1>1 DEF Booked, Book, IncreaseAllocationRefundedAmount, TypeOK
<1> HIDE DEF o, n, r
<1>4. \A p \in Orders : Allocated[p] \in Nat /\ refundedAmount[p] \in Nat
  BY <1>1, <1>3, AllocatedTyped
<1>5. Left = Left' \cup given
  <2>1. ASSUME NEW p \in Orders, NEW k \in 1..MaxAmount
        PROVE  /\ <<p, k>> \in Left <=> refundedAmount[p] < k /\ k <= Allocated[p]
               /\ <<p, k>> \in Left' <=> refundedAmount'[p] < k /\ k <= Allocated[p]
               /\ <<p, k>> \in given <=> p = o /\ r + 1 <= k /\ k <= r + n
    BY <1>1 DEF Left
  <2>2. ASSUME NEW p \in Orders, NEW k \in 1..MaxAmount
        PROVE  <<p, k>> \in Left <=> <<p, k>> \in Left' \cup given
    <3>1. CASE p = o
      <4>1. refundedAmount[p] = r /\ refundedAmount'[p] = r + n
        BY <1>3, <3>1 DEF r
      <4>2. r < k /\ k <= Allocated[p] <=>
              \/ r + n < k /\ k <= Allocated[p]
              \/ r + 1 <= k /\ k <= r + n
        BY <1>1, <1>2, <3>1
      <4> QED
        BY <2>1, <3>1, <4>1, <4>2
    <3>2. CASE p # o
      BY <1>3, <2>1, <3>2
    <3> QED
      BY <3>1, <3>2
  <2>3. /\ Left \subseteq Orders \X (1..MaxAmount)
        /\ Left' \subseteq Orders \X (1..MaxAmount)
        /\ given \subseteq Orders \X (1..MaxAmount)
    <3>1. (r + 1)..(r + n) \subseteq 1..MaxAmount
      BY <1>1, <1>2
    <3> QED
      BY <1>1, <3>1 DEF Left
  <2> HIDE DEF given
  <2> QED
    BY <2>2, <2>3
<1>6. Left' \cap given = {}
  BY <1>1, <1>3 DEF Left
<1>7. IsFiniteSet(given) /\ Cardinality(given) = n
  <2>1. IsFiniteSet({o}) /\ Cardinality({o}) = 1
    BY FS_Singleton
  <2>2. r + 1 \in Int /\ r + n \in Int /\ n \in Nat
    BY <1>1
  <2>3. /\ IsFiniteSet((r + 1)..(r + n))
        /\ Cardinality((r + 1)..(r + n)) =
             IF r + 1 > r + n THEN 0 ELSE (r + n) - (r + 1) + 1
    BY <2>2, FS_Interval
  <2>4. IsFiniteSet((r + 1)..(r + n)) /\ Cardinality((r + 1)..(r + n)) = n
    BY <1>1, <2>2, <2>3
  <2>5. /\ IsFiniteSet(given)
        /\ Cardinality(given) = Cardinality({o}) * Cardinality((r + 1)..(r + n))
    BY <2>1, <2>4, FS_Product
  <2> QED
    BY <2>1, <2>2, <2>4, <2>5
<1>8. IsFiniteSet(Left') /\ Cardinality(Left') \in Nat
  BY LeftFinite
<1> HIDE DEF given
<1>9. Cardinality(Left' \cup given)
        = Cardinality(Left') + Cardinality(given) - Cardinality({})
  BY <1>6, <1>7, <1>8, FS_Union
<1>10. Cardinality({}) = 0
  BY FS_EmptySet
<1>11. Cardinality(Left' \cup given) = Cardinality(Left') + n
  <2> DEFINE k == Cardinality(Left')
  <2> HIDE DEF k
  <2>1. k \in Nat /\ Cardinality(Left' \cup given) = k + n - 0
    BY <1>7, <1>8, <1>9, <1>10 DEF k
  <2>2. Cardinality(Left' \cup given) = k + n
    BY <1>1, <2>1
  <2> QED
    BY <2>2 DEF k
<1> QED
  BY <1>5, <1>11 DEF n

\* The commission given back grows by the difference of the rounded shares.
LEMMA BookedCommission ==
  ASSUME TypeOK, AfterSaleMatchesRefund, BooksSane,
         NEW a \in AfterSales, Booked(a)
  PROVE  /\ CommissionFollowsRefunds'
         /\ CommissionSane'
         /\ commissionEntry' \in [AfterSales -> Nat]
         /\ refundEntry' = Done'
<1> DEFINE o == OrderOfAfterSale(a)
           n == RefundAmount(a)
           r == refundedAmount[o]
           before == (Commission[o] * r) \div Allocated[o]
           after == (Commission[o] * (r + n)) \div Allocated[o]
<1>1. /\ o \in Orders /\ n \in Nat /\ r \in Nat
      /\ r + n <= Allocated[o] /\ Allocated[o] \in Nat /\ Allocated[o] > 0
      /\ Commission[o] \in Nat /\ Commission[o] <= MaxAmount /\ MaxAmount \in Nat
  BY BookedRows, AmountTyped, AllocatedTyped, OrdersAssumption
  DEF Booked, FitsAllocation, FindPaidPaymentAllocationByOrderID, TypeOK,
      OrdersAssumption
<1>2. before \in Nat /\ after \in Nat /\ before <= after /\ after <= Commission[o]
  <2>1. r <= r + n /\ r + n \in Nat
    BY <1>1
  <2> HIDE DEF o, n, r
  <2> QED
    BY <1>1, <2>1, ShareGrows
<1>3. refundEntry = Done /\ a \notin refundEntry /\ commissionEntry[a] = 0
  BY BookedRows DEF BooksSane, EveryRefundBookedOnce, CommissionSane, Done
<1>4. /\ commissionEntry'[a] = after - before
      /\ \A b \in AfterSales \ {a} : commissionEntry'[b] = commissionEntry[b]
      /\ commissionEntry' =
           [commissionEntry EXCEPT ![a] = after - before]
      /\ refundEntry' = refundEntry \cup {a}
  BY <1>3 DEF Booked, Book, CreateSettlementEntries, CommissionRefund,
    proportionalRefundCommission, TypeOK
<1>5. /\ refundedAmount'[o] = r + n
      /\ \A p \in Orders \ {o} : refundedAmount'[p] = refundedAmount[p]
  BY <1>1 DEF Booked, Book, IncreaseAllocationRefundedAmount, TypeOK
<1>6. refundEntry' = Done'
  BY <1>3, <1>4, BookedRows
<1>7. after - before \in Nat /\ after - before <= MaxAmount
  <2> HIDE DEF before, after
  <2> QED
    BY <1>1, <1>2
<1>8. commissionEntry' \in [AfterSales -> Nat]
  <2> HIDE DEF before, after
  <2> QED
    BY <1>4, <1>7 DEF TypeOK
<1>9. CommissionSane'
  <2> HIDE DEF before, after
  <2> QED
    BY <1>4, <1>7 DEF BooksSane, CommissionSane
<1>10. ASSUME NEW p \in Orders
       PROVE  /\ CommissionReturned(p) = Fens(Succeeded(p), commissionEntry)
              /\ CommissionReturned(p)' = Fens(Succeeded(p)', commissionEntry')
              /\ Fens(Succeeded(p), commissionEntry')
                   = Fens(Succeeded(p), commissionEntry)
  <2>1. Succeeded(p) = OfOrder(p, Done) /\ OfOrder(p, Done)' = Succeeded(p)'
    BY BookedRows DEF Succeeded, Done
  <2>2. CommissionReturned(p) = Fens(Succeeded(p), commissionEntry)
    BY <1>3, <2>1 DEF CommissionReturned, Fens
  <2>3. CommissionReturned(p)' = Fens(Succeeded(p)', commissionEntry')
    <3>1. OfOrder(p, refundEntry)' = Succeeded(p)'
      BY <1>6, <2>1 DEF OfOrder
    <3> QED
      BY <3>1 DEF CommissionReturned, Fens
  <2>4. \A b \in Succeeded(p) : commissionEntry'[b] = commissionEntry[b]
    <3>1. Succeeded(p) \subseteq AfterSales \ {a}
      BY BookedRows DEF Done, WithStatus
    <3> QED
      BY <1>4, <3>1
  <2> QED
    BY <2>2, <2>3, <2>4, FensSame
<1>11. ASSUME NEW p \in Orders
       PROVE  Cardinality(CommissionReturned(p))'
                = (Commission[p] * refundedAmount'[p]) \div Allocated[p]
  <2>1. Cardinality(Fens(Succeeded(p), commissionEntry'))
          = (Commission[p] * refundedAmount[p]) \div Allocated[p]
    BY <1>10 DEF BooksSane, CommissionFollowsRefunds
  <2>2. CASE p = o
    <3>1. /\ Succeeded(p)' = Succeeded(p) \cup {a} /\ a \notin Succeeded(p)
          /\ IsFiniteSet(Succeeded(p))
      BY <2>2, BookedRows, AfterSalesFinite DEF Done, WithStatus
    <3>2. commissionEntry'[a] \in 0..MaxAmount
      BY <1>1, <1>4, <1>7
    <3>3. Cardinality(Fens(Succeeded(p) \cup {a}, commissionEntry'))
            = Cardinality(Fens(Succeeded(p), commissionEntry'))
                + commissionEntry'[a]
      BY <3>1, <3>2, FensAdd
    <3>4. Cardinality(Fens(Succeeded(p) \cup {a}, commissionEntry'))
            = before + (after - before)
      BY <1>4, <2>1, <2>2, <3>3
    <3>5. before + (after - before) = after
      <4> HIDE DEF before, after
      <4> QED
        BY <1>2
    <3> QED
      BY <1>5, <1>10, <2>2, <3>1, <3>4, <3>5
  <2>3. CASE p # o
    BY <1>5, <1>10, <2>1, <2>3, BookedRows
  <2> QED
    BY <2>2, <2>3
<1>12. CommissionFollowsRefunds'
  BY <1>11 DEF CommissionFollowsRefunds
<1> QED
  BY <1>6, <1>8, <1>9, <1>12

\* All books agree on the refund when it is booked.
LEMMA BookedKeeps ==
  ASSUME TypeOK, AfterSaleMatchesRefund, BooksSane,
         NEW a \in AfterSales, Booked(a)
  PROVE  BooksSane'
<1> DEFINE o == OrderOfAfterSale(a)
           n == RefundAmount(a)
<1>1. /\ o \in Orders /\ n \in Nat /\ refundedAmount[o] \in Nat
      /\ refundedAmount[o] + n <= Allocated[o]
      /\ Done \in SUBSET AfterSales
  BY BookedRows, AmountTyped, OrdersAssumption
  DEF Booked, FitsAllocation, FindPaidPaymentAllocationByOrderID, TypeOK,
      OrdersAssumption, Done, WithStatus
<1>2. /\ refundedAmount'[o] = refundedAmount[o] + n
      /\ \A p \in Orders \ {o} : refundedAmount'[p] = refundedAmount[p]
  BY <1>1 DEF Booked, Book, IncreaseAllocationRefundedAmount, TypeOK
<1>3. EveryRefundBookedOnce'
  <2>1. refundEntry' = WithStatus({"succeeded"})'
    BY BookedCommission DEF Done
  <2>2. (channel = "alipay" => \A b \in refundEntry : provider[b] = "refunded")'
    <3>1. refundEntry' = refundEntry \cup {a}
      BY DEF Booked, Book, CreateSettlementEntries
    <3> QED
      BY <3>1 DEF BooksSane, EveryRefundBookedOnce, Booked
  <2>3. ASSUME NEW p \in Orders
        PROVE  /\ refundedAmount'[p] = Total(Succeeded(p))'
               /\ refundedAmount'[p] <= Allocated[p]
    <3>1. refundedAmount[p] = Total(Succeeded(p)) /\ refundedAmount[p] <= Allocated[p]
      BY DEF BooksSane, EveryRefundBookedOnce
    <3> QED
      BY <1>1, <1>2, <3>1, BookedTotals
  <2> QED
    BY <2>1, <2>2, <2>3 DEF EveryRefundBookedOnce
<1>4. /\ Total(Done)' = Total(Done) + n
      /\ Total(Done) \in Nat
      /\ Cardinality(Left) = Cardinality(Left') + n
      /\ Cardinality(Left) \in Nat /\ Cardinality(Left') \in Nat
      /\ Total(Done) + Cardinality(Left) = PaymentAmount
  BY <1>1, BookedTotals, BookedLeft, LeftFinite, TotalTyped
  DEF BooksSane, AllAccounted
<1>5. AllAccounted'
  <2>1. Total(Done)' + Cardinality(Left') = PaymentAmount
    BY <1>1, <1>4
  <2> QED
    BY <2>1 DEF AllAccounted, PaymentAmount
<1>6. StatusFollowsRefunds'
  <2>1. Total(Done)' <= PaymentAmount /\ PaymentAmount \in Nat /\ Total(Done)' \in Nat
    BY <1>1, <1>4
  <2>2. /\ tradeStatus' = paymentStatus'
        /\ paymentStatus' = IF Total(Done)' >= PaymentAmount THEN "refunded"
                            ELSE "partiallyRefunded"
    BY <1>4, BookedTotals DEF Booked, UpdateRefundStatus, RefundStatus
  <2>3. Done' # {}
    BY BookedRows
  <2>4. paymentStatus' = IF Total(Done)' = PaymentAmount THEN "refunded"
                         ELSE "partiallyRefunded"
    BY <2>1, <2>2
  <2> QED
    BY <2>2, <2>3, <2>4 DEF StatusFollowsRefunds, Done, PaymentAmount
<1> QED
  BY <1>3, <1>5, <1>6, BookedCommission DEF BooksSane

-----------------------------------------------------------------------------
(***************************************************************************)
(* Requests in progress.                                                   *)
(***************************************************************************)

\* Whoever moves on, the others' requests still fit the rows.
LEMMA WorkersKeep ==
  ASSUME IInv, NEW w \in Workers, NEW l \in Locals,
         worker' = [worker EXCEPT ![w] = l], channel' = channel,
         \A a \in AfterSales : provider[a] = "refunded" => provider'[a] = "refunded",
         \A a \in AfterSales, v \in Workers \ {w} :
           Approving(v, a) => afterSale'[a].status = afterSale[a].status,
         Fits(l)',
         l.pc = "approve" => ~Locked(l.as)
  PROVE  /\ (\A v \in Workers : Fits(worker[v]))'
         /\ OneApproves'
         /\ worker' \in [Workers -> Locals]
<1>1. /\ worker' \in [Workers -> Locals] /\ worker'[w] = l
      /\ \A v \in Workers \ {w} : worker'[v] = worker[v]
  BY DEF IInv, TypeOK
<1>2. ASSUME NEW v \in Workers PROVE Fits(worker[v])'
  <2>1. CASE v = w
    BY <1>1, <2>1 DEF Fits
  <2>2. CASE v # w
    <3>1. Fits(worker[v]) /\ worker'[v] = worker[v]
      BY <1>1, <2>2 DEF IInv
    <3>2. worker[v].pc = "approve" =>
            afterSale'[worker[v].as].status = afterSale[worker[v].as].status
      BY <2>2, <3>1 DEF Fits, Approving, Holding
    <3> QED
      BY <3>1, <3>2 DEF Fits, Holding
  <2> QED
    BY <2>1, <2>2
<1>3. OneApproves'
  <2> SUFFICES ASSUME NEW u \in Workers, NEW v \in Workers, NEW a \in AfterSales,
                      worker'[u].pc = "approve" /\ worker'[u].as = a,
                      worker'[v].pc = "approve" /\ worker'[v].as = a,
                      u # v
               PROVE  FALSE
    BY DEF OneApproves, Approving
  <2>1. CASE u = w
    BY <1>1, <2>1 DEF Locked
  <2>2. CASE v = w
    BY <1>1, <2>2 DEF Locked
  <2>3. CASE u # w /\ v # w
    BY <1>1, <2>3 DEF IInv, OneApproves, Approving
  <2> QED
    BY <2>1, <2>2, <2>3
<1> QED
  BY <1>1, <1>2, <1>3

\* A request that is over, or goes on to the next refund, fits any rows.
LEMMA Returned ==
  ASSUME TypeOK, NEW w \in Workers
  PROVE  /\ Idle \in Locals /\ Idle.pc = "idle"
         /\ Return(w) \in Locals /\ Return(w).pc \in {"idle", "next"}
         /\ \A l \in Locals : l.pc \in {"idle", "next"} => Fits(l)'
<1>1. Idle \in Locals /\ Idle.pc = "idle"
  BY DEF Idle, Locals, Steps
<1>2. worker[w].todo \in SUBSET AfterSales
  BY DEF TypeOK, Locals
<1>3. Return(w) \in Locals /\ Return(w).pc \in {"idle", "next"}
  BY <1>1, <1>2 DEF Return, Idle, Locals, Steps
<1>4. ASSUME NEW l \in Locals, l.pc \in {"idle", "next"} PROVE Fits(l)'
  BY <1>4 DEF Fits, Holding
<1> QED
  BY <1>1, <1>3, <1>4

-----------------------------------------------------------------------------
(***************************************************************************)
(* Steps that write no row.                                                *)
(***************************************************************************)

Reading(w, l) ==
  /\ UNCHANGED <<rows, channel>>
  /\ worker' = [worker EXCEPT ![w] = l]
  /\ provider' \in [AfterSales -> ProviderStates]
  /\ \A a \in AfterSales : provider[a] = "refunded" => provider'[a] = "refunded"
  /\ faults' \in 0..MaxFaults
  /\ Fits(l)'
  /\ l.pc = "approve" => ~Locked(l.as)

\* They keep the invariant.
LEMMA ReadingKeeps ==
  ASSUME IInv, NEW w \in Workers, NEW l \in Locals, Reading(w, l)
  PROVE  IInv'
<1>1. UNCHANGED <<afterSale, refund, books, channel>>
  BY DEF Reading, rows
<1>2. /\ (\A v \in Workers : Fits(worker[v]))' /\ OneApproves'
      /\ worker' \in [Workers -> Locals]
  BY <1>1, WorkersKeep DEF Reading
<1>3. TypeOK'
  BY <1>1, <1>2 DEF IInv, TypeOK, Reading, Exists, books
<1>4. AfterSaleMatchesRefund'
  BY <1>1 DEF IInv, AfterSaleMatchesRefund
<1>5. BooksSane'
  <2>1. Unbooked
    BY <1>1 DEF Unbooked, Done, WithStatus, Exists, Reading
  <2> QED
    BY <2>1, UnbookedKeeps DEF IInv
<1> QED
  BY <1>2, <1>3, <1>4, <1>5 DEF IInv

\* Steps that leave the rows and Alipay alone.
LEMMA PlainReading ==
  ASSUME TypeOK, NEW w \in Workers, NEW l \in Locals, Goto(w, l), Reads, Fits(l),
         l.pc = "approve" => ~Locked(l.as)
  PROVE  Reading(w, l)
BY DEF Goto, Reads, Reading, TypeOK, rows, Fits

\* The channels there are decide where Process starts.
LEMMA ProcessStarts ==
  ASSUME TypeOK, NEW q \in BOOLEAN
  PROVE  /\ ProcessPc(q) \in {"finalize", "query", "submit"}
         /\ ProcessPc(q) = "finalize" => channel # "alipay"
BY BoundsAssumption DEF TypeOK, ProcessPc, BoundsAssumption

\* What a buyer, a merchant or the job begins.
LEMMA StartsRead ==
  ASSUME IInv, NEW w \in Workers,
         \/ \E i \in Items : CreateStart(w, i)
         \/ \E a \in AfterSales : ApproveStart(w, a) \/ SyncStart(w, a)
         \/ \E due \in SUBSET AfterSales : ListRefundsForReconciliation(w, due)
         \/ NextRefund(w)
  PROVE  \E l \in Locals : Reading(w, l)
<1>1. TypeOK /\ worker[w] \in Locals
  BY DEF IInv, TypeOK
<1>2. ASSUME NEW i \in Items, CreateStart(w, i)
      PROVE  \E l \in Locals : Reading(w, l)
  <2> DEFINE l == [Idle EXCEPT !.pc = "insert", !.item = i]
  <2>1. l \in Locals /\ Fits(l) /\ l.pc # "approve"
    BY DEF Idle, Locals, Steps, Fits, Holding
  <2>2. Reading(w, l)
    BY <1>1, <1>2, <2>1, PlainReading DEF CreateStart
  <2> QED
    BY <2>1, <2>2
<1>3. ASSUME NEW a \in AfterSales, ApproveStart(w, a)
      PROVE  \E l \in Locals : Reading(w, l)
  <2> DEFINE n == SumReservedRefundsByAllocation(a)
             l == [Idle EXCEPT !.pc = "approve", !.as = a, !.reserved = n]
  <2>1. n \in Nat
    <3> DEFINE as == OfOrder(OrderOfAfterSale(a),
                             WithStatus({"pending", "succeeded", "unknown"}) \ {a})
    <3>1. as \in SUBSET AfterSales
      BY DEF OfOrder, WithStatus
    <3>2. Total(as) \in Nat
      BY <3>1, TotalTyped
    <3> QED
      BY <3>2 DEF SumReservedRefundsByAllocation
  <2> HIDE DEF n
  <2>2. l \in Locals /\ l.as = a /\ l.pc = "approve"
    BY <2>1 DEF Idle, Locals, Steps
  <2>3. Fits(l)
    BY <1>3, <2>2 DEF Fits, Holding, ApproveStart
  <2>4. Reading(w, l)
    BY <1>1, <1>3, <2>2, <2>3, PlainReading DEF ApproveStart, n
  <2> QED
    BY <2>2, <2>4
<1>4. ASSUME NEW a \in AfterSales, SyncStart(w, a)
      PROVE  \E l \in Locals : Reading(w, l)
  <2> DEFINE pc == IF refund[a] = "succeeded" THEN "finalize" ELSE ProcessPc(TRUE)
             l == [Idle EXCEPT !.as = a, !.pc = pc]
  <2>1. pc \in {"finalize", "query", "submit"}
    BY <1>1, ProcessStarts
  <2>2. pc = "finalize" /\ channel = "alipay" => provider[a] = "refunded"
    <3>1. refund[a] = "succeeded" /\ channel = "alipay" => provider[a] = "refunded"
      BY DEF IInv, BooksSane, EveryRefundBookedOnce, WithStatus
    <3> QED
      BY <1>1, <3>1, ProcessStarts
  <2> HIDE DEF pc
  <2>3. l \in Locals /\ l.as = a /\ l.pc = pc
    BY <2>1 DEF Idle, Locals, Steps
  <2>4. Fits(l) /\ l.pc # "approve"
    BY <2>1, <2>2, <2>3 DEF Fits, Holding
  <2>5. Reading(w, l)
    BY <1>1, <1>4, <2>3, <2>4, PlainReading DEF SyncStart, pc
  <2> QED
    BY <2>3, <2>5
<1>5. ASSUME NEW due \in SUBSET AfterSales, ListRefundsForReconciliation(w, due)
      PROVE  \E l \in Locals : Reading(w, l)
  <2> DEFINE l == [Idle EXCEPT !.pc = "next", !.todo = due]
  <2>1. l \in Locals /\ Fits(l) /\ l.pc # "approve"
    BY DEF Idle, Locals, Steps, Fits, Holding
  <2>2. Reading(w, l)
    BY <1>1, <1>5, <2>1, PlainReading DEF ListRefundsForReconciliation
  <2> QED
    BY <2>1, <2>2
<1>6. ASSUME NextRefund(w)
      PROVE  \E l \in Locals : Reading(w, l)
  <2>1. PICK a \in worker[w].todo :
          Goto(w, [worker[w] EXCEPT !.pc = ProcessPc(TRUE), !.as = a,
                                    !.todo = @ \ {a}])
    BY <1>6 DEF NextRefund
  <2> DEFINE l == [worker[w] EXCEPT !.pc = ProcessPc(TRUE), !.as = a,
                                    !.todo = @ \ {a}]
  <2>2. a \in AfterSales
    BY <1>1, <2>1 DEF Locals
  <2>3. ProcessPc(TRUE) \in {"finalize", "query", "submit"} /\
        (ProcessPc(TRUE) = "finalize" => channel # "alipay")
    BY <1>1, ProcessStarts
  <2>4. l \in Locals /\ l.as = a /\ l.pc = ProcessPc(TRUE)
    BY <1>1, <2>2, <2>3 DEF Locals, Steps
  <2>5. Fits(l) /\ l.pc # "approve"
    BY <2>2, <2>3, <2>4 DEF Fits, Holding
  <2>6. Reading(w, l)
    BY <1>1, <1>6, <2>1, <2>4, <2>5, PlainReading DEF NextRefund
  <2> QED
    BY <2>4, <2>6
<1> QED
  BY <1>2, <1>3, <1>4, <1>5, <1>6

\* A request in hand that goes on to another step keeps its after-sale.
LEMMA StepInHand ==
  ASSUME IInv, NEW w \in Workers, worker[w].pc \in {"query", "submit"},
         NEW pc \in {"query", "submit", "finalize", "fail", "unknown"}
  PROVE  /\ worker[w].as \in AfterSales
         /\ \E l \in Locals :
              /\ l = [worker[w] EXCEPT !.pc = pc]
              /\ l.pc = pc /\ l.as = worker[w].as
<1>1. worker[w] \in Locals /\ Fits(worker[w])
  BY DEF IInv, TypeOK
<1> DEFINE l == [worker[w] EXCEPT !.pc = pc]
<1>2. l \in Locals /\ l.pc = pc /\ l.as = worker[w].as
  BY <1>1 DEF Locals, Steps
<1>3. worker[w].as \in AfterSales
  BY <1>1 DEF Fits, Holding
<1> QED
  BY <1>2, <1>3

\* What a query, a refund call, a failed call and a crash leave.
LEMMA CallsRead ==
  ASSUME IInv, NEW w \in Workers,
         QueryRefund(w) \/ SubmitRefund(w) \/ CallFails(w) \/ Crash(w)
  PROVE  \E l \in Locals : Reading(w, l)
<1>1. TypeOK /\ worker[w] \in Locals /\ provider \in [AfterSales -> ProviderStates]
  BY DEF IInv, TypeOK
<1>2. CASE QueryRefund(w)
  <2>1. worker[w].pc \in {"query", "submit"}
    BY <1>2 DEF QueryRefund
  <2>2. PICK pc \in {"submit", "finalize", "unknown"} :
          /\ Goto(w, [worker[w] EXCEPT !.pc = pc])
          /\ pc = "finalize" => provider[worker[w].as] = "refunded"
    BY <1>2 DEF QueryRefund, RefundedAtProvider
  <2>3. PICK l \in Locals : l = [worker[w] EXCEPT !.pc = pc] /\
                            l.pc = pc /\ l.as = worker[w].as
    BY <2>1, StepInHand
  <2>4. Fits(l) /\ l.pc # "approve"
    BY <2>1, <2>2, <2>3, StepInHand DEF Fits, Holding
  <2>5. Reading(w, l)
    BY <1>1, <1>2, <2>2, <2>3, <2>4, PlainReading DEF QueryRefund
  <2> QED
    BY <2>5
<1>3. CASE SubmitRefund(w)
  <2>1. worker[w].pc \in {"query", "submit"} /\ worker[w].as \in AfterSales
    BY <1>3, StepInHand DEF SubmitRefund
  <2>2. PICK pc \in {"fail", "finalize", "unknown"} :
          /\ Goto(w, [worker[w] EXCEPT !.pc = pc])
          /\ pc = "finalize" => provider'[worker[w].as] = "refunded"
    BY <1>1, <1>3, <2>1 DEF SubmitRefund
  <2>3. PICK l \in Locals : l = [worker[w] EXCEPT !.pc = pc] /\
                            l.pc = pc /\ l.as = worker[w].as
    BY <2>1, StepInHand
  <2>4. /\ provider' \in [AfterSales -> ProviderStates]
        /\ \A b \in AfterSales : provider[b] = "refunded" => provider'[b] = "refunded"
    BY <1>1, <1>3, <2>1 DEF SubmitRefund, ProviderStates
  <2>5. Fits(l)' /\ l.pc # "approve"
    BY <2>1, <2>2, <2>3 DEF Fits, Holding
  <2>6. Reading(w, l)
    BY <1>1, <1>3, <2>2, <2>3, <2>4, <2>5
    DEF Reading, SubmitRefund, Goto, TypeOK
  <2> QED
    BY <2>6
<1>4. CASE CallFails(w)
  <2>1. worker[w].pc \in {"query", "submit"} /\ worker[w].as \in AfterSales
    BY <1>4, StepInHand DEF CallFails
  <2>2. PICK l \in Locals : l = [worker[w] EXCEPT !.pc = "unknown"] /\
                            l.pc = "unknown" /\ l.as = worker[w].as
    BY <2>1, StepInHand
  <2>3. worker' = [worker EXCEPT ![w] = l]
    BY <1>1, <1>4, <2>2 DEF CallFails, TypeOK
  <2>4. /\ provider' \in [AfterSales -> ProviderStates]
        /\ \A b \in AfterSales : provider[b] = "refunded" => provider'[b] = "refunded"
    BY <1>1, <1>4, <2>1 DEF CallFails, ProviderStates
  <2>5. Fits(l)' /\ l.pc # "approve"
    BY <2>1, <2>2 DEF Fits, Holding
  <2>6. faults' \in 0..MaxFaults
    BY <1>1, <1>4, BoundsAssumption DEF CallFails, Fault, TypeOK, BoundsAssumption
  <2>7. Reading(w, l)
    BY <1>4, <2>3, <2>4, <2>5, <2>6 DEF Reading, CallFails
  <2> QED
    BY <2>7
<1>5. CASE Crash(w)
  <2>1. PICK l \in Locals : l = Idle /\ l.pc = "idle" /\ Fits(l)'
    BY <1>1, Returned
  <2>2. faults' \in 0..MaxFaults
    BY <1>1, <1>5, BoundsAssumption DEF Crash, Fault, TypeOK, BoundsAssumption
  <2>3. Reading(w, l)
    BY <1>1, <1>5, <2>1, <2>2 DEF Reading, Crash
  <2> QED
    BY <2>3
<1> QED
  BY <1>2, <1>3, <1>4, <1>5

-----------------------------------------------------------------------------
(***************************************************************************)
(* Steps that write after-sales and refunds.                               *)
(***************************************************************************)

\* Rows keep their items, and no refund turns succeeded or stops being it.
RowsMove ==
  /\ afterSale' \in [AfterSales ->
       [status : AfterSaleStates, item : Items \cup {NoItem}]]
  /\ refund' \in [AfterSales -> RefundStates]
  /\ UNCHANGED <<books, channel, provider, faults>>
  /\ \A a \in AfterSales :
       /\ Exists(a) => Exists(a)' /\ afterSale'[a].item = afterSale[a].item
       /\ Exists(a)' => afterSale'[a].item \in Items
       /\ refund'[a] = "succeeded" <=> refund[a] = "succeeded"
       /\ refund'[a] \in RefundStatesOf(afterSale'[a].status)

\* They keep types, statuses and books.
LEMMA RowsMoveKeeps ==
  ASSUME IInv, RowsMove, worker' \in [Workers -> Locals]
  PROVE  TypeOK' /\ AfterSaleMatchesRefund' /\ BooksSane'
<1>1. TypeOK'
  BY DEF RowsMove, IInv, TypeOK, books
<1>2. AfterSaleMatchesRefund'
  BY DEF RowsMove, AfterSaleMatchesRefund
<1>3. Done' = Done
  BY DEF RowsMove, Done, WithStatus
<1>4. Unbooked
  BY <1>3 DEF RowsMove, Unbooked
<1> QED
  BY <1>1, <1>2, <1>4, UnbookedKeeps DEF IInv

\* Nobody but w approves what w approves, or what is not locked.
LEMMA OthersDoNotApprove ==
  ASSUME IInv, NEW w \in Workers, NEW a \in AfterSales,
         ~Locked(a) \/ Approving(w, a)
  PROVE  \A v \in Workers \ {w} : ~Approving(v, a)
BY DEF IInv, OneApproves, Approving, Locked

\* The buyer's request inserts an after-sale that was not there.
LEMMA CreateInsertKeeps ==
  ASSUME IInv, NEW w \in Workers, CreateInsert(w)
  PROVE  IInv'
<1>1. TypeOK /\ AfterSaleMatchesRefund /\ worker[w].item \in Items
  BY DEF CreateInsert, IInv, Fits
<1>2. PICK l \in Locals : l = Idle /\ l.pc = "idle" /\ Fits(l)'
  BY <1>1, Returned
<1>3. \/ UNCHANGED afterSale
      \/ \E a \in AfterSales :
           /\ ~Exists(a)
           /\ afterSale' = [afterSale EXCEPT
                ![a] = [status |-> "pending", item |-> worker[w].item]]
  BY DEF CreateInsert
<1>4. RowsMove
  <2>1. CASE UNCHANGED afterSale
    BY <1>1, <2>1 DEF CreateInsert, Goto, RowsMove, TypeOK, Exists,
      AfterSaleMatchesRefund
  <2>2. ASSUME NEW a \in AfterSales, ~Exists(a),
               afterSale' = [afterSale EXCEPT
                 ![a] = [status |-> "pending", item |-> worker[w].item]]
        PROVE  RowsMove
    <3>1. /\ afterSale'[a] = [status |-> "pending", item |-> worker[w].item]
          /\ \A b \in AfterSales \ {a} : afterSale'[b] = afterSale[b]
          /\ afterSale' \in [AfterSales ->
               [status : AfterSaleStates, item : Items \cup {NoItem}]]
      BY <1>1, <2>2 DEF TypeOK, AfterSaleStates
    <3>2. refund[a] = "none" /\ UNCHANGED <<refund, books, channel, provider, faults>>
      BY <1>1, <2>2 DEF AfterSaleMatchesRefund, RefundStatesOf, Exists,
        CreateInsert, Goto
    <3>3. refund'[a] \in RefundStatesOf(afterSale'[a].status)
      BY <3>1, <3>2 DEF RefundStatesOf
    <3> QED
      BY <1>1, <2>2, <3>1, <3>2, <3>3
      DEF RowsMove, TypeOK, Exists, AfterSaleMatchesRefund
  <2> QED
    BY <1>3, <2>1, <2>2
<1>5. \A a \in AfterSales, v \in Workers \ {w} :
        Approving(v, a) => afterSale'[a].status = afterSale[a].status
  <2>1. \A a \in AfterSales, v \in Workers : Approving(v, a) => Exists(a)
    BY DEF IInv, Fits, Approving, Exists
  <2> QED
    BY <1>1, <1>3, <2>1 DEF TypeOK
<1>6. /\ (\A v \in Workers : Fits(worker[v]))' /\ OneApproves'
      /\ worker' \in [Workers -> Locals]
  BY <1>2, <1>4, <1>5, WorkersKeep DEF CreateInsert, Goto, RowsMove
<1> QED
  BY <1>4, <1>6, RowsMoveKeeps DEF IInv

\* Withdrawing an after-sale waits for who approves it.
LEMMA WithdrawKeeps ==
  ASSUME IInv, NEW a \in AfterSales, NEW s \in {"cancelled", "rejected"},
         Withdraw(a, s)
  PROVE  IInv'
<1>1. TypeOK /\ AfterSaleMatchesRefund
  BY DEF IInv
<1>2. /\ afterSale'[a].status = s /\ afterSale'[a].item = afterSale[a].item
      /\ \A b \in AfterSales \ {a} : afterSale'[b] = afterSale[b]
      /\ afterSale' \in [AfterSales ->
           [status : AfterSaleStates, item : Items \cup {NoItem}]]
  BY <1>1 DEF Withdraw, UpdateStatus, TypeOK, AfterSaleStates
<1>3. UNCHANGED <<refund, books, channel, provider, worker, faults>>
  BY DEF Withdraw
<1>4. RowsMove
  <2>1. refund'[a] \in RefundStatesOf(afterSale'[a].status) /\ Exists(a)
    BY <1>1, <1>2, <1>3
    DEF Withdraw, AfterSaleMatchesRefund, RefundStatesOf, Exists
  <2> QED
    BY <1>1, <1>2, <1>3, <2>1
    DEF RowsMove, TypeOK, Exists, AfterSaleMatchesRefund
<1>5. ASSUME NEW v \in Workers PROVE Fits(worker[v])'
  <2>1. ~(worker[v].pc = "approve" /\ worker[v].as = a) /\ Fits(worker[v])
    BY DEF Withdraw, Locked, IInv
  <2> QED
    BY <1>2, <1>3, <2>1 DEF Fits, Holding
<1>6. OneApproves'
  BY <1>3 DEF IInv, OneApproves, Approving
<1>7. worker' \in [Workers -> Locals]
  BY <1>1, <1>3 DEF TypeOK
<1> QED
  BY <1>4, <1>5, <1>6, <1>7, RowsMoveKeeps DEF IInv

\* The approval goes on with a refund that has not succeeded.
LEMMA ApproveCommitKeeps ==
  ASSUME IInv, NEW w \in Workers, ApproveCommit(w)
  PROVE  IInv'
<1> DEFINE a == worker[w].as
<1>1. /\ TypeOK /\ AfterSaleMatchesRefund /\ a \in AfterSales
      /\ afterSale[a].status \in {"pending", "refunding", "refundFailed"}
      /\ worker[w].pc = "approve" /\ Approving(w, a)
  BY DEF ApproveCommit, IInv, Fits, Holding, Approving
<1>2. refund[a] \in {"none", "failed", "pending", "unknown"} /\ Exists(a)
  BY <1>1 DEF AfterSaleMatchesRefund, RefundStatesOf, Exists
<1>3. UNCHANGED <<books, channel, provider, faults>>
  BY DEF ApproveCommit, Goto
<1>4. CASE /\ UNCHANGED <<afterSale, refund>>
           /\ Goto(w, Idle)
  <2>1. PICK l \in Locals : l = Idle /\ l.pc = "idle" /\ Fits(l)'
    BY <1>1, Returned
  <2>2. Reading(w, l)
    BY <1>1, <1>3, <1>4, <2>1 DEF Reading, Goto, TypeOK, rows
  <2> QED
    BY <2>2, ReadingKeeps
<1>5. CASE /\ afterSale' = UpdateStatus(a, "refunding")
           /\ refund' = MarkRefund(a, {"none", "failed"}, "pending")
           /\ Goto(w, [Idle EXCEPT !.as = a,
                !.pc = IF refund[a] = "succeeded" THEN "finalize"
                       ELSE ProcessPc(refund[a] # "none")])
  <2> DEFINE pc == ProcessPc(refund[a] # "none")
  <2>1. pc \in {"finalize", "query", "submit"} /\
        (pc = "finalize" => channel # "alipay")
    BY <1>1, ProcessStarts
  <2>2. PICK l \in Locals : /\ l = [Idle EXCEPT !.as = a, !.pc = pc]
                            /\ l.as = a /\ l.pc = pc
    <3> DEFINE k == [Idle EXCEPT !.as = a, !.pc = pc]
    <3> HIDE DEF pc
    <3>1. k \in Locals /\ k.as = a /\ k.pc = pc
      BY <1>1, <2>1 DEF Idle, Locals, Steps
    <3> QED
      BY <3>1
  <2>3. worker' = [worker EXCEPT ![w] = l]
    BY <1>2, <1>5, <2>2 DEF Goto
  <2>4. Fits(l)' /\ l.pc # "approve"
    BY <1>1, <1>3, <2>1, <2>2 DEF Fits, Holding
  <2>5. /\ afterSale'[a].status = "refunding"
        /\ afterSale'[a].item = afterSale[a].item
        /\ \A b \in AfterSales \ {a} : afterSale'[b] = afterSale[b]
        /\ afterSale' \in [AfterSales ->
             [status : AfterSaleStates, item : Items \cup {NoItem}]]
    BY <1>1, <1>5 DEF UpdateStatus, TypeOK, AfterSaleStates
  <2>6. /\ refund' \in [AfterSales -> RefundStates]
        /\ refund'[a] \in {"pending", "unknown"}
        /\ \A b \in AfterSales \ {a} : refund'[b] = refund[b]
    BY <1>1, <1>2, <1>5 DEF MarkRefund, TypeOK, RefundStates
  <2>7. RowsMove
    <3>1. refund'[a] \in RefundStatesOf(afterSale'[a].status)
      BY <2>5, <2>6 DEF RefundStatesOf
    <3> QED
      BY <1>1, <1>2, <1>3, <2>5, <2>6, <3>1
      DEF RowsMove, TypeOK, Exists, AfterSaleMatchesRefund
  <2>8. \A b \in AfterSales, v \in Workers \ {w} :
          Approving(v, b) => afterSale'[b].status = afterSale[b].status
    BY <1>1, <2>5, OthersDoNotApprove
  <2>9. /\ (\A v \in Workers : Fits(worker[v]))' /\ OneApproves'
        /\ worker' \in [Workers -> Locals]
    BY <1>3, <2>3, <2>4, <2>8, WorkersKeep
  <2> QED
    BY <2>7, <2>9, RowsMoveKeeps DEF IInv
<1> QED
  BY <1>4, <1>5 DEF ApproveCommit

\* Recording a rejection, or that nothing is known, settles nothing.
LEMMA RecordKeeps ==
  ASSUME IInv, NEW w \in Workers, FailRefund(w) \/ KeepUnknown(w)
  PROVE  IInv'
<1> DEFINE a == worker[w].as
<1>1. /\ TypeOK /\ AfterSaleMatchesRefund /\ a \in AfterSales /\ ~Locked(a)
      /\ Goto(w, Return(w)) /\ UNCHANGED <<books, provider>>
  BY DEF FailRefund, KeepUnknown, IInv, Fits, Holding
<1>2. PICK l \in Locals : /\ l = Return(w) /\ l.pc \in {"idle", "next"}
                          /\ Fits(l)'
  BY <1>1, Returned
<1>3. /\ afterSale' = afterSale \/ \E s \in {"refundFailed", "refunding"} :
                                     afterSale' = UpdateStatus(a, s)
      /\ afterSale'[a].item = afterSale[a].item
      /\ \A b \in AfterSales \ {a} : afterSale'[b] = afterSale[b]
      /\ afterSale' \in [AfterSales ->
           [status : AfterSaleStates, item : Items \cup {NoItem}]]
  BY <1>1 DEF FailRefund, KeepUnknown, MarkRefundFailed, UpdateStatus, TypeOK,
    AfterSaleStates
<1>4. /\ refund' \in [AfterSales -> RefundStates]
      /\ \A b \in AfterSales \ {a} : refund'[b] = refund[b]
  BY <1>1 DEF FailRefund, KeepUnknown, MarkRefundFailed, MarkRefundUnknown,
    MarkRefund, TypeOK, RefundStates
<1>5. /\ refund'[a] = "succeeded" <=> refund[a] = "succeeded"
      /\ refund'[a] \in RefundStatesOf(afterSale'[a].status)
      /\ Exists(a) <=> afterSale'[a].status # "none"
  <2>1. refund[a] \in RefundStatesOf(afterSale[a].status)
    BY <1>1 DEF AfterSaleMatchesRefund
  <2>2. afterSale[a].status \in AfterSaleStates
    BY <1>1 DEF TypeOK
  <2>3. refund[a] \in OpenRefunds => afterSale[a].status = "refunding"
    BY <2>1, <2>2 DEF RefundStatesOf, OpenRefunds, AfterSaleStates
  <2>4. \/ refund'[a] = refund[a] /\ afterSale'[a].status = afterSale[a].status
        \/ /\ refund[a] \in OpenRefunds
           /\ \/ refund'[a] = "failed" /\ afterSale'[a].status = "refundFailed"
              \/ refund'[a] = "unknown" /\ afterSale'[a].status = "refunding"
    <3>1. CASE FailRefund(w)
      BY <1>1, <3>1
      DEF FailRefund, MarkRefundFailed, MarkRefund, UpdateStatus, TypeOK
    <3>2. CASE KeepUnknown(w)
      <4>1. afterSale' = afterSale
        BY <2>3, <3>2 DEF KeepUnknown
      <4>2. refund'[a] = IF refund[a] \in OpenRefunds THEN "unknown" ELSE refund[a]
        BY <1>1, <3>2 DEF KeepUnknown, MarkRefundUnknown, MarkRefund, TypeOK
      <4> QED
        BY <2>3, <4>1, <4>2
    <3> QED
      BY <3>1, <3>2
  <2>5. CASE refund'[a] = refund[a] /\ afterSale'[a].status = afterSale[a].status
    BY <2>1, <2>5 DEF Exists
  <2>6. CASE /\ refund[a] \in OpenRefunds
             /\ \/ refund'[a] = "failed" /\ afterSale'[a].status = "refundFailed"
                \/ refund'[a] = "unknown" /\ afterSale'[a].status = "refunding"
    BY <2>3, <2>6 DEF RefundStatesOf, Exists, OpenRefunds
  <2> QED
    BY <2>4, <2>5, <2>6
<1>6. RowsMove
  BY <1>1, <1>3, <1>4, <1>5
  DEF RowsMove, TypeOK, Exists, AfterSaleMatchesRefund, Goto
<1>7. \A b \in AfterSales, v \in Workers \ {w} :
        Approving(v, b) => afterSale'[b].status = afterSale[b].status
  BY <1>1, <1>3, OthersDoNotApprove
<1>8. /\ (\A v \in Workers : Fits(worker[v]))' /\ OneApproves'
      /\ worker' \in [Workers -> Locals]
  BY <1>1, <1>2, <1>7, WorkersKeep DEF Goto
<1> QED
  BY <1>6, <1>8, RowsMoveKeeps DEF IInv

\* A refund is booked when it is finalized, unless a check fails.
LEMMA FinalizeKeeps ==
  ASSUME IInv, NEW w \in Workers, FinalizeRefund(w)
  PROVE  IInv'
<1> DEFINE a == worker[w].as
<1>1. /\ TypeOK /\ AfterSaleMatchesRefund /\ BooksSane
      /\ a \in AfterSales /\ ~Locked(a)
      /\ Goto(w, Return(w)) /\ UNCHANGED provider
      /\ channel = "alipay" => provider[a] = "refunded"
  BY DEF FinalizeRefund, IInv, Fits, Holding
<1>2. PICK l \in Locals : /\ l = Return(w) /\ l.pc \in {"idle", "next"}
                          /\ Fits(l)'
  BY <1>1, Returned
<1>3. CASE ~CanFinalize(a)
  <2>1. Reading(w, l)
    BY <1>1, <1>2, <1>3 DEF FinalizeRefund, Finalize, Reading, Goto, TypeOK
  <2> QED
    BY <2>1, ReadingKeeps
<1>4. CASE CanFinalize(a)
  <2>1. refund[a] # "succeeded"
    BY <1>1, <1>4 DEF CanFinalize, AfterSaleMatchesRefund, RefundStatesOf
  <2>2. Booked(a)
    BY <1>1, <1>4, <2>1
    DEF Booked, FinalizeRefund, Finalize, CanFinalize, Goto, Done
  <2>3. /\ afterSale'[a].status = "refunded"
        /\ afterSale'[a].item = afterSale[a].item
        /\ \A b \in AfterSales \ {a} : afterSale'[b] = afterSale[b]
        /\ afterSale' \in [AfterSales ->
             [status : AfterSaleStates, item : Items \cup {NoItem}]]
    BY <1>1, <2>2 DEF Booked, UpdateStatus, TypeOK, AfterSaleStates
  <2>4. /\ refund' \in [AfterSales -> RefundStates]
        /\ refund'[a] = "succeeded"
        /\ \A b \in AfterSales \ {a} : refund'[b] = refund[b]
    BY <1>1, <2>2 DEF Booked, Book, MarkRefund, TypeOK, RefundStates
  <2>5. BooksSane' /\ commissionEntry' \in [AfterSales -> Nat] /\ Exists(a)
    BY <1>1, <2>2, BookedKeeps, BookedCommission, BookedRows
  <2>6. \A b \in AfterSales, v \in Workers \ {w} :
          Approving(v, b) => afterSale'[b].status = afterSale[b].status
    BY <1>1, <2>3, OthersDoNotApprove
  <2>7. /\ (\A v \in Workers : Fits(worker[v]))' /\ OneApproves'
        /\ worker' \in [Workers -> Locals]
    BY <1>1, <1>2, <2>6, WorkersKeep DEF Goto
  <2>8. AfterSaleMatchesRefund'
    <3>1. refund'[a] \in RefundStatesOf(afterSale'[a].status)
      BY <2>3, <2>4 DEF RefundStatesOf
    <3> QED
      BY <1>1, <2>3, <2>4, <3>1 DEF AfterSaleMatchesRefund
  <2>9. refundedAmount' \in [Orders -> 0..MaxAmount]
    <3>1. refundedAmount' = [o \in Orders |-> refundedAmount'[o]]
      BY <1>1, <2>2
      DEF Booked, Book, IncreaseAllocationRefundedAmount, TypeOK
    <3>2. \A o \in Orders : refundedAmount'[o] \in 0..MaxAmount
      <4> TAKE o \in Orders
      <4>1. /\ refundedAmount'[o] = Total(Succeeded(o))'
            /\ refundedAmount'[o] <= Allocated[o]
        BY <2>5 DEF BooksSane, EveryRefundBookedOnce
      <4>2. Total(Succeeded(o))' \in Nat
        <5>1. /\ Total(Succeeded(o))' =
                   IF o = OrderOfAfterSale(a)
                     THEN Total(Succeeded(o)) + RefundAmount(a)
                     ELSE Total(Succeeded(o))
              /\ Succeeded(o) \in SUBSET AfterSales
              /\ RefundAmount(a) \in Nat
          <6>1. RefundAmount(a) \in Nat
            BY <1>1, <2>5, AmountTyped, OrdersAssumption DEF OrdersAssumption
          <6>2. Succeeded(o) \in SUBSET AfterSales
            BY DEF Succeeded, OfOrder, WithStatus
          <6> QED
            BY <1>1, <2>2, <6>1, <6>2, BookedTotals
        <5>2. Total(Succeeded(o)) \in Nat
          BY <5>1, TotalTyped
        <5> QED
          BY <5>1, <5>2
      <4> QED
        BY <4>1, <4>2, AllocatedTyped
    <3> QED
      BY <3>1, <3>2
  <2>10. paymentStatus' \in PaidStates /\ tradeStatus' \in PaidStates
    BY <2>2 DEF Booked, UpdateRefundStatus, RefundStatus, PaidStates
  <2>11. refundEntry' \subseteq AfterSales
    BY <1>1, <2>2 DEF Booked, Book, CreateSettlementEntries, TypeOK
  <2>12. TypeOK'
    BY <1>1, <2>3, <2>4, <2>5, <2>7, <2>9, <2>10, <2>11
    DEF TypeOK, Exists, Goto
  <2> QED
    BY <2>5, <2>7, <2>8, <2>12 DEF IInv
<1> QED
  BY <1>3, <1>4

\* Alipay moves money it had promised.
LEMMA ProviderSettlesKeeps ==
  ASSUME IInv, NEW a \in AfterSales, ProviderSettles(a)
  PROVE  IInv'
<1>1. /\ UNCHANGED <<rows, channel, worker, faults>>
      /\ provider' \in [AfterSales -> ProviderStates]
      /\ \A b \in AfterSales : provider[b] = "refunded" => provider'[b] = "refunded"
  BY DEF ProviderSettles, IInv, TypeOK, ProviderStates
<1>2. TypeOK' /\ AfterSaleMatchesRefund' /\ OneApproves'
  BY <1>1
  DEF IInv, TypeOK, AfterSaleMatchesRefund, OneApproves, Approving, rows, books,
      Exists
<1>3. ASSUME NEW v \in Workers PROVE Fits(worker[v])'
  BY <1>1 DEF IInv, Fits, Holding, rows
<1>4. Unbooked
  BY <1>1 DEF Unbooked, Done, WithStatus, Exists, rows
<1> QED
  BY <1>2, <1>3, <1>4, UnbookedKeeps DEF IInv

-----------------------------------------------------------------------------
(***************************************************************************)
(* Theorems.                                                               *)
(***************************************************************************)

\* The invariant holds before anything is asked to be refunded.
LEMMA InitIInv == Init => IInv
<1> SUFFICES ASSUME Init PROVE IInv
  OBVIOUS
<1>1. TypeOK
  BY OrdersAssumption, BoundsAssumption
  DEF Init, TypeOK, Exists, AfterSaleStates, RefundStates, PaidStates,
      ProviderStates, Idle, Locals, Steps, OrdersAssumption, BoundsAssumption
<1>2. AfterSaleMatchesRefund
  BY DEF Init, AfterSaleMatchesRefund, RefundStatesOf
<1>3. Done = {} /\ \A o \in Orders : Succeeded(o) = {}
  BY DEF Init, Done, Succeeded, OfOrder, WithStatus
<1>4. Total({}) = 0
  BY FS_EmptySet DEF Total, Fen
<1>5. EveryRefundBookedOnce
  BY <1>3, <1>4, AllocatedTyped DEF Init, EveryRefundBookedOnce, Done
<1>6. CommissionFollowsRefunds
  <2> SUFFICES ASSUME NEW o \in Orders
               PROVE  Cardinality(CommissionReturned(o))
                        = (Commission[o] * refundedAmount[o]) \div Allocated[o]
    BY DEF CommissionFollowsRefunds
  <2>1. CommissionReturned(o) = {}
    BY DEF CommissionReturned, OfOrder, Init
  <2>2. Commission[o] * 0 = 0 /\ 0 \div Allocated[o] = 0
    BY AllocatedTyped, SMT
  <2> QED
    BY <2>1, <2>2, FS_EmptySet DEF Init
<1>7. StatusFollowsRefunds
  BY <1>3 DEF Init, StatusFollowsRefunds, Done
<1>8. AllAccounted
  <2>1. Left = {u \in Orders \X (1..MaxAmount) : u[2] <= Allocated[u[1]]}
    <3>1. \A u \in Orders \X (1..MaxAmount) : refundedAmount[u[1]] < u[2]
      BY OrdersAssumption DEF Init, OrdersAssumption
    <3> QED
      BY <3>1 DEF Left
  <2> QED
    BY <1>3, <1>4, <2>1, LeftFinite DEF AllAccounted, PaymentAmount
<1>9. CommissionSane
  BY OrdersAssumption DEF Init, CommissionSane, OrdersAssumption
<1>10. (\A w \in Workers : Fits(worker[w])) /\ OneApproves
  BY DEF Init, Fits, Holding, Idle, OneApproves, Approving
<1> QED
  BY <1>1, <1>2, <1>5, <1>6, <1>7, <1>8, <1>9, <1>10 DEF IInv, BooksSane

\* Every step keeps the invariant.
LEMMA StepKeeps == IInv /\ [Next]_vars => IInv'
<1> SUFFICES ASSUME IInv, [Next]_vars PROVE IInv'
  OBVIOUS
<1>1. ASSUME NEW w \in Workers,
             \/ \E i \in Items : CreateStart(w, i)
             \/ \E a \in AfterSales : ApproveStart(w, a) \/ SyncStart(w, a)
             \/ \E due \in SUBSET AfterSales : ListRefundsForReconciliation(w, due)
             \/ NextRefund(w)
      PROVE  IInv'
  BY <1>1, StartsRead, ReadingKeeps
<1>2. ASSUME NEW w \in Workers,
             QueryRefund(w) \/ SubmitRefund(w) \/ CallFails(w) \/ Crash(w)
      PROVE  IInv'
  BY <1>2, CallsRead, ReadingKeeps
<1>3. ASSUME NEW w \in Workers,
             \/ CreateInsert(w) \/ ApproveCommit(w) \/ FinalizeRefund(w)
             \/ FailRefund(w) \/ KeepUnknown(w)
      PROVE  IInv'
  BY <1>3, CreateInsertKeeps, ApproveCommitKeeps, FinalizeKeeps, RecordKeeps
<1>4. ASSUME NEW a \in AfterSales,
             Cancel(a) \/ MerchantReject(a) \/ ProviderSettles(a)
      PROVE  IInv'
  BY <1>4, WithdrawKeeps, ProviderSettlesKeeps DEF Cancel, MerchantReject
<1>5. CASE UNCHANGED vars
  <2>1. UNCHANGED <<rows, channel, provider, worker, faults>>
    BY <1>5 DEF vars
  <2>2. TypeOK' /\ AfterSaleMatchesRefund' /\ OneApproves'
    BY <2>1 DEF IInv, TypeOK, AfterSaleMatchesRefund, OneApproves, Approving,
      rows, books, Exists
  <2>3. ASSUME NEW v \in Workers PROVE Fits(worker[v])'
    BY <2>1 DEF IInv, Fits, Holding, rows
  <2>4. Unbooked
    BY <2>1 DEF Unbooked, Done, WithStatus, Exists, rows
  <2> QED
    BY <2>2, <2>3, <2>4, UnbookedKeeps DEF IInv
<1> QED
  BY <1>1, <1>2, <1>3, <1>4, <1>5 DEF Next, Proceed, Workers

\* The invariant holds in every state the refunds of a trade can reach.
THEOREM Invariance == Spec => []IInv
BY InitIInv, StepKeeps, PTL DEF Spec

\* Rows and requests have the shape the tables and handlers give them.
THEOREM TypeCorrect == Spec => []TypeOK
<1>1. IInv => TypeOK
  BY DEF IInv
<1> QED
  BY <1>1, Invariance, PTL

\* However many buyers, merchants and jobs handle them, and whatever calls fail,
\* refunds are booked once, within their allocation, and all that shows how far
\* they are agrees.
THEOREM AllRefundsAgree == Spec => []RefundsAgree
<1>1. IInv => RefundsAgree
  BY DEF IInv, BooksSane, RefundsAgree, StatusesAgree, BooksFollowRefunds
<1> QED
  BY <1>1, Invariance, PTL

\* No more than was paid is ever given back, and nothing that was given back is
\* still owed: the refunds that succeeded and what is left are the payment.
THEOREM NothingLost == Spec => []AllAccounted
<1>1. IInv => AllAccounted
  BY DEF IInv, BooksSane
<1> QED
  BY <1>1, Invariance, PTL

=============================================================================
