------------------------- MODULE Settlement_proofs -------------------------
(***************************************************************************)
(* Proofs about Settlement, for any number of orders, refunds and          *)
(* commands, amounts of any size, any hold and commands of any length.     *)
(***************************************************************************)
EXTENDS Settlement, FiniteSetTheorems, FunctionTheorems, WellFoundedInduction, TLAPS

-----------------------------------------------------------------------------
(***************************************************************************)
(* The invariant.                                                          *)
(***************************************************************************)

\* The refunds of an order from before the ledger, and those since.
FirstDay(o) == {r \in Refunds : OrderOf[r] = o /\ updatedAt[r] = 0}

Later(o) == {r \in Succeeded : OrderOf[r] = o /\ updatedAt[r] # 0}

\* The share of the commission that one more refund of n gives back.
Step(o, before, n) ==
  proportionalRefundCommission(o, before + n) - proportionalRefundCommission(o, before)

\* What a repair gives back for a refund from before the ledger.
Repaired(r) ==
  Step(OrderOf[r], SumOfRefunds({s \in FirstDay(OrderOf[r]) : s < r}), RefundAmount[r])

\* Nothing has happened later than now, and the provider moves the money
\* before the refund is known to have succeeded.
ClockSane ==
  /\ now \in Times /\ now >= 1
  /\ \A o \in Completed : completedAt[o] <= now
  /\ \A r \in Succeeded : updatedAt[r] <= now /\ refundedAt[r] \in 0..updatedAt[r]

\* An order gives back no more than was paid for it.
WithinPayable == \A o \in Orders : SumOfRefunds(RefundsOf(o)) <= Payable[o]

\* The entries of a refund: they come together, those of a refund since the
\* ledger exists at once and those of an earlier one with the repaired share.
RefundWritten(r) ==
  /\ Entry("REFUND", r) \in entries => r \in Succeeded
  /\ Entry("COMMISSION-REFUND", r) \in entries => Entry("REFUND", r) \in entries
  /\ Entry("COMMISSION-REFUND", r) \in entries <=> commissionRefund[r] > 0
  /\ commissionRefund[r] <= MaxAmount
  /\ r \in Succeeded /\ updatedAt[r] # 0 => Entry("REFUND", r) \in entries
  /\ updatedAt[r] = 0 /\ Entry("REFUND", r) \in entries =>
       commissionRefund[r] = Repaired(r)

\* What the refunds since the ledger exists have given back of a commission.
LaterReversed(o) ==
  Total(Later(o), commissionRefund) =
    proportionalRefundCommission(o, SumOfRefunds(RefundsOf(o)))
      - proportionalRefundCommission(o, SumOfRefunds(FirstDay(o)))

LedgerSane ==
  /\ \A r \in Refunds : RefundWritten(r)
  /\ \A o \in Orders : LaterReversed(o)

\* The orders that had completed before the command started are written.
OrdersWritten(l) ==
  \A o \in Completed : completedAt[o] < l.startedAt => OrderEntries(o) \subseteq entries

Collecting == {"generate", "commit"}

\* What a command relies on: a round that found nothing to do saw every order
\* and refund written, and what it has collected still is there, unsettled and
\* all that was due.
CommandSane(l) ==
  /\ l.pc # "idle" => l.startedAt <= now
  /\ \A r \in l.todoRefunds : updatedAt[r] = 0
  /\ l.pc \in {"orders", "refunds"} /\ ~l.scanned => OrdersWritten(l)
  /\ l.pc = "refunds" /\ ~l.scanned => MissingRefunds = {}
  /\ l.pc \in Collecting =>
       l.period \in Periods /\ OrdersWritten(l) /\ MissingRefunds = {}
  /\ l.pc # "commit" => l.held = {}

Collected(l) ==
  l.pc = "commit" =>
    /\ l.collectedAt <= now
    /\ l.held # {} /\ l.held \subseteq entries
    /\ Totals(l.held).commission >= 0
    /\ \A e \in l.held : settledIn[e] = NoPeriod
    /\ \A e \in Due(l.period, l.startedAt, l.collectedAt) :
         e \in l.held \/ settledIn[e] # NoPeriod

CommandsSane == \A c \in Commands : CommandSane(command[c]) /\ Collected(command[c])

\* No entry is collected by two commands.
OneCollects ==
  \A c, d \in Commands : c # d => command[c].held \cap command[d].held = {}

\* Settlements are made of the past, though their periods may go on.
MadeBefore ==
  \A s \in settlements : s.startedAt <= now /\ s.collectedAt <= now

IInv ==
  /\ TypeOK
  /\ ClockSane /\ WithinPayable /\ LedgerSane
  /\ CommandsSane /\ OneCollects
  /\ MadeBefore /\ SettlementsBalance /\ NothingMissed

-----------------------------------------------------------------------------
(***************************************************************************)
(* Counting fen.                                                           *)
(***************************************************************************)

\* Amounts are bounded by a number.
LEMMA MaxAmountTyped == MaxAmount \in Nat
BY OrdersAssumption DEF OrdersAssumption

\* Finitely many rows have finitely many fen.
LEMMA FensFinite ==
  ASSUME NEW S, IsFiniteSet(S), NEW f
  PROVE  IsFiniteSet(Fens(S, f)) /\ Total(S, f) \in Nat
<1>1. IsFiniteSet(1..MaxAmount)
  BY FS_Interval, MaxAmountTyped
<1>2. IsFiniteSet(S \X (1..MaxAmount))
  BY <1>1, FS_Product
<1>3. IsFiniteSet(Fens(S, f))
  BY <1>2, FS_Subset DEF Fens
<1> QED
  BY <1>3, FS_CardinalityType DEF Total

\* The total of rows that have nothing in common is the sum of the totals.
LEMMA TotalUnion ==
  ASSUME NEW S, IsFiniteSet(S), NEW T, IsFiniteSet(T), S \cap T = {}, NEW f
  PROVE  Total(S \cup T, f) = Total(S, f) + Total(T, f)
<1>1. Fens(S \cup T, f) = Fens(S, f) \cup Fens(T, f)
  BY DEF Fens
<1>2. Fens(S, f) \cap Fens(T, f) = {}
  BY DEF Fens
<1>3. /\ IsFiniteSet(Fens(S, f)) /\ Total(S, f) \in Nat
      /\ IsFiniteSet(Fens(T, f)) /\ Total(T, f) \in Nat
  BY FensFinite
<1>4. Cardinality(Fens(S, f) \cup Fens(T, f))
        = Cardinality(Fens(S, f)) + Cardinality(Fens(T, f))
            - Cardinality(Fens(S, f) \cap Fens(T, f))
  BY <1>3, FS_Union
<1>5. Cardinality(Fens(S, f) \cap Fens(T, f)) = 0
  BY <1>2, FS_EmptySet
<1>6. Total(S \cup T, f) = Total(S, f) + Total(T, f) - 0
  BY <1>1, <1>4, <1>5 DEF Total
<1> QED
  BY <1>3, <1>6

\* The fen of one row.
LEMMA FensOfOne ==
  ASSUME NEW x, NEW n \in 0..MaxAmount
  PROVE  Cardinality({x} \X (1..n)) = n
<1>1. IsFiniteSet({x}) /\ Cardinality({x}) = 1
  BY FS_Singleton
<1>2. n \in Nat /\ IsFiniteSet(1..n) /\ Cardinality(1..n) = n
  BY FS_Interval, MaxAmountTyped
<1>3. Cardinality({x} \X (1..n)) = Cardinality({x}) * Cardinality(1..n)
  BY <1>1, <1>2, FS_Product
<1> QED
  BY <1>1, <1>2, <1>3

\* A row has as many fen as its amount.
LEMMA TotalOfOne ==
  ASSUME NEW x, NEW f, f[x] \in 0..MaxAmount
  PROVE  Total({x}, f) = f[x]
<1>1. ASSUME NEW u \in Fens({x}, f) PROVE u \in {x} \X (1..f[x])
  BY <1>1, MaxAmountTyped DEF Fens
<1>2. ASSUME NEW u \in {x} \X (1..f[x]) PROVE u \in Fens({x}, f)
  BY <1>2, MaxAmountTyped DEF Fens
<1>3. Fens({x}, f) = {x} \X (1..f[x])
  BY <1>1, <1>2
<1> QED
  BY <1>3, FensOfOne DEF Total

\* One more row adds its amount.
LEMMA TotalAdd ==
  ASSUME NEW S, IsFiniteSet(S), NEW x, x \notin S, NEW f, f[x] \in 0..MaxAmount
  PROVE  Total(S \cup {x}, f) = Total(S, f) + f[x]
<1>1. IsFiniteSet({x}) /\ S \cap {x} = {}
  BY FS_Singleton
<1> QED
  BY <1>1, TotalUnion, TotalOfOne

\* A total depends on the amounts of its rows only.
LEMMA TotalSame ==
  ASSUME NEW S, NEW f, NEW g, \A x \in S : f[x] = g[x]
  PROVE  Total(S, f) = Total(S, g)
BY DEF Total, Fens

\* Rows of nothing have no fen.
LEMMA TotalNone ==
  ASSUME NEW S, NEW f, \A x \in S : f[x] \in Int /\ f[x] <= 0
  PROVE  Total(S, f) = 0
<1>1. Fens(S, f) = {}
  BY MaxAmountTyped DEF Fens
<1> QED
  BY <1>1, FS_EmptySet DEF Total

\* A part of the rows has no more fen.
LEMMA TotalPart ==
  ASSUME NEW S, IsFiniteSet(S), NEW T, T \subseteq S, NEW f
  PROVE  Total(T, f) <= Total(S, f)
<1>1. T \cup (S \ T) = S /\ T \cap (S \ T) = {}
  OBVIOUS
<1>2. IsFiniteSet(T) /\ IsFiniteSet(S \ T)
  BY FS_Subset
<1>3. Total(S, f) = Total(T, f) + Total(S \ T, f)
  BY <1>1, <1>2, TotalUnion
<1>4. Total(T, f) \in Nat /\ Total(S \ T, f) \in Nat
  BY <1>2, FensFinite
<1> QED
  BY <1>3, <1>4

-----------------------------------------------------------------------------
(***************************************************************************)
(* Shares of the commission.                                               *)
(***************************************************************************)

\* A share rounded down is a number, and grows with what it is a share of.
LEMMA Floor ==
  ASSUME NEW x \in Nat, NEW t \in Nat, t > 0
  PROVE  /\ x \div t \in Nat
         /\ t * (x \div t) <= x
         /\ x < t * (x \div t) + t
BY SMT

\* A smaller factor gives a smaller product.
LEMMA Monotone ==
  ASSUME NEW a \in Nat, NEW b \in Nat, NEW c \in Nat, a <= b
  PROVE  c * a \in Nat /\ c * b \in Nat /\ c * a <= c * b
BY SMT

\* If t times a number is less than t more than t times another, the number is
\* no larger.
LEMMA CancelFactor ==
  ASSUME NEW a \in Nat, NEW b \in Nat, NEW t \in Nat, t > 0, t * a < t * b + t
  PROVE  a <= b
<1> SUFFICES ASSUME a >= b + 1 PROVE FALSE
  OBVIOUS
<1>1. t * (b + 1) <= t * a
  BY Monotone
<1>2. t * (b + 1) = t * b + t
  BY SMT
<1>3. t * a \in Nat /\ t * b \in Nat
  BY SMT
<1> QED
  BY <1>1, <1>2, <1>3

\* The share of more is no less, and of a part no more than of all.
LEMMA ShareGrows ==
  ASSUME NEW c \in Nat, NEW m \in Nat, NEW n \in Nat, NEW t \in Nat, t > 0,
         m <= n, n <= t
  PROVE  /\ (c * m) \div t \in Nat /\ (c * n) \div t \in Nat
         /\ (c * m) \div t <= (c * n) \div t
         /\ (c * n) \div t <= c
<1> DEFINE x == (c * m) \div t
           y == (c * n) \div t
<1>1. c * m \in Nat /\ c * n \in Nat /\ c * m <= c * n
  BY Monotone
<1>2. x \in Nat /\ t * x <= c * m
  BY <1>1, Floor
<1>3. y \in Nat /\ t * y <= c * n /\ c * n < t * y + t
  BY <1>1, Floor
<1>4. c * n <= t * c /\ t * c \in Nat
  <2>1. c * n <= c * t
    BY Monotone
  <2>2. c * t = t * c /\ t * c \in Nat
    BY SMT
  <2> QED
    BY <2>1, <2>2
<1> HIDE DEF x, y
<1>5. t * x \in Nat /\ t * y \in Nat
  BY <1>2, <1>3, SMT
<1>6. x <= y
  <2>1. t * x < t * y + t
    BY <1>1, <1>2, <1>3, <1>5
  <2> QED
    BY <1>2, <1>3, <2>1, CancelFactor
<1>7. y <= c
  <2>1. t * y < t * c + t
    BY <1>1, <1>3, <1>4, <1>5
  <2> QED
    BY <1>3, <2>1, CancelFactor
<1> QED
  BY <1>2, <1>3, <1>6, <1>7 DEF x, y

\* What an order is.
LEMMA OrderTyped ==
  ASSUME NEW o \in Orders
  PROVE  /\ Payable[o] \in Nat /\ Payable[o] > 0 /\ Payable[o] <= MaxAmount
         /\ Commission[o] \in Nat /\ Commission[o] <= Payable[o]
         /\ o \in Nat /\ MerchantOf[o] \in Merchants /\ MaxAmount \in Nat
BY OrdersAssumption DEF OrdersAssumption

\* What a refund is.
LEMMA RefundTyped ==
  ASSUME NEW r \in Refunds
  PROVE  /\ RefundAmount[r] \in 0..MaxAmount /\ RefundAmount[r] > 0
         /\ OrderOf[r] \in Orders /\ r \in Nat
BY MaxAmountTyped, RefundsAssumption DEF RefundsAssumption

\* A further refund gives a part of the commission back, or nothing.
LEMMA StepTyped ==
  ASSUME NEW o \in Orders, NEW b \in Nat, NEW n \in Nat, b + n <= Payable[o]
  PROVE  /\ proportionalRefundCommission(o, b) \in Nat
         /\ proportionalRefundCommission(o, b + n) \in Nat
         /\ Step(o, b, n) \in 0..MaxAmount
<1> DEFINE x == proportionalRefundCommission(o, b)
           y == proportionalRefundCommission(o, b + n)
<1>1. b + n \in Nat /\ b <= b + n
  OBVIOUS
<1>2. x \in Nat /\ y \in Nat /\ x <= y /\ y <= Commission[o]
  BY <1>1, OrderTyped, ShareGrows DEF proportionalRefundCommission
<1> HIDE DEF x, y
<1>3. y - x \in 0..MaxAmount
  BY <1>2, OrderTyped
<1> QED
  BY <1>2, <1>3 DEF x, y, Step

\* Of nothing, nothing is given back.
LEMMA NoShare ==
  ASSUME NEW o \in Orders
  PROVE  proportionalRefundCommission(o, 0) = 0
<1>1. Commission[o] * 0 = 0
  BY OrderTyped
<1>2. \A t \in Nat : t > 0 => 0 \div t = 0
  BY SMT
<1> QED
  BY <1>1, <1>2, OrderTyped DEF proportionalRefundCommission

-----------------------------------------------------------------------------
(***************************************************************************)
(* The refunds of an order, one after the other.                           *)
(***************************************************************************)

\* A set of numbers that is not empty has a least one.
LEMMA Least ==
  ASSUME NEW T, T \subseteq Nat, T # {}
  PROVE  \E x \in T : \A y \in T : ~(y < x)
<1> DEFINE R == StrictSubsetOrdering(Nat)
           upTo == {0..n : n \in T}
<1>1. IsWellFoundedOn(R, FiniteSubsetsOf(Nat))
  BY FS_StrictSubsetOrderingWellFounded
<1>2. upTo \subseteq FiniteSubsetsOf(Nat) /\ upTo # {}
  <2>1. \A n \in T : IsFiniteSet(0..n) /\ 0..n \in SUBSET Nat
    BY FS_Interval
  <2> QED
    BY <2>1 DEF FiniteSubsetsOf
<1>3. \A x, y \in T : y < x => <<0..y, 0..x>> \in R
  <2> SUFFICES ASSUME NEW x \in T, NEW y \in T, y < x
               PROVE  <<0..y, 0..x>> \in R
    OBVIOUS
  <2>1. 0..y \in SUBSET Nat /\ 0..x \in SUBSET Nat /\ 0..y \subseteq 0..x
    OBVIOUS
  <2>2. x \in 0..x /\ x \notin 0..y
    OBVIOUS
  <2>3. 0..y # 0..x
    BY <2>2
  <2> QED
    BY <2>1, <2>3 DEF StrictSubsetOrdering
<1> HIDE DEF R, upTo
<1>4. PICK s \in upTo : \A t \in upTo : ~(<<t, s>> \in R)
  BY <1>1, <1>2, WFMin
<1>5. PICK x \in T : s = 0..x
  BY <1>4 DEF upTo
<1>6. \A y \in T : 0..y \in upTo
  BY DEF upTo
<1> QED
  BY <1>3, <1>4, <1>5, <1>6

\* Finitely many numbers have a bound.
LEMMA Bounded ==
  ASSUME NEW D, IsFiniteSet(D), D \subseteq Nat
  PROVE  \E n \in Nat : \A x \in D : x < n
<1> DEFINE Below(E) == \E n \in Nat : \A x \in E : x < n
           R == StrictSubsetOrdering(D)
           unbounded == {E \in FiniteSubsetsOf(D) : ~Below(E)}
<1>1. D \in FiniteSubsetsOf(D)
  BY DEF FiniteSubsetsOf
<1>2. SUFFICES ASSUME unbounded # {} PROVE FALSE
  BY <1>1
<1>3. PICK E \in unbounded : \A F \in unbounded : ~(<<F, E>> \in R)
  <2>1. IsWellFoundedOn(R, FiniteSubsetsOf(D))
    BY FS_StrictSubsetOrderingWellFounded
  <2>2. unbounded \subseteq FiniteSubsetsOf(D)
    OBVIOUS
  <2> HIDE DEF unbounded, R
  <2> QED
    BY <1>2, <2>1, <2>2, WFMin
<1>4. E \in SUBSET D /\ IsFiniteSet(E) /\ ~Below(E)
  BY DEF FiniteSubsetsOf
<1>5. PICK x \in E : x \in Nat
  BY <1>4
<1>6. E \ {x} \in FiniteSubsetsOf(D) /\ <<E \ {x}, E>> \in R
  <2>1. IsFiniteSet(E \ {x})
    BY <1>4, FS_Subset
  <2> QED
    BY <1>4, <2>1 DEF FiniteSubsetsOf, StrictSubsetOrdering
<1>7. PICK n \in Nat : \A y \in E \ {x} : y < n
  BY <1>3, <1>6
<1>8. \A y \in E : y < n + x + 1
  <2> TAKE y \in E
  <2>1. y \in Nat
    BY <1>4
  <2> QED
    BY <1>5, <1>7, <2>1
<1>9. n + x + 1 \in Nat
  BY <1>5
<1> QED
  BY <1>4, <1>8, <1>9

\* When each of some refunds gives back the step from what those with smaller
\* ids refunded, all of them have given back the share of their sum.
LEMMA Telescope ==
  ASSUME NEW o \in Orders, NEW D, IsFiniteSet(D), D \subseteq Refunds, NEW f,
         SumOfRefunds(D) <= Payable[o],
         \A r \in D : f[r] = Step(o, SumOfRefunds({s \in D : s < r}), RefundAmount[r])
  PROVE  Total(D, f) = proportionalRefundCommission(o, SumOfRefunds(D))
<1> DEFINE P(n) == proportionalRefundCommission(o, n)
           Below(n) == {s \in D : s < n}
           wrong == {n \in Nat : Total(Below(n), f) # P(SumOfRefunds(Below(n)))}
<1>1. D \subseteq Nat
  BY RefundTyped
<1>2. wrong = {}
  <2>1. SUFFICES ASSUME wrong # {} PROVE FALSE
    OBVIOUS
  <2>2. PICK n \in wrong : \A m \in wrong : ~(m < n)
    <3> HIDE DEF wrong
    <3>1. wrong \subseteq Nat
      BY DEF wrong
    <3> QED
      BY <2>1, <3>1, Least
  <2>3. n \in Nat /\ Total(Below(n), f) # P(SumOfRefunds(Below(n)))
    OBVIOUS
  <2>4. CASE n = 0
    <3>0. \A s \in D : ~(s < n)
      BY <1>1, <2>4
    <3>1. Below(n) = {}
      BY <3>0
    <3>2. Total({}, f) = 0 /\ SumOfRefunds({}) = 0
      BY TotalNone DEF SumOfRefunds
    <3>3. P(0) = 0
      BY NoShare
    <3> QED
      BY <2>3, <3>1, <3>2, <3>3
  <2>5. CASE n # 0
    <3> DEFINE m == n - 1
    <3>1. m \in Nat /\ m < n
      BY <2>3, <2>5
    <3>2. Total(Below(m), f) = P(SumOfRefunds(Below(m)))
      BY <2>2, <3>1
    <3>3. \A s \in D : s < n <=> s < m \/ s = m
      BY <1>1, <2>3
    <3> HIDE DEF m
    <3>4. CASE m \notin D
      <4>1. Below(n) = Below(m)
        BY <3>3, <3>4
      <4> QED
        BY <2>3, <3>2, <4>1
    <3>5. CASE m \in D
      <4> DEFINE b == SumOfRefunds(Below(m))
      <4>0. ~(m < m)
        BY <3>1
      <4>1. Below(n) = Below(m) \cup {m} /\ m \notin Below(m)
        BY <3>3, <3>5, <4>0
      <4>2. IsFiniteSet(Below(m)) /\ IsFiniteSet(Below(n)) /\ Below(n) \subseteq D
        BY FS_Subset
      <4>3. SumOfRefunds(Below(n)) = b + RefundAmount[m]
        BY <3>5, <4>1, <4>2, RefundTyped, TotalAdd DEF SumOfRefunds
      <4>4. SumOfRefunds(Below(n)) <= SumOfRefunds(D)
        BY <4>2, TotalPart DEF SumOfRefunds
      <4>5. b \in Nat /\ SumOfRefunds(D) \in Nat /\ SumOfRefunds(Below(n)) \in Nat
        BY <4>2, FensFinite DEF SumOfRefunds
      <4>6. RefundAmount[m] \in Nat /\ f[m] = Step(o, b, RefundAmount[m])
        <5>1. RefundAmount[m] \in 0..MaxAmount
          BY <3>5, RefundTyped
        <5>2. f[m] = Step(o, SumOfRefunds({s \in D : s < m}), RefundAmount[m])
          BY <3>5
        <5> QED
          BY <5>1, <5>2, MaxAmountTyped
      <4>7. b + RefundAmount[m] <= Payable[o]
        BY <4>3, <4>4, <4>5, OrderTyped
      <4> HIDE DEF b
      <4>8. f[m] \in 0..MaxAmount /\ P(b) \in Nat /\ P(b + RefundAmount[m]) \in Nat
        BY <4>5, <4>6, <4>7, StepTyped
      <4>9. Total(Below(n), f) = Total(Below(m), f) + f[m]
        BY <4>1, <4>2, <4>8, TotalAdd
      <4>10. f[m] = P(b + RefundAmount[m]) - P(b)
        BY <4>6 DEF Step
      <4>11. Total(Below(m), f) = P(b)
        BY <3>2 DEF b
      <4> HIDE DEF P
      <4>12. Total(Below(n), f) = P(b + RefundAmount[m])
        BY <4>8, <4>9, <4>10, <4>11
      <4> QED
        BY <2>3, <4>3, <4>12
    <3> QED
      BY <3>4, <3>5
  <2> QED
    BY <2>4, <2>5
<1>3. PICK n \in Nat : \A x \in D : x < n
  BY <1>1, Bounded
<1>4. Below(n) = D
  BY <1>3
<1> QED
  BY <1>2, <1>4

-----------------------------------------------------------------------------
(***************************************************************************)
(* Sums of entries.                                                        *)
(***************************************************************************)

SaleKinds == {"SALE", "COMMISSION"}

RefundKinds == {"REFUND", "COMMISSION-REFUND"}

\* What an entry is.
LEMMA EntryTyped ==
  ASSUME NEW e \in Entries
  PROVE  /\ e = Entry(e.kind, e.of)
         /\ \/ e.kind \in SaleKinds /\ e.of \in Orders
            \/ e.kind \in RefundKinds /\ e.of \in Refunds
         /\ OrderOfEntry(e) \in Orders
<1>1. e = Entry(e.kind, e.of)
  BY DEF Entries, Entry
<1>2. CASE e \in [kind : SaleKinds, of : Orders]
  <2>1. e.kind \in SaleKinds /\ e.of \in Orders
    BY <1>2
  <2>2. OrderOfEntry(e) = e.of
    BY <2>1 DEF SaleKinds, OrderOfEntry
  <2> QED
    BY <1>1, <2>1, <2>2
<1>3. CASE e \in [kind : RefundKinds, of : Refunds]
  <2>1. e.kind \in RefundKinds /\ e.of \in Refunds
    BY <1>3
  <2>2. OrderOfEntry(e) = OrderOf[e.of]
    BY <2>1 DEF RefundKinds, OrderOfEntry
  <2> QED
    BY <1>1, <2>1, <2>2, RefundTyped
<1> QED
  BY <1>2, <1>3 DEF Entries, SaleKinds, RefundKinds

\* There are finitely many entries.
LEMMA EntriesFinite ==
  ASSUME NEW es \in SUBSET Entries
  PROVE  IsFiniteSet(es)
<1> DEFINE of == (SaleKinds \X Orders) \cup (RefundKinds \X Refunds)
           make == [p \in of |-> Entry(p[1], p[2])]
<1>1. IsFiniteSet(SaleKinds) /\ IsFiniteSet(RefundKinds)
  <2>1. \A a, b : IsFiniteSet({a, b})
    <3> TAKE a, b
    <3>1. IsFiniteSet({a}) /\ IsFiniteSet({b}) /\ {a, b} = {a} \cup {b}
      BY FS_Singleton
    <3> QED
      BY <3>1, FS_Union
  <2> QED
    BY <2>1 DEF SaleKinds, RefundKinds
<1>2. IsFiniteSet(Orders) /\ IsFiniteSet(Refunds)
  BY OrdersAssumption, RefundsAssumption DEF OrdersAssumption, RefundsAssumption
<1>3. IsFiniteSet(of)
  BY <1>1, <1>2, FS_Product, FS_Union
<1>4. make \in Surjection(of, Entries)
  <2>1. make \in [of -> Entries]
    BY DEF Entries, Entry, SaleKinds, RefundKinds
  <2>2. ASSUME NEW e \in Entries PROVE \E p \in of : make[p] = e
    <3>1. <<e.kind, e.of>> \in of /\ make[<<e.kind, e.of>>] = e
      BY EntryTyped
    <3> QED
      BY <3>1
  <2> HIDE DEF of, make
  <2> QED
    BY <2>1, <2>2, Fun_IsSurj
<1>5. IsFiniteSet(Entries)
  <2> HIDE DEF of, make
  <2> QED
    BY <1>3, <1>4, FS_Surjection
<1> QED
  BY <1>5, FS_Subset

\* The sign of an entry follows from its kind.
LEMMA AmountTyped ==
  ASSUME commissionRefund \in [Refunds -> Nat], NEW e \in Entries
  PROVE  /\ Amount(e) \in Int
         /\ e.kind \in {"SALE", "COMMISSION-REFUND"} => Amount(e) >= 0
         /\ e.kind \in {"COMMISSION", "REFUND"} => Amount(e) <= 0
<1>1. CASE e.kind = "SALE"
  BY <1>1, EntryTyped, OrderTyped DEF Amount, RefundKinds
<1>2. CASE e.kind = "COMMISSION"
  BY <1>2, EntryTyped, OrderTyped DEF Amount, RefundKinds
<1>3. CASE e.kind = "REFUND"
  BY <1>3, EntryTyped, RefundTyped, MaxAmountTyped DEF Amount, SaleKinds
<1>4. CASE e.kind = "COMMISSION-REFUND"
  BY <1>4, EntryTyped DEF Amount, SaleKinds
<1> QED
  BY <1>1, <1>2, <1>3, <1>4, EntryTyped DEF SaleKinds, RefundKinds

\* The fen that entries add, and those they take.
Credit(es) == Total(es, [e \in Entries |-> Amount(e)])
Debit(es) == Total(es, [e \in Entries |-> -Amount(e)])

\* A sum is what the entries add less what they take.
LEMMA SumOfSplit ==
  ASSUME NEW es \in SUBSET Entries
  PROVE  /\ SumOf(es) = Credit(es) - Debit(es)
         /\ Credit(es) \in Nat /\ Debit(es) \in Nat
         /\ SumOf(es) \in Int
<1>1. Credit(es) = Total(es, [e \in es |-> Amount(e)])
  BY TotalSame DEF Credit
<1>2. Debit(es) = Total(es, [e \in es |-> -Amount(e)])
  BY TotalSame DEF Debit
<1>3. Credit(es) \in Nat /\ Debit(es) \in Nat
  BY EntriesFinite, FensFinite DEF Credit, Debit
<1>4. SumOf(es) = Credit(es) - Debit(es)
  BY <1>1, <1>2 DEF SumOf
<1> QED
  BY <1>3, <1>4

\* The sum of entries that have nothing in common is the sum of the sums.
LEMMA SumOfUnion ==
  ASSUME NEW S \in SUBSET Entries, NEW T \in SUBSET Entries, S \cap T = {}
  PROVE  SumOf(S \cup T) = SumOf(S) + SumOf(T)
<1>1. IsFiniteSet(S) /\ IsFiniteSet(T)
  BY EntriesFinite
<1>2. Credit(S \cup T) = Credit(S) + Credit(T)
  BY <1>1, TotalUnion DEF Credit
<1>3. Debit(S \cup T) = Debit(S) + Debit(T)
  BY <1>1, TotalUnion DEF Debit
<1>4. S \cup T \in SUBSET Entries
  OBVIOUS
<1> QED
  BY <1>2, <1>3, <1>4, SumOfSplit

\* The net amount of a settlement follows from the others.
LEMMA TotalsTyped ==
  ASSUME commissionRefund \in [Refunds -> Nat], NEW es \in SUBSET Entries
  PROVE  /\ Totals(es).gross \in Nat /\ Totals(es).refund \in Nat
         /\ Totals(es).commission \in Int /\ Totals(es).net \in Int
         /\ Totals(es).net = Totals(es).gross - Totals(es).commission - Totals(es).refund
<1> DEFINE of(k) == OfKind(k, es)
<1>1. \A k \in SaleKinds \cup RefundKinds : of(k) \in SUBSET Entries
  BY DEF OfKind
<1>2. \A k \in SaleKinds \cup RefundKinds : SumOf(of(k)) \in Int
  <2> HIDE DEF of
  <2> QED
    BY <1>1, SumOfSplit
<1>3. SumOf(of("SALE")) \in Nat
  <2>1. \A e \in of("SALE") : -Amount(e) \in Int /\ -Amount(e) <= 0
    BY AmountTyped DEF OfKind
  <2>2. Debit(of("SALE")) = 0
    BY <2>1, TotalNone DEF Debit, OfKind
  <2>3. of("SALE") \in SUBSET Entries
    BY DEF OfKind
  <2> HIDE DEF of
  <2> QED
    BY <2>2, <2>3, SumOfSplit
<1>4. -SumOf(of("REFUND")) \in Nat
  <2>1. \A e \in of("REFUND") : Amount(e) \in Int /\ Amount(e) <= 0
    BY AmountTyped DEF OfKind
  <2>2. Credit(of("REFUND")) = 0
    BY <2>1, TotalNone DEF Credit, OfKind
  <2>3. of("REFUND") \in SUBSET Entries
    BY DEF OfKind
  <2> HIDE DEF of
  <2> QED
    BY <2>2, <2>3, SumOfSplit
<1>5. SumOf(es) = SumOf(of("SALE")) + SumOf(of("COMMISSION"))
                    + SumOf(of("REFUND")) + SumOf(of("COMMISSION-REFUND"))
  <2> DEFINE sales == of("SALE") \cup of("COMMISSION")
             refunds == of("REFUND") \cup of("COMMISSION-REFUND")
  <2>1. of("SALE") \cap of("COMMISSION") = {} /\ sales \in SUBSET Entries
    BY DEF OfKind
  <2>2. of("REFUND") \cap of("COMMISSION-REFUND") = {} /\ refunds \in SUBSET Entries
    BY DEF OfKind
  <2>3. sales \cap refunds = {} /\ es = sales \cup refunds
    <3>1. \A e \in es : e.kind \in SaleKinds \cup RefundKinds
      BY EntryTyped
    <3> QED
      BY <3>1 DEF OfKind, SaleKinds, RefundKinds
  <2>4. /\ of("SALE") \in SUBSET Entries /\ of("COMMISSION") \in SUBSET Entries
        /\ of("REFUND") \in SUBSET Entries /\ of("COMMISSION-REFUND") \in SUBSET Entries
    BY DEF OfKind
  <2> HIDE DEF of
  <2>5. SumOf(sales) = SumOf(of("SALE")) + SumOf(of("COMMISSION"))
    BY <2>1, <2>4, SumOfUnion
  <2>6. SumOf(refunds) = SumOf(of("REFUND")) + SumOf(of("COMMISSION-REFUND"))
    BY <2>2, <2>4, SumOfUnion
  <2>7. SumOf(es) = SumOf(sales) + SumOf(refunds)
    BY <2>1, <2>2, <2>3, SumOfUnion
  <2> QED
    BY <1>2, <2>5, <2>6, <2>7 DEF SaleKinds, RefundKinds
<1>6. /\ Totals(es).gross = SumOf(of("SALE")) /\ Totals(es).net = SumOf(es)
      /\ Totals(es).commission = -SumOf(of("COMMISSION")) - SumOf(of("COMMISSION-REFUND"))
      /\ Totals(es).refund = -SumOf(of("REFUND"))
  BY DEF Totals
<1> HIDE DEF of
<1> QED
  BY <1>2, <1>3, <1>4, <1>5, <1>6 DEF SaleKinds, RefundKinds

-----------------------------------------------------------------------------
(***************************************************************************)
(* What a step may do to the rest of the system.                           *)
(***************************************************************************)

\* Time goes on, orders complete now and refunds succeed now.
WorldMoves ==
  /\ now' \in Times /\ now <= now'
  /\ \A o \in Orders :
       \/ completedAt'[o] = completedAt[o]
       \/ completedAt[o] = Never /\ completedAt'[o] = now
  /\ \A r \in Refunds :
       \/ updatedAt'[r] = updatedAt[r] /\ refundedAt'[r] = refundedAt[r]
       \/ updatedAt[r] = Never /\ updatedAt'[r] = now /\ refundedAt'[r] \in 0..now

\* Times are numbers, and the settings what they should be.
LEMMA SettingsTyped ==
  /\ MaxTime \in Nat /\ Hold \in Nat
  /\ BatchSize \in Nat /\ BatchSize >= 1
  /\ Times \subseteq Nat /\ 0 \in Times
  /\ Never \notin Times /\ NoPeriod \notin Periods
  /\ \A p \in Periods :
       /\ p.start \in Nat /\ p.end \in Nat
       /\ p = [merchant |-> p.merchant, start |-> p.start, end |-> p.end]
BY SettingsAssumption DEF SettingsAssumption, Times

\* An order that has completed keeps its time, and one that completes now has
\* the present one.
LEMMA CompletedMoves ==
  ASSUME TypeOK, ClockSane, WorldMoves
  PROVE  /\ \A o \in Completed : o \in Completed' /\ completedAt'[o] = completedAt[o]
         /\ \A o \in Completed' : o \in Completed \/ completedAt'[o] = now
         /\ \A o \in Completed : completedAt[o] \in Nat /\ completedAt[o] <= now
<1>1. now \in Times /\ now # Never
  BY SettingsTyped DEF ClockSane
<1>2. \A o \in Completed : completedAt[o] \in Times
  BY DEF TypeOK, Completed
<1> QED
  BY <1>1, <1>2, SettingsTyped DEF WorldMoves, Completed, ClockSane

\* So does a refund; none joins those from before the ledger.
LEMMA SucceededMoves ==
  ASSUME TypeOK, ClockSane, WorldMoves
  PROVE  /\ \A r \in Succeeded :
              /\ r \in Succeeded'
              /\ updatedAt'[r] = updatedAt[r] /\ refundedAt'[r] = refundedAt[r]
         /\ \A r \in Succeeded' : r \in Succeeded \/ updatedAt'[r] = now
         /\ \A r \in Succeeded : updatedAt[r] \in Nat /\ updatedAt[r] <= now
         /\ \A o \in Orders : FirstDay(o)' = FirstDay(o)
<1>1. now \in Times /\ now # Never /\ now # 0
  BY SettingsTyped DEF ClockSane
<1>2. \A r \in Succeeded : updatedAt[r] \in Times
  BY DEF TypeOK, Succeeded
<1>3. \A r \in Refunds : updatedAt'[r] = 0 <=> updatedAt[r] = 0
  BY <1>1, SettingsTyped DEF WorldMoves
<1>4. \A o \in Orders : FirstDay(o)' = FirstDay(o)
  BY <1>3 DEF FirstDay
<1> QED
  BY <1>1, <1>2, <1>4, SettingsTyped DEF WorldMoves, Succeeded, ClockSane

\* The clock stays right.
LEMMA ClockKeeps ==
  ASSUME TypeOK, ClockSane, WorldMoves
  PROVE  ClockSane'
<1>1. now \in Nat /\ now' \in Nat /\ now >= 1 /\ now <= now'
  BY SettingsTyped DEF ClockSane, WorldMoves
<1>2. now' \in Times /\ now' >= 1
  BY <1>1 DEF WorldMoves
<1>3. \A o \in Completed' : completedAt'[o] <= now'
  BY <1>1, CompletedMoves
<1>4. \A r \in Succeeded' : updatedAt'[r] <= now' /\ refundedAt'[r] \in 0..updatedAt'[r]
  <2> TAKE r \in Succeeded'
  <2>1. CASE r \in Succeeded
    BY <1>1, <2>1, SucceededMoves DEF ClockSane
  <2>2. CASE r \notin Succeeded
    <3>1. r \in Refunds /\ updatedAt[r] = Never /\ updatedAt'[r] # Never
      BY <2>2 DEF Succeeded
    <3>2. updatedAt'[r] = now /\ refundedAt'[r] \in 0..now
      BY <3>1 DEF WorldMoves
    <3> QED
      BY <1>1, <3>2
  <2> QED
    BY <2>1, <2>2
<1> QED
  BY <1>2, <1>3, <1>4 DEF ClockSane

\* The orders that had completed before a command started.
OldOrders(p, from) ==
  {o \in Completed : MerchantOf[o] = p.merchant /\ completedAt[o] < from}

\* Those whose sale is due.
Sold(p, from) == {o \in OldOrders(p, from) : completedAt[o] + Hold < p.end}

\* Their refunds that are due.
Refunded(p, from, upto) ==
  {r \in Succeeded :
     /\ OrderOf[r] \in OldOrders(p, from)
     /\ completedAt[OrderOf[r]] + Hold <= p.end
     /\ updatedAt[r] < p.end /\ updatedAt[r] < upto}

\* What is due are the entries of the one and of the other.
LEMMA DueSplit ==
  ASSUME NEW p, NEW from, NEW upto
  PROVE  Due(p, from, upto) =
           {Entry("REFUND", r) : r \in Refunded(p, from, upto)}
             \cup (UNION {OrderEntries(o) : o \in Sold(p, from)})
BY DEF Due, OldOrders, Sold, Refunded

\* What was due to a command that has collected stays what it was.
LEMMA DueKeeps ==
  ASSUME TypeOK, ClockSane, WorldMoves, NEW p \in Periods,
         NEW from \in Nat, from <= now, NEW upto \in Nat, upto <= now
  PROVE  Due(p, from, upto)' = Due(p, from, upto)
<1> DEFINE old == OldOrders(p, from)
           sold == Sold(p, from)
           refunded == Refunded(p, from, upto)
<1>1. now \in Nat /\ p.end \in Nat /\ Hold \in Nat
  BY SettingsTyped DEF ClockSane
<1>2. old' = old
  <2>1. \A o \in old : o \in old'
    BY CompletedMoves DEF OldOrders
  <2>2. \A o \in old' : o \in Completed
    <3> SUFFICES ASSUME NEW o \in old', o \notin Completed PROVE FALSE
      OBVIOUS
    <3>1. completedAt'[o] = now /\ completedAt'[o] < from
      BY CompletedMoves DEF OldOrders
    <3> QED
      BY <1>1, <3>1
  <2>3. \A o \in old' : o \in old
    BY <2>2, CompletedMoves DEF OldOrders
  <2> QED
    BY <2>1, <2>3
<1>3. \A o \in old : completedAt'[o] = completedAt[o]
  BY CompletedMoves DEF OldOrders
<1>4. sold' = sold
  BY <1>2, <1>3 DEF Sold
<1>5. refunded' = refunded
  <2>1. \A r \in refunded : r \in refunded'
    BY <1>2, <1>3, SucceededMoves DEF Refunded
  <2>2. \A r \in refunded' : r \in Succeeded
    <3> SUFFICES ASSUME NEW r \in refunded', r \notin Succeeded PROVE FALSE
      OBVIOUS
    <3>1. updatedAt'[r] = now /\ updatedAt'[r] < upto
      BY SucceededMoves DEF Refunded
    <3> QED
      BY <1>1, <3>1
  <2>3. \A r \in refunded' : r \in refunded
    BY <1>2, <1>3, <2>2, SucceededMoves DEF Refunded
  <2> QED
    BY <2>1, <2>3
<1>6. /\ Due(p, from, upto) = {Entry("REFUND", r) : r \in refunded}
                                \cup (UNION {OrderEntries(o) : o \in sold})
      /\ Due(p, from, upto)' = {Entry("REFUND", r) : r \in refunded'}
                                 \cup (UNION {OrderEntries(o) : o \in sold'})
  BY DueSplit DEF Due, OldOrders, Sold, Refunded, OrderEntries
<1> HIDE DEF old, sold, refunded
<1> QED
  BY <1>4, <1>5, <1>6

-----------------------------------------------------------------------------
(***************************************************************************)
(* The entries of refunds.                                                 *)
(***************************************************************************)

\* There are finitely many refunds, and a sum of them is a number.
LEMMA RefundsFinite ==
  ASSUME NEW rs \in SUBSET Refunds
  PROVE  IsFiniteSet(rs) /\ SumOfRefunds(rs) \in Nat
<1>1. IsFiniteSet(rs)
  BY RefundsAssumption, FS_Subset DEF RefundsAssumption
<1> QED
  BY <1>1, FensFinite DEF SumOfRefunds

\* An order's refunds are those from before the ledger and those since.
LEMMA RefundsSplit ==
  ASSUME NEW o \in Orders
  PROVE  /\ RefundsOf(o) = FirstDay(o) \cup Later(o)
         /\ FirstDay(o) \cap Later(o) = {}
         /\ RefundsOf(o) \in SUBSET Refunds
         /\ FirstDay(o) \in SUBSET Refunds /\ Later(o) \in SUBSET Refunds
BY SettingsTyped DEF RefundsOf, FirstDay, Later, Succeeded, Times

\* Shares of what an order may give back.
LEMMA SharesTyped ==
  ASSUME WithinPayable, NEW o \in Orders, NEW rs \in SUBSET RefundsOf(o)
  PROVE  /\ SumOfRefunds(rs) \in Nat /\ SumOfRefunds(rs) <= Payable[o]
         /\ proportionalRefundCommission(o, SumOfRefunds(rs)) \in Nat
<1>1. RefundsOf(o) \in SUBSET Refunds /\ rs \in SUBSET Refunds
  BY RefundsSplit
<1>2. SumOfRefunds(rs) \in Nat /\ SumOfRefunds(RefundsOf(o)) \in Nat
  BY <1>1, RefundsFinite
<1>3. SumOfRefunds(rs) <= SumOfRefunds(RefundsOf(o))
  BY <1>1, RefundsFinite, TotalPart DEF SumOfRefunds
<1>4. SumOfRefunds(rs) <= Payable[o]
  BY <1>2, <1>3, OrderTyped DEF WithinPayable
<1>5. SumOfRefunds(rs) + 0 <= Payable[o] /\ 0 \in Nat
  BY <1>2, <1>4
<1> QED
  BY <1>2, <1>4, <1>5, StepTyped

\* A repair gives back a part of the commission, or nothing.
LEMMA RepairedTyped ==
  ASSUME WithinPayable, NEW r \in Refunds, updatedAt[r] = 0
  PROVE  Repaired(r) \in 0..MaxAmount
<1> DEFINE o == OrderOf[r]
           rs == {s \in FirstDay(o) : s < r}
<1>1. o \in Orders /\ r \in Nat /\ RefundAmount[r] \in 0..MaxAmount
  BY RefundTyped
<1>2. r \in FirstDay(o) /\ rs \in SUBSET Refunds /\ r \notin rs
  BY <1>1 DEF FirstDay
<1>3. rs \cup {r} \in SUBSET RefundsOf(o)
  BY <1>1, <1>2, RefundsSplit
<1> HIDE DEF o, rs
<1>4. SumOfRefunds(rs \cup {r}) = SumOfRefunds(rs) + RefundAmount[r]
  BY <1>1, <1>2, RefundsFinite, TotalAdd DEF SumOfRefunds
<1>5. SumOfRefunds(rs) \in Nat /\ SumOfRefunds(rs) + RefundAmount[r] <= Payable[o]
  BY <1>1, <1>2, <1>3, <1>4, RefundsFinite, SharesTyped
<1>6. Step(o, SumOfRefunds(rs), RefundAmount[r]) \in 0..MaxAmount
  BY <1>1, <1>5, MaxAmountTyped, StepTyped
<1> QED
  BY <1>6 DEF o, rs, Repaired

\* Steps that write nothing about refunds.
QuietAboutRefunds ==
  /\ UNCHANGED <<updatedAt, commissionRefund>>
  /\ \A r \in Refunds, k \in RefundKinds : Entry(k, r) \in entries' <=> Entry(k, r) \in entries

\* They leave it right.
LEMMA QuietKeeps ==
  ASSUME WithinPayable, LedgerSane, QuietAboutRefunds
  PROVE  WithinPayable' /\ LedgerSane'
<1>1. /\ updatedAt' = updatedAt /\ commissionRefund' = commissionRefund
      /\ Succeeded' = Succeeded
  BY DEF QuietAboutRefunds, Succeeded
<1>2. /\ \A o \in Orders : /\ RefundsOf(o)' = RefundsOf(o)
                           /\ FirstDay(o)' = FirstDay(o)
                           /\ Later(o)' = Later(o)
      /\ \A r \in Refunds : Repaired(r)' = Repaired(r)
  BY <1>1 DEF RefundsOf, FirstDay, Later, Repaired
<1>3. WithinPayable'
  BY <1>2 DEF WithinPayable
<1>4. \A r \in Refunds : RefundWritten(r)'
  BY <1>1, <1>2 DEF LedgerSane, RefundWritten, QuietAboutRefunds, RefundKinds
<1>5. \A o \in Orders : LaterReversed(o)'
  BY <1>1, <1>2 DEF LedgerSane, LaterReversed
<1> QED
  BY <1>3, <1>4, <1>5 DEF LedgerSane

\* A refund that succeeds now adds its step to what its order gave back.
LEMMA SucceedKeeps ==
  ASSUME TypeOK, ClockSane, WithinPayable, LedgerSane,
         NEW r \in Refunds, SucceedRefund(r)
  PROVE  /\ WithinPayable' /\ LedgerSane'
         /\ entries \subseteq entries'
         /\ \A s \in Refunds :
              Entry("REFUND", s) \in entries => commissionRefund'[s] = commissionRefund[s]
         /\ commissionRefund' \in [Refunds -> Nat]
         /\ \A s \in Refunds : s # r => (Entry("REFUND", s) \in entries' <=> Entry("REFUND", s) \in entries)
         /\ Entry("REFUND", r) \in entries'
<1> DEFINE o == OrderOf[r]
           b == SumOfRefunds(RefundsOf(o))
           n == RefundAmount[r]
           x == Step(o, b, n)
<1>1. o \in Orders /\ n \in 0..MaxAmount /\ n \in Nat
  BY RefundTyped, MaxAmountTyped
<1>2. updatedAt[r] = Never /\ updatedAt' = [updatedAt EXCEPT ![r] = now] /\ b + n <= Payable[o]
  BY DEF SucceedRefund
<1>3. /\ r \notin Succeeded /\ Entry("REFUND", r) \notin entries
      /\ Entry("COMMISSION-REFUND", r) \notin entries
  BY <1>2 DEF Succeeded, LedgerSane, RefundWritten
<1>4. b \in Nat /\ x \in 0..MaxAmount /\ x \in Nat
  BY <1>1, <1>2, RefundsSplit, RefundsFinite, StepTyped, MaxAmountTyped
<1>5. /\ commissionRefund' = [commissionRefund EXCEPT ![r] = x]
      /\ entries' = entries \cup ({Entry("REFUND", r)} \cup
                      {e \in {Entry("COMMISSION-REFUND", r)} : x > 0})
  BY <1>3 DEF SucceedRefund, CreateRefundEntries, CreateEntries, Step
<1>6. now # Never /\ now # 0 /\ now \in Times
  BY SettingsTyped DEF ClockSane
<1>7. Succeeded' = Succeeded \cup {r} /\ updatedAt'[r] = now
  BY <1>2, <1>6 DEF Succeeded, TypeOK
<1>8. \A s \in Refunds : s # r => updatedAt'[s] = updatedAt[s] /\ commissionRefund'[s] = commissionRefund[s]
  BY <1>2, <1>5
<1>9. commissionRefund'[r] = x /\ commissionRefund' \in [Refunds -> Nat]
  BY <1>4, <1>5 DEF TypeOK
<1> HIDE DEF x, n, b
<1>10. /\ \A q \in Orders : FirstDay(q)' = FirstDay(q)
       /\ \A q \in Orders : q # o => RefundsOf(q)' = RefundsOf(q) /\ Later(q)' = Later(q)
       /\ RefundsOf(o)' = RefundsOf(o) \cup {r} /\ r \notin RefundsOf(o)
       /\ Later(o)' = Later(o) \cup {r} /\ r \notin Later(o)
  <2>1. \A q \in Orders : FirstDay(q)' = FirstDay(q)
    BY <1>2, <1>6, <1>7, <1>8, SettingsTyped DEF FirstDay
  <2>2. \A q \in Orders : q # o => RefundsOf(q)' = RefundsOf(q)
    BY <1>7 DEF RefundsOf
  <2>3. \A q \in Orders : q # o => Later(q)' = Later(q)
    <3> SUFFICES ASSUME NEW q \in Orders, q # o PROVE Later(q)' = Later(q)
      OBVIOUS
    <3>1. \A s \in Succeeded : updatedAt'[s] = updatedAt[s]
      BY <1>3, <1>8 DEF Succeeded
    <3> QED
      BY <1>3, <1>7, <3>1 DEF Later
  <2>4. RefundsOf(o)' = RefundsOf(o) \cup {r} /\ r \notin RefundsOf(o)
    BY <1>3, <1>7 DEF RefundsOf
  <2>5. Later(o)' = Later(o) \cup {r} /\ r \notin Later(o)
    <3>1. \A s \in Succeeded : updatedAt'[s] = updatedAt[s]
      BY <1>3, <1>8 DEF Succeeded
    <3> QED
      BY <1>3, <1>6, <1>7, <3>1 DEF Later
  <2> QED
    BY <2>1, <2>2, <2>3, <2>4, <2>5
<1>11. SumOfRefunds(RefundsOf(o))' = b + n
  <2>1. SumOfRefunds(RefundsOf(o) \cup {r}) = SumOfRefunds(RefundsOf(o)) + RefundAmount[r]
    BY <1>1, <1>10, RefundsSplit, RefundsFinite, TotalAdd DEF SumOfRefunds, n
  <2> QED
    BY <1>10, <2>1 DEF b, n, SumOfRefunds
<1>12. WithinPayable'
  <2>1. SumOfRefunds(RefundsOf(o))' <= Payable[o]
    BY <1>2, <1>11
  <2>2. \A q \in Orders : q # o => SumOfRefunds(RefundsOf(q))' = SumOfRefunds(RefundsOf(q))
    BY <1>10 DEF SumOfRefunds
  <2> QED
    BY <2>1, <2>2 DEF WithinPayable
<1>13. \A s \in Refunds : s # r => Repaired(s)' = Repaired(s)
  BY <1>10, RefundTyped DEF Repaired
<1>14. \A s \in Refunds : RefundWritten(s)'
  <2> TAKE s \in Refunds
  <2>1. CASE s # r
    <3>1. \A k \in RefundKinds : Entry(k, s) \in entries' <=> Entry(k, s) \in entries
      BY <1>5, <2>1 DEF Entry
    <3>2. s \in Succeeded' <=> s \in Succeeded
      BY <1>7, <2>1
    <3> QED
      BY <1>8, <1>13, <2>1, <3>1, <3>2 DEF LedgerSane, RefundWritten, RefundKinds
  <2>2. CASE s = r
    <3>1. /\ Entry("REFUND", r) \in entries'
          /\ Entry("COMMISSION-REFUND", r) \in entries' <=> x > 0
      BY <1>3, <1>5 DEF Entry
    <3> QED
      BY <1>4, <1>6, <1>7, <1>9, <2>2, <3>1 DEF RefundWritten
  <2> QED
    BY <2>1, <2>2
<1>15. \A q \in Orders : LaterReversed(q)'
  <2> TAKE q \in Orders
  <2>0. LaterReversed(q)
    BY DEF LedgerSane
  <2>1. CASE q # o
    <3>1. \A s \in Later(q) : commissionRefund'[s] = commissionRefund[s]
      BY <1>3, <1>8 DEF Later, Succeeded
    <3>2. Total(Later(q), commissionRefund') = Total(Later(q), commissionRefund)
      BY <3>1, TotalSame
    <3> QED
      BY <1>10, <2>0, <2>1, <3>2 DEF LaterReversed
  <2>2. CASE q = o
    <3> DEFINE P(m) == proportionalRefundCommission(o, m)
               d == SumOfRefunds(FirstDay(o))
    <3>1. \A s \in Later(o) : commissionRefund'[s] = commissionRefund[s]
      BY <1>3, <1>8 DEF Later, Succeeded
    <3>2. IsFiniteSet(Later(o))
      BY <1>1, RefundsSplit, RefundsFinite
    <3>3. Total(Later(o) \cup {r}, commissionRefund') = Total(Later(o), commissionRefund') + x
      BY <1>4, <1>9, <1>10, <3>2, TotalAdd
    <3>4. Total(Later(o), commissionRefund') = P(b) - P(d)
      BY <2>0, <2>2, <3>1, TotalSame DEF LaterReversed, b
    <3>5. x = P(b + n) - P(b)
      BY DEF x, Step
    <3>6. P(b) \in Nat /\ P(b + n) \in Nat /\ P(d) \in Nat
      <4>1. P(b) \in Nat /\ P(b + n) \in Nat
        BY <1>1, <1>2, <1>4, StepTyped
      <4>2. FirstDay(o) \in SUBSET RefundsOf(o)
        BY <1>1, RefundsSplit
      <4>3. P(d) \in Nat
        BY <1>1, <4>2, SharesTyped
      <4> QED
        BY <4>1, <4>3
    <3>7. Total(Later(o) \cup {r}, commissionRefund') = P(b + n) - P(d)
      <4> HIDE DEF P, d
      <4> QED
        BY <3>3, <3>4, <3>5, <3>6
    <3>8. SumOfRefunds(FirstDay(o))' = d
      BY <1>1, <1>10 DEF SumOfRefunds
    <3> QED
      BY <1>10, <1>11, <2>2, <3>7, <3>8 DEF LaterReversed
  <2> QED
    BY <2>1, <2>2
<1> QED
  BY <1>3, <1>5, <1>8, <1>9, <1>12, <1>14, <1>15 DEF LedgerSane, Entry

\* A repair writes what the refund should have given back, and what it wrote
\* before it writes again.
LEMMA RepairKeeps ==
  ASSUME TypeOK, ClockSane, WithinPayable, LedgerSane,
         NEW r \in Refunds, updatedAt[r] = 0, updatedAt' = updatedAt,
         CreateRefundEntries(r, SumSucceededRefundsBefore(r))
  PROVE  /\ WithinPayable' /\ LedgerSane'
         /\ entries \subseteq entries'
         /\ \A s \in Refunds :
              Entry("REFUND", s) \in entries => commissionRefund'[s] = commissionRefund[s]
         /\ commissionRefund' \in [Refunds -> Nat]
         /\ \A s \in Refunds : s # r => (Entry("REFUND", s) \in entries' <=> Entry("REFUND", s) \in entries)
         /\ Entry("REFUND", r) \in entries'
<1> DEFINE o == OrderOf[r]
           x == Repaired(r)
<1>1. /\ r \in Succeeded /\ Succeeded' = Succeeded
      /\ \A s \in Succeeded : updatedAt[s] \in Nat
  BY SettingsTyped DEF Succeeded, TypeOK
<1>2. {s \in RefundsOf(o) : \/ updatedAt[s] < updatedAt[r]
                            \/ updatedAt[s] = updatedAt[r] /\ s < r}
        = {s \in FirstDay(o) : s < r}
  <2>1. \A s \in RefundsOf(o) : ~(updatedAt[s] < 0)
    BY <1>1 DEF RefundsOf
  <2>2. \A s \in FirstDay(o) : s \in RefundsOf(o)
    BY RefundTyped, RefundsSplit
  <2> QED
    BY <2>1, <2>2 DEF FirstDay, RefundsOf, Succeeded
<1>3. SumSucceededRefundsBefore(r) = SumOfRefunds({s \in FirstDay(o) : s < r})
  BY <1>2 DEF SumSucceededRefundsBefore
<1>4. x = Step(o, SumSucceededRefundsBefore(r), RefundAmount[r])
  BY <1>3 DEF Repaired
<1>5. x \in 0..MaxAmount /\ x \in Nat
  BY RepairedTyped, MaxAmountTyped
<1>6. RefundWritten(r)
  BY DEF LedgerSane
<1> HIDE DEF x
<1>7. entries' = entries \cup ({Entry("REFUND", r)} \cup
                   {e \in {Entry("COMMISSION-REFUND", r)} : x > 0})
  BY <1>4 DEF CreateRefundEntries, CreateEntries, Step
<1>8. commissionRefund' = [commissionRefund EXCEPT ![r] = x]
  <2>1. CASE Entry("COMMISSION-REFUND", r) \in entries
    <3>1. commissionRefund[r] = x /\ commissionRefund' = commissionRefund
      BY <1>6, <2>1 DEF RefundWritten, CreateRefundEntries, x
    <3> QED
      BY <3>1 DEF TypeOK
  <2>2. CASE Entry("COMMISSION-REFUND", r) \notin entries
    BY <1>4, <2>2 DEF CreateRefundEntries, Step
  <2> QED
    BY <2>1, <2>2
<1>9. /\ commissionRefund'[r] = x /\ commissionRefund' \in [Refunds -> Nat]
      /\ \A s \in Refunds : s # r => commissionRefund'[s] = commissionRefund[s]
  BY <1>5, <1>8 DEF TypeOK
<1>10. Entry("REFUND", r) \in entries => commissionRefund[r] = x
  BY <1>6 DEF RefundWritten, x
<1>11. /\ \A q \in Orders : /\ RefundsOf(q)' = RefundsOf(q)
                            /\ FirstDay(q)' = FirstDay(q)
                            /\ Later(q)' = Later(q)
       /\ \A s \in Refunds : Repaired(s)' = Repaired(s)
  BY <1>1 DEF RefundsOf, FirstDay, Later, Repaired
<1>12. WithinPayable'
  BY <1>11 DEF WithinPayable
<1>13. \A s \in Refunds : s # r => RefundWritten(s)'
  <2> TAKE s \in Refunds
  <2> HAVE s # r
  <2>1. \A k \in RefundKinds : Entry(k, s) \in entries' <=> Entry(k, s) \in entries
    BY <1>7 DEF Entry
  <2> QED
    BY <1>1, <1>9, <1>11, <2>1 DEF LedgerSane, RefundWritten, RefundKinds
<1>14. RefundWritten(r)'
  <2>1. /\ Entry("REFUND", r) \in entries'
        /\ x > 0 => Entry("COMMISSION-REFUND", r) \in entries'
    BY <1>7
  <2>2. Entry("COMMISSION-REFUND", r) \in entries' => x > 0
    <3>1. Entry("COMMISSION-REFUND", r) \in entries => x > 0
      BY <1>6, <1>10 DEF RefundWritten
    <3> QED
      BY <1>7, <3>1 DEF Entry
  <2> QED
    BY <1>1, <1>5, <1>9, <1>11, <2>1, <2>2 DEF RefundWritten, x
<1>15. \A q \in Orders : LaterReversed(q)'
  <2> TAKE q \in Orders
  <2>1. \A s \in Later(q) : s \in Refunds /\ s # r
    BY DEF Later, Succeeded
  <2>2. Total(Later(q), commissionRefund') = Total(Later(q), commissionRefund)
    BY <1>9, <2>1, TotalSame
  <2> QED
    BY <1>11, <2>2 DEF LedgerSane, LaterReversed
<1> QED
  BY <1>7, <1>9, <1>10, <1>12, <1>13, <1>14, <1>15 DEF LedgerSane, Entry

-----------------------------------------------------------------------------
(***************************************************************************)
(* What every step does to the world and to the ledger.                    *)
(***************************************************************************)

\* The ledger grows and stays right, and no refund is found missing later.
LedgerMoves ==
  /\ entries \subseteq entries'
  /\ \A r \in Refunds :
       Entry("REFUND", r) \in entries => commissionRefund'[r] = commissionRefund[r]
  /\ commissionRefund' \in [Refunds -> Nat]
  /\ WithinPayable' /\ LedgerSane'
  /\ MissingRefunds = {} => MissingRefunds' = {}

\* An order's entries are entries of sales.
LEMMA OrderEntriesTyped ==
  ASSUME NEW o \in Orders
  PROVE  /\ OrderEntries(o) \subseteq Entries
         /\ \A e \in OrderEntries(o) : e.kind \in SaleKinds /\ e.of = o
         /\ \A r \in Refunds, k \in RefundKinds : Entry(k, r) \notin OrderEntries(o)
BY DEF OrderEntries, Entry, Entries, SaleKinds, RefundKinds

\* A step that leaves the refunds and the ledger alone.
LEMMA LedgerStays ==
  ASSUME TypeOK, WithinPayable, LedgerSane, UNCHANGED <<updatedAt, ledger>>
  PROVE  LedgerMoves
<1>1. QuietAboutRefunds
  BY DEF QuietAboutRefunds, ledger
<1> QED
  BY <1>1, QuietKeeps
  DEF LedgerMoves, ledger, TypeOK, MissingRefunds, Succeeded

\* An order's entries are added.
LEMMA LedgerSells ==
  ASSUME TypeOK, WithinPayable, LedgerSane, NEW o \in Orders,
         UNCHANGED <<updatedAt, commissionRefund>>, CreateEntries(OrderEntries(o))
  PROVE  LedgerMoves
<1>1. entries' = entries \cup OrderEntries(o)
  BY DEF CreateEntries
<1>2. QuietAboutRefunds
  BY <1>1, OrderEntriesTyped DEF QuietAboutRefunds
<1> QED
  BY <1>1, <1>2, QuietKeeps DEF LedgerMoves, TypeOK, MissingRefunds, Succeeded

\* A refund's entries are added.
LEMMA LedgerRefunds ==
  ASSUME TypeOK, NEW r \in Refunds, Succeeded' \subseteq Succeeded \cup {r},
         WithinPayable' /\ LedgerSane',
         entries \subseteq entries',
         \A s \in Refunds :
           Entry("REFUND", s) \in entries => commissionRefund'[s] = commissionRefund[s],
         commissionRefund' \in [Refunds -> Nat],
         Entry("REFUND", r) \in entries'
  PROVE  LedgerMoves
BY DEF LedgerMoves, MissingRefunds

\* Every step of the world and of the ledger is one of those.
LEMMA StepMoves ==
  ASSUME TypeOK, ClockSane, WithinPayable, LedgerSane, CommandsSane, [Next]_vars
  PROVE  WorldMoves /\ LedgerMoves
<1>0. now \in Nat /\ now \in Times
  BY SettingsTyped DEF ClockSane
<1>1. ASSUME UNCHANGED world PROVE WorldMoves
  BY <1>0, <1>1 DEF WorldMoves, world
<1>2. ASSUME UNCHANGED <<world, ledger>> PROVE WorldMoves /\ LedgerMoves
  BY <1>1, <1>2, LedgerStays DEF world
<1>3. CASE Tick
  <2>1. now' \in Times /\ now <= now'
    BY <1>0, <1>3, SettingsTyped DEF Tick, Times
  <2>2. UNCHANGED <<completedAt, updatedAt, refundedAt, ledger>>
    BY <1>3 DEF Tick
  <2> QED
    BY <2>1, <2>2, LedgerStays DEF WorldMoves
<1>4. ASSUME NEW o \in Orders, CompleteOrder(o) PROVE WorldMoves /\ LedgerMoves
  <2>1. /\ completedAt[o] = Never /\ completedAt' = [completedAt EXCEPT ![o] = now]
        /\ UNCHANGED <<now, updatedAt, refundedAt, ledger>>
    BY <1>4 DEF CompleteOrder
  <2>2. WorldMoves
    BY <1>0, <2>1 DEF WorldMoves, TypeOK
  <2> QED
    BY <2>1, <2>2, LedgerStays
<1>5. ASSUME NEW r \in Refunds, SucceedRefund(r) PROVE WorldMoves /\ LedgerMoves
  <2>1. /\ updatedAt[r] = Never /\ updatedAt' = [updatedAt EXCEPT ![r] = now]
        /\ \E t \in 0..now : refundedAt' = [refundedAt EXCEPT ![r] = t]
        /\ UNCHANGED <<now, completedAt>>
    BY <1>5 DEF SucceedRefund
  <2>2. WorldMoves
    BY <1>0, <2>1 DEF WorldMoves, TypeOK
  <2>3. Succeeded' \subseteq Succeeded \cup {r}
    BY <2>1 DEF Succeeded, TypeOK
  <2>4. LedgerMoves
    BY <1>5, <2>3, SucceedKeeps, LedgerRefunds
  <2> QED
    BY <2>2, <2>4
<1>6. ASSUME NEW c \in Commands, AccrueOrder(c) PROVE WorldMoves /\ LedgerMoves
  <2>1. PICK o \in command[c].todoOrders : CreateEntries(OrderEntries(o))
    BY <1>6 DEF AccrueOrder
  <2>2. o \in Orders
    BY <2>1 DEF TypeOK, Locals
  <2>3. UNCHANGED <<world, commissionRefund>>
    BY <1>6 DEF AccrueOrder, Goto
  <2> QED
    BY <1>1, <2>1, <2>2, <2>3, LedgerSells DEF world
<1>7. ASSUME NEW c \in Commands, AccrueRefund(c) PROVE WorldMoves /\ LedgerMoves
  <2>1. PICK r \in command[c].todoRefunds :
          CreateRefundEntries(r, SumSucceededRefundsBefore(r))
    BY <1>7 DEF AccrueRefund
  <2>2. r \in Refunds /\ updatedAt[r] = 0
    BY <2>1 DEF TypeOK, Locals, CommandsSane, CommandSane
  <2>3. UNCHANGED world
    BY <1>7 DEF AccrueRefund, Goto
  <2>4. updatedAt' = updatedAt /\ Succeeded' = Succeeded
    BY <2>3 DEF world, Succeeded
  <2>5. LedgerMoves
    BY <2>1, <2>2, <2>4, RepairKeeps, LedgerRefunds
  <2> QED
    BY <1>1, <2>3, <2>5
<1>8. ASSUME NEW c \in Commands,
             Start(c) \/ ListRefunds(c) \/ NextRound(c) \/ GenerateSelect(c)
               \/ GenerateCommit(c) \/ Crash(c)
      PROVE  WorldMoves /\ LedgerMoves
  <2>1. UNCHANGED <<world, ledger>>
    BY <1>8
    DEF Start, ListRefunds, NextRound, GenerateSelect, GenerateCommit, Crash, Goto
  <2> QED
    BY <1>2, <2>1
<1>9. CASE UNCHANGED vars
  BY <1>2, <1>9 DEF vars
<1> QED
  BY <1>3, <1>4, <1>5, <1>6, <1>7, <1>8, <1>9 DEF Next, Proceed

\* Entries keep their amounts, and collections of them their totals.
LEMMA TotalsKeep ==
  ASSUME TypeOK, LedgerSane, LedgerMoves, NEW es \in SUBSET entries
  PROVE  Totals(es)' = Totals(es)
<1>1. \A e \in es : Amount(e)' = Amount(e)
  <2> TAKE e \in es
  <2>1. e \in Entries /\ e \in entries /\ e = Entry(e.kind, e.of)
    BY EntryTyped DEF TypeOK
  <2>2. CASE e.kind = "COMMISSION-REFUND"
    <3>1. e.of \in Refunds /\ Entry("COMMISSION-REFUND", e.of) \in entries
      BY <2>1, <2>2, EntryTyped DEF SaleKinds
    <3>2. Entry("REFUND", e.of) \in entries
      BY <3>1 DEF LedgerSane, RefundWritten
    <3>3. commissionRefund'[e.of] = commissionRefund[e.of]
      BY <3>1, <3>2 DEF LedgerMoves
    <3> QED
      BY <2>2, <3>3 DEF Amount
  <2>3. CASE e.kind # "COMMISSION-REFUND"
    BY <2>1, <2>3, EntryTyped DEF Amount, SaleKinds, RefundKinds
  <2> QED
    BY <2>2, <2>3
<1>2. \A S \in SUBSET es : SumOf(S)' = SumOf(S)
  <2> TAKE S \in SUBSET es
  <2>1. [e \in S |-> Amount(e)]' = [e \in S |-> Amount(e)]
    BY <1>1
  <2>2. [e \in S |-> -Amount(e)]' = [e \in S |-> -Amount(e)]
    BY <1>1
  <2> QED
    BY <2>1, <2>2 DEF SumOf
<1>3. \A k : OfKind(k, es) \in SUBSET es
  BY DEF OfKind
<1>4. SumOf(es)' = SumOf(es) /\ \A k : SumOf(OfKind(k, es))' = SumOf(OfKind(k, es))
  BY <1>2, <1>3
<1> QED
  BY <1>4 DEF Totals

-----------------------------------------------------------------------------
(***************************************************************************)
(* Settlements.                                                            *)
(***************************************************************************)

\* The rows of the settlements have their shape.
SettlementsTyped ==
  \A s \in settlements :
    /\ PeriodOf(s) \in Periods /\ s.totals \in AllTotals
    /\ s.startedAt \in Times /\ s.collectedAt \in Times

\* Entries that are in a settlement stay in it.
SettledStays ==
  \A e \in Entries : settledIn[e] # NoPeriod => settledIn'[e] = settledIn[e]

\* A step that attaches nothing leaves the settlements complete.
LEMMA SettlementsKeep ==
  ASSUME TypeOK, ClockSane, LedgerSane, WorldMoves, LedgerMoves,
         MadeBefore, SettlementsBalance, NothingMissed,
         UNCHANGED <<settledIn, settlements>>
  PROVE  MadeBefore' /\ SettlementsBalance' /\ NothingMissed'
<1>1. now \in Nat /\ now' \in Nat /\ now <= now'
  BY SettingsTyped DEF ClockSane, WorldMoves
<1>2. \A s \in settlements :
        /\ PeriodOf(s) \in Periods
        /\ s.startedAt \in Nat /\ s.startedAt <= now
        /\ s.collectedAt \in Nat /\ s.collectedAt <= now
  BY SettingsTyped DEF TypeOK, MadeBefore
<1>3. MadeBefore'
  BY <1>1, <1>2 DEF MadeBefore
<1>4. SettlementsBalance'
  <2>1. ASSUME NEW s \in settlements
        PROVE  LET es == SettledEntries(PeriodOf(s)) IN
               /\ es # {} /\ es \subseteq entries'
               /\ s.totals = Totals(es)'
               /\ s.totals.net = s.totals.gross - s.totals.commission - s.totals.refund
    <3> DEFINE es == SettledEntries(PeriodOf(s))
    <3>1. /\ es # {} /\ es \subseteq entries /\ s.totals = Totals(es)
          /\ s.totals.net = s.totals.gross - s.totals.commission - s.totals.refund
      BY DEF SettlementsBalance
    <3>2. PICK S : S = es
      OBVIOUS
    <3>3. Totals(S)' = Totals(S)
      BY <3>1, <3>2, TotalsKeep
    <3>4. es' = es
      BY DEF SettledEntries
    <3> QED
      BY <3>1, <3>2, <3>3, <3>4 DEF LedgerMoves
  <2>2. \A s \in settlements : SettledEntries(PeriodOf(s))' = SettledEntries(PeriodOf(s))
    BY DEF SettledEntries
  <2>3. \A e \in Entries : settledIn[e] = NoPeriod \/ Settled(settledIn[e])
    BY DEF SettlementsBalance
  <2>4. \A s, t \in settlements : PeriodOf(s) = PeriodOf(t) => s = t
    BY DEF SettlementsBalance
  <2> QED
    BY <2>1, <2>2, <2>3, <2>4 DEF SettlementsBalance, Settled
<1>5. NothingMissed'
  <2> SUFFICES ASSUME NEW s \in settlements,
                      NEW e \in Due(PeriodOf(s), s.startedAt, s.collectedAt)'
               PROVE  settledIn[e] # NoPeriod
    BY DEF NothingMissed
  <2>1. PICK p \in Periods, from \in Nat, upto \in Nat :
          /\ p = PeriodOf(s) /\ from = s.startedAt /\ upto = s.collectedAt
          /\ from <= now /\ upto <= now
    BY <1>2
  <2>2. Due(p, from, upto)' = Due(p, from, upto)
    BY <2>1, DueKeeps
  <2> QED
    BY <2>1, <2>2 DEF NothingMissed
<1> QED
  BY <1>3, <1>4, <1>5

\* What is due are entries.
LEMMA DueTyped ==
  ASSUME NEW p, NEW from, NEW upto
  PROVE  Due(p, from, upto) \subseteq Entries
<1>1. \A o \in Completed : OrderEntries(o) \subseteq Entries
  BY OrderEntriesTyped DEF Completed
<1>2. \A r \in Succeeded : Entry("REFUND", r) \in Entries
  BY DEF Succeeded, Entry, Entries
<1> DEFINE sold == Sold(p, from)
           refunded == Refunded(p, from, upto)
<1>3. Due(p, from, upto) = {Entry("REFUND", r) : r \in refunded}
                              \cup (UNION {OrderEntries(o) : o \in sold})
  BY DueSplit
<1>4. sold \subseteq Completed /\ refunded \subseteq Succeeded
  BY DEF Sold, OldOrders, Refunded
<1> HIDE DEF sold, refunded
<1>5. ASSUME NEW e \in UNION {OrderEntries(o) : o \in sold} PROVE e \in Entries
  <2>1. PICK o \in sold : e \in OrderEntries(o)
    BY <1>5
  <2> QED
    BY <1>1, <1>4, <2>1
<1>6. ASSUME NEW e \in {Entry("REFUND", r) : r \in refunded} PROVE e \in Entries
  <2>1. PICK r \in refunded : e = Entry("REFUND", r)
    BY <1>6
  <2> QED
    BY <1>2, <1>4, <2>1
<1> QED
  BY <1>3, <1>5, <1>6

\* A commit settles the period with exactly what the command collected, which
\* no other settlement has.
LEMMA CommitSettles ==
  ASSUME TypeOK, ClockSane, LedgerSane, CommandsSane,
         MadeBefore, SettlementsBalance, NothingMissed,
         WorldMoves, LedgerMoves, NEW c \in Commands, GenerateCommit(c)
  PROVE  /\ MadeBefore' /\ SettlementsBalance' /\ NothingMissed'
         /\ \A e \in Entries :
              e \notin command[c].held => settledIn'[e] = settledIn[e]
         /\ SettledStays
         /\ settledIn' \in [Entries -> Periods \cup {NoPeriod}]
         /\ SettlementsTyped'
<1>1. PICK l \in Locals : l = command[c]
  BY DEF TypeOK
<1>2. /\ l.pc = "commit" /\ l.period \in Periods
      /\ l.startedAt \in Times /\ l.collectedAt \in Times
      /\ l.startedAt <= now /\ l.collectedAt <= now
      /\ l.held # {} /\ l.held \subseteq entries /\ l.held \in SUBSET Entries
      /\ Totals(l.held).commission >= 0
      /\ \A e \in l.held : settledIn[e] = NoPeriod
      /\ \A e \in Due(l.period, l.startedAt, l.collectedAt) :
           e \in l.held \/ settledIn[e] # NoPeriod
      /\ UNCHANGED <<world, ledger>>
  BY <1>1 DEF GenerateCommit, Goto, CommandsSane, CommandSane, Collected, Collecting, Locals
<1>3. CASE Settled(l.period)
  <2>1. UNCHANGED <<settledIn, settlements>>
    BY <1>1, <1>3 DEF GenerateCommit
  <2> QED
    BY <2>1, SettlementsKeep DEF TypeOK, SettlementsTyped, SettledStays
<1>4. CASE ~Settled(l.period)
  <2> DEFINE p == l.period
             n == [merchant |-> p.merchant, start |-> p.start, end |-> p.end,
                   totals |-> Totals(l.held), startedAt |-> l.startedAt,
                   collectedAt |-> l.collectedAt]
  <2>1. /\ settlements' = settlements \cup {n}
        /\ settledIn' = [e \in Entries |-> IF e \in l.held THEN p ELSE settledIn[e]]
    BY <1>1, <1>4 DEF GenerateCommit, AttachEntries
  <2>2. /\ \A e \in Entries : e \in l.held => settledIn'[e] = p
        /\ \A e \in Entries : e \notin l.held => settledIn'[e] = settledIn[e]
    BY <2>1
  <2>3. p # NoPeriod /\ PeriodOf(n) = p
    BY <1>2, SettingsTyped DEF PeriodOf
  <2>4. SettledStays
    BY <1>2, <2>2 DEF SettledStays
  <2>5. settledIn' \in [Entries -> Periods \cup {NoPeriod}]
    BY <1>2, <2>1 DEF TypeOK
  <2>6. n.totals \in AllTotals /\ n.totals.net = n.totals.gross - n.totals.commission - n.totals.refund
    <3> DEFINE t == Totals(l.held)
    <3>1. /\ t.gross \in Nat /\ t.refund \in Nat /\ t.commission \in Int /\ t.net \in Int
          /\ t.net = t.gross - t.commission - t.refund
      BY <1>2, TotalsTyped DEF TypeOK
    <3>2. t.commission \in Nat
      BY <1>2, <3>1
    <3>3. t = [gross |-> t.gross, commission |-> t.commission, refund |-> t.refund, net |-> t.net]
      BY DEF Totals
    <3>4. t \in AllTotals
      <4> HIDE DEF t
      <4> QED
        BY <3>1, <3>2, <3>3 DEF AllTotals
    <3>5. n.totals = t
      OBVIOUS
    <3> QED
      BY <3>1, <3>4, <3>5
  <2>7. \A s \in settlements : PeriodOf(s) # p
    BY <1>4 DEF Settled
  <2>8. SettledEntries(p)' = l.held
    <3>1. \A e \in Entries : settledIn[e] # p
      BY <1>4, <2>3 DEF SettlementsBalance
    <3> QED
      BY <1>2, <2>2, <3>1 DEF SettledEntries
  <2>9. \A s \in settlements : SettledEntries(PeriodOf(s))' = SettledEntries(PeriodOf(s))
    <3> TAKE s \in settlements
    <3>1. PeriodOf(s) # p /\ PeriodOf(s) # NoPeriod
      BY <2>7, SettingsTyped DEF TypeOK
    <3>2. \A e \in Entries : settledIn'[e] = PeriodOf(s) <=> settledIn[e] = PeriodOf(s)
      BY <1>2, <2>2, <3>1
    <3> QED
      BY <3>2 DEF SettledEntries
  <2>10. \A S \in SUBSET entries : Totals(S)' = Totals(S)
    BY TotalsKeep
  <2>11. entries' = entries /\ now' = now
    BY <1>2 DEF ledger, world
  <2>12. MadeBefore'
    BY <1>2, <2>1, <2>11 DEF MadeBefore
  <2>13. SettlementsBalance'
    <3>1. \A s, t \in settlements' : PeriodOf(s) = PeriodOf(t) => s = t
      BY <2>1, <2>3, <2>7 DEF SettlementsBalance
    <3>2. ASSUME NEW s \in settlements'
          PROVE  /\ SettledEntries(PeriodOf(s))' # {}
                 /\ SettledEntries(PeriodOf(s))' \subseteq entries'
                 /\ s.totals = Totals(SettledEntries(PeriodOf(s)))'
                 /\ s.totals.net = s.totals.gross - s.totals.commission - s.totals.refund
      <4>1. CASE s \in settlements
        <5>1. PICK S : S = SettledEntries(PeriodOf(s))
          OBVIOUS
        <5>2. /\ S # {} /\ S \subseteq entries /\ s.totals = Totals(S)
              /\ s.totals.net = s.totals.gross - s.totals.commission - s.totals.refund
          BY <4>1, <5>1 DEF SettlementsBalance
        <5>3. SettledEntries(PeriodOf(s))' = S /\ Totals(S)' = Totals(S)
          BY <2>9, <2>10, <4>1, <5>1, <5>2
        <5> QED
          BY <2>11, <5>2, <5>3
      <4>2. CASE s = n
        <5>1. SettledEntries(PeriodOf(s))' = l.held
          BY <2>3, <2>8, <4>2
        <5>2. Totals(l.held)' = Totals(l.held) /\ s.totals = Totals(l.held)
          BY <1>2, <2>10, <4>2
        <5> QED
          BY <1>2, <2>6, <2>11, <4>2, <5>1, <5>2
      <4> QED
        BY <2>1, <4>1, <4>2
    <3>3. \A e \in Entries : settledIn'[e] = NoPeriod \/ Settled(settledIn[e])'
      <4> TAKE e \in Entries
      <4>1. CASE e \in l.held
        BY <2>1, <2>2, <2>3, <4>1 DEF Settled
      <4>2. CASE e \notin l.held
        BY <2>1, <2>2, <4>2 DEF Settled, SettlementsBalance
      <4> QED
        BY <4>1, <4>2
    <3> QED
      BY <3>1, <3>2, <3>3 DEF SettlementsBalance
  <2>14. NothingMissed'
    <3>1. \A s \in settlements' :
            Due(PeriodOf(s), s.startedAt, s.collectedAt)'
              = Due(PeriodOf(s), s.startedAt, s.collectedAt)
      BY <1>2 DEF Due, Completed, Succeeded, OrderEntries, world
    <3>2. ASSUME NEW s \in settlements',
                 NEW e \in Due(PeriodOf(s), s.startedAt, s.collectedAt)
          PROVE  settledIn'[e] # NoPeriod
      <4>1. e \in Entries
        BY DueTyped
      <4>2. e \in l.held \/ settledIn[e] # NoPeriod
        BY <1>2, <2>1, <2>3 DEF NothingMissed
      <4> QED
        BY <2>2, <2>3, <4>1, <4>2
    <3> QED
      BY <3>1, <3>2 DEF NothingMissed
  <2>15. SettlementsTyped'
    BY <1>2, <2>1, <2>3, <2>6 DEF TypeOK, SettlementsTyped
  <2> QED
    BY <1>1, <2>2, <2>4, <2>5, <2>12, <2>13, <2>14, <2>15
<1> QED
  BY <1>3, <1>4

-----------------------------------------------------------------------------
(***************************************************************************)
(* Commands.                                                               *)
(***************************************************************************)

\* A batch takes rows, and none only when there are none.
LEMMA BatchTyped ==
  ASSUME NEW rows, IsFiniteSet(rows), NEW b \in Batches(rows)
  PROVE  b \subseteq rows /\ (b = {} => rows = {})
<1> DEFINE n == Cardinality(rows)
           m == Min({BatchSize, n})
<1>1. b \subseteq rows /\ Cardinality(b) = m
  BY DEF Batches
<1>2. n \in Nat
  BY FS_CardinalityType
<1>3. m \in {BatchSize, n}
  <2>1. \E x \in {BatchSize, n} : \A y \in {BatchSize, n} : x =< y
    <3>1. BatchSize =< n \/ n =< BatchSize
      BY <1>2, SettingsTyped
    <3>2. BatchSize =< BatchSize /\ n =< n
      BY <1>2, SettingsTyped
    <3> HIDE DEF n
    <3> QED
      BY <3>1, <3>2
  <2> HIDE DEF n
  <2> QED
    BY <2>1 DEF Min
<1>4. ASSUME b = {} PROVE rows = {}
  <2>1. Cardinality(b) = 0
    BY <1>4, FS_EmptySet
  <2>2. n = 0
    <3> HIDE DEF n, m
    <3> QED
      BY <1>1, <1>3, <2>1, SettingsTyped
  <2> QED
    BY <2>2, FS_EmptySet
<1> QED
  BY <1>1, <1>4

\* Missing rows are finitely many orders and refunds.
LEMMA MissingTyped ==
  /\ MissingOrders \subseteq Orders /\ IsFiniteSet(MissingOrders)
  /\ MissingRefunds \subseteq Refunds /\ IsFiniteSet(MissingRefunds)
<1>1. MissingOrders \subseteq Orders /\ MissingRefunds \subseteq Refunds
  BY DEF MissingOrders, MissingRefunds, Completed, Succeeded
<1> QED
  BY <1>1, FS_Subset, OrdersAssumption, RefundsAssumption
  DEF OrdersAssumption, RefundsAssumption

\* What a command relies on stays true while others go on.
LEMMA CommandKeeps ==
  ASSUME TypeOK, ClockSane, LedgerSane, WorldMoves, LedgerMoves, SettledStays,
         NEW l \in Locals, CommandSane(l), Collected(l),
         \A e \in l.held : settledIn'[e] = settledIn[e]
  PROVE  CommandSane(l)' /\ Collected(l)'
<1>1. now \in Nat /\ now' \in Nat /\ now <= now' /\ l.startedAt \in Nat
  BY SettingsTyped DEF ClockSane, WorldMoves, Locals
<1>2. l.pc # "idle" => l.startedAt <= now'
  BY <1>1 DEF CommandSane
<1>3. \A r \in l.todoRefunds : updatedAt'[r] = 0
  <2>1. \A r \in l.todoRefunds : r \in Succeeded /\ updatedAt[r] = 0
    BY SettingsTyped DEF CommandSane, Locals, Succeeded
  <2> QED
    BY <2>1, SucceededMoves
<1>4. OrdersWritten(l) /\ l.pc # "idle" => OrdersWritten(l)'
  <2> SUFFICES ASSUME OrdersWritten(l), l.pc # "idle",
                      NEW o \in Completed', completedAt'[o] < l.startedAt
               PROVE  OrderEntries(o) \subseteq entries'
    BY DEF OrdersWritten, OrderEntries
  <2>1. o \in Completed
    BY <1>1, CompletedMoves DEF CommandSane
  <2>2. OrderEntries(o) \subseteq entries
    BY <2>1, CompletedMoves DEF OrdersWritten
  <2> QED
    BY <2>2 DEF LedgerMoves
<1>5. MissingRefunds = {} => MissingRefunds' = {}
  BY DEF LedgerMoves
<1>6. CommandSane(l)'
  BY <1>2, <1>3, <1>4, <1>5 DEF CommandSane, Collecting
<1>7. Collected(l)'
  <2> SUFFICES ASSUME l.pc = "commit"
               PROVE  /\ l.collectedAt <= now'
                      /\ l.held # {} /\ l.held \subseteq entries'
                      /\ Totals(l.held)'.commission >= 0
                      /\ \A e \in l.held : settledIn'[e] = NoPeriod
                      /\ \A e \in Due(l.period, l.startedAt, l.collectedAt)' :
                           e \in l.held \/ settledIn'[e] # NoPeriod
    BY DEF Collected
  <2>1. /\ l.period \in Periods /\ l.startedAt <= now
        /\ l.collectedAt \in Nat /\ l.collectedAt <= now
        /\ l.held # {} /\ l.held \subseteq entries
        /\ Totals(l.held).commission >= 0
        /\ \A e \in l.held : settledIn[e] = NoPeriod
        /\ \A e \in Due(l.period, l.startedAt, l.collectedAt) :
             e \in l.held \/ settledIn[e] # NoPeriod
    BY SettingsTyped DEF CommandSane, Collected, Collecting, Locals
  <2>2. Totals(l.held)' = Totals(l.held)
    BY <2>1, TotalsKeep
  <2>3. PICK p \in Periods, from \in Nat, upto \in Nat :
          p = l.period /\ from = l.startedAt /\ upto = l.collectedAt
    BY <1>1, <2>1
  <2>4. Due(p, from, upto)' = Due(p, from, upto) /\ Due(p, from, upto) \subseteq Entries
    BY <2>1, <2>3, DueKeeps, DueTyped
  <2> QED
    BY <1>1, <2>1, <2>2, <2>3, <2>4 DEF LedgerMoves, SettledStays
<1> QED
  BY <1>6, <1>7

\* A command moves to locals that it may rely on, and holds nothing others do.
Moves(c, l) ==
  /\ command' = [command EXCEPT ![c] = l]
  /\ CommandSane(l) /\ Collected(l)
  /\ l.held \cap HeldByOthers(c) = {}

\* A command that stops relies on nothing.
LEMMA IdleSane ==
  /\ Idle \in Locals /\ Idle.held = {} /\ Idle.pc = "idle"
  /\ CommandSane(Idle) /\ Collected(Idle)
<1>1. Idle \in Locals
  BY SettingsTyped DEF Idle, Locals, Steps
<1>2. /\ Idle.held = {} /\ Idle.pc = "idle" /\ Idle.todoRefunds = {}
  BY DEF Idle
<1> QED
  BY <1>1, <1>2 DEF CommandSane, Collected, Collecting

\* Locals that hold nothing and collect nothing.
LEMMA HoldsNothing ==
  ASSUME NEW c \in Commands, NEW l \in Locals, l.pc # "commit", CommandSane(l),
         command' = [command EXCEPT ![c] = l]
  PROVE  Moves(c, l)
BY DEF Moves, Collected, CommandSane

\* A command starts: when it finds all orders written, they are.
LEMMA StartMoves ==
  ASSUME TypeOK, ClockSane, NEW c \in Commands, Start(c)
  PROVE  \E l \in Locals : Moves(c, l)
<1>1. PICK b \in Batches(MissingOrders) :
        command' = [command EXCEPT ![c] =
          [Idle EXCEPT !.pc = "orders", !.startedAt = now, !.todoOrders = b,
                       !.scanned = (b # {})]]
  BY DEF Start, Goto
<1> DEFINE l == [Idle EXCEPT !.pc = "orders", !.startedAt = now, !.todoOrders = b,
                             !.scanned = (b # {})]
<1>2. b \subseteq Orders /\ (b = {} => MissingOrders = {})
  BY MissingTyped, BatchTyped
<1>3. /\ l.pc = "orders" /\ l.startedAt = now /\ l.todoRefunds = {} /\ l.held = {}
      /\ l.scanned = (b # {})
  BY DEF Idle
<1>4. l \in Locals
  BY <1>2, SettingsTyped DEF Idle, Locals, Steps, ClockSane
<1> HIDE DEF l
<1>5. now \in Nat
  BY SettingsTyped DEF ClockSane
<1>6. ~l.scanned => OrdersWritten(l)
  BY <1>2, <1>3 DEF OrdersWritten, MissingOrders
<1>7. CommandSane(l)
  BY <1>3, <1>5, <1>6 DEF CommandSane, Collecting
<1> QED
  BY <1>1, <1>3, <1>4, <1>7, HoldsNothing DEF l

\* An order less to write.
LEMMA AccrueOrderMoves ==
  ASSUME TypeOK, CommandsSane, NEW c \in Commands, AccrueOrder(c)
  PROVE  \E l \in Locals : Moves(c, l)
<1>1. PICK k \in Locals : k = command[c] /\ CommandSane(k) /\ k.pc = "orders"
  BY DEF AccrueOrder, TypeOK, CommandsSane
<1>2. PICK o \in k.todoOrders :
        command' = [command EXCEPT ![c] = [k EXCEPT !.todoOrders = @ \ {o}]]
  BY <1>1 DEF AccrueOrder, Goto
<1> DEFINE l == [k EXCEPT !.todoOrders = @ \ {o}]
<1>3. /\ l.pc = k.pc /\ l.startedAt = k.startedAt /\ l.todoRefunds = k.todoRefunds
      /\ l.held = k.held /\ l.scanned = k.scanned /\ l.period = k.period
  BY DEF Locals
<1>4. l \in Locals
  BY DEF Locals
<1> HIDE DEF l
<1>5. CommandSane(l)
  BY <1>1, <1>3 DEF CommandSane, OrdersWritten, Collecting
<1> QED
  BY <1>1, <1>2, <1>3, <1>4, <1>5, HoldsNothing DEF l

\* The refunds to write are from before the ledger; when there are none, all
\* refunds are written.
LEMMA ListRefundsMoves ==
  ASSUME TypeOK, LedgerSane, CommandsSane, NEW c \in Commands, ListRefunds(c)
  PROVE  \E l \in Locals : Moves(c, l)
<1>1. PICK k \in Locals : k = command[c] /\ CommandSane(k) /\ k.pc = "orders"
  BY DEF ListRefunds, TypeOK, CommandsSane
<1>2. PICK b \in Batches(MissingRefunds) :
        command' = [command EXCEPT ![c] =
          [k EXCEPT !.pc = "refunds", !.todoRefunds = b, !.scanned = @ \/ b # {}]]
  BY <1>1 DEF ListRefunds, Goto
<1> DEFINE l == [k EXCEPT !.pc = "refunds", !.todoRefunds = b, !.scanned = @ \/ b # {}]
<1>3. b \subseteq MissingRefunds /\ (b = {} => MissingRefunds = {})
  BY MissingTyped, BatchTyped
<1>4. /\ l.pc = "refunds" /\ l.startedAt = k.startedAt /\ l.todoRefunds = b
      /\ l.held = k.held /\ l.scanned = (k.scanned \/ b # {})
  BY DEF Locals
<1>5. b \subseteq Refunds
  BY <1>3, MissingTyped
<1>6. l \in Locals
  BY <1>5 DEF Locals, Steps
<1>7. \A r \in b : updatedAt[r] = 0
  BY <1>3 DEF MissingRefunds, Succeeded, LedgerSane, RefundWritten
<1> HIDE DEF l
<1>8. CommandSane(l)
  BY <1>1, <1>3, <1>4, <1>7 DEF CommandSane, OrdersWritten, Collecting
<1> QED
  BY <1>2, <1>4, <1>6, <1>8, HoldsNothing DEF l

\* A refund less to write.
LEMMA AccrueRefundMoves ==
  ASSUME TypeOK, CommandsSane, NEW c \in Commands, AccrueRefund(c)
  PROVE  \E l \in Locals : Moves(c, l)
<1>1. PICK k \in Locals : k = command[c] /\ CommandSane(k) /\ k.pc = "refunds"
  BY DEF AccrueRefund, TypeOK, CommandsSane
<1>2. PICK r \in k.todoRefunds :
        command' = [command EXCEPT ![c] = [k EXCEPT !.todoRefunds = @ \ {r}]]
  BY <1>1 DEF AccrueRefund, Goto
<1> DEFINE l == [k EXCEPT !.todoRefunds = @ \ {r}]
<1>3. /\ l.pc = k.pc /\ l.startedAt = k.startedAt /\ l.todoRefunds \subseteq k.todoRefunds
      /\ l.held = k.held /\ l.scanned = k.scanned /\ l.period = k.period
  BY DEF Locals
<1>4. l \in Locals
  BY DEF Locals
<1> HIDE DEF l
<1>5. CommandSane(l)
  BY <1>1, <1>3 DEF CommandSane, OrdersWritten, Collecting
<1> QED
  BY <1>1, <1>2, <1>3, <1>4, <1>5, HoldsNothing DEF l

\* After a round that found nothing to do everything is written; otherwise
\* another round starts.
LEMMA NextRoundMoves ==
  ASSUME TypeOK, CommandsSane, NEW c \in Commands, NextRound(c)
  PROVE  \E l \in Locals : Moves(c, l)
<1>1. PICK k \in Locals : k = command[c] /\ CommandSane(k) /\ k.pc = "refunds"
  BY DEF NextRound, TypeOK, CommandsSane
<1>2. CASE ~k.scanned
  <2>1. PICK p \in Periods :
          command' = [command EXCEPT ![c] = [k EXCEPT !.pc = "generate", !.period = p]]
    BY <1>1, <1>2 DEF NextRound, Drained, Goto
  <2> DEFINE l == [k EXCEPT !.pc = "generate", !.period = p]
  <2>2. /\ l.pc = "generate" /\ l.startedAt = k.startedAt /\ l.todoRefunds = k.todoRefunds
        /\ l.held = k.held /\ l.period = p
    BY DEF Locals
  <2>3. l \in Locals
    BY DEF Locals, Steps
  <2> HIDE DEF l
  <2>4. CommandSane(l)
    BY <1>1, <1>2, <2>2 DEF CommandSane, OrdersWritten, Collecting
  <2> QED
    BY <2>1, <2>2, <2>3, <2>4, HoldsNothing DEF l
<1>3. CASE k.scanned
  <2>1. PICK b \in Batches(MissingOrders) :
          command' = [command EXCEPT ![c] =
            [k EXCEPT !.pc = "orders", !.todoOrders = b, !.scanned = (b # {})]]
    BY <1>1, <1>3 DEF NextRound, Drained, Goto
  <2> DEFINE l == [k EXCEPT !.pc = "orders", !.todoOrders = b, !.scanned = (b # {})]
  <2>2. /\ l.pc = "orders" /\ l.startedAt = k.startedAt /\ l.todoRefunds = k.todoRefunds
        /\ l.held = k.held /\ l.scanned = (b # {})
    BY DEF Locals
  <2>3. b \subseteq Orders /\ (b = {} => MissingOrders = {})
    BY MissingTyped, BatchTyped
  <2>4. l \in Locals
    BY <2>3 DEF Locals, Steps
  <2> HIDE DEF l
  <2>5. ~l.scanned => OrdersWritten(l)
    BY <2>2, <2>3 DEF OrdersWritten, MissingOrders
  <2>6. CommandSane(l)
    BY <1>1, <2>2, <2>5 DEF CommandSane, Collecting
  <2> QED
    BY <2>1, <2>2, <2>4, <2>6, HoldsNothing DEF l
<1> QED
  BY <1>2, <1>3

\* What is due is an entry of an order whose hold is over or of a refund of
\* such an order.
LEMMA DueCases ==
  ASSUME NEW p, NEW from, NEW upto, NEW e \in Due(p, from, upto)
  PROVE  \E o \in Completed :
           /\ MerchantOf[o] = p.merchant /\ completedAt[o] < from
           /\ \/ completedAt[o] + Hold < p.end /\ e \in OrderEntries(o)
              \/ /\ completedAt[o] + Hold <= p.end
                 /\ \E r \in Succeeded :
                      OrderOf[r] = o /\ updatedAt[r] < p.end /\ e = Entry("REFUND", r)
<1>1. e \in {Entry("REFUND", r) : r \in Refunded(p, from, upto)}
            \cup (UNION {OrderEntries(o) : o \in Sold(p, from)})
  BY DueSplit
<1>2. CASE e \in {Entry("REFUND", r) : r \in Refunded(p, from, upto)}
  BY <1>2 DEF Refunded, OldOrders
<1>3. CASE e \in UNION {OrderEntries(o) : o \in Sold(p, from)}
  <2>1. PICK o \in Sold(p, from) : e \in OrderEntries(o)
    BY <1>3
  <2> QED
    BY <2>1 DEF Sold, OldOrders
<1> QED
  BY <1>1, <1>2, <1>3

\* What is due has been written when a command comes to collect, and is
\* collected unless it has been settled.
LEMMA DueEligible ==
  ASSUME TypeOK, ClockSane, NEW l \in Locals, CommandSane(l), l.pc = "generate",
         NEW upto, NEW e \in Due(l.period, l.startedAt, upto), settledIn[e] = NoPeriod
  PROVE  e \in FindEligibleEntriesForUpdate(l.period)
<1> DEFINE p == l.period
<1>1. /\ p \in Periods /\ p.end \in Nat /\ Hold \in Nat
      /\ OrdersWritten(l) /\ MissingRefunds = {}
  BY SettingsTyped DEF CommandSane, Collecting
<1> HIDE DEF p
<1>2. PICK o \in Completed :
        /\ MerchantOf[o] = p.merchant /\ completedAt[o] < l.startedAt
        /\ \/ completedAt[o] + Hold < p.end /\ e \in OrderEntries(o)
           \/ /\ completedAt[o] + Hold <= p.end
              /\ \E r \in Succeeded :
                   OrderOf[r] = o /\ updatedAt[r] < p.end /\ e = Entry("REFUND", r)
  BY DueCases DEF p
<1>3. completedAt[o] \in Nat /\ o \in Orders
  BY SettingsTyped DEF TypeOK, Completed
<1>4. completedAt[o] <= p.end - Hold
  BY <1>1, <1>2, <1>3
<1>5. CASE completedAt[o] + Hold < p.end /\ e \in OrderEntries(o)
  <2>1. e \in entries
    BY <1>1, <1>2, <1>5 DEF OrdersWritten
  <2>2. e.kind \in SaleKinds /\ e.of = o
    BY <1>3, <1>5, OrderEntriesTyped
  <2>3. OrderOfEntry(e) = o /\ AvailableAt(e) = completedAt[o] + Hold
    BY <2>2 DEF OrderOfEntry, AvailableAt, SaleKinds
  <2> QED
    BY <1>2, <1>4, <1>5, <2>1, <2>3 DEF FindEligibleEntriesForUpdate, MerchantOfEntry, p
<1>6. CASE \E r \in Succeeded :
             OrderOf[r] = o /\ updatedAt[r] < p.end /\ e = Entry("REFUND", r)
  <2>1. PICK r \in Succeeded :
          OrderOf[r] = o /\ updatedAt[r] < p.end /\ e = Entry("REFUND", r)
    BY <1>6
  <2>2. e \in entries
    BY <1>1, <2>1 DEF MissingRefunds
  <2>3. e.kind = "REFUND" /\ e.of = r
    BY <2>1 DEF Entry
  <2>4. OrderOfEntry(e) = o /\ AvailableAt(e) = refundedAt[r]
    BY <2>1, <2>3 DEF OrderOfEntry, AvailableAt
  <2>5. updatedAt[r] \in Nat /\ refundedAt[r] \in 0..updatedAt[r]
    BY SettingsTyped DEF ClockSane, TypeOK, Succeeded
  <2>6. AvailableAt(e) < p.end
    BY <1>1, <2>1, <2>4, <2>5
  <2> QED
    BY <1>2, <1>4, <2>2, <2>4, <2>6 DEF FindEligibleEntriesForUpdate, MerchantOfEntry, p
<1> QED
  BY <1>2, <1>5, <1>6

\* A command collects all that is due and unsettled, and nothing others hold.
LEMMA SelectMoves ==
  ASSUME TypeOK, ClockSane, CommandsSane, NEW c \in Commands, GenerateSelect(c)
  PROVE  \E l \in Locals : Moves(c, l)
<1>1. PICK k \in Locals : k = command[c] /\ CommandSane(k) /\ k.pc = "generate"
  BY DEF GenerateSelect, TypeOK, CommandsSane
<1> DEFINE es == FindEligibleEntriesForUpdate(k.period)
           l == [k EXCEPT !.pc = "commit", !.held = es, !.collectedAt = now]
<1>2. /\ es \cap HeldByOthers(c) = {}
      /\ Refused(k.period) => command' = [command EXCEPT ![c] = Idle]
      /\ ~Refused(k.period) => command' = [command EXCEPT ![c] = l]
  BY <1>1 DEF GenerateSelect, Goto
<1>3. CASE Refused(k.period)
  BY <1>2, <1>3, IdleSane, HoldsNothing
<1>4. CASE ~Refused(k.period)
  <2>1. /\ l.pc = "commit" /\ l.startedAt = k.startedAt /\ l.todoRefunds = k.todoRefunds
        /\ l.held = es /\ l.period = k.period /\ l.collectedAt = now
    BY DEF Locals
  <2>2. /\ es \subseteq entries /\ \A e \in es : settledIn[e] = NoPeriod
        /\ es \subseteq Entries
    BY DEF FindEligibleEntriesForUpdate, TypeOK
  <2>3. l \in Locals
    BY <2>2 DEF Locals, Steps, ClockSane
  <2>4. es # {} /\ ~(Totals(es).commission < 0)
    BY <1>4 DEF Refused
  <2>5. now \in Nat
    BY SettingsTyped DEF ClockSane
  <2>7. Totals(es).commission \in Int
    BY <2>2, TotalsTyped DEF TypeOK
  <2>8. Totals(es).commission >= 0
    BY <2>4, <2>7
  <2>9. \A e \in Due(k.period, k.startedAt, now) : e \in es \/ settledIn[e] # NoPeriod
    BY <1>1, DueEligible
  <2> HIDE DEF l
  <2>10. CommandSane(l)
    BY <1>1, <2>1 DEF CommandSane, OrdersWritten, Collecting
  <2>11. Collected(l)
    BY <2>1, <2>2, <2>4, <2>5, <2>8, <2>9 DEF Collected
  <2>12. Moves(c, l)
    BY <1>2, <1>4, <2>1, <2>10, <2>11 DEF Moves
  <2> QED
    BY <2>3, <2>12
<1> QED
  BY <1>3, <1>4

\* A command that commits or dies gives up what it holds.
LEMMA StopMoves ==
  ASSUME NEW c \in Commands, GenerateCommit(c) \/ Crash(c)
  PROVE  \E l \in Locals : Moves(c, l) /\ l.held = {}
<1>1. command' = [command EXCEPT ![c] = Idle]
  BY DEF GenerateCommit, Crash, Goto
<1> QED
  BY <1>1, IdleSane, HoldsNothing

\* When no command moves they all keep what they rely on.
LEMMA CommandsStay ==
  ASSUME TypeOK, ClockSane, LedgerSane, CommandsSane, WorldMoves, LedgerMoves,
         UNCHANGED <<command, settledIn>>
  PROVE  CommandsSane'
<1> SUFFICES ASSUME NEW c \in Commands
             PROVE  CommandSane(command[c])' /\ Collected(command[c])'
  BY DEF CommandsSane
<1>1. PICK l \in Locals : l = command[c] /\ CommandSane(l) /\ Collected(l)
  BY DEF TypeOK, CommandsSane
<1>2. SettledStays
  BY DEF SettledStays
<1>3. CommandSane(l)' /\ Collected(l)'
  BY <1>1, <1>2, CommandKeeps
<1> QED
  BY <1>1, <1>3

\* When one moves, so do the others, and it has what it relies on.
LEMMA CommandMoves ==
  ASSUME TypeOK, ClockSane, LedgerSane, CommandsSane, OneCollects,
         WorldMoves, LedgerMoves, SettledStays, now' = now,
         NEW c \in Commands, NEW l \in Locals, Moves(c, l),
         l.held = {} \/ settledIn' = settledIn,
         \A e \in Entries : e \notin command[c].held => settledIn'[e] = settledIn[e]
  PROVE  /\ command' \in [Commands -> Locals]
         /\ CommandsSane' /\ OneCollects'
<1>1. command' = [command EXCEPT ![c] = l] /\ command \in [Commands -> Locals]
  BY DEF Moves, TypeOK
<1>2. command'[c] = l /\ \A d \in Commands : d # c => command'[d] = command[d]
  BY <1>1
<1>3. OneCollects'
  <2>1. \A d \in Commands : d # c => l.held \cap command[d].held = {}
    BY DEF Moves, HeldByOthers
  <2> QED
    BY <1>2, <2>1 DEF OneCollects
<1>4. now \in Nat
  BY SettingsTyped DEF ClockSane
<1>5. ASSUME NEW d \in Commands
      PROVE  CommandSane(command[d])' /\ Collected(command[d])'
  <2>1. PICK k \in Locals : k = command'[d]
    BY <1>1
  <2>2. CommandSane(k) /\ Collected(k)
    BY <1>2, <2>1 DEF CommandsSane, Moves
  <2>4. \A e \in k.held : settledIn'[e] = settledIn[e]
    <3>1. CASE d = c
      BY <1>2, <2>1, <3>1
    <3>2. CASE d # c
      <4>1. k.held \subseteq Entries /\ k.held \cap command[c].held = {}
        BY <1>2, <2>1, <3>2 DEF OneCollects, Locals
      <4> QED
        BY <4>1
    <3> QED
      BY <3>1, <3>2
  <2>5. CommandSane(k)' /\ Collected(k)'
    BY <2>2, <2>4, CommandKeeps
  <2> QED
    BY <2>1, <2>5
<1>6. CommandsSane'
  BY <1>5 DEF CommandsSane
<1> QED
  BY <1>1, <1>3, <1>6

-----------------------------------------------------------------------------
(***************************************************************************)
(* The theorems.                                                           *)
(***************************************************************************)

\* Before the first step the ledger may lack entries, but has no wrong ones.
LEMMA InitIInv == Init => IInv
<1> SUFFICES ASSUME Init PROVE IInv
  OBVIOUS
<1>1. /\ now = 1 /\ 1 \in Times /\ 0 \in Times /\ Never \notin Times
  BY SettingsTyped, SettingsAssumption DEF Init, SettingsAssumption, Times
<1>2. \A r \in Refunds : Entry("REFUND", r) \notin entries /\ Entry("COMMISSION-REFUND", r) \notin entries
  BY DEF Init, Entry
<1>3. TypeOK
  <2>1. completedAt \in [Orders -> Times \cup {Never}] /\ updatedAt \in [Refunds -> Times \cup {Never}]
    BY <1>1 DEF Init
  <2>2. entries \subseteq Entries
    BY DEF Init, Entries, Entry, Completed
  <2>3. command \in [Commands -> Locals]
    BY IdleSane DEF Init
  <2> QED
    BY <1>1, <2>1, <2>2, <2>3 DEF Init, TypeOK
<1>4. ClockSane
  BY <1>1 DEF Init, ClockSane, Completed, Succeeded
<1>5. WithinPayable
  BY DEF Init, WithinPayable
<1>6. LedgerSane
  <2>1. \A r \in Refunds : RefundWritten(r)
    BY <1>2, MaxAmountTyped DEF Init, RefundWritten, Succeeded
  <2>2. ASSUME NEW o \in Orders PROVE LaterReversed(o)
    <3>1. Later(o) = {} /\ RefundsOf(o) = FirstDay(o)
      BY <1>1 DEF Init, Later, RefundsOf, FirstDay, Succeeded
    <3>2. Total({}, commissionRefund) = 0
      BY TotalNone
    <3>3. proportionalRefundCommission(o, SumOfRefunds(RefundsOf(o))) \in Nat
      BY <1>5, SharesTyped
    <3> QED
      BY <3>1, <3>2, <3>3 DEF LaterReversed
  <2> QED
    BY <2>1, <2>2 DEF LedgerSane
<1>7. CommandsSane
  BY IdleSane DEF Init, CommandsSane
<1>8. OneCollects
  BY IdleSane DEF Init, OneCollects
<1>9. MadeBefore /\ SettlementsBalance /\ NothingMissed
  BY DEF Init, MadeBefore, SettlementsBalance, NothingMissed
<1> QED
  BY <1>3, <1>4, <1>5, <1>6, <1>7, <1>8, <1>9 DEF IInv

\* Commands and settlements after a step.
CommandsAndSettlements ==
  /\ settledIn' \in [Entries -> Periods \cup {NoPeriod}]
  /\ SettlementsTyped'
  /\ command' \in [Commands -> Locals]
  /\ CommandsSane' /\ OneCollects'
  /\ MadeBefore' /\ SettlementsBalance' /\ NothingMissed'
  /\ SettledStays

\* A step that moves one command and settles nothing.
LEMMA UnsettledMove ==
  ASSUME IInv, WorldMoves, LedgerMoves, now' = now,
         UNCHANGED <<settledIn, settlements>>,
         NEW c \in Commands, \E l \in Locals : Moves(c, l)
  PROVE  CommandsAndSettlements
<1>1. SettledStays
  BY DEF SettledStays
<1>2. PICK l \in Locals : Moves(c, l)
  OBVIOUS
<1>3. command' \in [Commands -> Locals] /\ CommandsSane' /\ OneCollects'
  BY <1>1, <1>2, CommandMoves DEF IInv
<1>4. MadeBefore' /\ SettlementsBalance' /\ NothingMissed'
  BY SettlementsKeep DEF IInv
<1> QED
  BY <1>1, <1>3, <1>4 DEF CommandsAndSettlements, IInv, TypeOK, SettlementsTyped

\* A step of the rest of the system.
LEMMA OthersMove ==
  ASSUME IInv, WorldMoves, LedgerMoves, UNCHANGED <<settledIn, settlements, command>>
  PROVE  CommandsAndSettlements
<1>1. CommandsSane'
  BY CommandsStay DEF IInv
<1>2. OneCollects'
  BY DEF OneCollects, IInv
<1>3. MadeBefore' /\ SettlementsBalance' /\ NothingMissed'
  BY SettlementsKeep DEF IInv
<1> QED
  BY <1>1, <1>2, <1>3 DEF CommandsAndSettlements, IInv, TypeOK, SettlementsTyped, SettledStays

\* Every step is one of those, or a commit.
LEMMA StepCommands ==
  ASSUME IInv, [Next]_vars, WorldMoves, LedgerMoves
  PROVE  CommandsAndSettlements
<1> USE DEF IInv
<1>2. CASE Tick
  BY <1>2, OthersMove DEF Tick
<1>3. ASSUME NEW o \in Orders, CompleteOrder(o) PROVE CommandsAndSettlements
  BY <1>3, OthersMove DEF CompleteOrder
<1>4. ASSUME NEW r \in Refunds, SucceedRefund(r) PROVE CommandsAndSettlements
  BY <1>4, OthersMove DEF SucceedRefund
<1>5. CASE UNCHANGED vars
  BY <1>5, OthersMove DEF vars, world
<1>6. ASSUME NEW c \in Commands,
             Start(c) \/ AccrueOrder(c) \/ ListRefunds(c) \/ AccrueRefund(c)
               \/ NextRound(c) \/ GenerateSelect(c) \/ Crash(c)
      PROVE  CommandsAndSettlements
  <2>1. now' = now /\ UNCHANGED <<settledIn, settlements>>
    BY <1>6
    DEF Start, AccrueOrder, ListRefunds, AccrueRefund, NextRound, GenerateSelect,
        Crash, Goto, world
  <2>2. \E l \in Locals : Moves(c, l)
    BY <1>6, StartMoves, AccrueOrderMoves, ListRefundsMoves, AccrueRefundMoves,
       NextRoundMoves, SelectMoves, StopMoves
  <2> QED
    BY <2>1, <2>2, UnsettledMove
<1>7. ASSUME NEW c \in Commands, GenerateCommit(c) PROVE CommandsAndSettlements
  <2>1. now' = now
    BY <1>7 DEF GenerateCommit, Goto, world
  <2>2. PICK l \in Locals : Moves(c, l) /\ l.held = {}
    BY <1>7, StopMoves
  <2>3. /\ MadeBefore' /\ SettlementsBalance' /\ NothingMissed'
        /\ \A e \in Entries : e \notin command[c].held => settledIn'[e] = settledIn[e]
        /\ SettledStays
        /\ settledIn' \in [Entries -> Periods \cup {NoPeriod}]
        /\ SettlementsTyped'
    BY <1>7, CommitSettles
  <2>4. command' \in [Commands -> Locals] /\ CommandsSane' /\ OneCollects'
    BY <2>1, <2>2, <2>3, CommandMoves
  <2> QED
    BY <2>3, <2>4 DEF CommandsAndSettlements
<1> QED
  BY <1>2, <1>3, <1>4, <1>5, <1>6, <1>7 DEF Next, Proceed

\* The entries stay entries, and the world stays what it is.
LEMMA KeepsShape ==
  ASSUME IInv, [Next]_vars, WorldMoves, LedgerMoves, CommandsAndSettlements
  PROVE  TypeOK'
<1> USE DEF IInv
<1>1. now \in Times /\ now' \in Times
  BY DEF TypeOK, WorldMoves
<1>2. entries' \subseteq Entries
  <2>1. \A r \in Refunds, k \in RefundKinds : Entry(k, r) \in Entries
    BY DEF Entry, Entries, RefundKinds
  <2>2. ASSUME NEW r \in Refunds, NEW before, CreateRefundEntries(r, before)
        PROVE  entries' \subseteq Entries
    BY <2>1, <2>2 DEF CreateRefundEntries, CreateEntries, RefundKinds, TypeOK
  <2>3. ASSUME NEW r \in Refunds, SucceedRefund(r) PROVE entries' \subseteq Entries
    BY <2>2, <2>3 DEF SucceedRefund
  <2>4. ASSUME NEW c \in Commands, AccrueRefund(c) PROVE entries' \subseteq Entries
    <3>1. PICK r \in command[c].todoRefunds :
            CreateRefundEntries(r, SumSucceededRefundsBefore(r))
      BY <2>4 DEF AccrueRefund
    <3>2. r \in Refunds
      BY <3>1 DEF TypeOK, Locals
    <3> QED
      BY <2>2, <3>1, <3>2
  <2>5. ASSUME NEW c \in Commands, AccrueOrder(c) PROVE entries' \subseteq Entries
    <3>1. PICK o \in command[c].todoOrders : CreateEntries(OrderEntries(o))
      BY <2>5 DEF AccrueOrder
    <3>2. o \in Orders
      BY <3>1 DEF TypeOK, Locals
    <3> QED
      BY <3>1, <3>2, OrderEntriesTyped DEF CreateEntries, TypeOK
  <2>6. ASSUME UNCHANGED ledger PROVE entries' \subseteq Entries
    BY <2>6 DEF ledger, TypeOK
  <2>7. ASSUME NEW c \in Commands,
               Start(c) \/ ListRefunds(c) \/ NextRound(c) \/ GenerateSelect(c)
                 \/ GenerateCommit(c) \/ Crash(c)
        PROVE  UNCHANGED ledger
    BY <2>7 DEF Start, ListRefunds, NextRound, GenerateSelect, GenerateCommit, Crash
  <2>8. ASSUME NEW o \in Orders, CompleteOrder(o) PROVE UNCHANGED ledger
    BY <2>8 DEF CompleteOrder
  <2>9. Tick => UNCHANGED ledger
    BY DEF Tick
  <2>10. UNCHANGED vars => UNCHANGED ledger
    BY DEF vars
  <2> QED
    BY <2>3, <2>4, <2>5, <2>6, <2>7, <2>8, <2>9, <2>10 DEF Next, Proceed
<1>3. completedAt' \in [Orders -> Times \cup {Never}]
  <2>1. ASSUME NEW o \in Orders, CompleteOrder(o)
        PROVE  completedAt' = [completedAt EXCEPT ![o] = now]
    BY <2>1 DEF CompleteOrder
  <2>2. completedAt' = completedAt \/ \E o \in Orders : CompleteOrder(o)
    BY DEF Next, Proceed, Tick, SucceedRefund, Start, AccrueOrder, ListRefunds,
           AccrueRefund, NextRound, GenerateSelect, GenerateCommit, Crash, Goto,
           vars, world
  <2> QED
    BY <1>1, <2>1, <2>2 DEF TypeOK
<1>4. /\ updatedAt' \in [Refunds -> Times \cup {Never}]
      /\ refundedAt' \in [Refunds -> Times \cup {Never}]
  <2>1. ASSUME NEW r \in Refunds, SucceedRefund(r)
        PROVE  /\ updatedAt' = [updatedAt EXCEPT ![r] = now]
               /\ \E t \in 0..now : refundedAt' = [refundedAt EXCEPT ![r] = t]
    BY <2>1 DEF SucceedRefund
  <2>2. \/ UNCHANGED <<updatedAt, refundedAt>>
        \/ \E r \in Refunds : SucceedRefund(r)
    BY DEF Next, Proceed, Tick, CompleteOrder, Start, AccrueOrder, ListRefunds,
           AccrueRefund, NextRound, GenerateSelect, GenerateCommit, Crash, Goto,
           vars, world
  <2>3. 0..now \subseteq Times
    BY <1>1, SettingsTyped DEF Times
  <2> QED
    BY <1>1, <2>1, <2>2, <2>3 DEF TypeOK
<1> QED
  BY <1>1, <1>2, <1>3, <1>4 DEF TypeOK, LedgerMoves, CommandsAndSettlements, SettlementsTyped

\* Every step keeps the invariant.
LEMMA NextIInv == IInv /\ [Next]_vars => IInv'
<1> SUFFICES ASSUME IInv, [Next]_vars PROVE IInv'
  OBVIOUS
<1>1. WorldMoves /\ LedgerMoves
  BY StepMoves DEF IInv
<1>2. CommandsAndSettlements
  BY <1>1, StepCommands
<1>3. TypeOK'
  BY <1>1, <1>2, KeepsShape
<1>4. ClockSane'
  BY <1>1, ClockKeeps DEF IInv
<1> QED
  BY <1>1, <1>2, <1>3, <1>4 DEF IInv, LedgerMoves, CommandsAndSettlements

\* The invariant holds throughout.
THEOREM Invariance == Spec => []IInv
<1>1. Init => IInv
  BY InitIInv
<1>2. IInv /\ [Next]_vars => IInv'
  BY NextIInv
<1> QED
  BY <1>1, <1>2, PTL DEF Spec

\* The rows and the commands in progress keep their shape, and no settlement
\* takes less than no commission (settlement_service.go Generate).
THEOREM TypeCorrect == Spec => []TypeOK
<1>1. IInv => TypeOK
  BY DEF IInv
<1> QED
  BY <1>1, Invariance, PTL

\* Once an order's refunds are all in the ledger they have given back exactly
\* their share of its commission: those since the ledger step by step, those
\* from before it, which repairs write in any order, by their ids.
LEMMA ReversedExactly ==
  ASSUME IInv
  PROVE  CommissionReversed
<1> USE DEF IInv
<1> SUFFICES ASSUME NEW o \in Orders, RefundsOf(o) \cap MissingRefunds = {}
             PROVE  Total(RefundsOf(o), commissionRefund)
                      = proportionalRefundCommission(o, SumOfRefunds(RefundsOf(o)))
  BY DEF CommissionReversed
<1> DEFINE D == FirstDay(o)
           P(n) == proportionalRefundCommission(o, n)
<1>1. /\ RefundsOf(o) = D \cup Later(o) /\ D \cap Later(o) = {}
      /\ D \in SUBSET Refunds /\ Later(o) \in SUBSET Refunds
      /\ D \in SUBSET RefundsOf(o)
  BY RefundsSplit
<1>2. IsFiniteSet(D) /\ IsFiniteSet(Later(o))
  BY <1>1, RefundsFinite
<1>3. SumOfRefunds(D) <= Payable[o] /\ P(SumOfRefunds(D)) \in Nat
  BY <1>1, SharesTyped
<1>4. \A r \in D :
        commissionRefund[r] = Step(o, SumOfRefunds({s \in D : s < r}), RefundAmount[r])
  <2> TAKE r \in D
  <2>1. r \in Refunds /\ updatedAt[r] = 0 /\ OrderOf[r] = o
    BY DEF FirstDay
  <2>2. r \in Succeeded /\ r \in RefundsOf(o)
    BY <1>1 DEF RefundsOf
  <2>3. Entry("REFUND", r) \in entries
    BY <2>2 DEF MissingRefunds
  <2>4. commissionRefund[r] = Repaired(r)
    BY <2>1, <2>3 DEF LedgerSane, RefundWritten
  <2> QED
    BY <2>1, <2>4 DEF Repaired
<1>5. Total(D, commissionRefund) = P(SumOfRefunds(D))
  <2> HIDE DEF D
  <2> QED
    BY <1>1, <1>2, <1>3, <1>4, Telescope
<1>6. Total(Later(o), commissionRefund) = P(SumOfRefunds(RefundsOf(o))) - P(SumOfRefunds(D))
  BY DEF LedgerSane, LaterReversed
<1>7. Total(RefundsOf(o), commissionRefund)
        = Total(D, commissionRefund) + Total(Later(o), commissionRefund)
  BY <1>1, <1>2, TotalUnion
<1>8. P(SumOfRefunds(RefundsOf(o))) \in Nat
  BY SharesTyped
<1> HIDE DEF D, P
<1>9. Total(RefundsOf(o), commissionRefund) = P(SumOfRefunds(RefundsOf(o)))
  BY <1>3, <1>5, <1>6, <1>7, <1>8
<1> QED
  BY <1>9 DEF P

\* The ledger is exact: a settlement has the totals of its entries, leaves
\* nothing behind that was due, and the commission given back is the share of
\* what was refunded (cmd/generate-settlement, settlement_service.go).
THEOREM SettledExactly == Spec => []LedgerExact
<1>1. IInv => LedgerExact
  BY ReversedExactly DEF IInv, LedgerExact, SettlementsComplete
<1> QED
  BY <1>1, Invariance, PTL

\* No step rewrites the ledger: an entry keeps its amount and its settlement,
\* a settlement its totals (settlement_repository.go CreateEntries, AttachEntries).
THEOREM NothingRewritten == Spec => LedgerOnlyGrows
<1> DEFINE Grows ==
      /\ entries \subseteq entries'
      /\ settlements \subseteq settlements'
      /\ \A e \in Entries :
           settledIn[e] # NoPeriod => settledIn'[e] = settledIn[e]
      /\ \A r \in Refunds :
           Entry("REFUND", r) \in entries =>
             commissionRefund'[r] = commissionRefund[r]
<1>1. ASSUME IInv, [Next]_vars PROVE [Grows]_vars
  <2>1. LedgerMoves /\ SettledStays
    BY <1>1, StepMoves, StepCommands DEF IInv, CommandsAndSettlements
  <2>2. settlements \subseteq settlements'
    BY <1>1 DEF Next, Proceed, Tick, CompleteOrder, SucceedRefund, Start, AccrueOrder,
       ListRefunds, AccrueRefund, NextRound, GenerateSelect, GenerateCommit, Crash, vars
  <2> QED
    BY <2>1, <2>2 DEF LedgerMoves, SettledStays
<1> QED
  BY <1>1, Invariance, PTL DEF Spec, LedgerOnlyGrows

=============================================================================
