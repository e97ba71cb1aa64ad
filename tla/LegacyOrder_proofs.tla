------------------------- MODULE LegacyOrder_proofs -------------------------
(***************************************************************************)
(* Proofs about LegacyOrder, for any number of orders, payments, workers   *)
(* and failures, batches of any size and any number of interruptions of    *)
(* the backfill.                                                           *)
(***************************************************************************)
EXTENDS LegacyOrder, FiniteSetTheorems, WellFoundedInduction,
        TLAPS

PastPayment == {"paid", "shipped", "completed"}

\* A payment of an order: what its own keys and allocation say fits its status,
\* and whether it has a trade is whether its order has one.
RowSound(p) ==
  LET o == payment[p].of IN
  /\ payment[p].status # "none"
  /\ payment[p].activeOrder => payment[p].status = "pending"
  /\ payment[p].tradeID <=> Linked(o)
  /\ payment[p].status = "pending" => order[o] = "pending"
  /\ Linked(o) =>
       /\ payment[p].activeTrade <=> payment[p].status = "pending"
       /\ payment[p].allocation # "none"
       /\ payment[p].allocation = "refunded" <=> payment[p].status \in Refunded
       /\ payment[p].status \in Refunded => refund[o] = "linked"
  /\ ~Linked(o) =>
       /\ payment[p].orderID
       /\ payment[p].status = "pending" => payment[p].activeOrder
       /\ payment[p].status \in Refunded =>
            payment[p].status = "partiallyRefunded" /\ refund[o] = "unlinked"

Booked(o) == {p \in RowsOf(o) : payment[p].status \in Taken}

\* One payment of an order can still be paid, one has been, and never both.
OneOfEach(o) ==
  /\ \A p, q \in RowsOf(o) :
       payment[p].status = "pending" /\ payment[q].status = "pending" => p = q
  /\ \A p, q \in Booked(o) : p = q
  /\ order[o] \in PastPayment <=> Booked(o) # {}

AgreesWithTrade(o) ==
  Linked(o) =>
    /\ order[o] = "pending" <=> trade[o] = "pending"
    /\ order[o] = "cancelled" <=> trade[o] = "closed"
    /\ trade[o] \in Taken => \E p \in RowsOf(o) : payment[p].status = trade[o]
    /\ refund[o] # "unlinked"

Sound(o) ==
  /\ \A p \in RowsOf(o) : RowSound(p)
  /\ OneOfEach(o)
  /\ AgreesWithTrade(o)
  /\ shipment[o] # "none" <=> order[o] \in {"shipped", "completed"}

\* A payment that is not there is nobody's.
NobodysRows ==
  \A p \in PaymentIds : payment[p].of \notin Orders => payment[p] = NoRow

\* What a request or a job knows stays true until it is done, because the
\* backfill waits for it.
Fits(l) ==
  l.pc # "idle" =>
    /\ backfill.pc = "idle"
    /\ l.pc \in {"check", "repair", "list", "query", "close", "requery", "commit"} =>
         l.order \in Orders
    /\ l.pc \in {"repair", "close", "requery", "sync", "apply"} =>
         l.pay \in PaymentIds
    /\ l.order \in Orders => (l.route = "trade" <=> Linked(l.order))
    /\ \A o \in l.orders : ~Linked(o)
    /\ \A o \in l.trades : Linked(o)

\* The command verifies when every order has a trade.
BackfillSound ==
  /\ backfill.pc = "verify" => Unlinked = {}
  /\ backfill.report # "failed"

RowsTyped ==
  /\ order \in [Orders -> OrderStates]
  /\ trade \in [Orders -> TradeStates]
  /\ shipment \in [Orders -> {"none", "sent", "received"}]
  /\ payment \in [PaymentIds -> Payments]
  /\ refund \in [Orders -> {"none", "unlinked", "linked"}]

RowsSound ==
  /\ RowsTyped
  /\ NobodysRows
  /\ \A o \in Orders : Sound(o)

HoldingsSound ==
  /\ returned \in Nat
  /\ coupon \in [WithCoupon -> {"here", "unused", "elsewhere"}]
  /\ usedQuantity \in Nat
  /\ IsFiniteSet(UnitsOfCancelled)
  /\ HoldingsReturnedOnce

WorkersSound ==
  /\ provider \in [PaymentIds -> ProviderStates]
  /\ worker \in [Workers -> Locals]
  /\ \A w \in Workers : Fits(worker[w])
  /\ backfill \in [pc : {"idle", "batch", "verify"},
                   report : {"none", "ok", "failed"}]
  /\ BackfillSound
  /\ faults \in 0..MaxFaults

IInv ==
  /\ RowsSound
  /\ HoldingsSound
  /\ WorkersSound

-----------------------------------------------------------------------------
(***************************************************************************)
(* Smallest and greatest numbers of sets of orders and payments.           *)
(***************************************************************************)

\* Numbers have a least one among them: the shortest interval from 0 to one.
LEMMA Least ==
  ASSUME NEW T, T \subseteq Nat, T # {}
  PROVE  \E x \in T : \A y \in T : ~(y < x)
<1> DEFINE R == StrictSubsetOrdering(Nat)
           upTo == {0..n : n \in T}
<1>1. IsWellFoundedOn(R, FiniteSubsetsOf(Nat))
  BY FS_StrictSubsetOrderingWellFounded
<1>2. upTo \subseteq FiniteSubsetsOf(Nat) /\ upTo # {}
  <2>1. \A n \in T : IsFiniteSet(0..n) /\ 0..n \in SUBSET Nat
    BY FS_Interval
  <2> QED
    BY <2>1 DEF FiniteSubsetsOf
<1>3. \A x, y \in T : y < x => <<0..y, 0..x>> \in R
  <2> SUFFICES ASSUME NEW x \in T, NEW y \in T, y < x
               PROVE  <<0..y, 0..x>> \in R
    OBVIOUS
  <2>1. 0..y \in SUBSET Nat /\ 0..x \in SUBSET Nat /\ 0..y \subseteq 0..x
    OBVIOUS
  <2>2. x \in 0..x /\ x \notin 0..y
    OBVIOUS
  <2>3. 0..y # 0..x
    BY <2>2
  <2> QED
    BY <2>1, <2>3 DEF StrictSubsetOrdering
<1> HIDE DEF R, upTo
<1>4. PICK s \in upTo : \A t \in upTo : ~(<<t, s>> \in R)
  BY <1>1, <1>2, WFMin
<1>5. PICK x \in T : s = 0..x
  BY <1>4 DEF upTo
<1>6. \A y \in T : 0..y \in upTo
  BY DEF upTo
<1> QED
  BY <1>3, <1>4, <1>5, <1>6

\* The order that a job takes first is one of those it has listed.
LEMMA MinIn ==
  ASSUME NEW S \in SUBSET Nat, S # {}
  PROVE  Min(S) \in S /\ \A y \in S : Min(S) <= y
<1>1. PICK n \in S : \A m \in S : ~(m < n)
  BY Least
<1>2. \A m \in S : n <= m
  BY <1>1
<1> QED
  BY <1>2 DEF Min

\* The booked payment that a cancellation repairs is one of those it has found.
LEMMA MaxIn ==
  ASSUME NEW N \in Nat, NEW S \in SUBSET (1..N), S # {}
  PROVE  Max(S) \in S
<1> DEFINE T == {N - x : x \in S}
<1>1. T \subseteq Nat
  OBVIOUS
<1>2. T # {}
  OBVIOUS
<1> HIDE DEF T
<1>3. PICK n \in T : \A m \in T : ~(m < n)
  BY <1>1, <1>2, Least
<1>4. PICK x \in S : n = N - x
  BY DEF T
<1>5. ASSUME NEW y \in S PROVE x >= y
  <2>1. N - y \in T
    BY DEF T
  <2>2. ~(N - y < N - x)
    BY <2>1, <1>3, <1>4
  <2> QED
    BY <2>2
<1> QED
  BY <1>5 DEF Max

\* A batch of the oldest orders has an order while there are any.
LEMMA SomeOldest ==
  ASSUME NEW S \in SUBSET Orders, S # {}, NEW limit \in Nat \ {0}
  PROVE  Oldest(S, limit) # {}
<1>1. S \in SUBSET Nat
  BY DEF Orders
<1>2. Min(S) \in S /\ \A y \in S : Min(S) <= y
  BY <1>1, MinIn
<1> DEFINE m == Min(S)
<1> HIDE DEF m
<1>3. m \in S /\ m \in Nat /\ \A y \in S : m <= y /\ y \in Nat
  BY <1>1, <1>2 DEF m
<1>4. \A q \in S : ~(q < m)
  <2> TAKE q \in S
  <2>1. q \in Nat /\ m \in Nat /\ m <= q
    BY <1>3
  <2> QED
    BY <2>1
<1>5. {q \in S : q < m} = {}
  BY <1>4
<1>6. Cardinality({q \in S : q < m}) < limit
  BY <1>5, FS_EmptySet
<1> QED
  BY <1>3, <1>6 DEF Oldest

\* A job goes on with what it has listed.
LEMMA NextListedFits ==
  ASSUME IInv, NEW w \in Workers, worker[w].pc # "idle"
  PROVE  NextListed(w) \in Locals /\ Fits(NextListed(w))
<1> DEFINE orders == worker[w].orders
           trades == worker[w].trades
<1>1. /\ worker[w] \in Locals /\ Fits(worker[w])
      /\ orders \subseteq Orders /\ trades \subseteq Orders
  BY DEF IInv, WorkersSound, Locals
<1>2. Orders \subseteq Nat /\ NoOrder \notin Orders /\ Orders \cup {NoOrder} # {}
  BY LegacyAssumption DEF Orders, LegacyAssumption
<1>3. orders # {} => Min(orders) \in orders
  BY <1>1, <1>2, MinIn
<1>4. trades # {} => Min(trades) \in trades
  BY <1>1, <1>2, MinIn
<1>5. CASE orders # {}
  <2> DEFINE l == [Idle EXCEPT !.pc = "check", !.route = "order",
                               !.order = Min(orders),
                               !.orders = orders \ {Min(orders)},
                               !.trades = trades \ {}]
  <2>1. NextListed(w) = l
    BY <1>5 DEF NextListed
  <2>2. l \in Locals
    BY <1>1, <1>3, <1>5 DEF Locals, Idle, Steps, ProviderStates
  <2>3. Fits(l)
    BY <1>1, <1>2, <1>3, <1>5 DEF Fits, Idle
  <2> QED
    BY <2>1, <2>2, <2>3
<1>6. CASE orders = {} /\ trades # {}
  <2> DEFINE l == [Idle EXCEPT !.pc = "check", !.route = "trade",
                               !.order = Min(trades),
                               !.orders = orders \ {},
                               !.trades = trades \ {Min(trades)}]
  <2>1. NextListed(w) = l
    BY <1>6 DEF NextListed
  <2>2. l \in Locals
    BY <1>1, <1>4, <1>6 DEF Locals, Idle, Steps, ProviderStates
  <2>3. Fits(l)
    BY <1>1, <1>2, <1>4, <1>6 DEF Fits, Idle
  <2> QED
    BY <2>1, <2>2, <2>3
<1>7. CASE orders = {} /\ trades = {}
  <2>1. NextListed(w) = Idle
    BY <1>7 DEF NextListed
  <2>2. Idle \in Locals /\ Fits(Idle)
    BY DEF Idle, Locals, Steps, ProviderStates, Fits
  <2> QED
    BY <2>1, <2>2
<1> QED
  BY <1>5, <1>6, <1>7

-----------------------------------------------------------------------------
(***************************************************************************)
(* What a step leaves alone.                                               *)
(***************************************************************************)

\* The rows of the other orders are as they were.
Touches(o) ==
  /\ \A q \in Orders : q # o =>
       /\ order'[q] = order[q] /\ trade'[q] = trade[q]
       /\ shipment'[q] = shipment[q] /\ refund'[q] = refund[q]
  /\ \A p \in PaymentIds :
       \/ payment'[p] = payment[p]
       \/ payment[p].of \in {o, NoOrder} /\ payment'[p].of = o

SameLinks == \A o \in Orders : Linked(o)' <=> Linked(o)

\* The rows of order q are as they were.
Same(q) ==
  /\ order'[q] = order[q] /\ trade'[q] = trade[q]
  /\ shipment'[q] = shipment[q] /\ refund'[q] = refund[q]
  /\ \A p \in PaymentIds :
       \/ payment[p].of # q /\ payment'[p].of # q
       \/ payment'[p] = payment[p]

\* An order none of whose rows changes stays as it should be.
LEMMA KeptSound ==
  ASSUME IInv, NEW q \in Orders, Same(q)
  PROVE  Sound(q)'
<1>1. RowsOf(q)' = RowsOf(q)
  BY DEF RowsOf, Same
<1>2. \A p \in RowsOf(q) : payment'[p] = payment[p] /\ payment[p].of = q
  BY DEF RowsOf, Same
<1>3. /\ order'[q] = order[q] /\ trade'[q] = trade[q]
      /\ shipment'[q] = shipment[q] /\ refund'[q] = refund[q]
  BY DEF Same
<1>4. Sound(q) /\ (Linked(q)' <=> Linked(q))
  BY <1>3 DEF IInv, RowsSound, Linked
<1>5. ASSUME NEW p \in RowsOf(q) PROVE RowSound(p)'
  BY <1>2, <1>3, <1>4 DEF Sound, RowSound
<1>6. Booked(q)' = Booked(q)
  BY <1>1, <1>2 DEF Booked
<1>7. OneOfEach(q)'
  BY <1>1, <1>2, <1>3, <1>4, <1>6 DEF OneOfEach, Sound
<1>8. AgreesWithTrade(q)'
  BY <1>1, <1>2, <1>3, <1>4 DEF AgreesWithTrade, Sound
<1> QED
  BY <1>1, <1>3, <1>4, <1>5, <1>7, <1>8 DEF Sound

\* So do all the orders that a step is not about.
LEMMA OthersSound ==
  ASSUME IInv, NEW o \in Orders, Touches(o), NEW q \in Orders, q # o
  PROVE  Sound(q)'
<1>1. Same(q)
  BY LegacyAssumption DEF LegacyAssumption, Touches, Same
<1> QED
  BY <1>1, KeptSound

\* Only the order that a step is about has to be looked at.
LEMMA OneOrder ==
  ASSUME IInv, NEW o \in Orders, Touches(o), RowsTyped', Sound(o)',
         Linked(o)' <=> Linked(o)
  PROVE  RowsSound' /\ SameLinks
<1>1. \A q \in Orders : Sound(q)'
  BY OthersSound
<1>2. NobodysRows'
  BY DEF IInv, RowsSound, NobodysRows, Touches
<1>3. SameLinks
  BY DEF SameLinks, Linked, Touches
<1> QED
  BY <1>1, <1>2, <1>3 DEF RowsSound

\* A step that writes no row keeps all of them.
LEMMA SameRows ==
  ASSUME IInv, UNCHANGED <<order, trade, shipment, payment, refund>>
  PROVE  RowsSound' /\ SameLinks
BY DEF IInv, RowsSound, RowsTyped, NobodysRows, Sound, RowSound, OneOfEach, Booked,
       AgreesWithTrade, RowsOf, Linked, SameLinks

\* Whatever happens to orders, units and coupons come back when one is
\* cancelled.
LEMMA SameHoldings ==
  ASSUME IInv, \A o \in Orders : order'[o] = "cancelled" <=> order[o] = "cancelled",
         UNCHANGED <<returned, coupon, usedQuantity>>
  PROVE  HoldingsSound'
<1>1. UnitsOfCancelled' = UnitsOfCancelled
  BY DEF UnitsOfCancelled, Units
<1>2. WithCoupon \subseteq Orders
  BY LegacyAssumption DEF LegacyAssumption
<1> QED
  BY <1>1, <1>2 DEF IInv, HoldingsSound, HoldingsReturnedOnce

\* Requests, jobs and the command where they were.
LEMMA SameWorkers ==
  ASSUME IInv, SameLinks, provider' \in [PaymentIds -> ProviderStates],
         UNCHANGED <<worker, backfill>>, faults' \in 0..MaxFaults
  PROVE  WorkersSound'
<1>1. ASSUME NEW w \in Workers PROVE Fits(worker[w])'
  <2>1. worker[w] \in Locals /\ Fits(worker[w])
    BY DEF IInv, WorkersSound
  <2> QED
    BY <2>1 DEF Fits, Locals, SameLinks
<1>2. Unlinked' = Unlinked
  BY DEF Unlinked, SameLinks
<1> QED
  BY <1>1, <1>2 DEF IInv, WorkersSound, BackfillSound

\* A request or a job goes on.
LEMMA WorkerMoves ==
  ASSUME IInv, SameLinks, provider' \in [PaymentIds -> ProviderStates],
         NEW w \in Workers, NEW l \in Locals, Fits(l),
         worker' = [worker EXCEPT ![w] = l], UNCHANGED backfill,
         faults' \in 0..MaxFaults
  PROVE  WorkersSound'
<1>1. Fits(l)'
  BY DEF Fits, Locals, SameLinks
<1>2. ASSUME NEW v \in Workers PROVE Fits(worker[v])'
  <2>1. CASE v = w
    <3>1. worker'[v] = l
      BY <2>1 DEF IInv, WorkersSound
    <3> QED
      BY <1>1, <3>1 DEF Fits
  <2>2. CASE v # w
    <3>1. worker[v] \in Locals /\ Fits(worker[v]) /\ worker'[v] = worker[v]
      BY <2>2 DEF IInv, WorkersSound
    <3> QED
      BY <3>1 DEF Fits, Locals, SameLinks
  <2> QED
    BY <2>1, <2>2
<1>3. Unlinked' = Unlinked
  BY DEF Unlinked, SameLinks
<1> QED
  BY <1>2, <1>3 DEF IInv, WorkersSound, BackfillSound

-----------------------------------------------------------------------------
(***************************************************************************)
(* What the steps do to the rows of an order.                              *)
(***************************************************************************)

\* The rows of an order, as the invariant has them.
LEMMA RowsOfOrder ==
  ASSUME IInv, NEW o \in Orders
  PROVE  /\ Sound(o) /\ OneOfEach(o) /\ AgreesWithTrade(o)
         /\ order[o] \in OrderStates /\ trade[o] \in TradeStates
         /\ \A p \in RowsOf(o) : /\ RowSound(p) /\ p \in PaymentIds
                                 /\ payment[p].of = o /\ payment[p] \in Payments
         /\ \A p \in Booked(o) : p \in RowsOf(o) /\ payment[p].status \in Taken
         /\ o # NoOrder
BY LegacyAssumption
DEF IInv, RowsSound, RowsTyped, Sound, RowsOf, Booked, LegacyAssumption

\* A payment that is not there yet is blank.
LEMMA Blank ==
  ASSUME IInv, NEW p \in PaymentIds, payment[p].status = "none"
  PROVE  payment[p] = NoRow /\ payment[p].of = NoOrder
<1>1. payment[p].of \notin Orders
  <2> SUFFICES ASSUME payment[p].of \in Orders PROVE FALSE
    OBVIOUS
  <2>1. p \in RowsOf(payment[p].of)
    BY DEF RowsOf
  <2>2. RowSound(p)
    BY <2>1, RowsOfOrder
  <2> QED
    BY <2>2 DEF RowSound
<1>2. payment[p] = NoRow
  BY <1>1 DEF IInv, RowsSound, NobodysRows
<1>3. NoRow.of = NoOrder
  BY DEF NoRow
<1> QED
  BY <1>2, <1>3

\* A new row of an order's payments.
LEMMA Inserted ==
  ASSUME IInv, NEW o \in Orders, NEW p \in PaymentIds, NEW row \in Payments,
         row.of = o, Insert(p, row),
         UNCHANGED <<shipment, refund>>,
         \A q \in Orders : q # o => order'[q] = order[q] /\ trade'[q] = trade[q]
  PROVE  /\ Touches(o)
         /\ payment' = [payment EXCEPT ![p] = row] /\ payment'[p] = row
         /\ payment' \in [PaymentIds -> Payments]
         /\ p \notin RowsOf(o)
         /\ RowsOf(o)' = RowsOf(o) \cup {p}
         /\ \A q \in RowsOf(o) : payment'[q] = payment[q]
<1>1. payment[p] = NoRow /\ payment[p].of = NoOrder /\ o # NoOrder
  BY Blank, RowsOfOrder DEF Insert
<1>2. payment' = [payment EXCEPT ![p] = row] /\ payment \in [PaymentIds -> Payments]
  BY DEF Insert, IInv, RowsSound, RowsTyped
<1>3. payment'[p] = row /\ \A q \in PaymentIds : q # p => payment'[q] = payment[q]
  BY <1>2
<1>4. p \notin RowsOf(o)
  BY <1>1 DEF RowsOf
<1>5. RowsOf(o)' = RowsOf(o) \cup {p}
  BY <1>3 DEF RowsOf
<1>6. \A q \in RowsOf(o) : payment'[q] = payment[q]
  BY <1>3, <1>4 DEF RowsOf
<1>7. Touches(o)
  BY <1>1, <1>3 DEF Touches
<1> QED
  BY <1>2, <1>3, <1>4, <1>5, <1>6, <1>7

\* A request for a payment that can still be paid: the order has no other one.
LEMMA CreatesPayment ==
  ASSUME IInv, NEW o \in Orders, NEW p \in PaymentIds, NEW row \in Payments,
         row.of = o, row.status = "pending", Insert(p, row),
         order[o] = "pending",
         row.tradeID <=> Linked(o),
         Linked(o) => row.activeTrade /\ row.allocation = "whole",
         ~Linked(o) => row.orderID /\ row.activeOrder,
         \A q \in RowsOf(o) : payment[q].status # "pending",
         UNCHANGED <<order, trade, shipment, refund>>
  PROVE  RowsSound' /\ SameLinks
<1>1. /\ Touches(o) /\ payment'[p] = row /\ payment' \in [PaymentIds -> Payments]
      /\ p \notin RowsOf(o) /\ RowsOf(o)' = RowsOf(o) \cup {p}
      /\ \A q \in RowsOf(o) : payment'[q] = payment[q]
  BY Inserted
<1>2. RowsTyped' /\ (Linked(o)' <=> Linked(o))
  BY <1>1 DEF IInv, RowsSound, RowsTyped, Linked
<1>3. Sound(o)
  BY RowsOfOrder
<1>4. ASSUME NEW q \in RowsOf(o)' PROVE RowSound(q)'
  <2>1. CASE q = p
    BY <2>1, <1>1, <1>2 DEF RowSound, Refunded
  <2>2. CASE q # p
    <3>1. q \in RowsOf(o) /\ payment'[q] = payment[q] /\ payment[q].of = o /\ RowSound(q)
      BY <2>2, <1>1, RowsOfOrder
    <3> QED
      BY <3>1, <1>2 DEF RowSound
  <2> QED
    BY <2>1, <2>2
<1>5. Booked(o)' = Booked(o)
  BY <1>1 DEF Booked, Taken, Refunded
<1>6. OneOfEach(o)'
  <2>1. \A q \in RowsOf(o)' : payment'[q].status = "pending" => q = p
    BY <1>1
  <2> QED
    BY <1>3, <1>5, <2>1 DEF Sound, OneOfEach
<1>7. AgreesWithTrade(o)'
  BY <1>1, <1>2, <1>3 DEF Sound, AgreesWithTrade
<1>8. Sound(o)'
  BY <1>3, <1>4, <1>6, <1>7 DEF Sound
<1> QED
  BY <1>1, <1>2, <1>8, OneOrder

\* The old button inserts a payment that is already paid.
LEMMA InsertsPaid ==
  ASSUME IInv, NEW o \in Orders, NEW p \in PaymentIds, NEW row \in Payments,
         row.of = o, row.status = "paid", Insert(p, row),
         order[o] = "pending", ~Linked(o),
         ~row.tradeID, row.orderID, ~row.activeOrder,
         \A q \in RowsOf(o) : payment[q].status # "pending",
         order' = UpdateOrderStatus(o, "pending", "paid"),
         UNCHANGED <<trade, shipment, refund>>
  PROVE  RowsSound' /\ SameLinks
<1>1. order' = [order EXCEPT ![o] = "paid"] /\ order'[o] = "paid"
  BY DEF UpdateOrderStatus, Moved, IInv, RowsSound, RowsTyped
<1>2. /\ Touches(o) /\ payment'[p] = row /\ payment' \in [PaymentIds -> Payments]
      /\ p \notin RowsOf(o) /\ RowsOf(o)' = RowsOf(o) \cup {p}
      /\ \A q \in RowsOf(o) : payment'[q] = payment[q]
  <2>1. \A q \in Orders : q # o => order'[q] = order[q] /\ trade'[q] = trade[q]
    BY <1>1 DEF IInv, RowsSound, RowsTyped
  <2> QED
    BY <2>1, Inserted
<1>3. RowsTyped' /\ ~Linked(o)'
  BY <1>1, <1>2 DEF IInv, RowsSound, RowsTyped, Linked, OrderStates
<1>4. Sound(o)
  BY RowsOfOrder
<1>5. Booked(o) = {}
  BY <1>4 DEF Sound, OneOfEach, PastPayment
<1>6. ASSUME NEW q \in RowsOf(o)' PROVE RowSound(q)' /\ payment'[q].status # "pending"
  <2>1. CASE q = p
    BY <2>1, <1>2, <1>3 DEF RowSound, Refunded
  <2>2. CASE q # p
    <3>1. q \in RowsOf(o) /\ payment'[q] = payment[q] /\ payment[q].of = o /\ RowSound(q)
      BY <2>2, <1>2, RowsOfOrder
    <3> QED
      BY <3>1, <1>3 DEF RowSound
  <2> QED
    BY <2>1, <2>2
<1>7. Booked(o)' = {p}
  BY <1>2, <1>5 DEF Booked, Taken
<1>8. OneOfEach(o)'
  BY <1>1, <1>6, <1>7 DEF OneOfEach, PastPayment
<1>9. AgreesWithTrade(o)'
  BY <1>3 DEF AgreesWithTrade
<1>10. shipment[o] = "none"
  BY <1>4 DEF Sound
<1>11. Sound(o)'
  BY <1>1, <1>6, <1>8, <1>9, <1>10 DEF Sound
<1> QED
  BY <1>2, <1>3, <1>11, OneOrder

\* A change of one payment.
Rewrites(p, row) == payment' = [payment EXCEPT ![p] = row]

\* A rewritten payment stays a payment of its order.
LEMMA OneRow ==
  ASSUME IInv, NEW p \in PaymentIds, NEW o \in Orders, o = payment[p].of,
         NEW row \in Payments, row.of = o,
         Rewrites(p, row),
         UNCHANGED shipment,
         \A q \in Orders : q # o =>
           order'[q] = order[q] /\ trade'[q] = trade[q] /\ refund'[q] = refund[q]
  PROVE  /\ Touches(o) /\ payment' \in [PaymentIds -> Payments]
         /\ p \in RowsOf(o) /\ RowsOf(o)' = RowsOf(o)
         /\ payment'[p] = row
         /\ \A q \in RowsOf(o) : q # p => payment'[q] = payment[q]
<1>1. payment \in [PaymentIds -> Payments]
  BY DEF IInv, RowsSound, RowsTyped
<1>2. payment'[p] = row /\ \A q \in PaymentIds : q # p => payment'[q] = payment[q]
  BY <1>1 DEF Rewrites
<1> QED
  BY <1>1, <1>2 DEF Rewrites, Touches, RowsOf

\* A payment is booked, together with its order and its trade.
LEMMA Completes ==
  ASSUME IInv, NEW p \in PaymentIds, CanCompletePayment(p), CompletePayment(p),
         UNCHANGED <<shipment, refund>>
  PROVE  RowsSound' /\ SameLinks
<1>1. payment[p].of \in Orders /\ payment[p] \in Payments
  BY DEF CanCompletePayment, IInv, RowsSound, RowsTyped, NobodysRows, NoRow, Refunded
<1>2. PICK o \in Orders : o = payment[p].of
  BY <1>1
<1>3. p \in RowsOf(o) /\ Sound(o) /\ RowSound(p) /\ OneOfEach(o) /\ AgreesWithTrade(o)
  BY <1>2, RowsOfOrder DEF RowsOf
<1>4. /\ payment' = MarkPaid(p)
      /\ order' = [order EXCEPT ![o] = IF @ = "pending" THEN "paid" ELSE @]
      /\ trade' = [trade EXCEPT ![o] = IF @ = "pending" THEN "paid" ELSE @]
  BY <1>2 DEF CompletePayment, UpdateOrderStatus, UpdateTradeStatus, Moved
<1>5. /\ order \in [Orders -> OrderStates] /\ trade \in [Orders -> TradeStates]
      /\ payment \in [PaymentIds -> Payments]
  BY DEF IInv, RowsSound, RowsTyped
<1>6. CASE payment[p].status # "pending"
  <2>1. p \in Booked(o)
    BY <1>3, <1>6 DEF CanCompletePayment, Booked, Taken
  <2>2. order[o] # "pending" /\ trade[o] # "pending"
    BY <1>3, <2>1 DEF OneOfEach, PastPayment, AgreesWithTrade, Linked
  <2>3. UNCHANGED <<order, trade, payment>>
    BY <1>4, <1>5, <1>6, <2>2 DEF MarkPaid, Settle
  <2> QED
    BY <2>3, SameRows
<1>7. CASE payment[p].status = "pending"
  <2> DEFINE row == [payment[p] EXCEPT !.status = "paid", !.activeOrder = FALSE,
                                       !.activeTrade = FALSE]
  <2>1. row \in Payments /\ row.of = o
    BY <1>1, <1>2 DEF Payments, PaymentStates
  <2>2. /\ row.status = "paid" /\ ~row.activeOrder /\ ~row.activeTrade
        /\ row.orderID = payment[p].orderID /\ row.tradeID = payment[p].tradeID
        /\ row.allocation = payment[p].allocation
    BY <1>1 DEF Payments
  <2>3. Rewrites(p, row)
    BY <1>4, <1>7 DEF Rewrites, MarkPaid, Settle
  <2> HIDE DEF row
  <2>4. order[o] = "pending" /\ order'[o] = "paid"
    BY <1>2, <1>3, <1>4, <1>5, <1>7 DEF RowSound
  <2>5. Linked(o) => trade[o] = "pending" /\ trade'[o] = "paid"
    BY <1>3, <1>4, <1>5, <2>4 DEF AgreesWithTrade
  <2>6. ~Linked(o) => trade'[o] = "none"
    BY <1>4, <1>5 DEF Linked
  <2>7. Linked(o)' <=> Linked(o)
    BY <2>5, <2>6 DEF Linked
  <2>8. /\ Touches(o) /\ payment' \in [PaymentIds -> Payments]
        /\ p \in RowsOf(o) /\ RowsOf(o)' = RowsOf(o) /\ payment'[p] = row
        /\ \A q \in RowsOf(o) : q # p => payment'[q] = payment[q]
    <3>1. \A q \in Orders : q # o => /\ order'[q] = order[q] /\ trade'[q] = trade[q]
                                     /\ refund'[q] = refund[q]
      BY <1>4, <1>5
    <3> QED
      BY <1>2, <2>1, <2>3, <3>1, OneRow
  <2>9. RowsTyped'
    BY <1>4, <1>5, <2>8
    DEF IInv, RowsSound, RowsTyped, OrderStates, TradeStates
  <2>10. Booked(o) = {}
    BY <1>3, <2>4 DEF OneOfEach, PastPayment
  <2>11. ASSUME NEW q \in RowsOf(o)' PROVE RowSound(q)' /\ payment'[q].status # "pending"
    <3>1. CASE q = p
      <4>1. payment'[q] = row /\ row.of = o /\ refund'[o] = refund[o]
        BY <3>1, <2>1, <2>8
      <4> QED
        BY <4>1, <1>2, <1>3, <1>7, <2>2, <2>7 DEF RowSound, Refunded
    <3>2. CASE q # p
      <4>1. /\ q \in RowsOf(o) /\ payment'[q] = payment[q] /\ payment[q].of = o
            /\ RowSound(q) /\ payment[q].status # "pending"
        BY <3>2, <1>3, <1>7, <2>8, RowsOfOrder DEF OneOfEach
      <4> QED
        BY <4>1, <2>7 DEF RowSound
    <3> QED
      BY <3>1, <3>2
  <2>12. Booked(o)' = {p}
    BY <2>2, <2>8, <2>10 DEF Booked, Taken
  <2>13. OneOfEach(o)'
    BY <2>4, <2>11, <2>12 DEF OneOfEach, PastPayment
  <2>14. AgreesWithTrade(o)'
    BY <1>3, <2>2, <2>4, <2>5, <2>7, <2>8 DEF AgreesWithTrade
  <2>15. shipment[o] = "none"
    BY <1>3, <2>4 DEF Sound
  <2>16. Sound(o)'
    BY <2>4, <2>11, <2>13, <2>14, <2>15 DEF Sound
  <2> QED
    BY <2>7, <2>8, <2>9, <2>16, OneOrder
<1> QED
  BY <1>6, <1>7

\* A payment that Alipay has closed is closed here.
LEMMA Closes ==
  ASSUME IInv, NEW p \in PaymentIds, payment' = MarkClosed(p),
         UNCHANGED <<order, trade, shipment, refund>>
  PROVE  RowsSound' /\ SameLinks
<1>1. CASE payment[p].status # "pending"
  BY <1>1, SameRows DEF MarkClosed, Settle
<1>2. CASE payment[p].status = "pending"
  <2>1. payment[p].of \in Orders /\ payment[p] \in Payments
    BY <1>2 DEF IInv, RowsSound, RowsTyped, NobodysRows, NoRow
  <2>2. PICK o \in Orders : o = payment[p].of
    BY <2>1
  <2>3. p \in RowsOf(o) /\ Sound(o) /\ RowSound(p) /\ OneOfEach(o) /\ AgreesWithTrade(o)
    BY <2>2, RowsOfOrder DEF RowsOf
  <2> DEFINE row == [payment[p] EXCEPT !.status = "closed", !.activeOrder = FALSE,
                                       !.activeTrade = FALSE]
  <2>4. row \in Payments /\ row.of = o
    BY <2>1, <2>2 DEF Payments, PaymentStates
  <2>5. /\ row.status = "closed" /\ ~row.activeOrder /\ ~row.activeTrade
        /\ row.orderID = payment[p].orderID /\ row.tradeID = payment[p].tradeID
        /\ row.allocation = payment[p].allocation
    BY <2>1 DEF Payments
  <2>6. Rewrites(p, row)
    BY <1>2 DEF Rewrites, MarkClosed, Settle
  <2> HIDE DEF row
  <2>7. /\ Touches(o) /\ payment' \in [PaymentIds -> Payments]
        /\ p \in RowsOf(o) /\ RowsOf(o)' = RowsOf(o) /\ payment'[p] = row
        /\ \A q \in RowsOf(o) : q # p => payment'[q] = payment[q]
    <3>1. \A q \in Orders : q # o => /\ order'[q] = order[q] /\ trade'[q] = trade[q]
                                     /\ refund'[q] = refund[q]
      OBVIOUS
    <3>2. UNCHANGED shipment
      OBVIOUS
    <3> QED
      BY <2>2, <2>4, <2>6, <3>1, <3>2, OneRow
  <2>8. RowsTyped' /\ (Linked(o)' <=> Linked(o))
    BY <2>7 DEF IInv, RowsSound, RowsTyped, Linked
  <2>9. ASSUME NEW q \in RowsOf(o)' PROVE RowSound(q)' /\ payment'[q].status # "pending"
    <3>1. CASE q = p
      <4>1. payment'[q] = row /\ row.of = o
        BY <3>1, <2>4, <2>7
      <4> QED
        BY <4>1, <1>2, <2>2, <2>3, <2>5, <2>8 DEF RowSound, Refunded
    <3>2. CASE q # p
      <4>1. /\ q \in RowsOf(o) /\ payment'[q] = payment[q] /\ payment[q].of = o
            /\ RowSound(q) /\ payment[q].status # "pending"
        BY <3>2, <1>2, <2>3, <2>7, RowsOfOrder DEF OneOfEach
      <4> QED
        BY <4>1, <2>8 DEF RowSound
    <3> QED
      BY <3>1, <3>2
  <2>10. Booked(o)' = Booked(o)
    <3>1. payment'[p].status \notin Taken /\ payment[p].status \notin Taken
      BY <1>2, <2>5, <2>7 DEF Taken, Refunded
    <3> QED
      BY <3>1, <2>7 DEF Booked
  <2>11. \A q \in Booked(o) : payment'[q] = payment[q]
    <3>1. p \notin Booked(o)
      BY <1>2 DEF Booked, Taken, Refunded
    <3> QED
      BY <3>1, <2>7 DEF Booked
  <2>12. OneOfEach(o)'
    BY <2>3, <2>9, <2>10 DEF OneOfEach
  <2>13. AgreesWithTrade(o)'
    <3>1. trade[o] \in Taken /\ Linked(o) =>
            \E q \in RowsOf(o)' : payment'[q].status = trade[o]
      BY <2>3, <2>7, <2>11, RowsOfOrder DEF AgreesWithTrade, Booked
    <3> QED
      BY <2>3, <2>8, <3>1 DEF AgreesWithTrade
  <2>14. Sound(o)'
    BY <2>3, <2>9, <2>12, <2>13 DEF Sound
  <2> QED
    BY <2>7, <2>8, <2>14, OneOrder
<1> QED
  BY <1>1, <1>2

\* A closed payment is a payment.
LEMMA ClosedTyped ==
  \A row \in Payments :
    /\ [row EXCEPT !.status = "closed", !.activeOrder = FALSE] \in Payments
    /\ [row EXCEPT !.status = "closed", !.activeOrder = FALSE,
                   !.activeTrade = FALSE] \in Payments
BY DEF Payments, PaymentStates

\* Cancelling closes what could still be paid, and the trade if there is one.
LEMMA Cancels ==
  ASSUME IInv, NEW o \in Orders, NEW route \in {"order", "trade"},
         order[o] = "pending", route = "trade" <=> Linked(o),
         CancelOrder(o, route), UNCHANGED <<shipment, refund>>
  PROVE  RowsSound' /\ SameLinks /\ order' = [order EXCEPT ![o] = "cancelled"]
<1>1. Sound(o) /\ OneOfEach(o) /\ AgreesWithTrade(o)
  BY RowsOfOrder
<1>2. /\ order \in [Orders -> OrderStates] /\ trade \in [Orders -> TradeStates]
      /\ payment \in [PaymentIds -> Payments]
  BY DEF IInv, RowsSound, RowsTyped
<1>3. order' = [order EXCEPT ![o] = "cancelled"] /\ order'[o] = "cancelled"
  BY <1>2 DEF CancelOrder, CancelOrdersByTradeID, MarkOrderCancelled, Moved
<1>4. /\ Linked(o) => trade' = [trade EXCEPT ![o] = "closed"] /\ trade'[o] = "closed"
      /\ ~Linked(o) => trade' = trade
  BY <1>1, <1>2 DEF CancelOrder, CloseTrade, Moved, AgreesWithTrade
<1>5. Linked(o)' <=> Linked(o)
  BY <1>4 DEF Linked
<1>6. /\ payment' \in [PaymentIds -> Payments]
      /\ \A p \in PaymentIds :
           p \notin RowsOf(o) \/ payment[p].status # "pending" => payment'[p] = payment[p]
  <2>1. CASE route = "trade"
    <3>1. payment' = ClosePendingByTradeID(o)
      BY <2>1 DEF CancelOrder
    <3> QED
      BY <3>1, <1>2, ClosedTyped DEF ClosePendingByTradeID, FindByTradeID, RowsOf
  <2>2. CASE route = "order"
    <3>1. payment' = ClosePendingByOrderID(o)
      BY <2>2 DEF CancelOrder
    <3> QED
      BY <3>1, <1>2, ClosedTyped DEF ClosePendingByOrderID, FindByOrderID, RowsOf
  <2> QED
    BY <2>1, <2>2
<1>7. ASSUME NEW p \in RowsOf(o), payment[p].status = "pending"
      PROVE  /\ payment'[p].status = "closed" /\ ~payment'[p].activeOrder
             /\ Linked(o) => ~payment'[p].activeTrade
             /\ payment'[p].of = o
             /\ payment'[p].orderID = payment[p].orderID
             /\ payment'[p].tradeID = payment[p].tradeID
             /\ payment'[p].allocation = payment[p].allocation
  <2>1. /\ RowSound(p) /\ p \in PaymentIds /\ payment[p].of = o
        /\ payment[p] \in Payments
    BY RowsOfOrder
  <2>2. CASE route = "trade"
    <3>1. p \in FindByTradeID(o, "pending")
      BY <2>1, <2>2, <1>7 DEF RowSound, FindByTradeID
    <3>2. payment' = ClosePendingByTradeID(o)
      BY <2>2 DEF CancelOrder
    <3> QED
      BY <2>1, <2>2, <3>1, <3>2 DEF ClosePendingByTradeID, Payments
  <2>3. CASE route = "order"
    <3>1. p \in FindByOrderID(o, "pending") /\ ~Linked(o)
      BY <2>1, <2>3, <1>7 DEF RowSound, FindByOrderID
    <3>2. payment' = ClosePendingByOrderID(o)
      BY <2>3 DEF CancelOrder
    <3> QED
      BY <2>1, <2>3, <3>1, <3>2 DEF ClosePendingByOrderID, Payments
  <2> QED
    BY <2>2, <2>3
<1>8. RowsOf(o)' = RowsOf(o) /\ Touches(o)
  <2>1. \A p \in RowsOf(o) : payment'[p].of = o /\ payment[p].of = o
    BY <1>6, <1>7 DEF RowsOf
  <2>2. \A p \in PaymentIds : p \notin RowsOf(o) => payment'[p] = payment[p]
    BY <1>6
  <2> QED
    BY <2>1, <2>2, <1>2, <1>3, <1>4 DEF RowsOf, Touches
<1>9. RowsTyped'
  BY <1>2, <1>3, <1>4, <1>6 DEF IInv, RowsSound, RowsTyped, OrderStates, TradeStates
<1>10. Booked(o) = {}
  BY <1>1 DEF OneOfEach, PastPayment
<1>11. ASSUME NEW p \in RowsOf(o)'
       PROVE  RowSound(p)' /\ payment'[p].status \notin {"pending"} \cup Taken
  <2>1. /\ p \in RowsOf(o) /\ RowSound(p) /\ p \in PaymentIds /\ payment[p].of = o
        /\ payment[p].status \notin Taken
    BY <1>8, <1>10, RowsOfOrder DEF Booked
  <2>2. CASE payment[p].status = "pending"
    BY <2>1, <2>2, <1>5, <1>7 DEF RowSound, Taken, Refunded
  <2>3. CASE payment[p].status # "pending"
    <3>1. payment'[p] = payment[p]
      BY <2>1, <2>3, <1>6
    <3> QED
      BY <2>1, <2>3, <3>1, <1>5 DEF RowSound
  <2> QED
    BY <2>2, <2>3
<1>12. Booked(o)' = {}
  BY <1>11 DEF Booked
<1>13. OneOfEach(o)'
  BY <1>3, <1>11, <1>12 DEF OneOfEach, PastPayment, Booked
<1>14. AgreesWithTrade(o)'
  BY <1>1, <1>3, <1>4, <1>5 DEF AgreesWithTrade, Taken, Refunded
<1>15. Sound(o)'
  BY <1>1, <1>3, <1>11, <1>13, <1>14 DEF Sound
<1> QED
  BY <1>3, <1>5, <1>8, <1>9, <1>15, OneOrder

\* Shipping and completing move an order that has been paid.
LEMMA GoodsMove ==
  ASSUME IInv, NEW o \in Orders, NEW status, NEW goods,
         \/ /\ order[o] = "paid" /\ status = "shipped" /\ goods = "sent"
         \/ /\ order[o] = "shipped" /\ status = "completed" /\ goods = "received",
         order' = [order EXCEPT ![o] = status],
         shipment' = [shipment EXCEPT ![o] = goods],
         UNCHANGED <<trade, payment, refund>>
  PROVE  /\ RowsSound' /\ SameLinks
         /\ \A q \in Orders : order'[q] = "cancelled" <=> order[q] = "cancelled"
<1>1. Sound(o) /\ OneOfEach(o) /\ AgreesWithTrade(o)
  BY RowsOfOrder
<1>2. order'[o] = status /\ shipment'[o] = goods /\ RowsTyped'
  BY DEF IInv, RowsSound, RowsTyped, OrderStates
<1>3. Touches(o) /\ (Linked(o)' <=> Linked(o))
  BY DEF IInv, RowsSound, RowsTyped, Touches, Linked
<1>4. RowsOf(o)' = RowsOf(o) /\ Booked(o)' = Booked(o)
  BY DEF RowsOf, Booked
<1>5. ASSUME NEW p \in RowsOf(o) PROVE RowSound(p)'
  <2>1. RowSound(p) /\ payment[p].of = o
    BY RowsOfOrder
  <2>2. payment[p].status # "pending"
    BY <2>1 DEF RowSound
  <2> QED
    BY <2>1, <2>2, <1>3 DEF RowSound
<1>6. OneOfEach(o)'
  BY <1>1, <1>2, <1>4 DEF OneOfEach, PastPayment
<1>7. AgreesWithTrade(o)'
  BY <1>1, <1>2, <1>3, <1>4 DEF AgreesWithTrade
<1>8. Sound(o)'
  BY <1>2, <1>4, <1>5, <1>6, <1>7 DEF Sound
<1>9. \A q \in Orders : order'[q] = "cancelled" <=> order[q] = "cancelled"
  BY DEF IInv, RowsSound, RowsTyped
<1> QED
  BY <1>2, <1>3, <1>8, <1>9, OneOrder

\* Shipping moves an order and its parcel.
LEMMA ShipMoves ==
  ASSUME IInv, NEW o \in Orders, Ship(o)
  PROVE  /\ RowsSound' /\ SameLinks
         /\ \A q \in Orders : order'[q] = "cancelled" <=> order[q] = "cancelled"
<1>1. order[o] = "paid" /\ shipment[o] = "none"
  BY RowsOfOrder DEF Ship, ReadyToShip, Sound, IInv, RowsSound, RowsTyped
<1>2. /\ order' = [order EXCEPT ![o] = "shipped"]
      /\ shipment' = [shipment EXCEPT ![o] = "sent"]
      /\ UNCHANGED <<trade, payment, refund>>
  BY <1>1 DEF Ship, MarkShipped, CreateShipment, Moved
<1> QED
  BY <1>1, <1>2, GoodsMove

\* So does the end of it, by the buyer or by the job.
LEMMA CompleteMoves ==
  ASSUME IInv, NEW o \in Orders, order[o] = "shipped", Complete(o)
  PROVE  /\ RowsSound' /\ SameLinks
         /\ \A q \in Orders : order'[q] = "cancelled" <=> order[q] = "cancelled"
<1>1. /\ order' = [order EXCEPT ![o] = "completed"]
      /\ shipment' = [shipment EXCEPT ![o] = "received"]
      /\ UNCHANGED <<trade, payment, refund>>
  BY DEF Complete, Moved
<1> QED
  BY <1>1, GoodsMove

\* A refund moves the payment and the trade it is booked on together.
LEMMA Refunds ==
  ASSUME IInv, NEW o \in Orders, NEW p \in PaymentIds, NEW status \in Refunded,
         FinalizeRefund(o, p, status)
  PROVE  RowsSound' /\ SameLinks
<1>1. Sound(o) /\ OneOfEach(o) /\ AgreesWithTrade(o)
  BY RowsOfOrder
<1>2. /\ trade \in [Orders -> TradeStates] /\ refund \in [Orders -> {"none", "unlinked", "linked"}]
      /\ payment \in [PaymentIds -> Payments]
  BY DEF IInv, RowsSound, RowsTyped
<1>3. payment[p].of = o /\ payment[p].status \in Taken /\ payment[p].tradeID
  BY DEF FinalizeRefund, FindPaid, Find, FindByTradeID, Taken, Refunded
<1>4. p \in Booked(o) /\ p \in RowsOf(o) /\ RowSound(p) /\ Linked(o)
  <2>1. p \in RowsOf(o) /\ p \in Booked(o)
    BY <1>3 DEF RowsOf, Booked
  <2>2. RowSound(p)
    BY <2>1, RowsOfOrder
  <2> QED
    BY <2>1, <2>2, <1>3 DEF RowSound
<1> DEFINE row == [payment[p] EXCEPT !.status = status, !.allocation = "refunded",
                                     !.activeOrder = FALSE, !.activeTrade = FALSE]
<1>5. row \in Payments /\ row.of = o
  BY <1>2, <1>3 DEF Payments, PaymentStates, Refunded
<1>6. /\ row.status = status /\ ~row.activeOrder /\ ~row.activeTrade
      /\ row.tradeID = payment[p].tradeID /\ row.allocation = "refunded"
  BY <1>2 DEF Payments
<1>7. Rewrites(p, row)
  BY DEF Rewrites, FinalizeRefund
<1> HIDE DEF row
<1>8. /\ trade' = [trade EXCEPT ![o] = status] /\ trade'[o] = status
      /\ refund' = [refund EXCEPT ![o] = "linked"] /\ refund'[o] = "linked"
      /\ UNCHANGED <<order, shipment>>
  BY <1>2 DEF FinalizeRefund
<1>9. status # "none" /\ status # "pending" /\ status # "closed" /\ status \in Taken
  BY DEF Refunded, Taken
<1>10. Linked(o)'
  BY <1>8, <1>9 DEF Linked
<1>11. /\ Touches(o) /\ payment' \in [PaymentIds -> Payments]
       /\ RowsOf(o)' = RowsOf(o) /\ payment'[p] = row
       /\ \A q \in RowsOf(o) : q # p => payment'[q] = payment[q]
  <2>1. \A q \in Orders : q # o => /\ order'[q] = order[q] /\ trade'[q] = trade[q]
                                   /\ refund'[q] = refund[q]
    BY <1>2, <1>8
  <2> QED
    BY <2>1, <1>3, <1>5, <1>7, <1>8, OneRow
<1>12. RowsTyped'
  BY <1>2, <1>8, <1>11 DEF IInv, RowsSound, RowsTyped, TradeStates, Refunded
<1>13. order[o] \in PastPayment
  BY <1>1, <1>4 DEF OneOfEach
<1>14. ASSUME NEW q \in RowsOf(o)' PROVE RowSound(q)' /\ payment'[q].status # "pending"
  <2>1. CASE q = p
    <3>1. payment'[q] = row /\ row.of = o
      BY <2>1, <1>5, <1>11
    <3> QED
      BY <3>1, <1>3, <1>6, <1>8, <1>9, <1>10 DEF RowSound
  <2>2. CASE q # p
    <3>1. /\ q \in RowsOf(o) /\ payment'[q] = payment[q] /\ payment[q].of = o
          /\ RowSound(q)
      BY <2>2, <1>11, RowsOfOrder
    <3>2. payment[q].status \notin Taken /\ payment[q].status # "pending"
      BY <2>2, <3>1, <1>1, <1>4, <1>13 DEF OneOfEach, Booked, RowSound, PastPayment
    <3> QED
      BY <3>1, <3>2, <1>4, <1>8, <1>10 DEF RowSound, Taken
  <2> QED
    BY <2>1, <2>2
<1>15. Booked(o)' = Booked(o)
  BY <1>4, <1>6, <1>9, <1>11 DEF Booked
<1>16. OneOfEach(o)'
  BY <1>1, <1>8, <1>14, <1>15 DEF OneOfEach
<1>17. AgreesWithTrade(o)'
  BY <1>4, <1>6, <1>8, <1>9, <1>11, <1>13 DEF AgreesWithTrade, PastPayment
<1>18. Sound(o)'
  BY <1>1, <1>8, <1>14, <1>16, <1>17 DEF Sound
<1> QED
  BY <1>4, <1>10, <1>11, <1>12, <1>18, OneOrder

-----------------------------------------------------------------------------
(***************************************************************************)
(* The backfill.                                                           *)
(***************************************************************************)

\* The trade that an order gets tells what has become of the order.
LEMMA HistoryTold ==
  ASSUME IInv, NEW o \in Orders, ~Linked(o)
  PROVE  /\ HistoricalTradeStatus(o) \in TradeStates \ {"none"}
         /\ order[o] = "pending" <=> HistoricalTradeStatus(o) = "pending"
         /\ order[o] = "cancelled" <=> HistoricalTradeStatus(o) = "closed"
         /\ HistoricalTradeStatus(o) \in Taken =>
              \E p \in RowsOf(o) : payment[p].status = HistoricalTradeStatus(o)
<1> DEFINE refunded == \E p \in RowsOf(o) : successfulRefundAmount(o, p)
           status == HistoricalTradeStatus(o)
<1>1. OneOfEach(o) /\ order[o] \in OrderStates
  BY RowsOfOrder
<1>2. CASE refunded
  <2>1. PICK p \in RowsOf(o) : successfulRefundAmount(o, p)
    BY <1>2
  <2>2. payment[p].status = "partiallyRefunded"
    BY <2>1, RowsOfOrder DEF RowSound, successfulRefundAmount
  <2>3. p \in Booked(o)
    BY <2>2 DEF Booked, Taken, Refunded
  <2>4. order[o] \in PastPayment
    BY <1>1, <2>3 DEF OneOfEach
  <2>5. status = "partiallyRefunded"
    BY <1>2 DEF HistoricalTradeStatus
  <2> HIDE DEF status
  <2> QED
    BY <2>2, <2>4, <2>5 DEF PastPayment, TradeStates, status
<1>3. CASE ~refunded /\ order[o] = "cancelled"
  <2>1. status = "closed"
    BY <1>3 DEF HistoricalTradeStatus
  <2> QED
    BY <1>3, <2>1 DEF TradeStates, Taken, Refunded
<1>4. CASE ~refunded /\ order[o] = "pending"
  <2>1. status = "pending"
    BY <1>4 DEF HistoricalTradeStatus
  <2> QED
    BY <1>4, <2>1 DEF TradeStates, Taken, Refunded
<1>5. CASE ~refunded /\ order[o] \notin {"cancelled", "pending"}
  <2>1. status = "paid"
    BY <1>5 DEF HistoricalTradeStatus
  <2>2. PICK p \in Booked(o) : TRUE
    BY <1>1, <1>5 DEF OneOfEach, PastPayment, OrderStates
  <2>3. p \in RowsOf(o) /\ RowSound(p) /\ payment[p].of = o /\ payment[p].status \in Taken
    BY RowsOfOrder
  <2>4. payment[p].status \notin Refunded
    BY <1>5, <2>3 DEF RowSound, successfulRefundAmount
  <2>5. payment[p].status = "paid"
    BY <2>3, <2>4 DEF Taken
  <2> QED
    BY <1>5, <2>1, <2>3, <2>5 DEF TradeStates
<1> QED
  BY <1>2, <1>3, <1>4, <1>5

\* A payment that is linked keeps what it is and gets what a linked one has.
LEMMA LinkedRow ==
  ASSUME IInv, NEW p \in PaymentIds
  PROVE  /\ LinkPayment(p) \in Payments
         /\ LinkPayment(p).of = payment[p].of
         /\ LinkPayment(p).status = payment[p].status
         /\ LinkPayment(p).activeOrder = payment[p].activeOrder
         /\ LinkPayment(p).tradeID
         /\ LinkPayment(p).activeTrade <=>
              payment[p].status = "pending" /\ payment[p].activeOrder
         /\ LinkPayment(p).allocation =
              IF successfulRefundAmount(payment[p].of, p) THEN "refunded" ELSE "whole"
<1>1. payment[p] \in Payments
  BY DEF IInv, RowsSound, RowsTyped
<1>2. (IF successfulRefundAmount(payment[p].of, p) THEN "refunded" ELSE "whole")
        \in {"none", "whole", "refunded"}
  OBVIOUS
<1>3. (payment[p].status = "pending" /\ payment[p].activeOrder) \in BOOLEAN
  OBVIOUS
<1> QED
  BY <1>1, <1>2, <1>3 DEF LinkPayment, Payments

\* A batch gives some orders a trade that agrees with them.
LEMMA Links ==
  ASSUME IInv, BackfillBatchStep
  PROVE  RowsSound'
<1> DEFINE batch == Oldest(Unlinked, BackfillBatch)
<1>1. /\ batch \subseteq Orders /\ \A o \in batch : ~Linked(o)
      /\ NoOrder \notin batch
  BY LegacyAssumption DEF Oldest, Unlinked, LegacyAssumption
<1>2. /\ trade' = [o \in Orders |->
                     IF o \in batch THEN HistoricalTradeStatus(o) ELSE trade[o]]
      /\ payment' = [p \in PaymentIds |->
                       IF payment[p].of \in batch THEN LinkPayment(p) ELSE payment[p]]
      /\ refund' = [o \in Orders |->
                      IF o \in batch THEN LinkRefunds(o) ELSE refund[o]]
      /\ UNCHANGED <<order, shipment>>
  BY DEF BackfillBatchStep
<1> HIDE DEF batch
<1>3. RowsTyped /\ NobodysRows
  BY DEF IInv, RowsSound
<1>4. RowsTyped'
  <2>1. trade' \in [Orders -> TradeStates]
    BY <1>1, <1>2, <1>3, HistoryTold DEF RowsTyped
  <2>2. payment' \in [PaymentIds -> Payments]
    BY <1>2, <1>3, LinkedRow DEF RowsTyped
  <2>3. refund' \in [Orders -> {"none", "unlinked", "linked"}]
    BY <1>2, <1>3 DEF RowsTyped, LinkRefunds
  <2> QED
    BY <1>2, <1>3, <2>1, <2>2, <2>3 DEF RowsTyped
<1>5. \A p \in PaymentIds : payment'[p].of = payment[p].of
  BY <1>2, LinkedRow
<1>6. NobodysRows'
  BY <1>1, <1>2, <1>3, <1>5 DEF NobodysRows
<1>7. ASSUME NEW o \in Orders, o \notin batch PROVE Sound(o)'
  <2>1. Same(o)
    BY <1>2, <1>5, <1>7 DEF Same
  <2> QED
    BY <2>1, KeptSound
<1>8. ASSUME NEW o \in batch PROVE Sound(o)'
  <2>1. /\ o \in Orders /\ ~Linked(o)
        /\ Sound(o) /\ OneOfEach(o) /\ refund[o] \in {"none", "unlinked", "linked"}
    BY <1>1, <1>3, RowsOfOrder DEF RowsTyped
  <2>2. /\ trade'[o] = HistoricalTradeStatus(o) /\ refund'[o] = LinkRefunds(o)
        /\ order'[o] = order[o] /\ shipment'[o] = shipment[o]
    BY <1>2, <2>1
  <2>3. Linked(o)'
    BY <2>1, <2>2, HistoryTold DEF Linked
  <2>4. RowsOf(o)' = RowsOf(o)
    BY <1>5 DEF RowsOf
  <2>5. ASSUME NEW p \in RowsOf(o)
        PROVE  /\ payment'[p] = LinkPayment(p) /\ payment[p].of = o /\ p \in PaymentIds
               /\ RowSound(p) /\ payment'[p].status = payment[p].status
    BY <1>2, <2>1, LinkedRow, RowsOfOrder DEF RowsOf
  <2>6. ASSUME NEW p \in RowsOf(o) PROVE RowSound(p)'
    <3>1. /\ payment'[p] = LinkPayment(p) /\ payment[p].of = o /\ p \in PaymentIds
          /\ RowSound(p)
      BY <2>5
    <3>2. /\ payment'[p].of = o
          /\ payment'[p].status = payment[p].status
          /\ payment'[p].activeOrder = payment[p].activeOrder
          /\ payment'[p].tradeID
          /\ payment'[p].activeTrade <=>
               payment[p].status = "pending" /\ payment[p].activeOrder
          /\ payment'[p].allocation =
               IF successfulRefundAmount(o, p) THEN "refunded" ELSE "whole"
      BY <3>1, LinkedRow
    <3>3. successfulRefundAmount(o, p) <=> payment[p].status \in Refunded
      BY <2>1, <3>1 DEF RowSound, successfulRefundAmount
    <3>4. payment[p].status \in Refunded => refund'[o] = "linked"
      BY <2>1, <2>2, <3>1 DEF RowSound, LinkRefunds
    <3> QED
      BY <2>1, <2>2, <2>3, <3>1, <3>2, <3>3, <3>4 DEF RowSound
  <2>7. Booked(o)' = Booked(o)
    BY <2>4, <2>5 DEF Booked
  <2>8. OneOfEach(o)'
    BY <2>1, <2>2, <2>4, <2>5, <2>7 DEF OneOfEach
  <2>9. AgreesWithTrade(o)'
    <3>1. refund'[o] # "unlinked"
      BY <2>2 DEF LinkRefunds
    <3>2. trade'[o] \in Taken => \E p \in RowsOf(o)' : payment'[p].status = trade'[o]
      BY <2>1, <2>2, <2>4, <2>5, HistoryTold
    <3> QED
      BY <2>1, <2>2, <3>1, <3>2, HistoryTold DEF AgreesWithTrade
  <2> QED
    BY <2>1, <2>2, <2>4, <2>6, <2>8, <2>9 DEF Sound
<1> QED
  BY <1>4, <1>6, <1>7, <1>8 DEF RowsSound

\* Nothing to do for the next batch: every order has a trade.
LEMMA NoneLeft ==
  ASSUME Oldest(Unlinked, BackfillBatch) = {}
  PROVE  Unlinked = {}
<1>1. Unlinked \in SUBSET Orders
  BY DEF Unlinked
<1>2. BackfillBatch \in Nat \ {0}
  BY LegacyAssumption DEF LegacyAssumption
<1> QED
  BY <1>1, <1>2, SomeOldest

\* A batch of the backfill keeps the invariant, whatever its size.
LEMMA BatchKeeps ==
  ASSUME IInv, BackfillBatchStep
  PROVE  IInv'
<1>1. RowsSound'
  BY Links
<1>2. HoldingsSound'
  BY SameHoldings DEF BackfillBatchStep
<1>3. /\ backfill.pc = "batch" /\ UNCHANGED <<provider, worker, faults>>
      /\ backfill' = [backfill EXCEPT !.pc =
           IF Oldest(Unlinked, BackfillBatch) = {} THEN "verify" ELSE @]
  BY DEF BackfillBatchStep
<1>4. /\ backfill \in [pc : {"idle", "batch", "verify"}, report : {"none", "ok", "failed"}]
      /\ worker \in [Workers -> Locals] /\ backfill.report # "failed"
  BY DEF IInv, WorkersSound, BackfillSound
<1>5. ASSUME NEW w \in Workers PROVE worker[w].pc = "idle"
  BY <1>3 DEF IInv, WorkersSound, Fits
<1>6. \A w \in Workers : Fits(worker[w])'
  BY <1>3, <1>5 DEF Fits
<1>7. BackfillSound'
  <2>1. backfill'.report = backfill.report
    BY <1>3, <1>4
  <2>2. ASSUME backfill'.pc = "verify" PROVE Unlinked' = {}
    <3>1. Oldest(Unlinked, BackfillBatch) = {}
      BY <1>3, <1>4, <2>2
    <3>2. Unlinked = {}
      BY <3>1, NoneLeft
    <3>3. trade' = [o \in Orders |-> trade[o]]
      BY <3>1 DEF BackfillBatchStep
    <3> QED
      BY <3>2, <3>3 DEF Unlinked, Linked
  <2> QED
    BY <1>4, <2>1, <2>2 DEF BackfillSound
<1>8. WorkersSound'
  BY <1>3, <1>4, <1>6, <1>7 DEF IInv, WorkersSound
<1> QED
  BY <1>1, <1>2, <1>8 DEF IInv

\* What has been linked passes the checks.
LEMMA ChecksPass ==
  ASSUME IInv, Unlinked = {}
  PROVE  ConsistencyChecks
<1>1. ASSUME NEW p \in Rows
      PROVE  /\ payment[p].tradeID
             /\ payment[p].activeTrade <=> payment[p].status = "pending"
             /\ payment[p].activeOrder => payment[p].status = "pending"
             /\ payment[p].allocation # "none"
             /\ (payment[p].allocation = "refunded"
                   <=> (payment[p].status \in Refunded
                          /\ refund[payment[p].of] = "linked"))
  <2>1. p \in PaymentIds /\ payment[p].of \in Orders
    BY DEF Rows, IInv, RowsSound, NobodysRows, NoRow
  <2>2. RowSound(p) /\ Linked(payment[p].of)
    BY <2>1, RowsOfOrder DEF RowsOf, Unlinked
  <2> QED
    BY <2>2 DEF RowSound
<1>2. \A o \in Orders : refund[o] # "unlinked"
  BY RowsOfOrder DEF AgreesWithTrade, Unlinked
<1> QED
  BY <1>1, <1>2 DEF ConsistencyChecks

\* So do its start, its verification and its interruption.
LEMMA CommandKeeps ==
  ASSUME IInv, BackfillStart \/ BackfillVerify \/ BackfillCrash
  PROVE  IInv'
<1>1. UNCHANGED <<rows, provider, worker>>
  BY DEF BackfillStart, BackfillVerify, BackfillCrash, Fault
<1>2. RowsSound' /\ SameLinks
  BY <1>1, SameRows DEF rows
<1>3. HoldingsSound'
  BY <1>1, SameHoldings DEF rows
<1>4. /\ backfill \in [pc : {"idle", "batch", "verify"}, report : {"none", "ok", "failed"}]
      /\ backfill.pc = "verify" => Unlinked = {}
      /\ backfill.report # "failed" /\ faults \in 0..MaxFaults
      /\ worker \in [Workers -> Locals] /\ \A w \in Workers : Fits(worker[w])
  BY DEF IInv, WorkersSound, BackfillSound
<1>5. faults' \in 0..MaxFaults
  BY <1>4, LegacyAssumption
  DEF BackfillStart, BackfillVerify, BackfillCrash, Fault, LegacyAssumption
<1>6. ASSUME NEW w \in Workers PROVE worker[w].pc = "idle"
  <2>1. CASE BackfillStart
    BY <2>1 DEF BackfillStart, Quiet
  <2>2. CASE BackfillVerify \/ BackfillCrash
    BY <2>2, <1>4 DEF BackfillVerify, BackfillCrash, Fits
  <2> QED
    BY <2>1, <2>2
<1>7. \A w \in Workers : Fits(worker[w])'
  BY <1>1, <1>6 DEF Fits
<1>8. /\ backfill' \in [pc : {"idle", "batch", "verify"}, report : {"none", "ok", "failed"}]
      /\ BackfillSound'
  <2>1. CASE BackfillStart
    BY <2>1, <1>4 DEF BackfillStart, BackfillSound
  <2>2. CASE BackfillVerify
    BY <2>2, <1>4, ChecksPass DEF BackfillVerify, BackfillSound
  <2>3. CASE BackfillCrash
    BY <2>3, <1>4 DEF BackfillCrash, BackfillSound
  <2> QED
    BY <2>1, <2>2, <2>3
<1>9. WorkersSound'
  BY <1>1, <1>5, <1>7, <1>8 DEF IInv, WorkersSound
<1> QED
  BY <1>2, <1>3, <1>9 DEF IInv

-----------------------------------------------------------------------------
(***************************************************************************)
(* Every step keeps the invariant: payments, the provider, and fulfilment. *)
(***************************************************************************)

SameCancelled ==
  \A o \in Orders : order'[o] = "cancelled" <=> order[o] = "cancelled"

\* A step of no request or job, that gives nothing back.
LEMMA RowsOnly ==
  ASSUME IInv, RowsSound', SameLinks, SameCancelled,
         UNCHANGED <<returned, coupon, usedQuantity>>,
         UNCHANGED <<provider, worker, backfill, faults>>
  PROVE  IInv'
<1>1. HoldingsSound'
  BY SameHoldings DEF SameCancelled
<1>2. provider' \in [PaymentIds -> ProviderStates] /\ faults' \in 0..MaxFaults
  BY DEF IInv, WorkersSound
<1>3. WorkersSound'
  BY <1>2, SameWorkers
<1> QED
  BY <1>1, <1>3 DEF IInv

\* Paying an order does not cancel one.
LEMMA PaidNotCancelled ==
  ASSUME IInv, NEW o, order' = UpdateOrderStatus(o, "pending", "paid")
  PROVE  SameCancelled
BY DEF IInv, RowsSound, RowsTyped, UpdateOrderStatus, Moved, SameCancelled

\* A payment of an order by itself.
LEMMA CreateLegacyOrderPaymentKeeps ==
  ASSUME IInv, NEW o \in Orders, NEW p \in PaymentIds, NEW ch \in Channels,
         CreateLegacyOrderPayment(o, p, ch)
  PROVE  IInv'
<1> DEFINE row == [NoRow EXCEPT !.status = "pending", !.of = o, !.channel = ch,
                                !.orderID = TRUE, !.activeOrder = TRUE]
<1>1. row \in Payments /\ row.of = o /\ row.status = "pending" /\ row.orderID
      /\ row.activeOrder /\ ~row.tradeID
  BY LegacyAssumption DEF Payments, NoRow, PaymentStates, LegacyAssumption
<1>2. /\ ~Linked(o) /\ order[o] = "pending" /\ Insert(p, row)
      /\ NothingPending("order", o)
      /\ UNCHANGED <<order, trade, shipment, refund>>
      /\ UNCHANGED <<returned, coupon, usedQuantity>>
      /\ UNCHANGED <<provider, worker, backfill, faults>>
  BY DEF CreateLegacyOrderPayment
<1> HIDE DEF row
<1>3. ASSUME NEW q \in RowsOf(o) PROVE payment[q].status # "pending"
  <2>1. RowSound(q) /\ payment[q].of = o /\ q \in PaymentIds
    BY RowsOfOrder
  <2>2. payment[q].orderID
    BY <2>1, <1>2 DEF RowSound
  <2> QED
    BY <2>1, <2>2, <1>2 DEF NothingPending, Find, FindByOrderID
<1>4. RowsSound' /\ SameLinks
  BY <1>1, <1>2, <1>3, CreatesPayment
<1>5. SameCancelled
  BY <1>2 DEF SameCancelled
<1> QED
  BY <1>2, <1>4, <1>5, RowsOnly

\* A payment through the trade that the backfill has given an order.
LEMMA CreateTradePaymentKeeps ==
  ASSUME IInv, NEW o \in Orders, NEW p \in PaymentIds, NEW ch \in Channels,
         CreateTradePayment(o, p, ch)
  PROVE  IInv'
<1> DEFINE row == [NoRow EXCEPT !.status = "pending", !.of = o, !.channel = ch,
                                !.tradeID = TRUE, !.activeTrade = TRUE,
                                !.allocation = "whole"]
<1>1. row \in Payments /\ row.of = o /\ row.status = "pending" /\ row.tradeID
      /\ row.activeTrade /\ row.allocation = "whole"
  BY LegacyAssumption DEF Payments, NoRow, PaymentStates, LegacyAssumption
<1>2. /\ Linked(o) /\ order[o] = "pending" /\ Insert(p, row)
      /\ NothingPending("trade", o)
      /\ UNCHANGED <<order, trade, shipment, refund>>
      /\ UNCHANGED <<returned, coupon, usedQuantity>>
      /\ UNCHANGED <<provider, worker, backfill, faults>>
  BY DEF CreateTradePayment, Linked
<1> HIDE DEF row
<1>3. ASSUME NEW q \in RowsOf(o) PROVE payment[q].status # "pending"
  <2>1. RowSound(q) /\ payment[q].of = o /\ q \in PaymentIds
    BY RowsOfOrder
  <2>2. payment[q].tradeID
    BY <2>1, <1>2 DEF RowSound
  <2> QED
    BY <2>1, <2>2, <1>2 DEF NothingPending, Find, FindByTradeID
<1>4. RowsSound' /\ SameLinks
  BY <1>1, <1>2, <1>3, CreatesPayment
<1>5. SameCancelled
  BY <1>2 DEF SameCancelled
<1> QED
  BY <1>2, <1>4, <1>5, RowsOnly

\* A notification, and the buyer paying with the mock channel.
LEMMA CompletionKeeps ==
  ASSUME IInv, NEW p \in PaymentIds, AlipayNotify(p) \/ MockComplete(p)
  PROVE  IInv'
<1>1. /\ CanCompletePayment(p) /\ CompletePayment(p)
      /\ UNCHANGED <<shipment, refund>>
      /\ UNCHANGED <<returned, coupon, usedQuantity>>
      /\ UNCHANGED <<provider, worker, backfill, faults>>
  BY DEF AlipayNotify, MockComplete
<1>2. RowsSound' /\ SameLinks
  BY <1>1, Completes
<1>3. SameCancelled
  BY <1>1, PaidNotCancelled DEF CompletePayment
<1> QED
  BY <1>1, <1>2, <1>3, RowsOnly

\* The old button pays as the other ways do.
LEMMA MockPayOrderKeeps ==
  ASSUME IInv, NEW o \in Orders, NEW p \in PaymentIds, MockPayOrder(o, p)
  PROVE  IInv'
<1>1. /\ ~Linked(o) /\ order[o] = "pending"
      /\ order' = UpdateOrderStatus(o, "pending", "paid")
      /\ UNCHANGED <<shipment, refund>> /\ UNCHANGED trade
      /\ UNCHANGED <<returned, coupon, usedQuantity>>
      /\ UNCHANGED <<provider, worker, backfill, faults>>
  BY DEF MockPayOrder, CanMockPay
<1>2. ASSUME FindByOrderID(o, "pending") = {p}, payment' = MarkPaid(p)
      PROVE  RowsSound' /\ SameLinks
  <2>1. payment[p].of = o /\ payment[p].status = "pending" /\ p \in RowsOf(o)
    BY <1>2 DEF FindByOrderID, RowsOf
  <2>2. ~payment[p].tradeID
    BY <1>1, <2>1, RowsOfOrder DEF RowSound
  <2>3. CanCompletePayment(p)
    BY <1>1, <2>1, <2>2 DEF CanCompletePayment
  <2>4. trade' = UpdateTradeStatus(o, "pending", "paid")
    BY <1>1 DEF UpdateTradeStatus, Moved, Linked, IInv, RowsSound, RowsTyped
  <2>5. CompletePayment(p)
    BY <1>1, <1>2, <2>1, <2>4 DEF CompletePayment
  <2> QED
    BY <1>1, <2>3, <2>5, Completes
<1>3. ASSUME FindByOrderID(o, "pending") = {}, "mock" \in Channels,
             Insert(p, [NoRow EXCEPT !.status = "paid", !.of = o,
                                     !.channel = "mock", !.orderID = TRUE])
      PROVE  RowsSound' /\ SameLinks
  <2> DEFINE row == [NoRow EXCEPT !.status = "paid", !.of = o, !.channel = "mock",
                                  !.orderID = TRUE]
  <2>1. row \in Payments /\ row.of = o /\ row.status = "paid" /\ row.orderID
        /\ ~row.activeOrder /\ ~row.tradeID
    BY <1>3 DEF Payments, NoRow, PaymentStates
  <2>2. Insert(p, row)
    BY <1>3
  <2> HIDE DEF row
  <2>3. ASSUME NEW q \in RowsOf(o) PROVE payment[q].status # "pending"
    <3>1. RowSound(q) /\ payment[q].of = o /\ q \in PaymentIds
      BY RowsOfOrder
    <3>2. payment[q].orderID
      BY <3>1, <1>1 DEF RowSound
    <3> QED
      BY <3>1, <3>2, <1>3 DEF FindByOrderID
  <2> QED
    BY <1>1, <2>1, <2>2, <2>3, InsertsPaid
<1>4. RowsSound' /\ SameLinks
  BY <1>2, <1>3 DEF MockPayOrder
<1>5. SameCancelled
  BY <1>1, PaidNotCancelled
<1> QED
  BY <1>1, <1>4, <1>5, RowsOnly

\* Alipay writes no row.
LEMMA AlipayStepKeeps ==
  ASSUME IInv, NEW p \in PaymentIds, AlipayStep(p)
  PROVE  IInv'
<1>1. PICK from \in ProviderStates, to \in ProviderStates : ProviderMoves(p, from, to)
  BY DEF AlipayStep, ProviderStates
<1>2. RowsSound' /\ SameLinks
  BY <1>1, SameRows DEF ProviderMoves, rows
<1>3. HoldingsSound'
  BY <1>1, SameHoldings DEF ProviderMoves, rows
<1>4. /\ provider' \in [PaymentIds -> ProviderStates] /\ faults' \in 0..MaxFaults
      /\ UNCHANGED <<worker, backfill>>
  BY <1>1 DEF ProviderMoves, IInv, WorkersSound
<1>5. WorkersSound'
  BY <1>2, <1>4, SameWorkers
<1> QED
  BY <1>2, <1>3, <1>5 DEF IInv

\* Shipping, and completing.
LEMMA FulfilmentKeeps ==
  ASSUME IInv, NEW o \in Orders, Ship(o) \/ Confirm(o) \/ CompleteShippedOrder(o)
  PROVE  IInv'
<1>1. /\ UNCHANGED <<returned, coupon, usedQuantity>>
      /\ UNCHANGED <<provider, worker, backfill, faults>>
  BY DEF Ship, Confirm, CompleteShippedOrder, Complete
<1>2. RowsSound' /\ SameLinks /\ SameCancelled
  <2>1. CASE Ship(o)
    BY <2>1, ShipMoves DEF SameCancelled
  <2>2. CASE Confirm(o) \/ CompleteShippedOrder(o)
    BY <2>2, CompleteMoves DEF Confirm, CompleteShippedOrder, SameCancelled
  <2> QED
    BY <2>1, <2>2
<1> QED
  BY <1>1, <1>2, RowsOnly

\* A refund.
LEMMA FinalizeRefundKeeps ==
  ASSUME IInv, NEW o \in Orders, NEW p \in PaymentIds, NEW status \in Refunded,
         FinalizeRefund(o, p, status)
  PROVE  IInv'
<1>1. /\ UNCHANGED order /\ UNCHANGED <<returned, coupon, usedQuantity>>
      /\ UNCHANGED <<provider, worker, backfill, faults>>
  BY DEF FinalizeRefund
<1>2. SameCancelled
  BY <1>1 DEF SameCancelled
<1>3. RowsSound' /\ SameLinks
  BY Refunds
<1> QED
  BY <1>1, <1>2, <1>3, RowsOnly

-----------------------------------------------------------------------------
(***************************************************************************)
(* Units and coupons.                                                      *)
(***************************************************************************)

InUse == {o \in WithCoupon : coupon[o] # "unused"}

\* As many coupons are used as the counter says, and no counter is below 0.
LEMMA CouponsCounted ==
  ASSUME HoldingsSound
  PROVE  /\ IsFiniteSet(InUse) /\ usedQuantity = Cardinality(InUse)
         /\ \A o \in InUse : usedQuantity >= 1
<1>1. IsFiniteSet(Orders) /\ WithCoupon \subseteq Orders
  BY FS_Interval, LegacyAssumption DEF Orders, LegacyAssumption
<1>2. IsFiniteSet(InUse)
  BY <1>1, FS_Subset DEF InUse
<1>3. usedQuantity = Cardinality(InUse) /\ usedQuantity \in Nat
  BY DEF HoldingsSound, HoldingsReturnedOnce, InUse
<1>4. ASSUME NEW o \in InUse PROVE usedQuantity >= 1
  <2>1. usedQuantity # 0
    BY <1>2, <1>3, <1>4, FS_EmptySet
  <2> QED
    BY <2>1, <1>3
<1> QED
  BY <1>2, <1>3, <1>4

\* An order holds as many units as it has been placed for.
LEMMA UnitsCounted ==
  ASSUME NEW o \in Orders
  PROVE  IsFiniteSet(Units(o)) /\ Cardinality(Units(o)) = Quantity[o] /\ Quantity[o] \in Nat
<1>1. Quantity[o] \in Nat
  BY LegacyAssumption DEF LegacyAssumption
<1>2. IsFiniteSet(1..Quantity[o]) /\ Cardinality(1..Quantity[o]) = Quantity[o]
  BY <1>1, FS_Interval
<1>3. IsFiniteSet({o}) /\ Cardinality({o}) = 1
  BY FS_Singleton
<1>4. /\ IsFiniteSet({o} \X (1..Quantity[o]))
      /\ Cardinality({o} \X (1..Quantity[o])) = 1 * Cardinality(1..Quantity[o])
  BY <1>2, <1>3, FS_Product
<1> QED
  BY <1>1, <1>2, <1>4 DEF Units

\* Cancelling an order gives back its units, and its coupon if it has one.
LEMMA GivesBack ==
  ASSUME IInv, NEW o \in Orders, order[o] = "pending",
         order' = [order EXCEPT ![o] = "cancelled"],
         returned' = RestoreSKUStock(o), ReleaseUserCoupon(o)
  PROVE  HoldingsSound'
<1>1. /\ order \in [Orders -> OrderStates] /\ returned \in Nat /\ usedQuantity \in Nat
      /\ coupon \in [WithCoupon -> {"here", "unused", "elsewhere"}]
      /\ WithCoupon \subseteq Orders
      /\ IsFiniteSet(UnitsOfCancelled) /\ returned = Cardinality(UnitsOfCancelled)
      /\ \A q \in WithCoupon : coupon[q] = "here" <=> order[q] # "cancelled"
  BY LegacyAssumption
  DEF IInv, RowsSound, RowsTyped, HoldingsSound, HoldingsReturnedOnce, LegacyAssumption
<1>2. order'[o] = "cancelled" /\ \A q \in Orders : q # o => order'[q] = order[q]
  BY <1>1
<1>3. IsFiniteSet(Units(o)) /\ Cardinality(Units(o)) = Quantity[o] /\ Quantity[o] \in Nat
  BY UnitsCounted
<1>4. UnitsOfCancelled' = UnitsOfCancelled \cup Units(o)
  BY <1>2 DEF UnitsOfCancelled, Units
<1>5. UnitsOfCancelled \cap Units(o) = {}
  BY DEF UnitsOfCancelled, Units
<1>6. /\ IsFiniteSet(UnitsOfCancelled \cup Units(o))
      /\ Cardinality(UnitsOfCancelled \cup Units(o)) = returned + Quantity[o]
  <2>1. /\ IsFiniteSet(UnitsOfCancelled \cup Units(o))
        /\ Cardinality(UnitsOfCancelled \cup Units(o)) =
             Cardinality(UnitsOfCancelled) + Cardinality(Units(o))
               - Cardinality(UnitsOfCancelled \cap Units(o))
    BY <1>1, <1>3, FS_Union
  <2>2. Cardinality(UnitsOfCancelled \cap Units(o)) = 0
    BY <1>5, FS_EmptySet
  <2> QED
    BY <1>1, <1>3, <2>1, <2>2
<1>7. /\ returned' \in Nat /\ IsFiniteSet(UnitsOfCancelled')
      /\ returned' = Cardinality(UnitsOfCancelled')
  BY <1>1, <1>3, <1>4, <1>6 DEF RestoreSKUStock
<1>8. /\ coupon' \in [WithCoupon -> {"here", "unused", "elsewhere"}]
      /\ usedQuantity' \in Nat
      /\ \A q \in WithCoupon : coupon'[q] = "here" <=> order'[q] # "cancelled"
      /\ usedQuantity' = Cardinality(InUse')
  <2>1. CASE o \notin WithCoupon
    <3>1. UNCHANGED <<coupon, usedQuantity>>
      BY <2>1 DEF ReleaseUserCoupon
    <3>2. usedQuantity = Cardinality(InUse) /\ InUse' = InUse
      BY <3>1, CouponsCounted DEF InUse, IInv
    <3> QED
      BY <2>1, <3>1, <3>2, <1>1, <1>2
  <2>2. CASE o \in WithCoupon
    <3>1. coupon[o] = "here"
      BY <2>2, <1>1
    <3>2. coupon' = [coupon EXCEPT ![o] = "unused"]
      BY <2>2, <3>1 DEF ReleaseUserCoupon
    <3>3. o \in InUse /\ InUse' = InUse \ {o}
      BY <2>2, <3>1, <3>2, <1>1 DEF InUse
    <3>4. IsFiniteSet(InUse) /\ usedQuantity = Cardinality(InUse) /\ usedQuantity >= 1
      BY <3>3, CouponsCounted DEF IInv
    <3>5. Cardinality(InUse \ {o}) = Cardinality(InUse) - 1
      BY <3>3, <3>4, FS_RemoveElement
    <3>6. usedQuantity' = IF usedQuantity + (-1) > 0 THEN usedQuantity + (-1) ELSE 0
      BY <2>2 DEF ReleaseUserCoupon, IncrementCouponUsed
    <3>7. usedQuantity' = usedQuantity - 1 /\ usedQuantity' \in Nat
      BY <3>4, <3>6, <1>1
    <3>8. usedQuantity' = Cardinality(InUse')
      BY <3>3, <3>4, <3>5, <3>7
    <3>9. \A q \in WithCoupon : coupon'[q] = "here" <=> order'[q] # "cancelled"
      BY <3>2, <1>1, <1>2
    <3> QED
      BY <3>2, <3>7, <3>8, <3>9, <1>1
  <2> QED
    BY <2>1, <2>2
<1>9. HoldingsReturnedOnce'
  BY <1>7, <1>8 DEF HoldingsReturnedOnce, InUse
<1> QED
  BY <1>7, <1>8, <1>9 DEF HoldingsSound

\* A coupon that has been given back is used again.
LEMMA UseCouponElsewhereKeeps ==
  ASSUME IInv, NEW o \in WithCoupon, UseCouponElsewhere(o)
  PROVE  IInv'
<1>1. /\ coupon[o] = "unused" /\ coupon' = [coupon EXCEPT ![o] = "elsewhere"]
      /\ usedQuantity' = IncrementCouponUsed(1)
      /\ UNCHANGED <<order, trade, shipment, payment, refund>> /\ UNCHANGED returned
      /\ UNCHANGED <<provider, worker, backfill, faults>>
  BY DEF UseCouponElsewhere
<1>2. /\ coupon \in [WithCoupon -> {"here", "unused", "elsewhere"}]
      /\ usedQuantity \in Nat /\ HoldingsSound
  BY DEF IInv, HoldingsSound
<1>3. RowsSound' /\ SameLinks
  BY <1>1, SameRows
<1>4. UnitsOfCancelled' = UnitsOfCancelled
  BY <1>1 DEF UnitsOfCancelled
<1>5. o \notin InUse /\ InUse' = InUse \cup {o}
  BY <1>1, <1>2 DEF InUse
<1>6. IsFiniteSet(InUse) /\ usedQuantity = Cardinality(InUse)
  BY <1>2, CouponsCounted
<1>7. Cardinality(InUse \cup {o}) = Cardinality(InUse) + 1
  BY <1>5, <1>6, FS_AddElement
<1>8. usedQuantity' = usedQuantity + 1 /\ usedQuantity' \in Nat
  BY <1>1, <1>2 DEF IncrementCouponUsed
<1>9. usedQuantity' = Cardinality(InUse')
  BY <1>5, <1>6, <1>7, <1>8
<1>10. \A q \in WithCoupon : coupon'[q] = "here" <=> order'[q] # "cancelled"
  BY <1>1, <1>2 DEF HoldingsSound, HoldingsReturnedOnce
<1>11. HoldingsSound'
  BY <1>1, <1>2, <1>4, <1>8, <1>9, <1>10 DEF HoldingsSound, HoldingsReturnedOnce, InUse
<1>12. provider' \in [PaymentIds -> ProviderStates] /\ faults' \in 0..MaxFaults
  BY <1>1 DEF IInv, WorkersSound
<1>13. WorkersSound'
  BY <1>1, <1>3, <1>12, SameWorkers
<1> QED
  BY <1>3, <1>11, <1>13 DEF IInv

-----------------------------------------------------------------------------
(***************************************************************************)
(* Every step keeps the invariant: requests and jobs.                      *)
(***************************************************************************)

\* A request or a job goes on with l.
Continues(w, l) ==
  /\ worker' = [worker EXCEPT ![w] = l]
  /\ UNCHANGED backfill
  /\ provider' \in [PaymentIds -> ProviderStates]
  /\ faults' \in 0..MaxFaults

\* What a request or a job has found stays with it from step to step.
LEMMA GoesOnFits ==
  ASSUME IInv, NEW w \in Workers, worker[w].pc # "idle", NEW l \in Locals,
         l.order = worker[w].order, l.route = worker[w].route,
         l.orders = worker[w].orders, l.trades = worker[w].trades,
         l.pc \in {"check", "repair", "list", "query", "close", "requery", "commit"} =>
           worker[w].order \in Orders,
         l.pc \in {"repair", "close", "requery", "sync", "apply"} => l.pay \in PaymentIds
  PROVE  Fits(l)
<1>1. worker[w] \in Locals /\ Fits(worker[w])
  BY DEF IInv, WorkersSound
<1> QED
  BY <1>1 DEF Fits

\* A step of a request or a job that cancels nothing.
LEMMA WorkerKeeps ==
  ASSUME IInv, RowsSound', SameLinks, SameCancelled,
         UNCHANGED <<returned, coupon, usedQuantity>>,
         NEW w \in Workers, NEW l \in Locals, Fits(l), Continues(w, l)
  PROVE  IInv'
<1>1. HoldingsSound'
  BY SameHoldings DEF SameCancelled
<1>2. WorkersSound'
  BY WorkerMoves DEF Continues
<1> QED
  BY <1>1, <1>2 DEF IInv

\* A step of a request or a job that writes nothing but what it has found.
LEMMA ReaderKeeps ==
  ASSUME IInv, UNCHANGED rows, NEW w \in Workers, NEW l \in Locals, Fits(l),
         Continues(w, l)
  PROVE  IInv'
<1>1. RowsSound' /\ SameLinks
  BY SameRows DEF rows
<1>2. SameCancelled /\ UNCHANGED <<returned, coupon, usedQuantity>>
  BY DEF rows, SameCancelled
<1> QED
  BY <1>1, <1>2, WorkerKeeps

\* What a request or a job knows, as the invariant has it.
LEMMA Known ==
  ASSUME IInv, NEW w \in Workers, worker[w].pc # "idle"
  PROVE  /\ worker[w] \in Locals /\ Fits(worker[w])
         /\ worker[w].pc \in {"check", "repair", "list", "query", "close",
                              "requery", "commit"} =>
              /\ worker[w].order \in Orders
              /\ worker[w].route = "trade" <=> Linked(worker[w].order)
         /\ worker[w].pc \in {"repair", "close", "requery", "sync", "apply"} =>
              worker[w].pay \in PaymentIds
         /\ NextListed(w) \in Locals /\ Fits(NextListed(w))
BY NextListedFits DEF IInv, WorkersSound, Fits

\* The next payment to be closed before the order is cancelled.
LEMMA NextPaymentFits ==
  ASSUME IInv, NEW w \in Workers, worker[w].pc \in {"list", "query", "close", "requery"},
         NEW rest \in SUBSET PaymentIds
  PROVE  NextPayment(w, rest) \in Locals /\ Fits(NextPayment(w, rest))
<1>1. worker[w] \in Locals /\ worker[w].order \in Orders
  BY Known
<1>2. NextPayment(w, rest) \in Locals
  BY <1>1 DEF NextPayment, Locals, Steps
<1>3. /\ NextPayment(w, rest).pc \in {"commit", "query"}
      /\ NextPayment(w, rest).order = worker[w].order
      /\ NextPayment(w, rest).route = worker[w].route
      /\ NextPayment(w, rest).orders = worker[w].orders
      /\ NextPayment(w, rest).trades = worker[w].trades
  BY <1>1 DEF NextPayment, Locals
<1> QED
  BY <1>1, <1>2, <1>3, GoesOnFits

\* A step further, with the payment it is about.
LEMMA StepFits ==
  ASSUME IInv, NEW w \in Workers, worker[w].pc # "idle",
         NEW pc \in Steps \ {"idle"}, NEW pay \in PaymentIds \cup {NoPayment},
         NEW seen \in ProviderStates,
         pc \in {"check", "repair", "list", "query", "close", "requery", "commit"} =>
           worker[w].order \in Orders,
         pc \in {"repair", "close", "requery", "sync", "apply"} => pay \in PaymentIds
  PROVE  LET l == [worker[w] EXCEPT !.pc = pc, !.pay = pay, !.seen = seen] IN
         l \in Locals /\ Fits(l)
<1> DEFINE l == [worker[w] EXCEPT !.pc = pc, !.pay = pay, !.seen = seen]
<1>1. worker[w] \in Locals
  BY Known
<1>2. l \in Locals
  BY <1>1 DEF Locals
<1>3. /\ l.pc = pc /\ l.pay = pay /\ l.order = worker[w].order /\ l.route = worker[w].route
      /\ l.orders = worker[w].orders /\ l.trades = worker[w].trades
  BY <1>1 DEF Locals
<1> HIDE DEF l
<1>4. Fits(l)
  BY <1>2, <1>3, GoesOnFits
<1> QED
  BY <1>2, <1>4 DEF l

\* A request or a job that goes on writes its locals only, or rows as well.
LEMMA GotoContinues ==
  ASSUME IInv, NEW w, NEW l, Goto(w, l),
         provider' = provider \/ provider' \in [PaymentIds -> ProviderStates]
  PROVE  /\ Continues(w, l)
         /\ UNCHANGED <<shipment, refund>> /\ UNCHANGED <<returned, coupon, usedQuantity>>
BY DEF Goto, Continues, IInv, WorkersSound

\* A step of a request or a job that only reads.
LEMMA GotoKeeps ==
  ASSUME IInv, NEW w \in Workers, NEW l \in Locals, Fits(l), Goto(w, l),
         UNCHANGED <<order, trade, payment>>,
         provider' = provider \/ provider' \in [PaymentIds -> ProviderStates]
  PROVE  IInv'
<1>1. Continues(w, l)
  BY GotoContinues
<1>2. UNCHANGED rows
  BY DEF Goto, rows
<1> QED
  BY <1>1, <1>2, ReaderKeeps

\* The buyer asks for a cancellation.
LEMMA CancelStartKeeps ==
  ASSUME IInv, NEW w \in Workers, NEW o \in Orders, CancelStart(w, o)
  PROVE  IInv'
<1> DEFINE l == [Idle EXCEPT !.pc = "check", !.order = o,
                             !.route = IF Linked(o) THEN "trade" ELSE "order"]
<1>1. l \in Locals
  BY DEF Locals, Idle, Steps, ProviderStates
<1>2. Fits(l)
  BY DEF Fits, Idle, CancelStart, Goto, Open
<1>3. Goto(w, l) /\ Reads
  BY DEF CancelStart
<1> HIDE DEF l
<1>4. PICK k \in Locals : k = l
  BY <1>1
<1> QED
  BY <1>2, <1>3, <1>4, GotoKeeps DEF Reads, Goto

\* The buyer asks how a payment is doing.
LEMMA SyncStartKeeps ==
  ASSUME IInv, NEW w \in Workers, NEW p \in PaymentIds, SyncStart(w, p)
  PROVE  IInv'
<1> DEFINE l == [Idle EXCEPT !.pc = "sync", !.pay = p]
<1>1. l \in Locals
  BY DEF Locals, Idle, Steps, ProviderStates
<1>2. Fits(l)
  BY LegacyAssumption DEF Fits, Idle, SyncStart, Goto, Open, LegacyAssumption
<1>3. Goto(w, l) /\ Reads
  BY DEF SyncStart
<1> HIDE DEF l
<1> QED
  BY <1>1, <1>2, <1>3, GotoKeeps DEF Reads

\* A job lists the oldest pending orders and trades, each of its own kind.
LEMMA JobStartKeeps ==
  ASSUME IInv, NEW w \in Workers, JobStart(w)
  PROVE  IInv'
<1> DEFINE orders == Oldest(ExpiredPendingOrders, CancelBatch)
           trades == Oldest(ExpiredPendingTrades, CancelBatch)
           ofOrders == [Idle EXCEPT !.pc = "check", !.order = Min(orders),
                                    !.orders = orders \ {Min(orders)},
                                    !.trades = trades]
           ofTrades == [Idle EXCEPT !.pc = "check", !.route = "trade",
                                    !.order = Min(trades),
                                    !.trades = trades \ {Min(trades)}]
<1>1. /\ orders \subseteq Orders /\ \A o \in orders : ~Linked(o)
      /\ trades \subseteq Orders /\ \A o \in trades : Linked(o)
  BY DEF Oldest, ExpiredPendingOrders, ExpiredPendingTrades, Linked
<1>2. /\ orders \cup trades # {} /\ backfill.pc = "idle"
      /\ worker' = [worker EXCEPT ![w] = CASE orders # {} -> ofOrders [] OTHER -> ofTrades]
      /\ UNCHANGED rows /\ UNCHANGED <<provider, backfill, faults>>
  BY DEF JobStart, Open
<1> HIDE DEF orders, trades
<1>3. Orders \subseteq Nat
  BY DEF Orders
<1>4. orders # {} => Min(orders) \in orders
  BY <1>1, <1>3, MinIn
<1>5. trades # {} => Min(trades) \in trades
  BY <1>1, <1>3, MinIn
<1>6. orders # {} => ofOrders \in Locals /\ Fits(ofOrders)
  <2> SUFFICES ASSUME orders # {} PROVE ofOrders \in Locals /\ Fits(ofOrders)
    OBVIOUS
  <2>1. ofOrders \in Locals
    BY <1>1, <1>4 DEF Locals, Idle, Steps, ProviderStates
  <2>2. Fits(ofOrders)
    BY <1>1, <1>2, <1>4 DEF Fits, Idle
  <2> QED
    BY <2>1, <2>2
<1>7. trades # {} => ofTrades \in Locals /\ Fits(ofTrades)
  <2> SUFFICES ASSUME trades # {} PROVE ofTrades \in Locals /\ Fits(ofTrades)
    OBVIOUS
  <2>1. ofTrades \in Locals
    BY <1>1, <1>5 DEF Locals, Idle, Steps, ProviderStates
  <2>2. Fits(ofTrades)
    BY <1>1, <1>2, <1>5 DEF Fits, Idle
  <2> QED
    BY <2>1, <2>2
<1> HIDE DEF ofOrders, ofTrades
<1>8. PICK k \in Locals : Fits(k) /\ worker' = [worker EXCEPT ![w] = k]
  <2>1. CASE orders # {}
    BY <2>1, <1>2, <1>6
  <2>2. CASE orders = {}
    BY <2>2, <1>2, <1>7
  <2> QED
    BY <2>1, <2>2
<1>9. Continues(w, k)
  BY <1>2, <1>8 DEF Continues, IInv, WorkersSound
<1> QED
  BY <1>2, <1>8, <1>9, ReaderKeeps

\* A payment already booked is found, or none.
LEMMA CheckPendingKeeps ==
  ASSUME IInv, NEW w \in Workers, CheckPending(w)
  PROVE  IInv'
<1> DEFINE paid == FindPaid(worker[w].route, worker[w].order)
<1>1. worker[w].pc = "check" /\ Reads
  BY DEF CheckPending
<1>2. /\ worker[w] \in Locals /\ worker[w].order \in Orders
      /\ NextListed(w) \in Locals /\ Fits(NextListed(w))
  BY <1>1, Known
<1>3. paid \subseteq 1..LastPayment
  BY DEF FindPaid, Find, FindByOrderID, FindByTradeID, PaymentIds
<1>4. Goto(w, CASE ~StillPending(w) -> NextListed(w)
                [] StillPending(w) /\ paid # {} ->
                     [worker[w] EXCEPT !.pc = "repair", !.pay = Max(paid)]
                [] OTHER -> [worker[w] EXCEPT !.pc = "list"])
  BY DEF CheckPending
<1> HIDE DEF paid
<1>5. paid # {} => Max(paid) \in PaymentIds
  BY <1>3, MaxIn, LegacyAssumption DEF PaymentIds, LegacyAssumption
<1>6. ASSUME paid # {}
      PROVE  /\ [worker[w] EXCEPT !.pc = "repair", !.pay = Max(paid)] \in Locals
             /\ Fits([worker[w] EXCEPT !.pc = "repair", !.pay = Max(paid)])
  <2> DEFINE l == [worker[w] EXCEPT !.pc = "repair", !.pay = Max(paid)]
  <2>1. l \in Locals
    BY <1>2, <1>5, <1>6 DEF Locals, Steps
  <2>2. /\ l.pc = "repair" /\ l.pay \in PaymentIds /\ l.order = worker[w].order
        /\ l.route = worker[w].route
        /\ l.orders = worker[w].orders /\ l.trades = worker[w].trades
    BY <1>2, <1>5, <1>6 DEF Locals
  <2> HIDE DEF l
  <2>3. Fits(l)
    BY <1>1, <1>2, <2>1, <2>2, GoesOnFits
  <2> QED
    BY <2>1, <2>3 DEF l
<1>7. /\ [worker[w] EXCEPT !.pc = "list"] \in Locals
      /\ Fits([worker[w] EXCEPT !.pc = "list"])
  <2> DEFINE l == [worker[w] EXCEPT !.pc = "list"]
  <2>1. l \in Locals
    BY <1>2 DEF Locals, Steps
  <2>2. /\ l.pc = "list" /\ l.order = worker[w].order /\ l.route = worker[w].route
        /\ l.orders = worker[w].orders /\ l.trades = worker[w].trades
    BY <1>2 DEF Locals
  <2> HIDE DEF l
  <2>3. Fits(l)
    BY <1>1, <1>2, <2>1, <2>2, GoesOnFits
  <2> QED
    BY <2>1, <2>3 DEF l
<1>8. PICK k \in Locals : Fits(k) /\ Goto(w, k)
  <2>1. CASE ~StillPending(w)
    BY <2>1, <1>2, <1>4
  <2>2. CASE StillPending(w) /\ paid # {}
    BY <2>2, <1>4, <1>6
  <2>3. CASE StillPending(w) /\ paid = {}
    BY <2>3, <1>4, <1>7
  <2> QED
    BY <2>1, <2>2, <2>3
<1> QED
  BY <1>1, <1>8, GotoKeeps DEF Reads

\* The payments to be closed are listed.
LEMMA ListPendingPaymentsKeeps ==
  ASSUME IInv, NEW w \in Workers, ListPendingPayments(w)
  PROVE  IInv'
<1> DEFINE rest == {p \in Find(worker[w].route, worker[w].order, "pending") :
                      payment[p].channel = "alipay"}
<1>1. worker[w].pc = "list" /\ Goto(w, NextPayment(w, rest)) /\ Reads
  BY DEF ListPendingPayments
<1>2. rest \in SUBSET PaymentIds
  BY DEF Find, FindByOrderID, FindByTradeID
<1> HIDE DEF rest
<1>3. PICK k \in Locals : Fits(k) /\ Goto(w, k)
  BY <1>1, <1>2, NextPaymentFits
<1> QED
  BY <1>1, <1>3, GotoKeeps DEF Reads

\* Alipay is asked about each of them,
LEMMA QueryPaymentKeeps ==
  ASSUME IInv, NEW w \in Workers, QueryPayment(w)
  PROVE  IInv'
<1>1. worker[w].pc = "query" /\ Reads
  BY DEF QueryPayment
<1>2. worker[w] \in Locals /\ worker[w].order \in Orders
  BY <1>1, Known
<1>3. PICK p \in worker[w].todo :
        Goto(w, CASE provider[p] = "paid" -> [worker[w] EXCEPT !.pc = "sync", !.pay = p]
                  [] provider[p] = "closed" -> NextPayment(w, worker[w].todo \ {p})
                  [] OTHER -> [worker[w] EXCEPT !.pc = "close", !.pay = p])
  BY DEF QueryPayment
<1>4. p \in PaymentIds /\ worker[w].todo \ {p} \in SUBSET PaymentIds
  BY <1>2, <1>3 DEF Locals
<1>5. ASSUME NEW pc \in {"sync", "close"}
      PROVE  /\ [worker[w] EXCEPT !.pc = pc, !.pay = p] \in Locals
             /\ Fits([worker[w] EXCEPT !.pc = pc, !.pay = p])
  <2> DEFINE l == [worker[w] EXCEPT !.pc = pc, !.pay = p]
  <2>1. l \in Locals
    BY <1>2, <1>4 DEF Locals, Steps
  <2>2. /\ l.pc = pc /\ l.pay = p /\ l.order = worker[w].order
        /\ l.route = worker[w].route
        /\ l.orders = worker[w].orders /\ l.trades = worker[w].trades
    BY <1>2 DEF Locals
  <2> HIDE DEF l
  <2>3. Fits(l)
    BY <1>1, <1>2, <1>4, <2>1, <2>2, GoesOnFits
  <2> QED
    BY <2>1, <2>3 DEF l
<1>6. PICK k \in Locals : Fits(k) /\ Goto(w, k)
  <2>1. CASE provider[p] = "paid"
    BY <2>1, <1>3, <1>5
  <2>2. CASE provider[p] = "closed"
    <3>1. Goto(w, NextPayment(w, worker[w].todo \ {p}))
      BY <2>2, <1>3
    <3> QED
      BY <3>1, <1>1, <1>4, NextPaymentFits
  <2>3. CASE provider[p] \notin {"paid", "closed"}
    BY <2>3, <1>3, <1>5
  <2> QED
    BY <2>1, <2>2, <2>3
<1> QED
  BY <1>1, <1>6, GotoKeeps DEF Reads

\* to close it,
LEMMA ClosePaymentKeeps ==
  ASSUME IInv, NEW w \in Workers, ClosePayment(w)
  PROVE  IInv'
<1>1. worker[w].pc = "close" /\ UNCHANGED <<order, trade, payment>>
  BY DEF ClosePayment
<1>2. /\ worker[w] \in Locals /\ worker[w].order \in Orders
      /\ worker[w].pay \in PaymentIds
      /\ provider \in [PaymentIds -> ProviderStates]
  BY <1>1, Known DEF IInv, WorkersSound
<1>3. PICK p \in PaymentIds : p = worker[w].pay
  BY <1>2
<1>4. CASE /\ provider' = [provider EXCEPT ![p] = IF @ = "waiting" THEN "closed" ELSE @]
           /\ Goto(w, NextPayment(w, worker[w].todo \ {p}))
  <2>1. provider' \in [PaymentIds -> ProviderStates]
    BY <1>2, <1>4 DEF ProviderStates
  <2>2. worker[w].todo \ {p} \in SUBSET PaymentIds
    BY <1>2 DEF Locals
  <2>3. PICK k \in Locals : Fits(k) /\ Goto(w, k)
    BY <1>1, <1>4, <2>2, NextPaymentFits
  <2> QED
    BY <1>1, <2>1, <2>3, GotoKeeps
<1>5. CASE Goto(w, [worker[w] EXCEPT !.pc = "requery"]) /\ UNCHANGED provider
  <2> DEFINE l == [worker[w] EXCEPT !.pc = "requery"]
  <2>1. l \in Locals
    BY <1>2 DEF Locals, Steps
  <2>2. /\ l.pc = "requery" /\ l.pay \in PaymentIds /\ l.order = worker[w].order
        /\ l.route = worker[w].route
        /\ l.orders = worker[w].orders /\ l.trades = worker[w].trades
    BY <1>2 DEF Locals
  <2> HIDE DEF l
  <2>3. Fits(l)
    BY <1>1, <1>2, <2>1, <2>2, GoesOnFits
  <2>4. PICK k \in Locals : Fits(k) /\ Goto(w, k)
    BY <1>5, <2>1, <2>3 DEF l
  <2> QED
    BY <1>1, <1>5, <2>4, GotoKeeps
<1> QED
  BY <1>3, <1>4, <1>5 DEF ClosePayment

\* and again, if that has come too late.
LEMMA RequeryPaymentKeeps ==
  ASSUME IInv, NEW w \in Workers, RequeryPayment(w)
  PROVE  IInv'
<1>1. worker[w].pc = "requery" /\ Reads
  BY DEF RequeryPayment
<1>2. /\ worker[w] \in Locals /\ worker[w].order \in Orders
      /\ worker[w].pay \in PaymentIds
      /\ NextListed(w) \in Locals /\ Fits(NextListed(w))
  BY <1>1, Known
<1>3. PICK p \in PaymentIds : p = worker[w].pay
  BY <1>2
<1>4. Goto(w, CASE provider[p] = "paid" -> [worker[w] EXCEPT !.pc = "sync"]
                [] provider[p] = "closed" -> NextPayment(w, worker[w].todo \ {p})
                [] OTHER -> NextListed(w))
  BY <1>3 DEF RequeryPayment
<1>5. PICK k \in Locals : Fits(k) /\ Goto(w, k)
  <2>1. CASE provider[p] = "paid"
    <3> DEFINE l == [worker[w] EXCEPT !.pc = "sync"]
    <3>1. l \in Locals
      BY <1>2 DEF Locals, Steps
    <3>2. /\ l.pc = "sync" /\ l.pay \in PaymentIds /\ l.order = worker[w].order
          /\ l.route = worker[w].route
          /\ l.orders = worker[w].orders /\ l.trades = worker[w].trades
      BY <1>2 DEF Locals
    <3>3. Goto(w, l)
      BY <2>1, <1>4
    <3> HIDE DEF l
    <3>4. Fits(l)
      BY <1>1, <1>2, <3>1, <3>2, GoesOnFits
    <3> QED
      BY <3>1, <3>3, <3>4
  <2>2. CASE provider[p] = "closed"
    <3>1. Goto(w, NextPayment(w, worker[w].todo \ {p}))
      BY <2>2, <1>4
    <3>2. worker[w].todo \ {p} \in SUBSET PaymentIds
      BY <1>2 DEF Locals
    <3> QED
      BY <3>1, <3>2, <1>1, NextPaymentFits
  <2>3. CASE provider[p] \notin {"paid", "closed"}
    BY <2>3, <1>2, <1>4
  <2> QED
    BY <2>1, <2>2, <2>3
<1> QED
  BY <1>1, <1>5, GotoKeeps DEF Reads

\* Alipay is asked, and what it says is kept for the transaction.
LEMMA SyncQueryKeeps ==
  ASSUME IInv, NEW w \in Workers, SyncQuery(w)
  PROVE  IInv'
<1>1. worker[w].pc = "sync" /\ Reads
  BY DEF SyncQuery
<1>2. /\ worker[w] \in Locals /\ worker[w].pay \in PaymentIds
      /\ NextListed(w) \in Locals /\ Fits(NextListed(w))
  BY <1>1, Known
<1>3. PICK p \in PaymentIds : p = worker[w].pay
  BY <1>2
<1>4. Goto(w, IF provider[p] \in {"paid", "closed"}
              THEN [worker[w] EXCEPT !.pc = "apply", !.seen = provider[p]]
              ELSE NextListed(w))
  BY <1>3 DEF SyncQuery
<1>5. PICK k \in Locals : Fits(k) /\ Goto(w, k)
  <2>1. CASE provider[p] \in {"paid", "closed"}
    <3> DEFINE l == [worker[w] EXCEPT !.pc = "apply", !.seen = provider[p]]
    <3>1. l \in Locals
      BY <1>2, <2>1 DEF Locals, Steps, ProviderStates
    <3>2. /\ l.pc = "apply" /\ l.pay \in PaymentIds /\ l.order = worker[w].order
          /\ l.route = worker[w].route
          /\ l.orders = worker[w].orders /\ l.trades = worker[w].trades
      BY <1>2 DEF Locals
    <3>3. Goto(w, l)
      BY <2>1, <1>4
    <3> HIDE DEF l
    <3>4. Fits(l)
      BY <1>1, <1>2, <3>1, <3>2, GoesOnFits
    <3> QED
      BY <3>1, <3>3, <3>4
  <2>2. CASE provider[p] \notin {"paid", "closed"}
    BY <2>2, <1>2, <1>4
  <2> QED
    BY <2>1, <2>2
<1> QED
  BY <1>1, <1>5, GotoKeeps DEF Reads

\* A payment that Alipay has told about is booked, or nothing happens.
LEMMA CompletesOrNot ==
  ASSUME IInv, NEW p \in PaymentIds, CompleteOrRollback(p), UNCHANGED <<shipment, refund>>
  PROVE  RowsSound' /\ SameLinks /\ SameCancelled
<1>1. CASE CanCompletePayment(p)
  <2>1. CompletePayment(p)
    BY <1>1 DEF CompleteOrRollback
  <2>2. SameCancelled
    BY <2>1, PaidNotCancelled DEF CompletePayment
  <2> QED
    BY <1>1, <2>1, <2>2, Completes
<1>2. CASE ~CanCompletePayment(p)
  <2>1. UNCHANGED <<order, trade, payment>>
    BY <1>2 DEF CompleteOrRollback
  <2> QED
    BY <2>1, SameRows DEF SameCancelled
<1> QED
  BY <1>1, <1>2

\* A payment booked before is completed.
LEMMA RepairKeeps ==
  ASSUME IInv, NEW w \in Workers, RepairOrderFromPaidPayment(w)
  PROVE  IInv'
<1>1. /\ worker[w].pc = "repair" /\ CompleteOrRollback(worker[w].pay)
      /\ Goto(w, NextListed(w)) /\ UNCHANGED provider
  BY DEF RepairOrderFromPaidPayment
<1>2. /\ worker[w].pay \in PaymentIds
      /\ NextListed(w) \in Locals /\ Fits(NextListed(w))
  BY <1>1, Known
<1>3. PICK p \in PaymentIds : p = worker[w].pay
  BY <1>2
<1>4. CompleteOrRollback(p)
  BY <1>1, <1>3
<1>5. PICK k \in Locals : Fits(k) /\ Goto(w, k)
  BY <1>1, <1>2
<1>6. /\ Continues(w, k)
      /\ UNCHANGED <<shipment, refund>> /\ UNCHANGED <<returned, coupon, usedQuantity>>
  BY <1>1, <1>5, GotoContinues
<1>7. RowsSound' /\ SameLinks /\ SameCancelled
  BY <1>4, <1>6, CompletesOrNot
<1> QED
  BY <1>5, <1>6, <1>7, WorkerKeeps

\* What Alipay has said before is applied now.
LEMMA SyncApplyKeeps ==
  ASSUME IInv, NEW w \in Workers, SyncApply(w)
  PROVE  IInv'
<1>1. /\ worker[w].pc = "apply" /\ Goto(w, NextListed(w)) /\ UNCHANGED provider
  BY DEF SyncApply
<1>2. /\ worker[w].pay \in PaymentIds
      /\ NextListed(w) \in Locals /\ Fits(NextListed(w))
  BY <1>1, Known
<1>3. PICK p \in PaymentIds : p = worker[w].pay
  BY <1>2
<1>4. \/ CompleteOrRollback(p)
      \/ payment' = MarkClosed(p) /\ UNCHANGED <<order, trade>>
  BY <1>3 DEF SyncApply
<1>5. PICK k \in Locals : Fits(k) /\ Goto(w, k)
  BY <1>1, <1>2
<1>6. /\ Continues(w, k)
      /\ UNCHANGED <<shipment, refund>> /\ UNCHANGED <<returned, coupon, usedQuantity>>
  BY <1>1, <1>5, GotoContinues
<1>7. RowsSound' /\ SameLinks /\ SameCancelled
  <2>1. CASE CompleteOrRollback(p)
    BY <2>1, <1>6, CompletesOrNot
  <2>2. CASE payment' = MarkClosed(p) /\ UNCHANGED <<order, trade>>
    <3>1. SameCancelled
      BY <2>2 DEF SameCancelled
    <3> QED
      BY <2>2, <3>1, <1>6, Closes
  <2> QED
    BY <1>4, <2>1, <2>2
<1> QED
  BY <1>5, <1>6, <1>7, WorkerKeeps

\* A cancelling transaction decides again, under its locks.
LEMMA CommitCancelKeeps ==
  ASSUME IInv, NEW w \in Workers, CommitCancel(w)
  PROVE  IInv'
<1>1. /\ worker[w].pc = "commit"
      /\ worker' = [worker EXCEPT ![w] = NextListed(w)]
      /\ UNCHANGED <<shipment, refund>> /\ UNCHANGED <<provider, backfill, faults>>
  BY DEF CommitCancel
<1>2. /\ worker[w] \in Locals /\ worker[w].order \in Orders
      /\ worker[w].route = "trade" <=> Linked(worker[w].order)
      /\ NextListed(w) \in Locals /\ Fits(NextListed(w))
  BY <1>1, Known
<1>3. PICK k \in Locals : Fits(k) /\ worker' = [worker EXCEPT ![w] = k]
  BY <1>1, <1>2
<1>4. Continues(w, k)
  BY <1>1, <1>3 DEF Continues, IInv, WorkersSound
<1>5. CASE CanCancel(w)
  <2>1. PICK o \in Orders, route \in {"order", "trade"} :
          o = worker[w].order /\ route = worker[w].route
    BY <1>2 DEF Locals
  <2>2. order[o] = "pending" /\ (route = "trade" <=> Linked(o))
    BY <1>2, <1>5, <2>1 DEF CanCancel
  <2>3. CancelOrder(o, route)
    BY <1>5, <2>1 DEF CommitCancel
  <2>4. RowsSound' /\ SameLinks /\ order' = [order EXCEPT ![o] = "cancelled"]
    BY <1>1, <2>2, <2>3, Cancels
  <2>5. returned' = RestoreSKUStock(o) /\ ReleaseUserCoupon(o)
    BY <2>3 DEF CancelOrder
  <2>6. HoldingsSound'
    BY <2>2, <2>4, <2>5, GivesBack
  <2>7. WorkersSound'
    BY <1>3, <1>4, <2>4, WorkerMoves DEF Continues
  <2> QED
    BY <2>4, <2>6, <2>7 DEF IInv
<1>6. CASE ~CanCancel(w)
  <2>1. UNCHANGED rows
    BY <1>1, <1>6 DEF CommitCancel, rows
  <2> QED
    BY <2>1, <1>3, <1>4, ReaderKeeps
<1> QED
  BY <1>5, <1>6

\* A failed call ends the request or the step of the job; a closing that fails
\* may have closed the payment; a crash forgets what was found.
LEMMA FailureKeeps ==
  ASSUME IInv, NEW w \in Workers, QueryFails(w) \/ CloseFails(w) \/ Crash(w)
  PROVE  IInv'
<1>1. /\ worker[w].pc # "idle" /\ UNCHANGED rows /\ UNCHANGED backfill
      /\ faults < MaxFaults /\ faults' = faults + 1
  BY DEF QueryFails, CloseFails, Crash, Fault
<1>2. /\ worker[w] \in Locals /\ Fits(worker[w])
      /\ NextListed(w) \in Locals /\ Fits(NextListed(w))
  BY <1>1, Known
<1>3. faults' \in 0..MaxFaults
  BY <1>1, LegacyAssumption DEF IInv, WorkersSound, LegacyAssumption
<1>4. provider' \in [PaymentIds -> ProviderStates]
  BY DEF IInv, WorkersSound, QueryFails, CloseFails, Crash, ProviderStates
<1>5. PICK k \in Locals : Fits(k) /\ worker' = [worker EXCEPT ![w] = k]
  <2>1. CASE QueryFails(w)
    BY <2>1, <1>2 DEF QueryFails
  <2>2. CASE CloseFails(w)
    <3> DEFINE l == [worker[w] EXCEPT !.pc = "requery"]
    <3>1. l \in Locals
      BY <1>2 DEF Locals, Steps
    <3>2. Fits(l)
      BY <1>2, <2>2 DEF Fits, Locals, CloseFails
    <3>3. worker' = [worker EXCEPT ![w] = l]
      BY <2>2 DEF CloseFails
    <3> QED
      BY <3>1, <3>2, <3>3
  <2>3. CASE Crash(w)
    <3>1. Idle \in Locals /\ Fits(Idle)
      BY DEF Idle, Locals, Steps, ProviderStates, Fits
    <3> QED
      BY <2>3, <3>1 DEF Crash
  <2> QED
    BY <2>1, <2>2, <2>3
<1>6. Continues(w, k)
  BY <1>1, <1>3, <1>4, <1>5 DEF Continues
<1> QED
  BY <1>1, <1>5, <1>6, ReaderKeeps

-----------------------------------------------------------------------------
(***************************************************************************)
(* The invariant holds at first, and after every step.                     *)
(***************************************************************************)

\* The payment of an order refunded in part, as it was written before trades.
LEMMA OldRowIs ==
  ASSUME NEW o \in Orders
  PROVE  /\ OldRow(o) \in Payments /\ OldRow(o).of = o
         /\ OldRow(o).status = "partiallyRefunded" /\ OldRow(o).orderID
         /\ ~OldRow(o).activeOrder /\ ~OldRow(o).tradeID
<1> DEFINE row == [NoRow EXCEPT !.status = "partiallyRefunded", !.of = o,
                                !.channel = "alipay", !.orderID = TRUE]
<1>1. row \in Payments /\ row.of = o /\ row.status = "partiallyRefunded"
      /\ row.orderID /\ ~row.activeOrder /\ ~row.tradeID
  BY DEF NoRow, Payments, PaymentStates
<1>2. row = OldRow(o)
  BY DEF OldRow
<1> HIDE DEF row
<1> QED
  BY <1>1, <1>2

\* The payments there are at first: one of each order refunded in part.
LEMMA FirstPayments ==
  ASSUME Init
  PROVE  /\ \A o \in RefundedPart : OldPayment[o] \in PaymentIds /\ payment[OldPayment[o]] = OldRow(o)
         /\ \A p \in PaymentIds :
              (\A o \in RefundedPart : OldPayment[o] # p) => payment[p] = NoRow
         /\ \A p \in PaymentIds, o \in Orders :
              payment[p].of = o => o \in RefundedPart /\ OldPayment[o] = p
<1>1. /\ \A o, q \in RefundedPart : OldPayment[o] = OldPayment[q] => o = q
      /\ RefundedPart \subseteq Orders /\ OldPayment \in [RefundedPart -> PaymentIds]
      /\ NoOrder \notin Orders
  BY LegacyAssumption DEF LegacyAssumption
<1>2. \A p \in PaymentIds : payment[p] =
        IF \E o \in RefundedPart : OldPayment[o] = p
        THEN OldRow(CHOOSE o \in RefundedPart : OldPayment[o] = p)
        ELSE NoRow
  BY DEF Init
<1>3. ASSUME NEW o \in RefundedPart
      PROVE  OldPayment[o] \in PaymentIds /\ payment[OldPayment[o]] = OldRow(o)
  <2>1. OldPayment[o] \in PaymentIds
    BY <1>1
  <2>2. PICK q \in RefundedPart :
          /\ q = CHOOSE x \in RefundedPart : OldPayment[x] = OldPayment[o]
          /\ OldPayment[q] = OldPayment[o]
    OBVIOUS
  <2>3. q = o
    BY <1>1, <2>2
  <2>4. payment[OldPayment[o]] =
          OldRow(CHOOSE x \in RefundedPart : OldPayment[x] = OldPayment[o])
    BY <1>2, <2>1
  <2> QED
    BY <2>1, <2>2, <2>3, <2>4
<1>4. ASSUME NEW p \in PaymentIds, \A o \in RefundedPart : OldPayment[o] # p
      PROVE  payment[p] = NoRow
  BY <1>2, <1>4
<1>5. ASSUME NEW p \in PaymentIds, NEW o \in Orders, payment[p].of = o
      PROVE  o \in RefundedPart /\ OldPayment[o] = p
  <2>1. PICK q \in RefundedPart : OldPayment[q] = p
    BY <1>1, <1>4, <1>5 DEF NoRow
  <2>2. payment[p] = OldRow(q)
    BY <1>3, <2>1
  <2>3. payment[p].of = q
    BY <1>1, <2>2, OldRowIs
  <2> QED
    BY <2>1, <2>3, <1>5
<1> QED
  BY <1>3, <1>4, <1>5

\* An order of which there is one payment, refunded in part before the
\* backfill, or no payment at all.
LEMMA FirstOrders ==
  ASSUME Init, NEW o \in Orders
  PROVE  Sound(o)
<1>1. /\ RefundedPart \subseteq Orders
      /\ trade[o] = "none"
      /\ order[o] = IF o \in RefundedPart THEN "completed" ELSE "pending"
      /\ shipment[o] = IF o \in RefundedPart THEN "received" ELSE "none"
      /\ refund[o] = IF o \in RefundedPart THEN "unlinked" ELSE "none"
  BY LegacyAssumption DEF Init, LegacyAssumption
<1>2. ~Linked(o)
  BY <1>1 DEF Linked
<1>3. CASE o \in RefundedPart
  <2>1. RowsOf(o) = {OldPayment[o]}
    <3>1. \A p \in RowsOf(o) : p = OldPayment[o]
      BY FirstPayments DEF RowsOf
    <3>2. OldPayment[o] \in PaymentIds /\ payment[OldPayment[o]].of = o
      BY <1>3, FirstPayments, OldRowIs
    <3> QED
      BY <3>1, <3>2 DEF RowsOf
  <2>2. payment[OldPayment[o]] = OldRow(o)
    BY <1>3, FirstPayments
  <2>3. RowSound(OldPayment[o])
    BY <1>1, <1>2, <1>3, <2>2, OldRowIs DEF RowSound, Refunded
  <2>4. Booked(o) = {OldPayment[o]}
    BY <2>1, <2>2, OldRowIs DEF Booked, Taken, Refunded
  <2>5. OneOfEach(o)
    BY <1>1, <1>3, <2>1, <2>4 DEF OneOfEach, PastPayment
  <2> QED
    BY <1>1, <1>2, <1>3, <2>1, <2>3, <2>5 DEF Sound, AgreesWithTrade
<1>4. CASE o \notin RefundedPart
  <2>1. RowsOf(o) = {}
    BY <1>4, FirstPayments DEF RowsOf
  <2>2. OneOfEach(o)
    BY <1>1, <1>4, <2>1 DEF OneOfEach, Booked, PastPayment
  <2> QED
    BY <1>1, <1>2, <1>4, <2>1, <2>2 DEF Sound, AgreesWithTrade
<1> QED
  BY <1>3, <1>4

\* The invariant holds at first.
LEMMA InitSound ==
  ASSUME Init
  PROVE  IInv
<1>1. RefundedPart \subseteq Orders /\ WithCoupon \subseteq Orders /\ NoOrder \notin Orders
  BY LegacyAssumption DEF LegacyAssumption
<1>2. payment \in [PaymentIds -> Payments]
  <2>1. ASSUME NEW p \in PaymentIds PROVE payment[p] \in Payments
    <3>1. CASE \E o \in RefundedPart : OldPayment[o] = p
      BY <3>1, <1>1, FirstPayments, OldRowIs
    <3>2. CASE \A o \in RefundedPart : OldPayment[o] # p
      <4>1. payment[p] = NoRow
        BY <3>2, FirstPayments
      <4>2. NoRow \in Payments
        BY DEF NoRow, Payments, PaymentStates
      <4> QED
        BY <4>1, <4>2
    <3> QED
      BY <3>1, <3>2
  <2> QED
    BY <2>1 DEF Init
<1>3. RowsTyped
  BY <1>2 DEF Init, RowsTyped, OrderStates, TradeStates
<1>4. NobodysRows
  <2>1. ASSUME NEW p \in PaymentIds, payment[p].of \notin Orders PROVE payment[p] = NoRow
    <3>1. ASSUME NEW o \in RefundedPart, OldPayment[o] = p PROVE FALSE
      BY <3>1, <2>1, <1>1, FirstPayments, OldRowIs
    <3> QED
      BY <3>1, FirstPayments
  <2> QED
    BY <2>1 DEF NobodysRows
<1>5. RowsSound
  BY <1>3, <1>4, FirstOrders DEF RowsSound
<1>6. HoldingsSound
  <2>1. UnitsOfCancelled = {}
    BY DEF UnitsOfCancelled, Init
  <2>2. IsFiniteSet(UnitsOfCancelled) /\ Cardinality(UnitsOfCancelled) = 0
    BY <2>1, FS_EmptySet
  <2>3. IsFiniteSet(WithCoupon)
    <3>1. IsFiniteSet(Orders)
      BY FS_Interval, LegacyAssumption DEF Orders, LegacyAssumption
    <3> QED
      BY <1>1, <3>1, FS_Subset
  <2>4. Cardinality(WithCoupon) \in Nat
    BY <2>3, FS_CardinalityType
  <2>5. {o \in WithCoupon : coupon[o] # "unused"} = WithCoupon
    BY DEF Init
  <2>6. \A o \in WithCoupon : coupon[o] = "here" /\ order[o] # "cancelled"
    BY <1>1 DEF Init
  <2>7. HoldingsReturnedOnce
    BY <2>2, <2>5, <2>6 DEF HoldingsReturnedOnce, Init
  <2> QED
    BY <2>2, <2>4, <2>7 DEF HoldingsSound, Init
<1>7. WorkersSound
  <2>1. Idle \in Locals /\ Fits(Idle)
    BY DEF Idle, Locals, Steps, ProviderStates, Fits
  <2>2. provider \in [PaymentIds -> ProviderStates]
    BY DEF Init, ProviderStates
  <2>3. MaxFaults \in Nat
    BY LegacyAssumption DEF LegacyAssumption
  <2> QED
    BY <2>1, <2>2, <2>3 DEF Init, WorkersSound, BackfillSound
<1> QED
  BY <1>5, <1>6, <1>7 DEF IInv

\* Nothing happens.
LEMMA StutterKeeps ==
  ASSUME IInv, UNCHANGED vars
  PROVE  IInv'
<1>1. RowsSound' /\ SameLinks
  BY SameRows DEF vars, rows
<1>2. HoldingsSound'
  BY SameHoldings DEF vars, rows
<1>3. /\ UNCHANGED <<worker, backfill>> /\ faults' \in 0..MaxFaults
      /\ provider' \in [PaymentIds -> ProviderStates]
  BY DEF vars, IInv, WorkersSound
<1>4. WorkersSound'
  BY <1>1, <1>3, SameWorkers
<1> QED
  BY <1>1, <1>2, <1>4 DEF IInv

\* Every step keeps the invariant.
LEMMA Keeping ==
  ASSUME IInv, [Next]_vars
  PROVE  IInv'
<1>1. ASSUME NEW o \in Orders \ Abandoned, NEW p \in PaymentIds, MockPayOrder(o, p)
      PROVE  IInv'
  BY <1>1, MockPayOrderKeeps
<1>2. ASSUME NEW o \in Orders \ Abandoned, NEW p \in PaymentIds, NEW ch \in Channels,
             CreatePayment(o, p, ch)
      PROVE  IInv'
  BY <1>2, CreateLegacyOrderPaymentKeeps, CreateTradePaymentKeeps DEF CreatePayment
<1>3. ASSUME NEW p \in PaymentIds, AlipayNotify(p) \/ MockComplete(p) \/ AlipayStep(p)
      PROVE  IInv'
  BY <1>3, CompletionKeeps, AlipayStepKeeps
<1>4. ASSUME NEW o \in WithCoupon, UseCouponElsewhere(o) PROVE IInv'
  BY <1>4, UseCouponElsewhereKeeps
<1>5. ASSUME NEW o \in Orders, Ship(o) \/ Confirm(o) \/ CompleteShippedOrder(o)
      PROVE  IInv'
  BY <1>5, FulfilmentKeeps
<1>6. ASSUME NEW o \in Orders, NEW p \in PaymentIds, NEW status \in Refunded,
             FinalizeRefund(o, p, status)
      PROVE  IInv'
  BY <1>6, FinalizeRefundKeeps
<1>7. ASSUME NEW w \in Buyers, NEW o \in Orders \ Abandoned, CancelStart(w, o)
      PROVE  IInv'
  BY <1>7, CancelStartKeeps DEF Workers
<1>8. ASSUME NEW w \in Buyers, NEW p \in PaymentIds, SyncStart(w, p) PROVE IInv'
  BY <1>8, SyncStartKeeps DEF Workers
<1>9. ASSUME NEW w \in TimeoutJobs, JobStart(w) PROVE IInv'
  BY <1>9, JobStartKeeps DEF Workers
<1>10. ASSUME NEW w \in Workers, Proceed(w) PROVE IInv'
  BY <1>10, CheckPendingKeeps, RepairKeeps, ListPendingPaymentsKeeps,
     QueryPaymentKeeps, ClosePaymentKeeps, RequeryPaymentKeeps, SyncQueryKeeps,
     SyncApplyKeeps, CommitCancelKeeps
  DEF Proceed
<1>11. ASSUME NEW w \in Workers, QueryFails(w) \/ CloseFails(w) \/ Crash(w)
       PROVE  IInv'
  BY <1>11, FailureKeeps
<1>12. ASSUME BackfillStart \/ Backfills \/ BackfillCrash PROVE IInv'
  BY <1>12, BatchKeeps, CommandKeeps DEF Backfills
<1>13. ASSUME UNCHANGED vars PROVE IInv'
  BY <1>13, StutterKeeps
<1> QED
  BY <1>1, <1>2, <1>3, <1>4, <1>5, <1>6, <1>7, <1>8, <1>9, <1>10, <1>11, <1>12,
     <1>13
  DEF Next

\* The invariant holds in every state, whoever pays, cancels, ships, refunds or
\* links orders, in whatever order, and whatever fails.
THEOREM Invariance == Spec => []IInv
<1>1. Init => IInv
  BY InitSound
<1>2. IInv /\ [Next]_vars => IInv'
  BY Keeping
<1> QED
  BY <1>1, <1>2, PTL DEF Spec

\* Every row and every request in progress keeps the shape of its table or
\* handler.
THEOREM TypeCorrect == Spec => []TypeOK
<1>1. IInv => TypeOK
  BY DEF IInv, RowsSound, RowsTyped, HoldingsSound, WorkersSound, TypeOK
<1> QED
  BY <1>1, Invariance, PTL

\* An order is one story in every state: its own status, the status of the trade
\* that the backfill may have given it, its payments, of which at most one has
\* been booked, its shipment, and the units and the coupon that it holds until
\* it is cancelled, and gives back once.
THEOREM OrderWhole == Spec => []OrderKeptWhole
<1>1. ASSUME IInv PROVE OrderKeptWhole
  <2>1. ASSUME NEW o \in Orders, Linked(o)
        PROVE  /\ order[o] = "pending" <=> trade[o] = "pending"
               /\ order[o] = "cancelled" <=> trade[o] = "closed"
               /\ (trade[o] \in Taken => \E p \in PaymentIds :
                     payment[p].of = o /\ payment[p].status = trade[o])
    <3>1. AgreesWithTrade(o) /\ \A p \in RowsOf(o) : p \in PaymentIds /\ payment[p].of = o
      BY <1>1, RowsOfOrder
    <3> QED
      BY <2>1, <3>1 DEF AgreesWithTrade
  <2>2. OrderAgreesWithTrade
    BY <2>1 DEF OrderAgreesWithTrade
  <2>3. ASSUME NEW o \in Orders
        PROVE  /\ order[o] \in {"paid", "shipped", "completed"} <=> Booked(o) # {}
               /\ Cardinality(Booked(o)) <= 1
               /\ shipment[o] # "none" <=> order[o] \in {"shipped", "completed"}
    <3>1. OneOfEach(o) /\ Sound(o)
      BY <1>1, RowsOfOrder
    <3>2. CASE Booked(o) = {}
      <4>1. Cardinality(Booked(o)) = 0
        BY <3>2, FS_EmptySet
      <4> QED
        BY <4>1, <3>1 DEF OneOfEach, Sound, PastPayment
    <3>3. CASE Booked(o) # {}
      <4>1. PICK p \in Booked(o) : Booked(o) = {p}
        BY <3>1, <3>3 DEF OneOfEach
      <4>2. Cardinality(Booked(o)) = 1
        BY <4>1, FS_Singleton
      <4> QED
        BY <4>2, <3>1 DEF OneOfEach, Sound, PastPayment
    <3> QED
      BY <3>2, <3>3
  <2>4. PaidExactlyOnce
    BY <2>3 DEF PaidExactlyOnce, Booked
  <2>5. HoldingsReturnedOnce
    BY <1>1 DEF IInv, HoldingsSound
  <2> QED
    BY <2>2, <2>4, <2>5 DEF OrderKeptWhole, OrderConsistent
<1> QED
  BY <1>1, Invariance, PTL

\* The backfill never reports a failed verification, and every payment that it
\* has linked holds the place for a pending payment of its trade exactly while
\* it is pending.
THEOREM BackfillPasses == Spec => []BackfillVerifies
<1>1. ASSUME IInv PROVE BackfillVerifies
  <2>1. backfill.report # "failed"
    BY <1>1 DEF IInv, WorkersSound, BackfillSound
  <2>2. ASSUME NEW p \in Rows, payment[p].tradeID
        PROVE  payment[p].activeTrade <=> payment[p].status = "pending"
    <3>1. p \in PaymentIds /\ payment[p].of \in Orders
      BY <1>1 DEF Rows, IInv, RowsSound, NobodysRows, NoRow
    <3>2. RowSound(p)
      BY <1>1, <3>1, RowsOfOrder DEF RowsOf
    <3> QED
      BY <2>2, <3>2 DEF RowSound
  <2> QED
    BY <2>1, <2>2 DEF BackfillVerifies
<1> QED
  BY <1>1, Invariance, PTL

=============================================================================
