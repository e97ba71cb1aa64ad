------------------------ MODULE TradePayment_proofs ------------------------
(***************************************************************************)
(* Proofs about TradePayment for every set of trades, merchants, SKUs,     *)
(* coupons, payments and workers.                                          *)
(***************************************************************************)
EXTENDS TradePayment, FiniteSetTheorems, TLAPS

\* A payment row that exists belongs to a trade, and occupies the trade's
\* active_trade_id slot exactly while it is pending.
RowsSane ==
  \A p \in PaymentIds :
    /\ payment[p].active <=> payment[p].status = "pending"
    /\ payment[p].status # "none" => payment[p].trade \in Trades
    /\ payment[p].status = "none" => payment[p].trade = NoTrade
    /\ payment[p].status = "none" => payment[p].channel = "none"
    /\ payment[p].status # "none" => payment[p].channel # "none"

\* Alipay knows only payments made through it.
ProviderSane ==
  \A p \in PaymentIds :
    provider[p] # "notExist" => payment[p].channel = "alipay"

CancelSteps == {"check", "findPaid", "list", "query", "commit"}
PaymentSteps == {"repair", "close", "requery", "sync", "apply"}

\* A request works on a trade and on payments that exist.
WorkersSane ==
  \A w \in Workers :
    /\ worker[w].pc \in CancelSteps => worker[w].trade \in Trades
    /\ worker[w].pc \in PaymentSteps =>
         /\ worker[w].pay \in PaymentIds
         /\ payment[worker[w].pay].trade \in Trades
    /\ \A p \in worker[w].todo : payment[p].trade \in Trades
    /\ worker[w].pc \in {"sync", "apply", "close", "requery"} =>
         payment[worker[w].pay].channel = "alipay"
    /\ \A p \in worker[w].todo : payment[p].channel = "alipay"
    /\ worker[w].pc \in {"close", "requery"} => worker[w].trade \in Trades

\* The first layer of the inductive invariant: shapes and references.
Sane == TypeOK /\ RowsSane /\ ProviderSane /\ WorkersSane

Assumptions ==
  /\ SkusAssumption
  /\ MoneyAssumption
  /\ CouponsAssumption
  /\ NothingAssumption
  /\ TradesAssumption

LEMMA AssumptionsHold == Assumptions
BY SkusAssumption, MoneyAssumption, CouponsAssumption, NothingAssumption,
   TradesAssumption DEF Assumptions

LEMMA OrdersType == Orders \subseteq Trades \X Merchants
BY DEF Orders

LEMMA WantedType ==
  \A t \in Trades, s \in Skus :
    Wanted[t][s] \in Nat /\ Wanted[t][s] <= MaxQuantity
<1> SUFFICES ASSUME NEW t \in Trades, NEW s \in Skus
             PROVE  Wanted[t][s] \in Nat /\ Wanted[t][s] <= MaxQuantity
  OBVIOUS
<1>1. Wanted[t] \in [Skus -> 0..MaxQuantity]
  BY SkusAssumption DEF SkusAssumption
<1>2. Wanted[t][s] \in 0..MaxQuantity
  BY <1>1
<1> QED
  BY <1>2, SkusAssumption DEF SkusAssumption

LEMMA SaneInit == Init => Sane
<1> SUFFICES ASSUME Init PROVE Sane
  OBVIOUS
<1> USE DEF Init
<1>1. TypeOK
  <2>1. worker \in [Workers -> Locals]
    BY DEF Idle, Locals, Steps, ProviderStates
  <2>2. payment \in [PaymentIds -> Payments]
    BY DEF NoRow, Payments, PaymentStates
  <2>3. stock \in [Skus -> Nat]
    BY SkusAssumption DEF SkusAssumption
  <2>4. faults \in 0..MaxFaults
    BY MoneyAssumption DEF MoneyAssumption
  <2> QED
    BY <2>1, <2>2, <2>3, <2>4
    DEF TypeOK, TradeStates, OrderStates, ProviderStates
<1>2. RowsSane
  BY DEF RowsSane, NoRow
<1>3. ProviderSane
  BY DEF ProviderSane
<1>4. WorkersSane
  BY DEF WorkersSane, Idle, CancelSteps, PaymentSteps
<1> QED
  BY <1>1, <1>2, <1>3, <1>4 DEF Sane

\* Steps that move one worker and touch no row keep the rows sane.
LEMMA GotoType ==
  ASSUME worker \in [Workers -> Locals], NEW w \in Workers, NEW l \in Locals,
         worker' = [worker EXCEPT ![w] = l]
  PROVE  worker' \in [Workers -> Locals]
OBVIOUS

LEMMA SaneCreateTrade ==
  ASSUME Sane, NEW t \in Trades, CreateTrade(t)
  PROVE  Sane'
<1> USE DEF CreateTrade
<1>1. TypeOK'
  <2>1. tradeStatus' \in [Trades -> TradeStates]
    BY DEF Sane, TypeOK, TradeStates
  <2>2. orderStatus' \in [Orders -> OrderStates]
    BY DEF Sane, TypeOK, OrderStates
  <2>3. stock' \in [Skus -> Nat]
    <3>1. \A s \in Skus :
            /\ stock[s] \in Nat /\ Wanted[t][s] \in Nat
            /\ Wanted[t][s] <= stock[s]
      BY WantedType DEF Sane, TypeOK, StockSuffices
    <3>2. stock' = [s \in Skus |-> stock[s] - Wanted[t][s]]
      BY DEF DecreaseSKUStock
    <3> QED
      BY <3>1, <3>2
  <2>4. coupon' \in [UserCoupons -> Orders \cup {NoOrder}]
    BY DEF Sane, TypeOK, UseUserCoupons
  <2>5. usedQuantity' \in [Merchants -> Nat]
    BY DEF Sane, TypeOK, CountCoupons, IncrementCouponUsed
  <2> QED
    BY <2>1, <2>2, <2>3, <2>4, <2>5 DEF Sane, TypeOK
<1> QED
  BY <1>1 DEF Sane, RowsSane, ProviderSane, WorkersSane

LEMMA SaneCreateTradePayment ==
  ASSUME Sane, NEW t \in Trades, NEW p \in PaymentIds, NEW ch \in Channels,
         CreateTradePayment(t, p, ch)
  PROVE  Sane'
<1> USE DEF CreateTradePayment, heldRows
<1>1. TypeOK'
  BY DEF Sane, TypeOK, Payments, PaymentStates
<1>2. RowsSane'
  BY MoneyAssumption DEF MoneyAssumption, Sane, TypeOK, Payments, RowsSane
<1>3. ProviderSane' /\ WorkersSane'
  <2>1. provider[p] = "notExist"
    BY DEF Sane, ProviderSane, RowsSane, TypeOK
  <2>2. \A q \in PaymentIds : q # p => payment'[q] = payment[q]
    BY DEF Sane, TypeOK
  <2>3. payment[p].trade \notin Trades
    BY NothingAssumption DEF NothingAssumption, Sane, RowsSane
  <2>4. ProviderSane'
    BY <2>1, <2>2 DEF Sane, ProviderSane, TypeOK
  <2>5. WorkersSane'
    <3>1. \A w \in Workers : worker[w].todo \subseteq PaymentIds
      BY DEF Sane, TypeOK, Locals
    <3>2. \A q \in PaymentIds : payment[q].trade \in Trades =>
             payment'[q] = payment[q]
      BY <2>2, <2>3
    <3> QED
      BY <3>1, <3>2 DEF Sane, WorkersSane, PaymentSteps
  <2> QED
    BY <2>4, <2>5
<1> QED
  BY <1>1, <1>2, <1>3 DEF Sane

\* What completing a payment does to the three tables, and all it does.
LEMMA CompletePaymentRows ==
  ASSUME Sane, NEW p \in PaymentIds, CanCompletePayment(p), CompletePayment(p)
  PROVE  /\ tradeStatus' \in [Trades -> TradeStates]
         /\ orderStatus' \in [Orders -> OrderStates]
         /\ payment' \in [PaymentIds -> Payments]
         /\ RowsSane'
         /\ \A q \in PaymentIds : /\ payment'[q].trade = payment[q].trade
                                  /\ payment'[q].channel = payment[q].channel
<1> USE DEF CanCompletePayment, CompletePayment
<1>1. payment[p].trade \in Trades
  BY DEF Sane, RowsSane
<1>2. /\ tradeStatus' \in [Trades -> TradeStates]
      /\ orderStatus' \in [Orders -> OrderStates]
  BY <1>1 DEF Sane, TypeOK, TradeStates, OrderStates, UpdateTradeOrdersStatus
<1>3. payment' \in [PaymentIds -> Payments]
  BY DEF Sane, TypeOK, Payments, PaymentStates, MarkPaid
<1>4. RowsSane'
  BY <1>1 DEF Sane, TypeOK, Payments, RowsSane, MarkPaid
<1>5. \A q \in PaymentIds : /\ payment'[q].trade = payment[q].trade
                            /\ payment'[q].channel = payment[q].channel
  BY DEF Sane, TypeOK, Payments, MarkPaid
<1> QED
  BY <1>2, <1>3, <1>4, <1>5

LEMMA MarkClosedRows ==
  ASSUME Sane, NEW p \in PaymentIds, payment' = MarkClosed(p)
  PROVE  /\ payment' \in [PaymentIds -> Payments]
         /\ RowsSane'
         /\ \A q \in PaymentIds : /\ payment'[q].trade = payment[q].trade
                                  /\ payment'[q].channel = payment[q].channel
<1>1. payment' \in [PaymentIds -> Payments]
  <2>1. payment \in [PaymentIds -> Payments]
    BY DEF Sane, TypeOK
  <2>2. CASE payment[p].status = "pending"
    <3>1. payment[p] \in Payments
      BY <2>1
    <3>2. [payment[p] EXCEPT !.status = "closed", !.active = FALSE] \in Payments
      BY <3>1 DEF Payments, PaymentStates
    <3>3. payment' = [payment EXCEPT ![p] =
                        [payment[p] EXCEPT !.status = "closed", !.active = FALSE]]
      BY <2>1, <2>2 DEF MarkClosed
    <3> QED
      BY <2>1, <3>2, <3>3
  <2>3. CASE payment[p].status # "pending"
    BY <2>1, <2>3 DEF MarkClosed
  <2> QED
    BY <2>2, <2>3
<1>2. RowsSane'
  BY DEF Sane, TypeOK, Payments, RowsSane, MarkClosed
<1>3. \A q \in PaymentIds : /\ payment'[q].trade = payment[q].trade
                            /\ payment'[q].channel = payment[q].channel
  BY DEF Sane, TypeOK, Payments, MarkClosed
<1> QED
  BY <1>1, <1>2, <1>3

\* A transaction that changes no trade or channel of any payment, and no
\* worker, keeps the references sane.
LEMMA ReferencesKept ==
  ASSUME Sane, UNCHANGED <<provider, worker>>,
         \A q \in PaymentIds : /\ payment'[q].trade = payment[q].trade
                               /\ payment'[q].channel = payment[q].channel
  PROVE  ProviderSane' /\ WorkersSane'
<1>1. \A w \in Workers : worker[w].todo \subseteq PaymentIds
  BY DEF Sane, TypeOK, Locals
<1>2. ProviderSane'
  BY DEF Sane, ProviderSane
<1>3. WorkersSane'
  BY <1>1 DEF Sane, WorkersSane, PaymentSteps
<1> QED
  BY <1>2, <1>3

LEMMA SaneNotify ==
  ASSUME Sane, NEW p \in PaymentIds, AlipayNotify(p) \/ MockComplete(p)
  PROVE  Sane'
<1>1. /\ CanCompletePayment(p) /\ CompletePayment(p)
      /\ UNCHANGED <<heldRows, provider, worker, faults>>
  BY DEF AlipayNotify, MockComplete
<1>2. TypeOK'
  BY <1>1, CompletePaymentRows DEF Sane, TypeOK, heldRows
<1> QED
  BY <1>1, <1>2, CompletePaymentRows, ReferencesKept DEF Sane

LEMMA SaneProvider ==
  ASSUME Sane, NEW p \in PaymentIds,
         OpenPayUrl(p) \/ BuyerPays(p) \/ ProviderExpires(p)
  PROVE  Sane'
<1> USE DEF OpenPayUrl, BuyerPays, ProviderExpires, saleRows, heldRows
<1>1. TypeOK'
  BY DEF Sane, TypeOK, ProviderStates
<1>2. ProviderSane'
  BY DEF Sane, TypeOK, ProviderSane
<1> QED
  BY <1>1, <1>2 DEF Sane, RowsSane, WorkersSane

\* A step that changes no row of ours: the worker moves on with new local
\* state, and Alipay may have changed the state of one of its payments.
LEMMA SaneMove ==
  ASSUME Sane, NEW w \in Workers, NEW l \in Locals,
         Goto(w, l), UNCHANGED saleRows,
         provider' \in [PaymentIds -> ProviderStates],
         \A p \in PaymentIds : provider'[p] # "notExist" =>
                                payment[p].channel = "alipay",
         l.pc \in CancelSteps \cup {"close", "requery"} => l.trade \in Trades,
         l.pc \in PaymentSteps =>
           l.pay \in PaymentIds /\ payment[l.pay].trade \in Trades,
         l.pc \in {"sync", "apply", "close", "requery"} =>
           payment[l.pay].channel = "alipay",
         \A p \in l.todo : /\ payment[p].trade \in Trades
                           /\ payment[p].channel = "alipay"
  PROVE  Sane'
<1> USE DEF Goto, saleRows, heldRows
<1>1. worker' \in [Workers -> Locals] /\ worker' = [worker EXCEPT ![w] = l]
  BY DEF Sane, TypeOK
<1>2. TypeOK'
  BY <1>1 DEF Sane, TypeOK
<1>3. \A v \in Workers : worker'[v] = IF v = w THEN l ELSE worker[v]
  BY <1>1 DEF Sane, TypeOK
<1>4. WorkersSane'
  BY <1>3 DEF Sane, WorkersSane
<1> QED
  BY <1>2, <1>4 DEF Sane, RowsSane, ProviderSane

LEMMA SaneReads ==
  ASSUME Sane, NEW w \in Workers, NEW l \in Locals,
         Goto(w, l), Reads,
         l.pc \in CancelSteps \cup {"close", "requery"} => l.trade \in Trades,
         l.pc \in PaymentSteps =>
           l.pay \in PaymentIds /\ payment[l.pay].trade \in Trades,
         l.pc \in {"sync", "apply", "close", "requery"} =>
           payment[l.pay].channel = "alipay",
         \A p \in l.todo : /\ payment[p].trade \in Trades
                           /\ payment[p].channel = "alipay"
  PROVE  Sane'
<1>1. /\ UNCHANGED saleRows
      /\ provider' \in [PaymentIds -> ProviderStates]
      /\ \A p \in PaymentIds : provider'[p] # "notExist" =>
                                payment[p].channel = "alipay"
  BY DEF Reads, Sane, TypeOK, ProviderSane
<1> QED
  BY <1>1, SaneMove

LEMMA IdleType == Idle \in Locals /\ Idle.pc = "idle" /\ Idle.todo = {}
BY DEF Idle, Locals, Steps, ProviderStates

LEMMA GotoIdle ==
  ASSUME Sane, NEW w \in Workers, Goto(w, Idle), Reads
  PROVE  Sane'
BY SaneReads, IdleType DEF CancelSteps, PaymentSteps

LEMMA SaneCancelStart ==
  ASSUME Sane, NEW w \in Workers, NEW t \in Trades, CancelStart(w, t)
  PROVE  Sane'
<1> DEFINE l == [Idle EXCEPT !.pc = "check", !.trade = t]
<1>1. l \in Locals /\ l.pc = "check" /\ l.trade = t /\ l.todo = {}
  BY DEF Idle, Locals, Steps, ProviderStates
<1>2. Goto(w, l) /\ Reads
  BY DEF CancelStart
<1> HIDE DEF l
<1> QED
  BY <1>1, <1>2, SaneReads DEF CancelSteps, PaymentSteps

\* The worker of a cancellation moves to another step of it.
LEMMA SaneGoto ==
  ASSUME Sane, NEW w \in Workers, NEW s \in CancelSteps,
         worker[w].trade \in Trades,
         Goto(w, [worker[w] EXCEPT !.pc = s]), Reads
  PROVE  Sane'
<1> DEFINE l == [worker[w] EXCEPT !.pc = s]
<1>1. /\ l \in Locals /\ l.pc = s /\ l.trade = worker[w].trade
      /\ l.todo = worker[w].todo
  BY DEF Sane, TypeOK, Locals, Steps, CancelSteps
<1>2. \A p \in l.todo : /\ payment[p].trade \in Trades
                        /\ payment[p].channel = "alipay"
  BY <1>1 DEF Sane, WorkersSane
<1>3. Goto(w, l) /\ Reads
  OBVIOUS
<1> HIDE DEF l
<1> QED
  BY <1>1, <1>2, <1>3, SaneReads DEF CancelSteps, PaymentSteps

\* The worker takes payment p in hand.
LEMMA SaneTake ==
  ASSUME Sane, NEW w \in Workers, NEW s \in PaymentSteps, NEW p \in PaymentIds,
         worker[w].trade \in Trades, payment[p].trade \in Trades,
         s # "repair" => payment[p].channel = "alipay",
         Goto(w, [worker[w] EXCEPT !.pc = s, !.pay = p]), Reads
  PROVE  Sane'
<1> DEFINE l == [worker[w] EXCEPT !.pc = s, !.pay = p]
<1>1. /\ l \in Locals /\ l.pc = s /\ l.pay = p
      /\ l.trade = worker[w].trade /\ l.todo = worker[w].todo
  BY DEF Sane, TypeOK, Locals, Steps, PaymentSteps
<1>2. \A q \in l.todo : /\ payment[q].trade \in Trades
                        /\ payment[q].channel = "alipay"
  BY <1>1 DEF Sane, WorkersSane
<1>3. Goto(w, l) /\ Reads
  OBVIOUS
<1> HIDE DEF l
<1> QED
  BY <1>1, <1>2, <1>3, SaneReads DEF CancelSteps, PaymentSteps


LEMMA SanePrepare ==
  ASSUME Sane, NEW w \in Workers, PrepareUserTradeForCancel(w)
  PROVE  Sane'
<1>1. worker[w].trade \in Trades
  BY DEF PrepareUserTradeForCancel, Sane, WorkersSane, CancelSteps
<1> QED
  BY <1>1, SaneGoto, GotoIdle DEF PrepareUserTradeForCancel, CancelSteps

LEMMA SaneFindPaid ==
  ASSUME Sane, NEW w \in Workers, FindPaidPayment(w)
  PROVE  Sane'
<1>1. worker[w].trade \in Trades /\ Reads
  BY DEF FindPaidPayment, Sane, WorkersSane, CancelSteps
<1>2. CASE Goto(w, [worker[w] EXCEPT !.pc = "list"])
  BY <1>1, <1>2, SaneGoto DEF CancelSteps
<1>3. ASSUME NEW p \in FindPaidByTradeID(worker[w].trade),
             Goto(w, [worker[w] EXCEPT !.pc = "repair", !.pay = p])
      PROVE  Sane'
  <2>1. p \in PaymentIds /\ payment[p].trade \in Trades
    BY <1>1 DEF FindPaidByTradeID
  <2> QED
    BY <1>1, <1>3, <2>1, SaneTake DEF PaymentSteps
<1> QED
  BY <1>2, <1>3 DEF FindPaidPayment

\* The loop goes on with payments that exist at Alipay's channel.
LEMMA SaneNextPayment ==
  ASSUME Sane, NEW w \in Workers, NEW rest \in SUBSET PaymentIds,
         worker[w].trade \in Trades,
         \A p \in rest : /\ payment[p].trade \in Trades
                         /\ payment[p].channel = "alipay",
         Goto(w, NextPayment(w, rest)), Reads
  PROVE  Sane'
<1> DEFINE l == NextPayment(w, rest)
<1>1. /\ l \in Locals /\ l.pc \in {"commit", "query"}
      /\ l.trade = worker[w].trade /\ l.todo = rest
  BY DEF Sane, TypeOK, Locals, Steps, NextPayment
<1>2. Goto(w, l) /\ Reads
  OBVIOUS
<1> HIDE DEF l
<1> QED
  BY <1>1, <1>2, SaneReads DEF CancelSteps, PaymentSteps

LEMMA SaneListPending ==
  ASSUME Sane, NEW w \in Workers, ListPendingPayments(w)
  PROVE  Sane'
<1>1. worker[w].trade \in Trades
  BY DEF ListPendingPayments, Sane, WorkersSane, CancelSteps
<1> DEFINE rest == {p \in FindPendingByTradeID(worker[w].trade) :
                      payment[p].channel = "alipay"}
<1>2. /\ rest \in SUBSET PaymentIds
      /\ \A p \in rest : /\ payment[p].trade \in Trades
                         /\ payment[p].channel = "alipay"
  BY <1>1 DEF FindPendingByTradeID
<1>3. Goto(w, NextPayment(w, rest)) /\ Reads
  BY DEF ListPendingPayments
<1> HIDE DEF rest
<1> QED
  BY <1>1, <1>2, <1>3, SaneNextPayment

\* What a worker in the provider loop has in hand.
LEMMA LoopFacts ==
  ASSUME Sane, NEW w \in Workers
  PROVE  /\ worker[w].todo \in SUBSET PaymentIds
         /\ \A p \in worker[w].todo : /\ payment[p].trade \in Trades
                                      /\ payment[p].channel = "alipay"
         /\ worker[w].pc \in {"query", "commit", "close", "requery"} =>
              worker[w].trade \in Trades
         /\ worker[w].pc \in PaymentSteps =>
              /\ worker[w].pay \in PaymentIds
              /\ payment[worker[w].pay].trade \in Trades
BY DEF Sane, TypeOK, Locals, WorkersSane, CancelSteps, PaymentSteps

LEMMA SaneQuery ==
  ASSUME Sane, NEW w \in Workers, QueryPayment(w)
  PROVE  Sane'
<1>1. PICK p \in worker[w].todo :
        \/ Goto(w, [worker[w] EXCEPT !.pc = "sync", !.pay = p])
        \/ Goto(w, NextPayment(w, worker[w].todo \ {p}))
        \/ Goto(w, [worker[w] EXCEPT !.pc = "close", !.pay = p])
  BY DEF QueryPayment
<1>2. worker[w].trade \in Trades /\ Reads
  BY LoopFacts DEF QueryPayment
<1>3. p \in PaymentIds /\ payment[p].trade \in Trades
      /\ payment[p].channel = "alipay"
  BY LoopFacts
<1>4. CASE Goto(w, NextPayment(w, worker[w].todo \ {p}))
  BY <1>2, <1>4, LoopFacts, SaneNextPayment
<1>5. CASE Goto(w, [worker[w] EXCEPT !.pc = "sync", !.pay = p])
  BY <1>2, <1>3, <1>5, SaneTake DEF PaymentSteps
<1>6. CASE Goto(w, [worker[w] EXCEPT !.pc = "close", !.pay = p])
  BY <1>2, <1>3, <1>6, SaneTake DEF PaymentSteps
<1> QED
  BY <1>1, <1>4, <1>5, <1>6


LEMMA SaneClose ==
  ASSUME Sane, NEW w \in Workers, ClosePayment(w)
  PROVE  Sane'
<1> DEFINE p == worker[w].pay
           next == NextPayment(w, worker[w].todo \ {p})
           again == [worker[w] EXCEPT !.pc = "requery"]
<1>1. /\ worker[w].pc = "close" /\ worker[w].trade \in Trades
      /\ p \in PaymentIds /\ payment[p].trade \in Trades
      /\ payment[p].channel = "alipay"
  BY DEF ClosePayment, Sane, WorkersSane, PaymentSteps
<1>2. /\ UNCHANGED saleRows
      /\ provider' \in [PaymentIds -> ProviderStates]
      /\ \A q \in PaymentIds : provider'[q] # "notExist" =>
                                payment[q].channel = "alipay"
  BY <1>1 DEF ClosePayment, Sane, TypeOK, ProviderStates, ProviderSane
<1>3. /\ next \in Locals /\ next.pc \in {"commit", "query"}
      /\ next.trade = worker[w].trade /\ next.todo = worker[w].todo \ {p}
  BY DEF Sane, TypeOK, Locals, Steps, NextPayment
<1>4. /\ again \in Locals /\ again.pc = "requery" /\ again.pay = p
      /\ again.trade = worker[w].trade /\ again.todo = worker[w].todo
  BY DEF Sane, TypeOK, Locals, Steps
<1>5. Goto(w, next) \/ Goto(w, again)
  BY DEF ClosePayment
<1>6. ASSUME Goto(w, next) PROVE Sane'
  <2> HIDE DEF next
  <2> QED
    BY <1>1, <1>2, <1>3, <1>6, LoopFacts, SaneMove DEF CancelSteps, PaymentSteps
<1>7. ASSUME Goto(w, again) PROVE Sane'
  <2> HIDE DEF again
  <2> QED
    BY <1>1, <1>2, <1>4, <1>7, LoopFacts, SaneMove DEF CancelSteps, PaymentSteps
<1> QED
  BY <1>5, <1>6, <1>7

LEMMA SaneRequery ==
  ASSUME Sane, NEW w \in Workers, RequeryPayment(w)
  PROVE  Sane'
<1> DEFINE p == worker[w].pay
           l == [worker[w] EXCEPT !.pc = "sync"]
<1>1. /\ worker[w].trade \in Trades /\ Reads
      /\ p \in PaymentIds /\ payment[p].trade \in Trades
      /\ payment[p].channel = "alipay"
  BY DEF RequeryPayment, Sane, WorkersSane, PaymentSteps
<1>2. \/ Goto(w, l)
      \/ Goto(w, NextPayment(w, worker[w].todo \ {p}))
      \/ Goto(w, Idle)
  BY DEF RequeryPayment
<1>3. CASE Goto(w, NextPayment(w, worker[w].todo \ {p}))
  BY <1>1, <1>3, LoopFacts, SaneNextPayment
<1>4. CASE Goto(w, l)
  <2>1. l \in Locals /\ l.pc = "sync" /\ l.pay = p /\ l.todo = worker[w].todo
    BY DEF Sane, TypeOK, Locals, Steps
  <2> HIDE DEF l
  <2> QED
    BY <1>1, <1>4, <2>1, LoopFacts, SaneReads DEF CancelSteps, PaymentSteps
<1> QED
  BY <1>1, <1>2, <1>3, <1>4, GotoIdle

LEMMA SaneSyncStart ==
  ASSUME Sane, NEW w \in Workers, NEW p \in PaymentIds, SyncStart(w, p)
  PROVE  Sane'
<1> DEFINE l == [Idle EXCEPT !.pc = "sync", !.pay = p]
<1>1. l \in Locals /\ l.pc = "sync" /\ l.pay = p /\ l.todo = {}
  BY DEF Idle, Locals, Steps, ProviderStates
<1>2. /\ Goto(w, l) /\ Reads
      /\ payment[p].trade \in Trades /\ payment[p].channel = "alipay"
  BY DEF SyncStart, Sane, RowsSane
<1> HIDE DEF l
<1> QED
  BY <1>1, <1>2, SaneReads DEF CancelSteps, PaymentSteps

LEMMA SaneSyncQuery ==
  ASSUME Sane, NEW w \in Workers, SyncQuery(w)
  PROVE  Sane'
<1> DEFINE p == worker[w].pay
           l == [worker[w] EXCEPT !.pc = "apply", !.seen = provider[p]]
<1>1. /\ Reads /\ p \in PaymentIds /\ payment[p].trade \in Trades
      /\ payment[p].channel = "alipay"
  BY DEF SyncQuery, Sane, WorkersSane, PaymentSteps
<1>2. Goto(w, l) \/ Goto(w, Idle)
  BY DEF SyncQuery
<1>3. CASE Goto(w, l)
  <2>1. l \in Locals /\ l.pc = "apply" /\ l.pay = p /\ l.todo = worker[w].todo
    BY <1>1 DEF Sane, TypeOK, Locals, Steps
  <2> HIDE DEF l
  <2> QED
    BY <1>1, <1>3, <2>1, LoopFacts, SaneReads DEF CancelSteps, PaymentSteps
<1> QED
  BY <1>1, <1>2, <1>3, GotoIdle


\* A step that ends in Idle keeps the other workers' references.
LEMMA WorkersKept ==
  ASSUME Sane, NEW w \in Workers, worker' = [worker EXCEPT ![w] = Idle],
         \A q \in PaymentIds : /\ payment'[q].trade = payment[q].trade
                               /\ payment'[q].channel = payment[q].channel
  PROVE  worker' \in [Workers -> Locals] /\ WorkersSane'
<1>1. worker' \in [Workers -> Locals]
  BY IdleType DEF Sane, TypeOK
<1>2. \A v \in Workers : worker'[v] = IF v = w THEN Idle ELSE worker[v]
  BY DEF Sane, TypeOK
<1>3. \A v \in Workers : worker[v].todo \subseteq PaymentIds
  BY DEF Sane, TypeOK, Locals
<1>4. WorkersSane'
  BY <1>2, <1>3, IdleType DEF Sane, WorkersSane, CancelSteps, PaymentSteps
<1> QED
  BY <1>1, <1>4

LEMMA SaneRollback ==
  ASSUME Sane, NEW w \in Workers, worker' = [worker EXCEPT ![w] = Idle],
         UNCHANGED <<saleRows, heldRows, provider>>, faults' \in 0..MaxFaults
  PROVE  Sane'
<1> USE DEF saleRows, heldRows
<1>1. worker' \in [Workers -> Locals] /\ WorkersSane'
  BY WorkersKept
<1>2. TypeOK'
  BY <1>1 DEF Sane, TypeOK
<1> QED
  BY <1>1, <1>2 DEF Sane, RowsSane, ProviderSane

LEMMA SaneCompleted ==
  ASSUME Sane, NEW w \in Workers, Goto(w, Idle), UNCHANGED provider,
         NEW p \in PaymentIds, CompleteOrRollback(p)
  PROVE  Sane'
<1>1. worker' = [worker EXCEPT ![w] = Idle] /\ UNCHANGED <<heldRows, faults>>
  BY DEF Goto
<1>2. CASE CanCompletePayment(p)
  <2>1. CompletePayment(p)
    BY <1>2 DEF CompleteOrRollback
  <2>2. worker' \in [Workers -> Locals] /\ WorkersSane'
    BY <1>1, <1>2, <2>1, CompletePaymentRows, WorkersKept
  <2>3. TypeOK'
    BY <1>1, <1>2, <2>1, <2>2, CompletePaymentRows DEF Sane, TypeOK, heldRows
  <2>4. ProviderSane'
    BY <1>2, <2>1, CompletePaymentRows DEF Sane, ProviderSane
  <2> QED
    BY <1>2, <2>1, <2>2, <2>3, <2>4, CompletePaymentRows DEF Sane
<1>3. CASE ~CanCompletePayment(p)
  <2>1. UNCHANGED saleRows
    BY <1>3 DEF CompleteOrRollback
  <2> QED
    BY <1>1, <2>1, SaneRollback DEF Sane, TypeOK
<1> QED
  BY <1>2, <1>3

LEMMA SaneRepair ==
  ASSUME Sane, NEW w \in Workers, RepairOrderFromPaidPayment(w)
  PROVE  Sane'
BY LoopFacts, SaneCompleted DEF RepairOrderFromPaidPayment, PaymentSteps

LEMMA SaneSyncApply ==
  ASSUME Sane, NEW w \in Workers, SyncApply(w)
  PROVE  Sane'
<1> DEFINE p == worker[w].pay
<1>1. p \in PaymentIds /\ Goto(w, Idle) /\ UNCHANGED provider
  BY LoopFacts DEF SyncApply, PaymentSteps
<1>2. CASE CompleteOrRollback(p)
  BY <1>1, <1>2, SaneCompleted
<1>3. CASE payment' = MarkClosed(p) /\ UNCHANGED <<tradeStatus, orderStatus>>
  <2>1. worker' \in [Workers -> Locals] /\ WorkersSane'
    BY <1>1, <1>3, MarkClosedRows, WorkersKept DEF Goto
  <2>2. TypeOK'
    BY <1>1, <1>3, <2>1, MarkClosedRows DEF Sane, TypeOK, Goto, heldRows
  <2>3. ProviderSane'
    BY <1>1, <1>3, MarkClosedRows DEF Sane, ProviderSane
  <2> QED
    BY <1>1, <1>3, <2>1, <2>2, <2>3, MarkClosedRows DEF Sane
<1> QED
  BY <1>2, <1>3 DEF SyncApply

\* Closing a row changes its status and frees the trade's slot, no more.
LEMMA ClosedRowType ==
  \A row \in Payments :
    /\ ClosedRow(row) \in Payments
    /\ ClosedRow(row).status = "closed" /\ ClosedRow(row).active = FALSE
    /\ ClosedRow(row).trade = row.trade
    /\ ClosedRow(row).channel = row.channel
BY DEF ClosedRow, Payments, PaymentStates

LEMMA SaneCommit ==
  ASSUME Sane, NEW w \in Workers, CommitCancel(w)
  PROVE  Sane'
<1> DEFINE t == worker[w].trade
<1>1. /\ t \in Trades /\ worker' = [worker EXCEPT ![w] = Idle]
      /\ UNCHANGED <<provider, faults>>
  BY LoopFacts DEF CommitCancel
<1>2. CASE CanCancel(t)
  <2>1. CancelTrade(t)
    BY <1>2 DEF CommitCancel
  <2> HIDE DEF t
  <2> USE DEF CancelTrade
  <2>2. payment' \in [PaymentIds -> Payments]
    BY <2>1, ClosedRowType DEF Sane, TypeOK, ClosePendingPaymentsByTradeID
  <2>3. \A q \in PaymentIds : /\ payment'[q].trade = payment[q].trade
                              /\ payment'[q].channel = payment[q].channel
    BY <2>1, ClosedRowType DEF Sane, TypeOK, ClosePendingPaymentsByTradeID
  <2>4. RowsSane'
    BY <2>1, ClosedRowType DEF Sane, TypeOK, RowsSane,
                ClosePendingPaymentsByTradeID, FindPendingByTradeID
  <2>5. /\ tradeStatus' \in [Trades -> TradeStates]
        /\ orderStatus' \in [Orders -> OrderStates]
    BY <1>1, <2>1 DEF Sane, TypeOK, TradeStates, OrderStates,
                      UpdateTradeOrdersStatus
  <2>6. stock' \in [Skus -> Nat]
    <3>1. \A s \in Skus : stock[s] \in Nat /\ Wanted[t][s] \in Nat
      BY <1>1, WantedType DEF Sane, TypeOK
    <3> QED
      BY <2>1, <3>1 DEF IncreaseSKUStock
  <2>7. /\ coupon' \in [UserCoupons -> Orders \cup {NoOrder}]
        /\ usedQuantity' \in [Merchants -> Nat]
    BY <2>1 DEF Sane, TypeOK, ReleaseUserCoupons, CountCoupons,
                IncrementCouponUsed
  <2>8. worker' \in [Workers -> Locals] /\ WorkersSane'
    BY <1>1, <2>3, WorkersKept
  <2>9. TypeOK'
    BY <1>1, <2>2, <2>5, <2>6, <2>7, <2>8 DEF Sane, TypeOK
  <2>10. ProviderSane'
    BY <1>1, <2>3 DEF Sane, ProviderSane
  <2> QED
    BY <2>4, <2>8, <2>9, <2>10 DEF Sane
<1>3. CASE ~CanCancel(t)
  <2>1. UNCHANGED <<saleRows, heldRows>>
    BY <1>3 DEF CommitCancel
  <2> QED
    BY <1>1, <2>1, SaneRollback DEF Sane, TypeOK
<1> QED
  BY <1>2, <1>3

LEMMA SaneFails ==
  ASSUME Sane, NEW w \in Workers, Fails(w)
  PROVE  Sane'
<1>1. faults' \in 0..MaxFaults
  BY MoneyAssumption DEF MoneyAssumption, Sane, TypeOK, Fails, QueryFails,
                         CloseFails, Crash, Fault
<1>2. CASE QueryFails(w) \/ Crash(w)
  BY <1>1, <1>2, SaneRollback DEF QueryFails, Crash
<1>3. CASE CloseFails(w)
  <2> USE DEF CloseFails, saleRows, heldRows
  <2>1. worker' \in [Workers -> Locals]
    BY <1>3 DEF Sane, TypeOK, Locals, Steps
  <2>2. \A v \in Workers :
          /\ worker'[v].trade = worker[v].trade
          /\ worker'[v].pay = worker[v].pay
          /\ worker'[v].todo = worker[v].todo
          /\ \/ worker'[v].pc = worker[v].pc
             \/ worker'[v].pc = "requery" /\ worker[v].pc = "close"
    BY <1>3 DEF Sane, TypeOK, Locals
  <2>3. WorkersSane'
    BY <1>3, <2>2 DEF Sane, WorkersSane, CancelSteps, PaymentSteps
  <2>4. provider' \in [PaymentIds -> ProviderStates]
    BY <1>3 DEF Sane, TypeOK, ProviderStates
  <2>5. \A q \in PaymentIds : provider'[q] # "notExist" =>
                              provider[q] # "notExist"
    BY <1>3 DEF Sane, TypeOK
  <2>6. TypeOK'
    BY <1>1, <1>3, <2>1, <2>4 DEF Sane, TypeOK
  <2> QED
    BY <1>3, <2>3, <2>5, <2>6 DEF Sane, RowsSane, ProviderSane
<1> QED
  BY <1>2, <1>3 DEF Fails

LEMMA SaneStep == Sane /\ [Next]_vars => Sane'
<1> SUFFICES ASSUME Sane, [Next]_vars PROVE Sane'
  OBVIOUS
<1>1. ASSUME NEW t \in Trades, CreateTrade(t) PROVE Sane'
  BY <1>1, SaneCreateTrade
<1>2. ASSUME NEW t \in Trades, NEW p \in PaymentIds, NEW ch \in Channels,
             CreateTradePayment(t, p, ch)
      PROVE  Sane'
  BY <1>2, SaneCreateTradePayment
<1>3. ASSUME NEW p \in PaymentIds, AlipayNotify(p) \/ MockComplete(p)
      PROVE  Sane'
  BY <1>3, SaneNotify
<1>4. ASSUME NEW p \in PaymentIds,
             OpenPayUrl(p) \/ BuyerPays(p) \/ ProviderExpires(p)
      PROVE  Sane'
  BY <1>4, SaneProvider
<1>5. ASSUME NEW w \in Workers, NEW t \in Trades, CancelStart(w, t)
      PROVE  Sane'
  BY <1>5, SaneCancelStart
<1>6. ASSUME NEW w \in Buyers, NEW p \in PaymentIds, SyncStart(w, p)
      PROVE  Sane'
  BY <1>6, SaneSyncStart DEF Workers
<1>7. ASSUME NEW w \in Workers, Proceed(w) PROVE Sane'
  BY <1>7, SanePrepare, SaneFindPaid, SaneRepair, SaneListPending, SaneQuery,
     SaneClose, SaneRequery, SaneSyncQuery, SaneSyncApply, SaneCommit
     DEF Proceed
<1>8. ASSUME NEW w \in Workers, Fails(w) PROVE Sane'
  BY <1>8, SaneFails
<1>9. CASE UNCHANGED vars
  BY <1>9 DEF vars, Sane, TypeOK, RowsSane, ProviderSane, WorkersSane
<1> QED
  BY <1>1, <1>2, <1>3, <1>4, <1>5, <1>6, <1>7, <1>8, <1>9 DEF Next

\* Every row and every request in progress keeps its shape.
THEOREM TypeCorrect == Spec => []TypeOK
<1>1. Spec => []Sane
  BY SaneInit, SaneStep, PTL DEF Spec
<1>2. Sane => TypeOK
  BY DEF Sane
<1> QED
  BY <1>1, <1>2, PTL

-----------------------------------------------------------------------------
(***************************************************************************)
(* The second layer: how payments, their trade and Alipay agree.           *)
(***************************************************************************)

\* A stale answer of Alipay is stale in no way that matters: what a sync is
\* about to apply is final at the provider.
SeenTrue ==
  \A w \in Workers : worker[w].pc = "apply" =>
    /\ worker[w].seen \in {"paid", "closed"}
    /\ provider[worker[w].pay] = worker[w].seen

\* A payment that can never take money any more.
Retired(p) ==
  /\ payment[p].status = "closed"
  /\ payment[p].channel = "alipay" => provider[p] = "closed"

\* Of two payments of one trade at least one is retired: the invariant behind
\* NoDoubleCharge, which by itself is not inductive.
AllButOneRetired ==
  \A p, q \in PaymentIds :
    /\ p # q
    /\ payment[p].trade \in Trades
    /\ payment[p].trade = payment[q].trade
    => Retired(p) \/ Retired(q)

Booked == /\ TradeMovesWhole /\ PaymentSettlesTrade
          /\ ClosedHereClosedThere /\ AllButOneRetired

\* What Alipay has settled stays settled.
ProviderMoves ==
  /\ provider' \in [PaymentIds -> ProviderStates]
  /\ \A p \in PaymentIds :
       provider[p] \in {"paid", "closed"} => provider'[p] = provider[p]

\* The six things a step of the system does to the rows.
Quiet == UNCHANGED <<saleRows, heldRows>> /\ ProviderMoves

Completed(p) ==
  /\ CanCompletePayment(p) /\ CompletePayment(p)
  /\ UNCHANGED <<heldRows, provider>>

ClosedAtProvider(p) ==
  /\ payment' = MarkClosed(p) /\ provider[p] = "closed"
  /\ UNCHANGED <<tradeStatus, orderStatus, heldRows, provider>>

Cancelled(t) == CanCancel(t) /\ CancelTrade(t) /\ UNCHANGED provider

RowStep ==
  \/ Quiet
  \/ \E t \in Trades : CreateTrade(t)
  \/ \E t \in Trades, p \in PaymentIds, ch \in Channels :
       CreateTradePayment(t, p, ch)
  \/ \E p \in PaymentIds : Completed(p)
  \/ \E p \in PaymentIds : ClosedAtProvider(p)
  \/ \E t \in Trades : Cancelled(t)

LEMMA ReadsAreQuiet ==
  ASSUME Sane, UNCHANGED <<saleRows, heldRows, provider>>
  PROVE  Quiet
BY DEF Quiet, ProviderMoves, Sane, TypeOK

\* Completing or rolling back is one of them.
LEMMA CompleteOrQuiet ==
  ASSUME Sane, NEW p \in PaymentIds, CompleteOrRollback(p),
         UNCHANGED <<heldRows, provider>>
  PROVE  RowStep
<1>1. CASE CanCompletePayment(p)
  BY <1>1 DEF CompleteOrRollback, RowStep, Completed
<1>2. CASE ~CanCompletePayment(p)
  BY <1>2, ReadsAreQuiet DEF CompleteOrRollback, RowStep
<1> QED
  BY <1>1, <1>2

\* Every worker step is one of them.
LEMMA ProceedRows ==
  ASSUME Sane, SeenTrue, NEW w \in Workers, Proceed(w)
  PROVE  RowStep
<1>1. CASE \/ PrepareUserTradeForCancel(w) \/ FindPaidPayment(w)
           \/ ListPendingPayments(w) \/ QueryPayment(w)
           \/ RequeryPayment(w) \/ SyncQuery(w)
  <2>1. UNCHANGED <<saleRows, provider>>
    BY <1>1 DEF Reads, PrepareUserTradeForCancel, FindPaidPayment,
                ListPendingPayments, QueryPayment, RequeryPayment, SyncQuery
  <2>2. UNCHANGED heldRows
    BY <1>1 DEF Goto, PrepareUserTradeForCancel, FindPaidPayment,
                ListPendingPayments, QueryPayment, RequeryPayment, SyncQuery
  <2> QED
    BY <2>1, <2>2, ReadsAreQuiet DEF RowStep
<1>2. CASE RepairOrderFromPaidPayment(w)
  BY <1>2, LoopFacts, CompleteOrQuiet
     DEF RepairOrderFromPaidPayment, Goto, PaymentSteps
<1>3. CASE ClosePayment(w)
  <2>1. UNCHANGED <<saleRows, heldRows>>
    BY <1>3 DEF ClosePayment, Goto
  <2>2. ProviderMoves
    BY <1>3 DEF ClosePayment, ProviderMoves, Sane, TypeOK, ProviderStates
  <2> QED
    BY <2>1, <2>2 DEF RowStep, Quiet
<1>4. CASE SyncApply(w)
  <2>1. /\ worker[w].pay \in PaymentIds
        /\ UNCHANGED <<heldRows, provider>>
    BY <1>4, LoopFacts DEF SyncApply, Goto, PaymentSteps
  <2>2. CASE worker[w].seen = "paid"
    BY <1>4, <2>1, <2>2, CompleteOrQuiet DEF SyncApply
  <2>3. CASE worker[w].seen # "paid"
    <3>1. ClosedAtProvider(worker[w].pay)
      BY <1>4, <2>1, <2>3 DEF SyncApply, SeenTrue, ClosedAtProvider
    <3> QED
      BY <2>1, <3>1 DEF RowStep
  <2> QED
    BY <2>2, <2>3
<1>5. CASE CommitCancel(w)
  <2>1. worker[w].trade \in Trades /\ UNCHANGED provider
    BY <1>5, LoopFacts DEF CommitCancel
  <2>2. CASE CanCancel(worker[w].trade)
    BY <1>5, <2>1, <2>2 DEF CommitCancel, RowStep, Cancelled
  <2>3. CASE ~CanCancel(worker[w].trade)
    BY <1>5, <2>1, <2>3, ReadsAreQuiet DEF CommitCancel, RowStep
  <2> QED
    BY <2>2, <2>3
<1> QED
  BY <1>1, <1>2, <1>3, <1>4, <1>5 DEF Proceed

LEMMA NextRows ==
  ASSUME Sane, SeenTrue, [Next]_vars
  PROVE  RowStep
<1>1. ASSUME NEW t \in Trades, CreateTrade(t) PROVE RowStep
  BY <1>1 DEF RowStep
<1>2. ASSUME NEW t \in Trades, NEW p \in PaymentIds, NEW ch \in Channels,
             CreateTradePayment(t, p, ch)
      PROVE  RowStep
  BY <1>2 DEF RowStep
<1>3. ASSUME NEW p \in PaymentIds, AlipayNotify(p) \/ MockComplete(p)
      PROVE  RowStep
  <2>1. Completed(p)
    BY <1>3 DEF AlipayNotify, MockComplete, Completed
  <2> QED
    BY <2>1 DEF RowStep
<1>4. ASSUME NEW p \in PaymentIds,
             OpenPayUrl(p) \/ BuyerPays(p) \/ ProviderExpires(p)
      PROVE  RowStep
  <2>1. ProviderMoves
    BY <1>4 DEF OpenPayUrl, BuyerPays, ProviderExpires, ProviderMoves, Sane,
                TypeOK, ProviderStates
  <2>2. UNCHANGED <<saleRows, heldRows>>
    BY <1>4 DEF OpenPayUrl, BuyerPays, ProviderExpires
  <2> QED
    BY <2>1, <2>2 DEF RowStep, Quiet
<1>5. ASSUME NEW w \in Workers,
             \/ \E t \in Trades : CancelStart(w, t)
             \/ \E p \in PaymentIds : SyncStart(w, p)
      PROVE  RowStep
  BY <1>5, ReadsAreQuiet DEF CancelStart, SyncStart, Goto, Reads, RowStep
<1>6. ASSUME NEW w \in Workers, Proceed(w) PROVE RowStep
  BY <1>6, ProceedRows
<1>7. ASSUME NEW w \in Workers, Fails(w) PROVE RowStep
  <2>1. UNCHANGED <<saleRows, heldRows>>
    BY <1>7 DEF Fails, QueryFails, CloseFails, Crash
  <2>2. ProviderMoves
    BY <1>7 DEF Fails, QueryFails, CloseFails, Crash, ProviderMoves, Sane,
                TypeOK, ProviderStates
  <2> QED
    BY <2>1, <2>2 DEF RowStep, Quiet
<1>8. CASE UNCHANGED vars
  BY <1>8, ReadsAreQuiet DEF vars, saleRows, heldRows, RowStep
<1> QED
  BY <1>1, <1>2, <1>3, <1>4, <1>5, <1>6, <1>7, <1>8 DEF Next, Workers

\* A worker that moves anywhere but to "apply" keeps SeenTrue.
LEMMA SeenMove ==
  ASSUME Sane, SeenTrue, ProviderMoves,
         NEW w \in Workers, NEW l \in Locals, l.pc # "apply",
         worker' = [worker EXCEPT ![w] = l]
  PROVE  SeenTrue'
<1>1. \A v \in Workers : worker'[v] = IF v = w THEN l ELSE worker[v]
  BY DEF Sane, TypeOK
<1>2. \A v \in Workers : worker[v].pc = "apply" => worker[v].pay \in PaymentIds
  BY LoopFacts DEF PaymentSteps
<1> QED
  BY <1>1, <1>2 DEF SeenTrue, ProviderMoves

LEMMA SeenStep ==
  ASSUME Sane, SeenTrue, [Next]_vars
  PROVE  SeenTrue'
<1>1. ProviderMoves
  BY NextRows DEF RowStep, Quiet, Completed, ClosedAtProvider, Cancelled,
                  CreateTrade, CreateTradePayment, ProviderMoves, Sane, TypeOK
<1>2. CASE UNCHANGED worker
  <2>1. \A v \in Workers : worker[v].pc = "apply" =>
          worker[v].pay \in PaymentIds
    BY LoopFacts DEF PaymentSteps
  <2> QED
    BY <1>1, <1>2, <2>1 DEF SeenTrue, ProviderMoves
<1>3. ASSUME NEW w \in Workers, NEW l \in Locals, l.pc # "apply",
             worker' = [worker EXCEPT ![w] = l]
      PROVE  SeenTrue'
  BY <1>1, <1>3, SeenMove
<1>4. ASSUME NEW w \in Workers, Goto(w, Idle) PROVE SeenTrue'
  BY <1>3, <1>4, IdleType DEF Goto
<1>5. ASSUME NEW w \in Workers, NEW rest \in SUBSET PaymentIds,
             Goto(w, NextPayment(w, rest))
      PROVE  SeenTrue'
  <2>1. /\ NextPayment(w, rest) \in Locals
        /\ NextPayment(w, rest).pc # "apply"
    BY DEF Sane, TypeOK, Locals, Steps, NextPayment
  <2> QED
    BY <1>3, <1>5, <2>1 DEF Goto
<1>6. ASSUME NEW w \in Workers, NEW s \in Steps \ {"apply"},
             worker' = [worker EXCEPT ![w] = [worker[w] EXCEPT !.pc = s]]
      PROVE  SeenTrue'
  <2>1. /\ [worker[w] EXCEPT !.pc = s] \in Locals
        /\ [worker[w] EXCEPT !.pc = s].pc # "apply"
    BY DEF Sane, TypeOK, Locals
  <2> QED
    BY <1>3, <1>6, <2>1
<1>7. ASSUME NEW w \in Workers, NEW s \in Steps \ {"apply"},
             NEW p \in PaymentIds,
             Goto(w, [worker[w] EXCEPT !.pc = s, !.pay = p])
      PROVE  SeenTrue'
  <2>1. /\ [worker[w] EXCEPT !.pc = s, !.pay = p] \in Locals
        /\ [worker[w] EXCEPT !.pc = s, !.pay = p].pc # "apply"
    BY DEF Sane, TypeOK, Locals
  <2> QED
    BY <1>3, <1>7, <2>1 DEF Goto
<1>8. ASSUME NEW w \in Workers, Proceed(w) PROVE SeenTrue'
  <2>1. CASE PrepareUserTradeForCancel(w)
    BY <2>1, <1>4, <1>6 DEF PrepareUserTradeForCancel, Goto, Steps
  <2>2. CASE FindPaidPayment(w)
    BY <2>2, <1>6, <1>7 DEF FindPaidPayment, Goto, Steps, FindPaidByTradeID
  <2>3. CASE RepairOrderFromPaidPayment(w)
    BY <2>3, <1>4 DEF RepairOrderFromPaidPayment
  <2>4. CASE ListPendingPayments(w)
    <3>1. {p \in FindPendingByTradeID(worker[w].trade) :
             payment[p].channel = "alipay"} \in SUBSET PaymentIds
      BY DEF FindPendingByTradeID
    <3> QED
      BY <2>4, <3>1, <1>5 DEF ListPendingPayments
  <2>5. CASE QueryPayment(w)
    <3>1. worker[w].todo \subseteq PaymentIds
      BY LoopFacts
    <3> QED
      BY <2>5, <3>1, <1>5, <1>7 DEF QueryPayment, Steps
  <2>6. CASE ClosePayment(w)
    BY <2>6, <1>5, <1>6, LoopFacts DEF ClosePayment, Goto, Steps
  <2>7. CASE RequeryPayment(w)
    BY <2>7, <1>4, <1>5, <1>6, LoopFacts DEF RequeryPayment, Goto, Steps
  <2>8. CASE SyncQuery(w)
    <3> DEFINE p == worker[w].pay
               l == [worker[w] EXCEPT !.pc = "apply", !.seen = provider[p]]
    <3>1. CASE Goto(w, l) /\ provider[p] \in FinalProviderStates
      <4>1. /\ p \in PaymentIds /\ UNCHANGED provider
        BY <2>8, LoopFacts DEF SyncQuery, PaymentSteps, Reads
      <4>2. /\ l.pay = p /\ l.seen = provider[p]
            /\ \A v \in Workers : worker'[v] = IF v = w THEN l ELSE worker[v]
        BY <3>1 DEF Sane, TypeOK, Locals, Goto
      <4> HIDE DEF l
      <4> QED
        BY <3>1, <4>1, <4>2 DEF SeenTrue, FinalProviderStates
    <3> QED
      BY <2>8, <3>1, <1>4 DEF SyncQuery
  <2>9. CASE SyncApply(w)
    BY <2>9, <1>4 DEF SyncApply
  <2>10. CASE CommitCancel(w)
    BY <2>10, <1>3, IdleType DEF CommitCancel
  <2> QED
    BY <1>8, <2>1, <2>2, <2>3, <2>4, <2>5, <2>6, <2>7, <2>8, <2>9, <2>10
       DEF Proceed
<1>9. ASSUME NEW w \in Workers, Fails(w) PROVE SeenTrue'
  <2>1. CASE QueryFails(w) \/ Crash(w)
    BY <2>1, <1>3, IdleType DEF QueryFails, Crash
  <2>2. CASE CloseFails(w)
    <3>1. worker' = [worker EXCEPT ![w] = [worker[w] EXCEPT !.pc = "requery"]]
      BY <2>2 DEF CloseFails, Sane, TypeOK
    <3> QED
      BY <3>1, <1>6 DEF Steps
  <2> QED
    BY <1>9, <2>1, <2>2 DEF Fails
<1>10. ASSUME NEW w \in Workers, NEW t \in Trades, CancelStart(w, t)
       PROVE  SeenTrue'
  <2>1. /\ [Idle EXCEPT !.pc = "check", !.trade = t] \in Locals
        /\ [Idle EXCEPT !.pc = "check", !.trade = t].pc # "apply"
    BY DEF Idle, Locals, Steps, ProviderStates
  <2> QED
    BY <1>3, <1>10, <2>1 DEF CancelStart, Goto
<1>11. ASSUME NEW w \in Workers, NEW p \in PaymentIds, SyncStart(w, p)
       PROVE  SeenTrue'
  <2>1. /\ [Idle EXCEPT !.pc = "sync", !.pay = p] \in Locals
        /\ [Idle EXCEPT !.pc = "sync", !.pay = p].pc # "apply"
    BY DEF Idle, Locals, Steps, ProviderStates
  <2> QED
    BY <1>3, <1>11, <2>1 DEF SyncStart, Goto
<1> QED
  BY <1>2, <1>8, <1>9, <1>10, <1>11
     DEF Next, Workers, vars, CreateTrade, CreateTradePayment, AlipayNotify,
         MockComplete, OpenPayUrl, BuyerPays, ProviderExpires

LEMMA BookedInit == Init => Booked /\ SeenTrue
<1> SUFFICES ASSUME Init PROVE Booked /\ SeenTrue
  OBVIOUS
<1> USE DEF Init, NoRow
<1>1. TradeMovesWhole
  BY OrdersType DEF TradeMovesWhole, OrderStatusOf
<1>2. PaymentSettlesTrade
  BY DEF PaymentSettlesTrade, FindPaidByTradeID
<1>3. ClosedHereClosedThere
  BY DEF ClosedHereClosedThere
<1>4. AllButOneRetired
  BY NothingAssumption DEF AllButOneRetired, NothingAssumption
<1>5. SeenTrue
  BY DEF SeenTrue, Idle
<1> QED
  BY <1>1, <1>2, <1>3, <1>4, <1>5 DEF Booked

LEMMA BookedQuiet ==
  ASSUME Sane, Booked, Quiet
  PROVE  Booked'
<1> USE DEF Quiet, saleRows, ProviderMoves
<1>1. TradeMovesWhole' /\ PaymentSettlesTrade'
  BY DEF Booked, TradeMovesWhole, PaymentSettlesTrade, FindPaidByTradeID
<1>2. ClosedHereClosedThere'
  BY DEF Booked, ClosedHereClosedThere
<1>3. AllButOneRetired'
  BY DEF Booked, AllButOneRetired, Retired
<1> QED
  BY <1>1, <1>2, <1>3 DEF Booked

LEMMA BookedCreateTrade ==
  ASSUME Sane, Booked, NEW t \in Trades, CreateTrade(t)
  PROVE  Booked'
<1> USE DEF CreateTrade
<1>1. TradeMovesWhole'
  BY OrdersType DEF Sane, TypeOK, Booked, TradeMovesWhole, OrderStatusOf
<1>2. PaymentSettlesTrade'
  BY DEF Sane, TypeOK, Booked, PaymentSettlesTrade, FindPaidByTradeID
<1>3. ClosedHereClosedThere'
  <2>1. \A u \in Trades : tradeStatus'[u] # "closed" => tradeStatus[u] # "closed"
    BY DEF Sane, TypeOK
  <2>2. \A p \in PaymentIds : payment[p].status = "closed" =>
                                payment[p].trade \in Trades
    BY DEF Sane, RowsSane
  <2> QED
    BY <2>1, <2>2 DEF Booked, ClosedHereClosedThere
<1>4. AllButOneRetired'
  BY DEF Booked, AllButOneRetired, Retired
<1> QED
  BY <1>1, <1>2, <1>3, <1>4 DEF Booked

LEMMA BookedCreateTradePayment ==
  ASSUME Sane, Booked, NEW t \in Trades, NEW p \in PaymentIds,
         NEW ch \in Channels, CreateTradePayment(t, p, ch)
  PROVE  Booked'
<1>1. /\ payment[p].status = "none" /\ tradeStatus[t] = "pending"
      /\ FindPaidByTradeID(t) = {} /\ FindPendingByTradeID(t) = {}
      /\ UNCHANGED <<tradeStatus, orderStatus, provider>>
  BY DEF CreateTradePayment, NoOpenPayment
<1>2. /\ \A q \in PaymentIds : q # p => payment'[q] = payment[q]
      /\ payment'[p] = [status |-> "pending", trade |-> t, channel |-> ch,
                        active |-> TRUE]
  BY DEF CreateTradePayment, Sane, TypeOK
<1>3. TradeMovesWhole'
  BY <1>1 DEF Booked, TradeMovesWhole
<1>4. \A u \in Trades : FindPaidByTradeID(u)' = FindPaidByTradeID(u)
  BY <1>1, <1>2 DEF FindPaidByTradeID
<1>5. PaymentSettlesTrade'
  BY <1>1, <1>2, <1>4 DEF Booked, PaymentSettlesTrade
<1>6. ClosedHereClosedThere'
  BY <1>1, <1>2 DEF Booked, ClosedHereClosedThere
<1>7. \A q \in PaymentIds : q # p /\ payment[q].trade = t => Retired(q)
  <2> SUFFICES ASSUME NEW q \in PaymentIds, q # p, payment[q].trade = t
               PROVE  Retired(q)
    OBVIOUS
  <2>1. payment[q].status \in {"none", "pending", "paid", "closed"}
    BY DEF Sane, TypeOK, Payments, PaymentStates
  <2>2. payment[q].status # "none"
    BY NothingAssumption DEF NothingAssumption, Sane, RowsSane
  <2>3. payment[q].status = "closed"
    BY <1>1, <2>1, <2>2 DEF FindPaidByTradeID, FindPendingByTradeID
  <2> QED
    BY <1>1, <2>3 DEF Booked, ClosedHereClosedThere, Retired
<1>8. \A q \in PaymentIds : q # p /\ Retired(q) => Retired(q)'
  BY <1>1, <1>2 DEF Retired
<1>9. AllButOneRetired'
  BY <1>2, <1>7, <1>8 DEF Booked, AllButOneRetired
<1> QED
  BY <1>3, <1>5, <1>6, <1>9 DEF Booked

LEMMA BookedCompleted ==
  ASSUME Sane, Booked, NEW p \in PaymentIds, Completed(p)
  PROVE  Booked'
<1> DEFINE t == payment[p].trade
<1>1. /\ t \in Trades /\ payment[p].status \in {"pending", "paid"}
      /\ UNCHANGED provider
      /\ tradeStatus[t] \in {"pending", "paid"}
  BY DEF Completed, CanCompletePayment, Sane, RowsSane
<1>2. /\ \A q \in PaymentIds : q # p => payment'[q] = payment[q]
      /\ payment'[p].status = "paid" /\ payment'[p].active = FALSE
      /\ payment'[p].trade = t /\ payment'[p].channel = payment[p].channel
  BY <1>1 DEF Completed, CompletePayment, MarkPaid, Sane, TypeOK, Payments,
              RowsSane
<1>3. /\ tradeStatus'[t] = "paid"
      /\ \A u \in Trades : u # t => tradeStatus'[u] = tradeStatus[u]
  BY <1>1 DEF Completed, CompletePayment, Sane, TypeOK
<1>4. ~Retired(p)
  BY <1>1 DEF Retired
<1>5. \A q \in PaymentIds : q # p /\ payment[q].trade = t =>
        Retired(q) /\ payment[q].status = "closed"
  BY <1>1, <1>4 DEF Booked, AllButOneRetired, Retired
<1>6. TradeMovesWhole'
  <2>1. CASE tradeStatus[t] = "pending"
    <3>1. orderStatus' = UpdateTradeOrdersStatus(t, "paid")
      BY <2>1 DEF Completed, CompletePayment
    <3>2. \A o \in Orders : orderStatus'[o] =
             IF o[1] = t /\ orderStatus[o] = "pending" THEN "paid"
             ELSE orderStatus[o]
      BY <3>1 DEF UpdateTradeOrdersStatus
    <3> QED
      BY <1>3, <2>1, <3>2, OrdersType
         DEF Booked, TradeMovesWhole, OrderStatusOf
  <2>2. CASE tradeStatus[t] # "pending"
    BY <2>2 DEF Completed, CompletePayment, Booked, TradeMovesWhole
  <2> QED
    BY <2>1, <2>2
<1>7. PaymentSettlesTrade'
  <2> SUFFICES ASSUME NEW u \in Trades
      PROVE  /\ tradeStatus'[u] = "paid" <=> FindPaidByTradeID(u)' # {}
             /\ \A q, r \in FindPaidByTradeID(u)' : q = r
             /\ tradeStatus'[u] # "pending" =>
                  \A q \in PaymentIds : payment'[q].trade = u =>
                    payment'[q].status # "pending" /\ ~payment'[q].active
    BY DEF PaymentSettlesTrade
  <2>1. CASE u = t
    <3>1. p \in FindPaidByTradeID(u)'
      BY <1>2, <2>1 DEF FindPaidByTradeID
    <3>2. \A q \in FindPaidByTradeID(u)' : q = p
      BY <1>2, <1>5, <2>1 DEF FindPaidByTradeID
    <3>3. \A q \in PaymentIds : payment'[q].trade = u =>
            payment'[q].status # "pending" /\ ~payment'[q].active
      BY <1>2, <1>5, <2>1 DEF Sane, RowsSane
    <3> QED
      BY <1>3, <2>1, <3>1, <3>2, <3>3
  <2>2. CASE u # t
    <3>1. FindPaidByTradeID(u)' = FindPaidByTradeID(u)
      BY <1>2, <2>2 DEF FindPaidByTradeID
    <3>2. tradeStatus'[u] = tradeStatus[u]
      BY <1>3, <2>2
    <3>3. \A q \in PaymentIds : payment'[q].trade = u =>
            payment'[q] = payment[q]
      BY <1>2, <2>2
    <3> QED
      BY <3>1, <3>2, <3>3 DEF Booked, PaymentSettlesTrade
  <2> QED
    BY <2>1, <2>2
<1>8. ClosedHereClosedThere'
  <2>1. \A q \in PaymentIds : payment'[q].status = "closed" =>
          q # p /\ payment[q].trade \in Trades
    BY <1>2 DEF Sane, RowsSane
  <2>2. \A u \in Trades : tradeStatus'[u] # "closed" => tradeStatus[u] # "closed"
    BY <1>1, <1>3
  <2> QED
    BY <1>1, <1>2, <2>1, <2>2 DEF Booked, ClosedHereClosedThere
<1>9. AllButOneRetired'
  <2>1. \A q \in PaymentIds : q # p /\ Retired(q) => Retired(q)'
    BY <1>1, <1>2 DEF Retired
  <2>2. \A q \in PaymentIds : q # p /\ payment'[q].trade = t => Retired(q)'
    BY <1>2, <1>5, <2>1
  <2> QED
    BY <1>2, <2>1, <2>2 DEF Booked, AllButOneRetired
<1> QED
  BY <1>6, <1>7, <1>8, <1>9 DEF Booked

LEMMA BookedClosedAtProvider ==
  ASSUME Sane, Booked, NEW p \in PaymentIds, ClosedAtProvider(p)
  PROVE  Booked'
<1>1. CASE payment[p].status # "pending"
  <2>1. UNCHANGED <<saleRows, heldRows, provider>>
    BY <1>1 DEF ClosedAtProvider, MarkClosed, saleRows
  <2> QED
    BY <2>1, ReadsAreQuiet, BookedQuiet
<1>2. CASE payment[p].status = "pending"
  <2>1. /\ \A q \in PaymentIds : q # p => payment'[q] = payment[q]
        /\ payment'[p].status = "closed" /\ payment'[p].active = FALSE
        /\ payment'[p].trade = payment[p].trade
        /\ payment'[p].channel = payment[p].channel
        /\ provider[p] = "closed"
        /\ UNCHANGED <<tradeStatus, orderStatus, provider>>
    BY <1>2 DEF ClosedAtProvider, MarkClosed, Sane, TypeOK, Payments
  <2>2. TradeMovesWhole'
    BY <2>1 DEF Booked, TradeMovesWhole
  <2>3. \A u \in Trades : FindPaidByTradeID(u)' = FindPaidByTradeID(u)
    BY <1>2, <2>1 DEF FindPaidByTradeID
  <2>4. \A q \in PaymentIds :
          (payment'[q].status # "pending" /\ ~payment'[q].active)
          \/ payment'[q] = payment[q]
    BY <2>1
  <2>5. PaymentSettlesTrade'
    BY <2>1, <2>3, <2>4 DEF Booked, PaymentSettlesTrade
  <2>6. ClosedHereClosedThere'
    BY <2>1 DEF Booked, ClosedHereClosedThere
  <2>7. \A q \in PaymentIds : Retired(q) => Retired(q)'
    BY <2>1 DEF Retired
  <2>8. AllButOneRetired'
    BY <2>1, <2>7 DEF Booked, AllButOneRetired
  <2> QED
    BY <2>2, <2>5, <2>6, <2>8 DEF Booked
<1> QED
  BY <1>1, <1>2

\* What cancelling trade t does to its status and its payments.
LEMMA CancelledRows ==
  ASSUME Sane, Booked, NEW t \in Trades, Cancelled(t)
  PROVE  /\ tradeStatus[t] = "pending" /\ tradeStatus'[t] = "closed"
         /\ \A u \in Trades : u # t => tradeStatus'[u] = tradeStatus[u]
         /\ \A q \in PaymentIds :
              /\ payment'[q].trade = payment[q].trade
              /\ payment'[q].channel = payment[q].channel
              /\ payment[q].status = "pending" /\ payment[q].trade = t =>
                   payment'[q].status = "closed" /\ payment'[q].active = FALSE
              /\ payment[q].status # "pending" \/ payment[q].trade # t =>
                   payment'[q] = payment[q]
         /\ UNCHANGED provider
<1>1. tradeStatus' = [tradeStatus EXCEPT ![t] = "closed"]
  BY DEF Cancelled, CancelTrade
<1>2. payment' = ClosePendingPaymentsByTradeID(t)
  BY DEF Cancelled, CancelTrade
<1>3. tradeStatus[t] = "pending" /\ UNCHANGED provider
  BY DEF Cancelled, CanCancel
<1>4. /\ tradeStatus'[t] = "closed"
      /\ \A u \in Trades : u # t => tradeStatus'[u] = tradeStatus[u]
  BY <1>1 DEF Sane, TypeOK
<1>5. \A q \in PaymentIds :
        /\ payment'[q].trade = payment[q].trade
        /\ payment'[q].channel = payment[q].channel
        /\ payment[q].status = "pending" /\ payment[q].trade = t =>
             payment'[q].status = "closed" /\ payment'[q].active = FALSE
        /\ payment[q].status # "pending" \/ payment[q].trade # t =>
             payment'[q] = payment[q]
  BY <1>2, ClosedRowType DEF Sane, TypeOK, ClosePendingPaymentsByTradeID,
                             FindPendingByTradeID
<1> QED
  BY <1>3, <1>4, <1>5

LEMMA BookedCancelled ==
  ASSUME Sane, Booked, NEW t \in Trades, Cancelled(t)
  PROVE  Booked'
<1>rows. /\ tradeStatus[t] = "pending" /\ tradeStatus'[t] = "closed"
         /\ \A u \in Trades : u # t => tradeStatus'[u] = tradeStatus[u]
         /\ \A q \in PaymentIds :
              /\ payment'[q].trade = payment[q].trade
              /\ payment'[q].channel = payment[q].channel
              /\ payment[q].status = "pending" /\ payment[q].trade = t =>
                   payment'[q].status = "closed" /\ payment'[q].active = FALSE
              /\ payment[q].status # "pending" \/ payment[q].trade # t =>
                   payment'[q] = payment[q]
         /\ UNCHANGED provider
  BY CancelledRows
<1>1. TradeMovesWhole'
  <2>1. orderStatus' = UpdateTradeOrdersStatus(t, "cancelled")
    BY DEF Cancelled, CancelTrade
  <2>2. \A o \in Orders : orderStatus'[o] =
          IF o[1] = t /\ orderStatus[o] = "pending" THEN "cancelled"
          ELSE orderStatus[o]
    BY <2>1 DEF UpdateTradeOrdersStatus
  <2> QED
    BY <2>2, <1>rows, OrdersType
       DEF Booked, TradeMovesWhole, OrderStatusOf
<1>2. \A u \in Trades : FindPaidByTradeID(u)' = FindPaidByTradeID(u)
  BY <1>rows DEF FindPaidByTradeID
<1>3. \A q \in PaymentIds : payment[q].trade = t =>
        payment'[q].status # "pending" /\ ~payment'[q].active
  BY <1>rows DEF Sane, RowsSane
<1>4. PaymentSettlesTrade'
  <2> SUFFICES ASSUME NEW u \in Trades
      PROVE  /\ tradeStatus'[u] = "paid" <=> FindPaidByTradeID(u)' # {}
             /\ \A q, r \in FindPaidByTradeID(u)' : q = r
             /\ tradeStatus'[u] # "pending" =>
                  \A q \in PaymentIds : payment'[q].trade = u =>
                    payment'[q].status # "pending" /\ ~payment'[q].active
    BY DEF PaymentSettlesTrade
  <2>1. \A q, r \in FindPaidByTradeID(u)' : q = r
    BY <1>2 DEF Booked, PaymentSettlesTrade
  <2>2. tradeStatus'[u] = "paid" <=> FindPaidByTradeID(u)' # {}
    BY <1>2, <1>rows DEF Booked, PaymentSettlesTrade
  <2>3. CASE u = t
    BY <1>3, <2>1, <2>2, <2>3, <1>rows
  <2>4. CASE u # t
    <3>1. /\ tradeStatus'[u] = tradeStatus[u]
          /\ \A q \in PaymentIds : payment'[q].trade = u =>
               payment'[q] = payment[q]
      BY <2>4, <1>rows
    <3> QED
      BY <2>1, <2>2, <3>1 DEF Booked, PaymentSettlesTrade
  <2> QED
    BY <2>3, <2>4
<1>5. ClosedHereClosedThere'
  <2> SUFFICES ASSUME NEW q \in PaymentIds, payment'[q].channel = "alipay",
                      payment'[q].status = "closed",
                      tradeStatus'[payment'[q].trade] # "closed"
               PROVE  provider'[q] = "closed"
    BY DEF ClosedHereClosedThere
  <2>1. payment[q].trade # t
    BY <1>rows
  <2>2. payment[q].trade \in Trades
    BY <1>rows, <2>1 DEF Sane, RowsSane
  <2> QED
    BY <1>rows, <2>1, <2>2 DEF Booked, ClosedHereClosedThere
<1>6. AllButOneRetired'
  <2>1. \A q \in PaymentIds : Retired(q) => Retired(q)'
    BY <1>rows DEF Retired
  <2> QED
    BY <2>1, <1>rows DEF Booked, AllButOneRetired
<1> QED
  BY <1>1, <1>4, <1>5, <1>6 DEF Booked

LEMMA BookedStep ==
  ASSUME Sane, SeenTrue, Booked, [Next]_vars
  PROVE  Booked'
BY NextRows, BookedQuiet, BookedCreateTrade, BookedCreateTradePayment,
   BookedCompleted, BookedClosedAtProvider, BookedCancelled DEF RowStep

\* The inductive invariant of TradePayment.
IInv == Sane /\ SeenTrue /\ Booked

\* Every reachable state satisfies the inductive invariant.
THEOREM Invariance == Spec => []IInv
<1>1. Init => IInv
  BY SaneInit, BookedInit DEF IInv
<1>2. IInv /\ [Next]_vars => IInv'
  BY SaneStep, SeenStep, BookedStep DEF IInv
<1> QED
  BY <1>1, <1>2, PTL DEF Spec

\* A trade and its child orders are paid or cancelled together.
THEOREM MovesWhole == Spec => []TradeMovesWhole
<1>1. IInv => TradeMovesWhole
  BY DEF IInv, Booked
<1> QED
  BY <1>1, Invariance, PTL

\* A trade is paid by exactly one payment, and settling it settles them all.
THEOREM SettledByOnePayment == Spec => []PaymentSettlesTrade
<1>1. IInv => PaymentSettlesTrade
  BY DEF IInv, Booked
<1> QED
  BY <1>1, Invariance, PTL

\* While its trade is open, a payment row is closed only after Alipay's.
THEOREM ClosedThereFirst == Spec => []ClosedHereClosedThere
<1>1. IInv => ClosedHereClosedThere
  BY DEF IInv, Booked
<1> QED
  BY <1>1, Invariance, PTL

\* The buyer is charged at most once for a trade.
THEOREM ChargedOnce == Spec => []NoDoubleCharge
<1>1. IInv => NoDoubleCharge
  <2> DEFINE Charged(x) == \/ provider[x] = "paid"
                           \/ payment[x].channel = "mock" /\ payment[x].status = "paid"
  <2> SUFFICES ASSUME IInv, NEW p \in PaymentIds, NEW q \in PaymentIds,
                      Charged(p), Charged(q), p # q,
                      payment[p].trade = payment[q].trade
               PROVE  FALSE
    BY DEF NoDoubleCharge
  <2>1. payment[p].trade \in Trades
    BY DEF IInv, Sane, ProviderSane, RowsSane
  <2>2. \A x \in PaymentIds : Charged(x) => ~Retired(x)
    BY DEF IInv, Sane, ProviderSane, Retired
  <2>3. Retired(p) \/ Retired(q)
    BY <2>1 DEF IInv, Booked, AllButOneRetired
  <2> HIDE DEF Charged
  <2> QED
    BY <2>2, <2>3
<1> QED
  BY <1>1, Invariance, PTL

\* Trade, orders and payments are settled together, as the run checks it.
THEOREM SettledWhole == Spec => []TradeSettledWhole
<1>1. TradeMovesWhole /\ PaymentSettlesTrade <=> TradeSettledWhole
  BY DEF TradeSettledWhole
<1> QED
  BY <1>1, MovesWhole, SettledByOnePayment, PTL

\* Money is taken at most once and only what can be booked, as the run
\* checks it.
THEOREM MoneyOnce == Spec => []MoneyTakenOnce
<1>1. NoDoubleCharge /\ ClosedHereClosedThere <=> MoneyTakenOnce
  BY DEF MoneyTakenOnce
<1> QED
  BY <1>1, ChargedOnce, ClosedThereFirst, PTL

-----------------------------------------------------------------------------
(***************************************************************************)
(* What a step may never do, and the refinement of Sale.                   *)
(***************************************************************************)

Settled ==
  /\ \A t \in Trades : tradeStatus[t] \in {"paid", "closed"} =>
       tradeStatus'[t] = tradeStatus[t]
  /\ \A p \in PaymentIds : payment[p].status \in {"paid", "closed"} =>
       payment'[p] = payment[p]

LEMMA SettledRowStep ==
  ASSUME IInv, RowStep
  PROVE  Settled
<1> USE DEF IInv, Sane, TypeOK
<1>1. CASE Quiet
  BY <1>1 DEF Settled, Quiet, saleRows
<1>2. ASSUME NEW t \in Trades, CreateTrade(t) PROVE Settled
  BY <1>2 DEF Settled, CreateTrade
<1>3. ASSUME NEW t \in Trades, NEW p \in PaymentIds, NEW ch \in Channels,
             CreateTradePayment(t, p, ch)
      PROVE  Settled
  BY <1>3 DEF Settled, CreateTradePayment
<1>4. ASSUME NEW p \in PaymentIds, Completed(p) PROVE Settled
  <2> DEFINE t == payment[p].trade
  <2>1. \A u \in Trades : tradeStatus[u] # "pending" =>
          tradeStatus'[u] = tradeStatus[u]
    BY <1>4 DEF Completed, CompletePayment
  <2>2. \A q \in PaymentIds : payment[q].status # "pending" =>
          payment'[q] = payment[q]
    BY <1>4 DEF Completed, CompletePayment, MarkPaid
  <2> QED
    BY <2>1, <2>2 DEF Settled
<1>5. ASSUME NEW p \in PaymentIds, ClosedAtProvider(p) PROVE Settled
  BY <1>5 DEF Settled, ClosedAtProvider, MarkClosed
<1>6. ASSUME NEW t \in Trades, Cancelled(t) PROVE Settled
  BY <1>6, CancelledRows DEF Settled
<1> QED
  BY <1>1, <1>2, <1>3, <1>4, <1>5, <1>6 DEF RowStep

\* Settled trades and payments never change again.
THEOREM SettledForever == Spec => SettledStays
<1>1. IInv /\ [Next]_vars => [Settled]_vars
  BY NextRows, SettledRowStep DEF IInv
<1> QED
  BY <1>1, Invariance, PTL DEF Spec, SettledStays, Settled

\* A trade whose status does not move is the same sale.
LEMMA SaleOfStatus ==
  /\ SaleOf("none") = "absent"
  /\ SaleOf("pending") = "reserved"
  /\ SaleOf("paid") = "sold"
  /\ SaleOf("closed") = "released"
BY DEF SaleOf

LEMMA SaleMove ==
  ASSUME Sane, NEW t \in Trades, NEW s \in TradeStates,
         tradeStatus' = [tradeStatus EXCEPT ![t] = s]
  PROVE  [u \in Trades |-> SaleOf(tradeStatus[u])]' =
           [[u \in Trades |-> SaleOf(tradeStatus[u])] EXCEPT ![t] = SaleOf(s)]
<1>1. \A u \in Trades : tradeStatus'[u] = IF u = t THEN s ELSE tradeStatus[u]
  BY DEF Sane, TypeOK
<1>2. \A u \in Trades : SaleOf(tradeStatus'[u]) =
        IF u = t THEN SaleOf(s) ELSE SaleOf(tradeStatus[u])
  BY <1>1
<1>3. [u \in Trades |-> SaleOf(tradeStatus[u])]' =
        [u \in Trades |-> SaleOf(tradeStatus'[u])]
  BY DEF SaleOf
<1> QED
  BY <1>2, <1>3

LEMMA SaleStep ==
  ASSUME IInv, RowStep
  PROVE  [S!SaleNext]_(S!saleVars)
<1> USE DEF IInv
<1>1. CASE UNCHANGED <<tradeStatus, stock>>
  BY <1>1 DEF S!saleVars
<1>2. CASE Quiet
  BY <1>1, <1>2 DEF Quiet, saleRows, heldRows
<1>3. ASSUME NEW t \in Trades, CreateTrade(t) PROVE S!Reserve(t)
  <2>1. /\ tradeStatus[t] = "none" /\ StockSuffices(t)
        /\ tradeStatus' = [tradeStatus EXCEPT ![t] = "pending"]
        /\ stock' = DecreaseSKUStock(t)
    BY <1>3 DEF CreateTrade
  <2>2. [u \in Trades |-> SaleOf(tradeStatus[u])]' =
          [[u \in Trades |-> SaleOf(tradeStatus[u])] EXCEPT ![t] = "reserved"]
    BY <2>1, SaleMove, SaleOfStatus DEF TradeStates
  <2> QED
    BY <2>1, <2>2, SaleOfStatus DEF S!Reserve, StockSuffices, DecreaseSKUStock
<1>4. ASSUME NEW p \in PaymentIds, Completed(p) PROVE [S!SaleNext]_(S!saleVars)
  <2> DEFINE t == payment[p].trade
  <2>1. t \in Trades /\ UNCHANGED stock
    BY <1>4 DEF Completed, heldRows, CanCompletePayment, Sane, RowsSane
  <2>2. CASE tradeStatus[t] = "pending"
    <3>1. tradeStatus' = [tradeStatus EXCEPT ![t] = "paid"]
      BY <1>4, <2>2 DEF Completed, CompletePayment
    <3>2. [u \in Trades |-> SaleOf(tradeStatus[u])]' =
            [[u \in Trades |-> SaleOf(tradeStatus[u])] EXCEPT ![t] = "sold"]
      BY <2>1, <3>1, SaleMove, SaleOfStatus DEF TradeStates
    <3>3. S!Sell(t)
      BY <2>1, <2>2, <3>2, SaleOfStatus DEF S!Sell
    <3> QED
      BY <2>1, <3>3 DEF S!SaleNext
  <2>3. CASE tradeStatus[t] # "pending"
    BY <1>1, <1>4, <2>1, <2>3 DEF Completed, CompletePayment
  <2> QED
    BY <2>2, <2>3
<1>5. ASSUME NEW t \in Trades, Cancelled(t) PROVE S!Release(t)
  <2>1. /\ tradeStatus[t] = "pending"
        /\ tradeStatus' = [tradeStatus EXCEPT ![t] = "closed"]
        /\ stock' = IncreaseSKUStock(t)
    BY <1>5 DEF Cancelled, CanCancel, CancelTrade
  <2>2. [u \in Trades |-> SaleOf(tradeStatus[u])]' =
          [[u \in Trades |-> SaleOf(tradeStatus[u])] EXCEPT ![t] = "released"]
    BY <2>1, SaleMove, SaleOfStatus DEF TradeStates
  <2> QED
    BY <2>1, <2>2, SaleOfStatus DEF S!Release, IncreaseSKUStock
<1>6. ASSUME NEW p \in PaymentIds, ClosedAtProvider(p)
      PROVE  UNCHANGED <<tradeStatus, stock>>
  BY <1>6 DEF ClosedAtProvider, heldRows
<1>7. ASSUME NEW t \in Trades, NEW p \in PaymentIds, NEW ch \in Channels,
             CreateTradePayment(t, p, ch)
      PROVE  UNCHANGED <<tradeStatus, stock>>
  BY <1>7 DEF CreateTradePayment, heldRows
<1> QED
  BY <1>1, <1>2, <1>3, <1>4, <1>5, <1>6, <1>7 DEF RowStep, S!SaleNext

\* TradePayment implements Sale: whatever payments and workers do, stock is
\* reserved, sold and released trade by trade, once each.
THEOREM Refinement == Spec => ImplementsSale
<1>1. Init => S!SaleInit
  BY DEF Init, S!SaleInit, SaleOf
<1>2. IInv /\ [Next]_vars => [S!SaleNext]_(S!saleVars)
  BY NextRows, SaleStep DEF IInv
<1> QED
  BY <1>1, <1>2, Invariance, PTL DEF Spec, ImplementsSale, S!SaleSpec

-----------------------------------------------------------------------------
(***************************************************************************)
(* Coupons.                                                                *)
(***************************************************************************)

CouponsHeld ==
  /\ \A c \in UserCoupons : coupon[c] # NoOrder =>
       /\ coupon[c] \in Orders
       /\ CouponOf(coupon[c]) = c
       /\ Holds(coupon[c][1])
  /\ \A o \in Orders : Holds(o[1]) /\ CouponOf(o) # NoCoupon =>
       coupon[CouponOf(o)] = o

CouponsCounted ==
  \A m \in Merchants : usedQuantity[m] = Cardinality(CouponsInUse(m))

LEMMA CouponParts == CouponsExact <=> CouponsHeld /\ CouponsCounted
BY DEF CouponsExact, CouponsHeld, CouponsCounted

\* An order is its trade and its merchant, and its coupon is that merchant's.
LEMMA OrderCoupon ==
  ASSUME NEW o \in Orders
  PROVE  /\ o[1] \in Trades /\ o[2] \in Merchants /\ o = <<o[1], o[2]>>
         /\ CouponOf(o) # NoCoupon =>
              CouponOf(o) \in UserCoupons /\ IssuedBy[CouponOf(o)] = o[2]
<1>1. o \in Trades \X Merchants
  BY OrdersType
<1>2. o[1] \in Trades /\ o[2] \in Merchants /\ o = <<o[1], o[2]>>
  BY <1>1
<1> QED
  BY <1>2, CouponsAssumption DEF CouponOf, CouponsAssumption

\* Trade t names coupon c: UserCouponID, seen from the coupon.
Names(t, c) ==
  UserCouponID[t][IssuedBy[c]] = c /\ <<t, IssuedBy[c]>> \in Orders

LEMMA NamesOrder ==
  ASSUME NEW t \in Trades, NEW c \in UserCoupons
  PROVE  \A o \in OrdersOf(t) : CouponOf(o) = c =>
           Names(t, c) /\ o = <<t, IssuedBy[c]>>
<1>1. c # NoCoupon
  BY NothingAssumption DEF NothingAssumption
<1> QED
  BY <1>1, OrderCoupon DEF OrdersOf, Names, CouponOf

LEMMA OrderNames ==
  ASSUME NEW t \in Trades, NEW c \in UserCoupons, Names(t, c)
  PROVE  /\ <<t, IssuedBy[c]>> \in OrdersOf(t)
         /\ CouponOf(<<t, IssuedBy[c]>>) = c
BY DEF Names, OrdersOf, CouponOf

LEMMA CouponsInUseFinite ==
  \A m \in Merchants : IsFiniteSet(CouponsInUse(m))
BY FS_Subset, CouponsAssumption DEF CouponsAssumption, CouponsInUse

\* A step that leaves the coupons alone and keeps every trade that holds
\* goods holding them, and no other.
LEMMA CouponsKept ==
  ASSUME CouponsExact, UNCHANGED <<coupon, usedQuantity>>,
         \A t \in Trades : Holds(t)' = Holds(t)
  PROVE  CouponsExact'
<1>1. CouponsHeld'
  BY CouponParts, OrderCoupon DEF CouponsHeld
<1>2. CouponsCounted'
  BY CouponParts DEF CouponsCounted, CouponsInUse
<1> QED
  BY <1>1, <1>2, CouponParts DEF CouponsExact, CouponsHeld, CouponsCounted

LEMMA CouponsCreateTrade ==
  ASSUME Sane, Booked, CouponsExact, NEW t \in Trades, CreateTrade(t)
  PROVE  CouponsExact'
<1> DEFINE Live == {"pending", "paid"}
<1>1. \A u \in Trades : tradeStatus'[u] \in Live <=>
        u = t \/ tradeStatus[u] \in Live
  BY DEF CreateTrade, Sane, TypeOK
<1>2. \A c \in UserCoupons :
        coupon'[c] = IF Names(t, c) THEN <<t, IssuedBy[c]>> ELSE coupon[c]
  BY DEF CreateTrade, UseUserCoupons, Names
<1>3. \A c \in UserCoupons : Names(t, c) => coupon[c] = NoOrder
  BY OrderNames, NothingAssumption DEF CreateTrade, NothingAssumption
<1>4. CouponsHeld'
  <2>1. ASSUME NEW c \in UserCoupons, coupon'[c] # NoOrder
        PROVE  /\ coupon'[c] \in Orders
               /\ CouponOf(coupon'[c]) = c
               /\ tradeStatus'[coupon'[c][1]] \in Live
    <3>1. CASE Names(t, c)
      <4>1. /\ <<t, IssuedBy[c]>> \in Orders
            /\ CouponOf(<<t, IssuedBy[c]>>) = c
        BY <3>1, OrderNames DEF OrdersOf
      <4>2. coupon'[c] = <<t, IssuedBy[c]>>
        BY <1>2, <3>1
      <4> QED
        BY <1>1, <4>1, <4>2
    <3>2. CASE ~Names(t, c)
      <4>1. /\ coupon'[c] = coupon[c] /\ coupon[c] \in Orders
            /\ CouponOf(coupon[c]) = c /\ tradeStatus[coupon[c][1]] \in Live
        BY <1>2, <2>1, <3>2, CouponParts DEF CouponsHeld, Holds
      <4>2. coupon[c][1] \in Trades
        BY <4>1, OrderCoupon
      <4> QED
        BY <1>1, <4>1, <4>2
    <3> QED
      BY <3>1, <3>2
  <2>2. ASSUME NEW o \in Orders, tradeStatus'[o[1]] \in Live,
                      CouponOf(o) # NoCoupon
        PROVE  coupon'[CouponOf(o)] = o
    <3>1. /\ CouponOf(o) \in UserCoupons /\ o[1] \in Trades
          /\ o = <<o[1], o[2]>> /\ IssuedBy[CouponOf(o)] = o[2]
      BY <2>2, OrderCoupon
    <3>2. CASE o[1] = t
      <4>1. Names(t, CouponOf(o))
        BY <2>2, <3>1, <3>2, NamesOrder DEF OrdersOf
      <4> QED
        BY <1>2, <3>1, <3>2, <4>1
    <3>3. CASE o[1] # t
      <4>1. Holds(o[1])
        BY <1>1, <2>2, <3>1, <3>3 DEF Holds
      <4>2. coupon[CouponOf(o)] = o
        BY <2>2, <4>1, CouponParts DEF CouponsHeld
      <4>3. o # NoOrder
        BY NothingAssumption, OrdersType DEF NothingAssumption
      <4>4. ~Names(t, CouponOf(o))
        BY <1>3, <3>1, <4>2, <4>3
      <4> QED
        BY <1>2, <3>1, <4>2, <4>4
    <3> QED
      BY <3>2, <3>3
  <2> QED
    BY <2>1, <2>2 DEF CouponsHeld, Holds
<1>5. CouponsCounted'
  <2> SUFFICES ASSUME NEW m \in Merchants
               PROVE  usedQuantity'[m] = Cardinality(CouponsInUse(m)')
    BY DEF CouponsCounted
  <2> DEFINE c == UserCouponID[t][m]
  <2>1. /\ usedQuantity[m] = Cardinality(CouponsInUse(m))
        /\ usedQuantity[m] \in Nat
    BY CouponParts DEF CouponsCounted, Sane, TypeOK
  <2>2. \A d \in UserCoupons : coupon'[d] # NoOrder <=>
          Names(t, d) \/ coupon[d] # NoOrder
    BY <1>2, NothingAssumption, OrdersType DEF Names, NothingAssumption
  <2>3. CASE <<t, m>> \in Orders /\ c # NoCoupon
    <3>1. c \in UserCoupons /\ IssuedBy[c] = m
      BY <2>3, CouponsAssumption DEF CouponsAssumption
    <3>2. Names(t, c) /\ coupon[c] = NoOrder
      BY <1>3, <2>3, <3>1 DEF Names
    <3>3. \A d \in UserCoupons : Names(t, d) /\ IssuedBy[d] = m => d = c
      BY DEF Names
    <3>4. CouponsInUse(m)' = CouponsInUse(m) \cup {c}
      BY <2>2, <3>1, <3>2, <3>3 DEF CouponsInUse
    <3>5. usedQuantity'[m] = usedQuantity[m] + 1
      BY <2>1, <2>3 DEF CreateTrade, CountCoupons, IncrementCouponUsed
    <3>6. c \notin CouponsInUse(m) /\ IsFiniteSet(CouponsInUse(m))
      BY <3>2, CouponsInUseFinite DEF CouponsInUse
    <3> HIDE DEF c
    <3> QED
      BY <2>1, <3>4, <3>5, <3>6, FS_AddElement
  <2>4. CASE ~(<<t, m>> \in Orders /\ c # NoCoupon)
    <3>1. \A d \in UserCoupons : IssuedBy[d] = m => ~Names(t, d)
      BY <2>4, NothingAssumption DEF Names, NothingAssumption
    <3>2. CouponsInUse(m)' = CouponsInUse(m)
      BY <2>2, <3>1 DEF CouponsInUse
    <3>3. usedQuantity'[m] = usedQuantity[m]
      BY <2>4 DEF CreateTrade, CountCoupons
    <3> QED
      BY <2>1, <3>2, <3>3
  <2> QED
    BY <2>3, <2>4
<1> QED
  BY <1>4, <1>5, CouponParts DEF CouponsExact, CouponsHeld, CouponsCounted

LEMMA CouponsCancelled ==
  ASSUME Sane, CouponsExact, NEW t \in Trades, Cancelled(t)
  PROVE  CouponsExact'
<1> DEFINE Live == {"pending", "paid"}
<1>1. \A u \in Trades : tradeStatus'[u] \in Live <=>
        u # t /\ tradeStatus[u] \in Live
  BY DEF Cancelled, CancelTrade, Sane, TypeOK
<1>2. \A c \in UserCoupons :
        coupon'[c] = IF Names(t, c) THEN NoOrder ELSE coupon[c]
  BY DEF Cancelled, CancelTrade, ReleaseUserCoupons, Names
<1>3. \A c \in UserCoupons : Names(t, c) => coupon[c] = <<t, IssuedBy[c]>>
  <2> SUFFICES ASSUME NEW c \in UserCoupons, Names(t, c)
               PROVE  coupon[c] = <<t, IssuedBy[c]>>
    OBVIOUS
  <2>1. /\ <<t, IssuedBy[c]>> \in OrdersOf(t)
        /\ CouponOf(<<t, IssuedBy[c]>>) = c
    BY OrderNames
  <2>2. c # NoCoupon
    BY NothingAssumption DEF NothingAssumption
  <2> QED
    BY <2>1, <2>2 DEF Cancelled, CanCancel
<1>4. \A c \in UserCoupons : Names(t, c) => coupon[c] # NoOrder
  BY <1>3, NothingAssumption, OrdersType DEF Names, NothingAssumption
<1>5. CouponsHeld'
  <2>1. ASSUME NEW c \in UserCoupons, coupon'[c] # NoOrder
        PROVE  /\ coupon'[c] \in Orders
               /\ CouponOf(coupon'[c]) = c
               /\ tradeStatus'[coupon'[c][1]] \in Live
    <3>1. ~Names(t, c) /\ coupon'[c] = coupon[c]
      BY <1>2, <2>1
    <3>2. /\ coupon[c] \in Orders
          /\ CouponOf(coupon[c]) = c /\ tradeStatus[coupon[c][1]] \in Live
      BY <2>1, <3>1, CouponParts DEF CouponsHeld, Holds
    <3>3. coupon[c][1] \in Trades
      BY <3>2, OrderCoupon
    <3>4. coupon[c][1] # t
      BY <3>1, <3>2, NamesOrder DEF OrdersOf
    <3> QED
      BY <1>1, <3>1, <3>2, <3>3, <3>4
  <2>2. ASSUME NEW o \in Orders, tradeStatus'[o[1]] \in Live,
                      CouponOf(o) # NoCoupon
        PROVE  coupon'[CouponOf(o)] = o
    <3>1. /\ CouponOf(o) \in UserCoupons /\ o[1] \in Trades
          /\ o = <<o[1], o[2]>> /\ IssuedBy[CouponOf(o)] = o[2]
      BY <2>2, OrderCoupon
    <3>2. o[1] # t /\ Holds(o[1])
      BY <1>1, <2>2, <3>1 DEF Holds
    <3>3. coupon[CouponOf(o)] = o
      BY <2>2, <3>2, CouponParts DEF CouponsHeld
    <3>4. ~Names(t, CouponOf(o))
      BY <1>3, <3>1, <3>2, <3>3
    <3> QED
      BY <1>2, <3>1, <3>3, <3>4
  <2> QED
    BY <2>1, <2>2 DEF CouponsHeld, Holds
<1>6. CouponsCounted'
  <2> SUFFICES ASSUME NEW m \in Merchants
               PROVE  usedQuantity'[m] = Cardinality(CouponsInUse(m)')
    BY DEF CouponsCounted
  <2> DEFINE c == UserCouponID[t][m]
  <2>1. /\ usedQuantity[m] = Cardinality(CouponsInUse(m))
        /\ usedQuantity[m] \in Nat
    BY CouponParts DEF CouponsCounted, Sane, TypeOK
  <2>2. \A d \in UserCoupons : coupon'[d] # NoOrder <=>
          ~Names(t, d) /\ coupon[d] # NoOrder
    BY <1>2
  <2>3. CASE <<t, m>> \in Orders /\ c # NoCoupon
    <3>1. c \in UserCoupons /\ IssuedBy[c] = m
      BY <2>3, CouponsAssumption DEF CouponsAssumption
    <3>2. Names(t, c) /\ coupon[c] # NoOrder
      BY <1>4, <2>3, <3>1 DEF Names
    <3>3. \A d \in UserCoupons : Names(t, d) /\ IssuedBy[d] = m => d = c
      BY DEF Names
    <3>4. CouponsInUse(m)' = CouponsInUse(m) \ {c}
      BY <2>2, <3>1, <3>2, <3>3 DEF CouponsInUse
    <3>5. usedQuantity'[m] = IncrementCouponUsed(m, -1)
      BY <2>3 DEF Cancelled, CancelTrade, CountCoupons
    <3>6. c \in CouponsInUse(m) /\ IsFiniteSet(CouponsInUse(m))
      BY <3>1, <3>2, CouponsInUseFinite DEF CouponsInUse
    <3> HIDE DEF c
    <3>7. /\ Cardinality(CouponsInUse(m)') = usedQuantity[m] - 1
          /\ IsFiniteSet(CouponsInUse(m)')
      BY <2>1, <3>4, <3>6, FS_RemoveElement
    <3>8. Cardinality(CouponsInUse(m)') \in Nat
      BY <3>7, FS_CardinalityType
    <3> QED
      BY <2>1, <3>5, <3>7, <3>8 DEF IncrementCouponUsed
  <2>4. CASE ~(<<t, m>> \in Orders /\ c # NoCoupon)
    <3>1. \A d \in UserCoupons : IssuedBy[d] = m => ~Names(t, d)
      BY <2>4, NothingAssumption DEF Names, NothingAssumption
    <3>2. CouponsInUse(m)' = CouponsInUse(m)
      BY <2>2, <3>1 DEF CouponsInUse
    <3>3. usedQuantity'[m] = usedQuantity[m]
      BY <2>4 DEF Cancelled, CancelTrade, CountCoupons
    <3> QED
      BY <2>1, <3>2, <3>3
  <2> QED
    BY <2>3, <2>4
<1> QED
  BY <1>5, <1>6, CouponParts DEF CouponsExact, CouponsHeld, CouponsCounted

LEMMA CouponsStep ==
  ASSUME Sane, Booked, CouponsExact, RowStep
  PROVE  CouponsExact'
<1>1. CASE Quiet
  BY <1>1, CouponsKept DEF Quiet, saleRows, heldRows, Holds
<1>2. ASSUME NEW t \in Trades, NEW p \in PaymentIds, NEW ch \in Channels,
             CreateTradePayment(t, p, ch)
      PROVE  CouponsExact'
  BY <1>2, CouponsKept DEF CreateTradePayment, heldRows, Holds
<1>3. ASSUME NEW p \in PaymentIds, Completed(p) PROVE CouponsExact'
  <2>1. UNCHANGED <<coupon, usedQuantity>>
    BY <1>3 DEF Completed, heldRows
  <2>2. \A t \in Trades : Holds(t)' = Holds(t)
    BY <1>3 DEF Completed, CompletePayment, Holds, Sane, TypeOK
  <2> QED
    BY <2>1, <2>2, CouponsKept
<1>4. ASSUME NEW p \in PaymentIds, ClosedAtProvider(p) PROVE CouponsExact'
  BY <1>4, CouponsKept DEF ClosedAtProvider, heldRows, Holds
<1> QED
  BY <1>1, <1>2, <1>3, <1>4, CouponsCreateTrade, CouponsCancelled DEF RowStep

LEMMA CouponsInit == Init => CouponsExact
<1> SUFFICES ASSUME Init PROVE CouponsExact
  OBVIOUS
<1>1. \A t \in Trades : ~Holds(t)
  BY DEF Init, Holds
<1>2. CouponsHeld
  BY <1>1, OrderCoupon DEF Init, CouponsHeld
<1>3. \A m \in Merchants : CouponsInUse(m) = {}
  BY DEF Init, CouponsInUse
<1>4. CouponsCounted
  BY <1>3, FS_EmptySet DEF Init, CouponsCounted
<1> QED
  BY <1>2, <1>4, CouponParts

\* Coupons are used by the one live order that named them, and counted right.
THEOREM CouponsAlwaysExact == Spec => []CouponsExact
<1>1. IInv /\ CouponsExact /\ [Next]_vars => CouponsExact'
  BY NextRows, CouponsStep DEF IInv
<1> QED
  BY <1>1, CouponsInit, Invariance, PTL DEF Spec

-----------------------------------------------------------------------------
(***************************************************************************)
(* Stock.                                                                  *)
(***************************************************************************)

UnitsOf(t, s) == {t} \X (1..Wanted[t][s])

LEMMA UnitsOfCardinality ==
  ASSUME NEW t \in Trades, NEW s \in Skus
  PROVE  /\ IsFiniteSet(UnitsOf(t, s))
         /\ Cardinality(UnitsOf(t, s)) = Wanted[t][s]
<1> DEFINE w == Wanted[t][s]
<1>1. w \in Nat
  BY WantedType
<1> HIDE DEF w
<1>2. IsFiniteSet(1..w) /\ Cardinality(1..w) = w
  BY <1>1, FS_Interval
<1>3. IsFiniteSet({t}) /\ Cardinality({t}) = 1
  BY FS_Singleton
<1> DEFINE S1 == {t}
           T1 == 1..w
<1> HIDE DEF S1, T1
<1>4. IsFiniteSet(S1) /\ IsFiniteSet(T1)
  BY <1>2, <1>3 DEF S1, T1
<1>5. /\ IsFiniteSet(S1 \X T1)
      /\ Cardinality(S1 \X T1) = Cardinality(S1) * Cardinality(T1)
  BY <1>4, FS_Product
<1>6. Cardinality(S1) * Cardinality(T1) = w
  BY <1>1, <1>2, <1>3 DEF S1, T1
<1> QED
  BY <1>5, <1>6 DEF UnitsOf, S1, T1, w

LEMMA UnitsOfHeld ==
  ASSUME NEW t \in Trades, NEW s \in Skus
  PROVE  UnitsOf(t, s) =
           {u \in Trades \X (1..MaxQuantity) :
              u[1] = t /\ u[2] <= Wanted[t][s]}
<1>1. /\ Wanted[t][s] \in Nat /\ Wanted[t][s] <= MaxQuantity
      /\ MaxQuantity \in Nat
  BY WantedType, SkusAssumption DEF SkusAssumption
<1> QED
  BY <1>1 DEF UnitsOf

\* The inductive form: without finiteness a cardinality says nothing.
StockHeld ==
  \A s \in Skus :
    /\ IsFiniteSet(UnitsHeld(s))
    /\ stock[s] + Cardinality(UnitsHeld(s)) = InitialStock[s]

LEMMA StockInit == Init => StockHeld
<1> SUFFICES ASSUME Init, NEW s \in Skus
             PROVE  /\ IsFiniteSet(UnitsHeld(s))
                    /\ stock[s] + Cardinality(UnitsHeld(s)) = InitialStock[s]
  BY DEF StockHeld
<1>1. UnitsHeld(s) = {}
  BY DEF Init, UnitsHeld, Holds
<1>2. stock[s] = InitialStock[s] /\ InitialStock[s] \in Nat
  BY SkusAssumption DEF Init, SkusAssumption
<1> QED
  BY <1>1, <1>2, FS_EmptySet

LEMMA StockKept ==
  ASSUME StockHeld, UNCHANGED stock, \A t \in Trades : Holds(t)' = Holds(t)
  PROVE  StockHeld'
<1>1. \A s \in Skus : UnitsHeld(s)' = UnitsHeld(s)
  BY DEF UnitsHeld
<1> QED
  BY <1>1 DEF StockHeld

LEMMA StockCreateTrade ==
  ASSUME Sane, StockHeld, NEW t \in Trades, CreateTrade(t)
  PROVE  StockHeld'
<1> SUFFICES ASSUME NEW s \in Skus
    PROVE  /\ IsFiniteSet(UnitsHeld(s)')
           /\ stock'[s] + Cardinality(UnitsHeld(s)') = InitialStock[s]
  BY DEF StockHeld
<1>1. \A u \in Trades : Holds(u)' <=> u = t \/ Holds(u)
  BY DEF CreateTrade, Holds, Sane, TypeOK
<1>2. ~Holds(t)
  BY DEF CreateTrade, Holds
<1>3. UnitsHeld(s)' = UnitsHeld(s) \cup UnitsOf(t, s)
  BY <1>1, UnitsOfHeld DEF UnitsHeld
<1>4. UnitsHeld(s) \cap UnitsOf(t, s) = {}
  BY <1>2 DEF UnitsHeld, UnitsOf
<1>5. /\ IsFiniteSet(UnitsHeld(s)')
      /\ Cardinality(UnitsHeld(s)') = Cardinality(UnitsHeld(s)) + Wanted[t][s]
  <2>1. IsFiniteSet(UnitsHeld(s)) /\ Cardinality(UnitsHeld(s)) \in Nat
    BY FS_CardinalityType DEF StockHeld
  <2>2. Cardinality({}) = 0
    BY FS_EmptySet
  <2> QED
    BY <1>3, <1>4, <2>1, <2>2, UnitsOfCardinality, WantedType, FS_Union
<1>6. /\ stock'[s] = stock[s] - Wanted[t][s]
      /\ stock[s] \in Nat /\ Wanted[t][s] \in Nat
      /\ Cardinality(UnitsHeld(s)) \in Nat
  BY WantedType, FS_CardinalityType
     DEF CreateTrade, DecreaseSKUStock, Sane, TypeOK, StockHeld
<1> QED
  BY <1>5, <1>6 DEF StockHeld

LEMMA StockCancelled ==
  ASSUME Sane, StockHeld, NEW t \in Trades, Cancelled(t)
  PROVE  StockHeld'
<1> SUFFICES ASSUME NEW s \in Skus
    PROVE  /\ IsFiniteSet(UnitsHeld(s)')
           /\ stock'[s] + Cardinality(UnitsHeld(s)') = InitialStock[s]
  BY DEF StockHeld
<1>1. \A u \in Trades : Holds(u)' <=> u # t /\ Holds(u)
  BY DEF Cancelled, CancelTrade, Holds, Sane, TypeOK
<1>2. Holds(t)
  BY DEF Cancelled, CanCancel, Holds
<1>3. UnitsHeld(s)' = UnitsHeld(s) \ UnitsOf(t, s)
  BY <1>1, UnitsOfHeld DEF UnitsHeld
<1>4. UnitsHeld(s) \cap UnitsOf(t, s) = UnitsOf(t, s)
  BY <1>2, UnitsOfHeld DEF UnitsHeld
<1>5. /\ IsFiniteSet(UnitsHeld(s)')
      /\ Cardinality(UnitsHeld(s)') = Cardinality(UnitsHeld(s)) - Wanted[t][s]
  <2>1. IsFiniteSet(UnitsHeld(s))
    BY DEF StockHeld
  <2>2. /\ IsFiniteSet(UnitsHeld(s) \ UnitsOf(t, s))
        /\ Cardinality(UnitsHeld(s) \ UnitsOf(t, s)) =
             Cardinality(UnitsHeld(s))
               - Cardinality(UnitsHeld(s) \cap UnitsOf(t, s))
    BY <2>1, FS_Difference
  <2> QED
    BY <1>3, <1>4, <2>2, UnitsOfCardinality
<1>6. /\ stock'[s] = stock[s] + Wanted[t][s]
      /\ stock[s] \in Nat /\ Wanted[t][s] \in Nat
      /\ Cardinality(UnitsHeld(s)) \in Nat
  BY WantedType, FS_CardinalityType
     DEF Cancelled, CancelTrade, IncreaseSKUStock, Sane, TypeOK, StockHeld
<1> QED
  BY <1>5, <1>6 DEF StockHeld

LEMMA StockStep ==
  ASSUME Sane, StockHeld, RowStep
  PROVE  StockHeld'
<1>1. CASE Quiet
  BY <1>1, StockKept DEF Quiet, saleRows, heldRows, Holds
<1>2. ASSUME NEW t \in Trades, NEW p \in PaymentIds, NEW ch \in Channels,
             CreateTradePayment(t, p, ch)
      PROVE  StockHeld'
  BY <1>2, StockKept DEF CreateTradePayment, heldRows, Holds
<1>3. ASSUME NEW p \in PaymentIds, Completed(p) PROVE StockHeld'
  <2>1. UNCHANGED stock
    BY <1>3 DEF Completed, heldRows
  <2>2. \A t \in Trades : Holds(t)' = Holds(t)
    BY <1>3 DEF Completed, CompletePayment, Holds, Sane, TypeOK
  <2> QED
    BY <2>1, <2>2, StockKept
<1>4. ASSUME NEW p \in PaymentIds, ClosedAtProvider(p) PROVE StockHeld'
  BY <1>4, StockKept DEF ClosedAtProvider, heldRows, Holds
<1> QED
  BY <1>1, <1>2, <1>3, <1>4, StockCreateTrade, StockCancelled DEF RowStep

\* What is on the shelf and what placed trades hold is what there was.
THEOREM StockAlwaysConserved == Spec => []StockConserved
<1>1. IInv /\ StockHeld /\ [Next]_vars => StockHeld'
  BY NextRows, StockStep DEF IInv
<1>2. StockHeld => StockConserved
  BY DEF StockHeld, StockConserved
<1> QED
  BY <1>1, <1>2, StockInit, Invariance, PTL DEF Spec

\* Nothing a trade holds is lost, held twice or given back twice.
THEOREM HoldingsAlwaysExact == Spec => []HoldingsExact
BY CouponsAlwaysExact, StockAlwaysConserved, PTL DEF HoldingsExact

=============================================================================
