---------------------------- MODULE TradePayment ----------------------------
(***************************************************************************)
(* A trade from placing the order to payment or cancellation: the trade    *)
(* and its child orders (one per merchant), the stock and the coupons they *)
(* hold, the payments made for it, the Alipay side of each payment, and    *)
(* the workers (HTTP handlers and the cancel-expired-orders job) that      *)
(* cancel trades and synchronise payments.                                 *)
(*                                                                         *)
(* A database transaction takes the trade's row locks first, so it is one  *)
(* action.  A provider call happens outside every transaction, so it is an *)
(* action of its own, and what it answered may be stale when it is used.   *)
(*                                                                         *)
(* One buyer: every query filters by user_id, and no row of this model is  *)
(* shared by two buyers except the stock.                                  *)
(***************************************************************************)
EXTENDS Integers, FiniteSets

CONSTANTS
  Trades,          \* trades the buyer may place
  Merchants,
  Skus,
  UserCoupons,     \* coupons the buyer has claimed
  PaymentIds,      \* payment rows that may be inserted
  Buyers,          \* workers that run the buyer's requests
  TimeoutJobs,     \* workers that run cancel-expired-orders
  Channels,        \* payment channels that are enabled
  MerchantOf,      \* MerchantOf[s]: the merchant that sells s
  Wanted,          \* Wanted[t][s]: units of s that trade t buys
  MaxQuantity,     \* the most units of one SKU a trade may buy
  PayableAmount,   \* PayableAmount[t][m]: what the child order for m costs
  UserCouponID,    \* UserCouponID[t][m]: the coupon that child order uses
  IssuedBy,        \* IssuedBy[c]: the merchant whose coupon c is
  InitialStock,    \* InitialStock[s]: units of s before any trade
  MaxFaults,       \* bound on gateway failures and process crashes
  NoTrade, NoPayment, NoCoupon, NoOrder

Workers == Buyers \cup TimeoutJobs

\* A child order is identified by its trade and its merchant: the unique key
\* (trade_id, merchant_id), one group per merchant of the quote.
Orders ==
  {o \in Trades \X Merchants :
     \E s \in Skus : MerchantOf[s] = o[2] /\ Wanted[o[1]][s] > 0}

OrdersOf(t) == {o \in Orders : o[1] = t}

CouponOf(o) == UserCouponID[o[1]][o[2]]

ASSUME SkusAssumption ==
  /\ MaxQuantity \in Nat
  /\ MerchantOf \in [Skus -> Merchants]
  /\ Wanted \in [Trades -> [Skus -> 0..MaxQuantity]]
  /\ InitialStock \in [Skus -> Nat]

ASSUME MoneyAssumption ==
  /\ PayableAmount \in [Trades -> [Merchants -> Nat]]
  /\ Channels \subseteq {"alipay", "mock"}
  /\ MaxFaults \in Nat

\* A merchant group uses at most one coupon, and one of that merchant.
ASSUME CouponsAssumption ==
  /\ IsFiniteSet(UserCoupons)
  /\ IssuedBy \in [UserCoupons -> Merchants]
  /\ UserCouponID \in [Trades -> [Merchants -> UserCoupons \cup {NoCoupon}]]
  /\ \A t \in Trades, m \in Merchants :
       UserCouponID[t][m] # NoCoupon => IssuedBy[UserCouponID[t][m]] = m

ASSUME NothingAssumption ==
  /\ NoTrade \notin Trades
  /\ NoPayment \notin PaymentIds
  /\ NoCoupon \notin UserCoupons
  /\ NoOrder \notin Trades \X Merchants

\* A placed trade has goods, so it has child orders.
ASSUME TradesAssumption == \A t \in Trades : OrdersOf(t) # {}

-----------------------------------------------------------------------------

VARIABLES
  tradeStatus,   \* trades.status, "none" before the row exists
  orderStatus,   \* orders.status of every child order
  stock,         \* product_skus.stock
  coupon,        \* user_coupons: the order that uses it, NoOrder if unused
  usedQuantity,  \* coupons.used_quantity, one template per merchant
  payment,       \* payments rows
  provider,      \* the state of each payment at Alipay
  worker,        \* the requests in progress: program counter and locals
  faults         \* failures injected so far

saleRows == <<tradeStatus, orderStatus, payment>>
heldRows == <<stock, coupon, usedQuantity>>
vars == <<tradeStatus, orderStatus, stock, coupon, usedQuantity, payment,
          provider, worker, faults>>

TradeStates    == {"none", "pending", "paid", "closed"}
OrderStates    == {"none", "pending", "paid", "cancelled"}
PaymentStates  == {"none", "pending", "paid", "closed"}
ProviderStates == {"notExist", "waiting", "paid", "closed"}

Payments ==
  [status : PaymentStates, trade : Trades \cup {NoTrade},
   channel : Channels \cup {"none"}, active : BOOLEAN]

NoRow == [status |-> "none", trade |-> NoTrade, channel |-> "none",
          active |-> FALSE]

Steps == {"idle", "check", "findPaid", "repair", "list", "query", "close",
          "requery", "sync", "apply", "commit"}

\* trade: the trade being cancelled; pay: the payment in hand; todo: the
\* pending payments still to be settled with the provider; seen: what the
\* provider last answered.
Locals ==
  [pc : Steps, trade : Trades \cup {NoTrade},
   pay : PaymentIds \cup {NoPayment}, todo : SUBSET PaymentIds,
   seen : ProviderStates]

Idle == [pc |-> "idle", trade |-> NoTrade, pay |-> NoPayment, todo |-> {},
         seen |-> "notExist"]

Init ==
  /\ tradeStatus = [t \in Trades |-> "none"]
  /\ orderStatus = [o \in Orders |-> "none"]
  /\ stock = InitialStock
  /\ coupon = [c \in UserCoupons |-> NoOrder]
  /\ usedQuantity = [m \in Merchants |-> 0]
  /\ payment = [p \in PaymentIds |-> NoRow]
  /\ provider = [p \in PaymentIds |-> "notExist"]
  /\ worker = [w \in Workers |-> Idle]
  /\ faults = 0

-----------------------------------------------------------------------------
(***************************************************************************)
(* Repository operations, as functions of the rows they read or update.    *)
(***************************************************************************)

\* GREATEST(used_quantity + delta, 0)
IncrementCouponUsed(m, delta) ==
  IF usedQuantity[m] + delta > 0 THEN usedQuantity[m] + delta ELSE 0

MarkPaid(p) ==
  IF payment[p].status = "pending"
  THEN [payment EXCEPT ![p].status = "paid", ![p].active = FALSE]
  ELSE payment

MarkClosed(p) ==
  IF payment[p].status = "pending"
  THEN [payment EXCEPT ![p].status = "closed", ![p].active = FALSE]
  ELSE payment

FindPaidByTradeID(t) ==
  {p \in PaymentIds : payment[p].trade = t /\ payment[p].status = "paid"}

FindPendingByTradeID(t) ==
  {p \in PaymentIds : payment[p].trade = t /\ payment[p].status = "pending"}

\* Mutant: cancelling forgets the payments.
KeepPayments(t) == payment

ClosedRow(row) == [row EXCEPT !.status = "closed", !.active = FALSE]

ClosePendingPaymentsByTradeID(t) ==
  [p \in PaymentIds |->
     IF p \in FindPendingByTradeID(t) THEN ClosedRow(payment[p])
     ELSE payment[p]]

\* Mutant: only the first child order moves.
UpdateFirstOrderStatus(t, next) ==
  [orderStatus EXCEPT ![CHOOSE o \in OrdersOf(t) : TRUE] = next]

\* UpdateTradeOrdersStatus and CancelOrdersByTradeID: only pending children
\* move; the callers check that these are all the trade's orders.
UpdateTradeOrdersStatus(t, next) ==
  [o \in Orders |->
     IF o[1] = t /\ orderStatus[o] = "pending" THEN next ELSE orderStatus[o]]

AllOrdersPending(t) == \A o \in OrdersOf(t) : orderStatus[o] = "pending"

\* Mutant: the conditional update asks for stock > 0 only.
SomeStock(t) == \A s \in Skus : Wanted[t][s] > 0 => stock[s] > 0

\* The condition stock >= quantity of DecreaseSKUStock.
StockSuffices(t) == \A s \in Skus : Wanted[t][s] <= stock[s]

\* Mutant: one unit per line, whatever the quantity.
DecreaseOneEach(t) ==
  [s \in Skus |-> IF Wanted[t][s] > 0 THEN stock[s] - 1 ELSE stock[s]]

DecreaseSKUStock(t) == [s \in Skus |-> stock[s] - Wanted[t][s]]

IncreaseSKUStock(t) == [s \in Skus |-> stock[s] + Wanted[t][s]]

UseUserCoupons(t) ==
  [c \in UserCoupons |->
     IF UserCouponID[t][IssuedBy[c]] = c /\ <<t, IssuedBy[c]>> \in Orders
     THEN <<t, IssuedBy[c]>> ELSE coupon[c]]

\* Mutant: cancelling keeps the coupon used.
KeepCoupons(t) == coupon

ReleaseUserCoupons(t) ==
  [c \in UserCoupons |->
     IF UserCouponID[t][IssuedBy[c]] = c /\ <<t, IssuedBy[c]>> \in Orders
     THEN NoOrder ELSE coupon[c]]

CountCoupons(t, delta) ==
  [m \in Merchants |->
     IF <<t, m>> \in Orders /\ UserCouponID[t][m] # NoCoupon
     THEN IncrementCouponUsed(m, delta) ELSE usedQuantity[m]]

\* The amounts of a payment and of its allocations are copied from the trade
\* and its orders in the transaction that creates them and never change; what
\* the check can still refuse is an order that costs nothing.
ValidateTradePaymentAmounts(t) ==
  \A o \in OrdersOf(t) : PayableAmount[o[1]][o[2]] > 0

-----------------------------------------------------------------------------
(***************************************************************************)
(* Placing a trade: the transaction of tradeService.Create.                *)
(***************************************************************************)

\* One order per merchant, conditional decrease of each SKU, use of each
\* group's coupon; a failing part rolls the whole trade back.
CreateTrade(t) ==
  /\ tradeStatus[t] = "none"
  /\ StockSuffices(t)
  /\ \A o \in OrdersOf(t) :
       CouponOf(o) # NoCoupon => coupon[CouponOf(o)] = NoOrder
  /\ tradeStatus' = [tradeStatus EXCEPT ![t] = "pending"]
  /\ orderStatus' =
       [o \in Orders |-> IF o[1] = t THEN "pending" ELSE orderStatus[o]]
  /\ stock' = DecreaseSKUStock(t)
  /\ coupon' = UseUserCoupons(t)
  /\ usedQuantity' = CountCoupons(t, 1)
  /\ UNCHANGED <<payment, provider, worker, faults>>

-----------------------------------------------------------------------------
(***************************************************************************)
(* Payments.                                                               *)
(***************************************************************************)

\* Mutant: only a paid payment stands in the way of another one.
NoPaidPayment(t) == FindPaidByTradeID(t) = {}

\* A pending payment of the trade is reused, which changes no row, or refused;
\* the unique index on active_trade_id guards the insert too.
NoOpenPayment(t) ==
  /\ FindPendingByTradeID(t) = {}
  /\ \A p \in PaymentIds : ~(payment[p].active /\ payment[p].trade = t)

\* createTradePayment, under the trade's row lock, inserts the payment.
CreateTradePayment(t, p, ch) ==
  /\ payment[p].status = "none"
  /\ tradeStatus[t] = "pending"
  /\ FindPaidByTradeID(t) = {}
  /\ AllOrdersPending(t)
  /\ NoOpenPayment(t)
  /\ ValidateTradePaymentAmounts(t)
  /\ payment' = [payment EXCEPT ![p] =
       [status |-> "pending", trade |-> t, channel |-> ch, active |-> TRUE]]
  /\ UNCHANGED <<tradeStatus, orderStatus, heldRows, provider, worker, faults>>

\* Mutant: completes trades of a single order only, as before merchants split.
CanCompleteSingleOrder(p) ==
  /\ Cardinality(OrdersOf(payment[p].trade)) = 1
  /\ payment[p].status \in {"pending", "paid"}
  /\ tradeStatus[payment[p].trade] = "pending"

\* completePayment runs in a transaction that has locked payment p; when its
\* checks fail the transaction rolls back.
CanCompletePayment(p) ==
  LET t == payment[p].trade IN
  /\ payment[p].status \in {"pending", "paid"}
  /\ ValidateTradePaymentAmounts(t)
  /\ \/ tradeStatus[t] = "pending" /\ AllOrdersPending(t)
     \/ tradeStatus[t] = "paid"

CompletePayment(p) ==
  LET t == payment[p].trade IN
  /\ payment' = MarkPaid(p)
  /\ \/ /\ tradeStatus[t] = "pending"
        /\ tradeStatus' = [tradeStatus EXCEPT ![t] = "paid"]
        /\ orderStatus' = UpdateTradeOrdersStatus(t, "paid")
     \/ /\ tradeStatus[t] # "pending"
        /\ UNCHANGED <<tradeStatus, orderStatus>>

\* The transaction as a whole: completed, or rolled back.
CompleteOrRollback(p) ==
  IF CanCompletePayment(p) THEN CompletePayment(p) ELSE UNCHANGED saleRows

\* A notification that a payment succeeded.  Alipay repeats it until it is
\* acknowledged and may deliver it late or twice; a refused one changes
\* nothing.
AlipayNotify(p) ==
  /\ payment[p].channel = "alipay"
  /\ provider[p] = "paid"
  /\ CanCompletePayment(p)
  /\ CompletePayment(p)
  /\ UNCHANGED <<heldRows, provider, worker, faults>>

\* The development-only button of the mock channel.
MockComplete(p) ==
  /\ payment[p].channel = "mock"
  /\ payment[p].status = "pending"
  /\ CanCompletePayment(p)
  /\ CompletePayment(p)
  /\ UNCHANGED <<heldRows, provider, worker, faults>>

-----------------------------------------------------------------------------
(***************************************************************************)
(* The buyer and Alipay.                                                   *)
(***************************************************************************)

\* Alipay learns of a payment when the buyer opens its pay_url, which needs
\* no call of ours and can happen whatever the local row says by then.
OpenPayUrl(p) ==
  /\ payment[p].channel = "alipay"
  /\ provider[p] = "notExist"
  /\ provider' = [provider EXCEPT ![p] = "waiting"]
  /\ UNCHANGED <<saleRows, heldRows, worker, faults>>

BuyerPays(p) ==
  /\ provider[p] = "waiting"
  /\ provider' = [provider EXCEPT ![p] = "paid"]
  /\ UNCHANGED <<saleRows, heldRows, worker, faults>>

\* timeout_express passes at Alipay.
ProviderExpires(p) ==
  /\ provider[p] = "waiting"
  /\ provider' = [provider EXCEPT ![p] = "closed"]
  /\ UNCHANGED <<saleRows, heldRows, worker, faults>>

-----------------------------------------------------------------------------
(***************************************************************************)
(* Workers: tradeService.Cancel, run for a buyer's request or by the       *)
(* timeout job, and paymentService.Sync.                                   *)
(***************************************************************************)

Goto(w, locals) ==
  /\ worker' = [worker EXCEPT ![w] = locals]
  /\ UNCHANGED <<heldRows, faults>>

\* The transaction part of a step changes no row.
Reads == UNCHANGED <<saleRows, provider>>

\* Cancel reads the trade without a lock; any other status returns at once.
CancelStart(w, t) ==
  /\ worker[w].pc = "idle"
  /\ tradeStatus[t] = "pending"
  /\ Goto(w, [Idle EXCEPT !.pc = "check", !.trade = t])
  /\ Reads

\* PrepareUserTradeForCancel reads it again: closed goes straight on to the
\* cancelling transaction, paid is refused.
PrepareUserTradeForCancel(w) ==
  /\ worker[w].pc = "check"
  /\ LET t == worker[w].trade IN
     \/ /\ tradeStatus[t] = "pending"
        /\ Goto(w, [worker[w] EXCEPT !.pc = "findPaid"])
     \/ /\ tradeStatus[t] = "closed"
        /\ Goto(w, [worker[w] EXCEPT !.pc = "commit"])
     \/ /\ tradeStatus[t] = "paid"
        /\ Goto(w, Idle)
  /\ Reads

\* prepareTradeForTimeoutCancel looks for a paid payment to repair from...
FindPaidPayment(w) ==
  /\ worker[w].pc = "findPaid"
  /\ \/ \E p \in FindPaidByTradeID(worker[w].trade) :
          Goto(w, [worker[w] EXCEPT !.pc = "repair", !.pay = p])
     \/ /\ FindPaidByTradeID(worker[w].trade) = {}
        /\ Goto(w, [worker[w] EXCEPT !.pc = "list"])
  /\ Reads

\* ... repairs the trade from it, and the cancellation is refused ...
RepairOrderFromPaidPayment(w) ==
  /\ worker[w].pc = "repair"
  /\ CompleteOrRollback(worker[w].pay)
  /\ Goto(w, Idle)
  /\ UNCHANGED provider

\* The loop over pending payments: query the next one, or commit.
NextPayment(w, rest) ==
  [worker[w] EXCEPT !.pc = IF rest = {} THEN "commit" ELSE "query",
                    !.todo = rest, !.pay = NoPayment]

\* ... or lists the pending Alipay payments to settle with the provider.
ListPendingPayments(w) ==
  /\ worker[w].pc = "list"
  /\ Goto(w, NextPayment(w, {p \in FindPendingByTradeID(worker[w].trade) :
                                payment[p].channel = "alipay"}))
  /\ Reads

QueryPayment(w) ==
  /\ worker[w].pc = "query"
  /\ \E p \in worker[w].todo :
       \/ /\ provider[p] = "paid"
          /\ Goto(w, [worker[w] EXCEPT !.pc = "sync", !.pay = p])
       \/ /\ provider[p] = "closed"
          /\ Goto(w, NextPayment(w, worker[w].todo \ {p}))
       \/ /\ provider[p] \in {"waiting", "notExist"}
          /\ Goto(w, [worker[w] EXCEPT !.pc = "close", !.pay = p])
  /\ Reads

\* alipay.trade.close: TRADE_NOT_EXIST counts as closed; a trade that was
\* paid or closed meanwhile is refused and asked about again.
ClosePayment(w) ==
  /\ worker[w].pc = "close"
  /\ LET p == worker[w].pay IN
     \/ /\ provider[p] \in {"waiting", "notExist"}
        /\ provider' = [provider EXCEPT
             ![p] = IF @ = "waiting" THEN "closed" ELSE @]
        /\ Goto(w, NextPayment(w, worker[w].todo \ {p}))
     \/ /\ provider[p] \in {"paid", "closed"}
        /\ UNCHANGED provider
        /\ Goto(w, [worker[w] EXCEPT !.pc = "requery"])
  /\ UNCHANGED saleRows

RequeryPayment(w) ==
  /\ worker[w].pc = "requery"
  /\ LET p == worker[w].pay IN
     \/ /\ provider[p] = "paid"
        /\ Goto(w, [worker[w] EXCEPT !.pc = "sync"])
     \/ /\ provider[p] = "closed"
        /\ Goto(w, NextPayment(w, worker[w].todo \ {p}))
     \/ /\ provider[p] \in {"waiting", "notExist"}
        /\ Goto(w, Idle)
  /\ Reads

\* Sync of a pending Alipay payment by the buyer.
SyncStart(w, p) ==
  /\ worker[w].pc = "idle"
  /\ payment[p].channel = "alipay"
  /\ payment[p].status = "pending"
  /\ Goto(w, [Idle EXCEPT !.pc = "sync", !.pay = p])
  /\ Reads

\* Mutant: a trade Alipay does not know yet counts as closed.
FinalOrUnknownStates == {"paid", "closed", "notExist"}

\* The answers that change our row.
FinalProviderStates == {"paid", "closed"}

\* syncAlipayPayment queries the provider; waiting and unknown trades leave
\* the payment as it is.
SyncQuery(w) ==
  /\ worker[w].pc = "sync"
  /\ LET p == worker[w].pay IN
     \/ /\ provider[p] \in FinalProviderStates
        /\ Goto(w, [worker[w] EXCEPT !.pc = "apply", !.seen = provider[p]])
     \/ /\ provider[p] \notin FinalProviderStates
        /\ Goto(w, Idle)
  /\ Reads

\* What it answered is then applied to the row as it is by now.  A sync that
\* a cancellation ran ends the cancellation: the trade is paid, or an error.
SyncApply(w) ==
  /\ worker[w].pc = "apply"
  /\ LET p == worker[w].pay IN
     \/ worker[w].seen = "paid" /\ CompleteOrRollback(p)
     \/ /\ worker[w].seen # "paid"
        /\ payment' = MarkClosed(p)
        /\ UNCHANGED <<tradeStatus, orderStatus>>
  /\ Goto(w, Idle)
  /\ UNCHANGED provider

\* Mutant: a second cancellation or one after payment is not noticed.
CanCancelAnyway(t) ==
  \A o \in OrdersOf(t) : CouponOf(o) # NoCoupon => coupon[CouponOf(o)] = o

\* Mutant: a trade with a pending payment waits for the payment to go away.
CanCancelUnlessPaying(t) ==
  /\ tradeStatus[t] = "pending"
  /\ FindPendingByTradeID(t) = {}

\* The checks of the cancelling transaction, under the trade's row lock.  The
\* conditional update of ReleaseUserCoupon must find the coupon used by this
\* very order.
CanCancel(t) ==
  /\ tradeStatus[t] = "pending"
  /\ AllOrdersPending(t)
  /\ \A o \in OrdersOf(t) :
       CouponOf(o) # NoCoupon => coupon[CouponOf(o)] = o

CancelTrade(t) ==
  /\ payment' = ClosePendingPaymentsByTradeID(t)
  /\ tradeStatus' = [tradeStatus EXCEPT ![t] = "closed"]
  /\ orderStatus' = UpdateTradeOrdersStatus(t, "cancelled")
  /\ stock' = IncreaseSKUStock(t)
  /\ coupon' = ReleaseUserCoupons(t)
  /\ usedQuantity' = CountCoupons(t, -1)

CommitCancel(w) ==
  /\ worker[w].pc = "commit"
  /\ IF CanCancel(worker[w].trade)
     THEN CancelTrade(worker[w].trade)
     ELSE UNCHANGED <<saleRows, heldRows>>
  /\ worker' = [worker EXCEPT ![w] = Idle]
  /\ UNCHANGED <<provider, faults>>

-----------------------------------------------------------------------------
(***************************************************************************)
(* Failures.                                                               *)
(***************************************************************************)

Fault == faults < MaxFaults /\ faults' = faults + 1

\* A query fails: the request ends with an error.
QueryFails(w) ==
  /\ Fault
  /\ worker[w].pc \in {"query", "requery", "sync"}
  /\ worker' = [worker EXCEPT ![w] = Idle]
  /\ UNCHANGED <<saleRows, heldRows, provider>>

\* A close call fails, before or after Alipay has executed it.
CloseFails(w) ==
  /\ Fault
  /\ worker[w].pc = "close"
  /\ \/ UNCHANGED provider
     \/ /\ provider[worker[w].pay] = "waiting"
        /\ provider' = [provider EXCEPT ![worker[w].pay] = "closed"]
  /\ worker' = [worker EXCEPT ![w].pc = "requery"]
  /\ UNCHANGED <<saleRows, heldRows>>

\* The process dies between two steps; its database transaction, if it was in
\* one, has been rolled back.  A request whose transaction InnoDB aborts to
\* break a deadlock ends like this too.
Crash(w) ==
  /\ Fault
  /\ worker[w].pc # "idle"
  /\ worker' = [worker EXCEPT ![w] = Idle]
  /\ UNCHANGED <<saleRows, heldRows, provider>>

-----------------------------------------------------------------------------

\* What a worker does next by itself once it has started.
Proceed(w) ==
  \/ PrepareUserTradeForCancel(w)
  \/ FindPaidPayment(w)
  \/ RepairOrderFromPaidPayment(w)
  \/ ListPendingPayments(w)
  \/ QueryPayment(w)
  \/ ClosePayment(w)
  \/ RequeryPayment(w)
  \/ SyncQuery(w)
  \/ SyncApply(w)
  \/ CommitCancel(w)

Fails(w) == QueryFails(w) \/ CloseFails(w) \/ Crash(w)

Next ==
  \/ \E t \in Trades : CreateTrade(t)
  \/ \E t \in Trades, p \in PaymentIds, ch \in Channels :
       CreateTradePayment(t, p, ch)
  \/ \E p \in PaymentIds : AlipayNotify(p) \/ MockComplete(p)
  \/ \E p \in PaymentIds :
       OpenPayUrl(p) \/ BuyerPays(p) \/ ProviderExpires(p)
  \/ \E w \in Workers, t \in Trades : CancelStart(w, t)
  \/ \E w \in Buyers, p \in PaymentIds : SyncStart(w, p)
  \/ \E w \in Workers : Proceed(w) \/ Fails(w)

Spec == Init /\ [][Next]_vars

\* A started request runs on; systemd restarts the timeout job every minute
\* and it takes up every expired trade it finds; Alipay repeats a success
\* notification until it is acknowledged.
Fairness ==
  /\ \A w \in Workers : WF_vars(Proceed(w))
  /\ \A w \in TimeoutJobs : WF_vars(\E t \in Trades : CancelStart(w, t))
  /\ \A p \in PaymentIds : WF_vars(AlipayNotify(p))

FairSpec == Spec /\ Fairness

-----------------------------------------------------------------------------
(***************************************************************************)
(* Properties.                                                             *)
(***************************************************************************)

\* Every row and every request in progress has the shape its table or its
\* handler gives it; a row exists with its trade or not at all.
TypeOK ==
  /\ tradeStatus \in [Trades -> TradeStates]
  /\ orderStatus \in [Orders -> OrderStates]
  /\ stock \in [Skus -> Nat]
  /\ coupon \in [UserCoupons -> Orders \cup {NoOrder}]
  /\ usedQuantity \in [Merchants -> Nat]
  /\ payment \in [PaymentIds -> Payments]
  /\ provider \in [PaymentIds -> ProviderStates]
  /\ worker \in [Workers -> Locals]
  /\ faults \in 0..MaxFaults

OrderStatusOf(ts) == IF ts = "closed" THEN "cancelled" ELSE ts

\* A trade is paid or cancelled as a whole: whatever notifications, syncs and
\* cancellations interleave, no child order is ever left behind in another
\* status than its trade's (payment_service.go completePayment,
\* trade_service.go Cancel).
TradeMovesWhole ==
  \A o \in Orders : orderStatus[o] = OrderStatusOf(tradeStatus[o[1]])

\* A trade is paid exactly when one payment of it is, and no payment of a
\* settled trade can still be paid: cancelling closes the pending payment,
\* paying uses it up, and the active_trade_id slot is free again.
PaymentSettlesTrade ==
  \A t \in Trades :
    /\ tradeStatus[t] = "paid" <=> FindPaidByTradeID(t) # {}
    /\ \A p, q \in FindPaidByTradeID(t) : p = q
    /\ tradeStatus[t] # "pending" =>
         \A p \in PaymentIds :
           payment[p].trade = t =>
             payment[p].status # "pending" /\ ~payment[p].active

\* Trade, child orders and payments are settled together and once, whichever
\* of notification, sync, mock completion and cancellation comes first.
TradeSettledWhole == TradeMovesWhole /\ PaymentSettlesTrade

\* The buyer is never charged twice for one trade: at most one of its
\* payments has taken money, at Alipay or through the mock channel, even when
\* a payment was closed and another one opened.
NoDoubleCharge ==
  \A p, q \in PaymentIds :
    LET Charged(x) == \/ provider[x] = "paid"
                      \/ payment[x].channel = "mock" /\ payment[x].status = "paid"
    IN  /\ Charged(p) /\ Charged(q)
        /\ payment[p].trade = payment[q].trade
        => p = q

Holds(t) == tradeStatus[t] \in {"pending", "paid"}

\* The units of s that placed trades hold: one element per unit.
UnitsHeld(s) ==
  {u \in Trades \X (1..MaxQuantity) : Holds(u[1]) /\ u[2] <= Wanted[u[1]][s]}

\* No unit is lost and none is restored twice: what is on the shelf and what
\* placed trades hold is what there was, however often a cancellation is
\* repeated or races the payment.
StockConserved ==
  \A s \in Skus : stock[s] + Cardinality(UnitsHeld(s)) = InitialStock[s]

CouponsInUse(m) ==
  {c \in UserCoupons : IssuedBy[c] = m /\ coupon[c] # NoOrder}

\* A coupon is used by at most one live order, the one that named it; a
\* merchant's used_quantity counts exactly its used coupons, so the clamp at
\* zero in IncrementCouponUsed never hides a double release.
CouponsExact ==
  /\ \A c \in UserCoupons : coupon[c] # NoOrder =>
       /\ coupon[c] \in Orders
       /\ CouponOf(coupon[c]) = c
       /\ Holds(coupon[c][1])
  /\ \A o \in Orders : Holds(o[1]) /\ CouponOf(o) # NoCoupon =>
       coupon[CouponOf(o)] = o
  /\ \A m \in Merchants : usedQuantity[m] = Cardinality(CouponsInUse(m))

\* Units and coupons together: what a trade holds is held once and given back
\* once, even when the buyer and the timeout job cancel it at the same time.
HoldingsExact == StockConserved /\ CouponsExact

\* Paid and closed are final for a trade, and so is a paid payment: a late or
\* repeated notification, a stale sync or a second cancellation changes
\* nothing.
SettledStays ==
  [][/\ \A t \in Trades : tradeStatus[t] \in {"paid", "closed"} =>
          tradeStatus'[t] = tradeStatus[t]
     /\ \A p \in PaymentIds : payment[p].status \in {"paid", "closed"} =>
          payment'[p] = payment[p]]_vars

\* While a trade is pending, the provider and our payment row can disagree in
\* one direction only: a row is closed only if the provider has closed it, so
\* money that arrives for a pending trade can always be booked.
ClosedHereClosedThere ==
  \A p \in PaymentIds :
    /\ payment[p].channel = "alipay"
    /\ payment[p].status = "closed"
    /\ tradeStatus[payment[p].trade] # "closed"
    => provider[p] = "closed"

\* What Alipay has taken and what the payment rows say fit together while the
\* trade lives: no second charge, and no row closed that can still be paid.
MoneyTakenOnce == NoDoubleCharge /\ ClosedHereClosedThere

\* The cancel-expired-orders job settles every trade the buyer walked away
\* from, so its stock does not stay reserved for ever.
PendingTradeResolved ==
  \A t \in Trades : tradeStatus[t] = "pending" ~> tradeStatus[t] # "pending"

\* Money Alipay has taken is booked, unless the trade was closed before.
CollectedMoneyBooked ==
  \A p \in PaymentIds :
    provider[p] = "paid" ~>
      \/ payment[p].status = "paid"
      \/ \E t \in Trades : payment[p].trade = t /\ tradeStatus[t] = "closed"

\* Nothing is left hanging: an abandoned trade is settled by the job, and what
\* Alipay has collected reaches the books, whatever calls fail or come late.
TradesAndMoneySettled == PendingTradeResolved /\ CollectedMoneyBooked

\* README.md:397 says of the cancellation that it closes the unpaid Alipay
\* trade first and takes no risk: no cancelled trade is one Alipay has
\* collected the money for.
NoMoneyForCancelledTrade ==
  \A p \in PaymentIds :
    ~(provider[p] = "paid" /\ tradeStatus[payment[p].trade] = "closed")

\* The trade as the buyer's stock reservation, ignoring everything else.
SaleOf(ts) == CASE ts = "none"    -> "absent"
                [] ts = "pending" -> "reserved"
                [] ts = "paid"    -> "sold"
                [] ts = "closed"  -> "released"

S == INSTANCE Sale WITH sale <- [t \in Trades |-> SaleOf(tradeStatus[t])]

\* Whatever the payments do, the shelf sees each trade reserve all its goods
\* at once and then be sold or released once.
ImplementsSale == S!SaleSpec

=============================================================================
