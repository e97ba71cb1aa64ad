---------------------------- MODULE LegacyOrder ----------------------------
(***************************************************************************)
(* Orders from before there were trades: how they are paid, cancelled,     *)
(* shipped and completed, and how the backfill gives each of them a trade  *)
(* of its own, after which they are handled as trades.  The rows of orders *)
(* with and without a trade lie side by side while the backfill is not     *)
(* finished, and every operation must find out which kind it has before it.*)
(***************************************************************************)
EXTENDS Integers, FiniteSets, FiniteSetsExt

CONSTANTS
  LastOrder,     \* orders are numbered in the order of their creation
  LastPayment,   \* and so are payments
  Buyers,        \* workers that run the buyer's requests
  TimeoutJobs,   \* workers that run cancel-expired-orders
  Channels,
  Quantity,      \* Quantity[o]: units of the SKU that o holds
  WithCoupon,    \* orders placed with a coupon
  Abandoned,     \* orders whose buyer never comes back
  RefundedPart,  \* orders refunded in part before the backfill
  OldPayment,    \* OldPayment[o]: the payment of a refunded order
  CancelBatch,   \* order.cancel_batch_size
  BackfillBatch, \* orders per backfill transaction
  MaxFaults,
  NoPayment, NoOrder

Orders == 1..LastOrder

PaymentIds == 1..LastPayment

Workers == Buyers \cup TimeoutJobs

ASSUME LegacyAssumption ==
  /\ LastOrder \in Nat /\ LastPayment \in Nat
  /\ Quantity \in [Orders -> Nat]
  /\ WithCoupon \subseteq Orders /\ Abandoned \subseteq Orders
  /\ RefundedPart \subseteq Orders
  /\ OldPayment \in [RefundedPart -> PaymentIds]
  /\ \A o, q \in RefundedPart : OldPayment[o] = OldPayment[q] => o = q
  /\ Channels \subseteq {"alipay", "mock"}
  /\ CancelBatch \in Nat \ {0} /\ BackfillBatch \in Nat \ {0}
  /\ MaxFaults \in Nat
  /\ NoPayment \notin PaymentIds /\ NoOrder \notin Orders

-----------------------------------------------------------------------------

VARIABLES
  order,        \* orders.status
  trade,        \* the status of the order's own trade, "none" before it has one
  shipment,     \* shipments: none, sent, or received
  returned,     \* units put back into product_skus.stock
  coupon,       \* who uses the coupon of an order: it, a later order, nobody
  usedQuantity, \* coupons.used_quantity, all of one merchant coupon
  payment,      \* payments rows
  refund,       \* the refunds rows of an order: none, or linked or not
  provider,     \* the state of each payment at Alipay
  worker,       \* the requests and jobs in progress
  backfill,     \* what the backfill command is about, and what it reported
  faults

rows == <<order, trade, shipment, returned, coupon, usedQuantity, payment,
          refund>>
vars == <<rows, provider, worker, backfill, faults>>

OrderStates == {"pending", "paid", "shipped", "completed", "cancelled"}
TradeStates == {"none", "pending", "paid", "closed", "partiallyRefunded",
                "refunded"}
PaymentStates == {"none", "pending", "paid", "closed", "partiallyRefunded",
                  "refunded"}
ProviderStates == {"notExist", "waiting", "paid", "closed"}

\* order_id, trade_id, the two unique keys that hold a place for one pending
\* payment, and the row in payment_allocations: none, or whether something of it
\* has been refunded.
Payments ==
  [status : PaymentStates, of : Orders \cup {NoOrder},
   channel : {"alipay", "mock", "none"}, orderID : BOOLEAN, tradeID : BOOLEAN,
   activeOrder : BOOLEAN, activeTrade : BOOLEAN,
   allocation : {"none", "whole", "refunded"}]

NoRow ==
  [status |-> "none", of |-> NoOrder, channel |-> "none", orderID |-> FALSE,
   tradeID |-> FALSE, activeOrder |-> FALSE, activeTrade |-> FALSE,
   allocation |-> "none"]

OldRow(o) ==
  [NoRow EXCEPT !.status = "partiallyRefunded", !.of = o, !.channel = "alipay",
                !.orderID = TRUE]

Steps == {"idle", "check", "repair", "list", "query", "close",
          "requery", "sync", "apply", "commit"}

\* route: whether the order is cancelled by itself or through its trade;
\* orders, trades: what a job has listed and not yet got to.
Locals ==
  [pc : Steps, route : {"order", "trade"}, order : Orders \cup {NoOrder},
   pay : PaymentIds \cup {NoPayment}, todo : SUBSET PaymentIds,
   seen : ProviderStates, orders : SUBSET Orders, trades : SUBSET Orders]

Idle ==
  [pc |-> "idle", route |-> "order", order |-> NoOrder, pay |-> NoPayment,
   todo |-> {}, seen |-> "notExist", orders |-> {}, trades |-> {}]

Init ==
  /\ order = [o \in Orders |->
                IF o \in RefundedPart THEN "completed" ELSE "pending"]
  /\ trade = [o \in Orders |-> "none"]
  /\ shipment = [o \in Orders |->
                   IF o \in RefundedPart THEN "received" ELSE "none"]
  /\ returned = 0
  /\ coupon = [o \in WithCoupon |-> "here"]
  /\ usedQuantity = Cardinality(WithCoupon)
  /\ payment = [p \in PaymentIds |->
                  IF \E o \in RefundedPart : OldPayment[o] = p
                  THEN OldRow(CHOOSE o \in RefundedPart : OldPayment[o] = p)
                  ELSE NoRow]
  /\ refund = [o \in Orders |->
                 IF o \in RefundedPart THEN "unlinked" ELSE "none"]
  /\ provider = [p \in PaymentIds |->
                   IF \E o \in RefundedPart : OldPayment[o] = p
                   THEN "paid" ELSE "notExist"]
  /\ worker = [w \in Workers |-> Idle]
  /\ backfill = [pc |-> "idle", report |-> "none"]
  /\ faults = 0

-----------------------------------------------------------------------------
(***************************************************************************)
(* Repository operations.                                                  *)
(***************************************************************************)

Linked(o) == trade[o] # "none"

FindByOrderID(o, status) ==
  {p \in PaymentIds : /\ payment[p].of = o
                      /\ payment[p].orderID
                      /\ payment[p].status = status}

FindByTradeID(o, status) ==
  {p \in PaymentIds : /\ payment[p].of = o
                      /\ payment[p].tradeID
                      /\ payment[p].status = status}

Find(route, o, status) ==
  IF route = "order" THEN FindByOrderID(o, status) ELSE FindByTradeID(o, status)

Refunded == {"partiallyRefunded", "refunded"}

\* A trade that has been refunded has been paid too.
FindPaid(route, o) ==
  Find(route, o, "paid") \cup
  (IF route = "trade" THEN UNION {FindByTradeID(o, st) : st \in Refunded} ELSE {})

\* The conditional update of one row of a table of statuses.
Moved(status, o, from, to) ==
  [status EXCEPT ![o] = IF @ = from THEN to ELSE @]

UpdateOrderStatus(o, from, to) == Moved(order, o, from, to)

UpdateTradeStatus(o, from, to) == Moved(trade, o, from, to)

MarkOrderCancelled(o) == Moved(order, o, "pending", "cancelled")

MarkShipped(o) == Moved(order, o, "paid", "shipped")

CreateShipment(o) == Moved(shipment, o, "none", "sent")

RestoreSKUStock(o) == returned + Quantity[o]

\* The conditional updates of one payment.
Settle(p, status) ==
  IF payment[p].status = "pending"
  THEN [payment EXCEPT ![p].status = status, ![p].activeOrder = FALSE,
                       ![p].activeTrade = FALSE]
  ELSE payment

MarkPaid(p) == Settle(p, "paid")

MarkClosed(p) == Settle(p, "closed")

ClosePendingByOrderID(o) ==
  [p \in PaymentIds |->
     IF p \in FindByOrderID(o, "pending")
     THEN [payment[p] EXCEPT !.status = "closed", !.activeOrder = FALSE]
     ELSE payment[p]]

CancelOrdersByTradeID(o) == Moved(order, o, "pending", "cancelled")

CloseTrade(o) == Moved(trade, o, "pending", "closed")

ClosePendingByTradeID(o) ==
  [p \in PaymentIds |->
     IF p \in FindByTradeID(o, "pending")
     THEN [payment[p] EXCEPT !.status = "closed", !.activeOrder = FALSE,
                             !.activeTrade = FALSE]
     ELSE payment[p]]

IncrementCouponUsed(delta) ==
  IF usedQuantity + delta > 0 THEN usedQuantity + delta ELSE 0

\* The application and its jobs write nothing while the backfill runs.
Open == backfill.pc = "idle"

-----------------------------------------------------------------------------
(***************************************************************************)
(* Payments.                                                               *)
(***************************************************************************)

Insert(p, row) ==
  /\ payment[p].status = "none"
  /\ \A q \in PaymentIds : q < p => payment[q].status # "none"
  /\ payment' = [payment EXCEPT ![p] = row]

\* No pending payment to return, none in another channel, none on the index.
NothingPending(route, o) ==
  /\ Find(route, o, "pending") = {}
  /\ \A p \in PaymentIds : payment[p].of = o =>
       ~(IF route = "order" THEN payment[p].activeOrder ELSE payment[p].activeTrade)

\* Under the order's lock.
CreateLegacyOrderPayment(o, p, ch) ==
  /\ Open
  /\ ~Linked(o)
  /\ order[o] = "pending"
  /\ FindPaid("order", o) = {}
  /\ NothingPending("order", o)
  /\ Insert(p, [NoRow EXCEPT !.status = "pending", !.of = o, !.channel = ch,
                             !.orderID = TRUE, !.activeOrder = TRUE])
  /\ UNCHANGED <<order, trade, shipment, returned, coupon, usedQuantity, refund,
                 provider, worker, backfill, faults>>

\* An order with a trade of its own is paid through it.
CreateTradePayment(o, p, ch) ==
  /\ Open
  /\ trade[o] = "pending"
  /\ order[o] = "pending"
  /\ FindPaid("trade", o) = {}
  /\ NothingPending("trade", o)
  /\ Insert(p, [NoRow EXCEPT !.status = "pending", !.of = o, !.channel = ch,
                             !.tradeID = TRUE, !.activeTrade = TRUE,
                             !.allocation = "whole"])
  /\ UNCHANGED <<order, trade, shipment, returned, coupon, usedQuantity, refund,
                 provider, worker, backfill, faults>>

\* The request names the order, or the trade of the order.
CreatePayment(o, p, ch) ==
  CreateLegacyOrderPayment(o, p, ch) \/ CreateTradePayment(o, p, ch)

\* completePayment, in a transaction that has locked the payment.
CanCompletePayment(p) ==
  LET o == payment[p].of IN
  /\ payment[p].status \in {"pending", "paid"} \cup Refunded
  /\ IF payment[p].tradeID
     THEN /\ payment[p].allocation # "none"
          /\ \/ trade[o] = "pending" /\ order[o] = "pending"
             \/ trade[o] \in {"paid"} \cup Refunded
     ELSE order[o] \in {"pending", "paid"}

CompletePayment(p) ==
  LET o == payment[p].of IN
  /\ payment' = MarkPaid(p)
  /\ order' = UpdateOrderStatus(o, "pending", "paid")
  /\ trade' = UpdateTradeStatus(o, "pending", "paid")

CompleteOrRollback(p) ==
  IF CanCompletePayment(p) THEN CompletePayment(p)
  ELSE UNCHANGED <<payment, order, trade>>

AlipayNotify(p) ==
  /\ Open
  /\ payment[p].channel = "alipay"
  /\ provider[p] = "paid"
  /\ CanCompletePayment(p)
  /\ CompletePayment(p)
  /\ UNCHANGED <<shipment, returned, coupon, usedQuantity, refund, provider,
                 worker, backfill, faults>>

MockComplete(p) ==
  /\ Open
  /\ payment[p].channel = "mock"
  /\ payment[p].status = "pending"
  /\ CanCompletePayment(p)
  /\ CompletePayment(p)
  /\ UNCHANGED <<shipment, returned, coupon, usedQuantity, refund, provider,
                 worker, backfill, faults>>

\* Mutant: looks at the payments, not at the order.
PayWhateverStatus(o) == ~Linked(o) /\ FindPaid("order", o) = {}

CanMockPay(o) ==
  /\ ~Linked(o)
  /\ order[o] = "pending"
  /\ FindPaid("order", o) = {}

\* The old button: pays the pending mock payment, or inserts a paid one.
MockPayOrder(o, p) ==
  /\ Open
  /\ "mock" \in Channels
  /\ CanMockPay(o)
  /\ \/ /\ FindByOrderID(o, "pending") = {p}
        /\ payment[p].channel = "mock"
        /\ payment' = MarkPaid(p)
     \/ /\ FindByOrderID(o, "pending") = {}
        /\ Insert(p, [NoRow EXCEPT !.status = "paid", !.of = o,
                                   !.channel = "mock", !.orderID = TRUE])
  /\ order' = UpdateOrderStatus(o, "pending", "paid")
  /\ UNCHANGED <<trade, shipment, returned, coupon, usedQuantity, refund,
                 provider, worker, backfill, faults>>

-----------------------------------------------------------------------------
(***************************************************************************)
(* Alipay, and the coupon's next user.                                     *)
(***************************************************************************)

ProviderMoves(p, from, to) ==
  /\ payment[p].channel = "alipay"
  /\ provider[p] = from
  /\ provider' = [provider EXCEPT ![p] = to]
  /\ UNCHANGED <<rows, worker, backfill, faults>>

AlipayStep(p) ==
  \/ ProviderMoves(p, "notExist", "waiting")
  \/ ProviderMoves(p, "waiting", "paid")
  \/ ProviderMoves(p, "waiting", "closed")

\* A released coupon is used for an order placed later.
UseCouponElsewhere(o) ==
  /\ Open
  /\ coupon[o] = "unused"
  /\ coupon' = [coupon EXCEPT ![o] = "elsewhere"]
  /\ usedQuantity' = IncrementCouponUsed(1)
  /\ UNCHANGED <<order, trade, shipment, returned, payment, refund, provider,
                 worker, backfill, faults>>

-----------------------------------------------------------------------------
(***************************************************************************)
(* Cancelling.                                                             *)
(***************************************************************************)

Goto(w, locals) ==
  /\ Open
  /\ worker' = [worker EXCEPT ![w] = locals]
  /\ UNCHANGED <<shipment, returned, coupon, usedQuantity, refund, backfill,
                 faults>>

Reads == UNCHANGED <<order, trade, payment, provider>>

\* A job goes on with the next listed order, then with the next trade; the
\* buyer's request is answered.
NextListed(w) ==
  LET orders == worker[w].orders
      trades == worker[w].trades
      Take(route, o) ==
        [Idle EXCEPT !.pc = "check", !.route = route, !.order = o,
                     !.orders = orders \ (IF route = "order" THEN {o} ELSE {}),
                     !.trades = trades \ (IF route = "trade" THEN {o} ELSE {})]
  IN  CASE orders # {} -> Take("order", Min(orders))
        [] orders = {} /\ trades # {} -> Take("trade", Min(trades))
        [] OTHER -> Idle

\* ResolveOrderTrade decides how the buyer's cancellation runs.
CancelStart(w, o) ==
  /\ worker[w].pc = "idle"
  /\ Goto(w, [Idle EXCEPT !.pc = "check", !.order = o,
                          !.route = IF Linked(o) THEN "trade" ELSE "order"])
  /\ Reads

\* Mutant: the query does not ask for the status, so that orders that need no
\* cancelling fill the batch.
AnyUnlinkedOrders == {o \in Orders : ~Linked(o)}

ExpiredPendingOrders == {o \in Orders : ~Linked(o) /\ order[o] = "pending"}

ExpiredPendingTrades == {o \in Orders : trade[o] = "pending"}

Oldest(set, limit) ==
  {o \in set : Cardinality({q \in set : q < o}) < limit}

\* Both lists are read at the start of the run.
JobStart(w) ==
  /\ worker[w].pc = "idle"
  /\ LET orders == Oldest(ExpiredPendingOrders, CancelBatch)
         trades == Oldest(ExpiredPendingTrades, CancelBatch)
     IN  /\ orders \cup trades # {}
         /\ Open
         /\ worker' = [worker EXCEPT ![w] =
              CASE orders # {} ->
                     [Idle EXCEPT !.pc = "check", !.order = Min(orders),
                                  !.orders = orders \ {Min(orders)},
                                  !.trades = trades]
                [] OTHER ->
                     [Idle EXCEPT !.pc = "check", !.route = "trade",
                                  !.order = Min(trades),
                                  !.trades = trades \ {Min(trades)}]]
  /\ UNCHANGED <<rows, provider, backfill, faults>>

\* What tradeService.Cancel and PrepareUserOrderForCancel ask first, and a job
\* does not ask of an order.
StillPending(w) ==
  LET o == worker[w].order IN
  CASE worker[w].route = "trade" -> trade[o] = "pending"
    [] worker[w].route = "order" /\ w \in Buyers -> order[o] = "pending"
    [] OTHER -> TRUE

\* A payment already booked is looked for next.
CheckPending(w) ==
  /\ worker[w].pc = "check"
  /\ LET paid == FindPaid(worker[w].route, worker[w].order) IN
     Goto(w, CASE ~StillPending(w) -> NextListed(w)
               [] StillPending(w) /\ paid # {} ->
                    [worker[w] EXCEPT !.pc = "repair", !.pay = Max(paid)]
               [] OTHER -> [worker[w] EXCEPT !.pc = "list"])
  /\ Reads

RepairOrderFromPaidPayment(w) ==
  /\ worker[w].pc = "repair"
  /\ CompleteOrRollback(worker[w].pay)
  /\ Goto(w, NextListed(w))
  /\ UNCHANGED provider

NextPayment(w, rest) ==
  [worker[w] EXCEPT !.pc = IF rest = {} THEN "commit" ELSE "query",
                    !.todo = rest, !.pay = NoPayment]

ListPendingPayments(w) ==
  /\ worker[w].pc = "list"
  /\ Goto(w, NextPayment(w, {p \in Find(worker[w].route, worker[w].order, "pending") :
                                payment[p].channel = "alipay"}))
  /\ Reads

QueryPayment(w) ==
  /\ worker[w].pc = "query"
  /\ \E p \in worker[w].todo :
       Goto(w, CASE provider[p] = "paid" ->
                      [worker[w] EXCEPT !.pc = "sync", !.pay = p]
                 [] provider[p] = "closed" ->
                      NextPayment(w, worker[w].todo \ {p})
                 [] OTHER -> [worker[w] EXCEPT !.pc = "close", !.pay = p])
  /\ Reads

ClosePayment(w) ==
  /\ worker[w].pc = "close"
  /\ LET p == worker[w].pay IN
     \/ /\ provider[p] \in {"waiting", "notExist"}
        /\ provider' = [provider EXCEPT
             ![p] = IF @ = "waiting" THEN "closed" ELSE @]
        /\ Goto(w, NextPayment(w, worker[w].todo \ {p}))
     \/ /\ provider[p] \in {"paid", "closed"}
        /\ Goto(w, [worker[w] EXCEPT !.pc = "requery"])
        /\ UNCHANGED provider
  /\ UNCHANGED <<order, trade, payment>>

RequeryPayment(w) ==
  /\ worker[w].pc = "requery"
  /\ LET p == worker[w].pay IN
     Goto(w, CASE provider[p] = "paid" -> [worker[w] EXCEPT !.pc = "sync"]
               [] provider[p] = "closed" -> NextPayment(w, worker[w].todo \ {p})
               [] OTHER -> NextListed(w))
  /\ Reads

SyncStart(w, p) ==
  /\ worker[w].pc = "idle"
  /\ payment[p].channel = "alipay"
  /\ payment[p].status = "pending"
  /\ Goto(w, [Idle EXCEPT !.pc = "sync", !.pay = p])
  /\ Reads

SyncQuery(w) ==
  /\ worker[w].pc = "sync"
  /\ LET p == worker[w].pay IN
     Goto(w, IF provider[p] \in {"paid", "closed"}
             THEN [worker[w] EXCEPT !.pc = "apply", !.seen = provider[p]]
             ELSE NextListed(w))
  /\ Reads

SyncApply(w) ==
  /\ worker[w].pc = "apply"
  /\ LET p == worker[w].pay IN
     \/ worker[w].seen = "paid" /\ CompleteOrRollback(p)
     \/ /\ worker[w].seen # "paid"
        /\ payment' = MarkClosed(p)
        /\ UNCHANGED <<order, trade>>
  /\ Goto(w, NextListed(w))
  /\ UNCHANGED provider

\* Mutant: what was read before the transaction is believed.
CanCancelWhatWasRead(w) == TRUE

\* Only the buyer's transaction about an order without a trade does not ask
\* whether the coupon is still used for this order.
CanCancel(w) ==
  LET o == worker[w].order IN
  /\ order[o] = "pending"
  /\ worker[w].route = "trade" => trade[o] = "pending"
  /\ o \in WithCoupon /\ (worker[w].route = "trade" \/ w \in TimeoutJobs) =>
       coupon[o] = "here"

ReleaseUserCoupon(o) ==
  IF o \in WithCoupon
  THEN /\ coupon' = [coupon EXCEPT ![o] = IF @ = "here" THEN "unused" ELSE @]
       /\ usedQuantity' = IncrementCouponUsed(-1)
  ELSE UNCHANGED <<coupon, usedQuantity>>

\* The cancelling transactions: orderService.Cancel, cancelOne and
\* tradeService.Cancel.
CancelOrder(o, route) ==
  /\ returned' = RestoreSKUStock(o)
  /\ ReleaseUserCoupon(o)
  /\ IF route = "trade"
     THEN /\ order' = CancelOrdersByTradeID(o)
          /\ trade' = CloseTrade(o)
          /\ payment' = ClosePendingByTradeID(o)
     ELSE /\ order' = MarkOrderCancelled(o)
          /\ payment' = ClosePendingByOrderID(o)
          /\ UNCHANGED trade

CommitCancel(w) ==
  /\ Open
  /\ worker[w].pc = "commit"
  /\ IF CanCancel(w)
     THEN CancelOrder(worker[w].order, worker[w].route)
     ELSE UNCHANGED <<order, trade, returned, coupon, usedQuantity, payment>>
  /\ worker' = [worker EXCEPT ![w] = NextListed(w)]
  /\ UNCHANGED <<shipment, refund, provider, backfill, faults>>

-----------------------------------------------------------------------------
(***************************************************************************)
(* Fulfilment.                                                             *)
(***************************************************************************)

ReadyToShip(o) == order[o] = "paid"

\* Under the order's lock; repeating it with the same parcel changes nothing.
\* It does not ask whether the order has been refunded.
Ship(o) ==
  /\ Open
  /\ ReadyToShip(o)
  /\ shipment' = CreateShipment(o)
  /\ order' = MarkShipped(o)
  /\ UNCHANGED <<trade, returned, coupon, usedQuantity, payment, refund,
                 provider, worker, backfill, faults>>

Complete(o) ==
  /\ Open
  /\ order' = Moved(order, o, "shipped", "completed")
  /\ shipment' = [shipment EXCEPT ![o] = "received"]
  /\ UNCHANGED <<trade, returned, coupon, usedQuantity, payment, refund,
                 provider, worker, backfill, faults>>

\* By the buyer.
Confirm(o) == order[o] = "shipped" /\ Complete(o)

\* By the job, for a parcel sent long ago, and whatever it had listed.
CompleteShippedOrder(o) ==
  /\ order[o] = "shipped"
  /\ shipment[o] = "sent"
  /\ Complete(o)

-----------------------------------------------------------------------------
(***************************************************************************)
(* Refunds, as they leave the rows (how they get there is Refund).         *)
(***************************************************************************)

\* A refund is booked on the allocation, which only a linked payment has.
FinalizeRefund(o, p, status) ==
  /\ Open
  /\ p \in FindPaid("trade", o) /\ payment[p].status # "refunded"
  /\ payment[p].allocation # "none"
  /\ trade[o] \in {"paid"} \cup Refunded
  /\ refund' = [refund EXCEPT ![o] = "linked"]
  /\ payment' = [payment EXCEPT ![p].status = status,
                                ![p].allocation = "refunded",
                                ![p].activeOrder = FALSE,
                                ![p].activeTrade = FALSE]
  /\ trade' = [trade EXCEPT ![o] = status]
  /\ UNCHANGED <<order, shipment, returned, coupon, usedQuantity, provider,
                 worker, backfill, faults>>

-----------------------------------------------------------------------------
(***************************************************************************)
(* The backfill command.                                                   *)
(***************************************************************************)

Unlinked == {o \in Orders : ~Linked(o)}

RowsOf(o) == {p \in PaymentIds : payment[p].of = o}

Rows == {p \in PaymentIds : payment[p].status # "none"}

\* The named lock, which the command holds while it runs.
acquireLock == backfill.pc = "idle"

\* Whether refunds of the payment have succeeded, when its order is linked:
\* an order that is not linked yet has only those from before.
successfulRefundAmount(o, p) ==
  refund[o] = "unlinked" /\ payment[p].status \in Refunded

\* Those of the source checks that rows of this model can fail.
SourceChecks ==
  /\ \A p \in Rows : payment[p].orderID
  /\ \A p \in Rows : payment[p].activeOrder => payment[p].status = "pending"
  /\ \A o \in Unlinked : \A p \in RowsOf(o) :
       ~payment[p].tradeID /\ ~payment[p].activeTrade
  /\ \A o \in Unlinked : refund[o] # "linked"

\* Those of the consistency checks that rows of this model can fail.
ConsistencyChecks ==
  /\ Unlinked = {}
  /\ \A p \in Rows :
       /\ payment[p].tradeID
       /\ payment[p].activeTrade <=> payment[p].status = "pending"
       /\ payment[p].activeOrder => payment[p].status = "pending"
       /\ payment[p].allocation # "none"
       /\ payment[p].allocation = "refunded"
            <=> payment[p].status \in Refunded /\ refund[payment[p].of] = "linked"
  /\ \A o \in Orders : refund[o] # "unlinked"

\* Mutant: started while requests are being served.
AnyTime == TRUE

\* The runbook keeps the application's writes away from the database.
Quiet == \A w \in Workers : worker[w].pc = "idle"

BackfillStart ==
  /\ acquireLock
  /\ Quiet
  /\ Unlinked # {}
  /\ SourceChecks
  /\ backfill' = [backfill EXCEPT !.pc = "batch"]
  /\ UNCHANGED <<rows, provider, worker, faults>>

\* Mutant: the status is copied, as if orders and trades shared their codes.
OrderStatusCopied(o) == order[o]

HistoricalTradeStatus(o) ==
  LET refunded == \E p \in RowsOf(o) : successfulRefundAmount(o, p) IN
  CASE refunded                           -> "partiallyRefunded"
    [] ~refunded /\ order[o] = "cancelled" -> "closed"
    [] ~refunded /\ order[o] = "pending"   -> "pending"
    [] OTHER                              -> "paid"

\* Mutant: the place for a pending payment is not taken over.
LinkWithoutKey(p) ==
  [payment[p] EXCEPT !.tradeID = TRUE, !.allocation = "whole"]

\* The payment's trade, its place on the index, and its allocation.
LinkPayment(p) ==
  [payment[p] EXCEPT
     !.tradeID = TRUE,
     !.activeTrade = (payment[p].status = "pending" /\ payment[p].activeOrder),
     !.allocation = IF successfulRefundAmount(payment[p].of, p)
                    THEN "refunded" ELSE "whole"]

LinkRefunds(o) == IF refund[o] = "unlinked" THEN "linked" ELSE refund[o]

\* One transaction gives the oldest orders without a trade one each, and
\* links their payments.
BackfillBatchStep ==
  /\ backfill.pc = "batch"
  /\ LET batch == Oldest(Unlinked, BackfillBatch) IN
     /\ trade' = [o \in Orders |->
                    IF o \in batch THEN HistoricalTradeStatus(o) ELSE trade[o]]
     /\ payment' = [p \in PaymentIds |->
                      IF payment[p].of \in batch THEN LinkPayment(p)
                      ELSE payment[p]]
     /\ refund' = [o \in Orders |->
                     IF o \in batch THEN LinkRefunds(o) ELSE refund[o]]
     /\ backfill' = [backfill EXCEPT !.pc = IF batch = {} THEN "verify" ELSE @]
  /\ UNCHANGED <<order, shipment, returned, coupon, usedQuantity, provider,
                 worker, faults>>

BackfillVerify ==
  /\ backfill.pc = "verify"
  /\ backfill' = [pc |-> "idle",
                  report |-> IF ConsistencyChecks THEN "ok" ELSE "failed"]
  /\ UNCHANGED <<rows, provider, worker, faults>>

-----------------------------------------------------------------------------
(***************************************************************************)
(* Failures.                                                               *)
(***************************************************************************)

Fault ==
  /\ faults < MaxFaults
  /\ faults' = faults + 1
  /\ UNCHANGED rows

QueryFails(w) ==
  /\ Open
  /\ worker[w].pc \in {"query", "requery", "sync"}
  /\ Fault
  /\ worker' = [worker EXCEPT ![w] = NextListed(w)]
  /\ UNCHANGED <<provider, backfill>>

CloseFails(w) ==
  /\ Open
  /\ worker[w].pc = "close"
  /\ Fault
  /\ \/ UNCHANGED provider
     \/ /\ provider[worker[w].pay] = "waiting"
        /\ provider' = [provider EXCEPT ![worker[w].pay] = "closed"]
  /\ worker' = [worker EXCEPT ![w].pc = "requery"]
  /\ UNCHANGED backfill

Crash(w) ==
  /\ worker[w].pc # "idle"
  /\ Fault
  /\ worker' = [worker EXCEPT ![w] = Idle]
  /\ UNCHANGED <<provider, backfill>>

\* The command is interrupted between two transactions, and run again later.
BackfillCrash ==
  /\ backfill.pc # "idle"
  /\ Fault
  /\ backfill' = [backfill EXCEPT !.pc = "idle"]
  /\ UNCHANGED <<provider, worker>>

-----------------------------------------------------------------------------

Proceed(w) ==
  \/ CheckPending(w)
  \/ RepairOrderFromPaidPayment(w)
  \/ ListPendingPayments(w)
  \/ QueryPayment(w)
  \/ ClosePayment(w)
  \/ RequeryPayment(w)
  \/ SyncQuery(w)
  \/ SyncApply(w)
  \/ CommitCancel(w)

Backfills == BackfillBatchStep \/ BackfillVerify

Next ==
  \/ \E o \in Orders \ Abandoned, p \in PaymentIds :
       \/ MockPayOrder(o, p)
       \/ \E ch \in Channels : CreatePayment(o, p, ch)
  \/ \E p \in PaymentIds : AlipayNotify(p) \/ MockComplete(p) \/ AlipayStep(p)
  \/ \E o \in WithCoupon : UseCouponElsewhere(o)
  \/ \E o \in Orders : Ship(o) \/ Confirm(o) \/ CompleteShippedOrder(o)
  \/ \E o \in Orders, p \in PaymentIds, status \in Refunded :
       FinalizeRefund(o, p, status)
  \/ \E w \in Buyers :
       \/ \E o \in Orders \ Abandoned : CancelStart(w, o)
       \/ \E p \in PaymentIds : SyncStart(w, p)
  \/ \E w \in TimeoutJobs : JobStart(w)
  \/ \E w \in Workers :
       Proceed(w) \/ QueryFails(w) \/ CloseFails(w) \/ Crash(w)
  \/ BackfillStart \/ Backfills \/ BackfillCrash

\* Jobs and the command run on once started, and systemd starts the job every
\* minute; no notification has to arrive, and a buyer's request may hang.
Fairness ==
  /\ \A w \in TimeoutJobs : WF_vars(Proceed(w)) /\ WF_vars(JobStart(w))
  /\ WF_vars(Backfills)

Spec == Init /\ [][Next]_vars /\ Fairness

-----------------------------------------------------------------------------
(***************************************************************************)
(* Properties.                                                             *)
(***************************************************************************)

\* Every row and every request in progress has the shape of its table or
\* handler.
TypeOK ==
  /\ order \in [Orders -> OrderStates]
  /\ trade \in [Orders -> TradeStates]
  /\ shipment \in [Orders -> {"none", "sent", "received"}]
  /\ returned \in Nat
  /\ coupon \in [WithCoupon -> {"here", "unused", "elsewhere"}]
  /\ usedQuantity \in Nat
  /\ payment \in [PaymentIds -> Payments]
  /\ refund \in [Orders -> {"none", "unlinked", "linked"}]
  /\ provider \in [PaymentIds -> ProviderStates]
  /\ worker \in [Workers -> Locals]
  /\ backfill \in [pc : {"idle", "batch", "verify"},
                   report : {"none", "ok", "failed"}]
  /\ faults \in 0..MaxFaults

Taken == {"paid"} \cup Refunded

\* Paying, cancelling, refunding and the backfill keep an order and the trade
\* it has got together, whichever of the two a request had found when it began;
\* and no late notification or sync takes a refund back.
OrderAgreesWithTrade ==
  \A o \in Orders : Linked(o) =>
    /\ order[o] = "pending" <=> trade[o] = "pending"
    /\ order[o] = "cancelled" <=> trade[o] = "closed"
    /\ trade[o] \in Taken => \E p \in PaymentIds :
         payment[p].of = o /\ payment[p].status = trade[o]

\* Goods leave only for money: an order is past payment exactly when one
\* payment of it has been booked, by whichever of the four ways to pay.
PaidExactlyOnce ==
  \A o \in Orders :
    LET booked == {p \in RowsOf(o) : payment[p].status \in Taken} IN
    /\ order[o] \in {"paid", "shipped", "completed"} <=> booked # {}
    /\ Cardinality(booked) <= 1
    /\ shipment[o] # "none" <=> order[o] \in {"shipped", "completed"}

\* An order, the payments of it and the trade it may have got meanwhile tell
\* the same story.
OrderConsistent == OrderAgreesWithTrade /\ PaidExactlyOnce

Units(o) == {o} \X (1..Quantity[o])

UnitsOfCancelled == UNION {Units(o) : o \in {q \in Orders : order[q] = "cancelled"}}

\* A cancelled order gives back its units and its coupon, once, however many
\* requests and jobs are cancelling it, and leaves alone the coupon that has
\* been used again since.
HoldingsReturnedOnce ==
  /\ returned = Cardinality(UnitsOfCancelled)
  /\ \A o \in WithCoupon : coupon[o] = "here" <=> order[o] # "cancelled"
  /\ usedQuantity = Cardinality({o \in WithCoupon : coupon[o] # "unused"})

\* Whatever pays, cancels or links an order, and however late, it is one story:
\* order, trade, payments, shipment, units and coupon.
OrderKeptWhole == OrderConsistent /\ HoldingsReturnedOnce

\* What the backfill has linked passes its own verification, also when it was
\* interrupted and the application ran on half of the orders meanwhile.
BackfillVerifies ==
  /\ backfill.report # "failed"
  /\ \A p \in Rows : payment[p].tradeID =>
       (payment[p].activeTrade <=> payment[p].status = "pending")

\* The job settles every order that is not paid, with or without a trade, in
\* batches, although single cancellations fail.
PendingOrderResolved ==
  \A o \in Orders : order[o] = "pending" ~> order[o] # "pending"

=============================================================================
