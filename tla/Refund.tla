------------------------------- MODULE Refund -------------------------------
(***************************************************************************)
(* After-sales and refunds of one paid trade: the buyer's requests for its *)
(* order items, the merchant's review, the refund calls to Alipay whose    *)
(* result may stay unknown, the reconcile-refunds job, and the books a     *)
(* refund changes: the order's payment allocation, the settlement ledger,  *)
(* and the refund status of payment and trade.                             *)
(*                                                                         *)
(* Transactions lock the after-sale first and are one action, except the   *)
(* merchant's approval: it reads the reserved sum from a snapshot taken    *)
(* before it waits for the allocation's lock, so it is two actions, and    *)
(* the after-sale stays locked in between.                                 *)
(***************************************************************************)
EXTENDS Integers, FiniteSets

CONSTANTS
  Orders,          \* the child orders of the trade
  Items,           \* their order items
  OrderOf,         \* OrderOf[i]: the order that item i belongs to
  ItemPayable,     \* ItemPayable[i]: what item i cost after its discount
  Allocated,       \* Allocated[o]: the payment's allocation to order o
  Commission,      \* Commission[o]: the platform's commission in it
  MaxAmount,       \* the largest amount, in fen
  MaxAfterSales,   \* bound on the after-sales the buyer opens
  Channels,        \* channels the payment may have gone through
  Buyers,          \* workers that run the buyer's requests
  Merchants,       \* workers that run the merchants' requests
  Jobs,            \* workers that run reconcile-refunds
  MaxFaults,       \* bound on failed calls and process crashes
  NoItem, NoAfterSale

Workers == Buyers \cup Merchants \cup Jobs

AfterSales == 1..MaxAfterSales

ASSUME OrdersAssumption ==
  /\ IsFiniteSet(Orders)
  /\ OrderOf \in [Items -> Orders]
  /\ MaxAmount \in Nat
  /\ Allocated \in [Orders -> 1..MaxAmount]
  /\ Commission \in [Orders -> 0..MaxAmount]
  /\ \A o \in Orders : Commission[o] <= Allocated[o]

\* The allocation of discounts gives every item of a positive price a part
\* of the order's amount; what costs nothing cannot be refunded.
ASSUME ItemsAssumption ==
  /\ ItemPayable \in [Items -> 0..MaxAmount]
  /\ \A i \in Items : ItemPayable[i] <= Allocated[OrderOf[i]]

ASSUME BoundsAssumption ==
  /\ MaxAfterSales \in Nat
  /\ MaxFaults \in Nat
  /\ Channels \subseteq {"alipay", "mock"}
  /\ NoItem \notin Items
  /\ NoAfterSale \notin AfterSales

-----------------------------------------------------------------------------

VARIABLES
  afterSale,        \* after_sales rows
  refund,           \* refunds.status of each after-sale's refund
  refundedAmount,   \* payment_allocations.refunded_amount
  refundEntry,      \* after-sales with a REFUND entry in the ledger
  commissionEntry,  \* amount of the COMMISSION-REFUND entry, 0 without one
  paymentStatus,    \* payments.status
  tradeStatus,      \* trades.status
  channel,          \* payments.pay_channel
  provider,         \* each refund number at Alipay
  worker,           \* the requests in progress
  faults            \* failures injected so far

books == <<refundedAmount, refundEntry, commissionEntry, paymentStatus,
           tradeStatus>>
rows == <<afterSale, refund, books>>
vars == <<rows, channel, provider, worker, faults>>

AfterSaleStates == {"none", "pending", "refunding", "refunded", "rejected",
                    "cancelled", "refundFailed"}

\* The rows whose active_key still names the item; the others have freed it.
ActiveStates == {"pending", "refunding", "refundFailed"}

RefundStates == {"none", "pending", "unknown", "succeeded", "failed"}

\* accepted: Alipay has taken the request but not moved the money yet.
ProviderStates == {"none", "accepted", "refunded"}

PaidStates == {"paid", "partiallyRefunded", "refunded"}

Steps == {"idle", "insert", "approve", "next", "query", "submit",
          "finalize", "fail", "unknown"}

\* item: what the buyer asks an after-sale for; as: the after-sale in hand;
\* todo: the refunds the job has still to look at; reserved: the sum an
\* approval has read from its snapshot.
Locals ==
  [pc : Steps, item : Items \cup {NoItem}, as : AfterSales \cup {NoAfterSale},
   todo : SUBSET AfterSales, reserved : Nat]

Idle == [pc |-> "idle", item |-> NoItem, as |-> NoAfterSale, todo |-> {},
         reserved |-> 0]

Init ==
  /\ afterSale = [a \in AfterSales |-> [status |-> "none", item |-> NoItem]]
  /\ refund = [a \in AfterSales |-> "none"]
  /\ refundedAmount = [o \in Orders |-> 0]
  /\ refundEntry = {}
  /\ commissionEntry = [a \in AfterSales |-> 0]
  /\ paymentStatus = "paid"
  /\ tradeStatus = "paid"
  /\ channel \in Channels
  /\ provider = [a \in AfterSales |-> "none"]
  /\ worker = [w \in Workers |-> Idle]
  /\ faults = 0

-----------------------------------------------------------------------------
(***************************************************************************)
(* Amounts.  A sum over rows is the number of their fen.                   *)
(***************************************************************************)

RefundAmount(a) == ItemPayable[afterSale[a].item]

OrderOfAfterSale(a) == OrderOf[afterSale[a].item]

Fen(as) == {u \in as \X (1..MaxAmount) : u[2] <= RefundAmount(u[1])}

Total(as) == Cardinality(Fen(as))

Exists(a) == afterSale[a].status # "none"

WithStatus(states) == {a \in AfterSales : refund[a] \in states}

OfOrder(o, as) == {a \in as : Exists(a) /\ OrderOfAfterSale(a) = o}

SumReservedRefundsByAllocation(a) ==
  Total(OfOrder(OrderOfAfterSale(a),
                WithStatus({"pending", "succeeded", "unknown"}) \ {a}))

PaymentAmount ==
  Cardinality({u \in Orders \X (1..MaxAmount) : u[2] <= Allocated[u[1]]})

\* The allocation of the trade's payment to the order of the after-sale.
FindPaidPaymentAllocationByOrderID(a) == Allocated[OrderOfAfterSale(a)]

\* Mutant: what the platform keeps, not what it gives back.
CommissionKept(o, amount) ==
  Commission[o] - (Commission[o] * amount) \div Allocated[o]

proportionalRefundCommission(o, amount) ==
  (Commission[o] * amount) \div Allocated[o]

\* Mutant: every part is rounded by itself.
CommissionOfPart(o, before, amount) == proportionalRefundCommission(o, amount)

\* The commission a refund gives back, after those that came before it.
CommissionRefund(o, before, amount) ==
  proportionalRefundCommission(o, before + amount)
    - proportionalRefundCommission(o, before)

-----------------------------------------------------------------------------

(***************************************************************************)
(* Conditional updates of one row.  A refund in another status than those  *)
(* the update names stays as it is, and the transaction is rolled back; a  *)
(* refund that does not exist yet is inserted as pending.                  *)
(***************************************************************************)

MarkRefund(a, from, to) ==
  [refund EXCEPT ![a] = IF @ \in from THEN to ELSE @]

UpdateStatus(a, status) == [afterSale EXCEPT ![a].status = status]

OpenRefunds == {"pending", "unknown"}

IncreaseAllocationRefundedAmount(o, amount) ==
  /\ refundedAmount[o] + amount <= Allocated[o]
  /\ refundedAmount' = [refundedAmount EXCEPT ![o] = @ + amount]

\* Entries of a refund that are in the ledger already stay as they are.
CreateSettlementEntries(a, commissionRefund) ==
  /\ refundEntry' = refundEntry \cup {a}
  /\ commissionEntry' = [commissionEntry EXCEPT
       ![a] = IF @ = 0 THEN commissionRefund ELSE @]

\* UpdatePaymentRefundStatus and UpdateTradeRefundStatus.
UpdateRefundStatus(status) ==
  /\ paymentStatus' = status
  /\ tradeStatus' = status

-----------------------------------------------------------------------------

\* The approval between its two steps holds the after-sale's row lock.
Locked(a) == \E w \in Workers : worker[w].pc = "approve" /\ worker[w].as = a

Goto(w, locals) ==
  /\ worker' = [worker EXCEPT ![w] = locals]
  /\ UNCHANGED <<channel, faults>>

\* A request ends; the job goes on to the next refund of its list.
Return(w) ==
  IF worker[w].todo = {} THEN Idle
  ELSE [Idle EXCEPT !.pc = "next", !.todo = worker[w].todo]

Reads == UNCHANGED <<rows, provider>>

-----------------------------------------------------------------------------
(***************************************************************************)
(* The buyer.                                                              *)
(***************************************************************************)

FindLatestByOrderItem(i) ==
  {a \in AfterSales :
     /\ Exists(a) /\ afterSale[a].item = i
     /\ \A b \in AfterSales : Exists(b) /\ afterSale[b].item = i => b <= a}

\* Create looks for an after-sale of the item that stands in its way ...
CreateStart(w, i) ==
  /\ worker[w].pc = "idle"
  /\ \A a \in FindLatestByOrderItem(i) :
       afterSale[a].status \in {"rejected", "cancelled"}
  /\ ItemPayable[i] > 0
  /\ Goto(w, [Idle EXCEPT !.pc = "insert", !.item = i])
  /\ Reads

\* ... and inserts one without looking again: the unique active_key refuses
\* it only while another one is active.
CreateInsert(w) ==
  /\ worker[w].pc = "insert"
  /\ LET i == worker[w].item
         open == {a \in AfterSales : ~Exists(a)}
     IN  \/ /\ \E a \in AfterSales :
                 afterSale[a].item = i /\ afterSale[a].status \in ActiveStates
            /\ UNCHANGED afterSale
         \/ /\ ~\E a \in AfterSales :
                 afterSale[a].item = i /\ afterSale[a].status \in ActiveStates
            /\ \E a \in open :
                 /\ \A b \in open : a <= b
                 /\ afterSale' =
                      [afterSale EXCEPT ![a] = [status |-> "pending", item |-> i]]
  /\ Goto(w, Idle)
  /\ UNCHANGED <<refund, books, provider>>

\* Cancel and MerchantReject are one conditional update, which waits for the
\* row lock of an approval.
Withdraw(a, status) ==
  /\ afterSale[a].status = "pending"
  /\ ~Locked(a)
  /\ afterSale' = UpdateStatus(a, status)
  /\ UNCHANGED <<refund, books, channel, provider, worker, faults>>

Cancel(a) == Withdraw(a, "cancelled")

MerchantReject(a) == Withdraw(a, "rejected")

-----------------------------------------------------------------------------
(***************************************************************************)
(* The merchant and the job.                                               *)
(***************************************************************************)

\* Where refundCoordinator.Process starts.
ProcessPc(queryFirst) ==
  CASE channel = "mock"                 -> "finalize"
    [] channel # "mock" /\ queryFirst   -> "query"
    [] channel # "mock" /\ ~queryFirst  -> "submit"

\* MerchantApprove locks the after-sale; its first plain read fixes the
\* snapshot that the reserved sum will be computed from.
ApproveStart(w, a) ==
  /\ worker[w].pc = "idle"
  /\ ~Locked(a)
  /\ afterSale[a].status \in {"pending", "refundFailed", "refunding"}
  /\ Goto(w, [Idle EXCEPT !.pc = "approve", !.as = a,
                          !.reserved = SumReservedRefundsByAllocation(a)])
  /\ Reads

WithinAllocation(w, a) ==
  worker[w].reserved
    <= FindPaidPaymentAllocationByOrderID(a) - RefundAmount(a)

\* Under the allocation's lock it creates the refund, or sends a failed one
\* out again, or goes on with the one in progress.
ApproveCommit(w) ==
  /\ worker[w].pc = "approve"
  /\ LET a == worker[w].as IN
     \/ /\ refund[a] \in {"none", "failed"}
        /\ ~WithinAllocation(w, a)
        /\ UNCHANGED <<afterSale, refund>>
        /\ Goto(w, Idle)
     \/ /\ refund[a] \in {"none", "failed"} => WithinAllocation(w, a)
        /\ afterSale' = UpdateStatus(a, "refunding")
        /\ refund' = MarkRefund(a, {"none", "failed"}, "pending")
        /\ Goto(w, [Idle EXCEPT !.as = a,
             !.pc = IF refund[a] = "succeeded" THEN "finalize"
                    ELSE ProcessPc(refund[a] # "none")])
  /\ UNCHANGED <<books, provider>>

\* MerchantSyncRefund reads after-sale and refund one after the other: the
\* refund may have succeeded in between.  It refuses a failed refund.
SyncStart(w, a) ==
  /\ worker[w].pc = "idle"
  /\ refund[a] \in {"pending", "unknown", "succeeded"}
  /\ Goto(w, [Idle EXCEPT !.as = a,
       !.pc = IF refund[a] = "succeeded" THEN "finalize" ELSE ProcessPc(TRUE)])
  /\ Reads

\* Mutant: the job forgets refunds whose result is unknown.
NeverTried == WithStatus({"pending"})

Unresolved == WithStatus({"pending", "unknown"})

\* The job lists the refunds that are due, in one query ...
ListRefundsForReconciliation(w, due) ==
  /\ worker[w].pc = "idle"
  /\ due # {} /\ due \subseteq Unresolved
  /\ Goto(w, [Idle EXCEPT !.pc = "next", !.todo = due])
  /\ Reads

\* ... and takes them up one after the other, whatever their status is by then.
NextRefund(w) ==
  /\ worker[w].pc = "next"
  /\ \E a \in worker[w].todo :
       Goto(w, [worker[w] EXCEPT !.pc = ProcessPc(TRUE), !.as = a,
                                 !.todo = @ \ {a}])
  /\ Reads

-----------------------------------------------------------------------------
(***************************************************************************)
(* The refund at Alipay.                                                   *)
(***************************************************************************)

\* Alipay refunds no more than was paid.
ProviderAllows(a) ==
  LET sent == {b \in AfterSales : provider[b] # "none"} \cup {a}
  IN  Total(sent) <= PaymentAmount

\* The states of a refund query that are REFUND_SUCCESS.
RefundedAtProvider == {"refunded"}

\* A query by refund number; one that Alipay has accepted may be reported in
\* another state than REFUND_SUCCESS or not yet at all.
QueryRefund(w) ==
  /\ worker[w].pc = "query"
  /\ LET a == worker[w].as IN
     \/ /\ provider[a] \in RefundedAtProvider
        /\ Goto(w, [worker[w] EXCEPT !.pc = "finalize"])
     \/ /\ provider[a] \notin RefundedAtProvider
        /\ provider[a] # "none"
        /\ Goto(w, [worker[w] EXCEPT !.pc = "unknown"])
     \/ /\ provider[a] \notin RefundedAtProvider
        /\ Goto(w, [worker[w] EXCEPT !.pc = "submit"])
  /\ Reads

\* The refund call, idempotent in the refund number: Alipay moves the money,
\* or only accepts the request, or rejects it; a repeated request succeeds
\* with no change of funds, which proves nothing.
SubmitRefund(w) ==
  /\ worker[w].pc = "submit"
  /\ LET a == worker[w].as IN
     \/ /\ provider[a] = "none"
        /\ ProviderAllows(a)
        /\ \/ /\ provider' = [provider EXCEPT ![a] = "refunded"]
              /\ Goto(w, [worker[w] EXCEPT !.pc = "finalize"])
           \/ /\ provider' = [provider EXCEPT ![a] = "accepted"]
              /\ Goto(w, [worker[w] EXCEPT !.pc = "unknown"])
     \/ /\ provider[a] = "none"
        /\ UNCHANGED provider
        /\ Goto(w, [worker[w] EXCEPT !.pc = "fail"])
     \/ /\ provider[a] # "none"
        /\ UNCHANGED provider
        /\ Goto(w, [worker[w] EXCEPT !.pc = "unknown"])
  /\ UNCHANGED rows

ProviderSettles(a) ==
  /\ provider[a] = "accepted"
  /\ provider' = [provider EXCEPT ![a] = "refunded"]
  /\ UNCHANGED <<rows, channel, worker, faults>>

-----------------------------------------------------------------------------
(***************************************************************************)
(* Recording what became of it.                                            *)
(***************************************************************************)

FitsAllocation(a) ==
  refundedAmount[OrderOfAfterSale(a)] + RefundAmount(a)
    <= FindPaidPaymentAllocationByOrderID(a)

\* The checks of finalize, with the conditional update of the allocation.
CanFinalize(a) ==
  /\ afterSale[a].status \in {"refunding", "refundFailed"}
  /\ refund[a] # "succeeded" =>
       /\ refund[a] \in OpenRefunds
       /\ FitsAllocation(a)

\* Allocation and ledger, when the refund turns succeeded.
Book(a) ==
  LET o == OrderOfAfterSale(a)
      amount == RefundAmount(a)
  IN  /\ refund' = MarkRefund(a, OpenRefunds, "succeeded")
      /\ IncreaseAllocationRefundedAmount(o, amount)
      /\ CreateSettlementEntries(a, CommissionRefund(o, refundedAmount[o], amount))

\* Mutant: compares this refund, not the accumulated ones, with the payment.
RefundStatusOfOne(as) ==
  IF \E a \in as : RefundAmount(a) >= PaymentAmount THEN "refunded"
  ELSE "partiallyRefunded"

\* The refund status of payment and trade once the refunds as have succeeded.
RefundStatus(as) ==
  IF Total(as) >= PaymentAmount THEN "refunded" ELSE "partiallyRefunded"

\* Mutant: finalize books whatever has been booked already.
FinalizeTwice(a) ==
  IF \/ refund[a] \notin {"pending", "unknown", "succeeded"}
     \/ ~FitsAllocation(a)
  THEN UNCHANGED rows
  ELSE /\ Book(a)
       /\ afterSale' = UpdateStatus(a, "refunded")
       /\ UpdateRefundStatus(RefundStatus(WithStatus({"succeeded"}) \cup {a}))

\* finalize: books the refund, unless that is done, and brings after-sale,
\* payment and trade up to date; a check that fails rolls it all back.
Finalize(a) ==
  IF ~CanFinalize(a) THEN UNCHANGED rows
  ELSE /\ IF refund[a] = "succeeded"
          THEN UNCHANGED <<refund, refundedAmount, refundEntry, commissionEntry>>
          ELSE Book(a)
       /\ afterSale' = UpdateStatus(a, "refunded")
       /\ UpdateRefundStatus(RefundStatus(WithStatus({"succeeded"}) \cup {a}))

FinalizeRefund(w) ==
  /\ worker[w].pc = "finalize"
  /\ ~Locked(worker[w].as)
  /\ Finalize(worker[w].as)
  /\ Goto(w, Return(w))
  /\ UNCHANGED provider

\* fail: a rejection is recorded unless the refund is settled already.
MarkRefundFailed(a) ==
  IF /\ refund[a] \in OpenRefunds
     /\ afterSale[a].status \in {"refunding", "refundFailed"}
  THEN /\ refund' = MarkRefund(a, OpenRefunds, "failed")
       /\ afterSale' = UpdateStatus(a, "refundFailed")
  ELSE UNCHANGED <<afterSale, refund>>

FailRefund(w) ==
  /\ worker[w].pc = "fail"
  /\ ~Locked(worker[w].as)
  /\ MarkRefundFailed(worker[w].as)
  /\ Goto(w, Return(w))
  /\ UNCHANGED <<books, provider>>

\* Mutant: a result that is not known is a failure.
MarkUnknownFailed(a) == MarkRefund(a, OpenRefunds, "failed")

\* keepUnknown: the reconcile job will ask again.
MarkRefundUnknown(a) == MarkRefund(a, OpenRefunds, "unknown")

KeepUnknown(w) ==
  /\ worker[w].pc = "unknown"
  /\ ~Locked(worker[w].as)
  /\ LET a == worker[w].as IN
     /\ refund' = MarkRefundUnknown(a)
     /\ afterSale' = IF /\ refund[a] \in OpenRefunds
                        /\ afterSale[a].status = "refundFailed"
                     THEN UpdateStatus(a, "refunding") ELSE afterSale
  /\ Goto(w, Return(w))
  /\ UNCHANGED <<books, provider>>

-----------------------------------------------------------------------------
(***************************************************************************)
(* Failures.                                                               *)
(***************************************************************************)

Fault == faults < MaxFaults /\ faults' = faults + 1

\* A call of Alipay fails, a refund call possibly after it was executed.
CallFails(w) ==
  /\ Fault
  /\ worker[w].pc \in {"query", "submit"}
  /\ LET a == worker[w].as IN
     \/ UNCHANGED provider
     \/ /\ worker[w].pc = "submit"
        /\ provider[a] = "none"
        /\ ProviderAllows(a)
        /\ provider' = [provider EXCEPT ![a] = "refunded"]
  /\ worker' = [worker EXCEPT ![w].pc = "unknown"]
  /\ UNCHANGED <<rows, channel>>

\* The process dies, or InnoDB aborts its transaction, or the database fails:
\* what it was about to write is not written.
Crash(w) ==
  /\ Fault
  /\ worker[w].pc # "idle"
  /\ worker' = [worker EXCEPT ![w] = Idle]
  /\ UNCHANGED <<rows, channel, provider>>

-----------------------------------------------------------------------------

\* What a request does next by itself once it has started.
Proceed(w) ==
  \/ CreateInsert(w)
  \/ ApproveCommit(w)
  \/ NextRefund(w)
  \/ QueryRefund(w)
  \/ SubmitRefund(w)
  \/ FinalizeRefund(w)
  \/ FailRefund(w)
  \/ KeepUnknown(w)

Next ==
  \/ \E w \in Buyers, i \in Items : CreateStart(w, i)
  \/ \E a \in AfterSales : Cancel(a) \/ MerchantReject(a)
  \/ \E w \in Merchants, a \in AfterSales : ApproveStart(w, a) \/ SyncStart(w, a)
  \/ \E w \in Jobs, due \in SUBSET AfterSales :
       ListRefundsForReconciliation(w, due)
  \/ \E w \in Workers : Proceed(w) \/ CallFails(w) \/ Crash(w)
  \/ \E a \in AfterSales : ProviderSettles(a)

Spec == Init /\ [][Next]_vars

\* A started request runs on, and InnoDB grants a row lock in turn, so that
\* no request waits for ever behind others; systemd starts the job every five
\* minutes and it takes the refunds that are due, the one that has waited
\* longest first, so each is listed again and again; Alipay settles what it
\* has accepted.
Fairness ==
  /\ \A w \in Workers : SF_vars(Proceed(w))
  /\ \A w \in Jobs, a \in AfterSales :
       SF_vars(\E due \in SUBSET AfterSales :
                 a \in due /\ ListRefundsForReconciliation(w, due))
  /\ \A a \in AfterSales : WF_vars(ProviderSettles(a))

FairSpec == Spec /\ Fairness

-----------------------------------------------------------------------------
(***************************************************************************)
(* Properties.                                                             *)
(***************************************************************************)

\* Every row and every request in progress has the shape its table or its
\* handler gives it.
TypeOK ==
  /\ afterSale \in [AfterSales ->
       [status : AfterSaleStates, item : Items \cup {NoItem}]]
  /\ \A a \in AfterSales : Exists(a) => afterSale[a].item \in Items
  /\ refund \in [AfterSales -> RefundStates]
  /\ refundedAmount \in [Orders -> 0..MaxAmount]
  /\ refundEntry \subseteq AfterSales
  /\ commissionEntry \in [AfterSales -> Nat]
  /\ paymentStatus \in PaidStates
  /\ tradeStatus \in PaidStates
  /\ channel \in Channels
  /\ provider \in [AfterSales -> ProviderStates]
  /\ worker \in [Workers -> Locals]
  /\ faults \in 0..MaxFaults

RefundStatesOf(status) ==
  CASE status \in {"none", "pending", "rejected", "cancelled"} -> {"none"}
    [] status = "refunding"    -> {"pending", "unknown"}
    [] status = "refundFailed" -> {"failed"}
    [] status = "refunded"     -> {"succeeded"}

\* After-sale and refund tell the buyer the same story whatever answers
\* arrive late, twice or in another order (refund_reconciliation_service.go
\* finalize, fail, keepUnknown): no after-sale is refunded with a refund that
\* is not, none is withdrawn with one under way.
AfterSaleMatchesRefund ==
  \A a \in AfterSales : refund[a] \in RefundStatesOf(afterSale[a].status)

Succeeded(o) == OfOrder(o, WithStatus({"succeeded"}))

\* The books agree on every refund, booked once however many workers got the
\* answer: a REFUND entry is there exactly when the refund has succeeded, which
\* is never before Alipay has moved the money, and the allocation has exactly
\* those refunds deducted and never more than it has.
EveryRefundBookedOnce ==
  /\ refundEntry = WithStatus({"succeeded"})
  /\ channel = "alipay" => \A a \in refundEntry : provider[a] = "refunded"
  /\ \A o \in Orders :
       /\ refundedAmount[o] = Total(Succeeded(o))
       /\ refundedAmount[o] <= Allocated[o]

CommissionReturned(o) ==
  {u \in OfOrder(o, refundEntry) \X (1..MaxAmount) :
     u[2] <= commissionEntry[u[1]]}

\* The commission given back in parts is, after every refund and in whatever
\* order they came, the rounded share of the refunded total: the roundings of
\* the parts never add up, and a full refund gives it all back.
CommissionFollowsRefunds ==
  \A o \in Orders :
    Cardinality(CommissionReturned(o))
      = (Commission[o] * refundedAmount[o]) \div Allocated[o]

\* The books of every order, the amounts and the commission, follow exactly the
\* refunds that went through.
BooksFollowRefunds == EveryRefundBookedOnce /\ CommissionFollowsRefunds

\* Payment and trade are refunded exactly when all that was paid has been
\* given back, and partially refunded before, with many refunds under way.
StatusFollowsRefunds ==
  LET done == WithStatus({"succeeded"}) IN
  /\ tradeStatus = paymentStatus
  /\ paymentStatus = IF done = {} THEN "paid"
                     ELSE IF Total(done) = PaymentAmount THEN "refunded"
                     ELSE "partiallyRefunded"

\* All that shows how far a refund is agrees, in every state.
StatusesAgree == AfterSaleMatchesRefund /\ StatusFollowsRefunds

\* A refund is one thing in all the books, however many workers handle it:
\* statuses, amounts and commission.
RefundsAgree == StatusesAgree /\ BooksFollowRefunds

\* A refund that was sent out does not stay in the air: with the job running,
\* it succeeds or is refused in the end, whatever calls failed.
RefundResolved ==
  \A a \in AfterSales :
    refund[a] \in {"pending", "unknown"} ~> refund[a] \in {"succeeded", "failed"}

\* docs/m8-multi-merchant-domain-design.md:310 says that concurrent refunds
\* cannot add up to more than an allocation allows: nor do they at Alipay.
WithinAllocationAtProvider ==
  \A o \in Orders :
    Total({a \in OfOrder(o, AfterSales) : provider[a] = "refunded"})
      <= Allocated[o]

=============================================================================
