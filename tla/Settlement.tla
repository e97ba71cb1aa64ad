----------------------------- MODULE Settlement -----------------------------
(***************************************************************************)
(* The settlement ledger: entries that completed orders and succeeded      *)
(* refunds leave, and the generate-settlement command, which first adds    *)
(* the entries that are missing and then collects those of one merchant    *)
(* and period in a settlement.  Several commands may run at once, while    *)
(* orders complete and refunds succeed.  Time is counted in ticks.         *)
(***************************************************************************)
EXTENDS Integers, FiniteSets, FiniteSetsExt

CONSTANTS
  Orders,           \* orders by id
  Refunds,          \* refunds by id
  Merchants,
  MerchantOf,       \* MerchantOf[o]: the merchant of order o
  Payable,          \* Payable[o]: what was paid for it
  Commission,       \* Commission[o]: the platform's share of it
  OrderOf,          \* OrderOf[r]: the order of refund r
  RefundAmount,     \* RefundAmount[r]
  MaxAmount,        \* the largest amount, in fen
  Hold,             \* settlement.hold_days, in ticks
  Ahead,            \* how far ahead a period may end: a minute, in ticks
  BatchSize,        \* settlement.batch_size
  Periods,          \* the periods the command is asked to settle
  Commands,         \* runs of the command that may go on at once
  MaxTime,          \* bound on the ticks
  Never, NoPeriod

Times == 0..MaxTime

\* No payment is created for a trade with an order that costs nothing, so no
\* such order is ever completed.
ASSUME OrdersAssumption ==
  /\ Orders \subseteq Nat /\ IsFiniteSet(Orders)
  /\ MerchantOf \in [Orders -> Merchants]
  /\ MaxAmount \in Nat
  /\ Payable \in [Orders -> 1..MaxAmount]
  /\ Commission \in [Orders -> Nat]
  /\ \A o \in Orders : Commission[o] <= Payable[o]

ASSUME RefundsAssumption ==
  /\ Refunds \subseteq Nat /\ IsFiniteSet(Refunds)
  /\ OrderOf \in [Refunds -> Orders]
  /\ RefundAmount \in [Refunds -> 1..MaxAmount]

\* hold_days may be 0.
ASSUME SettingsAssumption ==
  /\ Periods \subseteq [merchant : Merchants, start : Nat, end : Nat]
  /\ \A p \in Periods : p.start < p.end
  /\ Hold \in Nat /\ Ahead \in Nat
  /\ BatchSize \in Nat \ {0}
  /\ MaxTime \in Nat \ {0}
  /\ Never \notin Times /\ NoPeriod \notin Periods

-----------------------------------------------------------------------------

VARIABLES
  now,
  completedAt,       \* orders.completed_at
  refundedAt,        \* refunds.refunded_at, as the provider reports it
  updatedAt,         \* refunds.updated_at, Never before the refund succeeds
  entries,           \* the entries the ledger has
  commissionRefund,  \* amount of the COMMISSION-REFUND entry of a refund
  settledIn,         \* settlement_entries.settlement_id
  settlements,       \* merchant_settlements rows, with the times at which the
                     \* command that made them started and collected
  command            \* the commands in progress

ledger == <<entries, commissionRefund>>
world == <<now, completedAt, refundedAt, updatedAt>>
vars == <<world, ledger, settledIn, settlements, command>>

\* The entry numbers, which are unique.
Entries ==
  [kind : {"SALE", "COMMISSION"}, of : Orders]
    \cup [kind : {"REFUND", "COMMISSION-REFUND"}, of : Refunds]

NoTotals == [gross |-> 0, commission |-> 0, refund |-> 0, net |-> 0]

Steps == {"idle", "orders", "refunds", "generate", "commit"}

Locals ==
  [pc : Steps, period : Periods \cup {NoPeriod}, todoOrders : SUBSET Orders,
   todoRefunds : SUBSET Refunds, scanned : BOOLEAN, startedAt : Times,
   collectedAt : Times, held : SUBSET Entries]

Idle == [pc |-> "idle", period |-> NoPeriod, todoOrders |-> {},
         todoRefunds |-> {}, scanned |-> FALSE, startedAt |-> 0,
         collectedAt |-> 0, held |-> {}]

-----------------------------------------------------------------------------

Completed == {o \in Orders : completedAt[o] # Never}

Succeeded == {r \in Refunds : updatedAt[r] # Never}

\* A sum over rows is the number of their fen, amount[x] of row x.
Fens(rows, amount) ==
  {u \in rows \X (1..MaxAmount) : u[2] <= amount[u[1]]}

Total(rows, amount) == Cardinality(Fens(rows, amount))

SumOfRefunds(rs) == Total(rs, RefundAmount)

RefundsOf(o) == {r \in Succeeded : OrderOf[r] = o}

Entry(kind, of) == [kind |-> kind, of |-> of]

OrderOfEntry(e) == IF e.kind \in {"SALE", "COMMISSION"} THEN e.of ELSE OrderOf[e.of]

MerchantOfEntry(e) == MerchantOf[OrderOfEntry(e)]

Amount(e) ==
  CASE e.kind = "SALE"              -> Payable[e.of]
    [] e.kind = "COMMISSION"        -> -Commission[e.of]
    [] e.kind = "REFUND"            -> -RefundAmount[e.of]
    [] e.kind = "COMMISSION-REFUND" -> commissionRefund[e.of]

AvailableAt(e) ==
  IF e.kind \in {"SALE", "COMMISSION"} THEN completedAt[e.of] + Hold
  ELSE refundedAt[e.of]

-----------------------------------------------------------------------------
(***************************************************************************)
(* The entries of an order and of a refund.                                *)
(***************************************************************************)

OrderEntries(o) ==
  {Entry("SALE", o)}
    \cup {e \in {Entry("COMMISSION", o)} : Commission[o] > 0}

proportionalRefundCommission(o, amount) ==
  (Commission[o] * amount) \div Payable[o]

\* Mutant: refunds of one moment are not told apart.
EarlierMomentsOnly(r) ==
  SumOfRefunds({s \in RefundsOf(OrderOf[r]) : updatedAt[s] < updatedAt[r]})

SumSucceededRefundsBefore(r) ==
  SumOfRefunds({s \in RefundsOf(OrderOf[r]) :
                  \/ updatedAt[s] < updatedAt[r]
                  \/ updatedAt[s] = updatedAt[r] /\ s < r})

\* What is there already is left alone.
CreateEntries(new) == entries' = entries \cup new

CreateRefundEntries(r, before) ==
  LET o == OrderOf[r]
      returned == proportionalRefundCommission(o, before + RefundAmount[r])
                    - proportionalRefundCommission(o, before)
      reversal == Entry("COMMISSION-REFUND", r)
  IN  /\ CreateEntries({Entry("REFUND", r)} \cup {e \in {reversal} : returned > 0})
      /\ commissionRefund' = IF reversal \in entries THEN commissionRefund
                             ELSE [commissionRefund EXCEPT ![r] = returned]

-----------------------------------------------------------------------------
(***************************************************************************)
(* Before the ledger was introduced, at time 0, orders completed and       *)
(* refunds succeeded without leaving entries, or left a sale without its   *)
(* commission.                                                             *)
(***************************************************************************)

Init ==
  /\ now = 1
  /\ completedAt \in [Orders -> {0, Never}]
  /\ updatedAt \in [Refunds -> {0, Never}]
  /\ \A o \in Orders : SumOfRefunds(RefundsOf(o)) <= Payable[o]
  /\ refundedAt = updatedAt
  /\ entries \in SUBSET {Entry("SALE", o) : o \in Completed}
  /\ commissionRefund = [r \in Refunds |-> 0]
  /\ settledIn = [e \in Entries |-> NoPeriod]
  /\ settlements = {}
  /\ command = [c \in Commands |-> Idle]

-----------------------------------------------------------------------------
(***************************************************************************)
(* The rest of the system.                                                 *)
(***************************************************************************)

\* A command may take as long as it likes; the five minutes after which it
\* gives up are one of the crashes.
Tick ==
  /\ now < MaxTime
  /\ now' = now + 1
  /\ UNCHANGED <<completedAt, refundedAt, updatedAt, ledger, settledIn,
                 settlements, command>>

CompleteOrder(o) ==
  /\ completedAt[o] = Never
  /\ completedAt' = [completedAt EXCEPT ![o] = now]
  /\ UNCHANGED <<now, refundedAt, updatedAt, ledger, settledIn, settlements,
                 command>>

\* A refund that succeeds writes its entries in the same transaction; the
\* provider may have moved the money some time ago.
SucceedRefund(r) ==
  /\ updatedAt[r] = Never
  /\ SumOfRefunds(RefundsOf(OrderOf[r])) + RefundAmount[r] <= Payable[OrderOf[r]]
  /\ updatedAt' = [updatedAt EXCEPT ![r] = now]
  /\ \E t \in 0..now : refundedAt' = [refundedAt EXCEPT ![r] = t]
  /\ CreateRefundEntries(r, SumOfRefunds(RefundsOf(OrderOf[r])))
  /\ UNCHANGED <<now, completedAt, settledIn, settlements, command>>

-----------------------------------------------------------------------------
(***************************************************************************)
(* The command: AccrueCompletedOrders until it finds nothing to do, ...    *)
(***************************************************************************)

Goto(c, locals) ==
  /\ command' = [command EXCEPT ![c] = locals]
  /\ UNCHANGED world

MissingOrders ==
  {o \in Completed : ~(OrderEntries(o) \subseteq entries)}

MissingRefunds ==
  {r \in Succeeded : Entry("REFUND", r) \notin entries}

\* Any rows up to the limit; the code takes the oldest ones.
Batches(rows) ==
  {b \in SUBSET rows :
     Cardinality(b) = Min({BatchSize, Cardinality(rows)})}

Start(c) ==
  /\ command[c].pc = "idle"
  /\ \E b \in Batches(MissingOrders) :
       Goto(c, [Idle EXCEPT !.pc = "orders", !.startedAt = now,
                            !.todoOrders = b, !.scanned = (b # {})])
  /\ UNCHANGED <<ledger, settledIn, settlements>>

AccrueOrder(c) ==
  /\ command[c].pc = "orders"
  /\ \E o \in command[c].todoOrders :
       /\ CreateEntries(OrderEntries(o))
       /\ Goto(c, [command[c] EXCEPT !.todoOrders = @ \ {o}])
  /\ UNCHANGED <<commissionRefund, settledIn, settlements>>

ListRefunds(c) ==
  /\ command[c].pc = "orders"
  /\ command[c].todoOrders = {}
  /\ \E b \in Batches(MissingRefunds) :
       Goto(c, [command[c] EXCEPT !.pc = "refunds", !.todoRefunds = b,
                                  !.scanned = @ \/ b # {}])
  /\ UNCHANGED <<ledger, settledIn, settlements>>

AccrueRefund(c) ==
  /\ command[c].pc = "refunds"
  /\ \E r \in command[c].todoRefunds :
       /\ CreateRefundEntries(r, SumSucceededRefundsBefore(r))
       /\ Goto(c, [command[c] EXCEPT !.todoRefunds = @ \ {r}])
  /\ UNCHANGED <<settledIn, settlements>>

\* Mutant: one round is thought to be enough.
OneRound(c) == TRUE

Drained(c) == ~command[c].scanned

\* The merchant and the period were given to the command when it started;
\* they matter from here on.
NextRound(c) ==
  /\ command[c].pc = "refunds"
  /\ command[c].todoRefunds = {}
  /\ \/ /\ Drained(c)
        /\ \E p \in Periods :
             Goto(c, [command[c] EXCEPT !.pc = "generate", !.period = p])
     \/ /\ ~Drained(c)
        /\ \E b \in Batches(MissingOrders) :
             Goto(c, [command[c] EXCEPT !.pc = "orders", !.todoOrders = b,
                                        !.scanned = (b # {})])
  /\ UNCHANGED <<ledger, settledIn, settlements>>

-----------------------------------------------------------------------------
(***************************************************************************)
(* ... then Generate.                                                      *)
(***************************************************************************)

PeriodOf(s) == [merchant |-> s.merchant, start |-> s.start, end |-> s.end]

Settled(p) == \E s \in settlements : PeriodOf(s) = p

\* Mutant: takes entries that have been settled before.
EligibleAgain(p) ==
  {e \in entries :
     LET o == OrderOfEntry(e) IN
     /\ MerchantOfEntry(e) = p.merchant
     /\ AvailableAt(e) < p.end
     /\ o \in Completed /\ completedAt[o] <= p.end - Hold}

FindEligibleEntriesForUpdate(p) ==
  {e \in entries :
     LET o == OrderOfEntry(e) IN
     /\ MerchantOfEntry(e) = p.merchant
     /\ settledIn[e] = NoPeriod
     /\ AvailableAt(e) < p.end
     /\ o \in Completed /\ completedAt[o] <= p.end - Hold}

SumOf(es) ==
  Total(es, [e \in es |-> Amount(e)]) - Total(es, [e \in es |-> -Amount(e)])

OfKind(kind, es) == {e \in es : e.kind = kind}

Totals(es) ==
  [gross      |-> SumOf(OfKind("SALE", es)),
   commission |-> -SumOf(OfKind("COMMISSION", es))
                    - SumOf(OfKind("COMMISSION-REFUND", es)),
   refund     |-> -SumOf(OfKind("REFUND", es)),
   net        |-> SumOf(es)]

\* The entries another command has locked; it still may attach them.
HeldByOthers(c) == UNION {command[d].held : d \in Commands \ {c}}

\* Mutant: does not look at the balance.
RefusedUnlessBalanced(p) ==
  p.end > now + Ahead \/ Settled(p) \/ FindEligibleEntriesForUpdate(p) = {}

\* What ends the command before it has anything to attach: a period that ends
\* more than a minute ahead or has its settlement, no entries, or more
\* commission given back than taken.
Refused(p) ==
  LET es == FindEligibleEntriesForUpdate(p) IN
  \/ p.end > now + Ahead
  \/ Settled(p)
  \/ es = {}
  \/ Totals(es).commission < 0

GenerateSelect(c) ==
  /\ command[c].pc = "generate"
  /\ LET p == command[c].period
         es == FindEligibleEntriesForUpdate(p)
     IN  /\ es \cap HeldByOthers(c) = {}
         /\ IF Refused(p) THEN Goto(c, Idle)
            ELSE Goto(c, [command[c] EXCEPT !.pc = "commit", !.held = es,
                                            !.collectedAt = now])
  /\ UNCHANGED <<ledger, settledIn, settlements>>

\* Mutant: attaches what is eligible when it comes to it.
AttachEligible(c) ==
  LET p == command[c].period IN
  [e \in Entries |->
     IF e \in command[c].held \cup FindEligibleEntriesForUpdate(p) THEN p
     ELSE settledIn[e]]

AttachEntries(c) ==
  [e \in Entries |->
     IF e \in command[c].held THEN command[c].period ELSE settledIn[e]]

\* The settlement and its entries are written together; another command may
\* have settled the same period by now, which the unique key refuses.
GenerateCommit(c) ==
  /\ command[c].pc = "commit"
  /\ LET p == command[c].period
         totals == Totals(command[c].held)
     IN  IF Settled(p) THEN UNCHANGED <<settlements, settledIn>>
         ELSE /\ settlements' = settlements \cup
                   {[merchant |-> p.merchant, start |-> p.start, end |-> p.end,
                     totals |-> totals, startedAt |-> command[c].startedAt,
                     collectedAt |-> command[c].collectedAt]}
              /\ settledIn' = AttachEntries(c)
  /\ Goto(c, Idle)
  /\ UNCHANGED ledger

\* The process dies, times out or loses the database; an open transaction is
\* rolled back.
Crash(c) ==
  /\ command[c].pc # "idle"
  /\ command' = [command EXCEPT ![c] = Idle]
  /\ UNCHANGED <<world, ledger, settledIn, settlements>>

-----------------------------------------------------------------------------

Proceed(c) ==
  \/ AccrueOrder(c)
  \/ ListRefunds(c)
  \/ AccrueRefund(c)
  \/ NextRound(c)
  \/ GenerateSelect(c)
  \/ GenerateCommit(c)

Next ==
  \/ Tick
  \/ \E o \in Orders : CompleteOrder(o)
  \/ \E r \in Refunds : SucceedRefund(r)
  \/ \E c \in Commands : Start(c) \/ Proceed(c) \/ Crash(c)

Spec == Init /\ [][Next]_vars

-----------------------------------------------------------------------------
(***************************************************************************)
(* Properties.                                                             *)
(***************************************************************************)

AllTotals == [gross : Nat, commission : Nat, refund : Nat, net : Int]

\* Every row and every command in progress has the shape its table or the
\* code gives it; no commission of a settlement is negative.
TypeOK ==
  /\ now \in Times
  /\ completedAt \in [Orders -> Times \cup {Never}]
  /\ refundedAt \in [Refunds -> Times \cup {Never}]
  /\ updatedAt \in [Refunds -> Times \cup {Never}]
  /\ entries \subseteq Entries
  /\ commissionRefund \in [Refunds -> Nat]
  /\ settledIn \in [Entries -> Periods \cup {NoPeriod}]
  /\ \A s \in settlements :
       /\ PeriodOf(s) \in Periods /\ s.totals \in AllTotals
       /\ s.startedAt \in Times /\ s.collectedAt \in Times
  /\ command \in [Commands -> Locals]

SettledEntries(p) == {e \in Entries : settledIn[e] = p}

\* A settlement's totals are those of exactly the entries that name it, and
\* its period has no second settlement, however many commands collected
\* entries at once while refunds added more (settlement_service.go Generate).
SettlementsBalance ==
  /\ \A s, t \in settlements : PeriodOf(s) = PeriodOf(t) => s = t
  /\ \A s \in settlements :
       LET es == SettledEntries(PeriodOf(s)) IN
       /\ es # {} /\ es \subseteq entries
       /\ s.totals = Totals(es)
       /\ s.totals.net = s.totals.gross - s.totals.commission - s.totals.refund
  /\ \A e \in Entries : settledIn[e] = NoPeriod \/ Settled(settledIn[e])

\* What the ledger owes by a period's end to a command that started and
\* collected when it did.  It speaks of the orders that had completed before the
\* start: their sales when the hold ended within the period, and, when it ended
\* by the period's end at the latest, their refunds that succeeded within the
\* period and before the collection.
Due(p, startedAt, collectedAt) ==
  LET old == {o \in Completed :
                MerchantOf[o] = p.merchant /\ completedAt[o] < startedAt}
      sold == {o \in old : completedAt[o] + Hold < p.end}
      refunded == {r \in Succeeded :
                     /\ OrderOf[r] \in old
                     /\ completedAt[OrderOf[r]] + Hold <= p.end
                     /\ updatedAt[r] < p.end /\ updatedAt[r] < collectedAt}
  IN  {Entry("REFUND", r) : r \in refunded}
        \cup (UNION {OrderEntries(o) : o \in sold})

\* A settlement leaves nothing behind that was due: the command has written
\* every missing entry before it collects them (cmd/generate-settlement), even
\* if other commands do the same, orders complete and refunds succeed
\* meanwhile, and the period is not over yet.
NothingMissed ==
  \A s \in settlements :
    \A e \in Due(PeriodOf(s), s.startedAt, s.collectedAt) : settledIn[e] # NoPeriod

\* A settlement is exactly what was due, to the fen.
SettlementsComplete == SettlementsBalance /\ NothingMissed

\* Once an order's refunds are all in the ledger, the commission given back
\* is the rounded share of what was refunded, whether the refund itself, a
\* repair by the command or two at once wrote the entries, in any order.
CommissionReversed ==
  \A o \in Orders :
    RefundsOf(o) \cap MissingRefunds = {} =>
      Total(RefundsOf(o), commissionRefund)
        = proportionalRefundCommission(o, SumOfRefunds(RefundsOf(o)))

\* The ledger is exact however often commands and refunds write it at once: the
\* settlements are what was due, and the commission given back what it must be.
LedgerExact == SettlementsComplete /\ CommissionReversed

\* The ledger is never rewritten: an entry stays with its amount, a settled
\* one stays in its settlement, and a settlement keeps its totals.
LedgerOnlyGrows ==
  [][/\ entries \subseteq entries'
     /\ settlements \subseteq settlements'
     /\ \A e \in Entries :
          settledIn[e] # NoPeriod => settledIn'[e] = settledIn[e]
     /\ \A r \in Refunds :
          Entry("REFUND", r) \in entries =>
            commissionRefund'[r] = commissionRefund[r]]_vars

=============================================================================
