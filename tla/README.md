# Formal model of the mall backend

TLA+ specifications of the parts of this backend where money, stock and
coupons can go wrong: several HTTP requests, three systemd jobs and the Alipay
gateway act on the same rows, database transactions are short, provider calls
happen outside them, and every call may fail, be repeated or arrive late.
TLC checks the specifications on small instances, and the TLA+ proof system
proves their safety properties for every value of their constants.

    tlc -workers 2 -config TradePayment.cfg MCTradePayment.tla
    tlapm TradePayment_proofs.tla

## Inventory

Paths are relative to `src/`. "Deep" marks the components whose correctness
depends on interleavings or failures.

| Component | State it keeps | Operations | What makes it hard / correct |
|---|---|---|---|
| Trade payment and cancellation (deep): `internal/service/{trade,payment,order_timeout}_service.go`, `alipay_*.go` | `trades`, `orders`, `payments`, `payment_allocations`, `product_skus.stock`, `user_coupons`, `coupons.used_quantity` | place, create payment, Alipay notification, sync, mock completion, cancel by buyer, cancel by job | provider asked outside the transaction, repeated notifications; a trade and its children move together, one payment settles it, stock and coupons come back once |
| Trade preview and placing (deep): `trade_service.go`, `trade_quote.go` | Redis preview token, `trades.idempotency_key`, cart hash | preview, create | token expiry, retry of a request whose answer was lost; one trade per token, at the previewed price |
| Pricing and commission: `internal/pricing`, `trade_quote.go` | none (pure) | subtotals, allocation of a discount, commission | rounding, overflow; parts add up and never exceed an item |
| After-sales and refunds (deep): `after_sale_service.go`, `refund_reconciliation_service.go`, `alipay_refund_gateway.go` | `after_sales`, `refunds`, `payment_allocations.refunded_amount`, payment and trade refund status, ledger entries | request, cancel, reject, approve, sync, reconcile | refund result unknown; merchant, sync and job retry at once; never refund more than was paid, book every refund once |
| Settlement ledger (deep): `settlement_service.go` | `settlement_entries`, `settlements` | accrue completed orders, accrue refunds, generate a period | reruns, entries that arrive after their period; each entry in one settlement, totals reconcile |
| Legacy single orders (deep): `order_service.go`, order part of the jobs | `orders` without trade | pay, cancel, confirm (preview and create go to `tradeService`) | same hazards as trades with fewer checks |
| Fulfilment: `merchant_order_service.go`, `order_completion_service.go` | `orders.status`, `shipments` | ship, confirm, complete by job | shipped against refunds, double completion |
| Coupons (deep): `coupon_service.go` | `coupons`, `user_coupons` | create, edit, claim, expire, use, release | limits under concurrent claims, an edit that saves the whole row; counters match the claims, a claimed coupon keeps its worth |
| Merchant inventory: `merchant_inventory_service.go` | `product_skus.stock`, inventory log | adjust, list | absolute edits against orders taking stock; the log explains the stock |
| Merchant catalogue: `merchant_catalog_service.go` | `categories`, `products`, `product_skus` | create, update, delete; on and off sale | checks read before they write, without locks; what is on sale can be bought, nothing hangs from a deleted row |
| Cart: `cart_service.go` | Redis hash | add, update, remove, list | read-modify-write |
| Buyer authentication (deep): `auth_service.go` | `users`, `user_auths`, Redis refresh tokens, failure counter | register, two ways to sign in, refresh, logout | checks before inserts, a token read and deleted in two calls, a counter without atomic expiry; one name is one user, guesses are bounded, no block and no race of refreshes is for ever |
| Merchant accounts (deep): `merchant_{auth,account}_service.go`, `internal/authorization`, `internal/middleware/merchant_auth.go` | `merchant_accounts`, Redis session versions and refresh tokens | login, refresh, create, change and reset accounts, check every request | a version in Redis beside a row in MySQL; an owner remains, a change ends the sessions from before it |
| Rate limiting: `internal/middleware/rate_limit.go` | Redis counters | let in, turn away | counting and expiry must be one step; no address is locked out for ever |
| Schema migration (deep): `internal/migration`, `cmd/schema-migrate` | `schema_migrations`, the schema itself, a named MySQL lock | up, down, verify, status | death or timeout between mark, execution and clearing, while the server goes on; the history never lies, steps stay in order |
| Trade backfill: `internal/trademigration` | `trades` for old orders | batches | interrupted and repeated against a live application |
| Addresses and favourites, public catalogue, reporting, HTTP layer, uploads and metrics | single rows, or none | edits and reads | nothing beyond one row (the default address apart) |

The components meet in the database. Placing a trade writes what payment and
cancellation read; a paid order is what fulfilment ships; a completed order is
what settlement accrues; a refund reverses payment, trade and ledger. The jobs
(`cancel-expired-orders` every minute, `reconcile-refunds` every five minutes,
`complete-shipped-orders` hourly) call the same services the handlers call.

## Modules

| Module | Contents |
|---|---|
| `Sale` | Abstract promise about the shelf: a trade reserves all its goods at once, then is sold or released once. |
| `TradePayment` | Trade, child orders, stock, coupons, payments, the Alipay side and the workers. |
| `MCTradePayment` | Instance for TLC: 3 trades, 2 merchants, 2 SKUs, 2 coupons, 2 payments; a fault budget. |
| `Refund` | After-sales and refunds of one paid trade: requests, review, the refund calls and their unknown results, the reconcile job, and the books. |
| `MCRefund` | Instance for TLC: an order of 1 + 2 fen with a commission of 2 fen, a second order that is not refunded, up to 3 after-sales. |
| `Refund_proofs` | Proofs of every safety property of `Refund`, and that all money paid is accounted for. |
| `Settlement` | The settlement ledger and the `generate-settlement` command: batches of missing entries, then the settlement of a period, several commands at once. |
| `MCSettlement` | Instance for TLC: one merchant, an order of 3 fen refunded in two parts, an order of 1 fen, two overlapping periods. |
| `Settlement_proofs` | Proofs of every property of `Settlement`, to the fen. |
| `TradeCreate` | Preview token, create requests and the cart of one buyer: retries, expiry, a changing offer, failing Redis and database. |
| `MCTradeCreate` | Instance for TLC: one token, two create requests, one device at the cart, 2 SKUs, 3 offers. |
| `LegacyOrder` | Orders with and without a trade side by side: payment, cancellation, the timeout job's batches, shipping and completion, refunds as they leave the rows, and the backfill that links them. |
| `MCLegacyOrder` | Instance for TLC: three orders, one of them completed and refunded in part, one abandoned. |
| `LegacyOrder_proofs` | Proofs of every safety property of `LegacyOrder`, for batches of any size. |
| `Catalogue` | The requests of a merchant's staff on categories, products, SKUs and stock, and the inventory log. |
| `Coupons` | Coupons and the buyers' claims: create, edit, claim, expire, use, release. |
| `Shelf` | `Catalogue` and `Coupons` composed with orders that take and return units and coupons. |
| `MCShelf` | Instance for TLC: 2 categories, 1 product, 2 SKUs, 2 members of staff, 1 coupon, 2 buyers, 1 order. |
| `Pricing` | The quote of one merchant's items: subtotals, goods amount, coupon, the split of its discount over the items, commission. |
| `MCPricing` | Instance for TLC: up to 4 items, amounts up to 18, a rate scale of 4. |
| `Checkout_proofs` | Proofs of every property of `Pricing`, for amounts of any size and any number of items, and of every safety and action property of `TradeCreate`. |
| `Staff` | The staff of a merchant: account rows and their locks, session versions, refresh tokens, and every request with one. |
| `MCStaff` | Instance for TLC: two accounts, three roles, two requests, two changes. |
| `Merchant_proofs` | Proofs of every property of `Staff`, for any number of accounts, roles, requests and changes, and of every property of `Shelf`, for any catalogue, coupons, orders and number of staff. |
| `SignIn` | Buyers: registration, sign-in, refresh tokens, the limit on wrong passwords and the one on an address. |
| `MCSignIn` | Instance for TLC: a name with a password and one of WeChat, two tokens, two requests. |
| `SignIn_proofs` | Proofs of every safety property of `SignIn`, for any limits and any number of names, tokens and requests. |
| `Migration` | The schema migration command: lock, history, loop over the files, and the MySQL sessions it works through. |
| `MCMigration` | Instance for TLC: the files of a release, of one with an edited file, of a branch, and of a build that has lost a file. |
| `Migration_proofs` | Proofs of every safety and action property of `Migration`. |
| `TradePayment_proofs` | Proofs of every safety and action property of `TradePayment`, and of `ImplementsSale`. |

### TradePayment and the code

A database transaction that starts by locking the trade (`FOR UPDATE`) or the
payment row is one action; whatever happens between two transactions, in
particular a call of Alipay, is an action of its own, and a worker keeps a
program counter and what it has read. So `tradeService.Cancel` is
`CancelStart` (unlocked read), `PrepareUserTradeForCancel` (second read),
`FindPaidPayment` / `RepairOrderFromPaidPayment` (money booked but trade
pending), `ListPendingPayments`, then per payment `QueryPayment`,
`ClosePayment`, `RequeryPayment`, and at last `CommitCancel`, the only one
under the trade's lock. `paymentService.Sync` is `SyncStart`, `SyncQuery`,
`SyncApply`; a cancellation that finds a paid payment joins it at `SyncQuery`.
`AlipayNotify` and `MockComplete` are single transactions. `QueryFails`,
`CloseFails` (before or after Alipay has executed the call) and `Crash` use up
a budget `MaxFaults`.

The Alipay side (`OpenPayUrl`, `BuyerPays`, `ProviderExpires`) is modelled from
how `alipay_gateway.go` uses it: a trade is unknown to Alipay until the buyer
opens the `pay_url`, which no call of ours precedes or prevents.

Abstractions: amounts are constants, since a payment copies them in the
transaction that creates it and nothing changes them; the buyer is one, since
every query filters by `user_id`; deadlines are nondeterministic (a trade may be
taken up by the job whenever it is pending). `completePayment` locks payment,
trade and orders, `Cancel` trade, orders and payments, so InnoDB may have to
abort one of two transactions that wait for each other. What it leaves is a
step that did not happen, in a request that ends with an error: that is a
`Crash` between two steps, or a notification that Alipay repeats, and
`TradesAndMoneySettled` holds with it.

### Refund and the code

`Refund` starts where `TradePayment` ends, at a paid trade whose orders may be
refunded in every later state, and keeps the rows `after_sales`, `refunds`,
`payment_allocations.refunded_amount`, the two ledger entries a refund writes,
and the status of payment and trade. The two modules are not composed: no
transition of the core leads out of the refund states.

| Code | Actions |
|---|---|
| `afterSaleService.Create` | `CreateStart` (looks for an earlier after-sale), `CreateInsert` (the unique `active_key` decides) |
| `Cancel`, `MerchantReject` | one conditional update each |
| `MerchantApprove` | `ApproveStart` (locks the after-sale; the first plain read fixes the snapshot of the reserved sum), `ApproveCommit` (under the allocation's lock) |
| `MerchantSyncRefund` | `SyncStart` |
| `refundReconciliationService.Run` | `ListRefundsForReconciliation`, then `NextRefund` for each one listed, whose status is not read again |
| `refundCoordinator.Process` | `QueryRefund`, `SubmitRefund`, then `FinalizeRefund`, `FailRefund` or `KeepUnknown`, each a transaction |

Approval is two actions because nothing sets an isolation level: under MySQL's
REPEATABLE READ the sum of reserved refunds is computed from a snapshot that is
older than the allocation's lock. Between the two the after-sale stays
`Locked`, so every other transaction on it waits; the other transactions lock
the after-sale first and are single actions. `CallFails` (a refund call
possibly after Alipay has executed it) and `Crash` use up `MaxFaults`.

Alipay (`ProviderStates`, `ProviderAllows`, `ProviderSettles`) is modelled from
`alipay_refund_gateway.go`: a refund number is refunded at most once, a repeated
request reports no change of funds, an accepted one may be settled later, the
refunds of a trade do not exceed what was paid, and any request may be refused.

Abstractions: an amount is a number of fen, and a sum over rows is the
cardinality of a set of fen; the payment's channel is chosen once (the WeChat
channel, which only fails, is left out); the time a refund is due again is
nondeterministic; provider transaction numbers, reasons and images are left
out.

### Settlement and the code

`Settlement` takes completion and refunds from the rest of the system as
`CompleteOrder` and `SucceedRefund` (which writes its entries, as `finalize`
does), and models `cmd/generate-settlement` step by step. The accrual loop is
`Start` and `AccrueOrder` for each row of the batch, `ListRefunds` and
`AccrueRefund`, and `NextRound`, which begins again until a round has scanned
nothing. `Generate` is a transaction in two steps: `GenerateSelect` locks the
entries it sums (`FOR UPDATE`, so a second command waits for them, and reads
what was committed), and `GenerateCommit` inserts the settlement, which the
unique key on the period may refuse, and attaches exactly the locked entries.

Time is counted in ticks, a command may take any number of them, and `Hold`
(`hold_days`, which may be 0) and `Ahead` are numbers of ticks: `Generate`
accepts a period that ends up to one minute after its own clock. Three things
are therefore not in a settlement although they belong to its period, and
`NothingMissed` says exactly where they begin: an order that completes after the
command started (with a hold of a day or more its sale cannot be due, because a
period ends at most a minute after a command that gives up after five), and a
refund that succeeds after the entries were collected, which matters when the
period was going on. Their entries stay unsettled, for a later period.
The rows of `settlements` carry the two times for this property only, as
history; the code has just `created_at`. Of a period that was over when the
command started, nothing is left behind. The third is the order whose hold ends
exactly with the period: its sale is not available yet, but its refunds are
collected, and `Due` says so. Time 0 is before the ledger existed: its orders and
refunds may lack entries, or half of them. As in `Refund`, a sum over rows is
the number of their fen; in a sum of signed entries, those added less those
taken.
Manual adjustments are not modelled: no code writes them. `Generate` refuses a
period in which more commission is given back than taken (`Refused`), which is
what happens to a merchant that only has refunds of settled orders left.

### TradeCreate and the code

`TradePayment!CreateTrade` is the placing transaction as the rest of the system
sees it; `TradeCreate` is everything around it that decides whether it runs.

| Code | Actions |
|---|---|
| `tradeService.Preview` | `Preview`: the token with the quote's fingerprint, pending for 15 minutes |
| `tradeService.Create`, up to the first lookup | `CreateStart` |
| `acquirePreview` | `AcquirePreview`: the Lua script, one step in Redis |
| second `findExistingTrade`, token missing | `Expired` |
| the transaction | `PlaceTrade`: quote under lock, fingerprint, insert under the unique key of buyer and token |
| after an error | `Recover`: the trade is there after all, or the token is given up |
| after the commit | `SaveResult`, `ClearCart` |
| `cartService` | `AddStart` and `AddWrite` (read and write are two Redis calls), `Update`, `DeleteItems` |

A request may ask for other goods than its token was previewed for, and for
the same ones in another order or in several lines: `normalizeTradeInput` makes
the basket a function from SKUs to quantities. `offer`
stands for all a quote is computed from (address, prices, stock, coupons,
merchants); a fingerprint is the pair of offer and goods, since SHA-256 of the
whole preview response is taken to be injective. `ChangeOffer` is anybody's
edit. `CommitUnanswered` is a transaction whose end the process does not learn
of in order; what became of it is decided at that moment. `RedisFails` covers
each Redis call, executed or not: only acquiring reports the error, the later
calls ignore it. `LookupFails` is the recovery's lookup failing, after which the
token is deleted though the trade may exist. `Crash` ends a request anywhere.
`Expire` takes no key away from a request that is using it: a token in
processing lasts 15 minutes and no request does. `told` is not in the code; it
records whom the code has told to preview again.

The stock that the cart's check compares with is the constant `MaxQuantity`:
the check does not bind anybody later. One buyer is modelled, since every key
and the unique index begin with the user's number.

### LegacyOrder and the code

Orders placed before there were trades have `orders.trade_id` NULL until
`go-mall-backfill-trades` has run, and both kinds share tables, jobs and
endpoints. `TradePayment` knows trades only; `LegacyOrder` knows one-order
trades and orders without one, and how each operation tells them apart.

| Code | Actions |
|---|---|
| `paymentService.Create` with the number of an order or of its trade | `CreatePayment`: `CreateLegacyOrderPayment`, or `CreateTradePayment` once the order is linked |
| `MockPayOrder` (the old button), `MockComplete`, `AlipayNotify` | the actions of these names; `CompletePayment` books for order or trade |
| `OrderHandler.Cancel` | `CancelStart` (`ResolveOrderTrade` chooses the route), then the steps of `PrepareUserOrderForCancel` or `tradeService.Cancel`, which are those of `TradePayment` |
| `orderTimeoutService.Run` | `JobStart` reads both batches; `NextListed` goes through them, whatever has become of the rows since |
| `orderService.Cancel`, `cancelOne`, the transaction of `tradeService.Cancel` | `CommitCancel`; they differ in what they ask of the row (`CanCancel`) |
| `Ship`, `Confirm`, `orderCompletionService.Run` | `Ship`, `Confirm`, `CompleteShippedOrder` |
| `refundCoordinator.finalize`, as far as payment, allocation and trade go | `FinalizeRefund` |
| `Service.Backfill` and the command | `BackfillStart` (source checks), `BackfillBatchStep` per transaction, `BackfillVerify`; `BackfillCrash` between two transactions |

`Quiet` and `Open` are the runbook's: the application's writes are kept away
from the database while the command runs. Without the first, TLC finds the
buyer's cancellation that looked up "no trade", is overtaken by the backfill
and cancels the order but not its trade. After an interruption the model lets
the application work on the half-linked rows before the command is repeated.
If a payment of a trade has been created meanwhile, the repetition is refused:
the source check `payments_missing_order` counts it, since its `order_id` is
NULL. The model has that guard, and nothing is promised about the end of the
backfill.

Shipping also asks whether the merchant is enabled, which can only refuse it.
It does not ask about refunds: `FinalizeRefund` is what the transaction of the
same name in `Refund` does to payment, allocation and trade, at any time after
the order was paid and linked, before, between and after shipping and
completion. An order completed before the backfill may have refunds without a
trade (`RefundedPart`); linking gives its payment an allocation and its trade
the refunded status, which is what `report.go` then verifies. Amounts are left out:
an allocation is whole, or something of it has been refunded. Two reads of one request (the status, then a paid payment) are one
step here, since `TradePayment` already has them apart.

### Catalogue, Coupons, Shelf and the code

A catalogue request checks what it reads and then writes, and most of them lock
nothing, so each is two steps: the action named after the service method
(`UpdateSKU`, say) does the reads and leaves in `staff[w]` which columns of
which row will be written; `Write` does the write, and `Abandon` is a request
that ends before it. Between the two anything may happen. `UpdateSKU` alone
locks a row first (`FindSKUForUpdate`, the field `holds`): until its write,
whatever else changes that SKU waits (`LockedSKU`), placing and cancelling
included. Deleting a product takes its SKUs along (`Cascade`), in one
transaction. `Updated` is what gorm's `Updates` does: the named columns, in a
row that has not been deleted. `AdjustStock` is one transaction under the
lock and one step.

| Code | Actions |
|---|---|
| `merchantCatalogService` | `CreateCategory` to `DeleteSKU` (the methods' names), then `Write` |
| `merchantInventoryService.AdjustStock` | `AdjustStock` |
| `couponService.MerchantCreate`, `Claim`, `Mine` | `MerchantCreate`, `Claim`, `ExpireUserCoupons` |
| `couponService.MerchantUpdate` | `MerchantUpdate` (locks and reads the row), `Save` (writes all its columns) |
| placing and cancelling, for one line and one coupon | `Place`, `Cancel` |

`editing[k]` is both the lock of a coupon's row and what the edit will save;
`Claim`, `Use` and `Release` start with the same lock and are one step each.
The log is kept as its sum per SKU. `Upward` is the chain of a category's
parents, written as the least set that is closed under `parent`, since the code's
loop over parents ends exactly when that chain does. `overtaken` is not in the
code; it remembers which requests under way have read before somebody else's
write. Of a coupon's amounts only
their equality matters (`terms`). Payment is left to `TradePayment`: here an
order holds its units and its coupon until it is cancelled. `promised` is not
in the code; it remembers what the coupon was when it was claimed.

### Staff and the code

`merchantAccountService.Update` and `ResetPassword` are transactions that hold
row locks while they talk to Redis, so each is several steps: `Update` (or
`ResetPassword`) locks and checks the row, `CountEnabledOwnersForUpdate` waits for
and locks the rows of all enabled owners, `Incr` counts the session version up,
which no rollback takes back, and `Commit` writes the row. Two that wait for
each other are a circle, one of which InnoDB rolls back (`DeadlockVictim`).
`Fail` is an error anywhere.

| Code | Actions |
|---|---|
| `MerchantAuth`, `RequireMerchantPermission` | `MerchantAuth` (reads the row, keeps the role), `CheckVersion` (reads the version); `Finish` for a request that changes nothing |
| `merchantAccountService.Create`, `Update`, `ResetPassword` | `Create`; `Update` or `ResetPassword`, `CountEnabledOwnersForUpdate` or `LastOwner`, `Incr`, `Commit` |
| `merchantAuthService.Login` | `Login` (the account), `ReadVersion`, `StoreToken` |
| `merchantAuthService.Refresh` | `Refresh` (the key), `CompareVersion`, `loadActiveAccount`, then as for a login |
| `merchantAuthService.Logout` | `Logout` |

An access token is not kept anywhere: `Signed` says that one exists for every
account with any version there has been. `revoked` is not in the code; it is
the version up to which a committed change has taken tokens back, namely those
from before its transaction began. A token made between `Incr` and `Commit`
carries the new version and outlives the change: the code allows that, and
`OldSessionsRefused` does not speak of it. Left out: passwords (a sign-in
starts where the password was right; failures are counted as in `SignIn`), the
merchant's own status, and the permissions other than the one to write
accounts.

### SignIn and the code

Each call of Redis or MySQL in `auth_service.go` is a step of its own.

| Code | Actions |
|---|---|
| `IPRateLimit` and its Lua script | `LetIn`, a part of every action that begins a request; `TurnedAway` |
| `PasswordLogin` | `PasswordLogin` (reads the counter), then `WrongPassword`, `CountFailure`, `ArmExpiry`, or `RightPassword`, `ClearFailures` |
| `Register`, `WechatMiniProgramLogin` | the actions of these names (look for the name), `CreateUserWithAuth` (one transaction, unique name) |
| `buildAuthResponse` | `StoreToken` |
| `Refresh` | `Refresh` (GET), `DeleteExchanged` (DEL), `StoreToken` |
| `Logout`, expiring keys | `Logout`, `ExpireToken`, `ExpireFailures`, `ExpireWindow` |
| errors the code ignores, errors it returns | `CounterUnread`, `ErrorIgnored`; `CutOff` |

One address at one endpoint is followed; requests of others have windows of
their own. `admitted` and `signedIn` are not in the code: how many requests the
window has let in, and who has a session that neither he nor time nor a fault
has ended. `ErrorIgnored` is a call that was not executed. Two requests with the
same refresh token may both exchange it and leave two tokens: no document says
that they may not, and what the properties promise is that nobody loses a
session by it. The staff's wrong passwords are counted by the same calls
(`merchantAuthService.Login`) under keys of their own.

### Pricing and the code

Pricing keeps no state between requests; the state machine is the calculation
itself, one step per loop or, where a loop carries a sum, per item. `phase` says
which function runs and how the quote ended: `quoted`, or refused by
`CalculateSubtotal` (`priceRefused`), `SumSubtotals` (`sumRefused`), the coupon's
conditions (`couponRefused`) or `AllocateOrderItems` (`splitRefused`,
`incomplete`).

| Code | Actions |
|---|---|
| `CalculateSubtotal` for each item | `CalculateSubtotals` |
| `SumSubtotals`, the search for the last positive item | `SumSubtotal`, `RefuseSum` |
| the coupon of a group in `buildTradeQuote` | `UseCoupon`, `RefuseCoupon`, `BeginSplit` |
| `AllocateOrderItems`, `multiplyDivideFloor` | `AllocateOrderItem`, `RefuseItem`, `EndSplit` |
| `calculateCommissionAmount` | `CalculateCommission` |

`goodsAmount[k]` and `remainingDiscount[k]` are the code's running sums as they
were after item `k`; keeping them all is what lets the proofs speak of sums
without induction over the items. `buildTradeQuote` does the subtotals of all
merchants first; which refusal comes first is all that depends on it. The
128-bit product of `multiplyDivideFloor` is a product of integers here. Its own
refusals ask for arguments that are then refused as a part that exceeds its
item. Freight is never set in the code and is left out, and a coupon's owner,
status and time belong to `TradeCreate` and `Coupons`.

### Migration and the code

A command is a process of `go-mall-schema-migrate`. Every action of it is one
statement sent through the connection that `withLock` sets aside:

| Code | Actions |
|---|---|
| `main`, `LoadFiles`, `ValidateMigrations` | `Runners` are the commands whose files pass; `Start` |
| `withLock` | `GetLock`, `LockTimesOut`; the deferred `Release` |
| `ensureMigrationTable`, `readApplied`, `ValidateHistory`, `Pending` | `ReadApplied`, which begins the loop with `Found` |
| the loops of `Up` and `Down` | `MarkDirty`, `Execute`, `Clear` per migration |
| an error return anywhere | `Fails` |

`Verify` and `Status` only read and are one operation here. What the code
relies on but does not say is where MySQL stands, so the server is part of the
model: a session keeps its named lock until it ends; a statement that has been
sent is executed (`ServerExecutes`) or fails (`ServerFails`) also when the
client has gone, and only then the server notices (`EndOrphan`); an idle session
may be dropped with its lock, unknown to the command (`ServerDrops`), whose next
statement then fails, since a `sql.Conn` does not reconnect. `ClientGone` is the
death of the process and the `-timeout`, which closes the connection.

The schema is kept per version, as the migration whose files made that part of
it, `Absent` or `Broken`. A migration executed where it does not belong breaks
the schema. One DDL statement is done or not done; a text of several may stop
in the middle, in which case the row stays dirty. A checksum is the pair of
texts. A dirty row is not repaired: no code does it, the runbook has an
operator do it by hand.

`ManyStatements` and `MultiStatements` are there because the driver refuses a
text of several statements unless the DSN says `multiStatements=true`, and the
DSN that `bootstrap.InitMySQL` builds does not.
`000011_make_payment_order_reference_nullable` is twelve statements, so `up` as
in the runbook (`docs/operations-runbook.md:61`) should fail there and leave the
row dirty; the integration test takes its DSN from the environment. In the
model this is the refusal in `Execute`, and both kinds of connection occur in
the instance.

## Runs

| Run | Question | Bounds |
|---|---|---|
| `trade_payment` | Do trade, children, payments, stock and coupons stay consistent under every interleaving, is a trade a `Sale`, is every abandoned trade settled and all collected money booked? | 66,745 states. Three trades: the first has a child order for each of two merchants and can be paid; the second competes with it for the last units, the third for its coupon as well; both cost nothing after their coupons, so they can be placed and cancelled but never paid. Two payments, so that a closed one is followed by another. One buyer worker, one job worker: two cancellations of one trade, or a cancellation and a sync, at once. One fault. Two trades that are both payable at once are left to the proofs. |
| `trade_payment_race` | Can a cancelled trade be one that Alipay has collected the money for? (It can.) | the instance of the first run |
| `refund` | Are refunds booked once, and do after-sale, refund, allocation, ledger, payment and trade agree, whatever answers come late, and does every refund that was sent out end? | 61,406 states. One order of two items (1 and 2 fen, so that a commission of 2 fen of 3 does not divide evenly), two after-sales, so that one item is asked for twice or both are refunded; both channels; one buyer, one merchant and one job worker, one fault. |
| `refund_overdrawn` | Can Alipay refund more than an order's allocation? (It can.) | two buyer devices, two merchant workers, a second order that leaves room in the payment |
| `settlement` | Does every settlement balance with exactly its entries, miss nothing that was due, and stay as it is? | 697,957 states. Two commands, batches of one row, two periods that overlap, a hold and a tolerance of one tick each, so that the second period may be going on when it is settled; legacy orders and refunds in every combination, with refunds of the same moment. Commands are symmetric and may die at any time. |
| `trade_create` | Can a repeated, interrupted or late create request buy twice, buy something else, or lose the cart or the token? | 250,155 states. One token (tokens share only the cart), two requests and one cart device at once, two SKUs, two offers and one with nothing for sale, quantities up to 2, two faults (a lost commit and a failed lookup, say). |
| `legacy_order` | Do orders with and without a trade keep order, trade, payments, allocations, shipment, coupon and stock consistent through payment, cancellation, shipping, refunds and an interrupted backfill, and does the job get through its queue? | 169,170 states. Three orders: one completed and refunded in part, one whose buyer pays, cancels and syncs, one abandoned; the last two with coupons of one kind. Two new payments, so that a closed one is followed by another. Batches of one, for the job and the backfill, so that the queue and the half-linked state occur. One buyer worker, one job worker, one fault. |
| `shelf` | What can leave a product on sale without a SKU, below a deleted row, or categories in a circle? Does the inventory log explain the stock, do coupon counters match the claims, and does a claimed coupon keep its worth? | 294,902 states. Two members of staff at once, who begin up to three edits of any kind (`MaxEdits`), which is enough for two requests that undo each other's checks and one before, between or after them. The shop is empty or one that the same requests have built: with a draft product, an enabled SKU and one category below the other, or with a product on sale and two enabled SKUs, one in stock. One coupon (four forms it can be given), two claims, two buyers, one order of one unit, two moments. Staff, claims and buyers are symmetric. |
| `pricing` | Does every quote add up, stay in range, and is it refused for good reasons only? | 238,623 states, every quote of up to four items at prices 0, 1 or 5, quantities 1 or 4, seven coupons or none and three rates. The largest amount is 18, so that a single subtotal (20) and sums get out of range; four items are the first number at which the fractions left over exceed the last item by two. |
| `migration` | Does the history table always tell the truth about the schema, is the schema changed by one command at a time and in order, and is the lock always freed? | 140,001 states. Four sets of files, of which one is refused: three versions with a text of many statements last, one that shares the first version and has another text for the second, a branch without the second version whose connection accepts many statements. The three commands run again and again, in any order and at once, and fail, die or lose their connection without limit. |
| `staff` | Does an enabled owner always remain, are tokens from before a change refused, and do only owners' requests touch owners and admins? | 319,022 states, up to exchanging accounts and requests. Two accounts, absent or of any of three roles (one that may do everything, one that manages the lesser ones, one of these; the two others are like the last), two requests at once, so that two owners can take each other away and wait for each other's rows, two changes, so that a token can be older than one and newer than the other. Any step may fail. |
| `sign_in` | Do limits hold for requests that run at once, is a name one user, does no race of refreshes lose a session, and does every block end? | 340,828 states. Two requests, a name with a password and one of WeChat, two user ids and two tokens, two wrong passwords, two admissions per window, one fault. The limits are lower than in the code (5 wrong passwords; 20 sign-ins and 60 refreshes a minute by default): what matters is that requests meet at the last one. |

Two workers are enough for the pairs of requests that can meet on one trade:
every transaction rereads the rows under lock, and what a third worker could
do (open, pay, notify, complete) is an action of the environment that is
always enabled.

Fairness of `trade_payment`: a request that was started runs on (the
process is scheduled and calls time out); the job takes up a pending trade
again, since `go-mall-cancel-expired-orders.timer` starts it every minute and
its query returns every expired trade; Alipay repeats its notification until
it is acknowledged. Nothing is assumed of the buyer. The batch limit of the
job's query is not modelled here but in `LegacyOrder`.

Fairness of `refund`: a started request runs on and is not starved of row
locks, which InnoDB grants in turn (strong fairness of `Proceed`);
`go-mall-reconcile-refunds.timer` starts the job every five minutes, and its
query orders by the time of the last attempt, so each due refund is listed
again and again; Alipay settles what it has accepted. With one buyer worker no
item gets two refunds; in the race of `refund_overdrawn` the last refund stays
pending for ever, since its booking is refused each time.

Fairness in `trade_create`: a started request runs on, and Redis expires keys.
`TokenSettles` rests on the second for requests that crash. The run checks
safety and this one liveness property together; nothing else needs fairness.

Fairness of `legacy_order`: the job is started again and again and runs on, as in
`trade_payment`, and so does a backfill that was started. Neither notifications
nor buyers' requests are relied on: the first may all be lost, and the second may
hang wherever they are. `PendingOrderResolved` holds with batches of one, because an
order leaves the queue when it is paid or cancelled and single failures are
bounded (`MaxFaults`); a row whose cancellation fails for ever would block the
queue, and nothing in the code prevents that.

Fairness of `sign_in`: a request that has counted a wrong password makes its next
call, which sets the expiry, and Redis deletes keys whose time is over. That
call may fail once in the instance, and less often than the limit in general
(`SignInAssumption`): if every EXPIRE of a name's wrong passwords were lost, the
name would stay blocked. Nothing is assumed of the buyers. `staff` has no
liveness: its requests end by themselves, and nothing waits for them.

Fairness of `migration`: a command that has begun runs on or is seen to have
gone, which is what its own timeout (10 minutes) and the 30 seconds of `GET_LOCK`
make of it, and MySQL ends what it executes. Nothing makes a command start, and
`LockFreed` promises no single command that it gets the lock: `GET_LOCK` gives
up.

### Findings and known behaviour

Two runs refute what the documents say:

`NoMoneyForCancelledTrade` states what `README.md:397` says: the job queries
and closes at Alipay first, and takes no risk. TLC refutes it: the list of
payments is read before the trade is locked, so a payment created, opened and
paid after it escapes; and a payment Alipay does not know yet counts as closed
although its link still works. The cancelling transaction then closes a
payment whose money has been taken; the notification is refused and nothing
refunds it. `CollectedMoneyBooked`, a part of `TradesAndMoneySettled`, therefore
excepts closed trades.

`WithinAllocationAtProvider` states `docs/m8-multi-merchant-domain-design.md:310`:
concurrent refunds do not exceed an allocation. Two things combine against it.
`Create` checks for an earlier after-sale and inserts later, and the unique key
that backs the check is freed when the earlier one is refunded; so an item can
be refunded twice. The sum that should catch it is read from an old snapshot
when two approvals of one order run at once. The local books stay within the
allocation (`EveryRefundBookedOnce`, a part of `RefundsAgree`), because
`IncreaseAllocationRefundedAmount` is conditional, but the money has been sent by then.

`RefusedForFractions` states what the code does where no line says what it
should: three items of 1 fen and a coupon of 2 off 3 cannot be ordered together.
Each of the first two gets 2/3 of a fen, rounded down to nothing, the last one
would get 2 of its 1 fen, and `AllocateOrderItems` refuses the quote, though the
coupon's conditions hold. The backfill of old orders (`bootstrap/migrate.go:66`)
would stop at such an order. The theorem `OnlyFractionsRefused` says that
nothing else is ever refused and that it takes at least three items.

Two more disagreements with the documents are within the models, but no run is
spent on them; each is seen by stating the sentence as a property.

* `docs/remaining-development-and-acceptance-plan.md:295` has Alipay and the local
  books agree on what was refunded. If two workers send the same refund, one is
  refused and records it, and the other one succeeds, the success cannot be
  booked: `finalize` (`refund_reconciliation_service.go:166`) refuses a failed
  refund, the job does not list it and sync does not take it. Only another
  approval by hand would find out. In `Refund`: a provider that has refunded and
  a row that is failed, with no worker on it.
* `README.md:266` has the last sellable SKU of a product on sale neither disabled
  nor deleted. `UpdateSKU` and `DeleteSKU` (`merchant_catalog_service.go:643`)
  count the other enabled SKUs without locking them or the product; two requests
  that each take one of two SKUs away count each other's and both pass.
  So `CatalogueSound`, which contains the sentence (`LastSKUStays`), is no
  invariant: checked as one under `Shelf.cfg`, it fails after two requests and
  four steps. What does hold for any number of staff is `OnlyRacesSpoil`, which
  says how far the damage goes: only the write of a request whose checks another
  request's write has overtaken can spoil a sound catalogue, and even then not
  one that takes a product from sale, deletes it with its SKUs, or enables a SKU
  under its lock. The same holds for categories that are deleted below a new
  product or made each other's parents. The log and the coupons rest on locks
  and stay exact through such races (`CountersExact`).

## Proofs

`TradePayment_proofs` proves, from the constants' assumptions alone (goods,
prices and coupons of a trade are well typed, a merchant group uses a coupon of
that merchant, a placed trade has goods), for any number of trades, merchants,
SKUs, coupons, payments and workers:

| Theorem | Property |
|---|---|
| `TypeCorrect` | `TypeOK` |
| `MovesWhole`, `SettledByOnePayment`, `SettledWhole` | `TradeMovesWhole`, `PaymentSettlesTrade`, and both as `TradeSettledWhole`, which the run checks |
| `ClosedThereFirst`, `ChargedOnce`, `MoneyOnce` | `ClosedHereClosedThere`, `NoDoubleCharge`, and both as `MoneyTakenOnce`, which the run checks |
| `CouponsAlwaysExact`, `StockAlwaysConserved`, `HoldingsAlwaysExact` | `CouponsExact`, `StockConserved`, and both as `HoldingsExact`, which the run checks |
| `SettledForever` | `SettledStays` (no settled trade or payment changes; on the side of the trade TLC checks it as part of `ImplementsSale`) |
| `Refinement` | `ImplementsSale` |

The argument: `NoDoubleCharge` is not inductive, because nothing in it says why
an older payment of the trade cannot be paid any more. The invariant
`IInv == Sane /\ SeenTrue /\ Booked` adds (a) that rows refer to rows that
exist and what a worker holds fits its program counter, (b) `SeenTrue`: what a
sync is about to apply is final at Alipay, so the time it has been waiting does
no harm, and (c) `AllButOneRetired`: all payments of a trade but one are closed
at Alipay, or closed and of the mock channel. Every action changes the rows in
one of six ways (`Quiet`, `CreateTrade`, `CreateTradePayment`, `Completed`,
`ClosedAtProvider`, `Cancelled`); the proof shows that first and then preserves
each part of the invariant under the six. Stock is counted in units, so
`StockAlwaysConserved` also carries that the held units are finite, and the
coupon counters are the cardinality of the coupons in use.

`Checkout_proofs` proves of `Pricing`, from the ranges of the inputs and
`BasisPoints * BasisPoints <= MaxInt64` (10,000 squared fits in an int64):

| Theorem | Property |
|---|---|
| `AmountsInRange` | `PricingTypeOK` |
| `QuotesAddUp` | `QuoteAddsUp` |
| `OnlyFractionsRefused` | `RefusedForFractions` |

The argument: nothing in `AllocateOrderItems` says that the last item can take
the remainder, so the invariant bounds it. `Leftover(k)`: after `k` items,
`remainingDiscount[k]` is at least what the items to come are due and at most
that plus a fraction of a fen for each item before. The lower bound shows that
no item but the last is ever refused, the upper one by how much the last one
can be overcharged, and at the last item both meet at zero, so that the check
for an incomplete split never fails. `SumsSane` has the sums and where the last
positive item is. The arithmetic (division, products) is in lemmas of its own.

`Migration_proofs` proves, from the constants' assumptions (versions are
positive, names are distinct), for any number of commands and any files:

| Theorem | Property |
|---|---|
| `TypeCorrect` | `TypeOK` |
| `HistoryTruthful` | `HistoryTellsSchema` |
| `AppliedInOrder` | `StepsInOrder` |
| `OneAtATime` | no two sessions execute migrations at once |

The argument: the runner reads the history once and then trusts it through the
whole loop. `Locked` says who holds the lock: every command in its loop whose
session is open, and every session that executes something, orphaned or not.
So there is at most one, and what it knows stays true: `Ahead`, at the head of
the loop the history is exactly the clean prefix of the command's files up to
what is left to do; `AtItem`, past it, the same with one dirty row at its end;
and `Before` and `After`, what the schema has of that version. `Gapless` carries
`Ahead` from one round to the next in both directions: what is left to do has no
hole. `ExecutingAt` keeps the same for a session whose command has died, which
is why the lock must outlive the command. No induction over the loop is needed.

`Merchant_proofs` proves of `Staff`, from the constants' assumptions (roles are of those the
code has, there are finitely many accounts, nobody is neither a request nor an
account), for any number of accounts, requests and changes:

| Theorem | Property |
|---|---|
| `TypeCorrect` | `TypeOK` |
| `OwnerAlwaysRemains` | `OwnerRemains` |
| `DeadRefused` | `OldSessionsRefused` |
| `SeniorsProtected` | `SeniorsChangedByOwners` |

The argument: none of the properties says what a transaction relies on between
its checks and its commit. `Inside(r)` does: the row that `r` changes is locked
by `r`, so no two transactions have the same one, and what `r` was permitted to do
when it read the row is still permitted. `Spares(r)`: when `r` takes an owner
away, it has locked another enabled owner, who therefore is one until `r`
commits; counting the owners under `FOR UPDATE` is what gives it that row.
`Counts(r)` and `Counted` relate the version to the changes that are begun: it is
counted up after a row was locked and before its change commits, so no version
that a committed change took back can still be the current one; and
`Outside(r)`, that a request which came with such a version is still before its
check. Every step is one of seven (`StepsSorted`): most change no row (`Quiet`),
begin a transaction (`Begun`) or end one (`RolledBack`).

The same module proves of `Shelf`, from the constants' assumptions (whatever is
not there has no stock, stocks are natural numbers, a coupon's total and limit
are at least one, rows and what stands for none differ), for any categories,
products, SKUs, coupons, buyers and orders:

| Theorem | Property |
|---|---|
| `ShelfTypeCorrect` | `ShelfTypeOK` |
| `CountersAlwaysExact` | `CountersExact`, for any number of staff at once |
| `OnlyRacesSpoilCatalogue` | `OnlyRacesSpoil`, for any number of staff at once |

The argument: `CountersExact` says nothing of requests between their read and
their write. `WriteFits` does: a request that is to write the stock of a SKU is
the only one that holds its row, and what it will log is the difference to the
stock the row still has, because orders that would change it wait for the row;
a request that inserts a SKU is the only one on it. `EditFits` says the same of
coupons: while an edit is under way its coupon's counters are those it read, and
it still may change what it changes. Counters are cardinalities of the claims,
which gain or lose one claim at a time; `OrdersUseClaims` keeps every order on a
claim of its own, so that what is given back was used. `OnlyRacesSpoilCatalogue`
rests on `RequestsHold`: of a request that no write has overtaken, what it has
checked still holds (`Waiting`), whether or not the catalogue is sound, so its
write leaves a sound one sound; a `Harmless` write does so whatever it has read.
`Grounded` says that the way up from a category ends at a root through rows that
are there, without an induction over its length: the categories above one are the
least set that leads up from it.

`Refund_proofs` proves, from the constants' assumptions (an order's items add up
to at most its allocation, a commission is no more than that, amounts have a
bound), for any number of orders, items, after-sales and workers and amounts of
any size:

| Theorem | Property |
|---|---|
| `TypeCorrect` | `TypeOK` |
| `AllRefundsAgree` | `RefundsAgree` |
| `NothingLost` | what succeeded refunds gave back and what is left of the allocations are together the payment |

The argument: a row of a refund is decided in one transaction and booked in
another one, with calls to the provider between them. `Fits` says what a request
in between relies on: an approval's after-sale can still be approved, because
its row is locked (`OneApproves`), and a refund that is about to be booked has
been paid at Alipay, which never takes that back. Every step is one of four
kinds: it books nothing (`Unbooked`), books one refund (`Booked`), reads, or moves
rows that are not booked. Sums are numbers of fen, so that booking a refund is
adding one set of fen to another one. That the payment's status says whether all
has been refunded would take an induction over the orders; `AllAccounted` takes
its place: the fen that are not refunded yet are a set too, and a booking moves
fen from one set to the other.

`Settlement_proofs` proves, from the constants' assumptions (orders and refunds
are finitely many and have ids, amounts are positive and bounded, an order's
commission is no more than its price, periods end after they start, `batch_size`
is at least one), for any number of orders, refunds and commands, amounts of any
size, any hold, any tolerance for periods ahead and commands of any length:

| Theorem | Property |
|---|---|
| `TypeCorrect` | `TypeOK` |
| `SettledExactly` | `LedgerExact` |
| `NothingRewritten` | `LedgerOnlyGrows` |

The argument has three parts. That nothing is missed rests on order in time: a
round that scanned nothing has seen every order that had completed when the
command started written (`OrdersWritten`) and no refund missing, and refunds
that succeed from then on write their own entries; so what is due is there to be
collected (`DueEligible`). What was due to a command that has collected does not
change any more (`DueKeeps`), whether its period is over or not. That totals belong to their entries rests
on the locks: what commands hold is disjoint (`OneCollects`), unsettled and still
all that is due (`Collected`). And that commissions are given back exactly rests
on order: refunds that succeed since the ledger exists step up the share of the
sum so far, one after the other in the order of their commits
(`LaterReversed`), while repairs write those from before it in any order, each
from what those with smaller ids refunded. `Telescope` adds these up: where a
data induction would be needed, it takes the least id at which the sums differ,
which well-founded orderings of finite sets provide (`Least`, `Bounded`).

`Checkout_proofs` proves of `TradeCreate`, from the constants' assumptions (no quote and no
token are neither quotes nor tokens, the stock bounds the cart), for any number
of tokens, offers, baskets, requests and devices:

| Theorem | Property |
|---|---|
| `TypeCorrect` | `TypeOK` |
| `BoughtOnce` | `BoughtOnceAsPreviewed` |
| `CartKept` | `CartKeptUntilBought` |

The argument: that nobody who was told to preview again has bought anything is
not inductive, because a request still at work could place the trade later. The
invariant follows the token: `Fresh`, what is pending has bought nothing and
nobody was sent away from it; `Held` and `OneHolder`, from the script to the
recovery one request has the token, it is in processing all the time, and nobody
was sent away; so a request that finds the token missing, and whoever is told
after it, comes after everything that could place (`RequestSound`). Each step of a
request either touches nothing the others rely on (`Alone`) or changes the token
that it holds or takes (`WithToken`), which nobody else is at work with. A request
that clears the cart knows that what it takes out is what the trade has.

`LegacyOrder_proofs` proves, from the constants' assumptions (an old payment is
that of one refunded order, coupons and quantities are of orders, batches are not
empty), for any number of orders, payments, workers and interruptions:

| Theorem | Property |
|---|---|
| `TypeCorrect` | `TypeOK` |
| `OrderWhole` | `OrderKeptWhole` |
| `BackfillPasses` | `BackfillVerifies` |

The argument: that an order, its payments and its trade tell one story says
nothing of what may still be paid, of keys and allocations, or of what a request
knows. `Sound` adds, for each order, that at most one payment is pending and only
while the order is, that a payment has a trade exactly when its order has one, and
which keys it then holds (`RowSound`); that gives `NothingPending`, which looks at
the key of one kind only, its force, and makes the backfill's own checks pass.
`Fits` adds that the route a request or a job has chosen, and the lists it works
through, still fit the orders: the backfill starts only when nobody is under way,
and while it runs nobody starts, which is what the runbook's quiet window is for.
Each step rewrites the rows of one order (`Touches`, `OneOrder`), except a batch of
the backfill, which is `Same` for the orders outside it and told by `HistoryTold`
for those within. `SomeOldest` says that a batch is empty only when every order is
linked, so that verification starts with nothing left. `GivesBack` counts: units
and coupons are cardinalities of sets that gain or lose one order.

`SignIn_proofs` proves, from the constants' assumptions (requests are finitely
many, limits are at least one, no user and no token are neither users nor
tokens; that there are fewer failures than `Limit` is for `BlocksEnd`, and no
proof uses it), for any number of names, users, tokens and requests:

| Theorem | Property |
|---|---|
| `TypeCorrect` | `TypeOK` |
| `LimitsAlwaysHold` | `LimitsHold` |
| `BuyersAlwaysKept` | `BuyersKept` |

The argument: a count of wrong passwords passes the limit because requests check
it before they count, so the bound on the count alone is not inductive.
`GuessesCounted` bounds the count together with the requests that have passed the
check and have not counted yet (`Guessing(n)`): to count is to leave that set, to
pass the check needs a count below the limit, when even all requests guessing
stay within the bound, and a check that could not be read adds one to the set
and to the failed calls (`GuessStep`). `WindowSound` says that no more requests
were let in than were counted and that a window which has counted has an expiry.
For sessions, `Fits` says that the token a request is about to exchange is still
its user's or gone already, whoever deleted it; so what the deletion takes away
is what the request itself is about to replace. A user who loses a request to a
crash at that point is one whose session has ended. What is left of `BuyersKept`
rests on the unique name and on the transaction that inserts user and name
together.

Liveness and the refuted claims are the business of TLC only: liveness is out of
this prover's reach (`TokenSettles`, `BlocksEnd`, and what the other runs state
with `~>`), and of a refuted claim there is nothing to prove. Every safety and
action property that a passing run checks is stated by a theorem.

## Plan

In order of what matters most to the system:

1. `TradePayment` with `Sale`: done, checked and proved.
2. `Refund`: done, checked and proved.
3. `Settlement`: done, checked and proved.
4. `TradeCreate`: done, checked and proved.
5. `Pricing`: done, checked and proved.
6. `LegacyOrder` with fulfilment, refunds, the job's batches and the backfill:
   done, checked and proved.
7. `Catalogue`, `Coupons` and `Shelf`: done, checked and proved.
8. `Migration`: done, checked and proved.
9. `Staff`: done, checked and proved.
10. `SignIn`: done, checked and proved.

## Not modelled

* Addresses and favourites: edits of the buyer's own rows. Whatever makes an
  address the default first clears the default of all the buyer's addresses, and
  thereby locks them, in the same transaction. What an order needs of an address
  is copied when it is placed; until then an edit is `ChangeOffer` of
  `TradeCreate`.
* `UpdateProfile`, and the names, prices, pictures and texts of catalogue rows: no
  step that is modelled tells them apart.
* `orderService.Preview` and `Create`: no route reaches them since the handler
  calls `tradeService`; their tests still do.
* The public catalogue and the merchants' pages: reads. The product page is kept
  in Redis for a fixed time and may be stale that long; placing reads the tables
  again.
* Reports, HTTP decoding, configuration, uploads and metrics: no state that two
  steps share.
* The lock order of transactions, except in `Staff` and `Catalogue`, where locks
  are held across steps: elsewhere a transaction is one step, and one that InnoDB
  aborts is a step that did not happen.
* Amounts in `TradePayment`, `LegacyOrder` and `Coupons`, where rows copy them
  and nothing recomputes them; `Pricing`, `Refund` and `Settlement` have them.
