---------------------------- MODULE TradeCreate ----------------------------
(***************************************************************************)
(* Placing a trade: a preview leaves a token with the quote's fingerprint  *)
(* in Redis, and a create request exchanges the token for the placing      *)
(* transaction and takes the goods out of the cart.  Requests are repeated *)
(* and cut off, the offer changes meanwhile, Redis keys expire, and calls  *)
(* of Redis and the database fail.  One buyer, whose devices act at once.  *)
(***************************************************************************)
EXTENDS Integers, Sequences, FiniteSets

CONSTANTS
  Tokens,        \* preview tokens, each handed out by one preview
  Offers,        \* what address, prices, stock and coupons may be like
  NotForSale,    \* the offer under which no quote can be made
  SKUs,
  Baskets,       \* what a client may send: SKUs in any order, some repeatedly
  MaxQuantity,   \* what the stock of a SKU allows in the cart
  Requests,      \* create requests that may run at once
  Devices,       \* workers that run cart requests
  MaxFaults,     \* bound on failed calls and process crashes
  NoQuote, NoToken

\* Every SKU once, with the units of it.
normalizeTradeInput(items) ==
  [s \in {items[i] : i \in DOMAIN items} |->
     Cardinality({i \in DOMAIN items : items[i] = s})]

Inputs == {normalizeTradeInput(items) : items \in Baskets}

\* All that the buyer is shown, and all that the fingerprint is made of.
Quotes == (Offers \ {NotForSale}) \X Inputs

ASSUME TradeCreateAssumption ==
  /\ Baskets \subseteq Seq(SKUs) \ {<<>>}
  /\ NotForSale \in Offers
  /\ MaxQuantity \in Nat
  /\ MaxFaults \in Nat
  /\ NoQuote \notin Quotes
  /\ NoToken \notin Tokens

-----------------------------------------------------------------------------

VARIABLES
  offer,      \* the offer in force
  token,      \* the Redis key of each token
  previewed,  \* the quote that each token was handed out with
  trades,     \* trades[k]: the quotes of the trades placed with token k
  told,       \* tokens whose buyer has been told to preview again
  cart,       \* the Redis hash of the buyer's cart
  request,    \* the create requests in progress
  adding,     \* the cart additions in progress
  faults

redis == <<token, cart>>
vars == <<offer, redis, previewed, trades, told, request, adding, faults>>

TokenStates == {"missing", "pending", "processing", "trade"}

Steps == {"idle", "acquire", "expired", "place", "recover", "save", "clear"}

\* again: the error the request will return asks for a new preview.
Locals ==
  [pc : Steps, token : Tokens \cup {NoToken}, input : Inputs \cup {NoQuote},
   again : BOOLEAN]

Idle == [pc |-> "idle", token |-> NoToken, input |-> NoQuote, again |-> FALSE]

\* sku: what is being added, read: the quantity the cart had before.
NoAddition == [sku |-> {}, read |-> 0]

Init ==
  /\ offer \in Offers
  /\ token = [k \in Tokens |-> "missing"]
  /\ previewed = [k \in Tokens |-> NoQuote]
  /\ trades = [k \in Tokens |-> <<>>]
  /\ told = {}
  /\ cart \in [SKUs -> 0..MaxQuantity]
  /\ request = [r \in Requests |-> Idle]
  /\ adding = [d \in Devices |-> NoAddition]
  /\ faults = 0

-----------------------------------------------------------------------------

FindTradeByIdempotencyKey(k) == trades[k]

Placed(k) == FindTradeByIdempotencyKey(k) # <<>>

\* The address exists, everything asked for is sold and in stock, the coupons
\* can be used.
CanQuote == offer # NotForSale

Goto(r, locals) == request' = [request EXCEPT ![r] = locals]

Step(r, pc) == Goto(r, [request[r] EXCEPT !.pc = pc])

Answer(r) == Goto(r, Idle)

SetToken(k, state) == token' = [token EXCEPT ![k] = state]

\* The rest of the world between two steps of a request.
Rest == UNCHANGED <<offer, previewed, cart, adding, faults>>

\* Any of the rows that a quote is made of changes.
ChangeOffer(o) ==
  /\ offer # o
  /\ offer' = o
  /\ UNCHANGED <<redis, previewed, trades, told, request, adding, faults>>

\* Preview: the token is new, and valid for 15 minutes.
Preview(k, items) ==
  /\ previewed[k] = NoQuote
  /\ CanQuote
  /\ previewed' = [previewed EXCEPT ![k] = <<offer, normalizeTradeInput(items)>>]
  /\ SetToken(k, "pending")
  /\ UNCHANGED <<offer, trades, told, cart, request, adding, faults>>

-----------------------------------------------------------------------------
(***************************************************************************)
(* Create.                                                                 *)
(***************************************************************************)

\* A trade of the token would be the answer at once.
CreateStart(r, k, items) ==
  /\ request[r].pc = "idle"
  /\ previewed[k] # NoQuote
  /\ ~Placed(k)
  /\ Goto(r, [pc |-> "acquire", token |-> k,
              input |-> normalizeTradeInput(items), again |-> FALSE])
  /\ Rest /\ UNCHANGED <<token, trades, told>>

\* The script changes a pending token in the step that reads it.
TakeToken(k) == SetToken(k, "processing")

AcquirePreview(r) ==
  /\ request[r].pc = "acquire"
  /\ LET k == request[r].token IN
     \/ /\ token[k] = "pending"
        /\ TakeToken(k)
        /\ Step(r, "place")
     \/ /\ token[k] = "missing"
        /\ Step(r, "expired")
        /\ UNCHANGED token
     \/ /\ token[k] \in {"processing", "trade"}
        /\ Answer(r)
        /\ UNCHANGED token
  /\ Rest /\ UNCHANGED <<trades, told>>

\* Mutant: an expired token is taken at its word.
NotLooking(k) == FALSE

\* findExistingTrade after the token was missing.
FoundAfterAll(k) == Placed(k)

Expired(r) ==
  /\ request[r].pc = "expired"
  /\ LET k == request[r].token IN
     told' = IF FoundAfterAll(k) THEN told ELSE told \cup {k}
  /\ Answer(r)
  /\ Rest /\ UNCHANGED <<token, trades>>

\* Mutant: whatever can be sold is sold.
AnyQuote(r) == CanQuote

\* The quote made under the row locks has the previewed fingerprint.
SameFingerprint(r) ==
  /\ CanQuote
  /\ <<offer, request[r].input>> = previewed[request[r].token]

\* The unique key of user and token.
Insert(r) ==
  /\ ~Placed(request[r].token)
  /\ trades' = [trades EXCEPT ![request[r].token] =
                  Append(@, <<offer, request[r].input>>)]

PlaceTrade(r) ==
  /\ request[r].pc = "place"
  /\ \/ /\ SameFingerprint(r)
        /\ Insert(r)
        /\ Step(r, "save")
     \/ /\ SameFingerprint(r)
        /\ Placed(request[r].token)
        /\ Step(r, "recover")
        /\ UNCHANGED trades
     \/ /\ ~SameFingerprint(r)
        /\ Goto(r, [request[r] EXCEPT !.pc = "recover",
                                      !.again = CanQuote])
        /\ UNCHANGED trades
  /\ Rest /\ UNCHANGED <<token, told>>

\* What the buyer learns when the token has been given up.
Tell(r) ==
  told' = IF request[r].again THEN told \cup {request[r].token} ELSE told

\* Mutant: the goods leave the cart whatever came of the request.
ClearAnyway(r) == Step(r, "clear")

AfterRecovery(r) == Answer(r)

\* After an error: the trade may be there all the same; if not, the token is
\* given up.
Recover(r) ==
  /\ request[r].pc = "recover"
  /\ LET k == request[r].token IN
     \/ /\ Placed(k)
        /\ SetToken(k, "trade")
        /\ UNCHANGED told
     \/ /\ ~Placed(k)
        /\ SetToken(k, "missing")
        /\ Tell(r)
  /\ AfterRecovery(r)
  /\ Rest /\ UNCHANGED trades

SaveResult(r) ==
  /\ request[r].pc = "save"
  /\ SetToken(request[r].token, "trade")
  /\ Step(r, "clear")
  /\ Rest /\ UNCHANGED <<trades, told>>

ClearCart(r) ==
  /\ request[r].pc = "clear"
  /\ cart' = [s \in SKUs |-> IF s \in DOMAIN request[r].input THEN 0
                             ELSE cart[s]]
  /\ Answer(r)
  /\ UNCHANGED <<offer, previewed, token, trades, told, adding, faults>>

-----------------------------------------------------------------------------
(***************************************************************************)
(* The cart.                                                               *)
(***************************************************************************)

Elsewhere == UNCHANGED <<offer, token, previewed, trades, told, request, faults>>

\* Mutant: checks what is in the cart, not what will be.
CheckBeforeAdding(quantity) == quantity - 1 <= MaxQuantity

checkCartAvailable(quantity) == quantity <= MaxQuantity

\* What is not for sale is not put into the cart.
getSKUAndProduct == offer # NotForSale

getCurrentQuantity(s) == cart[s]

\* Add reads the quantity, looks whether one more is available ...
AddStart(d, s) ==
  /\ adding[d] = NoAddition
  /\ getSKUAndProduct
  /\ checkCartAvailable(getCurrentQuantity(s) + 1)
  /\ adding' = [adding EXCEPT ![d] = [sku |-> {s},
                                      read |-> getCurrentQuantity(s)]]
  /\ Elsewhere /\ UNCHANGED cart

\* ... and writes what it has computed from it.
AddWrite(d) ==
  /\ adding[d] # NoAddition
  /\ cart' = [s \in SKUs |->
                IF s \in adding[d].sku THEN adding[d].read + 1 ELSE cart[s]]
  /\ adding' = [adding EXCEPT ![d] = NoAddition]
  /\ Elsewhere

Update(s, quantity) ==
  /\ getSKUAndProduct
  /\ checkCartAvailable(quantity)
  /\ cart' = [cart EXCEPT ![s] = quantity]
  /\ Elsewhere /\ UNCHANGED adding

DeleteItems(skus) ==
  /\ cart' = [s \in SKUs |-> IF s \in skus THEN 0 ELSE cart[s]]
  /\ Elsewhere /\ UNCHANGED adding

-----------------------------------------------------------------------------
(***************************************************************************)
(* Expiry and failures.                                                    *)
(***************************************************************************)

Holds(r, k) ==
  request[r].token = k /\ request[r].pc \in {"place", "recover", "save"}

\* Mutant: a token in processing is kept until somebody sets it free.
ExpiresPending == {"pending", "trade"}

Expiring == {"pending", "processing", "trade"}

\* The key's time is over; no request takes as long as the 15 minutes that
\* the token in processing lasts.
Expire(k) ==
  /\ token[k] \in Expiring
  /\ ~\E r \in Requests : Holds(r, k)
  /\ SetToken(k, "missing")
  /\ UNCHANGED <<offer, previewed, trades, told, cart, request, adding, faults>>

Fault ==
  /\ faults < MaxFaults
  /\ faults' = faults + 1
  /\ UNCHANGED <<offer, previewed, cart, adding>>

\* The answer to the commit is lost.
CommitUnanswered(r) ==
  /\ Fault
  /\ request[r].pc = "place"
  /\ \/ SameFingerprint(r) /\ Insert(r)
     \/ UNCHANGED trades
  /\ Step(r, "recover")
  /\ UNCHANGED <<token, told>>

\* Redis does not answer: acquiring fails, possibly after the script has run;
\* the errors of later calls are ignored.
RedisFails(r) ==
  /\ Fault
  /\ LET k == request[r].token IN
     \/ /\ request[r].pc = "acquire" /\ token[k] = "pending"
        /\ TakeToken(k)
        /\ Answer(r)
        /\ UNCHANGED told
     \/ /\ request[r].pc = "save"
        /\ Step(r, "clear")
        /\ UNCHANGED <<token, told>>
     \/ /\ request[r].pc = "recover"
        /\ IF Placed(k) THEN UNCHANGED told ELSE Tell(r)
        /\ AfterRecovery(r)
        /\ UNCHANGED token
     \/ /\ request[r].pc \in {"acquire", "clear"}
        /\ Answer(r)
        /\ UNCHANGED <<token, told>>
  /\ UNCHANGED trades

\* The database does not say whether the trade is there: the token is given
\* up and the first error returned.
LookupFails(r) ==
  /\ Fault
  /\ request[r].pc = "recover"
  /\ SetToken(request[r].token, "missing")
  /\ Tell(r)
  /\ Answer(r)
  /\ UNCHANGED trades

Crash(r) ==
  /\ Fault
  /\ request[r].pc # "idle"
  /\ Answer(r)
  /\ UNCHANGED <<token, trades, told>>

-----------------------------------------------------------------------------

Proceed(r) ==
  \/ AcquirePreview(r)
  \/ Expired(r)
  \/ PlaceTrade(r)
  \/ Recover(r)
  \/ SaveResult(r)
  \/ ClearCart(r)

CartStep ==
  \/ \E d \in Devices : AddWrite(d) \/ \E s \in SKUs : AddStart(d, s)
  \/ \E s \in SKUs, quantity \in 1..MaxQuantity : Update(s, quantity)
  \/ \E s \in SKUs : DeleteItems({s})
  \/ DeleteItems(SKUs)

Next ==
  \/ \E o \in Offers : ChangeOffer(o)
  \/ \E k \in Tokens, items \in Baskets : Preview(k, items)
  \/ \E r \in Requests, k \in Tokens, items \in Baskets : CreateStart(r, k, items)
  \/ \E r \in Requests :
       \/ Proceed(r)
       \/ CommitUnanswered(r)
       \/ RedisFails(r)
       \/ LookupFails(r)
       \/ Crash(r)
  \/ \E k \in Tokens : Expire(k)
  \/ CartStep

\* A started request runs on, and Redis expires keys.
Fairness ==
  /\ \A r \in Requests : WF_vars(Proceed(r))
  /\ \A k \in Tokens : WF_vars(Expire(k))

Spec == Init /\ [][Next]_vars /\ Fairness

-----------------------------------------------------------------------------
(***************************************************************************)
(* Properties.                                                             *)
(***************************************************************************)

\* Every key, row and request in progress has the shape the code gives it.
TypeOK ==
  /\ offer \in Offers
  /\ token \in [Tokens -> TokenStates]
  /\ previewed \in [Tokens -> Quotes \cup {NoQuote}]
  /\ \A k \in Tokens : Len(trades[k]) <= 1
  /\ told \subseteq Tokens
  /\ cart \in [SKUs -> 0..MaxQuantity]
  /\ request \in [Requests -> Locals]
  /\ adding \in [Devices -> [sku : SUBSET SKUs, read : Nat]]
  /\ faults \in 0..MaxFaults

\* Whoever is told to preview again has bought nothing and will not have by
\* that token: a new preview cannot end in the same goods bought twice, though
\* requests are repeated while the first one is still at work.
PreviewAgainIsSafe == \A k \in told : ~Placed(k)

\* A trade is what the buyer saw in the preview its token came from, although
\* prices, stock and coupons changed between the two; a retry that lists the
\* same goods in another order is the same purchase.
SoldAsPreviewed ==
  \A k \in Tokens : Placed(k) => trades[k] = <<previewed[k]>>

\* A token buys once, and what was previewed, whatever is retried meanwhile.
BoughtOnceAsPreviewed == PreviewAgainIsSafe /\ SoldAsPreviewed

\* Goods leave the cart by the buyer's own hand or because they are bought:
\* a request that ends in an error has not emptied it.
CartKeptUntilBought ==
  [][\A s \in SKUs :
       cart[s] > 0 /\ cart'[s] = 0 =>
         \/ \E k \in Tokens : Placed(k) /\ s \in DOMAIN trades[k][1][2]
         \/ DeleteItems({s}) \/ DeleteItems(SKUs)]_vars

\* A token does not stay in processing: the request ends, or the key expires
\* after a crash, and the buyer is no longer told to wait.
TokenSettles ==
  \A k \in Tokens : token[k] = "processing" ~> token[k] # "processing"

=============================================================================
