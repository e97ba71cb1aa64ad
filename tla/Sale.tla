-------------------------------- MODULE Sale --------------------------------
(***************************************************************************)
(* What the mall promises about stock, whatever payments, cancellations    *)
(* and retries do underneath: a trade reserves everything it wants at once *)
(* or nothing, and afterwards it is either sold or its goods go back to    *)
(* the shelf, exactly once.  TradePayment implements this specification.   *)
(***************************************************************************)
EXTENDS Integers

CONSTANTS
  Trades,        \* the trades buyers may place
  Skus,          \* the stock keeping units on sale
  Wanted,        \* Wanted[t][s]: units of s that trade t buys
  InitialStock   \* InitialStock[s]: units of s on the shelf at the start

VARIABLES
  sale,          \* sale[t] \in SaleStates
  stock          \* stock[s]: units of s on the shelf

saleVars == <<sale, stock>>

SaleStates == {"absent", "reserved", "sold", "released"}

SaleInit ==
  /\ sale = [t \in Trades |-> "absent"]
  /\ stock = InitialStock

Reserve(t) ==
  /\ sale[t] = "absent"
  /\ \A s \in Skus : Wanted[t][s] <= stock[s]
  /\ sale' = [sale EXCEPT ![t] = "reserved"]
  /\ stock' = [s \in Skus |-> stock[s] - Wanted[t][s]]

Sell(t) ==
  /\ sale[t] = "reserved"
  /\ sale' = [sale EXCEPT ![t] = "sold"]
  /\ UNCHANGED stock

Release(t) ==
  /\ sale[t] = "reserved"
  /\ sale' = [sale EXCEPT ![t] = "released"]
  /\ stock' = [s \in Skus |-> stock[s] + Wanted[t][s]]

SaleNext == \E t \in Trades : Reserve(t) \/ Sell(t) \/ Release(t)

SaleSpec == SaleInit /\ [][SaleNext]_saleVars

=============================================================================
