--------------------------- MODULE MCTradePayment ---------------------------
(***************************************************************************)
(* TradePayment on a small instance: the first trade has a child order for *)
(* each of two merchants; the second competes with it for the last units   *)
(* of a SKU, the third for those and for its coupon.  Coupons pay for all  *)
(* of the second and the third, so that they are placed and cancelled but  *)
(* never paid.                                                             *)
(***************************************************************************)
EXTENDS TradePayment, TLC

CONSTANTS t1, t2, t3, m1, m2, s1, s2, c1, c2, p1, p2

MCTrades == {t1, t2, t3}
MCMerchants == {m1, m2}
MCSkus == {s1, s2}
MCUserCoupons == {c1, c2}
MCMerchantOf == s1 :> m1 @@ s2 :> m2
MCWanted ==
  [t \in Trades |-> IF t = t1 THEN s1 :> 2 @@ s2 :> 1 ELSE s1 :> 1 @@ s2 :> 0]
MCInitialStock == s1 :> 2 @@ s2 :> 2
MCUserCouponID ==
  [t \in Trades |-> m1 :> (IF t = t2 THEN c2 ELSE c1) @@ m2 :> NoCoupon]
MCIssuedBy == [c \in {c1, c2} |-> m1]
MCPayableAmount ==
  [t \in Trades |-> m1 :> (IF t = t1 THEN 2 ELSE 0) @@ m2 :> 1]

=============================================================================
