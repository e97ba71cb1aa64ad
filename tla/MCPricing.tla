----------------------------- MODULE MCPricing -----------------------------
(***************************************************************************)
(* Up to four items of a few fen, so small next to an int64 of 18 that    *)
(* subtotals and sums may get out of range, and a rate scale of 4. A price *)
(* of 0 is what the column has by default (model/product_sku.go:15).       *)
(***************************************************************************)
EXTENDS Pricing

\* Merchants' coupons take off no more than they ask for (coupon_service.go:153).
MCCoupons ==
  {c \in [threshold : {3, 7}, discount : {1, 2, 3, 6}] : c.discount <= c.threshold}

=============================================================================
