------------------------------ MODULE MCRefund ------------------------------
(***************************************************************************)
(* Refund on a small instance: an order of two items, of 1 and 2 fen, whose *)
(* commission of 2 fen does not divide evenly, and an order of another      *)
(* merchant with 1 fen, which only adds to what Alipay has been paid.       *)
(***************************************************************************)
EXTENDS Refund, TLC

CONSTANTS o1, o2, i1, i2

MCItemPayable == [i \in Items |-> IF i = i2 THEN 2 ELSE 1]
MCOrderOf == [i \in Items |-> o1]
MCAllocated == [o \in Orders |-> IF o = o1 THEN 3 ELSE 1]
MCCommission == [o \in Orders |-> IF o = o1 THEN 2 ELSE 1]

=============================================================================
