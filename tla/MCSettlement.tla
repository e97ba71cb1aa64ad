---------------------------- MODULE MCSettlement ----------------------------
(***************************************************************************)
(* Settlement on a small instance: one merchant with an order of 3 fen,    *)
(* whose commission of 2 fen is given back in two parts that do not divide *)
(* evenly, and an order of 1 fen; and two periods that overlap, the second *)
(* of which may still be going on when it is settled.                      *)
(***************************************************************************)
EXTENDS Settlement, TLC

MCMerchantOf == [o \in Orders |-> "m"]
MCPayable == [o \in Orders |-> IF o = 1 THEN 3 ELSE 1]
MCCommission == [o \in Orders |-> IF o = 1 THEN 2 ELSE 0]
MCOrderOf == [r \in Refunds |-> 1]
MCRefundAmount == [r \in Refunds |-> r]
MCPeriods == [merchant : Merchants, start : {0}, end : {1}]
               \cup [merchant : Merchants, start : {0}, end : {2}]

Symmetry == Permutations(Commands)

=============================================================================
