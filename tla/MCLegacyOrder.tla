--------------------------- MODULE MCLegacyOrder ---------------------------
(***************************************************************************)
(* LegacyOrder on a small instance: a completed order that has been        *)
(* refunded in part, an unpaid one whose buyer is active and one whose     *)
(* buyer is gone, each of these with a coupon; batches of one.             *)
(***************************************************************************)
EXTENDS LegacyOrder

MCQuantity == <<1, 1, 2>>
MCOldPayment == [o \in {1} |-> 1]

=============================================================================
