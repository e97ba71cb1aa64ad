------------------------------ MODULE MCShelf ------------------------------
(***************************************************************************)
(* Shelf on a small instance: an empty shop, one that is about to open, or *)
(* one with a product on sale in a category, one of whose two SKUs is in   *)
(* stock; two members of staff work at once.                               *)
(***************************************************************************)
EXTENDS Shelf, TLC

CONSTANTS c1, c2, p1, s1, s2, w1, w2, u1, u2, ann, bob

MCProductOf == [s \in SKUs |-> p1]

Empty ==
  [category |-> [c \in Categories |-> NoCategoryRow],
   product |-> [p \in Products |-> NoProductRow],
   sku |-> [s \in SKUs |-> NoSKURow]]

Open ==
  [category |->
     [Empty.category EXCEPT ![c1] =
        [row |-> "live", parent |-> Root, enabled |-> TRUE]],
   product |->
     [Empty.product EXCEPT ![p1] =
        [row |-> "live", category |-> c1, status |-> "onSale"]],
   sku |->
     [Empty.sku EXCEPT
        ![s1] = [row |-> "live", enabled |-> TRUE, stock |-> 1],
        ![s2] = [row |-> "live", enabled |-> TRUE, stock |-> 0]]]

\* Nothing is on sale yet, and one category is below the other.
Draft ==
  [category |->
     [Open.category EXCEPT ![c2] =
        [row |-> "live", parent |-> c1, enabled |-> TRUE]],
   product |->
     [Open.product EXCEPT ![p1] =
        [row |-> "live", category |-> c2, status |-> "draft"]],
   sku |-> [Open.sku EXCEPT ![s2] = NoSKURow]]

MCShops == {Empty, Draft, Open}

Form(status, total, limit, terms, end) ==
  [status |-> status, total |-> total, limit |-> limit, terms |-> terms,
   start |-> 0, end |-> end]

MCCouponRequests ==
  {Form("active", 2, 1, "5 off", 1), Form("active", 1, 2, "5 off", 2),
   Form("disabled", 2, 1, "9 off", 2), Form("active", 2, 1, "5 off", 2)}

Symmetry ==
  Permutations(UserCoupons) \cup Permutations(Users) \cup Permutations(Staff)

=============================================================================
