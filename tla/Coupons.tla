------------------------------ MODULE Coupons ------------------------------
(***************************************************************************)
(* Coupons from the merchant's side and the buyers': creating and editing, *)
(* claiming within the limits, expiry.  What placing and cancelling orders *)
(* does to them is stated here too and used by Shelf.                      *)
(*                                                                         *)
(* A transaction locks the coupon row first.  An edit reads the row, and   *)
(* saves all its columns when it ends, so the two are separate steps.      *)
(***************************************************************************)
EXTENDS Integers, FiniteSets

CONSTANTS
  CouponIds,
  UserCoupons,     \* identities of the claims
  Users,
  CouponRequests,  \* what a merchant may enter
  MaxTime,         \* bound on the clock
  NoCoupon, NoEdit, NoClaim

\* terms stands for the amounts: what is deducted from how much.
CouponForms ==
  [status : {"draft", "active", "disabled"}, total : Nat \ {0},
   limit : Nat \ {0}, terms : STRING, start : Nat, end : Nat]

UserCouponRows ==
  [coupon : CouponIds, user : Users, status : {"unused", "used", "expired"}]

ASSUME CouponsAssumption ==
  /\ CouponRequests \subseteq CouponForms
  /\ \A r \in CouponRequests : r.start < r.end
  /\ MaxTime \in Nat
  /\ IsFiniteSet(UserCoupons)
  /\ NoCoupon \notin UserCoupons
  /\ NoCoupon \notin [form : CouponForms, claimed : Nat, used : Nat]
  /\ NoClaim \notin UserCouponRows

VARIABLES
  now,
  coupon,      \* the coupons rows
  editing,     \* editing[k]: what the edit that has locked k will save
  userCoupon,  \* the user_coupons rows
  promised     \* the form of the coupon at the time of each claim

coupons == <<now, coupon, editing, userCoupon, promised>>

CouponRow(form, claimed, used) ==
  [form |-> form, claimed |-> claimed, used |-> used]

Issued == {k \in CouponIds : coupon[k] # NoCoupon}

Claims(k) ==
  {u \in UserCoupons : userCoupon[u] # NoClaim /\ userCoupon[u].coupon = k}

InUse(k) == {u \in Claims(k) : userCoupon[u].status = "used"}

CountClaimedByUser(k, user) ==
  Cardinality({u \in Claims(k) : userCoupon[u].user = user})

-----------------------------------------------------------------------------

\* Mutant: an edit does not lock the row.
AlwaysFree(k) == TRUE

\* Nobody holds the lock of the coupon's row.
RowFree(k) == editing[k] = NoEdit

MerchantCreate(k, form) ==
  /\ coupon[k] = NoCoupon
  /\ coupon' = [coupon EXCEPT ![k] = CouponRow(form, 0, 0)]
  /\ UNCHANGED <<now, editing, userCoupon, promised>>

\* Mutant: the end may be moved to any time.
AnyEnd(old, new) ==
  new.terms = old.terms /\ new.limit = old.limit /\ new.start = old.start

\* What may change of a coupon that somebody has claimed.
KeepsPromise(old, new) ==
  /\ new.terms = old.terms /\ new.limit = old.limit /\ new.start = old.start
  /\ new.end >= old.end

MerchantUpdate(k, form) ==
  /\ k \in Issued /\ RowFree(k)
  /\ form.total >= coupon[k].claimed
  /\ coupon[k].claimed > 0 => KeepsPromise(coupon[k].form, form)
  /\ editing' = [editing EXCEPT ![k] =
                   CouponRow(form, coupon[k].claimed, coupon[k].used)]
  /\ UNCHANGED <<now, coupon, userCoupon, promised>>

\* Save writes every column of the row that was read.
Save(k) ==
  /\ editing[k] # NoEdit
  /\ coupon' = [coupon EXCEPT ![k] = editing[k]]
  /\ editing' = [editing EXCEPT ![k] = NoEdit]
  /\ UNCHANGED <<now, userCoupon, promised>>

AbandonEdit(k) ==
  /\ editing[k] # NoEdit
  /\ editing' = [editing EXCEPT ![k] = NoEdit]
  /\ UNCHANGED <<now, coupon, userCoupon, promised>>

Valid(form) == form.status = "active" /\ form.start <= now /\ now < form.end

IncrementClaimed(k) ==
  /\ coupon[k].claimed < coupon[k].form.total
  /\ coupon' = [coupon EXCEPT ![k].claimed = @ + 1]

\* The claims are counted after the coupon's row is locked, so no other claim
\* of it is under way.
Claim(u, user, k) ==
  /\ userCoupon[u] = NoClaim
  /\ k \in Issued /\ RowFree(k)
  /\ Valid(coupon[k].form)
  /\ CountClaimedByUser(k, user) < coupon[k].form.limit
  /\ IncrementClaimed(k)
  /\ userCoupon' = [userCoupon EXCEPT ![u] =
                      [coupon |-> k, user |-> user, status |-> "unused"]]
  /\ promised' = [promised EXCEPT ![u] = coupon[k].form]
  /\ UNCHANGED <<now, editing>>

\* Mine marks the buyer's unused coupons whose time is over.
ExpireUserCoupons(user) ==
  /\ userCoupon' =
       [u \in UserCoupons |->
          IF userCoupon[u] # NoClaim /\ userCoupon[u].user = user
             /\ userCoupon[u].status = "unused"
             /\ coupon[userCoupon[u].coupon].form.end <= now
          THEN [userCoupon[u] EXCEPT !.status = "expired"]
          ELSE userCoupon[u]]
  /\ UNCHANGED <<now, coupon, editing, promised>>

Tick ==
  /\ now < MaxTime
  /\ now' = now + 1
  /\ UNCHANGED <<coupon, editing, userCoupon, promised>>

\* UseUserCoupon and IncrementCouponUsed, in the transaction that places.
Use(u) ==
  /\ userCoupon[u] # NoClaim
  /\ LET k == userCoupon[u].coupon IN
     /\ userCoupon[u].status = "unused"
     /\ RowFree(k)
     /\ Valid(coupon[k].form)
     /\ userCoupon' = [userCoupon EXCEPT ![u].status = "used"]
     /\ coupon' = [coupon EXCEPT ![k].used = @ + 1]
  /\ UNCHANGED <<now, editing, promised>>

\* ReleaseUserCoupon: unused again, even when its time is over.
Release(u) ==
  LET k == userCoupon[u].coupon IN
  /\ userCoupon[u].status = "used"
  /\ RowFree(k)
  /\ userCoupon' = [userCoupon EXCEPT ![u].status = "unused"]
  /\ coupon' = [coupon EXCEPT ![k].used = IF @ > 0 THEN @ - 1 ELSE 0]
  /\ UNCHANGED <<now, editing, promised>>

-----------------------------------------------------------------------------

CouponRows ==
  [form : CouponRequests, claimed : Nat, used : Nat]

CouponsTypeOK ==
  /\ now \in 0..MaxTime
  /\ coupon \in [CouponIds -> CouponRows \cup {NoCoupon}]
  /\ editing \in [CouponIds -> CouponRows \cup {NoEdit}]
  /\ userCoupon \in [UserCoupons -> UserCouponRows \cup {NoClaim}]
  /\ promised \in [UserCoupons -> CouponRequests \cup {NoClaim}]
  /\ \A u \in UserCoupons : userCoupon[u] # NoClaim =>
       promised[u] \in CouponRequests

=============================================================================
