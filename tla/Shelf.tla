------------------------------- MODULE Shelf -------------------------------
(***************************************************************************)
(* A merchant's shelf while it is being bought from: the staff edit the    *)
(* catalogue and the coupons, buyers claim coupons, place orders and       *)
(* cancel them.  Paying is TradePayment's business; here an order holds    *)
(* its units and its coupon until it is cancelled.                         *)
(***************************************************************************)
EXTENDS Catalogue, Coupons

CONSTANTS
  Orders,
  MaxQuantity,
  MaxEdits,    \* bound on what the staff begin
  Shops,       \* what the shop may be like at the beginning
  NoOrder

\* Whatever is not there has no stock.
ASSUME ShelfAssumption ==
  /\ MaxQuantity \in Nat /\ MaxEdits \in Nat
  /\ Shops \subseteq [category : [Categories -> CategoryRows],
                      product : [Products -> ProductRows],
                      sku : [SKUs -> SKURows]]
  /\ \A shop \in Shops, s \in SKUs :
       shop.sku[s].row = "absent" => shop.sku[s].stock = 0

VARIABLES
  order,       \* order lines that hold units and a coupon
  edits

shelf == <<catalogue, coupons, order, edits>>

OrderRows ==
  [status : {"pending", "cancelled"}, sku : SKUs, quantity : 1..MaxQuantity,
   coupon : UserCoupons \cup {NoCoupon}]

\* An empty shop, or one that was built by the requests of Catalogue.
ShelfInit ==
  /\ \E shop \in Shops :
       /\ category = shop.category
       /\ product = shop.product
       /\ sku = shop.sku
       /\ logged = [s \in SKUs |-> shop.sku[s].stock]
  /\ staff = [w \in Staff |-> NoRequest]
  /\ overtaken = {}
  /\ now = 0
  /\ coupon = [k \in CouponIds |-> NoCoupon]
  /\ editing = [k \in CouponIds |-> NoEdit]
  /\ userCoupon = [u \in UserCoupons |-> NoClaim]
  /\ promised = [u \in UserCoupons |-> NoClaim]
  /\ order = [o \in Orders |-> NoOrder]
  /\ edits = 0

-----------------------------------------------------------------------------

ForSale(s) ==
  /\ s \in Live(sku) /\ sku[s].enabled
  /\ ProductOf[s] \in Live(product)
  /\ product[ProductOf[s]].status = "onSale"

\* Placing locks SKUs, products and coupons before it checks them.
Place(o, user, s, quantity, u) ==
  /\ order[o] = NoOrder
  /\ ForSale(s)
  /\ DecreaseSKUStock(s, quantity)
  /\ \/ u = NoCoupon /\ UNCHANGED coupons
     \/ u # NoCoupon /\ userCoupon[u] # NoClaim /\ userCoupon[u].user = user
        /\ Use(u)
  /\ order' = [order EXCEPT ![o] =
                 [status |-> "pending", sku |-> s, quantity |-> quantity,
                  coupon |-> u]]
  /\ UNCHANGED <<category, product, staff, overtaken, edits>>

Cancel(o) ==
  /\ order[o] # NoOrder /\ order[o].status = "pending"
  /\ IncreaseSKUStock(order[o].sku, order[o].quantity)
  /\ IF order[o].coupon = NoCoupon THEN UNCHANGED coupons
     ELSE Release(order[o].coupon)
  /\ order' = [order EXCEPT ![o].status = "cancelled"]
  /\ UNCHANGED <<category, product, staff, overtaken, edits>>

-----------------------------------------------------------------------------

Edit ==
  /\ edits < MaxEdits
  /\ edits' = edits + 1
  /\ UNCHANGED order

StaffEdit ==
  \/ /\ \/ \E w \in Staff : StartRequest(w)
        \/ \E s \in SKUs, stock \in Stocks : AdjustStock(s, stock)
     /\ UNCHANGED coupons
  \/ /\ \E k \in CouponIds, form \in CouponRequests :
          MerchantCreate(k, form) \/ MerchantUpdate(k, form)
     /\ UNCHANGED catalogue

StaffFinish ==
  \/ (\E w \in Staff : Write(w) \/ Abandon(w)) /\ UNCHANGED coupons
  \/ (\E k \in CouponIds : Save(k) \/ AbandonEdit(k)) /\ UNCHANGED catalogue

BuyerWithCoupons ==
  \/ \E u \in UserCoupons, user \in Users, k \in CouponIds : Claim(u, user, k)
  \/ \E user \in Users : ExpireUserCoupons(user)
  \/ Tick

ShelfNext ==
  \/ Edit /\ StaffEdit
  \/ StaffFinish /\ UNCHANGED <<order, edits>>
  \/ BuyerWithCoupons /\ UNCHANGED <<catalogue, order, edits>>
  \/ \E o \in Orders, user \in Users, s \in SKUs, quantity \in 1..MaxQuantity,
        u \in UserCoupons \cup {NoCoupon} : Place(o, user, s, quantity, u)
  \/ \E o \in Orders : Cancel(o)

ShelfSpec == ShelfInit /\ [][ShelfNext]_shelf

-----------------------------------------------------------------------------
(***************************************************************************)
(* Properties.                                                             *)
(***************************************************************************)

\* Every row and every request in progress has the shape the code gives it.
ShelfTypeOK ==
  /\ CatalogueTypeOK
  /\ CouponsTypeOK
  /\ order \in [Orders -> OrderRows \cup {NoOrder}]
  /\ edits \in 0..MaxEdits

\* A product on sale can be bought: it has an enabled SKU.
LastSKUStays ==
  \A p \in Live(product) :
    product[p].status = "onSale" => EnabledSKUs(p) # {}

\* Products on sale are in an enabled category with something to buy, nothing
\* hangs from a deleted row, and the categories are a tree.
CatalogueSound ==
  /\ LastSKUStays
  /\ \A p \in Live(product) :
       /\ product[p].category \in Live(category)
       /\ product[p].status = "onSale" => category[product[p].category].enabled
  /\ \A s \in Live(sku) : ProductOf[s] \in Live(product)
  /\ \A c \in Live(category) :
       /\ Upward(c) \subseteq Live(category)
       /\ \E d \in Upward(c) : category[d].parent = Root

\* Writes that rest on no other row than their own: a product leaves the sale,
\* or goes and takes its SKUs along, and a locked SKU is to be enabled.
Harmless(request) ==
  \/ /\ request.table = "product"
     /\ request.set \in {[status |-> "offSale"], [row |-> "deleted"]}
  \/ request \in SKUUpdates /\ request.set.enabled

\* The checks of one request do not cover what another one writes after them,
\* and that is the only way to spoil the catalogue: whoever works alone, or
\* just puts a SKU up or a product away, leaves it as sound as it was, and so
\* do those who enter stock, buy and cancel.
OnlyRacesSpoil ==
  [][CatalogueSound /\ ~CatalogueSound' =>
       \E w \in overtaken : Write(w) /\ ~Harmless(staff[w])]_shelf

\* The inventory log explains the stock to the unit: sums of what staff, orders
\* and cancellations wrote to it, also for a SKU that was deleted meanwhile.
StockLogged == \A s \in SKUs : sku[s].stock = logged[s]

\* The counters of a coupon are the numbers of claims and of claims in use, and
\* neither its total nor a buyer's limit is exceeded, though staff save all its
\* columns meanwhile.
CouponCounted(k) ==
  /\ coupon[k].claimed = Cardinality(Claims(k))
  /\ coupon[k].used = Cardinality(InUse(k))
  /\ coupon[k].claimed <= coupon[k].form.total
  /\ \A user \in Users : CountClaimedByUser(k, user) <= coupon[k].form.limit

\* What a buyer claimed is worth what it was: the amounts stay, and the time
\* it can be used does not get shorter.
PromiseKept(k) ==
  \A u \in Claims(k) :
    /\ coupon[k].form.terms = promised[u].terms
    /\ coupon[k].form.start <= promised[u].start
    /\ coupon[k].form.end >= promised[u].end

\* Neither claims nor edits that cross cost a buyer or the shop anything.
CouponsHonoured == \A k \in Issued : CouponCounted(k) /\ PromiseKept(k)

\* What the counters say of units and coupons is what happened to them, while
\* staff write absolute values and buyers take and return what they count.
CountersExact == StockLogged /\ CouponsHonoured

=============================================================================
