----------------------------- MODULE Catalogue -----------------------------
(***************************************************************************)
(* What a merchant's staff do to the catalogue: categories, products, SKUs *)
(* and their stock, with the inventory log.  Rows are deleted softly.      *)
(*                                                                         *)
(* A request reads what it has to check and then writes, without locks     *)
(* unless it changes a SKU's stock: the reads are one step (Reads), the    *)
(* write is another (Write), and what was read may be stale by then.  A    *)
(* transaction that starts with a row lock and changes nothing else is one *)
(* step.                                                                   *)
(***************************************************************************)
EXTENDS Integers

CONSTANTS
  Categories, Products, SKUs,
  ProductOf,   \* ProductOf[s]: the product that SKU s is created for
  Staff,       \* requests of the merchant's staff that may run at once
  Stocks,      \* the stock that staff may enter
  Root,        \* parent_id 0
  NoRequest

ASSUME CatalogueAssumption ==
  /\ ProductOf \in [SKUs -> Products]
  /\ Stocks \subseteq Nat
  /\ Root \notin Categories

VARIABLES
  category, product, sku,  \* the rows
  logged,                  \* the sum of the inventory log of each SKU
  staff,                   \* what the requests in progress will write
  overtaken                \* for the properties: the requests in progress
                           \* since whose reads another one has written

tables == <<category, product, sku, logged>>
catalogue == <<tables, staff, overtaken>>

RowStates == {"absent", "live", "deleted"}
ProductStates == {"draft", "onSale", "offSale"}

CategoryRows ==
  [row : RowStates, parent : Categories \cup {Root}, enabled : BOOLEAN]
ProductRows ==
  [row : RowStates, category : Categories \cup {Root}, status : ProductStates]
SKURows == [row : RowStates, enabled : BOOLEAN, stock : Nat]

NoCategoryRow == [row |-> "absent", parent |-> Root, enabled |-> FALSE]
NoProductRow == [row |-> "absent", category |-> Root, status |-> "draft"]
NoSKURow == [row |-> "absent", enabled |-> FALSE, stock |-> 0]

\* What a request that is under way may be about to write, by table and kind.
Deletion == [row : {"deleted"}]

CategoryWrites ==
  [table : {"category"}, id : Categories, log : {0}, holds : {FALSE},
   set : [row : {"live"}, parent : Categories \cup {Root}, enabled : BOOLEAN]
           \cup [parent : Categories \cup {Root}, enabled : BOOLEAN]
           \cup Deletion]

ProductWrites ==
  [table : {"product"}, id : Products, log : {0}, holds : {FALSE},
   set : [row : {"live"}, category : Categories, status : ProductStates]
           \cup [category : Categories, status : ProductStates]
           \cup [status : ProductStates] \cup Deletion]

SKUInserts ==
  [table : {"sku"}, id : SKUs, log : Stocks, holds : {FALSE},
   set : [row : {"live"}, enabled : BOOLEAN, stock : Stocks]]

SKUUpdates ==
  [table : {"sku"}, id : SKUs, log : Int, holds : {TRUE},
   set : [enabled : BOOLEAN, stock : Stocks]]

SKUDeletions ==
  [table : {"sku"}, id : SKUs, log : {0}, holds : {FALSE}, set : Deletion]

Writes ==
  CategoryWrites \cup ProductWrites \cup SKUInserts \cup SKUUpdates
    \cup SKUDeletions

-----------------------------------------------------------------------------
(***************************************************************************)
(* Queries.                                                                *)
(***************************************************************************)

Live(table) == {id \in DOMAIN table : table[id].row = "live"}

ChildCategories(c) == {d \in Live(category) : category[d].parent = c}

ProductsByCategory(c) == {p \in Live(product) : product[p].category = c}

\* Prices are checked when they are entered, so every enabled SKU has one.
EnabledSKUs(p) ==
  {s \in Live(sku) : ProductOf[s] = p /\ sku[s].enabled}

\* Where the parents of a category lead to.
Upward(c) ==
  {d \in Categories :
     \A above \in SUBSET Categories :
       /\ c \in above
       /\ \A e \in above : category[e].parent \in above \cup {Root}
       => d \in above}

\* Every ancestor exists, none is the category itself, and they come to an end.
validateCategoryParent(c, parent) ==
  \/ parent = Root
  \/ /\ parent \in Categories \ {c}
     /\ Upward(parent) \subseteq Live(category) \ {c}
     /\ \E d \in Upward(parent) : category[d].parent = Root

ensureCategory(c) == c \in Live(category) /\ category[c].enabled

ensureProductCanBeOnSale(p) == EnabledSKUs(p) # {}

-----------------------------------------------------------------------------
(***************************************************************************)
(* Requests.                                                               *)
(***************************************************************************)

\* set: the columns to write; log: the quantity for the inventory log; holds:
\* the request has locked the row.
Reads(w, table, id, set, log, holds) ==
  /\ staff[w] = NoRequest
  /\ staff' = [staff EXCEPT ![w] = [table |-> table, id |-> id, set |-> set,
                                    log |-> log, holds |-> holds]]
  /\ UNCHANGED <<tables, overtaken>>

ReadsOnly(w, table, id, set) == Reads(w, table, id, set, 0, FALSE)

\* The database gives every inserted row an identity of its own.
Unused(table, id) ==
  \A v \in Staff :
    staff[v] # NoRequest => ~(staff[v].table = table /\ staff[v].id = id)

\* Mutant: the SKU is read without a lock.
NeverLocked(s) == FALSE

LockedSKU(s) ==
  \E v \in Staff :
    /\ staff[v] # NoRequest
    /\ staff[v].table = "sku" /\ staff[v].id = s /\ staff[v].holds

CreateCategory(w, c, parent, enabled) ==
  /\ category[c].row = "absent" /\ Unused("category", c)
  /\ validateCategoryParent(c, parent)
  /\ ReadsOnly(w, "category", c,
       [row |-> "live", parent |-> parent, enabled |-> enabled])

UpdateCategory(w, c, parent, enabled) ==
  /\ c \in Live(category)
  /\ validateCategoryParent(c, parent)
  /\ enabled \/ ~category[c].enabled
       \/ \A p \in ProductsByCategory(c) : product[p].status # "onSale"
  /\ ReadsOnly(w, "category", c, [parent |-> parent, enabled |-> enabled])

DeleteCategory(w, c) ==
  /\ c \in Live(category)
  /\ ChildCategories(c) = {}
  /\ ProductsByCategory(c) = {}
  /\ ReadsOnly(w, "category", c, [row |-> "deleted"])

CreateProduct(w, p, c, status) ==
  /\ product[p].row = "absent" /\ Unused("product", p)
  /\ ensureCategory(c)
  /\ status # "onSale"
  /\ ReadsOnly(w, "product", p,
       [row |-> "live", category |-> c, status |-> status])

\* Without a status in the request the one that was read is written back.
UpdateProduct(w, p, c, status) ==
  /\ p \in Live(product)
  /\ ensureCategory(c)
  /\ \/ status = product[p].status
     \/ status = "onSale" => ensureProductCanBeOnSale(p)
  /\ ReadsOnly(w, "product", p, [category |-> c, status |-> status])

OnSaleProduct(w, p) ==
  /\ p \in Live(product)
  /\ ensureCategory(product[p].category)
  /\ ensureProductCanBeOnSale(p)
  /\ ReadsOnly(w, "product", p, [status |-> "onSale"])

OffSaleProduct(w, p) ==
  /\ p \in Live(product)
  /\ ReadsOnly(w, "product", p, [status |-> "offSale"])

DeleteProduct(w, p) ==
  /\ p \in Live(product)
  /\ product[p].status # "onSale"
  /\ ReadsOnly(w, "product", p, [row |-> "deleted"])

CreateSKU(w, s, enabled, stock) ==
  /\ sku[s].row = "absent" /\ Unused("sku", s)
  /\ ProductOf[s] \in Live(product)
  /\ Reads(w, "sku", s, [row |-> "live", enabled |-> enabled, stock |-> stock],
           stock, FALSE)

\* Mutant: the SKU that is to go counts as the one that stays.
AnyEnabledSKU(s) == ensureProductCanBeOnSale(ProductOf[s])

\* CountEnabledSKUs without the SKU in question, for a product on sale.
MayStopSelling(s) ==
  \/ product[ProductOf[s]].status # "onSale"
  \/ ~sku[s].enabled
  \/ EnabledSKUs(ProductOf[s]) \ {s} # {}

\* The stock is written as entered, and the log gets the difference to what
\* was read under the lock.
UpdateSKU(w, s, enabled, stock) ==
  /\ s \in Live(sku) /\ ProductOf[s] \in Live(product)
  /\ ~LockedSKU(s)
  /\ enabled \/ MayStopSelling(s)
  /\ Reads(w, "sku", s, [enabled |-> enabled, stock |-> stock],
           stock - sku[s].stock, TRUE)

DeleteSKU(w, s) ==
  /\ s \in Live(sku) /\ ProductOf[s] \in Live(product)
  /\ MayStopSelling(s)
  /\ ReadsOnly(w, "sku", s, [row |-> "deleted"])

\* A change of stock and its entry in the inventory log.
ChangeStock(s, quantity) ==
  /\ ~LockedSKU(s)
  /\ sku' = [sku EXCEPT ![s].stock = @ + quantity]
  /\ logged' = [logged EXCEPT ![s] = @ + quantity]

\* Mutant: the condition stock >= quantity is left out.
DecreaseAnyway(s, quantity) == ChangeStock(s, -quantity)

DecreaseSKUStock(s, quantity) ==
  sku[s].stock >= quantity /\ ChangeStock(s, -quantity)

\* The stock goes back to the SKU even if it has been deleted.
IncreaseSKUStock(s, quantity) == ChangeStock(s, quantity)

FindSKU(s) == s \in Live(sku) /\ ProductOf[s] \in Live(product)

\* The stock is set, and the difference logged.
UpdateSKUStock(s, stock) == ChangeStock(s, stock - sku[s].stock)

AdjustStock(s, stock) ==
  /\ FindSKU(s)
  /\ UpdateSKUStock(s, stock)
  /\ UNCHANGED <<category, product, staff, overtaken>>

-----------------------------------------------------------------------------
(***************************************************************************)
(* Writes.                                                                 *)
(***************************************************************************)

\* Updates: the columns that are set, in a row that has not been deleted.
Updated(old, set) ==
  IF old.row = "deleted" THEN old
  ELSE [f \in DOMAIN old |-> IF f \in DOMAIN set THEN set[f] ELSE old[f]]

WriteCategory(id, set) ==
  /\ category' = [category EXCEPT ![id] = Updated(@, set)]
  /\ UNCHANGED <<product, sku, logged>>

Deletes(set) == "row" \in DOMAIN set /\ set.row = "deleted"

\* DeleteSKUsByProductID, in the transaction that deletes the product.
Cascade(id, set) ==
  [s \in SKUs |-> IF ProductOf[s] = id /\ Deletes(set) /\ sku[s].row = "live"
                  THEN [sku[s] EXCEPT !.row = "deleted"]
                  ELSE sku[s]]

WriteProduct(id, set) ==
  /\ product' = [product EXCEPT ![id] = Updated(@, set)]
  /\ IF product[id].row = "live" THEN sku' = Cascade(id, set) ELSE UNCHANGED sku
  /\ sku' # sku => \A s \in SKUs : ProductOf[s] = id => ~LockedSKU(s)
  /\ UNCHANGED <<category, logged>>

WriteSKU(w, id, set) ==
  /\ staff[w].holds \/ ~LockedSKU(id)
  /\ sku' = [sku EXCEPT ![id] = Updated(@, set)]
  /\ logged' = [logged EXCEPT ![id] = @ + staff[w].log]
  /\ UNCHANGED <<category, product>>

Done(w) == staff' = [staff EXCEPT ![w] = NoRequest]

Write(w) ==
  /\ staff[w] # NoRequest
  /\ LET request == staff[w] IN
     \/ request.table = "category" /\ WriteCategory(request.id, request.set)
     \/ request.table = "product" /\ WriteProduct(request.id, request.set)
     \/ request.table = "sku" /\ WriteSKU(w, request.id, request.set)
  /\ Done(w)
  /\ overtaken' = {v \in Staff \ {w} : staff[v] # NoRequest}

\* The request ends before its write: the process dies, the database refuses.
Abandon(w) ==
  /\ staff[w] # NoRequest
  /\ Done(w)
  /\ overtaken' = overtaken \ {w}
  /\ UNCHANGED tables

StartRequest(w) ==
  \/ \E c \in Categories, parent \in Categories \cup {Root}, on \in BOOLEAN :
       CreateCategory(w, c, parent, on) \/ UpdateCategory(w, c, parent, on)
  \/ \E c \in Categories : DeleteCategory(w, c)
  \/ \E p \in Products, c \in Categories, status \in ProductStates :
       CreateProduct(w, p, c, status) \/ UpdateProduct(w, p, c, status)
  \/ \E p \in Products :
       OnSaleProduct(w, p) \/ OffSaleProduct(w, p) \/ DeleteProduct(w, p)
  \/ \E s \in SKUs, on \in BOOLEAN, stock \in Stocks :
       CreateSKU(w, s, on, stock) \/ UpdateSKU(w, s, on, stock)
  \/ \E s \in SKUs : DeleteSKU(w, s)

-----------------------------------------------------------------------------

CatalogueTypeOK ==
  /\ category \in [Categories -> CategoryRows]
  /\ product \in [Products -> ProductRows]
  /\ sku \in [SKUs -> SKURows]
  /\ logged \in [SKUs -> Int]
  /\ staff \in [Staff -> Writes \cup {NoRequest}]
  /\ overtaken \subseteq Staff

=============================================================================
