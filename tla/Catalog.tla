------------------------------ MODULE Catalog ------------------------------
(***************************************************************************)
(* What AdminService does to products and options, statement by statement,  *)
(* beside the sales and shipments that change what administrators look at.  *)
(* A request checks, writes and announces in separate steps: the checks run *)
(* outside transactions, and events are emitted after the commit.           *)
(*                                                                          *)
(* A sale or a shipment is one step here: Orders shows that they commit as  *)
(* one.  A new product has one option.                                      *)
(***************************************************************************)
EXTENDS Naturals, FiniteSets, Sequences

CONSTANTS
    Proc,        \* requests being served at the same time
    Product, Option, Sku, Order,
    Begun,       \* the products there at first, with the option and SKU of each
    PageSize,    \* products on a page
    MaxStock,    \* bound: units an administrator types in
    MaxChanges,  \* bound: requests sent
    None

ASSUME CatalogAssumption ==
    /\ Begun \subseteq [product : Product, option : Option, sku : Sku]
    /\ \A b, c \in Begun : b.option = c.option \/ b.sku = c.sku => b = c   \* UNIQUE from the start
    /\ Product \subseteq Nat /\ None \notin Product /\ PageSize \in Nat \ {0}
    /\ None \notin Nat
    /\ MaxStock \in Nat /\ MaxChanges \in Nat

VARIABLES
    product,     \* is_active of each product, "none" before it exists
    option,      \* rows of product_options
    shipped,     \* orders.status, of orders that are PAID or SHIPPED
    pc, job,
    sent,        \* requests sent so far
    late         \* options inserted after the product they were checked for was deleted

rows     == <<product, option, shipped>>
requests == <<pc, job, sent>>

NoRow == [product |-> None, sku |-> None, active |-> FALSE, stock |-> 0]
NoJob == [kind |-> "none"]

ProductJobs == [kind : {"create"}, sku : Sku, stock : {1}]
Jobs ==
    ProductJobs
    \cup [kind : {"add"}, product : Product, sku : Sku, stock : {1}]
    \cup [kind : {"delete"}, product : Product]
    \cup [kind : {"restock"}, option : Option, stock : 0 .. MaxStock]
    \cup [kind : {"sell"}, option : Option]
    \cup [kind : {"ship"}, order : Order]

CatalogInit ==
    /\ product = [p \in Product |-> IF \E b \in Begun : b.product = p THEN "active" ELSE "none"]
    /\ option = [o \in Option |->
                   IF \E b \in Begun : b.option = o
                   THEN LET b == CHOOSE c \in Begun : c.option = o
                        IN  [NoRow EXCEPT !.product = b.product, !.sku = b.sku,
                                          !.active = TRUE, !.stock = 1]
                   ELSE NoRow]
    /\ shipped = [a \in Order |-> FALSE]
    /\ pc = [p \in Proc |-> "idle"]
    /\ job = [p \in Proc |-> NoJob]
    /\ sent = 0
    /\ late = {}

-----------------------------------------------------------------------------
At(p, label, kind) == pc[p] = label /\ job[p].kind = kind
GoTo(p, label) == pc' = [pc EXCEPT ![p] = label]

\* A request arrives: bounded by MaxChanges.
Begin(p, j) ==
    /\ pc[p] = "idle" /\ sent < MaxChanges
    /\ GoTo(p, "start")
    /\ job' = [job EXCEPT ![p] = j]
    /\ sent' = sent + 1

\* "ok" and "refused" are the answer the request is about to get.
Refuse(p) == GoTo(p, "refused") /\ UNCHANGED <<rows, job, sent, late>>

Unused(o) == option[o] = NoRow
NewOption == CHOOSE o \in Option : Unused(o)
\* Bound: no more rows than there are identifiers.
OptionsFull  == \A o \in Option : ~Unused(o)
ProductsFull == \A q \in Product : product[q] # "none"
SkuActive(sku) == \E o \in Option : option[o].sku = sku /\ option[o].active

\* mutant: the UNIQUE index does not exist.
NoIndex(sku) == FALSE

\* uq_product_options_active_sku refuses the row.
IndexRefuses(sku) == SkuActive(sku)

Row(p, id) == [product |-> id, sku |-> job[p].sku, active |-> TRUE, stock |-> job[p].stock]

FindSku(p) ==
    /\ At(p, "start", "create") \/ At(p, "sku", "add")
    /\ IF SkuActive(job[p].sku)
       THEN Refuse(p)
       ELSE GoTo(p, "insert") /\ UNCHANGED <<rows, job, sent, late>>

\* One transaction; a new product is announced to nobody.
InsertProduct(p) ==
    LET id == CHOOSE q \in Product : product[q] = "none" IN
    /\ At(p, "insert", "create")
    /\ IF IndexRefuses(job[p].sku) \/ OptionsFull \/ ProductsFull
       THEN Refuse(p)
       ELSE /\ product' = [product EXCEPT ![id] = "active"]
            /\ option' = [option EXCEPT ![NewOption] = Row(p, id)]
            /\ GoTo(p, "ok")
            /\ UNCHANGED <<shipped, job, sent, late>>

FindActive(p) ==
    /\ At(p, "start", "add")
    /\ IF product[job[p].product] # "active"
       THEN Refuse(p)
       ELSE GoTo(p, "sku") /\ UNCHANGED <<rows, job, sent, late>>

InsertOption(p) ==
    /\ At(p, "insert", "add")
    /\ IF IndexRefuses(job[p].sku) \/ OptionsFull
       THEN Refuse(p)
       ELSE /\ option' = [option EXCEPT ![NewOption] = Row(p, job[p].product)]
            /\ job' = [job EXCEPT ![p] = [kind |-> "add", product |-> job[p].product,
                                          option |-> NewOption, stock |-> @.stock]]
            /\ late' = IF product[job[p].product] = "active" THEN late ELSE late \cup {NewOption}
            /\ GoTo(p, "announce")
            /\ UNCHANGED <<product, shipped, sent>>

\* mutant: only the product is made inactive.
ProductOnly(id) == option

\* The options of a deleted product leave the index.
Deactivated(id) ==
    [o \in Option |-> IF option[o].product = id THEN [option[o] EXCEPT !.active = FALSE]
                                                ELSE option[o]]

SoftDelete(p) ==
    LET id == job[p].product IN
    /\ At(p, "start", "delete")
    /\ IF product[id] # "active"
       THEN Refuse(p)
       ELSE /\ product' = [product EXCEPT ![id] = "deleted"]
            /\ option' = Deactivated(id)
            /\ GoTo(p, "ok")
            /\ UNCHANGED <<shipped, job, sent, late>>

SetStock(p, n, label) ==
    LET o == job[p].option IN
    /\ option' = [option EXCEPT ![o].stock = n]
    /\ job' = [job EXCEPT ![p] = [kind |-> @.kind, option |-> o, product |-> option[o].product,
                                  stock |-> n]]
    /\ GoTo(p, label)
    /\ UNCHANGED <<product, shipped, sent, late>>

\* Neither the option nor its product need be active.
FindOption(p) ==
    /\ At(p, "start", "restock")
    /\ IF Unused(job[p].option)
       THEN Refuse(p)
       ELSE GoTo(p, "save") /\ UNCHANGED <<rows, job, sent, late>>

SaveStock(p) == At(p, "save", "restock") /\ SetStock(p, job[p].stock, "announce")

\* createOrder asks for stock, not whether the product is still offered.
Sell(p) ==
    /\ At(p, "start", "sell")
    /\ IF option[job[p].option].stock > 0
       THEN SetStock(p, option[job[p].option].stock - 1, "announce")
       ELSE Refuse(p)

Ship(p) ==
    /\ At(p, "start", "ship")
    /\ IF shipped[job[p].order]
       THEN Refuse(p)
       ELSE /\ shipped' = [shipped EXCEPT ![job[p].order] = TRUE]
            /\ GoTo(p, "announce")
            /\ UNCHANGED <<product, option, job, sent, late>>

StockEvent(j) ==
    <<[type |-> "stock-update", option |-> j.option, stock |-> j.stock]>>
OrderEvent == <<[type |-> "order-update"]>>

\* What a request emits, with the stock it wrote.
Events(j) ==
    CASE j.kind \in {"add", "restock"} -> StockEvent(j)
      [] j.kind = "sell" -> StockEvent(j) \o OrderEvent
      [] j.kind = "ship" -> OrderEvent

\* The event stream gets Events(job[p]).
Announce(p) == pc[p] = "announce" /\ GoTo(p, "ok") /\ UNCHANGED <<rows, job, sent, late>>

Answer(p) ==
    /\ pc[p] \in {"ok", "refused"}
    /\ GoTo(p, "idle")
    /\ job' = [job EXCEPT ![p] = NoJob]
    /\ UNCHANGED <<rows, sent, late>>

Write(p) ==
    \/ FindSku(p) \/ InsertProduct(p) \/ FindActive(p) \/ InsertOption(p) \/ SoftDelete(p)
    \/ FindOption(p) \/ SaveStock(p) \/ Sell(p) \/ Ship(p)

-----------------------------------------------------------------------------
(* What the list requests answer.                                           *)

\* getStockOverview: the options of active products, the inactive ones among them included.
StockOverview ==
    [o \in Option |->
        IF ~Unused(o) /\ product[option[o].product] = "active"
        THEN option[o].stock ELSE None]

\* getAdminProducts, ordered by id: the first page of PageSize products or the rest.
AdminProducts(page) ==
    LET active == {p \in Product : product[p] = "active"}
        first  == {p \in active : Cardinality({q \in active : q < p}) < PageSize}
    IN  {[product |-> p, options |-> {o \in Option : option[o].product = p}] :
            p \in IF page = "first" THEN first ELSE active \ first}

\* getRecentOrders, of one status or of all that are shown.
RecentOrders(filter) ==
    {[order |-> a, shipped |-> shipped[a]] :
        a \in {b \in Order : filter = "PAID" => ~shipped[b]}}

-----------------------------------------------------------------------------
OptionRows ==
    [product : Product \cup {None}, sku : Sku \cup {None}, active : BOOLEAN, stock : Nat]

\* A request that has written a stock keeps what it will announce.
Written ==
    [kind : {"add", "restock", "sell"}, option : Option, product : Product \cup {None}, stock : Nat]

CatalogTypeOK ==
    /\ product \in [Product -> {"none", "active", "deleted"}]
    /\ option \in [Option -> OptionRows]
    /\ shipped \in [Order -> BOOLEAN]
    /\ pc \in [Proc -> {"idle", "start", "sku", "insert", "save", "announce", "ok", "refused"}]
    /\ job \in [Proc -> Jobs \cup Written \cup {NoJob}]
    /\ sent \in 0 .. MaxChanges
    /\ late \subseteq Option

\* An SKU is sold under one active option, and a deleted product has no active
\* option but one added while it was being deleted (addProductOption checks
\* outside a transaction).
SkusHeld ==
    \A o \in Option : option[o].active =>
        /\ \A i \in Option \ {o} : option[i].active => option[i].sku # option[o].sku
        /\ product[option[o].product] = "active" \/ o \in late
=============================================================================
