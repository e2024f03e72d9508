-------------------------- MODULE BackofficeProofs --------------------------
(***************************************************************************)
(* Theorems about products and options, the event stream and the state of    *)
(* AdminPage, for any number of requests, products, orders and renders.      *)
(***************************************************************************)
EXTENDS Dashboard, FiniteSetTheorems, SequenceTheorems, TLAPS

-----------------------------------------------------------------------------
(* Requests and rows.                                                       *)

\* What a request is about at each of its steps.
JobFits(p) ==
    LET j == job[p] IN
    /\ pc[p] = "start" => j \in Jobs
    /\ pc[p] = "sku" => j \in Jobs /\ j.kind = "add"
    /\ pc[p] = "insert" => j \in Jobs /\ j.kind \in {"create", "add"}
    /\ pc[p] = "save" => j \in Jobs /\ j.kind = "restock" /\ ~Unused(j.option)
    /\ pc[p] = "announce" => j \in Written \/ (j \in Jobs /\ j.kind = "ship")

JobsFit == \A p \in Proc : JobFits(p)

\* An option that exists is of a product.
RowsOwned == \A o \in Option : ~Unused(o) => option[o].product \in Product

CatalogInv == CatalogTypeOK /\ JobsFit /\ RowsOwned /\ SkusHeld

LEMMA CatalogConstants == None \notin Product /\ Product \subseteq Nat /\ MaxStock \in Nat
  BY CatalogAssumption

LEMMA JobIs ==
    ASSUME NEW j \in Jobs
    PROVE  /\ j.kind \in {"create", "add", "delete", "restock", "sell", "ship"}
           /\ j.kind \in {"create", "add"} => j.sku \in Sku /\ j.stock \in Nat
           /\ j.kind \in {"add", "delete"} => j.product \in Product
           /\ j.kind \in {"restock", "sell"} => j.option \in Option
           /\ j.kind = "restock" => j.stock \in Nat
           /\ j.kind = "ship" => j.order \in Order
  BY CatalogConstants DEF Jobs, ProductJobs

LEMMA NewOptionIs ==
    ASSUME ~OptionsFull
    PROVE  NewOption \in Option /\ Unused(NewOption)
  BY DEF OptionsFull, NewOption

LEMMA NoRowIs == NoRow \in OptionRows /\ ~NoRow.active /\ NoRow.stock = 0
                 /\ NoRow.product = None
  BY DEF NoRow, OptionRows

LEMMA InitCatalog == ASSUME CatalogInit PROVE CatalogInv
<1> USE CatalogConstants
<1> DEFINE new(b) == [product |-> b.product, sku |-> b.sku, active |-> TRUE, stock |-> 1]
<1>1. ASSUME NEW o \in Option, NEW b \in Begun, b.option = o
      PROVE  option[o] = new(b)
  <2>1. (CHOOSE c \in Begun : c.option = o) = b
    BY <1>1, CatalogAssumption
  <2>2. option[o] = [NoRow EXCEPT !.product = b.product, !.sku = b.sku,
                                  !.active = TRUE, !.stock = 1]
    BY <1>1, <2>1 DEF CatalogInit
  <2> QED
    BY <2>2 DEF NoRow
<1>2. ASSUME NEW o \in Option, ~\E b \in Begun : b.option = o
      PROVE  option[o] = NoRow
  BY <1>2 DEF CatalogInit
<1>3. \A b \in Begun : b.product \in Product /\ b.sku \in Sku
  BY CatalogAssumption
<1>4. ASSUME NEW o \in Option PROVE option[o] \in OptionRows
  <2>1. ASSUME NEW b \in Begun, b.option = o PROVE option[o] \in OptionRows
    <3>1. option[o] = new(b) /\ b.product \in Product /\ b.sku \in Sku
      BY <1>1, <1>3, <2>1
    <3> QED
      BY <3>1 DEF OptionRows
  <2> QED
    BY <1>2, <2>1, NoRowIs
<1>5. CatalogTypeOK
  <2>1. option \in [Option -> OptionRows]
    BY <1>4 DEF CatalogInit
  <2>2. product \in [Product -> {"none", "active", "deleted"}]
    BY DEF CatalogInit
  <2>3. /\ shipped \in [Order -> BOOLEAN] /\ sent \in 0 .. MaxChanges /\ late \subseteq Option
        /\ pc \in [Proc -> {"idle", "start", "sku", "insert", "save", "announce", "ok", "refused"}]
        /\ job \in [Proc -> Jobs \cup Written \cup {NoJob}]
    <3>1. MaxChanges \in Nat
      BY CatalogAssumption
    <3>2. job \in [Proc -> Jobs \cup Written \cup {NoJob}]
      BY DEF CatalogInit
    <3>3. /\ shipped \in [Order -> BOOLEAN] /\ sent = 0 /\ late = {}
          /\ pc \in [Proc -> {"idle", "start", "sku", "insert", "save", "announce", "ok", "refused"}]
      BY DEF CatalogInit
    <3> QED
      BY <3>1, <3>2, <3>3
  <2> QED
    BY <2>1, <2>2, <2>3 DEF CatalogTypeOK
<1>6. SkusHeld
  <2>1. ASSUME NEW o \in Option, option[o].active
        PROVE  \E b \in Begun : /\ b.option = o /\ option[o].sku = b.sku
                                /\ option[o].product = b.product
    <3>1. PICK b \in Begun : b.option = o
      BY <1>2, <2>1, NoRowIs
    <3>2. option[o] = new(b)
      BY <1>1, <3>1
    <3> QED
      BY <3>1, <3>2
  <2>2. \A b \in Begun : product[b.product] = "active"
    BY <1>3 DEF CatalogInit
  <2>3. \A b, c \in Begun : b.sku = c.sku => b = c
    BY CatalogAssumption
  <2> QED
    BY <2>1, <2>2, <2>3 DEF SkusHeld
<1>7. RowsOwned
  <2>1. ASSUME NEW o \in Option, ~Unused(o) PROVE option[o].product \in Product
    <3>1. PICK b \in Begun : b.option = o
      BY <1>2, <2>1 DEF Unused
    <3>2. option[o] = new(b)
      BY <1>1, <3>1
    <3> QED
      BY <1>3, <3>1, <3>2
  <2> QED
    BY <2>1 DEF RowsOwned
<1> QED
  BY <1>5, <1>6, <1>7 DEF CatalogInv, JobsFit, JobFits, CatalogInit

\* A row is never emptied again.
RowsGrow == \A o \in Option : ~Unused(o) => ~Unused(o)'

LEMMA JobKept ==
    ASSUME NEW p \in Proc, JobFits(p), pc'[p] = pc[p], job'[p] = job[p], RowsGrow
    PROVE  JobFits(p)'
<1>1. pc[p] = "save" => job[p].option \in Option
  BY JobIs DEF JobFits
<1> QED
  BY <1>1 DEF JobFits, RowsGrow, Unused

LEMMA RefuseFits ==
    ASSUME CatalogInv, NEW p \in Proc, Refuse(p)
    PROVE  /\ CatalogInv' /\ UNCHANGED <<product, option>>
<1>1. /\ pc' = [pc EXCEPT ![p] = "refused"]
      /\ UNCHANGED <<product, option, shipped, job, sent, late>>
  BY DEF Refuse, GoTo, rows
<1>2. CatalogTypeOK'
  BY <1>1 DEF CatalogInv, CatalogTypeOK, OptionRows
<1>3. ASSUME NEW q \in Proc PROVE JobFits(q)'
  BY <1>1 DEF CatalogInv, CatalogTypeOK, JobsFit, JobFits, Unused
<1> QED
  BY <1>1, <1>2, <1>3 DEF CatalogInv, JobsFit, SkusHeld, RowsOwned, Unused

\* A check that lets the request go on.
LEMMA PassFits ==
    ASSUME CatalogInv, NEW p \in Proc, NEW label \in {"sku", "insert", "save", "ok"},
           GoTo(p, label), UNCHANGED <<rows, job, sent, late>>,
           label = "sku" => job[p] \in Jobs /\ job[p].kind = "add",
           label = "insert" => job[p] \in Jobs /\ job[p].kind \in {"create", "add"},
           label = "save" => job[p] \in Jobs /\ job[p].kind = "restock" /\ ~Unused(job[p].option)
    PROVE  CatalogInv'
<1>1. /\ pc' = [pc EXCEPT ![p] = label]
      /\ UNCHANGED <<product, option, shipped, job, sent, late>>
  BY DEF GoTo, rows
<1>2. CatalogTypeOK'
  BY <1>1 DEF CatalogInv, CatalogTypeOK, OptionRows
<1>3. ASSUME NEW q \in Proc PROVE JobFits(q)'
  BY <1>1 DEF CatalogInv, CatalogTypeOK, JobsFit, JobFits, Unused
<1> QED
  BY <1>1, <1>2, <1>3 DEF CatalogInv, JobsFit, SkusHeld, RowsOwned, Unused

LEMMA InsertFits ==
    ASSUME CatalogInv, NEW p \in Proc, InsertProduct(p) \/ InsertOption(p), ~Refuse(p)
    PROVE  /\ CatalogInv'
           /\ Unused(NewOption) /\ NewOption \in Option
           /\ \E id \in Product : option' = [option EXCEPT ![NewOption] = Row(p, id)]
           /\ pc' = [pc EXCEPT ![p] = IF job[p].kind = "create" THEN "ok" ELSE "announce"]
           /\ job[p].kind = "create" \/ UNCHANGED product
<1> USE CatalogConstants
<1>0. CatalogTypeOK /\ JobFits(p) /\ SkusHeld /\ RowsOwned /\ pc[p] = "insert"
  BY DEF CatalogInv, JobsFit, InsertProduct, InsertOption, At
<1>1. job[p] \in Jobs /\ job[p].kind \in {"create", "add"} /\ job[p].sku \in Sku /\ job[p].stock \in Nat
      /\ (job[p].kind = "add" => job[p].product \in Product)
  BY <1>0, JobIs DEF JobFits
<1>2. ~OptionsFull /\ ~SkuActive(job[p].sku)
  BY DEF InsertProduct, InsertOption, IndexRefuses
<1>3. NewOption \in Option /\ Unused(NewOption)
  BY <1>2, NewOptionIs
<1> DEFINE n == NewOption
<1>4. ASSUME NEW id \in Product PROVE Row(p, id) \in OptionRows
  BY <1>1 DEF Row, OptionRows
<1>5. ASSUME NEW id \in Product, option' = [option EXCEPT ![n] = Row(p, id)],
             \A q \in Product : product[q] = "active" => product'[q] = "active",
             late \subseteq late', product'[id] = "active" \/ n \in late'
      PROVE  SkusHeld' /\ RowsOwned' /\ RowsGrow
  <2> HIDE DEF n
  <2>1. /\ option'[n] = Row(p, id) /\ \A o \in Option \ {n} : option'[o] = option[o]
    BY <1>0, <1>3, <1>5 DEF CatalogTypeOK, n
  <2>2. /\ Row(p, id).active /\ Row(p, id).sku = job[p].sku /\ Row(p, id).product = id
    BY DEF Row
  <2>3. \A o \in Option : option[o].active => option[o].sku # job[p].sku
    BY <1>2 DEF SkuActive
  <2>4. ~option[n].active
    BY <1>3, NoRowIs DEF Unused, n
  <2>5. RowsGrow /\ RowsOwned'
    <3>1. Row(p, id) # NoRow
      BY <2>2, NoRowIs
    <3> QED
      BY <1>0, <2>1, <2>2, <3>1 DEF RowsGrow, RowsOwned, Unused
  <2>6. ASSUME NEW o \in Option, option'[o].active
        PROVE  /\ \A i \in Option \ {o} : option'[i].active => option'[i].sku # option'[o].sku
               /\ product'[option'[o].product] = "active" \/ o \in late'
    <3>1. CASE o = n
      BY <1>5, <2>1, <2>2, <2>3, <3>1
    <3>2. CASE o # n
      <4>1. option[o].active /\ option[o].product \in Product
        <5>1. option[o].active
          BY <2>1, <2>6, <3>2
        <5>2. option[o] # NoRow
          BY <5>1, NoRowIs
        <5> QED
          BY <1>0, <5>1, <5>2 DEF RowsOwned, Unused
      <4>2. product[option[o].product] = "active" \/ o \in late
        BY <1>0, <4>1 DEF SkusHeld
      <4>3. \A i \in Option \ {o} : option'[i].active => option'[i].sku # option'[o].sku
        BY <1>0, <2>1, <2>2, <2>3, <3>2, <4>1 DEF SkusHeld
      <4> QED
        BY <1>5, <2>1, <3>2, <4>1, <4>2, <4>3
    <3> QED
      BY <3>1, <3>2
  <2> QED
    BY <2>5, <2>6 DEF SkusHeld
<1>6. ASSUME UNCHANGED <<shipped, sent>>, late' \subseteq Option,
             NEW id \in Product, option' = [option EXCEPT ![n] = Row(p, id)],
             product' \in [Product -> {"none", "active", "deleted"}],
             NEW label \in {"ok", "announce"}, pc' = [pc EXCEPT ![p] = label],
             NEW j \in Jobs \cup Written, job' = [job EXCEPT ![p] = j],
             label = "announce" => j \in Written, RowsGrow
      PROVE  CatalogTypeOK' /\ JobsFit'
  <2>1. CatalogTypeOK'
    BY <1>0, <1>3, <1>4, <1>6 DEF CatalogTypeOK
  <2>2. JobFits(p)'
    BY <1>0, <1>6 DEF CatalogTypeOK, JobFits
  <2>3. ASSUME NEW q \in Proc \ {p} PROVE JobFits(q)'
    BY <1>0, <1>6, JobKept DEF CatalogTypeOK, CatalogInv, JobsFit
  <2> QED
    BY <2>1, <2>2, <2>3 DEF JobsFit
<1>7. CASE InsertProduct(p)
  <2> DEFINE id == CHOOSE q \in Product : product[q] = "none"
  <2>1. id \in Product /\ product[id] = "none"
    BY <1>7 DEF InsertProduct, ProductsFull
  <2>2. /\ product' = [product EXCEPT ![id] = "active"]
        /\ option' = [option EXCEPT ![n] = Row(p, id)]
        /\ GoTo(p, "ok") /\ UNCHANGED <<shipped, job, sent, late>>
        /\ job[p].kind = "create"
    BY <1>7 DEF InsertProduct, At
  <2> HIDE DEF id, n
  <2>3. /\ \A q \in Product : product[q] = "active" => product'[q] = "active"
        /\ product'[id] = "active" /\ product' \in [Product -> {"none", "active", "deleted"}]
    BY <1>0, <2>1, <2>2 DEF CatalogTypeOK
  <2>4. SkusHeld' /\ RowsOwned' /\ RowsGrow
    BY <1>5, <2>1, <2>2, <2>3
  <2>5. pc' = [pc EXCEPT ![p] = "ok"] /\ job' = [job EXCEPT ![p] = job[p]]
    BY <1>0, <2>2 DEF GoTo, CatalogTypeOK
  <2>6. CatalogTypeOK' /\ JobsFit'
    BY <1>0, <1>1, <1>6, <2>1, <2>2, <2>3, <2>4, <2>5 DEF CatalogTypeOK
  <2> QED
    BY <1>3, <2>1, <2>2, <2>4, <2>5, <2>6 DEF CatalogInv, n
<1>8. CASE InsertOption(p)
  <2> DEFINE id == job[p].product
             j  == [kind |-> "add", product |-> id, option |-> n, stock |-> job[p].stock]
  <2>1. job[p].kind = "add" /\ id \in Product
    BY <1>1, <1>8 DEF InsertOption, At
  <2>2. /\ option' = [option EXCEPT ![n] = Row(p, id)]
        /\ job' = [job EXCEPT ![p] = j]
        /\ late' = IF product[id] = "active" THEN late ELSE late \cup {n}
        /\ pc' = [pc EXCEPT ![p] = "announce"]
        /\ UNCHANGED <<product, shipped, sent>>
    BY <1>0, <1>8 DEF InsertOption, GoTo, CatalogTypeOK
  <2> HIDE DEF n
  <2>3. j \in Written
    BY <1>1, <1>3, <2>1 DEF Written, n
  <2>4. late \subseteq late' /\ (product'[id] = "active" \/ n \in late') /\ late' \subseteq Option
    BY <1>0, <1>3, <2>2 DEF CatalogTypeOK, n
  <2>5. SkusHeld' /\ RowsOwned' /\ RowsGrow
    BY <1>5, <2>1, <2>2, <2>4
  <2>6. CatalogTypeOK' /\ JobsFit'
    BY <1>0, <1>6, <2>1, <2>2, <2>3, <2>4, <2>5 DEF CatalogTypeOK
  <2> QED
    BY <1>3, <2>1, <2>2, <2>5, <2>6 DEF CatalogInv, n
<1> QED
  BY <1>7, <1>8

LEMMA DeleteFits ==
    ASSUME CatalogInv, NEW p \in Proc, SoftDelete(p), ~Refuse(p)
    PROVE  /\ CatalogInv'
           /\ job[p].product \in Product
           /\ product' = [product EXCEPT ![job[p].product] = "deleted"]
           /\ option' = Deactivated(job[p].product)
           /\ pc' = [pc EXCEPT ![p] = "ok"]
<1> DEFINE id == job[p].product
<1>0. CatalogTypeOK /\ JobFits(p) /\ SkusHeld /\ RowsOwned
  BY DEF CatalogInv, JobsFit
<1>1. id \in Product
  BY <1>0, JobIs DEF JobFits, SoftDelete, At
<1>2. /\ product' = [product EXCEPT ![id] = "deleted"]
      /\ option' = Deactivated(id)
      /\ pc' = [pc EXCEPT ![p] = "ok"]
      /\ UNCHANGED <<shipped, job, sent, late>>
  BY DEF SoftDelete, GoTo
<1> HIDE DEF id
<1>3. ASSUME NEW o \in Option
      PROVE  /\ option'[o] \in OptionRows
             /\ option'[o].product = option[o].product /\ option'[o].sku = option[o].sku
             /\ option'[o].active => option[o].active /\ option[o].product # id
             /\ ~Unused(o) => ~Unused(o)'
             /\ Unused(o)' => Unused(o)
  <2>1. option[o] \in OptionRows
    BY <1>0 DEF CatalogTypeOK
  <2>2. CASE option[o].product = id
    <3>1. option'[o] = [option[o] EXCEPT !.active = FALSE]
      BY <1>2, <2>2 DEF Deactivated
    <3>2. id # None
      BY <1>1, CatalogConstants
    <3> QED
      BY <2>1, <2>2, <3>1, <3>2, NoRowIs DEF OptionRows, Unused
  <2>3. CASE option[o].product # id
    BY <1>2, <2>1, <2>3 DEF Deactivated, Unused
  <2> QED
    BY <2>2, <2>3
<1>4. option' \in [Option -> OptionRows]
  BY <1>2, <1>3 DEF Deactivated
<1>5. CatalogTypeOK'
  BY <1>0, <1>1, <1>2, <1>4 DEF CatalogTypeOK
<1>6. RowsGrow
  BY <1>3 DEF RowsGrow
<1>7. ASSUME NEW q \in Proc PROVE JobFits(q)'
  <2>1. CASE q = p
    BY <1>0, <1>2, <2>1 DEF CatalogTypeOK, JobFits
  <2>2. CASE q # p
    BY <1>0, <1>2, <1>6, <2>2, JobKept DEF CatalogTypeOK, CatalogInv, JobsFit
  <2> QED
    BY <2>1, <2>2
<1>8. ASSUME NEW o \in Option, ~Unused(o)' PROVE option'[o].product \in Product
  <2>1. ~Unused(o)
    <3>1. CASE option[o].product = id
      BY <1>1, <3>1, CatalogConstants, NoRowIs DEF Unused
    <3>2. CASE option[o].product # id
      BY <1>2, <1>8, <3>2 DEF Deactivated, Unused
    <3> QED
      BY <3>1, <3>2
  <2> QED
    BY <1>0, <1>3, <2>1 DEF RowsOwned
<1>9. ASSUME NEW o \in Option, option'[o].active
      PROVE  /\ \A i \in Option \ {o} : option'[i].active => option'[i].sku # option'[o].sku
             /\ product'[option'[o].product] = "active" \/ o \in late'
  <2>1. option[o].active /\ option[o].product # id /\ option'[o].product = option[o].product
    BY <1>3, <1>9
  <2>2. option[o].product \in Product
    BY <1>0, <2>1, NoRowIs DEF RowsOwned, Unused
  <2>3. product'[option[o].product] = product[option[o].product]
    BY <1>0, <1>2, <2>1, <2>2 DEF CatalogTypeOK
  <2>4. \A i \in Option \ {o} : option'[i].active => option'[i].sku # option'[o].sku
    BY <1>0, <1>3, <2>1 DEF SkusHeld
  <2> QED
    BY <1>0, <1>2, <2>1, <2>3, <2>4 DEF SkusHeld
<1> QED
  BY <1>1, <1>2, <1>5, <1>7, <1>8, <1>9 DEF CatalogInv, JobsFit, SkusHeld, RowsOwned, id

\* A sale or a restock: one row changes, and only its stock.
LEMMA SetStockFits ==
    ASSUME CatalogInv, NEW p \in Proc, NEW n \in Nat, SetStock(p, n, "announce"),
           job[p] \in Jobs, job[p].kind \in {"restock", "sell"}, ~Unused(job[p].option)
    PROVE  CatalogInv'
<1> DEFINE o == job[p].option
           j == [kind |-> job[p].kind, option |-> o, product |-> option[o].product,
                 stock |-> n]
           row == [option[o] EXCEPT !.stock = n]
<1>0. CatalogTypeOK /\ JobFits(p) /\ SkusHeld /\ RowsOwned
  BY DEF CatalogInv, JobsFit
<1>1. o \in Option
  BY JobIs
<1>2. /\ option' = [option EXCEPT ![o].stock = n]
      /\ job' = [job EXCEPT ![p] = j]
      /\ pc' = [pc EXCEPT ![p] = "announce"]
      /\ UNCHANGED <<product, shipped, sent, late>>
  BY <1>0 DEF SetStock, GoTo, CatalogTypeOK
<1>3. option[o] \in OptionRows /\ option[o].product \in Product
  BY <1>0, <1>1 DEF CatalogTypeOK, RowsOwned
<1>4. j \in Written
  BY <1>1, <1>3 DEF Written
<1>5. /\ option'[o] = row
      /\ \A i \in Option \ {o} : option'[i] = option[i]
  BY <1>0, <1>1, <1>2, <1>3 DEF CatalogTypeOK
<1>6. /\ row \in OptionRows /\ row # NoRow
      /\ row.product = option[o].product /\ row.sku = option[o].sku
      /\ row.active = option[o].active
  <2>1. row \in OptionRows /\ row.product = option[o].product /\ row.sku = option[o].sku
        /\ row.active = option[o].active
    BY <1>3 DEF OptionRows
  <2> HIDE DEF row
  <2> QED
    BY <1>3, <2>1, NoRowIs, CatalogConstants
<1>7. option' \in [Option -> OptionRows]
  BY <1>0, <1>1, <1>2, <1>5, <1>6 DEF CatalogTypeOK
<1>8. /\ job'[p] = j /\ \A q \in Proc \ {p} : job'[q] = job[q]
  BY <1>0, <1>2 DEF CatalogTypeOK
<1>9. option'[o] # NoRow
  <2> HIDE DEF row
  <2> QED
    BY <1>5, <1>6
<1> HIDE DEF j, row
<1>10. CatalogTypeOK'
  BY <1>0, <1>2, <1>4, <1>7 DEF CatalogTypeOK
<1>11. RowsGrow
  <2> HIDE DEF o
  <2>1. ASSUME NEW i \in Option, ~Unused(i) PROVE ~Unused(i)'
    BY <1>5, <1>9, <2>1 DEF Unused
  <2> QED
    BY <2>1 DEF RowsGrow
<1>12. ASSUME NEW q \in Proc PROVE JobFits(q)'
  <2>1. CASE q = p
    BY <1>0, <1>2, <1>4, <1>8, <2>1 DEF CatalogTypeOK, JobFits
  <2>2. CASE q # p
    BY <1>0, <1>2, <1>8, <1>11, <2>2, JobKept DEF CatalogTypeOK, CatalogInv, JobsFit
  <2> QED
    BY <2>1, <2>2
<1>13. RowsOwned'
  <2>1. ASSUME NEW i \in Option, ~Unused(i)' PROVE option'[i].product \in Product
    <3>1. ~Unused(i) /\ option'[i].product = option[i].product
      BY <1>5, <1>6, <2>1 DEF Unused
    <3> QED
      BY <1>0, <3>1 DEF RowsOwned
  <2> QED
    BY <2>1 DEF RowsOwned
<1>14. SkusHeld'
  <2>1. \A i \in Option : /\ option'[i].active = option[i].active
                          /\ option'[i].sku = option[i].sku
                          /\ option'[i].product = option[i].product
    <3> HIDE DEF o
    <3>1. ASSUME NEW i \in Option
          PROVE  /\ option'[i].active = option[i].active
                 /\ option'[i].sku = option[i].sku
                 /\ option'[i].product = option[i].product
      <4>1. CASE i = o
        <5>1. option'[i] = row /\ option[i] = option[o]
          BY <1>5, <4>1
        <5> QED
          BY <1>6, <5>1
      <4>2. CASE i # o
        <5>1. option'[i] = option[i]
          BY <1>5, <4>2
        <5> QED
          BY <5>1
      <4> QED
        BY <4>1, <4>2
    <3> QED
      BY <3>1
  <2> QED
    <3>1. \A i \in Option : option'[i].active => option[i].active
      BY <2>1, Zenon
    <3>2. ASSUME NEW i \in Option, option'[i].active
          PROVE  product'[option'[i].product] = "active" \/ i \in late'
      BY <1>0, <1>2, <2>1, <3>1, <3>2 DEF SkusHeld
    <3>3. ASSUME NEW i \in Option, option'[i].active, NEW k \in Option \ {i}, option'[k].active
          PROVE  option'[k].sku # option'[i].sku
      BY <1>0, <2>1, <3>1, <3>3 DEF SkusHeld
    <3> QED
      BY <3>2, <3>3 DEF SkusHeld
<1> QED
  BY <1>10, <1>12, <1>13, <1>14 DEF CatalogInv, JobsFit

\* Requests that arrive, are announced or answered, and shipments.
LEMMA OthersFit ==
    ASSUME CatalogInv, NEW p \in Proc,
           \/ \E j \in Jobs : Begin(p, j) /\ UNCHANGED <<rows, late>>
           \/ Ship(p) /\ ~Refuse(p)
           \/ Announce(p) \/ Answer(p)
    PROVE  CatalogInv' /\ UNCHANGED <<product, option>>
<1>0. CatalogTypeOK /\ JobFits(p) /\ SkusHeld /\ RowsOwned
  BY DEF CatalogInv, JobsFit
<1>1. ASSUME UNCHANGED <<product, option, late>>,
             shipped' \in [Order -> BOOLEAN], sent' \in 0 .. MaxChanges,
             NEW label \in {"start", "announce", "ok", "idle"}, pc' = [pc EXCEPT ![p] = label],
             NEW j \in Jobs \cup Written \cup {NoJob}, job' = [job EXCEPT ![p] = j],
             label = "start" => j \in Jobs,
             label = "announce" => j \in Jobs /\ j.kind = "ship"
      PROVE  CatalogInv' /\ UNCHANGED <<product, option>>
  <2>1. CatalogTypeOK'
    BY <1>0, <1>1 DEF CatalogTypeOK
  <2>2. JobFits(p)'
    BY <1>0, <1>1 DEF CatalogTypeOK, JobFits
  <2>3. RowsGrow
    BY <1>1 DEF RowsGrow, Unused
  <2>4. ASSUME NEW q \in Proc \ {p} PROVE JobFits(q)'
    BY <1>0, <1>1, <2>3, JobKept DEF CatalogTypeOK, CatalogInv, JobsFit
  <2>5. RowsOwned' /\ SkusHeld'
    BY <1>0, <1>1 DEF RowsOwned, SkusHeld, Unused
  <2> QED
    BY <1>1, <2>1, <2>2, <2>4, <2>5 DEF CatalogInv, JobsFit
<1>2. /\ shipped \in [Order -> BOOLEAN] /\ sent \in 0 .. MaxChanges
      /\ job[p] \in Jobs \cup Written \cup {NoJob}
      /\ job = [job EXCEPT ![p] = job[p]]
      /\ MaxChanges \in Nat
  BY <1>0, CatalogAssumption DEF CatalogTypeOK
<1>3. CASE \E j \in Jobs : Begin(p, j) /\ UNCHANGED <<rows, late>>
  <2>1. PICK j \in Jobs : Begin(p, j) /\ UNCHANGED <<rows, late>>
    BY <1>3
  <2>2. /\ pc' = [pc EXCEPT ![p] = "start"] /\ job' = [job EXCEPT ![p] = j]
        /\ sent' \in 0 .. MaxChanges /\ UNCHANGED <<product, option, shipped, late>>
    BY <1>2, <2>1 DEF Begin, GoTo, rows
  <2> QED
    BY <1>1, <1>2, <2>2
<1>4. CASE Ship(p) /\ ~Refuse(p)
  <2>1. job[p] \in Jobs /\ job[p].kind = "ship" /\ job[p].order \in Order
    BY <1>0, <1>4, JobIs DEF JobFits, Ship, At
  <2>2. /\ pc' = [pc EXCEPT ![p] = "announce"]
        /\ shipped' = [shipped EXCEPT ![job[p].order] = TRUE]
        /\ UNCHANGED <<product, option, job, sent, late>>
    BY <1>4 DEF Ship, GoTo
  <2>3. shipped' \in [Order -> BOOLEAN]
    BY <1>2, <2>2
  <2> QED
    BY <1>1, <1>2, <2>1, <2>2, <2>3
<1>5. CASE Announce(p)
  BY <1>1, <1>2, <1>5 DEF Announce, GoTo, rows
<1>6. CASE Answer(p)
  BY <1>1, <1>2, <1>6 DEF Answer, GoTo, rows
<1> QED
  BY <1>3, <1>4, <1>5, <1>6

LEMMA WriteFits == ASSUME CatalogInv, NEW p \in Proc, Write(p) PROVE CatalogInv'
<1>0. JobFits(p)
  BY DEF CatalogInv, JobsFit
<1>1. CASE Refuse(p)
  BY <1>1, RefuseFits
<1>2. ASSUME ~Refuse(p), FindSku(p) PROVE CatalogInv'
  <2>1. GoTo(p, "insert") /\ UNCHANGED <<rows, job, sent, late>>
    BY <1>2 DEF FindSku
  <2>2. job[p] \in Jobs /\ job[p].kind \in {"create", "add"}
    BY <1>0, <1>2 DEF FindSku, At, JobFits
  <2> QED
    BY <2>1, <2>2, PassFits
<1>3. ASSUME ~Refuse(p), FindActive(p) PROVE CatalogInv'
  <2>1. GoTo(p, "sku") /\ UNCHANGED <<rows, job, sent, late>>
    BY <1>3 DEF FindActive
  <2>2. job[p] \in Jobs /\ job[p].kind = "add"
    BY <1>0, <1>3 DEF FindActive, At, JobFits
  <2> QED
    BY <2>1, <2>2, PassFits
<1>4. ASSUME ~Refuse(p), FindOption(p) PROVE CatalogInv'
  <2>1. GoTo(p, "save") /\ UNCHANGED <<rows, job, sent, late>> /\ ~Unused(job[p].option)
    BY <1>4 DEF FindOption
  <2>2. job[p] \in Jobs /\ job[p].kind = "restock"
    BY <1>0, <1>4 DEF FindOption, At, JobFits
  <2> QED
    BY <2>1, <2>2, PassFits
<1>5. ASSUME SaveStock(p) PROVE CatalogInv'
  <2>1. /\ job[p] \in Jobs /\ job[p].kind = "restock" /\ ~Unused(job[p].option)
        /\ job[p].stock \in Nat /\ SetStock(p, job[p].stock, "announce")
    BY <1>0, <1>5, JobIs DEF SaveStock, At, JobFits
  <2> QED
    BY <2>1, SetStockFits
<1>6. ASSUME ~Refuse(p), Sell(p) PROVE CatalogInv'
  <2> DEFINE o == job[p].option
  <2>1. /\ job[p] \in Jobs /\ job[p].kind = "sell" /\ o \in Option
        /\ option[o].stock > 0 /\ SetStock(p, option[o].stock - 1, "announce")
    BY <1>0, <1>6, JobIs DEF Sell, At, JobFits
  <2>2. option[o].stock \in Nat
    BY <2>1 DEF CatalogInv, CatalogTypeOK, OptionRows
  <2>3. option[o].stock - 1 \in Nat /\ ~Unused(o)
    BY <2>1, <2>2, NoRowIs DEF Unused
  <2> QED
    BY <2>1, <2>3, SetStockFits
<1> QED
  BY <1>1, <1>2, <1>3, <1>4, <1>5, <1>6, InsertFits, DeleteFits, OthersFit DEF Write

\* The browser changes nothing in the catalogue but through the requests it sends.
LEMMA CatalogNext == ASSUME CatalogInv, [Next]_vars PROVE CatalogInv'
<1>1. ASSUME UNCHANGED <<rows, requests, late>> PROVE CatalogInv'
  <2>1. UNCHANGED <<product, option, shipped, pc, job, sent, late>>
    BY <1>1 DEF rows, requests
  <2> QED
    BY <2>1 DEF CatalogInv, CatalogTypeOK, JobsFit, JobFits, RowsOwned, SkusHeld, Unused
<1>2. CASE UNCHANGED vars
  BY <1>1, <1>2 DEF vars
<1>3. CASE Requests
  <2>1. ASSUME NEW p \in Proc, NEW j \in Jobs, Request(p, j) PROVE CatalogInv'
    BY <2>1, OthersFit DEF Request
  <2>2. ASSUME NEW p \in Proc, Serve(p) PROVE CatalogInv'
    BY <2>2, WriteFits DEF Serve
  <2>3. ASSUME NEW p \in Proc, Emit(p) PROVE CatalogInv'
    BY <2>3, OthersFit DEF Emit
  <2>4. ASSUME NEW p \in Proc, Reply(p) PROVE CatalogInv'
    BY <2>4, OthersFit DEF Reply
  <2>5. Me \in Proc
    BY DashboardAssumption
  <2>6. ASSUME NEW j \in Jobs, Click(j) PROVE CatalogInv'
    BY <2>5, <2>6, OthersFit DEF Click
  <2>7. CASE MyReply \/ MyReplyLost
    BY <2>5, <2>7, OthersFit DEF MyReply, MyReplyLost
  <2> QED
    BY <1>3, <2>1, <2>2, <2>3, <2>4, <2>6, <2>7 DEF Requests
<1>4. CASE Loads
  <2>1. Serving
    BY <1>4 DEF Loads, Read, Show, LoadFails
  <2> QED
    BY <1>1, <2>1 DEF Serving
<1>5. CASE Stream
  <2>1. Serving
    BY <1>5 DEF Stream, TicketIssued, TicketFails, Admit, Refused, Break, Noticed, Reconnect,
                OnError, OnStockUpdate, OnOrderUpdate, Streaming
  <2> QED
    BY <1>1, <2>1 DEF Serving
<1>6. CASE Moves
  <2>1. Serving
    BY <1>6 DEF Moves, Rerender, Leave, Return, Open, SetQuery
  <2> QED
    BY <1>1, <2>1 DEF Serving
<1> QED
  BY <1>2, <1>3, <1>4, <1>5, <1>6 DEF Next

LEMMA CatalogHolds == Spec => []CatalogInv
<1>1. Init => CatalogInv
  BY InitCatalog DEF Init
<1>2. CatalogInv /\ [Next]_vars => CatalogInv'
  BY CatalogNext
<1> QED
  BY <1>1, <1>2, PTL DEF Spec

(* An SKU is sold under one active option, however the checks and the writes *)
(* of requests interleave; and a deleted product keeps no active option but   *)
(* one that was added while it was being deleted (AdminService checks outside *)
(* its transactions; the UNIQUE index refuses the second row).                *)
THEOREM SkusAreHeld == Spec => []SkusHeld
<1>1. CatalogInv => SkusHeld
  BY DEF CatalogInv
<1> QED
  BY <1>1, CatalogHolds, PTL

-----------------------------------------------------------------------------
(* The closures of the stream effect.                                       *)

\* Closures are numbered in the order they were made: one for each render that
\* made AdminPage load again, and one for each time it was opened.
UsedFit ==
    \E n \in 1 .. MaxTurns + 1 :
        /\ \A e \in Closure : phase[e] = "none" <=> e > n
        /\ live \in 0 .. n
        /\ n <= turns + (IF live = 0 THEN 0 ELSE 1)
        /\ turns \in 0 .. MaxTurns
        /\ phase \in [Closure -> Phases]

StreamInv == UsedFit /\ OneStream

LEMMA NewClosureIs ==
    ASSUME NEW n \in 1 .. MaxTurns + 1, \A e \in Closure : phase[e] = "none" <=> e > n
    PROVE  NewClosure = n + 1
<1>1. MaxTurns \in Nat
  BY DashboardAssumption
<1>2. {e \in Closure : phase[e] # "none"} = 1 .. n
  BY <1>1 DEF Closure
<1>3. Cardinality(1 .. n) = n
  BY <1>1, FS_Interval
<1> QED
  BY <1>2, <1>3 DEF NewClosure

LEMMA InitStream == ASSUME Init PROVE StreamInv
<1>1. MaxTurns \in Nat
  BY DashboardAssumption
<1>2. live = 1 /\ turns = 0 /\ phase = [e \in Closure |-> IF e = 1 THEN "open" ELSE "none"]
  BY DEF Init
<1>3. \A e \in Closure : phase[e] = "none" <=> e > 1
  BY <1>1, <1>2 DEF Closure
<1>4. phase \in [Closure -> Phases]
  BY <1>2 DEF Phases
<1>5. UsedFit
  BY <1>1, <1>2, <1>3, <1>4 DEF UsedFit
<1>6. OneStream
  BY <1>1, <1>2 DEF OneStream, Closure
<1> QED
  BY <1>5, <1>6 DEF StreamInv

\* A closure goes on: the current one in any phase of an attempt, another one ends.
LEMMA ClosureGoesOn ==
    ASSUME StreamInv, NEW e \in Closure, phase[e] # "none",
           NEW label \in Phases \ {"none"}, Phase(e, label), live' = live, turns' = turns,
           e = live => label # "closed",
           e # live => label \in {"ticket", "closed"}
    PROVE  StreamInv'
<1>1. PICK n \in 1 .. MaxTurns + 1 :
        /\ \A i \in Closure : phase[i] = "none" <=> i > n
        /\ live \in 0 .. n
        /\ n <= turns + (IF live = 0 THEN 0 ELSE 1)
        /\ turns \in 0 .. MaxTurns
        /\ phase \in [Closure -> Phases]
  BY DEF StreamInv, UsedFit
<1>2. phase' = [phase EXCEPT ![e] = label]
  BY DEF Phase
<1>3. \A i \in Closure : phase'[i] = "none" <=> i > n
  BY <1>1, <1>2
<1>4. phase' \in [Closure -> Phases]
  BY <1>1, <1>2
<1>5. UsedFit'
  BY <1>1, <1>3, <1>4 DEF UsedFit, Closure
<1>6. OneStream'
  BY <1>1, <1>2 DEF StreamInv, OneStream, Phases
<1> QED
  BY <1>5, <1>6 DEF StreamInv

\* A new closure takes the place of the current one, if there is one.
LEMMA ClosureReplaced ==
    ASSUME StreamInv, Rerender \/ Return
    PROVE  /\ StreamInv' /\ NewClosure \in Closure /\ live' = NewClosure
           /\ live # NewClosure /\ phase'[live'] = "ticket" /\ live' # 0
<1>0. MaxTurns \in Nat
  BY DashboardAssumption
<1>1. PICK n \in 1 .. MaxTurns + 1 :
        /\ \A i \in Closure : phase[i] = "none" <=> i > n
        /\ live \in 0 .. n
        /\ n <= turns + (IF live = 0 THEN 0 ELSE 1)
        /\ turns \in 0 .. MaxTurns
        /\ phase \in [Closure -> Phases]
  BY DEF StreamInv, UsedFit
<1>2. NewClosure = n + 1
  BY <1>1, NewClosureIs
<1>3. /\ n + 1 \in Closure /\ n + 1 <= turns' + 1 /\ turns' \in 0 .. MaxTurns
  <2>1. CASE Rerender
    <3>1. turns < MaxTurns /\ turns' = turns + 1 /\ live # 0
      BY <2>1 DEF Rerender, Turn
    <3> QED
      BY <1>0, <1>1, <3>1 DEF Closure
  <2>2. CASE Return
    <3>1. turns' = turns /\ live = 0
      BY <2>2 DEF Return, Expected
    <3> QED
      BY <1>0, <1>1, <3>1 DEF Closure
  <2> QED
    BY <2>1, <2>2
<1>4. /\ live' = n + 1
      /\ phase' \in [Closure -> Phases]
      /\ phase'[n + 1] = "ticket"
      /\ \A i \in Closure \ {n + 1, live} : phase'[i] = phase[i]
      /\ live # 0 => phase'[live] \in {"ticket", "closed"}
  <2>1. CASE Rerender
    <3>1. live' = n + 1 /\ phase' = [Cleanup EXCEPT ![n + 1] = "ticket"] /\ live # 0
      BY <1>2, <2>1 DEF Rerender
    <3>2. live \in Closure /\ live # n + 1
      BY <1>0, <1>1, <3>1 DEF Closure
    <3>3. /\ Cleanup \in [Closure -> Phases] /\ Cleanup[live] \in {"ticket", "closed"}
          /\ \A i \in Closure \ {live} : Cleanup[i] = phase[i]
      BY <1>1, <3>2 DEF Cleanup, Phases
    <3> QED
      BY <1>3, <3>1, <3>2, <3>3 DEF Phases
  <2>2. CASE Return
    BY <1>1, <1>2, <1>3, <2>2 DEF Return, Phases
  <2> QED
    BY <2>1, <2>2
<1>5. \A i \in Closure : phase'[i] = "none" <=> i > n + 1
  BY <1>0, <1>1, <1>3, <1>4 DEF Closure
<1>6. UsedFit'
  <2> DEFINE m == n + 1
  <2>1. m \in 1 .. MaxTurns + 1 /\ live' = m /\ m # 0 /\ m <= turns' + 1
    <3>1. n + 1 \in 1 .. MaxTurns + 1 /\ n + 1 <= turns' + 1
      BY <1>3 DEF Closure
    <3>2. n + 1 # 0
      BY <1>0, <3>1
    <3>3. live' = n + 1
      BY <1>4
    <3> QED
      BY <3>1, <3>2, <3>3
  <2>2. \A i \in Closure : phase'[i] = "none" <=> i > m
    BY <1>5
  <2> HIDE DEF m
  <2>3. live' \in 0 .. m /\ m <= turns' + (IF live' = 0 THEN 0 ELSE 1)
    BY <1>0, <2>1
  <2>4. /\ phase' \in [Closure -> Phases] /\ turns' \in 0 .. MaxTurns
    BY <1>3, <1>4
  <2> QED
    BY <2>1, <2>2, <2>3, <2>4 DEF UsedFit
<1>7. OneStream'
  <2>1. ASSUME NEW e \in Closure, e # n + 1 PROVE phase'[e] \in {"none", "ticket", "closed"}
    <3>1. CASE e = live
      <4>1. live # 0
        BY <3>1 DEF Closure
      <4> QED
        BY <1>4, <3>1, <4>1
    <3>2. CASE e # live
      <4>1. phase'[e] = phase[e]
        BY <1>4, <2>1, <3>2
      <4> QED
        BY <3>2, <4>1 DEF StreamInv, OneStream
    <3> QED
      BY <3>1, <3>2
  <2> QED
    BY <1>4, <2>1 DEF OneStream
<1> QED
  BY <1>0, <1>1, <1>2, <1>3, <1>4, <1>6, <1>7 DEF StreamInv

LEMMA StreamNext == ASSUME StreamInv, [Next]_vars PROVE StreamInv'
<1>0. MaxTurns \in Nat
  BY DashboardAssumption
<1>1. PICK n \in 1 .. MaxTurns + 1 :
        /\ \A i \in Closure : phase[i] = "none" <=> i > n
        /\ live \in 0 .. n
        /\ n <= turns + (IF live = 0 THEN 0 ELSE 1)
        /\ turns \in 0 .. MaxTurns
        /\ phase \in [Closure -> Phases]
  BY DEF StreamInv, UsedFit
<1>2. ASSUME UNCHANGED <<live, phase>>, turns' \in turns .. turns + 1, turns' <= MaxTurns
      PROVE  StreamInv'
  <2>1. turns' \in 0 .. MaxTurns /\ n <= turns' + (IF live = 0 THEN 0 ELSE 1)
    <3>1. turns \in Nat /\ n \in Nat /\ turns' \in Nat /\ turns' \in 0 .. MaxTurns
      BY <1>0, <1>1, <1>2
    <3>2. turns <= turns'
      BY <1>0, <1>1, <1>2
    <3>3. \A k \in {0, 1}, a, b, c \in Nat : a <= b + k /\ b <= c => a <= c + k
      OBVIOUS
    <3>4. CASE live = 0
      BY <1>1, <3>1, <3>2, <3>3, <3>4
    <3>5. CASE live # 0
      BY <1>1, <3>1, <3>2, <3>3, <3>5
    <3> QED
      BY <3>4, <3>5
  <2> QED
    BY <1>1, <1>2, <2>1 DEF StreamInv, UsedFit, OneStream
<1>3. CASE UNCHANGED vars \/ Requests \/ Loads
  <2>1. UNCHANGED <<live, phase, turns>>
    BY <1>3 DEF vars, Requests, Loads, Request, Serve, Emit, Reply, Click, MyReply, MyReplyLost,
                Read, Show, LoadFails, stream, Fault, Expected
  <2> QED
    BY <1>0, <1>1, <1>2, <2>1
<1>4. CASE OnStockUpdate \/ OnOrderUpdate
  <2>1. UNCHANGED <<live, phase, turns>>
    BY <1>4 DEF OnStockUpdate, OnOrderUpdate, Expected
  <2> QED
    BY <1>0, <1>1, <1>2, <2>1
<1>5. ASSUME NEW e \in Closure,
             \/ TicketIssued(e) \/ TicketFails(e) \/ Admit(e) \/ Refused(e)
             \/ Break(e) \/ Noticed(e) \/ Reconnect(e)
      PROVE  StreamInv'
  <2>1. live' = live /\ turns' = turns
    BY <1>5 DEF TicketIssued, TicketFails, Admit, Refused, Break, Noticed, Reconnect, OnError,
                Fault, Expected
  <2>2. e # live => phase[e] \in {"none", "ticket", "closed"}
    BY DEF StreamInv, OneStream
  <2>3. /\ phase[e] # "none"
        /\ \E label \in Phases \ {"none"} :
             /\ Phase(e, label)
             /\ e = live => label # "closed"
             /\ e # live => label = "closed"
    BY <1>5, <2>2 DEF TicketIssued, TicketFails, Admit, Refused, Break, Noticed, Reconnect,
                      OnError, Phases
  <2> QED
    BY <2>1, <2>3, ClosureGoesOn
<1>6. CASE Rerender \/ Return
  BY <1>6, ClosureReplaced
<1>7. CASE Leave
  <2>1. /\ live # 0 /\ live' = 0 /\ turns' = turns + 1 /\ turns < MaxTurns /\ phase' = Cleanup
    BY <1>7 DEF Leave, Turn
  <2>2. live \in Closure
    BY <1>0, <1>1, <2>1 DEF Closure
  <2>3. /\ phase' \in [Closure -> Phases] /\ phase'[live] \in {"ticket", "closed"}
        /\ \A i \in Closure \ {live} : phase'[i] = phase[i]
    BY <1>1, <2>1, <2>2 DEF Cleanup, Phases
  <2>4. phase[live] # "none"
    BY <1>0, <1>1, <2>1, <2>2
  <2>5. \A i \in Closure : phase'[i] = "none" <=> i > n
    BY <1>1, <2>3, <2>4
  <2>6. UsedFit'
    BY <1>0, <1>1, <2>1, <2>3, <2>5 DEF UsedFit
  <2>7. OneStream'
    BY <2>1, <2>3 DEF StreamInv, OneStream
  <2> QED
    BY <2>6, <2>7 DEF StreamInv
<1>8. CASE (\E s \in Sections : Open(s)) \/ (\E q \in Tabs \cup Pages : SetQuery(q))
  <2>1. UNCHANGED <<live, phase>> /\ turns' = turns + 1 /\ turns < MaxTurns
    BY <1>8 DEF Open, SetQuery, stream, Turn
  <2> QED
    BY <1>0, <1>1, <1>2, <2>1
<1> QED
  BY <1>3, <1>4, <1>5, <1>6, <1>7, <1>8 DEF Next, Stream, Moves

LEMMA StreamHolds == Spec => []StreamInv
<1>1. Init => StreamInv
  BY InitStream
<1>2. StreamInv /\ [Next]_vars => StreamInv'
  BY StreamNext
<1> QED
  BY <1>1, <1>2, PTL DEF Spec

(* However many renders come while a ticket is being issued, a stream opens or *)
(* a timer runs, and however attempts fail: only the closure of the last one    *)
(* has or awaits a stream, and it always does (the stream effect of AdminPage). *)
THEOREM OnlyOneStream == Spec => []OneStream
<1>1. StreamInv => OneStream
  BY DEF StreamInv
<1> QED
  BY <1>1, StreamHolds, PTL

-----------------------------------------------------------------------------
(* Sequences of loads and answers.                                          *)

LEMMA SeqFrom ==
    ASSUME NEW R, NEW n \in Nat, NEW t \in [1 .. n -> R]
    PROVE  t \in Seq(R) /\ Len(t) = n /\ DOMAIN t = 1 .. n
<1>1. t \in Seq(R)
  BY SeqDef
<1>2. Len(t) \in Nat /\ DOMAIN t = 1 .. Len(t)
  BY <1>1, LenProperties
<1>3. 1 .. Len(t) = 1 .. n
  BY <1>2
<1>4. Len(t) = n
  <2> DEFINE m == Len(t)
  <2>0. m \in Nat
    BY <1>2
  <2> HIDE DEF m
  <2>1. Cardinality(1 .. n) = n
    BY FS_Interval
  <2>2. Cardinality(1 .. m) = m
    BY <2>0, FS_Interval
  <2> QED
    BY <1>3, <2>1, <2>2 DEF m
<1> QED
  BY <1>1, <1>4

LEMMA WithoutIs ==
    ASSUME NEW R, NEW s \in Seq(R), NEW i \in DOMAIN s
    PROVE  /\ Without(s, i) \in Seq(R)
           /\ Len(Without(s, i)) = Len(s) - 1
           /\ DOMAIN Without(s, i) = 1 .. Len(s) - 1
           /\ \A j \in 1 .. Len(s) - 1 : Without(s, i)[j] = s[IF j < i THEN j ELSE j + 1]
<1>1. Len(s) \in Nat /\ DOMAIN s = 1 .. Len(s)
  BY LenProperties
<1>2. i \in 1 .. Len(s) /\ Len(s) - 1 \in Nat
  BY <1>1
<1>3. \A j \in 1 .. Len(s) - 1 : s[IF j < i THEN j ELSE j + 1] \in R
  <2>1. \A j \in 1 .. Len(s) - 1 : (IF j < i THEN j ELSE j + 1) \in 1 .. Len(s)
    BY <1>1, <1>2
  <2> QED
    BY <2>1, ElementOfSeq
<1>4. Without(s, i) \in [1 .. Len(s) - 1 -> R]
  BY <1>3 DEF Without
<1>5. \A j \in 1 .. Len(s) - 1 : Without(s, i)[j] = s[IF j < i THEN j ELSE j + 1]
  BY DEF Without
<1> QED
  BY <1>2, <1>4, <1>5, SeqFrom

-----------------------------------------------------------------------------
(* What is read and announced.                                              *)

LEMMA SectionIs ==
    ASSUME NEW s \in Sections
    PROVE  /\ s \in {"orders", "products", "inventory"}
           /\ Home[s] \in Queries[s] /\ Queries[s] \subseteq AllQueries /\ Home[s] \in AllQueries
           /\ s = "inventory" => Queries[s] = {"none"} /\ Home[s] = "none"
           /\ s = "orders" => Queries[s] = Tabs
           /\ s = "products" => Queries[s] = Pages
  BY DashboardAssumption DEF Home, Queries, AllQueries, Tabs, Pages

LEMMA OverviewIs ==
    ASSUME CatalogInv
    PROVE  StockOverview \in StockRows
<1>1. ASSUME NEW o \in Option PROVE option[o].stock \in Nat
  BY DEF CatalogInv, CatalogTypeOK, OptionRows
<1> QED
  BY <1>1 DEF StockOverview, StockRows

LEMMA ListIs ==
    ASSUME CatalogInv, NEW s \in Sections, NEW q
    PROVE  ListOf(s, q) \in ListRows
<1>1. RecentOrders(q) \in ListRows
  BY DEF CatalogInv, CatalogTypeOK, RecentOrders, ListRows
<1>2. AdminProducts(q) \in ListRows
  <2>1. ASSUME NEW r \in AdminProducts(q) PROVE r \in [product : Product, options : SUBSET Option]
    <3> DEFINE active == {p \in Product : product[p] = "active"}
               first  == {p \in active : Cardinality({i \in active : i < p}) < PageSize}
               page   == IF q = "first" THEN first ELSE active \ first
    <3>1. AdminProducts(q) =
            {[product |-> p, options |-> {o \in Option : option[o].product = p}] : p \in page}
      BY DEF AdminProducts
    <3>2. page \subseteq Product
      OBVIOUS
    <3> HIDE DEF page
    <3>3. PICK p \in page : r = [product |-> p, options |-> {o \in Option : option[o].product = p}]
      BY <2>1, <3>1
    <3> QED
      BY <3>2, <3>3
  <2> QED
    BY <2>1 DEF ListRows
<1>3. {} \in ListRows
  BY DEF ListRows
<1> QED
  BY <1>1, <1>2, <1>3, SectionIs DEF ListOf

LEMMA ReadingIs ==
    ASSUME CatalogInv, section \in Sections, NEW q
    PROVE  /\ Reading("stock", q) \in StockRows
           /\ Reading("list", q) \in ListRows
  BY OverviewIs, ListIs DEF Reading

\* The event a request has for the stock it wrote.
StockNews(j) == [type |-> "stock-update", option |-> j.option, stock |-> j.stock]
OrderNews == [type |-> "order-update"]

LEMMA NewsIs ==
    ASSUME CatalogInv, NEW p \in Proc, pc[p] = "announce"
    PROVE  Events(job[p]) \in Seq(StreamEvents)
<1> DEFINE j == job[p]
<1>1. j \in Written \/ (j \in Jobs /\ j.kind = "ship")
  BY DEF CatalogInv, JobsFit, JobFits
<1>2. OrderNews \in StreamEvents
  BY DEF OrderNews, StreamEvents
<1>3. j \in Written => j.kind \in {"add", "restock", "sell"} /\ StockNews(j) \in StreamEvents
  BY DEF Written, StockNews, StreamEvents
<1>4. \/ Events(j) = <<OrderNews>>
      \/ j \in Written /\ Events(j) \in {<<StockNews(j)>>, <<StockNews(j)>> \o <<OrderNews>>}
  BY <1>1, <1>3 DEF Events, StockEvent, OrderEvent, StockNews, OrderNews
<1>5. <<OrderNews>> \in Seq(StreamEvents) /\ (j \in Written => <<StockNews(j)>> \in Seq(StreamEvents))
  BY <1>2, <1>3
<1>6. j \in Written => <<StockNews(j)>> \o <<OrderNews>> \in Seq(StreamEvents)
  BY <1>5, ConcatProperties
<1> QED
  BY <1>4, <1>5, <1>6

-----------------------------------------------------------------------------
(* The types of what the page holds.                                        *)

RowsOf(what) == IF what = "stock" THEN StockRows ELSE ListRows
AnswersFit == answers \in [stock : Seq(StockRows), list : Seq(ListRows)]
ScreenTypes ==
    /\ section \in Sections /\ query \in Queries[section]
    /\ shown \in [stock : StockRows, list : ListRows]
    /\ asked \in [stock : Seq({"none"}), list : Seq(AllQueries)]
    /\ AnswersFit
    /\ click \in [query : AllQueries, connected : BOOLEAN, here : BOOLEAN]
RestTypes == connected \in BOOLEAN /\ inbox \in Seq(StreamEvents) /\ faults \in 0 .. MaxFaults

\* onCreated is called where the form was: among the products.
ClickFits == click.here /\ job[Me].kind = "create" => section = "products"

\* A request outlives the page it was sent from.
AwayFits == live = 0 => ~click.here

PageInv == CatalogInv /\ StreamInv /\ ScreenTypes /\ RestTypes /\ ClickFits /\ AwayFits

LEMMA AnswerIs ==
    ASSUME AnswersFit, NEW w \in What
    PROVE  /\ answers[w] \in Seq(RowsOf(w))
           /\ \A i \in DOMAIN answers[w] : answers[w][i] \in RowsOf(w)
<1>1. answers[w] \in Seq(RowsOf(w))
  BY DEF AnswersFit, RowsOf, What
<1>2. DOMAIN answers[w] = 1 .. Len(answers[w])
  BY <1>1, LenProperties
<1> QED
  BY <1>1, <1>2, ElementOfSeq

\* What a request is for does not change while it is served.
LEMMA KindKept ==
    ASSUME CatalogTypeOK, NEW p \in Proc, Write(p)
    PROVE  \A q \in Proc : job'[q].kind = job[q].kind
<1>1. job' = job \/ \E j : job' = [job EXCEPT ![p] = j] /\ j.kind = job[p].kind
  <2>1. ASSUME NEW n, NEW label, SetStock(p, n, label) PROVE
          \E j : job' = [job EXCEPT ![p] = j] /\ j.kind = job[p].kind
    <3> DEFINE o == job[p].option
               j == [kind |-> job[p].kind, option |-> o, product |-> option[o].product,
                     stock |-> n]
    <3>1. job' = [job EXCEPT ![p] = j]
      BY <2>1 DEF SetStock, CatalogTypeOK
    <3>2. j.kind = job[p].kind
      OBVIOUS
    <3> HIDE DEF j
    <3> QED
      BY <3>1, <3>2
  <2>2. ASSUME InsertOption(p), ~Refuse(p) PROVE
          \E j : job' = [job EXCEPT ![p] = j] /\ j.kind = job[p].kind
    <3> DEFINE j == [kind |-> "add", product |-> job[p].product, option |-> NewOption,
                     stock |-> job[p].stock]
    <3>1. job' = [job EXCEPT ![p] = j]
      BY <2>2 DEF InsertOption, CatalogTypeOK
    <3>2. j.kind = job[p].kind
      BY <2>2 DEF InsertOption, At
    <3> QED
      BY <3>1, <3>2
  <2>3. CASE Refuse(p)
    BY <2>3 DEF Refuse
  <2> QED
    BY <2>1, <2>2, <2>3 DEF Write, FindSku, InsertProduct, FindActive, SoftDelete, FindOption,
                            SaveStock, Sell, Ship
<1> QED
  BY <1>1 DEF CatalogTypeOK

LEMMA AskIs ==
    ASSUME ScreenTypes, NEW queries \in Seq(AllQueries)
    PROVE  /\ Ask("list", queries) \in [stock : Seq({"none"}), list : Seq(AllQueries)]
           /\ Ask("list", queries).stock = asked.stock
           /\ Ask("list", queries).list = asked.list \o queries
<1>1. asked.list \o queries \in Seq(AllQueries)
  BY ConcatProperties DEF ScreenTypes
<1> QED
  BY <1>1 DEF ScreenTypes, Ask

LEMMA RequestTypes ==
    ASSUME PageInv, NEW p \in Proc,
           \/ (\E j \in Jobs : Request(p, j)) \/ Serve(p) \/ Emit(p) \/ Reply(p)
    PROVE  ScreenTypes' /\ RestTypes' /\ ClickFits'
<1>0. /\ CatalogInv /\ CatalogTypeOK /\ ScreenTypes /\ AnswersFit /\ RestTypes /\ ClickFits
      /\ Me \in Proc
  BY DashboardAssumption DEF PageInv, CatalogInv, ScreenTypes
<1>1. CASE (\E j \in Jobs : Request(p, j)) \/ Reply(p)
  <2>1. p # Me /\ UNCHANGED <<connected, inbox, faults, screen>>
    BY <1>1 DEF Request, Reply, stream
  <2>2. UNCHANGED <<section, query, shown, asked, answers, click>>
    BY <2>1 DEF screen
  <2>3. job'[Me] = job[Me]
    BY <1>0, <1>1, <2>1 DEF Request, Reply, Begin, Answer, CatalogTypeOK
  <2> QED
    BY <1>0, <2>1, <2>2, <2>3 DEF ScreenTypes, RestTypes, ClickFits, AnswersFit
<1>2. CASE Serve(p)
  <2>1. UNCHANGED <<connected, inbox, faults, section, query, shown, asked, answers, click>>
    BY <1>2 DEF Serve, stream, screen
  <2>2. job'[Me].kind = job[Me].kind
    BY <1>0, <1>2, KindKept DEF Serve
  <2> QED
    BY <1>0, <2>1, <2>2 DEF ScreenTypes, AnswersFit, RestTypes, ClickFits
<1>3. CASE Emit(p)
  <2>1. UNCHANGED <<connected, faults, section, query, shown, asked, answers, click, job>>
    BY <1>3 DEF Emit, Announce, screen
  <2>2. pc[p] = "announce" /\ (inbox' = inbox \/ inbox' = inbox \o Events(job[p]))
    BY <1>3 DEF Emit, Announce
  <2>3. inbox' \in Seq(StreamEvents)
    BY <1>0, <2>2, NewsIs, ConcatProperties DEF RestTypes
  <2> QED
    BY <1>0, <2>1, <2>3 DEF ScreenTypes, AnswersFit, RestTypes, ClickFits
<1> QED
  BY <1>1, <1>2, <1>3

LEMMA OwnTypes ==
    ASSUME PageInv, (\E j \in Jobs : Click(j)) \/ MyReply \/ MyReplyLost
    PROVE  ScreenTypes' /\ RestTypes' /\ ClickFits'
<1>0. /\ CatalogInv /\ CatalogTypeOK /\ ScreenTypes /\ AnswersFit /\ RestTypes /\ ClickFits
      /\ Me \in Proc
  BY DashboardAssumption DEF PageInv, CatalogInv, ScreenTypes
<1>1. ASSUME NEW j \in Jobs, Click(j) PROVE ScreenTypes' /\ RestTypes' /\ ClickFits'
  <2>1. /\ UNCHANGED <<connected, inbox, faults, section, query, shown, asked, answers>>
        /\ click' = [query |-> query, connected |-> section = "orders" /\ connected, here |-> TRUE]
        /\ job'[Me] = j /\ j \in Offers
    BY <1>0, <1>1 DEF Click, Begin, stream, CatalogTypeOK
  <2>2. query \in AllQueries
    BY <1>0, SectionIs DEF ScreenTypes
  <2>3. click' \in [query : AllQueries, connected : BOOLEAN, here : BOOLEAN]
    BY <2>1, <2>2
  <2>4. j.kind = "create" => section = "products"
    BY <1>0, <2>1, SectionIs DEF Offers, OrderButtons, StockButtons, ScreenTypes
  <2> QED
    BY <1>0, <2>1, <2>3, <2>4 DEF ScreenTypes, RestTypes, ClickFits, AnswersFit
<1>2. NoClick \in [query : AllQueries, connected : BOOLEAN, here : BOOLEAN] /\ ~NoClick.here
  BY DEF NoClick, AllQueries
<1>3. CASE MyReply
  <2>1. /\ UNCHANGED <<connected, inbox, faults, section, shown, answers>>
        /\ click' = NoClick
    BY <1>3 DEF MyReply, stream
  <2>2. CASE UNCHANGED <<query, asked>>
    BY <1>0, <1>2, <2>1, <2>2 DEF ScreenTypes, RestTypes, ClickFits, AnswersFit
  <2>3. CASE ~UNCHANGED <<query, asked>>
    <3> DEFINE home == Landing(job[Me])
               more == IF home # query THEN <<click.query, home>> ELSE <<click.query>>
    <3>1. query' = home /\ asked' = Ask("list", more) /\ click.here
      BY <1>3, <2>3 DEF MyReply
    <3>2. home \in Queries[section]
      BY <1>0, <3>1, SectionIs DEF Landing, ClickFits, ScreenTypes, Pages
    <3>3. home \in AllQueries /\ click.query \in AllQueries
      BY <1>0, <3>2, SectionIs DEF ScreenTypes
    <3> HIDE DEF home
    <3>4. more \in Seq(AllQueries)
      BY <3>3
    <3>5. asked' \in [stock : Seq({"none"}), list : Seq(AllQueries)]
      BY <1>0, <3>1, <3>4, AskIs
    <3> QED
      BY <1>0, <1>2, <2>1, <3>1, <3>2, <3>5 DEF ScreenTypes, RestTypes, ClickFits, AnswersFit
  <2> QED
    BY <2>2, <2>3
<1>4. CASE MyReplyLost
  <2>1. /\ UNCHANGED <<connected, inbox, section, query, shown, asked, answers>>
        /\ click' = NoClick /\ faults < MaxFaults /\ faults' = faults + 1
    BY <1>4 DEF MyReplyLost, stream, Fault
  <2>2. faults' \in 0 .. MaxFaults
    BY <1>0, <2>1, DashboardAssumption DEF RestTypes
  <2> QED
    BY <1>0, <1>2, <2>1, <2>2 DEF ScreenTypes, AnswersFit, RestTypes, ClickFits
<1> QED
  BY <1>1, <1>3, <1>4

LEMMA ReadIs ==
    ASSUME PageInv, NEW w \in What, NEW i \in DOMAIN asked[w], Read(w, i)
    PROVE  /\ asked' \in [stock : Seq({"none"}), list : Seq(AllQueries)]
           /\ AnswersFit'
<1> DEFINE Q == IF w = "stock" THEN {"none"} ELSE AllQueries
           a == Reading(w, asked[w][i])
<1>0. CatalogInv /\ ScreenTypes /\ AnswersFit /\ section \in Sections
  BY DEF PageInv, ScreenTypes
<1>1. asked[w] \in Seq(Q)
  BY <1>0 DEF ScreenTypes, What
<1>2. Without(asked[w], i) \in Seq(Q)
  BY <1>1, WithoutIs
<1>3. /\ asked' = [asked EXCEPT ![w] = Without(asked[w], i)]
      /\ answers' = [answers EXCEPT ![w] = Append(answers[w], a)]
  BY DEF Read
<1>4. a \in RowsOf(w)
  BY <1>0, ReadingIs DEF RowsOf, What
<1> HIDE DEF a
<1>5. Append(answers[w], a) \in Seq(RowsOf(w))
  BY <1>0, <1>4, AnswerIs, AppendProperties
<1>6. asked' \in [stock : Seq({"none"}), list : Seq(AllQueries)]
  BY <1>0, <1>2, <1>3 DEF ScreenTypes, What
<1>7. AnswersFit'
  BY <1>0, <1>3, <1>5 DEF AnswersFit, What, RowsOf
<1> QED
  BY <1>6, <1>7

LEMMA ShowIs ==
    ASSUME PageInv, NEW w \in What, NEW i \in DOMAIN answers[w], Show(w, i)
    PROVE  /\ shown' \in [stock : StockRows, list : ListRows]
           /\ AnswersFit'
<1>0. ScreenTypes /\ AnswersFit
  BY DEF PageInv, ScreenTypes
<1>1. answers[w] \in Seq(RowsOf(w)) /\ answers[w][i] \in RowsOf(w)
  BY <1>0, AnswerIs
<1>2. /\ answers' = [answers EXCEPT ![w] = Without(answers[w], i)]
      /\ shown' = [shown EXCEPT ![w] = answers[w][i]]
  BY DEF Show
<1>3. Without(answers[w], i) \in Seq(RowsOf(w))
  BY <1>1, WithoutIs
<1>4. shown' \in [stock : StockRows, list : ListRows]
  BY <1>0, <1>1, <1>2 DEF ScreenTypes, What, RowsOf
<1>5. AnswersFit'
  BY <1>0, <1>2, <1>3 DEF AnswersFit, What, RowsOf
<1> QED
  BY <1>4, <1>5

LEMMA FailIs ==
    ASSUME PageInv, NEW w \in What, NEW i \in DOMAIN asked[w], LoadFails(w, i)
    PROVE  asked' \in [stock : Seq({"none"}), list : Seq(AllQueries)]
<1> DEFINE Q == IF w = "stock" THEN {"none"} ELSE AllQueries
<1>0. ScreenTypes
  BY DEF PageInv
<1>1. asked[w] \in Seq(Q)
  BY <1>0 DEF ScreenTypes, What
<1>2. Without(asked[w], i) \in Seq(Q)
  BY <1>1, WithoutIs
<1>3. asked' = [asked EXCEPT ![w] = Without(asked[w], i)]
  BY DEF LoadFails
<1> QED
  BY <1>0, <1>2, <1>3 DEF ScreenTypes, What

LEMMA LoadTypes == ASSUME PageInv, Loads PROVE ScreenTypes' /\ RestTypes' /\ ClickFits'
<1>0. ScreenTypes /\ AnswersFit /\ RestTypes /\ ClickFits
  BY DEF PageInv, ScreenTypes
<1>1. ASSUME NEW w \in What, NEW i \in DOMAIN asked[w], Read(w, i)
      PROVE  ScreenTypes' /\ RestTypes' /\ ClickFits'
  <2>1. UNCHANGED <<connected, inbox, faults, section, query, shown, click, job>>
    BY <1>1 DEF Read, stream, Expected, Serving, requests
  <2> QED
    BY <1>0, <1>1, <2>1, ReadIs DEF ScreenTypes, RestTypes, ClickFits
<1>2. ASSUME NEW w \in What, NEW i \in DOMAIN answers[w], Show(w, i)
      PROVE  ScreenTypes' /\ RestTypes' /\ ClickFits'
  <2>1. UNCHANGED <<connected, inbox, faults, section, query, asked, click, job>>
    BY <1>2 DEF Show, stream, Expected, Serving, requests
  <2> QED
    BY <1>0, <1>2, <2>1, ShowIs DEF ScreenTypes, RestTypes, ClickFits
<1>3. ASSUME NEW w \in What, NEW i \in DOMAIN asked[w], LoadFails(w, i)
      PROVE  ScreenTypes' /\ RestTypes' /\ ClickFits'
  <2>1. /\ UNCHANGED <<connected, inbox, section, query, shown, answers, click, job>>
        /\ faults < MaxFaults /\ faults' = faults + 1
    BY <1>3 DEF LoadFails, stream, Fault, Serving, requests
  <2>2. faults' \in 0 .. MaxFaults
    BY <1>0, <2>1, DashboardAssumption DEF RestTypes
  <2>3. asked' \in [stock : Seq({"none"}), list : Seq(AllQueries)]
    BY <1>3, FailIs
  <2> QED
    BY <1>0, <2>1, <2>2, <2>3 DEF ScreenTypes, AnswersFit, RestTypes, ClickFits
<1> QED
  BY <1>1, <1>2, <1>3 DEF Loads

LEMMA StreamEventIs ==
    ASSUME NEW ev \in StreamEvents, ev.type = "stock-update"
    PROVE  ev.option \in Option /\ ev.stock \in Nat
  BY DEF StreamEvents

\* Consuming an event.
LEMMA InboxIs ==
    ASSUME inbox \in Seq(StreamEvents), inbox # <<>>, inbox' = Tail(inbox)
    PROVE  Head(inbox) \in StreamEvents /\ inbox' \in Seq(StreamEvents)
  BY HeadTailProperties

LEMMA StockUpdateIs ==
    ASSUME PageInv, OnStockUpdate
    PROVE  /\ shown' \in [stock : StockRows, list : ListRows]
           /\ inbox' \in Seq(StreamEvents)
<1> DEFINE ev == Head(inbox)
<1>0. ScreenTypes /\ RestTypes
  BY DEF PageInv
<1>1. /\ inbox # <<>> /\ inbox' = Tail(inbox) /\ inbox \in Seq(StreamEvents)
      /\ ev.type = "stock-update"
      /\ shown' = [shown EXCEPT !.stock[ev.option] = ev.stock]
  BY <1>0 DEF OnStockUpdate, RestTypes
<1>2. inbox' \in Seq(StreamEvents) /\ ev.option \in Option /\ ev.stock \in Nat
  BY <1>1, InboxIs, StreamEventIs
<1> HIDE DEF ev
<1>3. [shown.stock EXCEPT ![ev.option] = ev.stock] \in StockRows
  BY <1>0, <1>2 DEF ScreenTypes, StockRows
<1>4. shown' = [shown EXCEPT !.stock = [shown.stock EXCEPT ![ev.option] = ev.stock]]
  BY <1>0, <1>1 DEF ScreenTypes
<1> QED
  BY <1>0, <1>2, <1>3, <1>4 DEF ScreenTypes

LEMMA StreamTypes == ASSUME PageInv, Stream PROVE ScreenTypes' /\ RestTypes' /\ ClickFits'
<1>0. /\ ScreenTypes /\ AnswersFit /\ RestTypes /\ ClickFits
      /\ MaxFaults \in Nat
  BY DashboardAssumption DEF PageInv, ScreenTypes
<1>1. ASSUME UNCHANGED screen, Serving, connected' \in BOOLEAN, inbox' = inbox,
             Expected \/ Fault
      PROVE  ScreenTypes' /\ RestTypes' /\ ClickFits'
  <2>1. UNCHANGED <<section, query, shown, asked, answers, click, job>>
    BY <1>1 DEF screen, Serving, requests
  <2>2. faults' \in 0 .. MaxFaults
    BY <1>0, <1>1 DEF Expected, Fault, RestTypes
  <2> QED
    BY <1>0, <1>1, <2>1, <2>2 DEF ScreenTypes, AnswersFit, RestTypes, ClickFits
<1>2. ASSUME NEW e \in Closure,
             \/ TicketIssued(e) \/ TicketFails(e) \/ Admit(e) \/ Refused(e)
             \/ Noticed(e) \/ Reconnect(e)
      PROVE  ScreenTypes' /\ RestTypes' /\ ClickFits'
  <2>1. /\ Streaming /\ inbox' = inbox /\ (connected' = connected \/ connected' \in BOOLEAN)
        /\ Expected \/ Fault
    BY <1>2 DEF TicketIssued, TicketFails, Admit, Refused, Noticed, Reconnect, OnError
  <2> QED
    BY <1>0, <1>1, <2>1 DEF Streaming, RestTypes
<1>3. ASSUME NEW e \in Closure, Break(e) PROVE ScreenTypes' /\ RestTypes' /\ ClickFits'
  <2>1. /\ UNCHANGED <<connected, section, query, shown, asked, answers, click, job>>
        /\ inbox' = <<>> /\ faults < MaxFaults /\ faults' = faults + 1
    BY <1>3 DEF Break, Fault, Streaming, Serving, requests, screen
  <2>2. faults' \in 0 .. MaxFaults /\ inbox' \in Seq(StreamEvents)
    BY <1>0, <2>1 DEF RestTypes
  <2> QED
    BY <1>0, <2>1, <2>2 DEF ScreenTypes, AnswersFit, RestTypes, ClickFits
<1>4. CASE OnStockUpdate
  <2>1. UNCHANGED <<connected, faults, section, query, asked, answers, click, job>>
    BY <1>4 DEF OnStockUpdate, Expected, Serving, requests
  <2> QED
    BY <1>0, <1>4, <2>1, StockUpdateIs DEF ScreenTypes, AnswersFit, RestTypes, ClickFits
<1>5. CASE OnOrderUpdate
  <2>1. /\ UNCHANGED <<connected, faults, section, query, shown, answers, click, job>>
        /\ inbox # <<>> /\ inbox' = Tail(inbox)
        /\ asked' = IF section = "orders" THEN Ask("list", <<query>>) ELSE asked
    BY <1>5 DEF OnOrderUpdate, Expected, Serving, requests
  <2>2. inbox' \in Seq(StreamEvents)
    BY <1>0, <2>1, InboxIs DEF RestTypes
  <2>3. <<query>> \in Seq(AllQueries)
    BY <1>0, SectionIs DEF ScreenTypes
  <2>4. asked' \in [stock : Seq({"none"}), list : Seq(AllQueries)]
    BY <1>0, <2>1, <2>3, AskIs DEF ScreenTypes
  <2> QED
    BY <1>0, <2>1, <2>2, <2>4 DEF ScreenTypes, AnswersFit, RestTypes, ClickFits
<1> QED
  BY <1>2, <1>3, <1>4, <1>5 DEF Stream

LEMMA ListLoadIs ==
    ASSUME NEW s \in Sections, NEW q \in Queries[s]
    PROVE  /\ ListLoad(s, q) \in Seq(AllQueries)
           /\ s = "inventory" => ListLoad(s, q) = <<>>
           /\ s # "inventory" => ListLoad(s, q) # <<>>
  BY SectionIs DEF ListLoad

LEMMA MoveTypes == ASSUME PageInv, Moves PROVE ScreenTypes' /\ RestTypes' /\ ClickFits'
<1>0. /\ ScreenTypes /\ AnswersFit /\ RestTypes /\ ClickFits
      /\ section \in Sections /\ query \in Queries[section]
  BY DEF PageInv, ScreenTypes
<1>1. CASE Rerender
  <2>1. /\ UNCHANGED <<connected, section, query, shown, answers, click, job, faults>>
        /\ inbox' = <<>>
        /\ asked' = [stock |-> Append(asked.stock, "none"),
                     list |-> asked.list \o ListLoad(section, query)]
    BY <1>1 DEF Rerender, Turn, Serving, requests
  <2>3. asked.stock \in Seq({"none"}) /\ asked.list \in Seq(AllQueries)
    BY <1>0 DEF ScreenTypes
  <2>4. Append(asked.stock, "none") \in Seq({"none"})
    BY <2>3, AppendProperties
  <2>5. asked.list \o ListLoad(section, query) \in Seq(AllQueries)
    BY <1>0, <2>3, ListLoadIs, ConcatProperties
  <2>6. asked' \in [stock : Seq({"none"}), list : Seq(AllQueries)]
    BY <2>1, <2>4, <2>5
  <2> QED
    BY <1>0, <2>1, <2>6, EmptySeq DEF ScreenTypes, AnswersFit, RestTypes, ClickFits
<1>2. CASE Leave
  <2>1. /\ UNCHANGED <<section, query, job, faults>>
        /\ connected' = FALSE /\ inbox' = <<>>
        /\ shown' = [w \in What |-> Nothing(w)]
        /\ asked' = [w \in What |-> <<>>] /\ answers' = [w \in What |-> <<>>]
        /\ click' = [click EXCEPT !.here = FALSE]
    BY <1>2 DEF Leave, Turn, Serving, requests
  <2>2. Nothing("stock") \in StockRows /\ Nothing("list") \in ListRows
    BY DEF Nothing, StockRows, ListRows
  <2>3. shown' \in [stock : StockRows, list : ListRows]
    BY <2>1, <2>2 DEF What
  <2>4. AnswersFit' /\ asked' \in [stock : Seq({"none"}), list : Seq(AllQueries)]
    <3>1. <<>> \in Seq(ListRows) /\ <<>> \in Seq(StockRows)
      BY EmptySeq
    <3>2. AnswersFit'
      BY <2>1, <3>1 DEF AnswersFit, What
    <3>3. <<>> \in Seq({"none"}) /\ <<>> \in Seq(AllQueries)
      BY EmptySeq
    <3>4. asked' \in [stock : Seq({"none"}), list : Seq(AllQueries)]
      BY <2>1, <3>3 DEF What
    <3> QED
      BY <3>2, <3>4
  <2>5. click' \in [query : AllQueries, connected : BOOLEAN, here : BOOLEAN] /\ ~click'.here
    BY <1>0, <2>1 DEF ScreenTypes
  <2>6. RestTypes'
    BY <1>0, <2>1, EmptySeq DEF RestTypes
  <2>7. ScreenTypes'
    BY <1>0, <2>1, <2>3, <2>4, <2>5 DEF ScreenTypes
  <2> QED
    BY <2>5, <2>6, <2>7 DEF ClickFits
<1>3. CASE Return
  <2>1. /\ UNCHANGED <<connected, inbox, shown, answers, click, job, faults>>
        /\ section' \in Sections /\ query' = Home[section'] /\ asked' = Mounted(section')
    BY <1>3 DEF Return, Expected, Serving, requests
  <2>2. query' \in Queries[section'] /\ ListLoad(section', query') \in Seq(AllQueries)
    BY <2>1, SectionIs, ListLoadIs
  <2>3. asked' \in [stock : Seq({"none"}), list : Seq(AllQueries)]
    BY <2>1, <2>2 DEF Mounted
  <2>4. ClickFits'
    BY <1>3, <2>1 DEF Return, ClickFits, AwayFits, PageInv
  <2> QED
    BY <1>0, <2>1, <2>2, <2>3, <2>4 DEF ScreenTypes, AnswersFit, RestTypes
<1>4. ASSUME NEW s \in Sections, Open(s) PROVE ScreenTypes' /\ RestTypes' /\ ClickFits'
  <2>1. /\ UNCHANGED <<connected, inbox, job, faults>>
        /\ section' = s /\ query' = Home[s]
        /\ shown' = [shown EXCEPT !.list = {}]
        /\ asked' = [asked EXCEPT !.list = ListLoad(s, Home[s])]
        /\ answers' = [answers EXCEPT !.list = <<>>]
        /\ click' = [click EXCEPT !.here = FALSE]
    BY <1>4 DEF Open, FirstQuery, stream, Turn, Serving, requests
  <2>2. Home[s] \in Queries[s] /\ ListLoad(s, Home[s]) \in Seq(AllQueries)
    BY SectionIs, ListLoadIs
  <2>3. /\ asked' \in [stock : Seq({"none"}), list : Seq(AllQueries)]
        /\ shown' \in [stock : StockRows, list : ListRows]
    BY <1>0, <2>1, <2>2 DEF ScreenTypes, ListRows
  <2>4. AnswersFit'
    <3>1. <<>> \in Seq(ListRows)
      BY EmptySeq
    <3> QED
      BY <1>0, <2>1, <3>1 DEF AnswersFit
  <2>5. click' \in [query : AllQueries, connected : BOOLEAN, here : BOOLEAN] /\ ~click'.here
    BY <1>0, <2>1 DEF ScreenTypes
  <2> QED
    BY <1>0, <2>1, <2>2, <2>3, <2>4, <2>5 DEF ScreenTypes, RestTypes, ClickFits
<1>5. ASSUME NEW q \in Tabs \cup Pages, SetQuery(q) PROVE ScreenTypes' /\ RestTypes' /\ ClickFits'
  <2>1. /\ UNCHANGED <<connected, inbox, section, shown, answers, click, job, faults>>
        /\ query' = q /\ q \in Queries[section] /\ asked' = Ask("list", <<q>>)
    BY <1>5 DEF SetQuery, stream, Turn, Serving, requests
  <2>2. <<q>> \in Seq(AllQueries)
    BY <1>0, <2>1, SectionIs
  <2>3. asked' \in [stock : Seq({"none"}), list : Seq(AllQueries)]
    BY <1>0, <2>1, <2>2, AskIs
  <2> QED
    BY <1>0, <2>1, <2>3 DEF ScreenTypes, AnswersFit, RestTypes, ClickFits
<1> QED
  BY <1>1, <1>2, <1>3, <1>4, <1>5 DEF Moves

LEMMA AwayNext == ASSUME PageInv, Next PROVE AwayFits'
<1>0. ScreenTypes /\ AwayFits
  BY DEF PageInv
<1>1. CASE UNCHANGED <<live, click>>
  BY <1>0, <1>1 DEF AwayFits
<1>2. CASE ~click'.here
  BY <1>2 DEF AwayFits
<1>3. CASE live' # 0
  BY <1>3 DEF AwayFits
<1>4. ~NoClick.here /\ ~[click EXCEPT !.here = FALSE].here
  BY <1>0 DEF NoClick, ScreenTypes
<1>5. CASE Requests
  <2>1. ASSUME NEW p \in Proc, (\E j \in Jobs : Request(p, j)) \/ Serve(p) \/ Emit(p) \/ Reply(p)
        PROVE  UNCHANGED <<live, click>>
    BY <2>1 DEF Request, Serve, Emit, Reply, stream, screen
  <2>2. ASSUME \E j \in Jobs : Click(j) PROVE live' # 0
    BY <2>2 DEF Click, stream
  <2>3. ASSUME MyReply \/ MyReplyLost PROVE ~click'.here
    BY <1>4, <2>3 DEF MyReply, MyReplyLost
  <2> QED
    BY <1>1, <1>2, <1>3, <1>5, <2>1, <2>2, <2>3 DEF Requests
<1>6. CASE Loads
  BY <1>1, <1>6 DEF Loads, Read, Show, LoadFails, stream
<1>7. CASE Stream
  BY <1>1, <1>7 DEF Stream, TicketIssued, TicketFails, Admit, Refused, Break, Noticed, Reconnect,
                    OnError, OnStockUpdate, OnOrderUpdate, Streaming, screen
<1>8. CASE Moves
  <2>1. ASSUME Rerender \/ Return PROVE live' # 0
    BY <2>1, ClosureReplaced DEF PageInv
  <2>2. ASSUME Leave \/ \E s \in Sections : Open(s) PROVE ~click'.here
    BY <1>4, <2>2 DEF Leave, Open
  <2>3. ASSUME \E q \in Tabs \cup Pages : SetQuery(q) PROVE UNCHANGED <<live, click>>
    BY <2>3 DEF SetQuery, stream
  <2> QED
    BY <1>1, <1>2, <1>3, <1>8, <2>1, <2>2, <2>3 DEF Moves
<1> QED
  BY <1>5, <1>6, <1>7, <1>8 DEF Next

LEMMA InitPage == ASSUME Init PROVE PageInv
<1>1. CatalogInv /\ StreamInv
  BY InitCatalog, InitStream DEF Init
<1>2. /\ section \in Sections /\ query = Home[section]
      /\ shown = [stock |-> StockOverview, list |-> ListOf(section, query)]
      /\ asked = [w \in What |-> <<>>] /\ answers = [w \in What |-> <<>>]
      /\ click = NoClick /\ faults = 0
      /\ connected = TRUE /\ inbox = <<>> /\ live = 1
  BY DEF Init
<1>3. query \in Queries[section]
  BY <1>2, SectionIs
<1>4. StockOverview \in StockRows /\ ListOf(section, query) \in ListRows
  BY <1>1, <1>2, OverviewIs, ListIs
<1>5. shown \in [stock : StockRows, list : ListRows]
  BY <1>2, <1>4
<1>6. AnswersFit /\ asked \in [stock : Seq({"none"}), list : Seq(AllQueries)]
  <2>1. <<>> \in Seq(ListRows) /\ <<>> \in Seq(StockRows)
    BY EmptySeq
  <2>2. AnswersFit
    BY <1>2, <2>1 DEF AnswersFit, What
  <2>3. <<>> \in Seq({"none"}) /\ <<>> \in Seq(AllQueries)
    BY EmptySeq
  <2> QED
    BY <1>2, <2>2, <2>3 DEF What
<1>7. click \in [query : AllQueries, connected : BOOLEAN, here : BOOLEAN] /\ ~click.here
  BY <1>2 DEF NoClick, AllQueries
<1>8. ScreenTypes
  BY <1>2, <1>3, <1>5, <1>6, <1>7 DEF ScreenTypes
<1>9. RestTypes
  BY <1>2, EmptySeq, DashboardAssumption DEF RestTypes
<1> QED
  BY <1>1, <1>2, <1>7, <1>8, <1>9 DEF PageInv, ClickFits, AwayFits

LEMMA PageNext == ASSUME PageInv, [Next]_vars PROVE PageInv'
<1>1. CatalogInv' /\ StreamInv'
  BY CatalogNext, StreamNext DEF PageInv
<1>2. CASE UNCHANGED vars
  <2>1. UNCHANGED <<live, connected, inbox, faults, section, query, shown, asked, answers, click,
                    job>>
    BY <1>2 DEF vars, stream, screen, requests
  <2> QED
    BY <1>1, <2>1 DEF PageInv, ScreenTypes, AnswersFit, RestTypes, ClickFits, AwayFits
<1>3. CASE Next
  <2>1. ScreenTypes' /\ RestTypes' /\ ClickFits'
    BY <1>3, RequestTypes, OwnTypes, LoadTypes, StreamTypes, MoveTypes DEF Next, Requests
  <2> QED
    BY <1>1, <1>3, <2>1, AwayNext DEF PageInv
<1> QED
  BY <1>2, <1>3

LEMMA PageHolds == Spec => []PageInv
<1>1. Init => PageInv
  BY InitPage
<1>2. PageInv /\ [Next]_vars => PageInv'
  BY PageNext
<1> QED
  BY <1>1, <1>2, PTL DEF Spec

(* Whatever requests, loads, events, renders and failures interleave, the page  *)
(* and the rows keep their types: a query is one of the open section (onCreated *)
(* changes it only among the products), and a snapshot of the stock has one row *)
(* or none for each option.                                                      *)
THEOREM BackofficeTypes == Spec => []TypeOK
<1>1. PageInv => TypeOK
  <2> SUFFICES ASSUME PageInv PROVE TypeOK
    OBVIOUS
  <2>1. MaxTurns \in Nat
    BY DashboardAssumption
  <2>2. live \in 0 .. MaxTurns + 1 /\ phase \in [Closure -> Phases] /\ turns \in 0 .. MaxTurns
    <3>1. PICK n \in 1 .. MaxTurns + 1 :
            live \in 0 .. n /\ phase \in [Closure -> Phases] /\ turns \in 0 .. MaxTurns
      BY DEF PageInv, StreamInv, UsedFit
    <3> QED
      BY <2>1, <3>1
  <2> QED
    BY <2>2 DEF PageInv, CatalogInv, ScreenTypes, AnswersFit, RestTypes, TypeOK
<1> QED
  BY <1>1, PageHolds, PTL

=============================================================================
