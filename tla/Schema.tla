------------------------------- MODULE Schema -------------------------------
(***************************************************************************)
(* The database schema as its migrations leave it, and the catalogue rows   *)
(* they touch.  A server that starts applies every pending migration in one *)
(* transaction (migrationsRun); migration:revert undoes the last applied    *)
(* one.  A database starts empty, or made by hand from                      *)
(* commerce-core-schema.sql, as production was.                             *)
(*                                                                          *)
(* A schema is a set of items: a column, an enum value or a key of a table  *)
(* or type.  A column is "required" when it is NOT NULL without a default:  *)
(* an INSERT that does not name it fails.                                   *)
(*                                                                          *)
(* One name stands for all products the migrations treat alike: "tee" for   *)
(* those of the snapshot that AddProductImageColumns knows, "hood" for      *)
(* those SeedMoreProductImages knows, "boots" for the fifteen that          *)
(* ExpandCatalogTo20Products adds, "cap" for one no migration knows.  A     *)
(* product is made with one option and an admin may add others; a seeded    *)
(* option has the SKU of its name.                                          *)
(*                                                                          *)
(* addProductOption looks for the product and saves the option in two       *)
(* statements, outside a transaction.  Ghost `late`: the options that were  *)
(* saved for a product deleted in between.                                  *)
(***************************************************************************)
EXTENDS Naturals, Sequences

CONSTANTS
    MaxEdits,    \* bound: requests that change the catalogue
    None

ASSUME SchemaAssumption == MaxEdits \in Nat

VARIABLES
    db,          \* [schema, categories, products, options, failed]
    applied,     \* rows of the migrations table: how many have been applied
    adding,      \* additions of an option under way, their product found
    late,        \* ghost
    edits

vars == <<db, applied, adding, late, edits>>

-----------------------------------------------------------------------------
(* Items, and what a migration does to them.                                *)

Columns(t, required, optional) ==
    {<<t, c, "required">> : c \in required} \cup {<<t, c, "optional">> : c \in optional}
Values(type, values) == {<<type, v, "value">> : v \in values}
Keys(t, keys) == {<<t, k, "key">> : k \in keys}

\* CREATE ... IF NOT EXISTS leaves a table or type alone that is there already.
Created(schema, items) == schema \cup {x \in items : \A y \in schema : y[1] # x[1]}
\* ADD COLUMN IF NOT EXISTS, CREATE INDEX IF NOT EXISTS, ADD VALUE IF NOT EXISTS.
Altered(schema, items) == schema \cup items
Dropped(schema, whole, items) ==
    {x \in schema : x[1] \notin whole /\ <<x[1], x[2]>> \notin items}

Stamps == {"created_at", "updated_at"}

\* What up creates, adds and drops, and what down drops and adds again.
Nothing == [create |-> {}, add |-> {}, drop |-> {}, downWhole |-> {}, downItems |-> {},
            restore |-> {}]

SnapshotSchema ==
    Values("order_status", {"PENDING", "PAID", "SHIPPED", "DELIVERED", "CANCELLED"})
    \cup Columns("categories", {"name"}, {"id"})
    \cup Columns("products", {"category_id", "name", "base_price"},
                 {"id", "description"} \cup Stamps)
    \cup Columns("product_options", {"product_id", "size", "color", "sku"}, {"id", "stock"})
    \cup Keys("product_options", {"product_options_sku_key"})
    \cup Columns("orders", {"order_number", "buyer_email", "buyer_name", "buyer_phone",
                 "buyer_address", "total_amount"}, {"id", "status", "payment_key"} \cup Stamps)
    \cup Keys("orders", {"orders_order_number_key", "idx_buyer_email", "idx_order_number"})
    \cup Columns("order_items", {"order_id", "product_option_id", "quantity",
                 "price_at_order"}, {"id"})

InitialSchema == [Nothing EXCEPT
    !.create =
        Values("order_status", {"PENDING", "PAID", "SHIPPED", "DELIVERED", "CANCELLED"})
        \cup Columns("categories", {"name"}, {"id"})
        \cup Columns("products", {"category_id", "name", "base_price"},
                     {"id", "description"} \cup Stamps)
        \cup Columns("product_options", {"product_id", "size", "color", "sku"}, {"id", "stock"})
        \cup Keys("product_options", {"product_options_sku_key"})
        \cup Columns("orders", {"order_number", "buyer_email", "buyer_name", "buyer_phone",
                     "buyer_address", "total_amount"}, {"id", "status", "payment_key"} \cup Stamps)
        \cup Keys("orders", {"orders_order_number_key"})
        \cup Columns("order_items", {"order_id", "product_option_id", "quantity",
                     "price_at_order"}, {"id"}),
    !.add = Columns("orders", {}, {"payment_key"})
            \cup Keys("orders", {"idx_buyer_email", "idx_order_number"}),
    !.downWhole = {"order_items", "orders", "product_options", "products", "categories",
                   "order_status"}]

AddProductImageColumns == [Nothing EXCEPT
    !.add = Columns("products", {}, {"image_url", "image_embedding"}),
    !.downItems = {<<"products", "image_url">>, <<"products", "image_embedding">>}]

StructureOrderAddress == [Nothing EXCEPT
    !.add = Columns("orders", {}, {"postal_code", "base_address", "detail_address"}),
    !.downItems = {<<"orders", c>> : c \in {"postal_code", "base_address", "detail_address"}}]

AddDeliveryTracking == [Nothing EXCEPT
    !.create = Values("carrier", {"CJ", "HANJIN", "LOGEN", "KOREA_POST", "ETC"})
        \cup Values("delivery_stage",
                    {"COLLECTED", "IN_TRANSIT", "OUT_FOR_DELIVERY", "DELIVERED"})
        \cup Columns("delivery_events", {"order_id", "stage", "occurred_at"},
                     {"id", "location", "created_at"}),
    !.add = Columns("orders", {}, {"tracking_number", "carrier"})
        \cup Keys("delivery_events", {"idx_order_id"}),
    !.downWhole = {"delivery_events", "delivery_stage", "carrier"},
    !.downItems = {<<"orders", "carrier">>, <<"orders", "tracking_number">>}]

CreateUsers == [Nothing EXCEPT
    !.create = Columns("users", {"email", "password_hash", "name"}, {"id"} \cup Stamps)
        \cup Keys("users", {"users_email_key"}),
    !.downWhole = {"users"}]

CreateCartItems == [Nothing EXCEPT
    !.create = Columns("cart_items", {"user_id", "product_option_id", "quantity"},
                       {"id"} \cup Stamps)
        \cup Keys("cart_items", {"user_id_product_option_id_key"}),
    !.add = Keys("cart_items", {"idx_user_id"}),
    !.downWhole = {"cart_items"}]

\* mutant: the new column is NOT NULL without a default.
OrderUserIdRequired == [Nothing EXCEPT
    !.add = Columns("orders", {"user_id"}, {}) \cup Keys("orders", {"idx_user_id"}),
    !.downItems = {<<"orders", "idx_user_id">>, <<"orders", "user_id">>}]

AddOrderUserId == [Nothing EXCEPT
    !.add = Columns("orders", {}, {"user_id"}) \cup Keys("orders", {"idx_user_id"}),
    !.downItems = {<<"orders", "idx_user_id">>, <<"orders", "user_id">>}]

\* mutant: the down method leaves the type behind.
UserRoleTypeKept == [Nothing EXCEPT
    !.create = Values("user_role", {"user", "admin"}),
    !.add = Columns("users", {}, {"role"}),
    !.downItems = {<<"users", "role">>}]

AddUserRole == [Nothing EXCEPT
    !.create = Values("user_role", {"user", "admin"}),
    !.add = Columns("users", {}, {"role"}),
    !.downWhole = {"user_role"},
    !.downItems = {<<"users", "role">>}]

AddProductIsActive == [Nothing EXCEPT
    !.add = Columns("products", {}, {"is_active"}),
    !.downItems = {<<"products", "is_active">>}]

\* mutant: the down method forgets to restore the UNIQUE constraint.
PartialSkuNotRestored == [Nothing EXCEPT
    !.add = Columns("product_options", {}, {"is_active"})
        \cup Keys("product_options", {"uq_active_sku"}),
    !.drop = {<<"product_options", "product_options_sku_key">>},
    !.downItems = {<<"product_options", "uq_active_sku">>, <<"product_options", "is_active">>}]

AddProductOptionIsActiveAndPartialUniqueSku == [Nothing EXCEPT
    !.add = Columns("product_options", {}, {"is_active"})
        \cup Keys("product_options", {"uq_active_sku"}),
    !.drop = {<<"product_options", "product_options_sku_key">>},
    !.downItems = {<<"product_options", "uq_active_sku">>, <<"product_options", "is_active">>},
    !.restore = Keys("product_options", {"product_options_sku_key"})]

\* PostgreSQL cannot remove an enum value: down does nothing.
AddOrderStatusExpired == [Nothing EXCEPT !.add = Values("order_status", {"EXPIRED"})]

Migrations == <<
    InitialSchema, AddProductImageColumns,
    Nothing,                \* SeedMoreProductImages
    Nothing,                \* ExpandCatalogTo20Products
    StructureOrderAddress, AddDeliveryTracking, CreateUsers, CreateCartItems,
    AddOrderUserId, AddUserRole, AddProductIsActive,
    AddProductOptionIsActiveAndPartialUniqueSku, AddOrderStatusExpired,
    Nothing >>              \* SetProductDescriptions

-----------------------------------------------------------------------------
(* What the code relies on: the columns of the entities and the enums.  A    *)
(* property that is neither nullable, generated nor defaulted is required.   *)

UserEntity == Columns("users", {"email", "password_hash", "name"}, {"id", "role"} \cup Stamps)

OrderEntity ==
    Columns("orders", {"order_number", "buyer_email", "buyer_name", "buyer_phone",
            "buyer_address", "total_amount"},
            {"id", "status", "postal_code", "base_address", "detail_address", "payment_key",
             "user_id", "tracking_number", "carrier"} \cup Stamps)

OrderItemEntity ==
    Columns("order_items", {"order_id", "product_option_id", "quantity", "price_at_order"}, {"id"})

DeliveryEventEntity ==
    Columns("delivery_events", {"order_id", "stage", "occurred_at"}, {"id", "location", "created_at"})

CartItemEntity ==
    Columns("cart_items", {"user_id", "product_option_id", "quantity"}, {"id"} \cup Stamps)

ProductOptionEntity ==
    Columns("product_options", {"product_id", "size", "color", "sku"}, {"id", "stock", "is_active"})

ProductEntity ==
    Columns("products", {"category_id", "name", "base_price"},
            {"id", "description", "image_url", "image_embedding", "is_active"} \cup Stamps)

CategoryEntity == Columns("categories", {"name"}, {"id"})

OrderStatus ==
    Values("order_status", {"PENDING", "PAID", "SHIPPED", "DELIVERED", "CANCELLED", "EXPIRED"})
Carrier == Values("carrier", {"CJ", "HANJIN", "LOGEN", "KOREA_POST", "ETC"})
DeliveryStage ==
    Values("delivery_stage", {"COLLECTED", "IN_TRANSIT", "OUT_FOR_DELIVERY", "DELIVERED"})
UserRole == Values("user_role", {"user", "admin"})

CodeItems ==
    UserEntity \cup OrderEntity \cup OrderItemEntity \cup DeliveryEventEntity
    \cup CartItemEntity \cup ProductOptionEntity \cup ProductEntity \cup CategoryEntity
    \cup OrderStatus \cup Carrier \cup DeliveryStage \cup UserRole

-----------------------------------------------------------------------------
(* What the migrations do to rows.  A row whose table has no is_active       *)
(* column yet counts as active: the column is added with that default.       *)

FirstImages == {"tee"}
MoreImages == {"hood"}
Seeded == {"boots"}
Described == {"tee", "hood", "boots"}

\* mutant: the guard "AND image_url IS NULL" and its like are dropped.
FillAlways(products, names, field) ==
    {[p EXCEPT ![field] = IF p.name \in names THEN "seed" ELSE @] : p \in products}

Fill(products, names, field) ==
    {[p EXCEPT ![field] = IF p.name \in names /\ @ = None THEN "seed" ELSE @] : p \in products}

\* mutant: emptied fields become '' instead of NULL, and are never filled again.
ClearToEmpty(products, names, field) ==
    {[p EXCEPT ![field] = IF p.name \in names THEN "" ELSE @] : p \in products}

Clear(products, names, field) ==
    {[p EXCEPT ![field] = IF p.name \in names THEN None ELSE @] : p \in products}

HasKey(d, key) == \E x \in d.schema : x[2] = key

SkuClash(options) == \E o1, o2 \in options : o1 # o2 /\ o1.sku = o2.sku

\* An option, as it is inserted.
Option(id, product, sku) ==
    [id |-> id, product |-> product, sku |-> sku, active |-> TRUE, ordered |-> FALSE]

ExpandCatalog(d) ==
    LET new  == {n \in Seeded : \A p \in d.products : p.name # n}
        kept == {n \in new : \A o \in d.options : o.sku # n}   \* ON CONFLICT (sku) DO NOTHING
    IN  [d EXCEPT
            !.categories = @ \cup {"shoes"},
            !.products = @ \cup {[id |-> <<"seed", n>>, name |-> n, image |-> "seed",
                                  description |-> None, active |-> TRUE] : n \in new},
            !.options = @ \cup {Option(<<"seed", n>>, <<"seed", n>>, n) : n \in kept}]

\* mutant: the options are deleted whether or not an order refers to them.
ShrinkAnyway(d) ==
    LET gone == {p \in d.products : p.name \in Seeded}
    IN  [d EXCEPT !.products = @ \ gone,
                  !.options = {o \in @ : \A p \in gone : p.id # o.product}]

\* DELETE by name: refused when a name is not unique or an order_items row refers to an option.
ShrinkCatalog(d) ==
    LET gone  == {p \in d.products : p.name \in Seeded}
        theirs == {o \in d.options : \E p \in gone : p.id = o.product}
    IN  [d EXCEPT !.products = @ \ gone,
                  !.options = @ \ theirs,
                  !.failed = @ \/ (\E o \in theirs : o.ordered)
                               \/ (\E p, q \in gone : p # q /\ p.name = q.name)]

\* mutant: the options of products deleted earlier stay active.
NotSynchronised(d) == [d EXCEPT !.failed = @ \/ SkuClash({o \in d.options : o.active})]

\* The options of deleted products are made inactive before the index is built.
Synchronise(d) ==
    LET Active(o) == o.active /\ \E p \in d.products : p.id = o.product /\ p.active
        synced == {[o EXCEPT !.active = Active(o)] : o \in d.options}
    IN  [d EXCEPT !.options = synced, !.failed = @ \/ SkuClash({o \in synced : o.active})]

\* Adding UNIQUE (sku) again fails when a deleted SKU has been used again.
Unsynchronise(d) ==
    [d EXCEPT !.failed = @ \/ (HasKey(d, "product_options_sku_key") /\ SkuClash(d.options)),
              !.options = {[o EXCEPT !.active = TRUE] : o \in @}]

RowsUp(i, d) ==
    CASE i = 2 -> [d EXCEPT !.products = Fill(@, FirstImages, "image")]
      [] i = 3 -> [d EXCEPT !.products = Fill(@, MoreImages, "image")]
      [] i = 4 -> ExpandCatalog(d)
      [] i = 12 -> Synchronise(d)
      [] i = 14 -> [d EXCEPT !.products = Fill(@, Described, "description")]
      [] OTHER -> d

RowsDown(i, d) ==
    CASE i = 1 -> [d EXCEPT !.products = {}, !.options = {}, !.categories = {}]
      [] i = 2 -> [d EXCEPT !.products = {[p EXCEPT !.image = None] : p \in @}]
      [] i = 3 -> [d EXCEPT !.products = Clear(@, MoreImages, "image")]
      [] i = 4 -> ShrinkCatalog(d)
      [] i = 11 -> [d EXCEPT !.products = {[p EXCEPT !.active = TRUE] : p \in @}]
      [] i = 12 -> Unsynchronise(d)
      [] i = 14 -> [d EXCEPT !.products = Clear(@, Described, "description")]
      [] OTHER -> d

Up(d, i) ==
    LET m == Migrations[i]
        s == Altered(Created(d.schema, m.create), m.add)
    IN  RowsUp(i, [d EXCEPT !.schema = Dropped(s, {}, m.drop)])

Down(d, i) ==
    LET m == Migrations[i]
        s == Dropped(d.schema, m.downWhole, m.downItems) \cup m.restore
    IN  RowsDown(i, [d EXCEPT !.schema = s])

-----------------------------------------------------------------------------
Empty == [schema |-> {}, categories |-> {}, products |-> {}, options |-> {}, failed |-> FALSE]

\* commerce-core-schema.sql, with its seed rows.
Snapshot ==
    LET names == {"tee", "hood"}
    IN  [Empty EXCEPT
            !.schema = SnapshotSchema,
            !.categories = {"shoes"},
            !.products = {[id |-> <<"own", n>>, name |-> n, image |-> None,
                           description |-> "own", active |-> TRUE] : n \in names},
            !.options = {Option(<<"own", n>>, <<"own", n>>, n) : n \in names}]

Init == db \in {Empty, Snapshot} /\ applied = 0 /\ adding = {} /\ late = {} /\ edits = 0

\* What d becomes, of which k migrations are part, with the next ones one by one.
Upgrade(d, k) ==
    LET after[n \in k .. Len(Migrations)] == IF n = k THEN d ELSE Up(after[n - 1], n)
    IN  after

Migrated == Upgrade(db, applied)[Len(Migrations)]

\* A server starts: all or nothing.  Migration 12 hides the late options too.
Boot ==
    /\ applied # Len(Migrations) /\ ~Migrated.failed
    /\ db' = Migrated
    /\ applied' = Len(Migrations)
    /\ late' = IF applied < 12 THEN {} ELSE late
    /\ UNCHANGED <<adding, edits>>

\* A product row that is deleted takes the additions to it along: its foreign key refuses them.
Revert ==
    /\ applied > 0 /\ ~Down(db, applied).failed
    /\ db' = Down(db, applied)
    /\ applied' = applied - 1
    /\ adding' = {a \in adding : \E p \in Down(db, applied).products : p.id = a.product}
    /\ UNCHANGED <<late, edits>>

\* Requests succeed as long as the columns they name are there.
Runs == CodeItems \subseteq db.schema
Edit == Runs /\ edits < MaxEdits /\ edits' = edits + 1 /\ UNCHANGED applied

SkuTaken(sku) ==
    \E o \in db.options : o.sku = sku /\ (o.active \/ HasKey(db, "product_options_sku_key"))

Create ==
    /\ Edit
    /\ "shoes" \in db.categories
    /\ \E n \in {"tee", "hood", "boots", "cap"}, sku \in {"boots", "cap"}, text \in {None, "own"} :
         /\ ~SkuTaken(sku)
         /\ LET id == <<"admin", edits>> IN
            db' = [db EXCEPT
                     !.products = @ \cup {[id |-> id, name |-> n, image |-> "own",
                                           description |-> text, active |-> TRUE]},
                     !.options = @ \cup {Option(id, id, sku)}]
    /\ UNCHANGED <<adding, late>>

SoftDelete ==
    /\ Edit
    /\ \E p \in db.products :
         /\ p.active
         /\ db' = [db EXCEPT
                     !.products = (@ \ {p}) \cup {[p EXCEPT !.active = FALSE]},
                     !.options = {[o EXCEPT !.active = @ /\ o.product # p.id] : o \in @}]
    /\ UNCHANGED <<adding, late>>

\* addProductOption, the first half: the product is there and active.
FindProduct ==
    /\ Edit
    /\ \E p \in db.products :
         p.active /\ adding' = adding \cup {[product |-> p.id, id |-> <<"admin", edits>>]}
    /\ UNCHANGED <<db, late>>

\* The second half asks for the SKU only, and of the product no more than its row.
AddOption ==
    /\ \E a \in adding :
         /\ adding' = adding \ {a}
         /\ \/ \E sku \in {"boots", "cap"} :
                 /\ Runs /\ ~SkuTaken(sku)
                 /\ db' = [db EXCEPT !.options = @ \cup {Option(a.id, a.product, sku)}]
                 /\ late' = IF \E p \in db.products : p.id = a.product /\ p.active
                            THEN late ELSE late \cup {a.id}
            \/ UNCHANGED <<db, late>>
    /\ UNCHANGED <<applied, edits>>

\* createOrder does not ask whether the option is active.
Order ==
    /\ Edit
    /\ \E o \in db.options :
         db' = [db EXCEPT !.options = (@ \ {o}) \cup {[o EXCEPT !.ordered = TRUE]}]
    /\ UNCHANGED <<adding, late>>

Next == Boot \/ Revert \/ Create \/ SoftDelete \/ FindProduct \/ AddOption \/ Order

Spec == Init /\ [][Next]_vars

-----------------------------------------------------------------------------
(* Correctness.                                                             *)

Expired == <<"order_status", "EXPIRED", "value">>

TypeOK ==
    /\ applied \in 0 .. Len(Migrations)
    /\ edits \in 0 .. MaxEdits
    /\ db.categories \subseteq {"shoes"}
    /\ ~db.failed
    /\ \A p \in db.products :
         /\ p.name \in {"tee", "hood", "boots", "cap"}
         /\ p.image \in {None, "seed", "own"} /\ p.description \in {None, "seed", "own"}
    /\ \A o \in db.options \cup adding : \E p \in db.products : p.id = o.product

-----------------------------------------------------------------------------
(* Whatever has been run and undone, and whether the database began empty or   *)
(* was made by hand, its schema is the one of the migrations applied: every    *)
(* down method undoes exactly what its up did, and the value EXPIRED, which    *)
(* PostgreSQL cannot remove, is all that may be left over.                     *)
SchemaIsHistory ==
    \/ db.schema \ {Expired} = Upgrade(Empty, 0)[applied].schema \ {Expired}
    \/ applied = 0 /\ db.schema = SnapshotSchema

(* A migrated database has every column and enum value the entities name, and  *)
(* demands no column that they leave out (data-source.ts:12-14 keeps both by   *)
(* hand: synchronize is off).                                                  *)
CodeRuns ==
    applied = Len(Migrations) =>
        /\ CodeItems \subseteq db.schema
        /\ \A x \in db.schema : x[3] = "required" => x \in CodeItems

(* However far the migrations were reverted and whatever admins did before, a  *)
(* server that starts again can apply the rest (app.module.ts:38-41: a failing *)
(* migration crashes the start).                                               *)
BootsAgain == ~Migrated.failed

(* The two flags agree once both columns exist, reverting and applying again   *)
(* included, except for the late options: addProductOption has no transaction  *)
(* and no lock, so the option of a product deleted between its look-up and its *)
(* insert is active, and stays so until migration 12 is run again.             *)
HiddenTogether ==
    applied >= 12 =>
        \A p \in db.products, o \in db.options :
            o.product = p.id /\ o.active /\ o.id \notin late => p.active

(* An order's lines keep their option: only undoing the very first migration   *)
(* removes an option somebody has ordered.                                     *)
OrderedKept ==
    [][(applied = 1 /\ applied' = 0) \/
       \A o \in db.options : o.ordered => \E n \in db'.options : n.id = o.id]_vars

(* Applying migrations never overwrites what is there already: neither the     *)
(* rows of a database made by hand nor those an admin has made                 *)
(* (SetProductDescriptions, 3-8; SeedMoreProductImages, 8).                    *)
BootKeepsRows ==
    [][Boot => \A p \in db.products : \E q \in db'.products :
          /\ q.id = p.id /\ q.active = p.active
          /\ p.image # None => q.image = p.image
          /\ p.description # None => q.description = p.description]_vars
=============================================================================
