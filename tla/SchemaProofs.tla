---------------------------- MODULE SchemaProofs ----------------------------
(***************************************************************************)
(* Theorems about the migrations, for any number of starts, reverts and     *)
(* requests between them: what the schema is, that the next start succeeds, *)
(* and what becomes of the rows.                                            *)
(***************************************************************************)
EXTENDS Schema, TLAPS, WellFoundedInduction

-----------------------------------------------------------------------------
(* The list of migrations.                                                  *)

LEMMA FourteenMigrations == Len(Migrations) = 14
  BY DEF Migrations

LEMMA EachMigration ==
    /\ Migrations[1] = InitialSchema
    /\ Migrations[2] = AddProductImageColumns
    /\ Migrations[3] = Nothing
    /\ Migrations[4] = Nothing
    /\ Migrations[5] = StructureOrderAddress
    /\ Migrations[6] = AddDeliveryTracking
    /\ Migrations[7] = CreateUsers
    /\ Migrations[8] = CreateCartItems
    /\ Migrations[9] = AddOrderUserId
    /\ Migrations[10] = AddUserRole
    /\ Migrations[11] = AddProductIsActive
    /\ Migrations[12] = AddProductOptionIsActiveAndPartialUniqueSku
    /\ Migrations[13] = AddOrderStatusExpired
    /\ Migrations[14] = Nothing
  BY DEF Migrations

\* The items migration k brings.
Part(k) == Migrations[k].create \cup Migrations[k].add

\* What the down method of migration k drops.
Removed(x, k) ==
    x[1] \in Migrations[k].downWhole \/ <<x[1], x[2]>> \in Migrations[k].downItems

\* The migration an item comes from, but for the value EXPIRED.
Home(x) ==
    CASE x[1] = "products" ->
             IF x[2] \in {"image_url", "image_embedding"} THEN 2
             ELSE IF x[2] = "is_active" THEN 11 ELSE 1
      [] x[1] = "product_options" -> IF x[2] \in {"is_active", "uq_active_sku"} THEN 12 ELSE 1
      [] x[1] = "orders" ->
             IF x[2] \in {"postal_code", "base_address", "detail_address"} THEN 5
             ELSE IF x[2] \in {"tracking_number", "carrier"} THEN 6
             ELSE IF x[2] \in {"user_id", "idx_user_id"} THEN 9 ELSE 1
      [] x[1] \in {"carrier", "delivery_stage", "delivery_events"} -> 6
      [] x[1] = "users" -> IF x[2] = "role" THEN 10 ELSE 7
      [] x[1] = "cart_items" -> 8
      [] x[1] = "user_role" -> 10
      [] OTHER -> 1

\* What holds of one migration on its own.
Placed(k) ==
    /\ \A x \in Part(k) : Home(x) = k /\ Removed(x, k)
    /\ \A x : Removed(x, k) => Home(x) >= k
    /\ \A x \in Migrations[k].create : \A y : y[1] = x[1] => Home(y) >= k
    /\ Migrations[k].drop = {} /\ Migrations[k].restore = {}

LEMMA InitialPart ==
    Part(1) =
        Values("order_status", {"PENDING", "PAID", "SHIPPED", "DELIVERED", "CANCELLED"})
        \cup Columns("categories", {"name"}, {"id"})
        \cup Columns("products", {"category_id", "name", "base_price"},
                     {"id", "description"} \cup Stamps)
        \cup Columns("product_options", {"product_id", "size", "color", "sku"}, {"id", "stock"})
        \cup Keys("product_options", {"product_options_sku_key"})
        \cup Columns("orders", {"order_number", "buyer_email", "buyer_name", "buyer_phone",
                     "buyer_address", "total_amount"}, {"id", "status", "payment_key"} \cup Stamps)
        \cup Keys("orders", {"orders_order_number_key", "idx_buyer_email", "idx_order_number"})
        \cup Columns("order_items", {"order_id", "product_option_id", "quantity",
                     "price_at_order"}, {"id"})
  BY EachMigration DEF Part, InitialSchema, Nothing, Columns, Keys

\* What the later ones bring, rows and the value EXPIRED aside.
LEMMA LaterParts ==
    /\ Part(2) = Columns("products", {}, {"image_url", "image_embedding"})
    /\ Part(5) = Columns("orders", {}, {"postal_code", "base_address", "detail_address"})
    /\ Part(6) = Values("carrier", {"CJ", "HANJIN", "LOGEN", "KOREA_POST", "ETC"})
        \cup Values("delivery_stage",
                    {"COLLECTED", "IN_TRANSIT", "OUT_FOR_DELIVERY", "DELIVERED"})
        \cup Columns("delivery_events", {"order_id", "stage", "occurred_at"},
                     {"id", "location", "created_at"})
        \cup Columns("orders", {}, {"tracking_number", "carrier"})
        \cup Keys("delivery_events", {"idx_order_id"})
    /\ Part(7) = Columns("users", {"email", "password_hash", "name"}, {"id"} \cup Stamps)
        \cup Keys("users", {"users_email_key"})
    /\ Part(8) = Columns("cart_items", {"user_id", "product_option_id", "quantity"},
                         {"id"} \cup Stamps)
        \cup Keys("cart_items", {"user_id_product_option_id_key"})
        \cup Keys("cart_items", {"idx_user_id"})
    /\ Part(9) = Columns("orders", {}, {"user_id"}) \cup Keys("orders", {"idx_user_id"})
    /\ Part(10) = Values("user_role", {"user", "admin"}) \cup Columns("users", {}, {"role"})
    /\ Part(11) = Columns("products", {}, {"is_active"})
    /\ Part(12) = Columns("product_options", {}, {"is_active"})
        \cup Keys("product_options", {"uq_active_sku"})
  BY EachMigration DEF Part, Nothing, AddProductImageColumns, StructureOrderAddress,
     AddDeliveryTracking, CreateUsers, CreateCartItems, AddOrderUserId, AddUserRole,
     AddProductIsActive, AddProductOptionIsActiveAndPartialUniqueSku

LEMMA InitialSchemaPlaced == Placed(1)
<1>1. /\ Migrations[1].downWhole = {"order_items", "orders", "product_options", "products",
                                    "categories", "order_status"}
      /\ Migrations[1].downItems = {}
      /\ Migrations[1].drop = {} /\ Migrations[1].restore = {}
  BY EachMigration DEF InitialSchema, Nothing
<1>2. \A x : Home(x) >= 1
  BY DEF Home
<1>3. ASSUME NEW x \in Part(1)
      PROVE  /\ x[1] \in Migrations[1].downWhole
             /\ x[1] = "products" => x[2] \notin {"image_url", "image_embedding", "is_active"}
             /\ x[1] = "product_options" => x[2] \notin {"is_active", "uq_active_sku"}
             /\ x[1] = "orders" => x[2] \notin {"postal_code", "base_address", "detail_address",
                    "tracking_number", "carrier", "user_id", "idx_user_id"}
  BY InitialPart, <1>1 DEF Columns, Values, Keys, Stamps
<1>4. \A x \in Part(1) : Home(x) = 1
  BY <1>3, <1>1 DEF Home
<1> QED
  BY <1>1, <1>2, <1>3, <1>4 DEF Placed, Removed

LEMMA AddProductImageColumnsPlaced == Placed(2)
<1>1. /\ Migrations[2].create = {} /\ Migrations[2].drop = {} /\ Migrations[2].restore = {}
      /\ Migrations[2].downWhole = {}
      /\ Migrations[2].downItems = {<<"products", "image_url">>, <<"products", "image_embedding">>}
  BY EachMigration DEF AddProductImageColumns, Nothing
<1>2. ASSUME NEW x \in Part(2)
      PROVE  x[1] = "products" /\ x[2] \in {"image_url", "image_embedding"}
  BY LaterParts DEF Columns
<1> QED
  BY <1>1, <1>2 DEF Placed, Removed, Home

LEMMA StructureOrderAddressPlaced == Placed(5)
<1>1. /\ Migrations[5].create = {} /\ Migrations[5].drop = {} /\ Migrations[5].restore = {}
      /\ Migrations[5].downWhole = {}
      /\ Migrations[5].downItems =
            {<<"orders", c>> : c \in {"postal_code", "base_address", "detail_address"}}
  BY EachMigration DEF StructureOrderAddress, Nothing
<1>2. ASSUME NEW x \in Part(5)
      PROVE  x[1] = "orders" /\ x[2] \in {"postal_code", "base_address", "detail_address"}
  BY LaterParts DEF Columns, Keys
<1> QED
  BY <1>1, <1>2 DEF Placed, Removed, Home

LEMMA AddOrderUserIdPlaced == Placed(9)
<1>1. /\ Migrations[9].create = {} /\ Migrations[9].drop = {} /\ Migrations[9].restore = {}
      /\ Migrations[9].downWhole = {}
      /\ Migrations[9].downItems = {<<"orders", "idx_user_id">>, <<"orders", "user_id">>}
  BY EachMigration DEF AddOrderUserId, Nothing
<1>2. ASSUME NEW x \in Part(9)
      PROVE  x[1] = "orders" /\ x[2] \in {"user_id", "idx_user_id"}
  BY LaterParts DEF Columns, Keys
<1> QED
  BY <1>1, <1>2 DEF Placed, Removed, Home

LEMMA AddProductIsActivePlaced == Placed(11)
<1>1. /\ Migrations[11].create = {} /\ Migrations[11].drop = {} /\ Migrations[11].restore = {}
      /\ Migrations[11].downWhole = {}
      /\ Migrations[11].downItems = {<<"products", "is_active">>}
  BY EachMigration DEF AddProductIsActive, Nothing
<1>2. ASSUME NEW x \in Part(11)
      PROVE  x[1] = "products" /\ x[2] = "is_active"
  BY LaterParts DEF Columns, Keys
<1> QED
  BY <1>1, <1>2 DEF Placed, Removed, Home

LEMMA AddDeliveryTrackingPlaced == Placed(6)
<1> DEFINE tables == Values("carrier", {"CJ", "HANJIN", "LOGEN", "KOREA_POST", "ETC"})
        \cup Values("delivery_stage",
                    {"COLLECTED", "IN_TRANSIT", "OUT_FOR_DELIVERY", "DELIVERED"})
        \cup Columns("delivery_events", {"order_id", "stage", "occurred_at"},
                     {"id", "location", "created_at"})
           columns == Columns("orders", {}, {"tracking_number", "carrier"})
        \cup Keys("delivery_events", {"idx_order_id"})
<1>1. Migrations[6].create = tables /\ Migrations[6].add = columns
  BY EachMigration DEF AddDeliveryTracking, Nothing
<1>2. /\ Migrations[6].drop = {} /\ Migrations[6].restore = {}
      /\ Migrations[6].downWhole = {"delivery_events", "delivery_stage", "carrier"}
      /\ Migrations[6].downItems = {<<"orders", "carrier">>, <<"orders", "tracking_number">>}
  BY EachMigration DEF AddDeliveryTracking, Nothing
<1>3. \A x \in tables : x[1] \in {"delivery_events", "delivery_stage", "carrier"}
  BY DEF Columns, Values
<1>4. \A x \in columns : \/ x[1] = "orders" /\ x[2] \in {"tracking_number", "carrier"}
                         \/ x[1] = "delivery_events"
  BY DEF Columns, Keys
<1> HIDE DEF tables, columns
<1> QED
  BY <1>1, <1>2, <1>3, <1>4 DEF Placed, Part, Removed, Home

LEMMA CreateUsersPlaced == Placed(7)
<1>1. /\ Migrations[7].create =
            Columns("users", {"email", "password_hash", "name"}, {"id"} \cup Stamps)
            \cup Keys("users", {"users_email_key"})
      /\ Migrations[7].add = {} /\ Migrations[7].drop = {} /\ Migrations[7].restore = {}
      /\ Migrations[7].downWhole = {"users"} /\ Migrations[7].downItems = {}
  BY EachMigration DEF CreateUsers, Nothing
<1>2. \A x \in Migrations[7].create : x[1] = "users" /\ x[2] # "role"
  BY <1>1 DEF Columns, Keys, Stamps
<1>3. \A x : x[1] = "users" => Home(x) >= 7
  BY DEF Home
<1>4. \A x : x[1] = "users" /\ x[2] # "role" => Home(x) = 7
  BY DEF Home
<1> QED
  BY <1>1, <1>2, <1>3, <1>4 DEF Placed, Part, Removed

LEMMA CreateCartItemsPlaced == Placed(8)
<1>1. /\ Migrations[8].create =
            Columns("cart_items", {"user_id", "product_option_id", "quantity"},
                    {"id"} \cup Stamps)
            \cup Keys("cart_items", {"user_id_product_option_id_key"})
      /\ Migrations[8].add = Keys("cart_items", {"idx_user_id"})
      /\ Migrations[8].drop = {} /\ Migrations[8].restore = {}
      /\ Migrations[8].downWhole = {"cart_items"} /\ Migrations[8].downItems = {}
  BY EachMigration DEF CreateCartItems, Nothing
<1>2. \A x \in Part(8) : x[1] = "cart_items"
  BY <1>1 DEF Part, Columns, Keys
<1>3. \A x : x[1] = "cart_items" => Home(x) = 8
  BY DEF Home
<1>4. \A x : Removed(x, 8) <=> x[1] = "cart_items"
  BY <1>1 DEF Removed
<1>5. Migrations[8].create \subseteq Part(8)
  BY DEF Part
<1>6. /\ \A x \in Part(8) : Home(x) = 8 /\ Removed(x, 8)
      /\ \A x : Removed(x, 8) => Home(x) >= 8
      /\ \A x \in Migrations[8].create : \A y : y[1] = x[1] => Home(y) >= 8
  BY <1>2, <1>3, <1>4, <1>5
<1> QED
  BY <1>1, <1>6 DEF Placed

LEMMA AddUserRolePlaced == Placed(10)
<1>1. /\ Migrations[10].create = Values("user_role", {"user", "admin"})
      /\ Migrations[10].add = Columns("users", {}, {"role"})
      /\ Migrations[10].drop = {} /\ Migrations[10].restore = {}
      /\ Migrations[10].downWhole = {"user_role"}
      /\ Migrations[10].downItems = {<<"users", "role">>}
  BY EachMigration DEF AddUserRole, Nothing
<1>2. \A x \in Migrations[10].create : x[1] = "user_role"
  BY <1>1 DEF Values
<1>3. \A x \in Migrations[10].add : x[1] = "users" /\ x[2] = "role"
  BY <1>1 DEF Columns
<1> QED
  BY <1>1, <1>2, <1>3 DEF Placed, Part, Removed, Home

\* Migrations 3, 4 and 14 are about rows only.
LEMMA RowMigrationsPlaced ==
    ASSUME NEW k \in {3, 4, 14}
    PROVE  Placed(k) /\ Part(k) = {}
  BY EachMigration DEF Nothing, Placed, Part, Removed

-----------------------------------------------------------------------------
(* The schema of the migrations applied.                                    *)

SkuKey == <<"product_options", "product_options_sku_key", "key">>

\* The schema once n migrations have been applied, EXPIRED left aside from 13 on.
Laid(n) ==
    {x \in UNION {Part(k) : k \in 1 .. n} : x # Expired /\ (n >= 12 => x # SkuKey)}

SchemaUp(s, k) ==
    Dropped(Altered(Created(s, Migrations[k].create), Migrations[k].add), {}, Migrations[k].drop)
SchemaDown(s, k) ==
    Dropped(s, Migrations[k].downWhole, Migrations[k].downItems) \cup Migrations[k].restore

\* The schema s is what n migrations leave, whatever was run and undone before.
Fits(s, n) ==
    /\ s \ {Expired} = Laid(n)
    /\ n = 0 => s = {}
    /\ n >= 13 => Expired \in s

LEMMA ExpiredBrought ==
    /\ Migrations[13].create = {} /\ Migrations[13].add = {Expired}
    /\ Migrations[13].drop = {} /\ Migrations[13].restore = {}
    /\ Migrations[13].downWhole = {} /\ Migrations[13].downItems = {}
  BY EachMigration DEF AddOrderStatusExpired, Nothing, Values, Expired

LEMMA PartialSkuPlaced ==
    /\ \A x \in Part(12) : Home(x) = 12 /\ Removed(x, 12) /\ x # SkuKey
    /\ \A x : Removed(x, 12) => Home(x) = 12
    /\ Migrations[12].create = {}
    /\ Migrations[12].drop = {<<"product_options", "product_options_sku_key">>}
    /\ Migrations[12].restore = {SkuKey}
<1>1. /\ Migrations[12].create = {}
      /\ Migrations[12].add = Columns("product_options", {}, {"is_active"})
            \cup Keys("product_options", {"uq_active_sku"})
      /\ Migrations[12].drop = {<<"product_options", "product_options_sku_key">>}
      /\ Migrations[12].downWhole = {}
      /\ Migrations[12].downItems = {<<"product_options", "uq_active_sku">>,
                                     <<"product_options", "is_active">>}
      /\ Migrations[12].restore = Keys("product_options", {"product_options_sku_key"})
  BY EachMigration DEF AddProductOptionIsActiveAndPartialUniqueSku, Nothing
<1>2. ASSUME NEW x \in Part(12)
      PROVE  x[1] = "product_options" /\ x[2] \in {"is_active", "uq_active_sku"}
  BY <1>1 DEF Part, Columns, Keys
<1>3. Keys("product_options", {"product_options_sku_key"}) = {SkuKey}
  BY DEF Keys, SkuKey
<1> QED
  BY <1>1, <1>2, <1>3 DEF Removed, Home, SkuKey

\* The UNIQUE constraint on SKUs comes from the first migration and is told by its name.
LEMMA SkuKeyIsInitial ==
    /\ SkuKey \in Part(1)
    /\ \A x \in Part(1) :
         <<x[1], x[2]>> = <<"product_options", "product_options_sku_key">> => x = SkuKey
<1>1. SkuKey \in Part(1)
  BY InitialPart DEF Keys, SkuKey
<1>2. ASSUME NEW x \in Part(1), x[1] = "product_options", x[2] = "product_options_sku_key"
      PROVE  x = SkuKey
  BY InitialPart, <1>2 DEF Columns, Values, Keys, Stamps, SkuKey
<1> QED
  BY <1>1, <1>2

LEMMA OtherMigrationsPlaced == \A k \in (1 .. 14) \ {12, 13} : Placed(k)
  BY InitialSchemaPlaced, AddProductImageColumnsPlaced, RowMigrationsPlaced,
     StructureOrderAddressPlaced, AddDeliveryTrackingPlaced, CreateUsersPlaced,
     CreateCartItemsPlaced, AddOrderUserIdPlaced, AddUserRolePlaced, AddProductIsActivePlaced

LEMMA ExpiredPart == Part(13) = {Expired}
  BY ExpiredBrought DEF Part

LEMMA HomesFit == \A k \in 1 .. 14 : \A x \in Part(k) : x # Expired => Home(x) = k
  BY OtherMigrationsPlaced, PartialSkuPlaced, ExpiredPart DEF Placed

LEMMA LaidHomes ==
    ASSUME NEW n \in 0 .. 14, NEW x \in Laid(n)
    PROVE  Home(x) \in 1 .. n /\ x \in Part(Home(x))
<1>1. PICK k \in 1 .. n : x \in Part(k)
  BY DEF Laid
<1>2. x # Expired /\ k \in 1 .. 14
  BY DEF Laid
<1> QED
  BY <1>1, <1>2, HomesFit

LEMMA LaidNext ==
    ASSUME NEW n \in 1 .. 14
    PROVE  /\ n # 12 => Laid(n) = Laid(n - 1) \cup (Part(n) \ {Expired})
           /\ n = 12 => Laid(n) = (Laid(n - 1) \cup (Part(n) \ {Expired})) \ {SkuKey}
<1> DEFINE below == UNION {Part(k) : k \in 1 .. n - 1}
<1>1. UNION {Part(k) : k \in 1 .. n} = below \cup Part(n)
  <2>1. \A k : k \in 1 .. n <=> (k \in 1 .. n - 1 \/ k = n)
    OBVIOUS
  <2> QED
    BY <2>1
<1>2. n > 12 => SkuKey \notin Part(n)
  <2>1. SkuKey # Expired
    BY DEF SkuKey, Expired
  <2> QED
    BY <2>1, SkuKeyIsInitial, HomesFit
<1>3. \A x : x \in Laid(n) <=> (x \in below \cup Part(n) /\ x # Expired /\ (n >= 12 => x # SkuKey))
  BY <1>1 DEF Laid
<1>4. \A x : x \in Laid(n - 1) <=> (x \in below /\ x # Expired /\ (n - 1 >= 12 => x # SkuKey))
  BY DEF Laid
<1> HIDE DEF below
<1>5. CASE n > 12
  BY <1>2, <1>3, <1>4, <1>5
<1>6. CASE n < 12
  BY <1>3, <1>4, <1>6
<1>7. CASE n = 12
  BY <1>3, <1>4, <1>7
<1> QED
  BY <1>5, <1>6, <1>7

LEMMA ExpiredAside == Laid(13) = Laid(12)
<1>1. 13 \in 1 .. 14 /\ 13 - 1 = 12
  OBVIOUS
<1>2. Laid(13) = Laid(12) \cup (Part(13) \ {Expired})
  BY <1>1, LaidNext
<1> QED
  BY <1>2, ExpiredPart

LEMMA NothingLaid == Laid(0) = {}
  BY DEF Laid

\* Everything in a schema of n migrations comes from one of them.
LEMMA FittingHomes ==
    ASSUME NEW n \in 1 .. 14, NEW s, Fits(s, n), NEW x \in s
    PROVE  Home(x) <= n
<1>1. CASE x = Expired
  BY <1>1 DEF Home, Expired
<1>2. CASE x # Expired
  <2>1. x \in Laid(n)
    BY <1>2 DEF Fits
  <2> QED
    BY <2>1, LaidHomes
<1> QED
  BY <1>1, <1>2

\* The up method of a migration that comes after n others adds its part.
LEMMA UpAdds ==
    ASSUME NEW n \in 1 .. 14, n \notin {12, 13}, NEW s, Fits(s, n - 1)
    PROVE  SchemaUp(s, n) = s \cup Part(n)
<1>1. Placed(n)
  BY OtherMigrationsPlaced
<1>2. \A y \in s : \A x \in Migrations[n].create : y[1] # x[1]
  <2>1. CASE n = 1
    BY <2>1 DEF Fits
  <2>2. CASE n # 1
    <3>1. \A y \in s : Home(y) <= n - 1
      BY <2>2, FittingHomes
    <3>2. \A y \in s : Home(y) \in 1 .. 12
      BY DEF Home
    <3> QED
      BY <1>1, <3>1, <3>2 DEF Placed
  <2> QED
    BY <2>1, <2>2
<1>3. Created(s, Migrations[n].create) = s \cup Migrations[n].create
  BY <1>2 DEF Created
<1>4. \A t : Dropped(t, {}, {}) = t
  BY DEF Dropped
<1>5. Migrations[n].drop = {}
  BY <1>1 DEF Placed
<1> QED
  BY <1>3, <1>4, <1>5 DEF SchemaUp, Altered, Part

LEMMA UpFits ==
    ASSUME NEW n \in 1 .. 14, NEW s, Fits(s, n - 1)
    PROVE  Fits(SchemaUp(s, n), n)
<1>1. CASE n \notin {12, 13}
  <2>1. SchemaUp(s, n) = s \cup Part(n)
    BY <1>1, UpAdds
  <2>2. Laid(n) = Laid(n - 1) \cup (Part(n) \ {Expired})
    BY <1>1, LaidNext
  <2>3. s \ {Expired} = Laid(n - 1) /\ (n - 1 >= 13 => Expired \in s)
    BY DEF Fits
  <2> QED
    BY <1>1, <2>1, <2>2, <2>3 DEF Fits
<1>2. CASE n = 12
  <2>1. SchemaUp(s, 12) = {x \in s \cup Part(12) :
                              <<x[1], x[2]>> # <<"product_options", "product_options_sku_key">>}
    BY PartialSkuPlaced DEF SchemaUp, Created, Altered, Dropped, Part
  <2>2. Laid(12) = (Laid(11) \cup (Part(12) \ {Expired})) \ {SkuKey}
    BY LaidNext
  <2>3. s \ {Expired} = Laid(11)
    BY <1>2 DEF Fits
  <2>4. ASSUME NEW x \in Laid(11) \cup Part(12),
               <<x[1], x[2]>> = <<"product_options", "product_options_sku_key">>
        PROVE  x = SkuKey
    <3>1. Home(x) = 1
      BY <2>4 DEF Home
    <3>2. x \in Part(1)
      BY <2>4, <3>1, LaidHomes, PartialSkuPlaced
    <3> QED
      BY <2>4, <3>2, SkuKeyIsInitial
  <2>5. <<Expired[1], Expired[2]>> # <<"product_options", "product_options_sku_key">>
    BY DEF Expired
  <2>6. <<SkuKey[1], SkuKey[2]>> = <<"product_options", "product_options_sku_key">>
    BY DEF SkuKey
  <2>7. SchemaUp(s, 12) \ {Expired} = Laid(12)
    BY <2>1, <2>2, <2>3, <2>4, <2>5, <2>6
  <2> QED
    BY <1>2, <2>7 DEF Fits
<1>3. CASE n = 13
  <2>1. SchemaUp(s, 13) = s \cup {Expired}
    BY ExpiredBrought DEF SchemaUp, Created, Altered, Dropped
  <2>2. Laid(13) = Laid(12)
    BY ExpiredAside
  <2> QED
    BY <1>3, <2>1, <2>2 DEF Fits
<1> QED
  BY <1>1, <1>2, <1>3

\* A database made by hand is left alone by the first migration, which finds everything there.
LEMMA SnapshotFits == Fits(SchemaUp(SnapshotSchema, 1), 1)
<1>1. SnapshotSchema = Part(1)
  BY InitialPart DEF SnapshotSchema
<1>2. SchemaUp(SnapshotSchema, 1) = Part(1)
  <2>1. Migrations[1].drop = {}
    BY OtherMigrationsPlaced DEF Placed
  <2> QED
    BY <1>1, <2>1 DEF SchemaUp, Created, Altered, Dropped, Part
<1>3. Laid(1) = Part(1) \ {Expired}
  BY LaidNext, NothingLaid
<1> QED
  BY <1>2, <1>3 DEF Fits

LEMMA DownFits ==
    ASSUME NEW n \in 1 .. 14, NEW s, Fits(s, n)
    PROVE  Fits(SchemaDown(s, n), n - 1)
<1>0. \A x : x \in SchemaDown(s, n) <=> (x \in s /\ ~Removed(x, n)) \/ x \in Migrations[n].restore
  BY DEF SchemaDown, Dropped, Removed
<1>1. s \ {Expired} = Laid(n)
  BY DEF Fits
<1>2. \A x \in Laid(n - 1) : Home(x) \in 1 .. n - 1
  BY LaidHomes
<1>3. CASE n \notin {12, 13}
  <2>1. Placed(n) /\ Laid(n) = Laid(n - 1) \cup (Part(n) \ {Expired})
    BY <1>3, OtherMigrationsPlaced, LaidNext
  <2>2. \A x : x \in SchemaDown(s, n) <=> x \in s /\ ~Removed(x, n)
    BY <1>0, <2>1 DEF Placed
  <2>3. \A x \in Laid(n - 1) : ~Removed(x, n)
    BY <1>2, <2>1 DEF Placed
  <2>4. \A x \in Part(n) : Removed(x, n)
    BY <2>1 DEF Placed
  <2>5. SchemaDown(s, n) \ {Expired} = Laid(n - 1)
    <3>1. Expired \notin Laid(n - 1)
      BY DEF Laid
    <3> QED
      BY <1>1, <2>1, <2>2, <2>3, <2>4, <3>1
  <2>6. CASE n = 1
    <3>1. Removed(Expired, 1)
      BY EachMigration DEF Removed, Expired, InitialSchema, Nothing
    <3> QED
      BY <2>2, <2>5, <2>6, <3>1, NothingLaid DEF Fits
  <2>7. CASE n # 1
    <3>1. Home(Expired) = 1
      BY DEF Home, Expired
    <3>2. ~Removed(Expired, n)
      BY <2>1, <2>7, <3>1 DEF Placed
    <3> QED
      BY <2>2, <2>5, <2>7, <3>2 DEF Fits
  <2> QED
    BY <2>6, <2>7
<1>4. CASE n = 12
  <2>1. Laid(12) = (Laid(11) \cup (Part(12) \ {Expired})) \ {SkuKey}
    BY LaidNext
  <2>2. SkuKey \in Laid(11)
    BY SkuKeyIsInitial DEF Laid, SkuKey, Expired
  <2>3. \A x \in Laid(11) : ~Removed(x, 12)
    BY <1>2, <1>4, PartialSkuPlaced
  <2>4. Expired \notin Laid(11)
    BY DEF Laid
  <2>5. SchemaDown(s, 12) \ {Expired} = Laid(11)
    BY <1>0, <1>1, <1>4, <2>1, <2>2, <2>3, <2>4, PartialSkuPlaced
  <2> QED
    BY <1>4, <2>5 DEF Fits
<1>5. CASE n = 13
  <2>1. \A x : ~Removed(x, 13)
    BY ExpiredBrought DEF Removed
  <2>2. SchemaDown(s, 13) = s
    BY <1>0, <1>5, <2>1, ExpiredBrought
  <2>3. Laid(13) = Laid(12)
    BY ExpiredAside
  <2>4. Expired \notin Laid(12)
    BY DEF Laid
  <2> QED
    BY <1>5, <2>2, <2>3, <2>4 DEF Fits
<1> QED
  BY <1>3, <1>4, <1>5

-----------------------------------------------------------------------------
(* What the code needs of the schema.                                       *)

\* Every column and value an entity names comes from some migration.
LEMMA EntitiesComeFrom ==
    /\ UserEntity \subseteq Part(7) \cup Part(10)
    /\ OrderEntity \subseteq Part(1) \cup Part(5) \cup Part(6) \cup Part(9)
    /\ OrderItemEntity \subseteq Part(1)
    /\ DeliveryEventEntity \subseteq Part(6)
    /\ CartItemEntity \subseteq Part(8)
    /\ ProductOptionEntity \subseteq Part(1) \cup Part(12)
    /\ ProductEntity \subseteq Part(1) \cup Part(2) \cup Part(11)
    /\ CategoryEntity \subseteq Part(1)
    /\ OrderStatus \subseteq Part(1) \cup {Expired}
    /\ Carrier \subseteq Part(6)
    /\ DeliveryStage \subseteq Part(6)
    /\ UserRole \subseteq Part(10)
<1>1. UserEntity \subseteq Part(7) \cup Part(10)
  BY LaterParts DEF UserEntity, Columns, Stamps
<1>2. OrderEntity \subseteq Part(1) \cup Part(5) \cup Part(6) \cup Part(9)
  BY InitialPart, LaterParts DEF OrderEntity, Columns, Stamps
<1>3. OrderItemEntity \subseteq Part(1)
  BY InitialPart DEF OrderItemEntity
<1>4. DeliveryEventEntity \subseteq Part(6)
  BY LaterParts DEF DeliveryEventEntity
<1>5. CartItemEntity \subseteq Part(8)
  BY LaterParts DEF CartItemEntity
<1>6. ProductOptionEntity \subseteq Part(1) \cup Part(12)
  BY InitialPart, LaterParts DEF ProductOptionEntity, Columns
<1>7. ProductEntity \subseteq Part(1) \cup Part(2) \cup Part(11)
  BY InitialPart, LaterParts DEF ProductEntity, Columns, Stamps
<1>8. CategoryEntity \subseteq Part(1)
  BY InitialPart DEF CategoryEntity
<1>9. OrderStatus \subseteq Part(1) \cup {Expired}
  BY InitialPart DEF OrderStatus, Values, Expired
<1>10. Carrier \subseteq Part(6) /\ DeliveryStage \subseteq Part(6)
  BY LaterParts DEF Carrier, DeliveryStage
<1>11. UserRole \subseteq Part(10)
  BY LaterParts DEF UserRole
<1> QED
  BY <1>1, <1>2, <1>3, <1>4, <1>5, <1>6, <1>7, <1>8, <1>9, <1>10, <1>11

LEMMA NoKeyIsNamed == \A x \in CodeItems : x[3] # "key"
<1>1. \A x \in UserEntity \cup OrderEntity \cup OrderItemEntity \cup DeliveryEventEntity :
        x[3] # "key"
  BY DEF UserEntity, OrderEntity, OrderItemEntity, DeliveryEventEntity, Columns
<1>2. \A x \in CartItemEntity \cup ProductOptionEntity \cup ProductEntity \cup CategoryEntity :
        x[3] # "key"
  BY DEF CartItemEntity, ProductOptionEntity, ProductEntity, CategoryEntity, Columns
<1>3. \A x \in OrderStatus \cup Carrier \cup DeliveryStage \cup UserRole : x[3] # "key"
  BY DEF OrderStatus, Carrier, DeliveryStage, UserRole, Values
<1> QED
  BY <1>1, <1>2, <1>3 DEF CodeItems

\* A column that an INSERT has to name is one of an entity's.
LEMMA RequiredAreNamed ==
    ASSUME NEW k \in 1 .. 14, NEW x \in Part(k), x[3] = "required"
    PROVE  x \in CodeItems
<1> USE DEF Columns, Values, Keys
<1>1. CASE k = 1
  <2>1. x \in Columns("categories", {"name"}, {"id"})
        \cup Columns("products", {"category_id", "name", "base_price"},
                     {"id", "description"} \cup Stamps)
        \cup Columns("product_options", {"product_id", "size", "color", "sku"}, {"id", "stock"})
        \cup Columns("orders", {"order_number", "buyer_email", "buyer_name", "buyer_phone",
                     "buyer_address", "total_amount"}, {"id", "status", "payment_key"} \cup Stamps)
        \cup Columns("order_items", {"order_id", "product_option_id", "quantity",
                     "price_at_order"}, {"id"})
    BY <1>1, InitialPart
  <2>2. x \in CategoryEntity \cup ProductEntity \cup ProductOptionEntity \cup OrderEntity
               \cup OrderItemEntity
    BY <2>1 DEF CategoryEntity, ProductEntity, ProductOptionEntity, OrderEntity, OrderItemEntity
  <2> QED
    BY <2>2 DEF CodeItems
<1>2. CASE k = 6
  <2>1. x \in DeliveryEventEntity
    BY <1>2, LaterParts DEF DeliveryEventEntity
  <2> QED
    BY <2>1 DEF CodeItems
<1>3. CASE k = 7
  <2>1. x \in UserEntity
    BY <1>3, LaterParts DEF UserEntity
  <2> QED
    BY <2>1 DEF CodeItems
<1>4. CASE k = 8
  <2>1. x \in CartItemEntity
    BY <1>4, LaterParts DEF CartItemEntity
  <2> QED
    BY <2>1 DEF CodeItems
<1>5. CASE k \in {2, 5, 9, 10, 11, 12}
  <2>1. CASE k \in {2, 5, 9}
    BY <2>1, LaterParts
  <2>2. CASE k \in {10, 11, 12}
    BY <2>2, LaterParts
  <2> QED
    BY <1>5, <2>1, <2>2
<1>6. CASE k \in {3, 4, 13, 14}
  BY <1>6, RowMigrationsPlaced, ExpiredPart DEF Expired
<1> QED
  BY <1>1, <1>2, <1>3, <1>4, <1>5, <1>6

LEMMA CodeFits ==
    ASSUME NEW s, Fits(s, 14)
    PROVE  /\ CodeItems \subseteq s
           /\ \A x \in s : x[3] = "required" => x \in CodeItems
<1>1. Laid(14) \subseteq s /\ Expired \in s /\ s \subseteq Laid(14) \cup {Expired}
  BY DEF Fits
<1>2. ASSUME NEW x \in CodeItems, x # Expired
      PROVE  x \in Laid(14)
  <2>1. x # SkuKey
    BY NoKeyIsNamed DEF SkuKey
  <2>2. \E k \in 1 .. 14 : x \in Part(k)
    BY <1>2, EntitiesComeFrom DEF CodeItems
  <2> QED
    BY <1>2, <2>1, <2>2 DEF Laid
<1>3. ASSUME NEW x \in Laid(14), x[3] = "required"
      PROVE  x \in CodeItems
  BY <1>3, LaidHomes, RequiredAreNamed
<1>4. Expired[3] # "required"
  BY DEF Expired
<1> QED
  BY <1>1, <1>2, <1>3, <1>4

\* The code runs on no schema before product_options.is_active.
LEMMA CodeNeedsMoreThanTheSnapshot ==
    ASSUME CodeItems \subseteq SnapshotSchema
    PROVE  FALSE
<1> DEFINE flag == <<"product_options", "is_active", "optional">>
<1>1. flag \in CodeItems
  BY DEF ProductOptionEntity, Columns, CodeItems
<1>2. Home(flag) = 12 /\ flag # Expired
  BY DEF Home, Expired
<1>3. SnapshotSchema = Part(1)
  BY InitialPart DEF SnapshotSchema
<1> HIDE DEF flag
<1> QED
  BY <1>1, <1>2, <1>3, HomesFit

LEMMA CodeRunsFromTwelve ==
    ASSUME NEW n \in 0 .. 14, NEW s, Fits(s, n), CodeItems \subseteq s
    PROVE  n >= 12
<1> DEFINE flag == <<"product_options", "is_active", "optional">>
<1>1. flag \in CodeItems
  BY DEF ProductOptionEntity, Columns, CodeItems
<1>2. Home(flag) = 12
  BY DEF Home
<1> HIDE DEF flag
<1>3. n # 0
  BY <1>1 DEF Fits
<1> QED
  BY <1>1, <1>2, <1>3, FittingHomes

-----------------------------------------------------------------------------
(* The pending migrations, one after the other.                             *)

LEMMA LeastOf ==
    ASSUME NEW T, T \subseteq Nat, T # {}
    PROVE  \E n \in T : \A m \in T : n <= m
<1>1. PICK n \in T : \A m \in T : ~(<<m, n>> \in OpToRel(<, Nat))
  BY NatLessThanWellFounded, WFMin
<1>2. ASSUME NEW m \in T
      PROVE  n <= m
  <2>1. ~(<<m, n>> \in {ss \in Nat \X Nat : ss[1] < ss[2]})
    BY <1>1 DEF OpToRel
  <2>2. m \in Nat /\ n \in Nat
    OBVIOUS
  <2> QED
    BY <2>1, <2>2
<1> QED
  BY <1>2

\* The recursive definition of Upgrade has a solution, so its equation can be used.
LEMMA UpgradeEquation ==
    ASSUME NEW d, NEW k \in 0 .. 14, NEW n \in k .. 14
    PROVE  Upgrade(d, k)[n] = IF n = k THEN d ELSE Up(Upgrade(d, k)[n - 1], n)
<1> DEFINE Body(f, top) == [i \in k .. top |-> IF i = k THEN d ELSE Up(f[i - 1], i)]
           unsolved == {m \in k .. 14 : ~\E f : f = Body(f, m)}
<1>0. unsolved \subseteq k .. 14 /\ \A m \in k .. 14 : m \notin unsolved => \E f : f = Body(f, m)
  OBVIOUS
<1>1. unsolved = {}
  <2> SUFFICES ASSUME unsolved # {} PROVE FALSE
    OBVIOUS
  <2>1. unsolved \subseteq Nat
    OBVIOUS
  <2>2. PICK m \in unsolved : \A i \in unsolved : m <= i
    BY <2>1, LeastOf
  <2>3. CASE m = k
    <3> DEFINE f == [i \in k .. k |-> d]
    <3>1. f = Body(f, k)
      OBVIOUS
    <3> QED
      BY <2>2, <2>3, <3>1
  <2>4. CASE m # k
    <3>1. m - 1 \in k .. 14 /\ m - 1 \notin unsolved
      <4> HIDE DEF unsolved
      <4> QED
        BY <1>0, <2>2, <2>4
    <3>2. PICK g : g = Body(g, m - 1)
      BY <3>1
    <3> DEFINE f == [i \in k .. m |-> IF i = m THEN Up(g[m - 1], m) ELSE g[i]]
    <3>3. ASSUME NEW i \in k .. m
          PROVE  f[i] = IF i = k THEN d ELSE Up(f[i - 1], i)
      <4>1. CASE i = m
        BY <2>4, <3>1, <4>1
      <4>2. CASE i # m
        <5>1. i \in k .. m - 1 /\ (i # k => i - 1 \in k .. m - 1)
          BY <4>2
        <5>2. g[i] = IF i = k THEN d ELSE Up(g[i - 1], i)
          BY <3>2, <5>1
        <5>3. f[i] = g[i] /\ (i # k => f[i - 1] = g[i - 1])
          BY <4>2, <5>1
        <5> QED
          BY <5>2, <5>3
      <4> QED
        BY <4>1, <4>2
    <3>4. f = Body(f, m)
      <4> HIDE DEF f
      <4>1. f = [i \in k .. m |-> f[i]]
        BY DEF f
      <4> QED
        BY <3>3, <4>1
    <3> QED
      BY <2>2, <3>4
  <2> QED
    BY <2>3, <2>4
<1>2. PICK f : f = Body(f, 14)
  <2> HIDE DEF unsolved, Body
  <2> QED
    BY <1>0, <1>1
<1>3. Upgrade(d, k) = CHOOSE f_1 : f_1 = Body(f_1, 14)
  BY FourteenMigrations DEF Upgrade
<1>4. Upgrade(d, k) = Body(Upgrade(d, k), 14)
  BY <1>2, <1>3
<1> QED
  BY <1>4

-----------------------------------------------------------------------------
(* The rows.                                                                *)

Names == {"tee", "hood", "boots", "cap"}
Texts == {None, "seed", "own"}
Ids == ({"seed", "own"} \X Names) \cup ({"admin"} \X Nat)

Products == [id : Ids, name : Names, image : Texts, description : Texts, active : BOOLEAN]
Options == [id : Ids, product : Ids, sku : Names, active : BOOLEAN, ordered : BOOLEAN]

Shaped(d) ==
    d = [schema |-> d.schema, categories |-> d.categories, products |-> d.products,
         options |-> d.options, failed |-> d.failed]

RowsTyped(d) ==
    /\ d.products \subseteq Products /\ d.options \subseteq Options
    /\ d.categories \subseteq {"shoes"}
    /\ d.failed = FALSE

IdsUnique(d) == \A p, q \in d.products : p.id = q.id => p = q
Belong(d) == \A o \in d.options : \E p \in d.products : p.id = o.product

\* An id tells which seeded product a row is, or which request made it.
IdsFit(d, e) ==
    /\ \A p \in d.products, m \in Names : p.id = <<"seed", m>> => p.name = m
    /\ \A p \in d.products, k \in Nat : p.id = <<"admin", k>> => k < e

\* Before there is a column is_active every row counts as active.
ActiveBefore(d, n) ==
    /\ n < 11 => \A p \in d.products : p.active
    /\ n < 12 => \A o \in d.options : o.active

SkusDistinct(d) ==
    \A o1, o2 \in d.options :
        o1.active /\ o2.active /\ o1.sku = o2.sku => o1 = o2

Hidden(d, n, l) ==
    n >= 12 => \A p \in d.products, o \in d.options :
                  o.product = p.id /\ o.active /\ o.id \notin l => p.active

\* The rows d of a database with n migrations, after e requests, with the late options l.
RowsFit(d, n, e, l) ==
    /\ Shaped(d)
    /\ RowsTyped(d)
    /\ IdsUnique(d)
    /\ Belong(d)
    /\ IdsFit(d, e)
    /\ ActiveBefore(d, n)
    /\ SkusDistinct(d)
    /\ Hidden(d, n, l)

\* What one or more up methods leave of the rows d.
Kept(d, c) ==
    /\ \A p \in d.products : \E q \in c.products :
          /\ q.id = p.id /\ q.active = p.active
          /\ p.image # None => q.image = p.image
          /\ p.description # None => q.description = p.description
    /\ \A o \in d.options : \E r \in c.options : r.id = o.id

\* The rows of c are those of d, each rewritten by F or G.
Rewritten(d, c, F, G) ==
    /\ c.products = {F[p] : p \in d.products} /\ c.options = {G[o] : o \in d.options}
    /\ \A p \in d.products : F[p].id = p.id /\ F[p].name = p.name
    /\ \A o \in d.options : G[o].id = o.id /\ G[o].product = o.product

LEMMA RewritingKeepsIds ==
    ASSUME NEW d, NEW c, NEW e, IdsUnique(d), Belong(d), IdsFit(d, e),
           NEW F, NEW G, Rewritten(d, c, F, G)
    PROVE  IdsUnique(c) /\ Belong(c) /\ IdsFit(c, e)
<1>1. IdsUnique(c)
  BY DEF IdsUnique, Rewritten
<1>2. Belong(c)
  BY DEF Belong, Rewritten
<1>3. IdsFit(c, e)
  BY DEF IdsFit, Rewritten
<1> QED
  BY <1>1, <1>2, <1>3

LEMMA KeptIsTransitive ==
    ASSUME NEW a, NEW b, NEW c, Kept(a, b), Kept(b, c)
    PROVE  Kept(a, c)
<1>1. ASSUME NEW p \in a.products
      PROVE  \E r \in c.products :
               /\ r.id = p.id /\ r.active = p.active
               /\ p.image # None => r.image = p.image
               /\ p.description # None => r.description = p.description
  <2>1. PICK q \in b.products :
          /\ q.id = p.id /\ q.active = p.active
          /\ p.image # None => q.image = p.image
          /\ p.description # None => q.description = p.description
    BY DEF Kept
  <2>2. PICK r \in c.products :
          /\ r.id = q.id /\ r.active = q.active
          /\ q.image # None => r.image = q.image
          /\ q.description # None => r.description = q.description
    BY DEF Kept
  <2> QED
    BY <2>1, <2>2
<1>2. ASSUME NEW o \in a.options
      PROVE  \E r \in c.options : r.id = o.id
  BY DEF Kept
<1> QED
  BY <1>1, <1>2 DEF Kept

LEMMA RowsUpIsLocal ==
    ASSUME NEW d, NEW n, n \notin {2, 3, 4, 12, 14}
    PROVE  RowsUp(n, d) = d
  BY DEF RowsUp

\* A migration with nothing to do to rows.
LEMMA RowsFitLater ==
    ASSUME NEW n \in 1 .. 14, n # 12, NEW d, NEW e, NEW l, RowsFit(d, n - 1, e, l)
    PROVE  RowsFit(d, n, e, l)
<1>1. ActiveBefore(d, n)
  BY DEF RowsFit, ActiveBefore
<1>2. Hidden(d, n, l)
  BY DEF RowsFit, Hidden
<1> QED
  BY <1>1, <1>2 DEF RowsFit

LEMMA KeptIsReflexive ==
    ASSUME NEW d
    PROVE  Kept(d, d)
  BY DEF Kept

\* Products whose empty fields are filled are the same products.
LEMMA FilledFits ==
    ASSUME NEW n \in 1 .. 14, n # 12, NEW d, NEW e, NEW l, RowsFit(d, n - 1, e, l), NEW c, NEW F,
           c = [d EXCEPT !.products = {F[p] : p \in @}],
           \A p \in d.products :
               /\ F[p] \in Products
               /\ F[p].id = p.id /\ F[p].name = p.name /\ F[p].active = p.active
               /\ p.image # None => F[p].image = p.image
               /\ p.description # None => F[p].description = p.description
    PROVE  RowsFit(c, n, e, l) /\ Kept(d, c) /\ c.schema = d.schema
<1>0. RowsFit(d, n, e, l)
  BY RowsFitLater
<1>1. /\ c = [schema |-> d.schema, categories |-> d.categories,
              products |-> {F[p] : p \in d.products}, options |-> d.options, failed |-> d.failed]
      /\ c.products = {F[p] : p \in d.products} /\ c.options = d.options
      /\ c.schema = d.schema /\ c.categories = d.categories /\ c.failed = d.failed
  BY <1>0 DEF RowsFit, Shaped
<1>2. Shaped(c)
  BY <1>1 DEF Shaped
<1>3. RowsTyped(c)
  BY <1>0, <1>1 DEF RowsFit, RowsTyped
<1>4. IdsUnique(c) /\ Belong(c) /\ IdsFit(c, e)
  <2> DEFINE G == [o \in d.options |-> o]
  <2>1. Rewritten(d, c, F, G)
    <3>1. {G[o] : o \in d.options} = d.options /\ \A o \in d.options : G[o].id = o.id /\ G[o].product = o.product
      OBVIOUS
    <3> HIDE DEF G
    <3> QED
      BY <1>1, <3>1 DEF Rewritten
  <2> HIDE DEF G
  <2>2. IdsUnique(d) /\ Belong(d) /\ IdsFit(d, e)
    BY <1>0 DEF RowsFit
  <2> QED
    BY ONLY <2>1, <2>2, RewritingKeepsIds, ZenonT(40)
<1>5. ActiveBefore(c, n)
  BY <1>0, <1>1 DEF RowsFit, ActiveBefore
<1>6. SkusDistinct(c)
  BY <1>0, <1>1 DEF RowsFit, SkusDistinct
<1>7. Hidden(c, n, l)
  BY <1>0, <1>1 DEF RowsFit, Hidden
<1>8. Kept(d, c)
  BY <1>1 DEF Kept
<1> QED
  BY <1>1, <1>2, <1>3, <1>4, <1>5, <1>6, <1>7, <1>8 DEF RowsFit

LEMMA FillFits ==
    ASSUME NEW n \in 1 .. 14, n # 12, NEW d, NEW e, NEW l, RowsFit(d, n - 1, e, l), NEW names, NEW c,
           \/ c = [d EXCEPT !.products = Fill(@, names, "image")]
           \/ c = [d EXCEPT !.products = Fill(@, names, "description")]
    PROVE  RowsFit(c, n, e, l) /\ Kept(d, c) /\ c.schema = d.schema
<1>0. d.products \subseteq Products
  BY DEF RowsFit, RowsTyped
<1>1. CASE c = [d EXCEPT !.products = Fill(@, names, "image")]
  <2> DEFINE F == [p \in d.products |->
                     [p EXCEPT !.image = IF p.name \in names /\ @ = None THEN "seed" ELSE @]]
  <2>1. c = [d EXCEPT !.products = {F[p] : p \in @}]
    <3>1. {F[p] : p \in d.products} = Fill(d.products, names, "image")
      BY DEF Fill
    <3> HIDE DEF F
    <3> QED
      BY <1>1, <3>1
  <2>2. ASSUME NEW p \in d.products
        PROVE  /\ F[p] \in Products
               /\ F[p].id = p.id /\ F[p].name = p.name /\ F[p].active = p.active
               /\ p.image # None => F[p].image = p.image
               /\ p.description # None => F[p].description = p.description
    BY <1>0 DEF Products, Texts
  <2> HIDE DEF F
  <2>3. \A p \in d.products :
           /\ F[p] \in Products
           /\ F[p].id = p.id /\ F[p].name = p.name /\ F[p].active = p.active
           /\ p.image # None => F[p].image = p.image
           /\ p.description # None => F[p].description = p.description
    BY <2>2
  <2> QED
    BY <2>1, <2>3, FilledFits, SMTT(20)
<1>2. CASE c = [d EXCEPT !.products = Fill(@, names, "description")]
  <2> DEFINE F == [p \in d.products |->
                     [p EXCEPT !.description =
                        IF p.name \in names /\ @ = None THEN "seed" ELSE @]]
  <2>1. c = [d EXCEPT !.products = {F[p] : p \in @}]
    <3>1. {F[p] : p \in d.products} = Fill(d.products, names, "description")
      BY DEF Fill
    <3> HIDE DEF F
    <3> QED
      BY <1>2, <3>1
  <2>2. ASSUME NEW p \in d.products
        PROVE  /\ F[p] \in Products
               /\ F[p].id = p.id /\ F[p].name = p.name /\ F[p].active = p.active
               /\ p.image # None => F[p].image = p.image
               /\ p.description # None => F[p].description = p.description
    BY <1>0 DEF Products, Texts
  <2> HIDE DEF F
  <2>3. \A p \in d.products :
           /\ F[p] \in Products
           /\ F[p].id = p.id /\ F[p].name = p.name /\ F[p].active = p.active
           /\ p.image # None => F[p].image = p.image
           /\ p.description # None => F[p].description = p.description
    BY <2>2
  <2> QED
    BY <2>1, <2>3, FilledFits, SMTT(20)
<1> QED
  BY <1>1, <1>2

\* The seeded products get ids of their own and SKUs that nobody has.
LEMMA ExpandFits ==
    ASSUME NEW d, NEW e, NEW l, RowsFit(d, 3, e, l), NEW c, c = ExpandCatalog(d)
    PROVE  RowsFit(c, 4, e, l) /\ Kept(d, c) /\ c.schema = d.schema
<1> DEFINE new == {m \in Seeded : \A p \in d.products : p.name # m}
           kept == {m \in new : \A o \in d.options : o.sku # m}
           Row(m) == [id |-> <<"seed", m>>, name |-> m, image |-> "seed",
                      description |-> None, active |-> TRUE]
           Opt(m) == Option(<<"seed", m>>, <<"seed", m>>, m)
<1>0. Shaped(d) /\ RowsTyped(d) /\ IdsUnique(d) /\ Belong(d) /\ IdsFit(d, e) /\ ActiveBefore(d, 3)
      /\ SkusDistinct(d)
  BY DEF RowsFit
<1>1. c = [d EXCEPT !.categories = @ \cup {"shoes"},
                    !.products = @ \cup {Row(m) : m \in new},
                    !.options = @ \cup {Opt(m) : m \in kept}]
  BY DEF ExpandCatalog
<1>2. new \subseteq Names /\ kept \subseteq new /\ (\A m1, m2 \in new : m1 = m2)
      /\ (\A m \in new : \A p \in d.products : p.name # m)
      /\ (\A m \in kept : \A o \in d.options : o.sku # m)
  BY DEF Seeded, Names
<1>3. \A m \in new : /\ Row(m) \in Products
                     /\ Row(m).id = <<"seed", m>> /\ Row(m).name = m /\ Row(m).active
  BY <1>2 DEF Products, Ids, Texts
<1>4. \A m \in kept : /\ Opt(m) \in Options
                      /\ Opt(m).product = <<"seed", m>> /\ Opt(m).sku = m /\ Opt(m).active
  BY <1>2 DEF Option, Options, Ids
<1> HIDE DEF new, kept, Row, Opt
<1>5. /\ c = [schema |-> d.schema, categories |-> d.categories \cup {"shoes"},
              products |-> d.products \cup {Row(m) : m \in new},
              options |-> d.options \cup {Opt(m) : m \in kept}, failed |-> d.failed]
      /\ c.products = d.products \cup {Row(m) : m \in new}
      /\ c.options = d.options \cup {Opt(m) : m \in kept}
      /\ c.schema = d.schema /\ c.categories = d.categories \cup {"shoes"} /\ c.failed = d.failed
  BY <1>0, <1>1 DEF Shaped
<1>6. Shaped(c)
  BY <1>5 DEF Shaped
<1>7. RowsTyped(c)
  BY <1>0, <1>3, <1>4, <1>5 DEF RowsTyped
<1>8. \A m \in new : \A p \in d.products : p.id # Row(m).id
  BY <1>0, <1>2, <1>3 DEF IdsFit
<1>9. IdsUnique(c)
  BY <1>0, <1>2, <1>5, <1>8 DEF IdsUnique
<1>10. Belong(c)
  BY <1>0, <1>2, <1>3, <1>4, <1>5 DEF Belong
<1>11. IdsFit(c, e)
  <2>1. ASSUME NEW p \in c.products, NEW m \in Names, p.id = <<"seed", m>>
        PROVE  p.name = m
    BY <1>0, <1>3, <1>5, <2>1 DEF IdsFit
  <2>2. ASSUME NEW p \in c.products, NEW k \in Nat, p.id = <<"admin", k>>
        PROVE  k < e
    BY <1>0, <1>3, <1>5, <2>2 DEF IdsFit
  <2> QED
    BY <2>1, <2>2 DEF IdsFit
<1>12. ActiveBefore(c, 4)
  BY <1>0, <1>3, <1>4, <1>5 DEF ActiveBefore
<1>13. SkusDistinct(c)
  BY <1>0, <1>2, <1>4, <1>5 DEF SkusDistinct
<1>14. Hidden(c, 4, l)
  BY DEF Hidden
<1>15. Kept(d, c)
  BY <1>5 DEF Kept
<1> QED
  BY <1>5, <1>6, <1>7, <1>9, <1>10, <1>11, <1>12, <1>13, <1>14, <1>15 DEF RowsFit

\* Synchronising hides the options of deleted products and never meets two active SKUs.
LEMMA SynchroniseFits ==
    ASSUME NEW d, NEW e, NEW l, RowsFit(d, 11, e, l), NEW c, c = Synchronise(d)
    PROVE  RowsFit(c, 12, e, l) /\ Kept(d, c) /\ c.schema = d.schema
<1> DEFINE Live(o) == \E p \in d.products : p.id = o.product /\ p.active
           G == [o \in d.options |-> [o EXCEPT !.active = o.active /\ Live(o)]]
           synced == {G[o] : o \in d.options}
<1>0. Shaped(d) /\ RowsTyped(d) /\ IdsUnique(d) /\ Belong(d) /\ IdsFit(d, e) /\ SkusDistinct(d)
  BY DEF RowsFit
<1>1. c = [d EXCEPT !.options = synced, !.failed = @ \/ SkuClash({o \in synced : o.active})]
  <2>1. synced = {[o EXCEPT !.active = o.active /\ \E p \in d.products : p.id = o.product /\ p.active]
                     : o \in d.options}
    OBVIOUS
  <2> HIDE DEF synced
  <2> QED
    BY <2>1 DEF Synchronise
<1>2. \A o \in d.options : Live(o) \in BOOLEAN
  OBVIOUS
<1>3. ASSUME NEW o \in d.options
      PROVE  /\ G[o] \in Options
             /\ G[o].id = o.id /\ G[o].product = o.product /\ G[o].sku = o.sku
             /\ G[o].active => o.active /\ Live(o)
  <2> HIDE DEF Live
  <2>1. o \in Options
    BY <1>0 DEF RowsTyped
  <2>2. G[o] = [o EXCEPT !.active = o.active /\ Live(o)]
    OBVIOUS
  <2> HIDE DEF G
  <2> QED
    BY <1>2, <2>1, <2>2 DEF Options
<1> HIDE DEF G
<1>4. ~SkuClash({o \in synced : o.active})
  BY <1>0, <1>3 DEF SkuClash, SkusDistinct
<1>5. /\ c = [schema |-> d.schema, categories |-> d.categories, products |-> d.products,
              options |-> synced, failed |-> FALSE]
      /\ c.products = d.products /\ c.options = synced
      /\ c.schema = d.schema /\ c.categories = d.categories /\ c.failed = FALSE
  <2> HIDE DEF synced
  <2>1. (d.failed \/ SkuClash({o \in synced : o.active})) = FALSE
    BY <1>0, <1>4 DEF RowsTyped
  <2>2. c = [d EXCEPT !.options = synced, !.failed = FALSE]
    BY <1>1, <2>1
  <2> QED
    BY <1>0, <2>2 DEF Shaped
<1>6. Shaped(c)
  BY <1>5 DEF Shaped
<1>7. RowsTyped(c)
  BY <1>0, <1>3, <1>5 DEF RowsTyped
<1>8. IdsUnique(c) /\ Belong(c) /\ IdsFit(c, e)
  <2> DEFINE F == [p \in d.products |-> p]
  <2>1. Rewritten(d, c, F, G)
    BY <1>3, <1>5 DEF Rewritten
  <2> HIDE DEF F
  <2> QED
    BY <1>0, <2>1, RewritingKeepsIds
<1>9. ActiveBefore(c, 12)
  BY DEF ActiveBefore
<1>10. SkusDistinct(c)
  BY <1>0, <1>3, <1>5 DEF SkusDistinct
<1>11. Hidden(c, 12, l)
  BY <1>0, <1>3, <1>5 DEF Hidden, IdsUnique
<1>12. Kept(d, c)
  BY <1>3, <1>5 DEF Kept
<1> QED
  BY <1>5, <1>6, <1>7, <1>8, <1>9, <1>10, <1>11, <1>12 DEF RowsFit

LEMMA RowsUpFits ==
    ASSUME NEW n \in 1 .. 14, NEW d, NEW e, NEW l, RowsFit(d, n - 1, e, l)
    PROVE  /\ RowsFit(RowsUp(n, d), n, e, l)
           /\ Kept(d, RowsUp(n, d))
           /\ RowsUp(n, d).schema = d.schema
<1>1. CASE n \notin {2, 3, 4, 12, 14}
  BY <1>1, RowsUpIsLocal, RowsFitLater, KeptIsReflexive
<1>2. CASE n \in {2, 3, 14}
  <2>1. /\ RowsUp(2, d) = [d EXCEPT !.products = Fill(@, FirstImages, "image")]
        /\ RowsUp(3, d) = [d EXCEPT !.products = Fill(@, MoreImages, "image")]
        /\ RowsUp(14, d) = [d EXCEPT !.products = Fill(@, Described, "description")]
    BY DEF RowsUp
  <2>2. CASE n = 2
    BY <2>1, <2>2, FillFits
  <2>3. CASE n = 3
    BY <2>1, <2>3, FillFits
  <2>4. CASE n = 14
    BY <2>1, <2>4, FillFits
  <2> QED
    BY <1>2, <2>2, <2>3, <2>4
<1>3. CASE n = 4
  <2>1. RowsUp(4, d) = ExpandCatalog(d)
    BY DEF RowsUp
  <2> QED
    BY <1>3, <2>1, ExpandFits
<1>4. CASE n = 12
  <2>1. RowsUp(12, d) = Synchronise(d)
    BY DEF RowsUp
  <2> QED
    BY <1>4, <2>1, SynchroniseFits
<1> QED
  BY <1>1, <1>2, <1>3, <1>4

-----------------------------------------------------------------------------
(* One migration up or down.                                                *)

\* The database d after n migrations, some of them perhaps undone and applied again, and e requests.
Good(d, n, e, l) ==
    /\ RowsFit(d, n, e, l)
    /\ Fits(d.schema, n) \/ (n = 0 /\ d.schema = SnapshotSchema)

\* A change of schema leaves the rows alone.
LEMMA SchemaAside ==
    ASSUME NEW d, NEW n, NEW e, NEW l, NEW s, RowsFit(d, n, e, l)
    PROVE  /\ RowsFit([d EXCEPT !.schema = s], n, e, l)
           /\ Kept(d, [d EXCEPT !.schema = s])
           /\ [d EXCEPT !.schema = s].schema = s
<1> DEFINE c == [d EXCEPT !.schema = s]
<1>1. /\ c = [schema |-> s, categories |-> d.categories, products |-> d.products,
              options |-> d.options, failed |-> d.failed]
      /\ c.products = d.products /\ c.options = d.options /\ c.categories = d.categories
      /\ c.failed = d.failed /\ c.schema = s
  BY DEF RowsFit, Shaped
<1> HIDE DEF c
<1>2. Shaped(c)
  BY <1>1 DEF Shaped
<1>3. RowsTyped(c) /\ IdsUnique(c) /\ Belong(c) /\ IdsFit(c, e)
  BY <1>1 DEF RowsFit, RowsTyped, IdsUnique, Belong, IdsFit
<1>4. ActiveBefore(c, n) /\ SkusDistinct(c) /\ Hidden(c, n, l)
  BY <1>1 DEF RowsFit, ActiveBefore, SkusDistinct, Hidden
<1>5. Kept(d, c)
  BY <1>1 DEF Kept
<1> QED
  BY <1>1, <1>2, <1>3, <1>4, <1>5 DEF RowsFit, c

LEMMA UpIsGood ==
    ASSUME NEW n \in 1 .. 14, NEW d, NEW e, NEW l, Good(d, n - 1, e, l)
    PROVE  Good(Up(d, n), n, e, l) /\ Kept(d, Up(d, n))
<1> DEFINE c == [d EXCEPT !.schema = SchemaUp(d.schema, n)]
<1>1. Up(d, n) = RowsUp(n, c)
  BY DEF Up, SchemaUp
<1>2. RowsFit(c, n - 1, e, l) /\ Kept(d, c) /\ c.schema = SchemaUp(d.schema, n)
  BY SchemaAside DEF Good
<1>3. Fits(SchemaUp(d.schema, n), n)
  BY UpFits, SnapshotFits DEF Good
<1> HIDE DEF c
<1>4. /\ RowsFit(RowsUp(n, c), n, e, l) /\ Kept(c, RowsUp(n, c))
      /\ RowsUp(n, c).schema = c.schema
  BY <1>2, RowsUpFits
<1>5. Kept(d, RowsUp(n, c))
  BY <1>2, <1>4, KeptIsTransitive
<1> QED
  BY <1>1, <1>2, <1>3, <1>4, <1>5 DEF Good

\* Applying what is pending succeeds, whatever the database has been through.
LEMMA UpgradeIsGood ==
    ASSUME NEW k \in 0 .. 14, NEW d, NEW e, NEW l, Good(d, k, e, l), NEW n \in k .. 14
    PROVE  Good(Upgrade(d, k)[n], n, e, l) /\ Kept(d, Upgrade(d, k)[n])
<1> DEFINE Fine(m) == Good(Upgrade(d, k)[m], m, e, l) /\ Kept(d, Upgrade(d, k)[m])
           bad == {m \in k .. 14 : ~Fine(m)}
<1>1. Fine(k)
  <2>1. Upgrade(d, k)[k] = d
    BY UpgradeEquation
  <2> QED
    BY <2>1, KeptIsReflexive
<1>2. ASSUME NEW m \in k + 1 .. 14, Fine(m - 1)
      PROVE  Fine(m)
  <2>1. Upgrade(d, k)[m] = Up(Upgrade(d, k)[m - 1], m)
    <3>1. m \in k .. 14 /\ m # k
      OBVIOUS
    <3> QED
      BY <3>1, UpgradeEquation
  <2>2. m \in 1 .. 14
    OBVIOUS
  <2>3. Good(Upgrade(d, k)[m], m, e, l) /\ Kept(Upgrade(d, k)[m - 1], Upgrade(d, k)[m])
    BY <1>2, <2>1, <2>2, UpIsGood
  <2> QED
    BY <1>2, <2>3, KeptIsTransitive
<1> HIDE DEF Fine
<1>3. bad = {}
  <2> SUFFICES ASSUME bad # {} PROVE FALSE
    OBVIOUS
  <2>1. bad \subseteq Nat
    OBVIOUS
  <2>2. PICK m \in bad : \A i \in bad : m <= i
    BY <2>1, LeastOf
  <2>3. m \in k .. 14 /\ ~Fine(m)
    BY <2>2
  <2>4. m # k
    BY <1>1, <2>3
  <2>5. m - 1 \in k .. 14 /\ m \in k + 1 .. 14
    BY <2>3, <2>4
  <2>6. m - 1 \notin bad
    <3> HIDE DEF bad
    <3> QED
      BY <2>2, <2>5, <2>3
  <2> QED
    BY <1>2, <2>3, <2>5, <2>6
<1> QED
  BY <1>3 DEF Fine

\* What an undone migration keeps of the options that orders refer to.
OrdersKept(d, c) ==
    \A o \in d.options : o.ordered => \E r \in c.options : r.id = o.id

LEMMA EarlierFits ==
    ASSUME NEW n \in 1 .. 14, n \notin {11, 12}, NEW d, NEW e, NEW l, RowsFit(d, n, e, l)
    PROVE  RowsFit(d, n - 1, e, l)
<1>1. ActiveBefore(d, n - 1)
  BY DEF RowsFit, ActiveBefore
<1>2. Hidden(d, n - 1, l)
  BY DEF RowsFit, Hidden
<1> QED
  BY <1>1, <1>2 DEF RowsFit

\* Products with fields cleared, or made active again, are the same products.
LEMMA ClearedFits ==
    ASSUME NEW n \in 1 .. 14, n # 12, NEW d, NEW e, NEW l, RowsFit(d, n, e, l), NEW c, NEW F,
           c = [d EXCEPT !.products = {F[p] : p \in @}],
           \A p \in d.products :
               /\ F[p] \in Products
               /\ F[p].id = p.id /\ F[p].name = p.name
               /\ p.active => F[p].active
               /\ n = 11 => F[p].active
    PROVE  RowsFit(c, n - 1, e, l) /\ OrdersKept(d, c) /\ c.schema = d.schema
<1>0. Shaped(d) /\ RowsTyped(d) /\ IdsUnique(d) /\ Belong(d) /\ IdsFit(d, e) /\ ActiveBefore(d, n)
      /\ SkusDistinct(d) /\ Hidden(d, n, l)
  BY DEF RowsFit
<1>1. /\ c = [schema |-> d.schema, categories |-> d.categories,
              products |-> {F[p] : p \in d.products}, options |-> d.options, failed |-> d.failed]
      /\ c.products = {F[p] : p \in d.products} /\ c.options = d.options
      /\ c.categories = d.categories /\ c.failed = d.failed /\ c.schema = d.schema
  BY <1>0 DEF Shaped
<1>2. Shaped(c)
  BY <1>1 DEF Shaped
<1>3. RowsTyped(c)
  BY <1>0, <1>1 DEF RowsTyped
<1>4. IdsUnique(c) /\ Belong(c) /\ IdsFit(c, e)
  <2> DEFINE G == [o \in d.options |-> o]
  <2>1. Rewritten(d, c, F, G)
    <3>1. {G[o] : o \in d.options} = d.options /\ \A o \in d.options : G[o].id = o.id /\ G[o].product = o.product
      OBVIOUS
    <3> HIDE DEF G
    <3> QED
      BY <1>1, <3>1 DEF Rewritten
  <2> HIDE DEF G
  <2>2. IdsUnique(d) /\ Belong(d) /\ IdsFit(d, e)
    BY <1>0
  <2> QED
    BY ONLY <2>1, <2>2, RewritingKeepsIds, ZenonT(40)
<1>5. ActiveBefore(c, n - 1)
  BY <1>0, <1>1 DEF ActiveBefore
<1>6. SkusDistinct(c)
  BY <1>0, <1>1 DEF SkusDistinct
<1>7. Hidden(c, n - 1, l)
  BY <1>0, <1>1 DEF Hidden
<1>8. OrdersKept(d, c)
  BY <1>1 DEF OrdersKept
<1> QED
  BY <1>1, <1>2, <1>3, <1>4, <1>5, <1>6, <1>7, <1>8 DEF RowsFit

LEMMA ClearFits ==
    ASSUME NEW n \in {3, 14}, NEW d, NEW e, NEW l, RowsFit(d, n, e, l), NEW names, NEW c,
           \/ c = [d EXCEPT !.products = Clear(@, names, "image")]
           \/ c = [d EXCEPT !.products = Clear(@, names, "description")]
    PROVE  RowsFit(c, n - 1, e, l) /\ OrdersKept(d, c) /\ c.schema = d.schema
<1>0. d.products \subseteq Products
  BY DEF RowsFit, RowsTyped
<1>1. CASE c = [d EXCEPT !.products = Clear(@, names, "image")]
  <2> DEFINE F == [p \in d.products |->
                     [p EXCEPT !.image = IF p.name \in names THEN None ELSE @]]
  <2>1. c = [d EXCEPT !.products = {F[p] : p \in @}]
    <3>1. {F[p] : p \in d.products} = Clear(d.products, names, "image")
      BY DEF Clear
    <3> HIDE DEF F
    <3> QED
      BY <1>1, <3>1
  <2>2. ASSUME NEW p \in d.products
        PROVE  F[p] \in Products /\ F[p].id = p.id /\ F[p].name = p.name /\ F[p].active = p.active
    BY <1>0 DEF Products, Texts
  <2> HIDE DEF F
  <2>3. \A p \in d.products :
           /\ F[p] \in Products
           /\ F[p].id = p.id /\ F[p].name = p.name
           /\ p.active => F[p].active
           /\ n = 11 => F[p].active
    BY <2>2
  <2>4. n \in 1 .. 14 /\ n # 12
    OBVIOUS
  <2> QED
    BY <2>1, <2>3, <2>4, ClearedFits
<1>2. CASE c = [d EXCEPT !.products = Clear(@, names, "description")]
  <2> DEFINE F == [p \in d.products |->
                     [p EXCEPT !.description = IF p.name \in names THEN None ELSE @]]
  <2>1. c = [d EXCEPT !.products = {F[p] : p \in @}]
    <3>1. {F[p] : p \in d.products} = Clear(d.products, names, "description")
      BY DEF Clear
    <3> HIDE DEF F
    <3> QED
      BY <1>2, <3>1
  <2>2. ASSUME NEW p \in d.products
        PROVE  F[p] \in Products /\ F[p].id = p.id /\ F[p].name = p.name /\ F[p].active = p.active
    BY <1>0 DEF Products, Texts
  <2> HIDE DEF F
  <2>3. \A p \in d.products :
           /\ F[p] \in Products
           /\ F[p].id = p.id /\ F[p].name = p.name
           /\ p.active => F[p].active
           /\ n = 11 => F[p].active
    BY <2>2
  <2>4. n \in 1 .. 14 /\ n # 12
    OBVIOUS
  <2> QED
    BY <2>1, <2>3, <2>4, ClearedFits
<1> QED
  BY <1>1, <1>2

\* Deleting the seeded products takes no ordered option with it, or is refused.
LEMMA ShrinkFits ==
    ASSUME NEW d, NEW e, NEW l, RowsFit(d, 4, e, l), NEW c, c = ShrinkCatalog(d), ~c.failed
    PROVE  RowsFit(c, 3, e, l) /\ OrdersKept(d, c) /\ c.schema = d.schema
<1> DEFINE gone == {p \in d.products : p.name \in Seeded}
           theirs == {o \in d.options : \E p \in gone : p.id = o.product}
           refused == (\E o \in theirs : o.ordered)
                      \/ (\E p, q \in gone : p # q /\ p.name = q.name)
<1>0. Shaped(d) /\ RowsTyped(d) /\ IdsUnique(d) /\ Belong(d) /\ IdsFit(d, e) /\ ActiveBefore(d, 4)
      /\ SkusDistinct(d)
  BY DEF RowsFit
<1>1. c = [d EXCEPT !.products = @ \ gone, !.options = @ \ theirs, !.failed = @ \/ refused]
  BY DEF ShrinkCatalog
<1>2. \A o \in d.options \ theirs : \A p \in d.products : p.id = o.product => p \notin gone
  OBVIOUS
<1>3. refused \in BOOLEAN /\ (~refused => \A o \in theirs : ~o.ordered)
  OBVIOUS
<1>4. d.failed = FALSE
  BY <1>0 DEF RowsTyped
<1> HIDE DEF gone, theirs, refused
<1>5. c.failed = (d.failed \/ refused)
  BY <1>0, <1>1 DEF Shaped
<1>6. ~refused /\ (d.failed \/ refused) = FALSE
  BY <1>3, <1>4, <1>5
<1>7. /\ c = [schema |-> d.schema, categories |-> d.categories,
              products |-> d.products \ gone, options |-> d.options \ theirs, failed |-> FALSE]
      /\ c.products = d.products \ gone /\ c.options = d.options \ theirs
      /\ c.categories = d.categories /\ c.failed = FALSE /\ c.schema = d.schema
  <2>1. c = [d EXCEPT !.products = @ \ gone, !.options = @ \ theirs, !.failed = FALSE]
    BY <1>1, <1>6
  <2> QED
    BY <1>0, <2>1 DEF Shaped
<1>8. Shaped(c)
  BY <1>7 DEF Shaped
<1>9. RowsTyped(c) /\ IdsUnique(c) /\ IdsFit(c, e)
  BY <1>0, <1>7 DEF RowsTyped, IdsUnique, IdsFit
<1>10. Belong(c)
  BY <1>0, <1>2, <1>7 DEF Belong
<1>11. ActiveBefore(c, 3) /\ SkusDistinct(c) /\ Hidden(c, 3, l)
  BY <1>0, <1>7 DEF ActiveBefore, SkusDistinct, Hidden
<1>12. OrdersKept(d, c)
  BY <1>3, <1>6, <1>7 DEF OrdersKept
<1> QED
  BY <1>7, <1>8, <1>9, <1>10, <1>11, <1>12 DEF RowsFit

\* The UNIQUE constraint that comes back refuses options that could not all be active.
LEMMA UnsynchroniseFits ==
    ASSUME NEW d, NEW e, NEW l, RowsFit(d, 12, e, l), SkuKey \in d.schema,
           NEW c, c = Unsynchronise(d), ~c.failed
    PROVE  RowsFit(c, 11, e, l) /\ OrdersKept(d, c) /\ c.schema = d.schema
<1> DEFINE G == [o \in d.options |-> [o EXCEPT !.active = TRUE]]
           all == {G[o] : o \in d.options}
           refused == HasKey(d, "product_options_sku_key") /\ SkuClash(d.options)
<1>0. Shaped(d) /\ RowsTyped(d) /\ IdsUnique(d) /\ Belong(d) /\ IdsFit(d, e)
  BY DEF RowsFit
<1>1. c = [d EXCEPT !.failed = @ \/ refused, !.options = all]
  <2>1. all = {[o EXCEPT !.active = TRUE] : o \in d.options}
    OBVIOUS
  <2> HIDE DEF all
  <2> QED
    BY <2>1 DEF Unsynchronise
<1>2. refused \in BOOLEAN
  BY DEF HasKey
<1>3. HasKey(d, "product_options_sku_key")
  BY DEF HasKey, SkuKey
<1>4. ASSUME NEW o \in d.options
      PROVE  /\ G[o] \in Options
             /\ G[o].id = o.id /\ G[o].product = o.product /\ G[o].sku = o.sku /\ G[o].active
  BY <1>0 DEF RowsTyped, Options
<1>5. ~refused => ~SkuClash(d.options)
  BY <1>3
<1>6. d.failed = FALSE
  BY <1>0 DEF RowsTyped
<1> HIDE DEF G, refused
<1>7. c.failed = (d.failed \/ refused)
  BY <1>0, <1>1 DEF Shaped
<1>8. ~refused /\ (d.failed \/ refused) = FALSE
  BY <1>2, <1>6, <1>7
<1>9. /\ c = [schema |-> d.schema, categories |-> d.categories, products |-> d.products,
              options |-> all, failed |-> FALSE]
      /\ c.products = d.products /\ c.options = all
      /\ c.categories = d.categories /\ c.failed = FALSE /\ c.schema = d.schema
  <2> HIDE DEF all
  <2>1. c = [d EXCEPT !.failed = FALSE, !.options = all]
    BY <1>1, <1>8
  <2> QED
    BY <1>0, <2>1 DEF Shaped
<1>10. Shaped(c)
  BY <1>9 DEF Shaped
<1>11. RowsTyped(c)
  BY <1>0, <1>4, <1>9 DEF RowsTyped
<1>12. IdsUnique(c) /\ Belong(c) /\ IdsFit(c, e)
  <2> DEFINE F == [p \in d.products |-> p]
  <2>1. Rewritten(d, c, F, G)
    BY <1>4, <1>9 DEF Rewritten
  <2> HIDE DEF F
  <2> QED
    BY <1>0, <2>1, RewritingKeepsIds
<1>13. ActiveBefore(c, 11)
  BY <1>4, <1>9 DEF ActiveBefore
<1>14. SkusDistinct(c)
  BY <1>4, <1>5, <1>8, <1>9 DEF SkusDistinct, SkuClash
<1>15. Hidden(c, 11, l)
  BY DEF Hidden
<1>16. OrdersKept(d, c)
  BY <1>4, <1>9 DEF OrdersKept
<1> QED
  BY <1>9, <1>10, <1>11, <1>12, <1>13, <1>14, <1>15, <1>16 DEF RowsFit

LEMMA EmptiedFits ==
    ASSUME NEW d, NEW e, NEW l, RowsFit(d, 1, e, l), NEW c,
           c = [d EXCEPT !.products = {}, !.options = {}, !.categories = {}]
    PROVE  RowsFit(c, 0, e, l) /\ c.schema = d.schema
<1>1. /\ c = [schema |-> d.schema, categories |-> {}, products |-> {}, options |-> {},
              failed |-> d.failed]
      /\ c.products = {} /\ c.options = {} /\ c.categories = {} /\ c.failed = d.failed
      /\ c.schema = d.schema
  BY DEF RowsFit, Shaped
<1>2. Shaped(c)
  BY <1>1 DEF Shaped
<1> QED
  BY <1>1, <1>2 DEF RowsFit, RowsTyped, IdsUnique, Belong, IdsFit, ActiveBefore, SkusDistinct,
                    Hidden

\* The rows d, whose schema is already that of the migrations before n.
LEMMA RowsDownFits ==
    ASSUME NEW n \in 1 .. 14, NEW d, NEW e, NEW l, RowsFit(d, n, e, l), ~RowsDown(n, d).failed,
           n = 12 => SkuKey \in d.schema
    PROVE  /\ RowsFit(RowsDown(n, d), n - 1, e, l)
           /\ n # 1 => OrdersKept(d, RowsDown(n, d))
           /\ RowsDown(n, d).schema = d.schema
<1>0. d.products \subseteq Products
  BY DEF RowsFit, RowsTyped
<1>1. CASE n = 1
  <2>1. RowsDown(1, d) = [d EXCEPT !.products = {}, !.options = {}, !.categories = {}]
    BY DEF RowsDown
  <2>2. RowsFit(d, 1, e, l)
    BY <1>1
  <2>3. RowsFit(RowsDown(1, d), 0, e, l) /\ RowsDown(1, d).schema = d.schema
    BY <2>1, <2>2, EmptiedFits
  <2> QED
    BY <1>1, <2>3
<1>2. CASE n = 2
  <2> DEFINE F == [p \in d.products |-> [p EXCEPT !.image = None]]
  <2>1. {F[p] : p \in d.products} = {[p EXCEPT !.image = None] : p \in d.products}
    OBVIOUS
  <2>2. ASSUME NEW p \in d.products
        PROVE  F[p] \in Products /\ F[p].id = p.id /\ F[p].name = p.name /\ F[p].active = p.active
    BY <1>0 DEF Products, Texts
  <2> HIDE DEF F
  <2>3. RowsDown(2, d) = [d EXCEPT !.products = {F[p] : p \in @}]
    <3>1. RowsDown(2, d) = [d EXCEPT !.products = {[p EXCEPT !.image = None] : p \in @}]
      BY DEF RowsDown
    <3> QED
      BY <2>1, <3>1
  <2>4. \A p \in d.products :
           /\ F[p] \in Products
           /\ F[p].id = p.id /\ F[p].name = p.name
           /\ p.active => F[p].active
           /\ n = 11 => F[p].active
    BY <1>2, <2>2
  <2>5. RowsFit(RowsDown(2, d), n - 1, e, l) /\ OrdersKept(d, RowsDown(2, d))
        /\ RowsDown(2, d).schema = d.schema
    BY <1>2, <2>3, <2>4, ClearedFits
  <2> QED
    BY <1>2, <2>5
<1>3. CASE n = 3
  <2>1. RowsDown(3, d) = [d EXCEPT !.products = Clear(@, MoreImages, "image")]
    BY DEF RowsDown
  <2> QED
    BY <1>3, <2>1, ClearFits
<1>4. CASE n = 4
  <2>1. RowsDown(4, d) = ShrinkCatalog(d)
    BY DEF RowsDown
  <2> QED
    BY <1>4, <2>1, ShrinkFits
<1>5. CASE n = 11
  <2> DEFINE F == [p \in d.products |-> [p EXCEPT !.active = TRUE]]
  <2>1. {F[p] : p \in d.products} = {[p EXCEPT !.active = TRUE] : p \in d.products}
    OBVIOUS
  <2>2. ASSUME NEW p \in d.products
        PROVE  F[p] \in Products /\ F[p].id = p.id /\ F[p].name = p.name /\ F[p].active
    BY <1>0 DEF Products
  <2> HIDE DEF F
  <2>3. RowsDown(11, d) = [d EXCEPT !.products = {F[p] : p \in @}]
    <3>1. RowsDown(11, d) = [d EXCEPT !.products = {[p EXCEPT !.active = TRUE] : p \in @}]
      BY DEF RowsDown
    <3> QED
      BY <2>1, <3>1
  <2>4. \A p \in d.products :
           /\ F[p] \in Products
           /\ F[p].id = p.id /\ F[p].name = p.name
           /\ p.active => F[p].active
           /\ n = 11 => F[p].active
    BY <2>2
  <2>5. RowsFit(RowsDown(11, d), n - 1, e, l) /\ OrdersKept(d, RowsDown(11, d))
        /\ RowsDown(11, d).schema = d.schema
    BY <1>5, <2>3, <2>4, ClearedFits
  <2> QED
    BY <1>5, <2>5
<1>6. CASE n = 12
  <2>1. RowsDown(12, d) = Unsynchronise(d)
    BY DEF RowsDown
  <2> QED
    BY <1>6, <2>1, UnsynchroniseFits
<1>7. CASE n = 14
  <2>1. RowsDown(14, d) = [d EXCEPT !.products = Clear(@, Described, "description")]
    BY DEF RowsDown
  <2> QED
    BY <1>7, <2>1, ClearFits
<1>8. CASE n \notin {1, 2, 3, 4, 11, 12, 14}
  <2>1. RowsDown(n, d) = d
    BY <1>8 DEF RowsDown
  <2>2. OrdersKept(d, d)
    BY DEF OrdersKept
  <2> QED
    BY <1>8, <2>1, <2>2, EarlierFits
<1> QED
  BY <1>1, <1>2, <1>3, <1>4, <1>5, <1>6, <1>7, <1>8

LEMMA DownIsGood ==
    ASSUME NEW n \in 1 .. 14, NEW d, NEW e, NEW l, Good(d, n, e, l), ~Down(d, n).failed
    PROVE  /\ Good(Down(d, n), n - 1, e, l)
           /\ n # 1 => OrdersKept(d, Down(d, n))
<1> DEFINE c == [d EXCEPT !.schema = SchemaDown(d.schema, n)]
<1>1. Down(d, n) = RowsDown(n, c)
  BY DEF Down, SchemaDown
<1>2. RowsFit(c, n, e, l) /\ c.schema = SchemaDown(d.schema, n) /\ c.options = d.options
  BY SchemaAside DEF Good, RowsFit, Shaped
<1>3. Fits(SchemaDown(d.schema, n), n - 1)
  BY DownFits DEF Good
<1>4. n = 12 => SkuKey \in c.schema
  BY <1>2, PartialSkuPlaced DEF SchemaDown
<1> HIDE DEF c
<1>5. /\ RowsFit(RowsDown(n, c), n - 1, e, l)
      /\ n # 1 => OrdersKept(c, RowsDown(n, c))
      /\ RowsDown(n, c).schema = c.schema
  BY <1>1, <1>2, <1>4, RowsDownFits
<1> QED
  BY <1>1, <1>2, <1>3, <1>5 DEF Good, OrdersKept

-----------------------------------------------------------------------------
(* Requests.                                                                *)

\* The database d after one request of each kind.
WithProduct(d, e, m, sku, text) ==
    [d EXCEPT !.products = @ \cup {[id |-> <<"admin", e>>, name |-> m, image |-> "own",
                                   description |-> text, active |-> TRUE]},
              !.options = @ \cup {Option(<<"admin", e>>, <<"admin", e>>, sku)}]
WithoutProduct(d, x) ==
    [d EXCEPT !.products = (@ \ {x}) \cup {[x EXCEPT !.active = FALSE]},
              !.options = {[o EXCEPT !.active = @ /\ o.product # x.id] : o \in @}]
WithOption(d, id, product, sku) == [d EXCEPT !.options = @ \cup {Option(id, product, sku)}]
WithOrder(d, x) == [d EXCEPT !.options = (@ \ {x}) \cup {[x EXCEPT !.ordered = TRUE]}]

LEMMA CreateFits ==
    ASSUME NEW n \in 12 .. 14, NEW d, NEW l, NEW e \in Nat, RowsFit(d, n, e, l),
           NEW m \in Names, NEW sku \in Names, NEW text \in {None, "own"},
           \A o \in d.options : o.sku = sku => ~o.active,
           NEW c, c = WithProduct(d, e, m, sku, text)
    PROVE  RowsFit(c, n, e + 1, l) /\ OrdersKept(d, c) /\ c.schema = d.schema
<1> DEFINE row == [id |-> <<"admin", e>>, name |-> m, image |-> "own",
                   description |-> text, active |-> TRUE]
           opt == Option(<<"admin", e>>, <<"admin", e>>, sku)
<1>0. Shaped(d) /\ RowsTyped(d) /\ IdsUnique(d) /\ Belong(d) /\ IdsFit(d, e) /\ SkusDistinct(d)
      /\ Hidden(d, n, l)
  BY DEF RowsFit
<1>1. /\ c = [schema |-> d.schema, categories |-> d.categories, products |-> d.products \cup {row},
              options |-> d.options \cup {opt}, failed |-> d.failed]
      /\ c.products = d.products \cup {row} /\ c.options = d.options \cup {opt}
      /\ c.categories = d.categories /\ c.failed = d.failed /\ c.schema = d.schema
  <2>1. c = [d EXCEPT !.products = @ \cup {row}, !.options = @ \cup {opt}]
    BY DEF WithProduct
  <2> HIDE DEF row, opt
  <2> QED
    BY <1>0, <2>1 DEF Shaped
<1>2. /\ row \in Products /\ opt \in Options
      /\ row.id = <<"admin", e>> /\ row.active
      /\ opt.product = <<"admin", e>> /\ opt.sku = sku /\ opt.active
  BY DEF Option, Products, Options, Ids, Texts
<1> HIDE DEF row, opt
<1>3. \A p \in d.products : p.id # row.id
  BY <1>0, <1>2 DEF IdsFit
<1>4. Shaped(c)
  BY <1>1 DEF Shaped
<1>5. RowsTyped(c)
  BY <1>0, <1>1, <1>2 DEF RowsTyped
<1>6. IdsUnique(c)
  BY <1>0, <1>1, <1>3 DEF IdsUnique
<1>7. Belong(c)
  BY <1>0, <1>1, <1>2 DEF Belong
<1>8. IdsFit(c, e + 1)
  <2>1. ASSUME NEW p \in c.products, NEW k \in Names, p.id = <<"seed", k>>
        PROVE  p.name = k
    BY <1>0, <1>1, <1>2, <2>1 DEF IdsFit
  <2>2. ASSUME NEW p \in c.products, NEW k \in Nat, p.id = <<"admin", k>>
        PROVE  k < e + 1
    <3>1. CASE p \in d.products
      <4>1. k < e
        BY <1>0, <2>2, <3>1 DEF IdsFit
      <4> QED
        BY <4>1
    <3>2. CASE p = row
      BY <1>2, <2>2, <3>2
    <3> QED
      BY <1>1, <3>1, <3>2
  <2> QED
    BY <2>1, <2>2 DEF IdsFit
<1>9. ActiveBefore(c, n)
  BY DEF ActiveBefore
<1>10. SkusDistinct(c)
  BY <1>0, <1>1, <1>2 DEF SkusDistinct
<1>11. Hidden(c, n, l)
  <2>1. \A o \in d.options : o.product # row.id
    BY <1>0, <1>3 DEF Belong
  <2> QED
    BY <1>0, <1>1, <1>2, <1>3, <2>1 DEF Hidden
<1>12. OrdersKept(d, c)
  BY <1>1 DEF OrdersKept
<1> QED
  BY <1>1, <1>4, <1>5, <1>6, <1>7, <1>8, <1>9, <1>10, <1>11, <1>12 DEF RowsFit

\* Nothing becomes active, and no active option loses its product.
Tame(d, c, F, G) ==
    /\ Shaped(c)
    /\ c.schema = d.schema /\ c.categories = d.categories /\ c.failed = d.failed
    /\ Rewritten(d, c, F, G)
    /\ \A p \in d.products : F[p] \in Products
    /\ \A o \in d.options : G[o] \in Options /\ G[o].sku = o.sku /\ (G[o].active => o.active)
    /\ \A p \in d.products, o \in d.options :
          p.active /\ G[o].active /\ o.product = p.id => F[p].active

LEMMA TameRewritingFits ==
    ASSUME NEW n \in 12 .. 14, NEW d, NEW l, NEW e \in Nat, RowsFit(d, n, e, l), NEW c, NEW F, NEW G,
           Tame(d, c, F, G)
    PROVE  RowsFit(c, n, e + 1, l) /\ OrdersKept(d, c) /\ c.schema = d.schema
<1>0. RowsTyped(d) /\ IdsUnique(d) /\ Belong(d) /\ IdsFit(d, e) /\ SkusDistinct(d) /\ Hidden(d, n, l)
  BY DEF RowsFit
<1>1. /\ Shaped(c) /\ Rewritten(d, c, F, G)
      /\ c.schema = d.schema /\ c.categories = d.categories /\ c.failed = d.failed
      /\ c.products = {F[p] : p \in d.products} /\ c.options = {G[o] : o \in d.options}
      /\ \A p \in d.products : F[p].id = p.id /\ F[p].name = p.name /\ F[p] \in Products
      /\ \A o \in d.options : /\ G[o].id = o.id /\ G[o].product = o.product /\ G[o].sku = o.sku
                               /\ G[o] \in Options /\ (G[o].active => o.active)
      /\ \A p \in d.products, o \in d.options :
            p.active /\ G[o].active /\ o.product = p.id => F[p].active
  BY DEF Tame, Rewritten
<1>2. RowsTyped(c)
  BY <1>0, <1>1 DEF RowsTyped
<1>3. IdsUnique(c) /\ Belong(c) /\ IdsFit(c, e)
  BY <1>0, <1>1, RewritingKeepsIds
<1>4. IdsFit(c, e + 1)
  <2>1. ASSUME NEW p \in c.products, NEW k \in Nat, p.id = <<"admin", k>>
        PROVE  k < e + 1
    <3>1. k < e
      BY <1>3, <2>1 DEF IdsFit
    <3> QED
      BY <3>1
  <2> QED
    BY <1>3, <2>1 DEF IdsFit
<1>5. ActiveBefore(c, n)
  BY DEF ActiveBefore
<1>6. SkusDistinct(c)
  BY <1>0, <1>1 DEF SkusDistinct
<1>7. Hidden(c, n, l)
  BY <1>0, <1>1 DEF Hidden
<1>8. OrdersKept(d, c)
  BY <1>1 DEF OrdersKept
<1> QED
  BY <1>1, <1>2, <1>3, <1>4, <1>5, <1>6, <1>7, <1>8 DEF RowsFit

LEMMA SoftDeleteFits ==
    ASSUME NEW n \in 12 .. 14, NEW d, NEW l, NEW e \in Nat, RowsFit(d, n, e, l), NEW x \in d.products,
           NEW c, c = WithoutProduct(d, x)
    PROVE  RowsFit(c, n, e + 1, l) /\ OrdersKept(d, c) /\ c.schema = d.schema
<1> DEFINE F == [p \in d.products |-> IF p = x THEN [x EXCEPT !.active = FALSE] ELSE p]
           G == [o \in d.options |-> [o EXCEPT !.active = o.active /\ o.product # x.id]]
<1>0. Shaped(d) /\ RowsTyped(d) /\ IdsUnique(d)
  BY DEF RowsFit
<1>1. /\ {F[p] : p \in d.products} = (d.products \ {x}) \cup {[x EXCEPT !.active = FALSE]}
      /\ {G[o] : o \in d.options}
           = {[o EXCEPT !.active = o.active /\ o.product # x.id] : o \in d.options}
  OBVIOUS
<1>2. ASSUME NEW p \in d.products
      PROVE  /\ F[p] \in Products /\ F[p].id = p.id /\ F[p].name = p.name
             /\ p # x => F[p] = p
  BY <1>0 DEF RowsTyped, Products
<1>3. ASSUME NEW o \in d.options
      PROVE  /\ G[o] \in Options /\ G[o].id = o.id /\ G[o].product = o.product /\ G[o].sku = o.sku
             /\ G[o].active => o.active /\ o.product # x.id
  BY <1>0 DEF RowsTyped, Options
<1> HIDE DEF F, G
<1>4. c = [d EXCEPT !.products = {F[p] : p \in d.products}, !.options = {G[o] : o \in d.options}]
  BY <1>1 DEF WithoutProduct
<1>5. /\ Shaped(c) /\ c.schema = d.schema /\ c.categories = d.categories /\ c.failed = d.failed
      /\ c.products = {F[p] : p \in d.products} /\ c.options = {G[o] : o \in d.options}
  BY <1>0, <1>4 DEF Shaped
<1>6. Rewritten(d, c, F, G)
  BY <1>2, <1>3, <1>5 DEF Rewritten
<1>7. \A p \in d.products, o \in d.options :
        p.active /\ G[o].active /\ o.product = p.id => F[p].active
  BY <1>2, <1>3
<1>8. Tame(d, c, F, G)
  BY <1>2, <1>3, <1>5, <1>6, <1>7 DEF Tame
<1> QED
  BY <1>8, TameRewritingFits

LEMMA OrderFits ==
    ASSUME NEW n \in 12 .. 14, NEW d, NEW l, NEW e \in Nat, RowsFit(d, n, e, l), NEW x \in d.options,
           NEW c, c = WithOrder(d, x)
    PROVE  RowsFit(c, n, e + 1, l) /\ OrdersKept(d, c) /\ c.schema = d.schema
<1> DEFINE F == [p \in d.products |-> p]
           G == [o \in d.options |-> IF o = x THEN [x EXCEPT !.ordered = TRUE] ELSE o]
<1>0. Shaped(d) /\ RowsTyped(d)
  BY DEF RowsFit
<1>1. {G[o] : o \in d.options} = (d.options \ {x}) \cup {[x EXCEPT !.ordered = TRUE]}
  OBVIOUS
<1>2. {F[p] : p \in d.products} = d.products /\ \A p \in d.products : F[p] = p
  OBVIOUS
<1>3. ASSUME NEW o \in d.options
      PROVE  /\ G[o] \in Options /\ G[o].id = o.id /\ G[o].product = o.product /\ G[o].sku = o.sku
             /\ G[o].active = o.active
  BY <1>0 DEF RowsTyped, Options
<1> HIDE DEF F, G
<1>4. c = [d EXCEPT !.options = {G[o] : o \in d.options}]
  BY <1>1 DEF WithOrder
<1>5. /\ Shaped(c) /\ c.schema = d.schema /\ c.categories = d.categories /\ c.failed = d.failed
      /\ c.products = {F[p] : p \in d.products} /\ c.options = {G[o] : o \in d.options}
  BY <1>0, <1>2, <1>4 DEF Shaped
<1>6. Rewritten(d, c, F, G)
  BY <1>2, <1>3, <1>5 DEF Rewritten
<1>7. \A p \in d.products : F[p] \in Products
  BY <1>0, <1>2 DEF RowsTyped
<1>8. Tame(d, c, F, G)
  BY <1>2, <1>3, <1>5, <1>6, <1>7 DEF Tame
<1> QED
  BY <1>8, TameRewritingFits

\* An option is added to a product that is still there: when the product is not active
\* any more, the option is a late one.
LEMMA AddFits ==
    ASSUME NEW n \in 12 .. 14, NEW d, NEW l, NEW e \in Nat, RowsFit(d, n, e, l),
           NEW x \in d.products, NEW id \in Ids, NEW sku \in Names,
           \A o \in d.options : o.sku = sku => ~o.active,
           NEW m, l \subseteq m, x.active \/ id \in m,
           NEW c, c = WithOption(d, id, x.id, sku)
    PROVE  RowsFit(c, n, e, m) /\ OrdersKept(d, c) /\ c.schema = d.schema
<1> DEFINE opt == Option(id, x.id, sku)
<1>0. Shaped(d) /\ RowsTyped(d) /\ IdsUnique(d) /\ Belong(d) /\ IdsFit(d, e) /\ SkusDistinct(d)
      /\ Hidden(d, n, l)
  BY DEF RowsFit
<1>1. /\ c = [schema |-> d.schema, categories |-> d.categories, products |-> d.products,
              options |-> d.options \cup {opt}, failed |-> d.failed]
      /\ c.products = d.products /\ c.options = d.options \cup {opt}
      /\ c.categories = d.categories /\ c.failed = d.failed /\ c.schema = d.schema
  <2>1. c = [d EXCEPT !.options = @ \cup {opt}]
    BY DEF WithOption
  <2> HIDE DEF opt
  <2> QED
    BY <1>0, <2>1 DEF Shaped
<1>2. x.id \in Ids
  BY <1>0 DEF RowsTyped, Products
<1>3. opt \in Options /\ opt.id = id /\ opt.product = x.id /\ opt.sku = sku /\ opt.active
  BY <1>2 DEF Option, Options
<1> HIDE DEF opt
<1>4. Shaped(c)
  BY <1>1 DEF Shaped
<1>5. RowsTyped(c)
  BY <1>0, <1>1, <1>3 DEF RowsTyped
<1>6. IdsUnique(c) /\ IdsFit(c, e)
  BY <1>0, <1>1 DEF IdsUnique, IdsFit
<1>7. Belong(c)
  BY <1>0, <1>1, <1>3 DEF Belong
<1>8. ActiveBefore(c, n)
  BY DEF ActiveBefore
<1>9. SkusDistinct(c)
  BY <1>0, <1>1, <1>3 DEF SkusDistinct
<1>10. Hidden(c, n, m)
  <2>1. ASSUME NEW p \in d.products, NEW o \in d.options,
               o.product = p.id, o.active, o.id \notin m
        PROVE  p.active
    BY <1>0, <2>1 DEF Hidden
  <2>2. ASSUME NEW p \in d.products, x.id = p.id, id \notin m
        PROVE  p.active
    <3>1. p = x
      BY <1>0, <2>2 DEF IdsUnique
    <3> QED
      BY <2>2, <3>1
  <2> QED
    BY <1>1, <1>3, <2>1, <2>2 DEF Hidden
<1>11. OrdersKept(d, c)
  BY <1>1 DEF OrdersKept
<1> QED
  BY <1>1, <1>4, <1>5, <1>6, <1>7, <1>8, <1>9, <1>10, <1>11 DEF RowsFit

-----------------------------------------------------------------------------
(* The invariant.                                                           *)

\* An addition under way has a product, active or not.
AddingFits(d) == \A a \in adding : a.id \in Ids /\ \E p \in d.products : p.id = a.product

MigrationInv ==
    /\ applied \in 0 .. 14
    /\ edits \in 0 .. MaxEdits
    /\ Good(db, applied, edits, late)
    /\ AddingFits(db)

LEMMA EmptyIsGood == Good(Empty, 0, 0, {})
<1>1. /\ Shaped(Empty) /\ Empty.products = {} /\ Empty.options = {} /\ Empty.categories = {}
      /\ Empty.failed = FALSE /\ Empty.schema = {}
  BY DEF Empty, Shaped
<1>2. RowsFit(Empty, 0, 0, {})
  BY <1>1 DEF RowsFit, RowsTyped, IdsUnique, Belong, IdsFit, ActiveBefore, SkusDistinct, Hidden
<1>3. Fits(Empty.schema, 0)
  BY <1>1, NothingLaid DEF Fits
<1> QED
  BY <1>2, <1>3 DEF Good

LEMMA MigrationInit == Init => MigrationInv
<1> SUFFICES ASSUME Init PROVE MigrationInv
  OBVIOUS
<1>1. applied = 0 /\ edits = 0 /\ adding = {} /\ late = {} /\ db \in {Empty, Snapshot} /\ 0 \in 0 .. MaxEdits
  BY SchemaAssumption DEF Init
<1>2. CASE db = Empty
  BY <1>1, <1>2, EmptyIsGood DEF MigrationInv, AddingFits
<1>3. CASE db = Snapshot
  <2> DEFINE Row(m) == [id |-> <<"own", m>>, name |-> m, image |-> None,
                        description |-> "own", active |-> TRUE]
             Opt(m) == Option(<<"own", m>>, <<"own", m>>, m)
             P == {Row(m) : m \in {"tee", "hood"}}
             O == {Opt(m) : m \in {"tee", "hood"}}
  <2>1. \A m \in {"tee", "hood"} : /\ Row(m) \in Products /\ Row(m).id = <<"own", m>>
                                   /\ Row(m).name = m /\ Row(m).active
    BY DEF Products, Ids, Names, Texts
  <2>2. \A m \in {"tee", "hood"} : /\ Opt(m) \in Options /\ Opt(m).product = <<"own", m>>
                                   /\ Opt(m).sku = m /\ Opt(m).active
    BY DEF Option, Options, Ids, Names
  <2>3. db = [Empty EXCEPT !.schema = SnapshotSchema, !.categories = {"shoes"},
                           !.products = P, !.options = O]
    BY <1>3 DEF Snapshot
  <2> HIDE DEF Row, Opt
  <2>4. /\ \A p \in P : p \in Products /\ p.id = <<"own", p.name>> /\ p.active
        /\ \A o \in O : o \in Options /\ o.product = <<"own", o.sku>> /\ o.active
        /\ \A o \in O : \E p \in P : p.id = o.product
        /\ \A p, q \in P : p.id = q.id => p = q
        /\ \A o1, o2 \in O : o1.sku = o2.sku => o1 = o2
    BY <2>1, <2>2
  <2> HIDE DEF P, O
  <2>5. db = [schema |-> SnapshotSchema, categories |-> {"shoes"}, products |-> P,
              options |-> O, failed |-> FALSE]
    BY <2>3 DEF Empty
  <2>6. /\ Shaped(db) /\ db.products = P /\ db.options = O /\ db.categories = {"shoes"}
        /\ db.failed = FALSE /\ db.schema = SnapshotSchema
    BY <2>5 DEF Shaped
  <2>7. RowsTyped(db) /\ IdsUnique(db) /\ Belong(db)
    BY <2>4, <2>6 DEF RowsTyped, IdsUnique, Belong
  <2>8. IdsFit(db, 0)
    BY <2>4, <2>6 DEF IdsFit
  <2>9. ActiveBefore(db, 0) /\ Hidden(db, 0, {})
    BY <2>4, <2>6 DEF ActiveBefore, Hidden
  <2>10. SkusDistinct(db)
    BY <2>4, <2>6 DEF SkusDistinct
  <2> QED
    BY <1>1, <2>6, <2>7, <2>8, <2>9, <2>10 DEF MigrationInv, AddingFits, Good, RowsFit
<1> QED
  BY <1>1, <1>2, <1>3

\* The migrations that are pending succeed, and leave every row that was there.  When the
\* twelfth is one of them no option is late any more.
LEMMA MigratedIsGood ==
    ASSUME MigrationInv
    PROVE  /\ Good(Migrated, 14, edits, IF applied < 12 THEN {} ELSE late)
           /\ Kept(db, Migrated)
<1> DEFINE l == IF applied < 12 THEN {} ELSE late
<1>1. Migrated = Upgrade(db, applied)[14]
  BY FourteenMigrations DEF Migrated
<1>2. applied \in 0 .. 14 /\ 14 \in applied .. 14 /\ Good(db, applied, edits, late)
  BY DEF MigrationInv
<1>3. Hidden(db, applied, l)
  BY <1>2 DEF Good, RowsFit, Hidden
<1> HIDE DEF l
<1>4. Good(db, applied, edits, l)
  BY <1>2, <1>3 DEF Good, RowsFit
<1>5. Good(Upgrade(db, applied)[14], 14, edits, l) /\ Kept(db, Upgrade(db, applied)[14])
  BY <1>2, <1>4, UpgradeIsGood
<1> QED
  BY <1>1, <1>5 DEF l

LEMMA EditsComeLate ==
    ASSUME MigrationInv, Runs
    PROVE  /\ applied \in 12 .. 14 /\ edits \in Nat
           /\ RowsFit(db, applied, edits, late)
           /\ Fits(db.schema, applied)
<1>1. CodeItems \subseteq db.schema
  BY DEF Runs
<1>2. Fits(db.schema, applied)
  BY <1>1, CodeNeedsMoreThanTheSnapshot DEF MigrationInv, Good
<1>3. applied >= 12
  BY <1>1, <1>2, CodeRunsFromTwelve DEF MigrationInv
<1> QED
  BY <1>2, <1>3, SchemaAssumption DEF MigrationInv, Good

\* What a request does to the database.
LEMMA RequestsFit ==
    ASSUME MigrationInv, Create \/ SoftDelete \/ Order
    PROVE  MigrationInv' /\ OrdersKept(db, db')
<1>1. Edit /\ UNCHANGED <<adding, late>>
  BY DEF Create, SoftDelete, Order
<1>2. /\ applied \in 12 .. 14 /\ applied' = applied
      /\ edits \in Nat /\ edits' = edits + 1 /\ edits' \in 0 .. MaxEdits
      /\ RowsFit(db, applied, edits, late)
      /\ Fits(db.schema, applied)
  BY <1>1, EditsComeLate, SchemaAssumption DEF Edit
<1>3. /\ RowsFit(db', applied, edits + 1, late) /\ OrdersKept(db, db') /\ db'.schema = db.schema
      /\ \A p \in db.products : \E q \in db'.products : q.id = p.id
  <2>0. Shaped(db) /\ RowsTyped(db)
    BY <1>2 DEF RowsFit
  <2>1. CASE Create
    <3>1. PICK m \in Names, sku \in {"boots", "cap"}, text \in {None, "own"} :
            ~SkuTaken(sku) /\ db' = WithProduct(db, edits, m, sku, text)
      BY <2>1 DEF Create, Names, WithProduct
    <3>2. \A o \in db.options : o.sku = sku => ~o.active
      BY <3>1 DEF SkuTaken
    <3>3. sku \in Names
      BY DEF Names
    <3>4. db.products \subseteq db'.products
      BY <2>0, <3>1 DEF WithProduct, Shaped
    <3> QED
      BY <1>2, <3>1, <3>2, <3>3, <3>4, CreateFits
  <2>2. CASE SoftDelete
    <3>1. PICK x \in db.products : db' = WithoutProduct(db, x)
      BY <2>2 DEF SoftDelete, WithoutProduct
    <3>2. db'.products = (db.products \ {x}) \cup {[x EXCEPT !.active = FALSE]}
      BY <2>0, <3>1 DEF WithoutProduct, Shaped
    <3>3. [x EXCEPT !.active = FALSE].id = x.id
      BY <2>0 DEF RowsTyped, Products
    <3>4. \A p \in db.products : \E q \in db'.products : q.id = p.id
      BY <3>2, <3>3
    <3> QED
      BY <1>2, <3>1, <3>4, SoftDeleteFits
  <2>3. CASE Order
    <3>1. PICK x \in db.options : db' = WithOrder(db, x)
      BY <2>3 DEF Order, WithOrder
    <3>2. db'.products = db.products
      BY <2>0, <3>1 DEF WithOrder, Shaped
    <3> QED
      BY <1>2, <3>1, <3>2, OrderFits
  <2> QED
    BY <2>1, <2>2, <2>3
<1>4. AddingFits(db)'
  BY <1>1, <1>3 DEF MigrationInv, AddingFits
<1> QED
  BY <1>1, <1>2, <1>3, <1>4 DEF MigrationInv, Good

\* The two halves of addProductOption.
LEMMA FindsFit ==
    ASSUME MigrationInv, FindProduct
    PROVE  MigrationInv' /\ OrdersKept(db, db')
<1>1. Edit /\ UNCHANGED <<db, late>>
  BY DEF FindProduct
<1>2. /\ applied \in 12 .. 14 /\ applied' = applied
      /\ edits \in Nat /\ edits' = edits + 1 /\ edits' \in 0 .. MaxEdits
      /\ RowsFit(db, applied, edits, late)
      /\ Fits(db.schema, applied)
  BY <1>1, EditsComeLate, SchemaAssumption DEF Edit
<1>3. IdsFit(db, edits + 1)
  <2>1. IdsFit(db, edits)
    BY <1>2 DEF RowsFit
  <2>2. ASSUME NEW p \in db.products, NEW k \in Nat, p.id = <<"admin", k>>
        PROVE  k < edits + 1
    <3>1. k < edits
      BY <2>1, <2>2 DEF IdsFit
    <3> QED
      BY <1>2, <3>1
  <2> QED
    BY <2>1, <2>2 DEF IdsFit
<1>4. AddingFits(db)'
  <2>1. PICK p \in db.products : adding' = adding \cup {[product |-> p.id, id |-> <<"admin", edits>>]}
    BY DEF FindProduct
  <2>2. <<"admin", edits>> \in Ids
    BY <1>2 DEF Ids
  <2> QED
    BY <1>1, <2>1, <2>2 DEF MigrationInv, AddingFits
<1> QED
  BY <1>1, <1>2, <1>3, <1>4 DEF MigrationInv, Good, RowsFit, OrdersKept

LEMMA AddsFit ==
    ASSUME MigrationInv, AddOption
    PROVE  MigrationInv' /\ OrdersKept(db, db')
<1>1. PICK a \in adding :
         /\ adding' = adding \ {a}
         /\ \/ \E sku \in {"boots", "cap"} :
                 /\ Runs /\ ~SkuTaken(sku)
                 /\ db' = [db EXCEPT !.options = @ \cup {Option(a.id, a.product, sku)}]
                 /\ late' = IF \E p \in db.products : p.id = a.product /\ p.active
                            THEN late ELSE late \cup {a.id}
            \/ UNCHANGED <<db, late>>
  BY DEF AddOption
<1>2. UNCHANGED <<applied, edits>>
  BY DEF AddOption
<1>3. CASE UNCHANGED <<db, late>>
  <2>1. AddingFits(db)'
    BY <1>1, <1>3 DEF MigrationInv, AddingFits
  <2> QED
    BY <1>2, <1>3, <2>1 DEF MigrationInv, OrdersKept
<1>4. ASSUME NEW sku \in {"boots", "cap"}, Runs, ~SkuTaken(sku),
             db' = [db EXCEPT !.options = @ \cup {Option(a.id, a.product, sku)}],
             late' = IF \E p \in db.products : p.id = a.product /\ p.active
                     THEN late ELSE late \cup {a.id}
      PROVE  MigrationInv' /\ OrdersKept(db, db')
  <2>1. /\ applied \in 12 .. 14 /\ edits \in Nat /\ RowsFit(db, applied, edits, late)
        /\ Fits(db.schema, applied)
    BY <1>4, EditsComeLate
  <2>2. a.id \in Ids /\ \E p \in db.products : p.id = a.product
    BY DEF MigrationInv, AddingFits
  <2>3. PICK x \in db.products : x.id = a.product /\ (x.active \/ a.id \in late')
    BY <1>4, <2>2
  <2>4. late \subseteq late'
    BY <1>4
  <2>5. \A o \in db.options : o.sku = sku => ~o.active
    BY <1>4 DEF SkuTaken
  <2>6. sku \in Names
    BY DEF Names
  <2>7. db' = WithOption(db, a.id, x.id, sku)
    BY <1>4, <2>3 DEF WithOption
  <2>8. RowsFit(db', applied, edits, late') /\ OrdersKept(db, db') /\ db'.schema = db.schema
    BY <2>1, <2>2, <2>3, <2>4, <2>5, <2>6, <2>7, AddFits
  <2>9. db'.products = db.products
    BY <2>1, <2>7 DEF RowsFit, Shaped, WithOption
  <2>10. AddingFits(db)'
    BY <1>1, <2>9 DEF MigrationInv, AddingFits
  <2> QED
    BY <1>2, <2>1, <2>8, <2>10 DEF MigrationInv, Good
<1> QED
  BY <1>1, <1>3, <1>4

LEMMA BootFits ==
    ASSUME MigrationInv, Boot
    PROVE  MigrationInv' /\ Kept(db, db')
<1>1. /\ db' = Migrated /\ applied' = 14 /\ UNCHANGED <<adding, edits>>
      /\ late' = IF applied < 12 THEN {} ELSE late
  BY FourteenMigrations DEF Boot
<1>2. Good(db', 14, edits, late') /\ Kept(db, db')
  BY <1>1, MigratedIsGood
<1>3. AddingFits(db)'
  BY <1>1, <1>2 DEF MigrationInv, AddingFits, Kept
<1> QED
  BY <1>1, <1>2, <1>3 DEF MigrationInv

LEMMA RevertFits ==
    ASSUME MigrationInv, Revert
    PROVE  /\ MigrationInv'
           /\ (applied = 1 /\ applied' = 0) \/ OrdersKept(db, db')
<1>1. applied \in 1 .. 14 /\ Good(db, applied, edits, late) /\ ~Down(db, applied).failed
  BY DEF MigrationInv, Revert
<1>2. Good(Down(db, applied), applied - 1, edits, late)
  BY <1>1, DownIsGood
<1>3. applied # 1 => OrdersKept(db, Down(db, applied))
  BY <1>1, DownIsGood
<1>4. /\ db' = Down(db, applied) /\ applied' = applied - 1 /\ UNCHANGED <<late, edits>>
      /\ adding' = {a \in adding : \E p \in Down(db, applied).products : p.id = a.product}
  BY DEF Revert
<1>5. AddingFits(db)'
  BY <1>4 DEF MigrationInv, AddingFits
<1> QED
  BY <1>1, <1>2, <1>3, <1>4, <1>5 DEF MigrationInv

LEMMA MigrationStep ==
    ASSUME MigrationInv, [Next]_vars
    PROVE  MigrationInv'
<1>1. CASE Next
  BY <1>1, BootFits, RevertFits, RequestsFit, FindsFit, AddsFit DEF Next
<1>2. CASE UNCHANGED vars
  BY <1>2 DEF vars, MigrationInv, AddingFits
<1> QED
  BY <1>1, <1>2

\* The invariant the theorems rest on: the schema is what the migrations applied leave, and
\* the rows are such that none of those that follow can fail.
THEOREM MigrationInvariance == Spec => []MigrationInv
<1>1. Init => MigrationInv
  BY MigrationInit
<1>2. MigrationInv /\ [Next]_vars => MigrationInv'
  BY MigrationStep
<1> QED
  BY <1>1, <1>2, PTL DEF Spec

-----------------------------------------------------------------------------
(* The theorems.                                                            *)

\* Types, and that every option belongs to a product: no migration leaves an orphan behind.
THEOREM SchemaTypes == Spec => []TypeOK
<1>1. MigrationInv => TypeOK
  <2> SUFFICES ASSUME MigrationInv PROVE TypeOK
    OBVIOUS
  <2>1. RowsTyped(db) /\ Belong(db)
    BY DEF MigrationInv, Good, RowsFit
  <2>2. \A p \in db.products :
          /\ p.name \in {"tee", "hood", "boots", "cap"}
          /\ p.image \in {None, "seed", "own"} /\ p.description \in {None, "seed", "own"}
    BY <2>1 DEF RowsTyped, Products, Names, Texts
  <2>3. applied \in 0 .. Len(Migrations) /\ edits \in 0 .. MaxEdits
    BY FourteenMigrations DEF MigrationInv
  <2>4. \A o \in db.options \cup adding : \E p \in db.products : p.id = o.product
    BY <2>1 DEF Belong, MigrationInv, AddingFits
  <2> QED
    BY <2>1, <2>2, <2>3, <2>4 DEF TypeOK, RowsTyped
<1> QED
  BY <1>1, MigrationInvariance, PTL

\* Every down method undoes exactly what its up method did: starting and reverting in any
\* order, the schema is the one that the migrations applied would make of an empty database.
THEOREM SchemaFollowsHistory == Spec => []SchemaIsHistory
<1>1. MigrationInv => SchemaIsHistory
  <2> SUFFICES ASSUME MigrationInv PROVE SchemaIsHistory
    OBVIOUS
  <2> DEFINE fresh == Upgrade(Empty, 0)[applied].schema
  <2>1. applied \in 0 .. 14
    BY DEF MigrationInv
  <2>2. Fits(fresh, applied)
    <3>1. CASE applied = 0
      <4>1. Upgrade(Empty, 0)[0] = Empty
        BY UpgradeEquation
      <4>2. Empty.schema = {}
        BY DEF Empty
      <4> QED
        BY <3>1, <4>1, <4>2, NothingLaid DEF Fits
    <3>2. CASE applied # 0
      BY <2>1, <3>2, EmptyIsGood, UpgradeIsGood DEF Good
    <3> QED
      BY <3>1, <3>2
  <2>3. CASE Fits(db.schema, applied)
    BY <2>2, <2>3 DEF Fits, SchemaIsHistory
  <2>4. CASE applied = 0 /\ db.schema = SnapshotSchema
    BY <2>4 DEF SchemaIsHistory
  <2> QED
    BY <2>3, <2>4 DEF MigrationInv, Good
<1> QED
  BY <1>1, MigrationInvariance, PTL

\* A server that has started finds every column, enum value and default its entities count on.
THEOREM MigratedCodeRuns == Spec => []CodeRuns
<1>1. MigrationInv => CodeRuns
  <2> SUFFICES ASSUME MigrationInv, applied = 14
               PROVE  /\ CodeItems \subseteq db.schema
                      /\ \A x \in db.schema : x[3] = "required" => x \in CodeItems
    BY FourteenMigrations DEF CodeRuns
  <2>1. Fits(db.schema, 14)
    BY DEF MigrationInv, Good
  <2> QED
    BY <2>1, CodeFits
<1> QED
  BY <1>1, MigrationInvariance, PTL

\* Whatever was reverted and whatever admins did, the next start can apply what is pending.
THEOREM EveryStartSucceeds == Spec => []BootsAgain
<1>1. MigrationInv => BootsAgain
  BY MigratedIsGood DEF BootsAgain, Good, RowsFit, RowsTyped
<1> QED
  BY <1>1, MigrationInvariance, PTL

\* Once both flags exist, an option of a deleted product that is for sale was saved by an
\* addition that had found the product before it was deleted; starts and reverts make no
\* other, and a start that runs migration 12 hides these too.
THEOREM DeletedStayHidden == Spec => []HiddenTogether
<1>1. MigrationInv => HiddenTogether
  BY DEF MigrationInv, Good, RowsFit, Hidden, HiddenTogether
<1> QED
  BY <1>1, MigrationInvariance, PTL

\* No start, revert or request takes away an option an order refers to, but for the revert
\* that drops the tables.
THEOREM OrderedOptionsStay == Spec => OrderedKept
<1> DEFINE Keeps == (applied = 1 /\ applied' = 0) \/
                    \A o \in db.options : o.ordered => \E n \in db'.options : n.id = o.id
<1>1. MigrationInv /\ [Next]_vars => [Keeps]_vars
  <2> SUFFICES ASSUME MigrationInv, Next PROVE (applied = 1 /\ applied' = 0) \/ OrdersKept(db, db')
    BY DEF OrdersKept
  <2>1. CASE Boot
    BY <2>1, BootFits DEF Kept, OrdersKept
  <2>2. CASE Revert
    BY <2>2, RevertFits
  <2>3. CASE Create \/ SoftDelete \/ Order
    BY <2>3, RequestsFit
  <2>4. CASE FindProduct \/ AddOption
    BY <2>4, FindsFit, AddsFit
  <2> QED
    BY <2>1, <2>2, <2>3, <2>4 DEF Next
<1>2. Spec => [][Keeps]_vars
  <2> HIDE DEF Keeps
  <2> QED
    BY <1>1, MigrationInvariance, PTL DEF Spec
<1> QED
  BY <1>2 DEF OrderedKept

\* A start keeps every product and overwrites no picture and no description.
THEOREM StartsOverwriteNothing == Spec => BootKeepsRows
<1> DEFINE Keeps == Boot => \A p \in db.products : \E q \in db'.products :
                      /\ q.id = p.id /\ q.active = p.active
                      /\ p.image # None => q.image = p.image
                      /\ p.description # None => q.description = p.description
<1>1. MigrationInv /\ [Next]_vars => [Keeps]_vars
  BY BootFits DEF Kept
<1>2. Spec => [][Keeps]_vars
  <2> HIDE DEF Keeps
  <2> QED
    BY <1>1, MigrationInvariance, PTL DEF Spec
<1> QED
  BY <1>2 DEF BootKeepsRows
=============================================================================
