-------------------------------- MODULE Cart --------------------------------
(***************************************************************************)
(* CartService: a guest's cart is a Redis hash with a time to live, a       *)
(* member's cart is rows of cart_items, and logging in merges the first     *)
(* into the second.  Every Redis command and every SQL statement is a step;  *)
(* nothing ties the commands of one request together.                       *)
(*                                                                          *)
(* Options are never deleted from product_options (they are only made        *)
(* inactive), so the clean-up of stale ids in getCart never finds any and    *)
(* getCart changes nothing.                                                 *)
(***************************************************************************)
EXTENDS Naturals, FiniteSets

CONSTANTS
    Proc,        \* requests being served at the same time
    CartId,      \* guest carts (X-Cart-Id)
    User,        \* members
    Option,      \* product options
    Quantity,    \* quantities a request may carry; the DTOs demand 1 or more
    MaxUnits,    \* bound: the most units one entry may come to
    Crashes,     \* the server process may die between two steps
    None

ASSUME CartAssumption ==
    /\ IsFiniteSet(Proc) /\ IsFiniteSet(User) /\ IsFiniteSet(Option)
    /\ CartId \cap User = {} /\ None \notin Option
    /\ MaxUnits \in Nat /\ Quantity \subseteq 1 .. MaxUnits

VARIABLES
    guest,       \* Redis: quantity per option of each cart, 0 for no field
    ttl,         \* the key of the cart has an expiry
    member,      \* cart_items: quantity per option of each user, 0 for no row
    rowId,       \* the id of that row, 0 for no row
    pc, job,
    entries,     \* ghost: what a merge that met no other request read with HGETALL
    rest,        \* what a merge read and has not saved yet
    seen,        \* the row upsertDbItem found: its id and its quantity
    contested    \* ghost: the requests that met another one on a cart

redis    == <<guest, ttl>>
database == <<member, rowId>>
requests == <<pc, job, entries, rest, seen, contested>>
vars == <<redis, database, requests>>

Empty == [i \in Option |-> 0]
NoRow == [id |-> 0, quantity |-> 0]
NoJob == [kind |-> "none", option |-> None]

Jobs ==
    [kind : {"add", "update"}, owner : CartId \cup User, option : Option,
     quantity : Quantity]
    \cup [kind : {"remove"}, owner : CartId \cup User, option : Option]
    \cup [kind : {"merge"}, owner : User, cart : CartId, option : {None}]
    \cup [kind : {"order"}, owner : CartId, option : {None}]

Init ==
    /\ guest = [c \in CartId |-> Empty]
    /\ ttl = [c \in CartId |-> FALSE]
    /\ member = [u \in User |-> Empty]
    /\ rowId = [u \in User |-> Empty]
    /\ pc = [p \in Proc |-> "idle"]
    /\ job = [p \in Proc |-> NoJob]
    /\ entries = [p \in Proc |-> Empty]
    /\ rest = [p \in Proc |-> Empty]
    /\ seen = [p \in Proc |-> NoRow]
    /\ contested = {}

-----------------------------------------------------------------------------
GoTo(p, label) == pc' = [pc EXCEPT ![p] = label]

\* The request is answered.
Done(p) ==
    /\ GoTo(p, "idle")
    /\ job' = [job EXCEPT ![p] = NoJob]
    /\ entries' = [entries EXCEPT ![p] = Empty]
    /\ rest' = [rest EXCEPT ![p] = Empty]
    /\ seen' = [seen EXCEPT ![p] = NoRow]
    /\ contested' = contested \ {p}

\* A hash that loses its last field is gone, and its expiry with it.
SetGuest(c, fields) ==
    /\ guest' = [guest EXCEPT ![c] = fields]
    /\ ttl' = [ttl EXCEPT ![c] = @ /\ fields # Empty]

SetMember(u, i, id, n) ==
    /\ member' = [member EXCEPT ![u][i] = n]
    /\ rowId' = [rowId EXCEPT ![u][i] = id]

\* A primary key that no row has and no request remembers.
FreshId ==
    LET Taken == {rowId[u][i] : u \in User, i \in Option} \cup {seen[p].id : p \in Proc}
    IN  CHOOSE n \in 1 .. Cardinality(Taken) + 1 : n \notin Taken

\* The carts a request is about.
Touched(j) ==
    IF j.kind = "none" THEN {} ELSE {j.owner} \cup (IF j.kind = "merge" THEN {j.cart} ELSE {})

\* The request has not taken effect yet.
Waiting(p) == pc[p] \notin {"idle", "expire", "end"}

Rivals(p, j) == {q \in Proc \ {p} : Waiting(q) /\ Touched(job[q]) \cap Touched(j) # {}}

Meeting(p, j) == IF Rivals(p, j) = {} THEN {} ELSE Rivals(p, j) \cup {p}

Begin(p) ==
    /\ pc[p] = "idle"
    /\ \E j \in Jobs :
          /\ job' = [job EXCEPT ![p] = j]
          /\ contested' = contested \cup Meeting(p, j)
    /\ GoTo(p, "start")
    /\ entries' = [q \in Proc |-> IF q \in contested' THEN Empty ELSE entries[q]]
    /\ UNCHANGED <<redis, database, rest, seen>>

At(p, label, kind) == pc[p] = label /\ job[p].kind = kind
ForGuest(p) == job[p].owner \in CartId
ForMember(p) == job[p].owner \in User

-----------------------------------------------------------------------------
(* A guest's requests.                                                      *)

HIncrBy(p) ==
    LET c == job[p].owner
        i == job[p].option
        n == job[p].quantity
    IN
    /\ At(p, "start", "add") /\ ForGuest(p)
    /\ guest[c][i] + n <= MaxUnits
    /\ SetGuest(c, [guest[c] EXCEPT ![i] = @ + n])
    /\ GoTo(p, "expire")
    /\ UNCHANGED <<database, job, entries, rest, seen, contested>>

HExists(p) ==
    /\ At(p, "start", "update") /\ ForGuest(p)
    /\ guest[job[p].owner][job[p].option] > 0
    /\ GoTo(p, "hset")
    /\ UNCHANGED <<redis, database, job, entries, rest, seen, contested>>

\* mutant: the entry was found, so the cart is taken to have its expiry already
HSetAlone(p) ==
    /\ At(p, "hset", "update")
    /\ SetGuest(job[p].owner, [guest[job[p].owner] EXCEPT ![job[p].option] = job[p].quantity])
    /\ Done(p)
    /\ UNCHANGED database

HSet(p) ==
    LET c == job[p].owner
        i == job[p].option
        n == job[p].quantity
    IN
    /\ At(p, "hset", "update")
    /\ SetGuest(c, [guest[c] EXCEPT ![i] = n])
    /\ GoTo(p, "expire")
    /\ UNCHANGED <<database, job, entries, rest, seen, contested>>

\* EXPIRE does nothing to a key that is gone.
ExpireKey(p) == ttl' = [ttl EXCEPT ![job[p].owner] = guest[job[p].owner] # Empty]

Expire(p) ==
    /\ pc[p] = "expire"
    /\ ExpireKey(p)
    /\ Done(p)
    /\ UNCHANGED <<guest, database>>

HDel(p) ==
    LET c == job[p].owner
        i == job[p].option
    IN
    /\ At(p, "start", "remove") /\ ForGuest(p)
    /\ guest[c][i] > 0
    /\ SetGuest(c, [guest[c] EXCEPT ![i] = 0])
    /\ Done(p)
    /\ UNCHANGED database

-----------------------------------------------------------------------------
(* A member's requests.                                                     *)

UpdateRow(p) ==
    LET u == job[p].owner
        i == job[p].option
    IN
    /\ At(p, "start", "update") /\ ForMember(p)
    /\ member[u][i] > 0
    /\ SetMember(u, i, rowId[u][i], job[p].quantity)
    /\ Done(p)
    /\ UNCHANGED redis

DeleteRow(p) ==
    LET u == job[p].owner
        i == job[p].option
    IN
    /\ At(p, "start", "remove") /\ ForMember(p)
    /\ member[u][i] > 0
    /\ SetMember(u, i, 0, 0)
    /\ Done(p)
    /\ UNCHANGED redis

\* CART_ITEM_NOT_FOUND.
NotFound(p) ==
    /\ pc[p] = "start" /\ job[p].kind \in {"update", "remove"}
    /\ IF ForGuest(p) THEN guest[job[p].owner][job[p].option] = 0
                      ELSE member[job[p].owner][job[p].option] = 0
    /\ Done(p)
    /\ UNCHANGED <<redis, database>>

-----------------------------------------------------------------------------
(* upsertDbItem, for a member's addItem and for every entry of a merge:      *)
(* findOne, then save, which looks the row up by its id again and then       *)
(* updates or inserts.                                                      *)

Units(p) == IF job[p].kind = "merge" THEN rest[p][job[p].option] ELSE job[p].quantity

FindRow(p) ==
    LET u == job[p].owner
        i == job[p].option
    IN
    /\ \/ At(p, "start", "add") /\ ForMember(p)
       \/ At(p, "upsert", "merge")
    /\ member[u][i] + Units(p) <= MaxUnits
    /\ seen' = [seen EXCEPT ![p] = [id |-> rowId[u][i], quantity |-> member[u][i]]]
    /\ GoTo(p, "save")
    /\ UNCHANGED <<redis, database, job, entries, rest, contested>>

\* After the save: the next entry of the merge, or the answer.
Saved(p) ==
    \/ /\ job[p].kind = "add"
       /\ Done(p)
    \/ /\ job[p].kind = "merge"
       /\ rest' = [rest EXCEPT ![p][job[p].option] = 0]
       /\ job' = [job EXCEPT ![p].option = None]
       /\ seen' = [seen EXCEPT ![p] = NoRow]
       /\ GoTo(p, "loop")
       /\ UNCHANGED <<entries, contested>>

\* mutant: the quantity replaces the one in the cart
Replaced(p) == Units(p)

\* mutant: the quantity is added twice
AddedTwice(p) == seen[p].quantity + 2 * Units(p)

NewQuantity(p) == seen[p].quantity + Units(p)

\* The row of the entity is looked up by id.
Reload(p) ==
    LET found == seen[p].id # 0 /\ rowId[job[p].owner][job[p].option] = seen[p].id IN
    /\ pc[p] = "save"
    /\ \/ /\ found
          /\ member[job[p].owner][job[p].option] # NewQuantity(p)
          /\ GoTo(p, "update")
          /\ UNCHANGED <<job, entries, rest, seen, contested>>
       \/ /\ found                      \* nothing to write
          /\ member[job[p].owner][job[p].option] = NewQuantity(p)
          /\ Saved(p)
       \/ /\ ~found
          /\ GoTo(p, "insert")
          /\ UNCHANGED <<job, entries, rest, seen, contested>>
    /\ UNCHANGED <<redis, database>>

\* UPDATE ... WHERE id: no row, no change.
WriteRow(p) ==
    LET u == job[p].owner
        i == job[p].option
    IN
    /\ pc[p] = "update"
    /\ \/ rowId[u][i] = seen[p].id /\ SetMember(u, i, rowId[u][i], NewQuantity(p))
       \/ rowId[u][i] # seen[p].id /\ UNCHANGED database
    /\ Saved(p)
    /\ UNCHANGED redis

\* An entity whose row was deleted meanwhile is inserted again, under its id.
InsertRow(p) ==
    LET u == job[p].owner
        i == job[p].option
    IN
    /\ pc[p] = "insert"
    /\ rowId[u][i] = 0
    /\ SetMember(u, i, IF seen[p].id # 0 THEN seen[p].id ELSE FreshId, NewQuantity(p))
    /\ Saved(p)
    /\ UNCHANGED redis

\* UNIQUE (user_id, product_option_id): the request fails, a merge half way.
DuplicateRow(p) ==
    /\ pc[p] = "insert"
    /\ rowId[job[p].owner][job[p].option] # 0
    /\ Done(p)
    /\ UNCHANGED <<redis, database>>

-----------------------------------------------------------------------------
(* mergeGuestCartIntoUser, called by login and register.                    *)

HGetAll(p) ==
    /\ At(p, "start", "merge")
    /\ entries' = [entries EXCEPT ![p] = IF p \in contested THEN Empty ELSE guest[job[p].cart]]
    /\ rest' = [rest EXCEPT ![p] = guest[job[p].cart]]
    /\ GoTo(p, IF guest[job[p].cart] = Empty THEN "end" ELSE "loop")
    /\ UNCHANGED <<redis, database, job, seen, contested>>

NextEntry(p) ==
    /\ At(p, "loop", "merge")
    /\ \E i \in {j \in Option : rest[p][j] > 0} : job' = [job EXCEPT ![p].option = i]
    /\ GoTo(p, "upsert")
    /\ UNCHANGED <<redis, database, entries, rest, seen, contested>>

\* mutant: the key goes before every entry is saved
DelKeyEarly(p) ==
    /\ At(p, "loop", "merge")
    /\ SetGuest(job[p].cart, Empty)
    /\ GoTo(p, "end")
    /\ UNCHANGED <<database, job, entries, rest, seen, contested>>

DelKey(p) ==
    /\ At(p, "loop", "merge") /\ rest[p] = Empty
    /\ SetGuest(job[p].cart, Empty)
    /\ GoTo(p, "end")
    /\ UNCHANGED <<database, job, entries, rest, seen, contested>>

\* The session is created, which touches no cart.
MergeEnd(p) ==
    /\ At(p, "end", "merge")
    /\ Done(p)
    /\ UNCHANGED <<redis, database>>

\* createOrder, after its commit: the guest's cart goes, a member's stays.
ClearCart(p) ==
    /\ At(p, "start", "order")
    /\ SetGuest(job[p].owner, Empty)
    /\ Done(p)
    /\ UNCHANGED database

-----------------------------------------------------------------------------
TtlExpires(c) ==
    /\ ttl[c]
    /\ SetGuest(c, Empty)
    /\ UNCHANGED <<database, requests>>

Crash(p) ==
    /\ Crashes
    /\ pc[p] # "idle"
    /\ Done(p)
    /\ UNCHANGED <<redis, database>>

Next ==
    \/ \E p \in Proc :
          \/ Begin(p) \/ HIncrBy(p) \/ HExists(p) \/ HSet(p) \/ Expire(p) \/ HDel(p)
          \/ UpdateRow(p) \/ DeleteRow(p) \/ NotFound(p)
          \/ FindRow(p) \/ Reload(p) \/ WriteRow(p) \/ InsertRow(p) \/ DuplicateRow(p)
          \/ HGetAll(p) \/ NextEntry(p) \/ DelKey(p) \/ MergeEnd(p)
          \/ ClearCart(p) \/ Crash(p)
    \/ \E c \in CartId : TtlExpires(c)

Spec == Init /\ [][Next]_vars

-----------------------------------------------------------------------------
(* Properties.                                                              *)

Quantities == [Option -> 0 .. MaxUnits]
Labels == {"idle", "start", "expire", "hset", "save", "update", "insert", "loop", "upsert", "end"}

\* A merge at work on an entry.
MergeJobs == [kind : {"merge"}, owner : User, cart : CartId, option : Option]

TypeOK ==
    /\ guest \in [CartId -> Quantities]
    /\ ttl \in [CartId -> BOOLEAN]
    /\ member \in [User -> Quantities]
    /\ rowId \in [User -> [Option -> Nat]]
    /\ \A u \in User, i \in Option : rowId[u][i] = 0 <=> member[u][i] = 0
    /\ pc \in [Proc -> Labels]
    /\ job \in [Proc -> Jobs \cup {NoJob} \cup MergeJobs]
    /\ entries \in [Proc -> Quantities] /\ rest \in [Proc -> Quantities]
    /\ seen \in [Proc -> [id : Nat, quantity : 0 .. MaxUnits]]
    /\ contested \subseteq Proc

(* A guest's cart that outlives the request that wrote it has an expiry: the  *)
(* write and the EXPIRE are two commands, and whatever other requests do in   *)
(* between - empty the cart, fill it again, merge it - the one still pending  *)
(* restores it (addItem 74-75, updateItem 103-104).  Only the death of that   *)
(* request before its EXPIRE leaves the cart without one.                     *)
HasExpiry(c) ==
    guest[c] = Empty \/ ttl[c] \/ \E p \in Proc : pc[p] = "expire" /\ job[p].owner = c

KeepsExpiry ==
    \A c \in CartId :
        \/ HasExpiry(c) => HasExpiry(c)'
        \/ \E p \in Proc : Crash(p) /\ pc[p] = "expire" /\ job[p].owner = c

TtlFollows == [][KeepsExpiry]_vars

(* README.md:46 promises a cart a time to live of 14 days: a cart no request  *)
(* is at work on expires some day.                                            *)
IdleCartsExpire ==
    (\A p \in Proc : pc[p] = "idle") =>
        \A c \in CartId : guest[c] = Empty \/ ttl[c]

\* A step of a login that meets no other request changes the guest's cart only when
\* the member's holds as much.
DeletesWhatIsSaved ==
    \A p \in Proc \ contested :
        job[p].kind = "merge" /\ pc'[p] # pc[p] /\ guest'[job[p].cart] # guest[job[p].cart]
            => \A i \in Option : member[job[p].owner][i] >= guest[job[p].cart][i]

(* A login that dies half way, at any entry, and is tried again loses nothing: *)
(* the guest's key is deleted only when the member's cart holds at least what  *)
(* it held (mergeGuestCartIntoUser saves every entry first, 151-159).  A login *)
(* that meets another request on one of its carts may lose units.              *)
LoginLosesNothing == [][DeletesWhatIsSaved]_vars

-----------------------------------------------------------------------------
(* A merge takes effect when it deletes the guest's key.  Until then what it   *)
(* has saved still counts as the guest's, and so does what it read, should the *)
(* key expire meanwhile - unless it is contested.                              *)
Merging(p) == job[p].kind = "merge" /\ pc[p] \notin {"start", "end"} /\ p \notin contested

GuestUnits(c) ==
    IF \E p \in Proc : Merging(p) /\ job[p].cart = c
    THEN entries[CHOOSE p \in Proc : Merging(p) /\ job[p].cart = c]
    ELSE guest[c]

MemberUnits(u) ==
    IF \E p \in Proc : Merging(p) /\ job[p].owner = u
    THEN LET p == CHOOSE q \in Proc : Merging(q) /\ job[q].owner = u
         IN  [i \in Option |-> member[u][i] - (entries[p][i] - rest[p][i])]
    ELSE member[u]

Pending(p) ==
    IF ~Waiting(p) THEN NoJob
    ELSE IF job[p].kind = "merge" THEN [job[p] EXCEPT !.option = None] ELSE job[p]

Carts == [o \in CartId \cup User |-> IF o \in CartId THEN GuestUnits(o) ELSE MemberUnits(o)]
Asked == [p \in Proc |-> Pending(p)]
Disputed == {p \in contested : Waiting(p)}

Promise == INSTANCE ShopperCart WITH units <- Carts, request <- Asked, disputed <- Disputed

(* A request that meets no other one on its carts leaves them as if it had     *)
(* taken effect at once and exactly once, whatever is going on in other carts  *)
(* and whenever the key of the guest's cart expires: in particular a login     *)
(* adds every unit of the guest's cart to the member's, and one that dies half *)
(* way has added some entries whole (53-183).  Requests that do meet may do    *)
(* anything to the carts they meet on, and to no others.                       *)
CartSpec == Promise!Spec
=============================================================================
