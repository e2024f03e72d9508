----------------------------- MODULE CartProofs -----------------------------
(***************************************************************************)
(* Theorems about carts, for any number of carts, members, options and       *)
(* quantities, and for any number of requests at a time.                      *)
(***************************************************************************)
EXTENDS Cart, Integers, FiniteSetTheorems, TLAPS

-----------------------------------------------------------------------------
(* What a request has found at each of its steps.                           *)

\* A request in the middle of upsertDbItem; what it read may be out of date.
Upserts(p) ==
    LET j == job[p] IN
    /\ \/ j \in Jobs /\ j.kind = "add" /\ j.owner \in User
       \/ j \in MergeJobs /\ rest[p][j.option] > 0
    /\ seen[p].quantity + Units(p) <= MaxUnits

JobFits(p) ==
    LET j == job[p] IN
    /\ pc[p] = "idle" => j = NoJob /\ p \notin contested
    /\ pc[p] = "start" => j \in Jobs
    /\ pc[p] = "hset" => j \in Jobs /\ j.kind = "update" /\ j.owner \in CartId
    /\ pc[p] = "expire" => j \in Jobs /\ j.kind \in {"add", "update"} /\ j.owner \in CartId
    /\ pc[p] \in {"save", "update", "insert"} => Upserts(p)
    /\ pc[p] = "update" => seen[p].id # 0
    /\ pc[p] = "upsert" => j \in MergeJobs /\ rest[p][j.option] > 0
    /\ pc[p] \in {"loop", "end"} => j \in Jobs /\ j.kind = "merge"

CartInv == TypeOK /\ \A p \in Proc : JobFits(p)

LEMMA CartConstants ==
    /\ MaxUnits \in Nat /\ Quantity \subseteq 1 .. MaxUnits
    /\ CartId \cap User = {} /\ None \notin Option
    /\ Empty \in Quantities /\ \A i \in Option : Empty[i] = 0
    /\ NoRow \in [id : Nat, quantity : 0 .. MaxUnits]
  BY CartAssumption DEF Empty, NoRow, Quantities

LEMMA JobIs ==
    ASSUME NEW j \in Jobs
    PROVE  /\ j.kind \in {"add", "update", "remove", "merge", "order"}
           /\ j.kind \in {"add", "update", "remove"} =>
                j.owner \in CartId \cup User /\ j.option \in Option
           /\ j.kind \in {"add", "update"} => j.quantity \in 1 .. MaxUnits
           /\ j.kind = "merge" => j.owner \in User /\ j.cart \in CartId /\ j.option = None
           /\ j.kind = "order" => j.owner \in CartId
           /\ j # NoJob
  BY CartConstants DEF Jobs, NoJob

LEMMA MergeJobIs ==
    ASSUME NEW j \in MergeJobs
    PROVE  /\ j.kind = "merge" /\ j.owner \in User /\ j.cart \in CartId /\ j.option \in Option
           /\ j # NoJob
           /\ [j EXCEPT !.option = None] \in Jobs /\ [j EXCEPT !.option = None].kind = "merge"
  BY DEF MergeJobs, Jobs, NoJob

\* Finitely many identifiers are taken.
LEMMA FreshIdIs == ASSUME TypeOK PROVE FreshId \in Nat \ {0}
<1> DEFINE cells == User \X Option
           f     == [x \in cells |-> rowId[x[1]][x[2]]]
           ids   == {rowId[u][i] : u \in User, i \in Option}
           g     == [p \in Proc |-> seen[p].id]
           kept  == {seen[p].id : p \in Proc}
           taken == ids \cup kept
           n     == Cardinality(taken)
<1>1. IsFiniteSet(cells) /\ IsFiniteSet(Proc)
  BY CartAssumption, FS_Product
<1>2. f \in Surjection(cells, ids)
  <2>1. ASSUME NEW u \in User, NEW i \in Option
        PROVE  <<u, i>> \in cells /\ f[<<u, i>>] = rowId[u][i] /\ rowId[u][i] \in ids
    OBVIOUS
  <2>2. \A x \in cells : \E u \in User, i \in Option : x = <<u, i>>
    OBVIOUS
  <2>3. \A t \in ids : \E u \in User, i \in Option : t = rowId[u][i]
    OBVIOUS
  <2>4. f = [x \in cells |-> f[x]]
    OBVIOUS
  <2> HIDE DEF cells, f, ids
  <2>5. \A x \in cells : f[x] \in ids
    BY <2>1, <2>2
  <2>6. f \in [cells -> ids]
    BY <2>4, <2>5
  <2>7. \A t \in ids : \E x \in cells : f[x] = t
    <3> SUFFICES ASSUME NEW t \in ids PROVE \E x \in cells : f[x] = t
      OBVIOUS
    <3>1. PICK u \in User, i \in Option : t = rowId[u][i]
      BY <2>3
    <3>2. <<u, i>> \in cells /\ f[<<u, i>>] = rowId[u][i]
      BY <2>1
    <3> QED
      BY <3>1, <3>2, Zenon
  <2> QED
    BY <2>6, <2>7 DEF Surjection
<1>3. g \in Surjection(Proc, kept)
  BY DEF Surjection
<1> HIDE DEF cells, f, g, ids, kept
<1>4. IsFiniteSet(ids) /\ IsFiniteSet(kept)
  BY <1>1, <1>2, <1>3, FS_Surjection
<1>5. IsFiniteSet(taken) /\ n \in Nat
  BY <1>4, FS_Union, FS_CardinalityType
<1> HIDE DEF taken, n
<1>6. \E k \in 1 .. n + 1 : k \notin taken
  <2> SUFFICES ASSUME 1 .. n + 1 \subseteq taken PROVE FALSE
    OBVIOUS
  <2>1. Cardinality(1 .. n + 1) = n + 1
    BY <1>5, FS_Interval
  <2>2. Cardinality(1 .. n + 1) <= n
    BY <1>5, FS_Subset DEF n
  <2> QED
    BY <1>5, <2>1, <2>2
<1>7. FreshId = CHOOSE k \in 1 .. n + 1 : k \notin taken
  BY DEF FreshId, n, taken, ids, kept
<1> QED
  BY <1>5, <1>6, <1>7

-----------------------------------------------------------------------------
(* The parts of a step.                                                     *)

LEMMA GuestSet ==
    ASSUME TypeOK, NEW c \in CartId, NEW fields \in Quantities, SetGuest(c, fields)
    PROVE  /\ guest' \in [CartId -> Quantities] /\ ttl' \in [CartId -> BOOLEAN]
           /\ guest'[c] = fields /\ ttl'[c] = (ttl[c] /\ fields # Empty)
           /\ \A d \in CartId \ {c} : guest'[d] = guest[d] /\ ttl'[d] = ttl[d]
<1>1. guest' \in [CartId -> Quantities] /\ guest'[c] = fields
      /\ \A d \in CartId \ {c} : guest'[d] = guest[d]
  BY DEF SetGuest, TypeOK
<1>2. ttl' \in [CartId -> BOOLEAN] /\ ttl'[c] = (ttl[c] /\ fields # Empty)
      /\ \A d \in CartId \ {c} : ttl'[d] = ttl[d]
  <2> DEFINE b == ttl[c] /\ fields # Empty
  <2>1. ttl' = [ttl EXCEPT ![c] = b]
    BY DEF SetGuest
  <2>2. b \in BOOLEAN /\ ttl \in [CartId -> BOOLEAN]
    BY DEF TypeOK
  <2> HIDE DEF b
  <2>3. ttl' \in [CartId -> BOOLEAN] /\ ttl'[c] = b
        /\ \A d \in CartId \ {c} : ttl'[d] = ttl[d]
    BY <2>1, <2>2
  <2> QED
    BY <2>3, Zenon DEF b
<1> QED
  BY <1>1, <1>2, Zenon

LEMMA MemberSet ==
    ASSUME TypeOK, NEW u \in User, NEW i \in Option, NEW id \in Nat, NEW n \in 0 .. MaxUnits,
           id = 0 <=> n = 0, SetMember(u, i, id, n)
    PROVE  /\ member' \in [User -> Quantities] /\ rowId' \in [User -> [Option -> Nat]]
           /\ \A v \in User, k \in Option : rowId'[v][k] = 0 <=> member'[v][k] = 0
           /\ member'[u][i] = n /\ rowId'[u][i] = id
           /\ \A v \in User, k \in Option :
                v # u \/ k # i => member'[v][k] = member[v][k] /\ rowId'[v][k] = rowId[v][k]
<1>1. /\ member' = [member EXCEPT ![u] = [member[u] EXCEPT ![i] = n]]
      /\ rowId' = [rowId EXCEPT ![u] = [rowId[u] EXCEPT ![i] = id]]
  BY DEF SetMember
<1>2. /\ [member[u] EXCEPT ![i] = n] \in Quantities
      /\ [rowId[u] EXCEPT ![i] = id] \in [Option -> Nat]
  BY DEF TypeOK, Quantities
<1>3. member' \in [User -> Quantities] /\ rowId' \in [User -> [Option -> Nat]]
  BY <1>1, <1>2 DEF TypeOK
<1>4. /\ member'[u][i] = n /\ rowId'[u][i] = id
      /\ \A v \in User, k \in Option :
           v # u \/ k # i => member'[v][k] = member[v][k] /\ rowId'[v][k] = rowId[v][k]
  BY <1>1, <1>2 DEF TypeOK, Quantities
<1> QED
  BY <1>3, <1>4 DEF TypeOK

RequestTypes ==
    /\ pc \in [Proc -> Labels]
    /\ job \in [Proc -> Jobs \cup {NoJob} \cup MergeJobs]
    /\ entries \in [Proc -> Quantities] /\ rest \in [Proc -> Quantities]
    /\ seen \in [Proc -> [id : Nat, quantity : 0 .. MaxUnits]]
    /\ contested \subseteq Proc

RowTypes ==
    /\ guest \in [CartId -> Quantities] /\ ttl \in [CartId -> BOOLEAN]
    /\ member \in [User -> Quantities] /\ rowId \in [User -> [Option -> Nat]]
    /\ \A u \in User, i \in Option : rowId[u][i] = 0 <=> member[u][i] = 0

LEMMA TypesSplit == TypeOK <=> RowTypes /\ RequestTypes
  BY DEF TypeOK, RowTypes, RequestTypes

\* Only the request that takes a step moves.
Moves(p) ==
    \A q \in Proc \ {p} :
        /\ pc'[q] = pc[q] /\ job'[q] = job[q] /\ rest'[q] = rest[q] /\ seen'[q] = seen[q]
        /\ pc[q] = "idle" /\ q \in contested' => q \in contested

LEMMA DoneIs ==
    ASSUME RequestTypes, NEW p \in Proc, Done(p)
    PROVE  /\ RequestTypes' /\ Moves(p)
           /\ pc'[p] = "idle" /\ job'[p] = NoJob /\ entries'[p] = Empty /\ rest'[p] = Empty
           /\ seen'[p] = NoRow /\ p \notin contested' /\ JobFits(p)'
<1>1. /\ RequestTypes' /\ Moves(p) /\ pc'[p] = "idle" /\ job'[p] = NoJob
      /\ entries'[p] = Empty /\ rest'[p] = Empty /\ seen'[p] = NoRow /\ p \notin contested'
  BY CartConstants DEF RequestTypes, Done, GoTo, Labels, Moves
<1> QED
  BY <1>1 DEF JobFits

LEMMA GoToIs ==
    ASSUME RequestTypes, NEW p \in Proc, NEW label \in Labels, GoTo(p, label)
    PROVE  /\ pc' \in [Proc -> Labels] /\ pc'[p] = label
           /\ \A q \in Proc \ {p} : pc'[q] = pc[q]
  BY DEF RequestTypes, GoTo

LEMMA OthersFit ==
    ASSUME NEW p \in Proc, Moves(p), JobFits(p)', \A q \in Proc : JobFits(q)
    PROVE  \A q \in Proc : JobFits(q)'
<1> SUFFICES ASSUME NEW q \in Proc \ {p} PROVE JobFits(q)'
  OBVIOUS
<1>1. /\ pc'[q] = pc[q] /\ job'[q] = job[q] /\ rest'[q] = rest[q] /\ seen'[q] = seen[q]
      /\ pc[q] = "idle" /\ q \in contested' => q \in contested
  BY DEF Moves
<1> QED
  BY <1>1 DEF JobFits, Upserts, Units

\* After a save: the next entry of a merge, or the answer.
LEMMA SavedIs ==
    ASSUME CartInv, NEW p \in Proc, Upserts(p), Saved(p)
    PROVE  RequestTypes' /\ Moves(p) /\ JobFits(p)'
<1>0. RequestTypes
  BY TypesSplit DEF CartInv
<1>1. CASE Done(p)
  BY <1>0, <1>1, DoneIs
<1>2. CASE job[p].kind = "merge" /\ ~Done(p)
  <2> DEFINE i == job[p].option
             j == [job[p] EXCEPT !.option = None]
  <2>1. /\ rest' = [rest EXCEPT ![p] = [rest[p] EXCEPT ![i] = 0]]
        /\ job' = [job EXCEPT ![p] = j]
        /\ seen' = [seen EXCEPT ![p] = NoRow]
        /\ GoTo(p, "loop") /\ entries' = entries /\ contested' = contested
    BY <1>2 DEF Saved
  <2>2. job[p] \in MergeJobs
    BY <1>2, JobIs DEF Upserts
  <2>3. j \in Jobs /\ j.kind = "merge"
    BY <2>2, MergeJobIs
  <2> HIDE DEF j
  <2>4. /\ pc' \in [Proc -> Labels] /\ pc'[p] = "loop"
        /\ \A q \in Proc \ {p} : pc'[q] = pc[q]
    BY <1>0, <2>1, GoToIs DEF Labels
  <2>5. job' \in [Proc -> Jobs \cup {NoJob} \cup MergeJobs] /\ job'[p] = j
        /\ \A q \in Proc \ {p} : job'[q] = job[q]
    <3> DEFINE all == Jobs \cup {NoJob} \cup MergeJobs
    <3>1. job \in [Proc -> all] /\ j \in all /\ job' = [job EXCEPT ![p] = j]
      BY <1>0, <2>1, <2>3 DEF RequestTypes
    <3> HIDE DEF all
    <3>2. job' \in [Proc -> all] /\ job'[p] = j /\ \A q \in Proc \ {p} : job'[q] = job[q]
      BY <3>1
    <3> QED
      BY <3>2, Zenon DEF all
  <2>6. [rest[p] EXCEPT ![i] = 0] \in Quantities
    <3>1. rest[p] \in Quantities /\ 0 \in 0 .. MaxUnits
      BY <1>0, CartConstants DEF RequestTypes
    <3> HIDE DEF i
    <3> QED
      BY <3>1 DEF Quantities
  <2>7. /\ rest' \in [Proc -> Quantities] /\ seen' \in [Proc -> [id : Nat, quantity : 0 .. MaxUnits]]
        /\ \A q \in Proc \ {p} : rest'[q] = rest[q] /\ seen'[q] = seen[q]
    BY <1>0, <2>1, <2>6, CartConstants DEF RequestTypes
  <2>8. RequestTypes' /\ Moves(p)
    BY <1>0, <2>1, <2>4, <2>5, <2>7 DEF RequestTypes, Moves
  <2>9. JobFits(p)'
    BY <2>3, <2>4, <2>5 DEF JobFits
  <2> QED
    BY <2>8, <2>9
<1> QED
  BY <1>1, <1>2 DEF Saved

\* A step that changes neither the job of the request nor what it read.
LEMMA LabelMoves ==
    ASSUME CartInv, NEW p \in Proc, NEW label \in Labels, GoTo(p, label),
           UNCHANGED <<job, entries, rest, seen, contested>>
    PROVE  RequestTypes' /\ Moves(p) /\ pc'[p] = label
<1>0. RequestTypes
  BY TypesSplit DEF CartInv
<1>1. /\ pc' \in [Proc -> Labels] /\ pc'[p] = label
      /\ \A q \in Proc \ {p} : pc'[q] = pc[q]
  BY <1>0, GoToIs
<1> QED
  BY <1>0, <1>1 DEF RequestTypes, Moves

\* What upsertDbItem adds is at least one unit.
LEMMA UpsertIs ==
    ASSUME CartInv, NEW p \in Proc, Upserts(p)
    PROVE  /\ job[p].owner \in User /\ job[p].option \in Option
           /\ Units(p) \in 1 .. MaxUnits /\ seen[p].id \in Nat /\ seen[p].quantity \in Nat
           /\ NewQuantity(p) \in 1 .. MaxUnits
           /\ job[p].kind \in {"add", "merge"}
<1>1. /\ seen[p].id \in Nat /\ seen[p].quantity \in Nat /\ MaxUnits \in Nat
      /\ rest[p] \in Quantities
  BY CartConstants DEF CartInv, TypeOK
<1>2. /\ job[p].owner \in User /\ job[p].option \in Option /\ Units(p) \in 1 .. MaxUnits
      /\ job[p].kind \in {"add", "merge"}
  <2>1. CASE job[p] \in Jobs /\ job[p].kind = "add" /\ job[p].owner \in User
    BY <2>1, JobIs DEF Units
  <2>2. CASE job[p] \in MergeJobs /\ rest[p][job[p].option] > 0
    <3>1. /\ job[p].kind = "merge" /\ job[p].owner \in User /\ job[p].option \in Option
      BY <2>2, MergeJobIs
    <3>2. rest[p][job[p].option] \in 1 .. MaxUnits
      BY <1>1, <2>2, <3>1 DEF Quantities
    <3> QED
      BY <3>1, <3>2 DEF Units
  <2> QED
    BY <2>1, <2>2 DEF Upserts
<1>3. seen[p].quantity + Units(p) <= MaxUnits
  BY DEF Upserts
<1>4. NewQuantity(p) \in 1 .. MaxUnits
  BY <1>1, <1>2, <1>3 DEF NewQuantity
<1> QED
  BY <1>1, <1>2, <1>4

-----------------------------------------------------------------------------
(* The types.                                                               *)

LEMMA InitCart == ASSUME Init PROVE CartInv
<1>1. TypeOK
  BY CartConstants DEF Init, TypeOK, Labels, Quantities, Empty
<1>2. \A p \in Proc : JobFits(p)
  BY DEF Init, JobFits
<1> QED
  BY <1>1, <1>2 DEF CartInv

\* Steps of guests.
LEMMA GuestSteps ==
    ASSUME CartInv, NEW p \in Proc,
           \/ HIncrBy(p) \/ HExists(p) \/ HSet(p) \/ Expire(p) \/ HDel(p) \/ ClearCart(p)
    PROVE  RowTypes' /\ RequestTypes' /\ Moves(p) /\ JobFits(p)'
<1>0. TypeOK /\ RowTypes /\ RequestTypes /\ JobFits(p)
  BY TypesSplit DEF CartInv
<1>1. CASE HIncrBy(p)
  <2> DEFINE c == job[p].owner
             i == job[p].option
             fields == [guest[c] EXCEPT ![i] = @ + job[p].quantity]
  <2>1. /\ c \in CartId /\ i \in Option /\ job[p].quantity \in 1 .. MaxUnits
        /\ job[p] \in Jobs /\ job[p].kind = "add"
    BY <1>0, <1>1, JobIs DEF HIncrBy, At, ForGuest, JobFits
  <2>2. fields \in Quantities
    <3>1. guest[c] \in Quantities /\ guest[c][i] \in Nat
      BY <1>0, <2>1 DEF TypeOK, Quantities
    <3>2. guest[c][i] + job[p].quantity \in 0 .. MaxUnits
      BY <1>1, <2>1, <3>1, CartConstants DEF HIncrBy
    <3> QED
      BY <3>1, <3>2 DEF Quantities
  <2>3. /\ SetGuest(c, fields) /\ GoTo(p, "expire") /\ UNCHANGED <<database, job, entries, rest, seen, contested>>
    BY <1>1 DEF HIncrBy
  <2> HIDE DEF fields
  <2>4. guest' \in [CartId -> Quantities] /\ ttl' \in [CartId -> BOOLEAN]
    BY <1>0, <2>1, <2>2, <2>3, GuestSet
  <2>5. RequestTypes' /\ Moves(p) /\ pc'[p] = "expire" /\ job'[p] = job[p]
    BY <2>3, LabelMoves DEF Labels
  <2> QED
    BY <1>0, <2>1, <2>3, <2>4, <2>5 DEF RowTypes, database, JobFits
<1>2. CASE HExists(p)
  <2>1. /\ GoTo(p, "hset") /\ UNCHANGED <<redis, database, job, entries, rest, seen, contested>>
        /\ job[p] \in Jobs /\ job[p].kind = "update" /\ job[p].owner \in CartId
    BY <1>0, <1>2 DEF HExists, At, ForGuest, JobFits
  <2>2. RequestTypes' /\ Moves(p) /\ pc'[p] = "hset" /\ job'[p] = job[p]
    BY <2>1, LabelMoves DEF Labels
  <2> QED
    BY <1>0, <2>1, <2>2 DEF RowTypes, redis, database, JobFits
<1>3. CASE HSet(p)
  <2> DEFINE c == job[p].owner
             i == job[p].option
             fields == [guest[c] EXCEPT ![i] = job[p].quantity]
  <2>1. /\ c \in CartId /\ i \in Option /\ job[p].quantity \in 1 .. MaxUnits
        /\ job[p] \in Jobs /\ job[p].kind = "update"
    BY <1>0, <1>3, JobIs DEF HSet, At, JobFits
  <2>2. fields \in Quantities
    <3>1. guest[c] \in Quantities /\ job[p].quantity \in 0 .. MaxUnits
      BY <1>0, <2>1 DEF TypeOK
    <3> QED
      BY <3>1 DEF Quantities
  <2>3. /\ SetGuest(c, fields) /\ GoTo(p, "expire") /\ UNCHANGED <<database, job, entries, rest, seen, contested>>
    BY <1>3 DEF HSet
  <2> HIDE DEF fields
  <2>4. guest' \in [CartId -> Quantities] /\ ttl' \in [CartId -> BOOLEAN]
    BY <1>0, <2>1, <2>2, <2>3, GuestSet
  <2>5. RequestTypes' /\ Moves(p) /\ pc'[p] = "expire" /\ job'[p] = job[p]
    BY <2>3, LabelMoves DEF Labels
  <2> QED
    BY <1>0, <2>1, <2>3, <2>4, <2>5 DEF RowTypes, database, JobFits
<1>4. CASE Expire(p)
  <2>1. Done(p) /\ UNCHANGED <<guest, database>>
    BY <1>4 DEF Expire
  <2>2. ttl' \in [CartId -> BOOLEAN]
    <3> DEFINE b == guest[job[p].owner] # Empty
    <3>1. ttl' = [ttl EXCEPT ![job[p].owner] = b] /\ b \in BOOLEAN
      BY <1>4 DEF Expire, ExpireKey
    <3> HIDE DEF b
    <3> QED
      BY <1>0, <3>1 DEF TypeOK
  <2> QED
    BY <1>0, <2>1, <2>2, DoneIs DEF RowTypes, database
<1>5. CASE HDel(p)
  <2> DEFINE c == job[p].owner
             fields == [guest[c] EXCEPT ![job[p].option] = 0]
  <2>1. c \in CartId /\ fields \in Quantities
    <3>1. c \in CartId /\ guest[c] \in Quantities
      BY <1>0, <1>5 DEF HDel, ForGuest, TypeOK
    <3> QED
      BY <3>1, CartConstants DEF Quantities
  <2>2. SetGuest(c, fields) /\ Done(p) /\ UNCHANGED database
    BY <1>5 DEF HDel
  <2> HIDE DEF fields
  <2> QED
    BY <1>0, <2>1, <2>2, GuestSet, DoneIs DEF RowTypes, database
<1>6. CASE ClearCart(p)
  <2>1. /\ job[p].owner \in CartId
        /\ SetGuest(job[p].owner, Empty) /\ Done(p) /\ UNCHANGED database
    BY <1>0, <1>6, JobIs DEF ClearCart, At, JobFits
  <2> QED
    BY <1>0, <2>1, CartConstants, GuestSet, DoneIs DEF RowTypes, database
<1> QED
  BY <1>1, <1>2, <1>3, <1>4, <1>5, <1>6

\* Steps of members, up to the search of a row.
LEMMA MemberSteps ==
    ASSUME CartInv, NEW p \in Proc,
           \/ UpdateRow(p) \/ DeleteRow(p) \/ NotFound(p) \/ FindRow(p)
    PROVE  RowTypes' /\ RequestTypes' /\ Moves(p) /\ JobFits(p)'
<1>0. TypeOK /\ RowTypes /\ RequestTypes /\ JobFits(p)
  BY TypesSplit DEF CartInv
<1>1. CASE UpdateRow(p)
  <2> DEFINE u == job[p].owner
             i == job[p].option
             n == job[p].quantity
  <2>1. /\ u \in User /\ i \in Option /\ n \in 1 .. MaxUnits /\ member[u][i] > 0
        /\ SetMember(u, i, rowId[u][i], n) /\ Done(p) /\ UNCHANGED redis
    BY <1>0, <1>1, JobIs DEF UpdateRow, At, ForMember, JobFits
  <2>2. n \in 0 .. MaxUnits /\ rowId[u][i] \in Nat /\ (rowId[u][i] = 0 <=> n = 0)
    BY <1>0, <2>1, CartConstants DEF TypeOK, Quantities
  <2> HIDE DEF u, i, n
  <2> QED
    BY <1>0, <2>1, <2>2, MemberSet, DoneIs DEF RowTypes, redis
<1>2. CASE DeleteRow(p)
  <2> DEFINE u == job[p].owner
             i == job[p].option
  <2>1. /\ u \in User /\ i \in Option
        /\ SetMember(u, i, 0, 0) /\ Done(p) /\ UNCHANGED redis
    BY <1>0, <1>2, JobIs DEF DeleteRow, At, ForMember, JobFits
  <2>2. 0 \in 0 .. MaxUnits
    BY CartConstants
  <2> HIDE DEF u, i
  <2> QED
    BY <1>0, <2>1, <2>2, MemberSet, DoneIs DEF RowTypes, redis
<1>3. CASE NotFound(p)
  BY <1>0, <1>3, DoneIs DEF NotFound, RowTypes, redis, database
<1>4. CASE FindRow(p)
  <2> DEFINE u == job[p].owner
             i == job[p].option
             r == [id |-> rowId[u][i], quantity |-> member[u][i]]
  <2>1. /\ u \in User /\ i \in Option /\ member[u][i] + Units(p) <= MaxUnits
        /\ \/ job[p] \in Jobs /\ job[p].kind = "add"
           \/ job[p] \in MergeJobs /\ rest[p][i] > 0
    BY <1>0, <1>4, JobIs, MergeJobIs DEF FindRow, At, ForMember, JobFits
  <2>2. /\ seen' = [seen EXCEPT ![p] = r] /\ GoTo(p, "save")
        /\ UNCHANGED <<redis, database, job, entries, rest, contested>>
    BY <1>4 DEF FindRow
  <2>3. r \in [id : Nat, quantity : 0 .. MaxUnits] /\ r.quantity = member[u][i]
    BY <1>0, <2>1 DEF TypeOK, Quantities
  <2> HIDE DEF r
  <2>4. /\ seen' \in [Proc -> [id : Nat, quantity : 0 .. MaxUnits]] /\ seen'[p] = r
        /\ \A q \in Proc \ {p} : seen'[q] = seen[q]
    BY <1>0, <2>2, <2>3 DEF RequestTypes
  <2>5. /\ pc' \in [Proc -> Labels] /\ pc'[p] = "save"
        /\ \A q \in Proc \ {p} : pc'[q] = pc[q]
    BY <1>0, <2>2, GoToIs DEF Labels
  <2>6. RequestTypes' /\ Moves(p) /\ RowTypes'
    BY <1>0, <2>2, <2>4, <2>5 DEF RequestTypes, Moves, RowTypes, redis, database
  <2>7. Upserts(p)'
    <3>1. Units(p)' = Units(p) /\ seen'[p].quantity = member[u][i] /\ job'[p] = job[p] /\ rest'[p] = rest[p]
      BY <2>2, <2>3, <2>4 DEF Units
    <3> QED
      BY <2>1, <3>1 DEF Upserts
  <2> QED
    BY <2>5, <2>6, <2>7 DEF JobFits
<1> QED
  BY <1>1, <1>2, <1>3, <1>4

\* Steps that save a row.
LEMMA SaveSteps ==
    ASSUME CartInv, NEW p \in Proc,
           \/ Reload(p) \/ WriteRow(p) \/ InsertRow(p) \/ DuplicateRow(p)
    PROVE  RowTypes' /\ RequestTypes' /\ Moves(p) /\ JobFits(p)'
<1>0. TypeOK /\ RowTypes /\ RequestTypes /\ JobFits(p)
  BY TypesSplit DEF CartInv
<1>1. Upserts(p)
  BY <1>0 DEF Reload, WriteRow, InsertRow, DuplicateRow, JobFits
<1> DEFINE u == job[p].owner
           i == job[p].option
           n == NewQuantity(p)
<1>2. u \in User /\ i \in Option /\ n \in 1 .. MaxUnits /\ seen[p].id \in Nat /\ n \in 0 .. MaxUnits /\ n # 0
  BY <1>1, UpsertIs, CartConstants
<1>3. CASE Reload(p)
  <2>1. UNCHANGED <<redis, database>>
    BY <1>3 DEF Reload
  <2>2. \/ Saved(p)
        \/ /\ GoTo(p, "update") /\ UNCHANGED <<job, entries, rest, seen, contested>> /\ seen[p].id # 0
        \/ /\ GoTo(p, "insert") /\ UNCHANGED <<job, entries, rest, seen, contested>>
    BY <1>3 DEF Reload
  <2>3. RequestTypes' /\ Moves(p) /\ JobFits(p)'
    <3>1. CASE Saved(p)
      BY <1>1, <3>1, SavedIs
    <3>2. CASE GoTo(p, "update") /\ UNCHANGED <<job, entries, rest, seen, contested>> /\ seen[p].id # 0
      <4>1. RequestTypes' /\ Moves(p) /\ pc'[p] = "update"
        BY <3>2, LabelMoves DEF Labels
      <4> QED
        BY <1>1, <3>2, <4>1 DEF JobFits, Upserts, Units
    <3>3. CASE GoTo(p, "insert") /\ UNCHANGED <<job, entries, rest, seen, contested>>
      <4>1. RequestTypes' /\ Moves(p) /\ pc'[p] = "insert"
        BY <3>3, LabelMoves DEF Labels
      <4> QED
        BY <1>1, <3>3, <4>1 DEF JobFits, Upserts, Units
    <3> QED
      BY <2>2, <3>1, <3>2, <3>3
  <2> QED
    BY <1>0, <2>1, <2>3 DEF RowTypes, redis, database
<1>4. CASE WriteRow(p)
  <2>1. /\ Saved(p) /\ UNCHANGED redis /\ seen[p].id # 0
        /\ \/ rowId[u][i] = seen[p].id /\ SetMember(u, i, rowId[u][i], n)
           \/ UNCHANGED database
    BY <1>0, <1>4 DEF WriteRow, JobFits
  <2>2. RequestTypes' /\ Moves(p) /\ JobFits(p)'
    BY <1>1, <2>1, SavedIs
  <2>3. CASE rowId[u][i] = seen[p].id /\ SetMember(u, i, rowId[u][i], n)
    <3>1. rowId[u][i] \in Nat /\ (rowId[u][i] = 0 <=> n = 0)
      BY <1>2, <2>1, <2>3
    <3> HIDE DEF u, i, n
    <3> QED
      BY <1>0, <1>2, <2>1, <2>2, <2>3, <3>1, MemberSet DEF RowTypes, redis
  <2>4. CASE UNCHANGED database
    BY <1>0, <2>1, <2>2, <2>4 DEF RowTypes, redis, database
  <2> QED
    BY <2>1, <2>3, <2>4
<1>5. CASE InsertRow(p)
  <2> DEFINE id == IF seen[p].id # 0 THEN seen[p].id ELSE FreshId
  <2>1. Saved(p) /\ UNCHANGED redis /\ SetMember(u, i, id, n)
    BY <1>5 DEF InsertRow
  <2>2. RequestTypes' /\ Moves(p) /\ JobFits(p)'
    BY <1>1, <2>1, SavedIs
  <2>3. id \in Nat /\ (id = 0 <=> n = 0)
    BY <1>0, <1>2, FreshIdIs
  <2> HIDE DEF u, i, n, id
  <2> QED
    BY <1>0, <1>2, <2>1, <2>2, <2>3, MemberSet DEF RowTypes, redis
<1>6. CASE DuplicateRow(p)
  BY <1>0, <1>6, DoneIs DEF DuplicateRow, RowTypes, redis, database
<1> QED
  BY <1>3, <1>4, <1>5, <1>6

\* Steps of a merge, but for those of upsertDbItem.
LEMMA MergeSteps ==
    ASSUME CartInv, NEW p \in Proc,
           \/ HGetAll(p) \/ NextEntry(p) \/ DelKey(p) \/ MergeEnd(p)
    PROVE  RowTypes' /\ RequestTypes' /\ Moves(p) /\ JobFits(p)'
<1>0. TypeOK /\ RowTypes /\ RequestTypes /\ JobFits(p)
  BY TypesSplit DEF CartInv
<1>1. CASE HGetAll(p)
  <2> DEFINE g     == guest[job[p].cart]
             e     == IF p \in contested THEN Empty ELSE g
             label == IF g = Empty THEN "end" ELSE "loop"
  <2>1. /\ job[p] \in Jobs /\ job[p].kind = "merge" /\ job[p].cart \in CartId
        /\ UNCHANGED <<redis, database, job, seen, contested>>
        /\ entries' = [entries EXCEPT ![p] = e] /\ rest' = [rest EXCEPT ![p] = g]
        /\ GoTo(p, label)
    <3>1. job[p] \in Jobs /\ job[p].kind = "merge"
      BY <1>0, <1>1 DEF HGetAll, At, JobFits
    <3> QED
      BY <1>1, <3>1, JobIs DEF HGetAll
  <2>2. g \in Quantities /\ e \in Quantities /\ label \in Labels /\ label \in {"loop", "end"}
    BY <1>0, <2>1, CartConstants DEF TypeOK, Labels
  <2> HIDE DEF g, e, label
  <2>3. /\ pc' \in [Proc -> Labels] /\ pc'[p] = label
        /\ \A q \in Proc \ {p} : pc'[q] = pc[q]
    BY <1>0, <2>1, <2>2, GoToIs
  <2>4. /\ entries' \in [Proc -> Quantities] /\ rest' \in [Proc -> Quantities]
        /\ \A q \in Proc \ {p} : rest'[q] = rest[q]
    BY <1>0, <2>1, <2>2 DEF RequestTypes
  <2>5. RequestTypes' /\ Moves(p) /\ RowTypes'
    BY <1>0, <2>1, <2>3, <2>4 DEF RequestTypes, Moves, RowTypes, redis, database
  <2> QED
    BY <2>1, <2>2, <2>3, <2>5 DEF JobFits
<1>2. CASE NextEntry(p)
  <2>1. PICK i \in Option : rest[p][i] > 0 /\ job' = [job EXCEPT ![p] = [job[p] EXCEPT !.option = i]]
    BY <1>2 DEF NextEntry
  <2> DEFINE j   == [job[p] EXCEPT !.option = i]
             all == Jobs \cup {NoJob} \cup MergeJobs
  <2>2. job[p] \in Jobs /\ job[p].kind = "merge"
    BY <1>0, <1>2 DEF NextEntry, At, JobFits
  <2>3. j \in MergeJobs /\ j.option = i
    BY <2>2, CartConstants DEF Jobs, MergeJobs
  <2>4. j \in all /\ job \in [Proc -> all]
    BY <1>0, <2>3 DEF RequestTypes
  <2> HIDE DEF j, all
  <2>5. job' \in [Proc -> all] /\ job'[p] = j /\ \A q \in Proc \ {p} : job'[q] = job[q]
    BY <2>1, <2>4 DEF j
  <2>6. job' \in [Proc -> Jobs \cup {NoJob} \cup MergeJobs]
    BY <2>5 DEF all
  <2>7. GoTo(p, "upsert") /\ UNCHANGED <<redis, database, entries, rest, seen, contested>>
    BY <1>2 DEF NextEntry
  <2>8. /\ pc' \in [Proc -> Labels] /\ pc'[p] = "upsert"
        /\ \A q \in Proc \ {p} : pc'[q] = pc[q]
    BY <1>0, <2>7, GoToIs DEF Labels
  <2>9. RequestTypes' /\ Moves(p) /\ RowTypes'
    BY <1>0, <2>5, <2>6, <2>7, <2>8 DEF RequestTypes, Moves, RowTypes, redis, database
  <2> QED
    BY <2>1, <2>3, <2>5, <2>7, <2>8, <2>9 DEF JobFits
<1>3. CASE DelKey(p)
  <2>1. job[p] \in Jobs /\ job[p].kind = "merge" /\ job[p].cart \in CartId
    <3>1. job[p] \in Jobs /\ job[p].kind = "merge"
      BY <1>0, <1>3 DEF DelKey, At, JobFits
    <3> QED
      BY <3>1, JobIs
  <2>2. /\ SetGuest(job[p].cart, Empty) /\ GoTo(p, "end")
        /\ UNCHANGED <<database, job, entries, rest, seen, contested>>
    BY <1>3 DEF DelKey
  <2>3. guest' \in [CartId -> Quantities] /\ ttl' \in [CartId -> BOOLEAN]
    BY <1>0, <2>1, <2>2, CartConstants, GuestSet
  <2>4. RequestTypes' /\ Moves(p) /\ pc'[p] = "end" /\ job'[p] = job[p]
    BY <2>2, LabelMoves DEF Labels
  <2> QED
    BY <1>0, <2>1, <2>2, <2>3, <2>4 DEF RowTypes, database, JobFits
<1>4. CASE MergeEnd(p)
  BY <1>0, <1>4, DoneIs DEF MergeEnd, RowTypes, redis, database
<1> QED
  BY <1>1, <1>2, <1>3, <1>4

LEMMA OtherSteps ==
    ASSUME CartInv, NEW p \in Proc, Begin(p) \/ Crash(p)
    PROVE  RowTypes' /\ RequestTypes' /\ Moves(p) /\ JobFits(p)'
<1>0. TypeOK /\ RowTypes /\ RequestTypes /\ JobFits(p)
  BY TypesSplit DEF CartInv
<1>1. CASE Begin(p)
  <2>1. PICK j \in Jobs : job' = [job EXCEPT ![p] = j] /\ contested' = contested \cup Meeting(p, j)
    BY <1>1 DEF Begin
  <2> DEFINE all == Jobs \cup {NoJob} \cup MergeJobs
  <2>2. j \in all /\ job \in [Proc -> all]
    BY <1>0 DEF RequestTypes
  <2> HIDE DEF all
  <2>3. job' \in [Proc -> all] /\ job'[p] = j /\ \A q \in Proc \ {p} : job'[q] = job[q]
    BY <2>1, <2>2
  <2>4. job' \in [Proc -> Jobs \cup {NoJob} \cup MergeJobs]
    BY <2>3 DEF all
  <2>5. GoTo(p, "start") /\ UNCHANGED <<redis, database, rest, seen>>
    BY <1>1 DEF Begin
  <2>6. /\ pc' \in [Proc -> Labels] /\ pc'[p] = "start"
        /\ \A q \in Proc \ {p} : pc'[q] = pc[q]
    BY <1>0, <2>5, GoToIs DEF Labels
  <2>7. Meeting(p, j) \subseteq Proc /\ \A q \in Meeting(p, j) \ {p} : pc[q] # "idle"
    BY DEF Meeting, Rivals, Waiting
  <2>8. entries' \in [Proc -> Quantities]
    <3>1. entries' = [q \in Proc |-> IF q \in contested' THEN Empty ELSE entries[q]]
      BY <1>1 DEF Begin
    <3> QED
      BY <1>0, <3>1, CartConstants DEF RequestTypes
  <2>9. contested' \subseteq Proc /\ \A q \in Proc \ {p} : pc[q] = "idle" /\ q \in contested' => q \in contested
    BY <1>0, <2>1, <2>7 DEF RequestTypes
  <2>10. RequestTypes' /\ Moves(p) /\ RowTypes'
    BY <1>0, <2>3, <2>4, <2>5, <2>6, <2>8, <2>9 DEF RequestTypes, Moves, RowTypes, redis, database
  <2> QED
    BY <2>3, <2>6, <2>10 DEF JobFits
<1>2. CASE Crash(p)
  BY <1>0, <1>2, DoneIs DEF Crash, RowTypes, redis, database
<1> QED
  BY <1>1, <1>2

\* The key of a guest's cart expires.
LEMMA TtlStep ==
    ASSUME CartInv, NEW c \in CartId, TtlExpires(c)
    PROVE  CartInv'
<1>1. RowTypes /\ RequestTypes /\ TypeOK
  BY TypesSplit DEF CartInv
<1>2. SetGuest(c, Empty) /\ UNCHANGED <<database, requests>>
  BY DEF TtlExpires
<1>3. guest' \in [CartId -> Quantities] /\ ttl' \in [CartId -> BOOLEAN]
  BY <1>1, <1>2, CartConstants, GuestSet
<1>4. RowTypes' /\ RequestTypes'
  BY <1>1, <1>2, <1>3 DEF RowTypes, RequestTypes, database, requests
<1>5. \A q \in Proc : JobFits(q)'
  BY <1>2 DEF CartInv, JobFits, Upserts, Units, requests
<1> QED
  BY <1>4, <1>5 DEF CartInv, TypeOK, RowTypes, RequestTypes

RequestStep(p) ==
    \/ Begin(p) \/ HIncrBy(p) \/ HExists(p) \/ HSet(p) \/ Expire(p) \/ HDel(p)
    \/ UpdateRow(p) \/ DeleteRow(p) \/ NotFound(p)
    \/ FindRow(p) \/ Reload(p) \/ WriteRow(p) \/ InsertRow(p) \/ DuplicateRow(p)
    \/ HGetAll(p) \/ NextEntry(p) \/ DelKey(p) \/ MergeEnd(p)
    \/ ClearCart(p) \/ Crash(p)

LEMMA StepIs ==
    ASSUME CartInv, NEW p \in Proc, RequestStep(p)
    PROVE  CartInv' /\ Moves(p)
<1>1. RowTypes' /\ RequestTypes' /\ Moves(p) /\ JobFits(p)'
  BY GuestSteps, MemberSteps, SaveSteps, MergeSteps, OtherSteps DEF RequestStep
<1> QED
  BY <1>1, OthersFit DEF CartInv, TypeOK, RowTypes, RequestTypes

LEMMA CartNext == ASSUME CartInv, [Next]_vars PROVE CartInv'
<1>1. CASE UNCHANGED vars
  BY <1>1 DEF CartInv, TypeOK, JobFits, Upserts, Units, vars, redis, database, requests
<1>2. CASE \E p \in Proc : RequestStep(p)
  BY <1>2, StepIs
<1>3. CASE \E c \in CartId : TtlExpires(c)
  BY <1>3, TtlStep
<1> QED
  BY <1>1, <1>2, <1>3 DEF Next, RequestStep

(* The carts and the requests at work on them always have their types: no      *)
(* quantity leaves its range, and a row of cart_items has an id exactly while  *)
(* it holds units, whatever two requests of one member do between the search   *)
(* of a row and its save (upsertDbItem, cart.service.ts 167-182).              *)
THEOREM CartTypes == Spec => []TypeOK
<1>1. Spec => []CartInv
  BY InitCart, CartNext, PTL DEF Spec
<1>2. CartInv => TypeOK
  BY DEF CartInv
<1> QED
  BY <1>1, <1>2, PTL

-----------------------------------------------------------------------------
(* The time to live of a guest's cart.                                      *)

\* What a request that is not about to send EXPIRE leaves to the others.
LEMMA OthersRestore ==
    ASSUME NEW p \in Proc, Moves(p), pc[p] # "expire", NEW c \in CartId, HasExpiry(c),
           guest'[c] = Empty \/ (guest[c] # Empty /\ ttl'[c] = ttl[c])
    PROVE  HasExpiry(c)'
<1>1. CASE guest'[c] = Empty
  BY <1>1 DEF HasExpiry
<1>2. CASE guest[c] # Empty /\ ttl[c] /\ ttl'[c] = ttl[c]
  BY <1>2, Zenon DEF HasExpiry
<1>3. CASE \E q \in Proc : pc[q] = "expire" /\ job[q].owner = c
  <2>1. PICK q \in Proc : pc[q] = "expire" /\ job[q].owner = c
    BY <1>3
  <2>2. pc'[q] = "expire" /\ job'[q].owner = c
    BY <2>1 DEF Moves
  <2> QED
    BY <2>2 DEF HasExpiry
<1> QED
  BY <1>1, <1>2, <1>3, Zenon DEF HasExpiry

LEMMA StepRestores ==
    ASSUME CartInv, NEW p \in Proc, RequestStep(p), NEW c \in CartId, HasExpiry(c),
           ~(Crash(p) /\ pc[p] = "expire" /\ job[p].owner = c)
    PROVE  HasExpiry(c)'
<1>0. TypeOK /\ JobFits(p) /\ Moves(p)
  BY StepIs DEF CartInv
<1>1. CASE HIncrBy(p) \/ HSet(p)
  <2>1. PICK fields \in Quantities :
             SetGuest(job[p].owner, fields) /\ GoTo(p, "expire") /\ UNCHANGED job
    <3>1. job[p].owner \in CartId /\ guest' \in [CartId -> Quantities]
      BY <1>0, <1>1, StepIs DEF HIncrBy, HSet, At, ForGuest, JobFits, CartInv, TypeOK
    <3> DEFINE d == job[p].owner
    <3>2. PICK fields : SetGuest(d, fields) /\ GoTo(p, "expire") /\ UNCHANGED job
      BY <1>1 DEF HIncrBy, HSet
    <3>3. fields = guest'[d]
      BY <1>0, <3>1, <3>2 DEF SetGuest, TypeOK
    <3> QED
      BY <3>1, <3>2, <3>3
  <2>2. pc'[p] = "expire" /\ job'[p] = job[p] /\ job[p].owner \in CartId /\ pc[p] # "expire"
    BY <1>0, <1>1, <2>1 DEF GoTo, TypeOK, HIncrBy, HSet, At, ForGuest, JobFits
  <2>3. CASE c = job[p].owner
    BY <2>2, <2>3 DEF HasExpiry
  <2>4. CASE c # job[p].owner
    <3>1. guest'[c] = guest[c] /\ ttl'[c] = ttl[c]
      BY <1>0, <2>1, <2>2, <2>4, GuestSet
    <3> QED
      BY <1>0, <2>2, <3>1, OthersRestore DEF HasExpiry
  <2> QED
    BY <2>3, <2>4
<1>2. CASE Expire(p)
  <2>1. job[p].owner \in CartId /\ guest' = guest /\ ExpireKey(p)
    BY <1>0, <1>2 DEF Expire, JobFits
  <2>2. CASE c = job[p].owner
    <3> DEFINE b == guest[job[p].owner] # Empty
    <3>1. ttl' = [ttl EXCEPT ![c] = b] /\ ttl \in [CartId -> BOOLEAN] /\ b \in BOOLEAN
      BY <1>0, <2>1, <2>2 DEF ExpireKey, TypeOK
    <3> HIDE DEF b
    <3>2. ttl'[c] = b
      BY <3>1
    <3> QED
      BY <2>1, <2>2, <3>2, Zenon DEF b, HasExpiry
  <2>3. CASE c # job[p].owner
    <3>1. ttl'[c] = ttl[c]
      <4> DEFINE b == guest[job[p].owner] # Empty
      <4>1. ttl' = [ttl EXCEPT ![job[p].owner] = b] /\ ttl \in [CartId -> BOOLEAN]
        BY <1>0, <2>1 DEF ExpireKey, TypeOK
      <4> HIDE DEF b
      <4> QED
        BY <2>3, <4>1
    <3>2. CASE guest[c] = Empty \/ ttl[c]
      BY <2>1, <3>1, <3>2, Zenon DEF HasExpiry
    <3>3. CASE \E q \in Proc : pc[q] = "expire" /\ job[q].owner = c
      <4>1. PICK q \in Proc : pc[q] = "expire" /\ job[q].owner = c
        BY <3>3
      <4>2. pc'[q] = "expire" /\ job'[q].owner = c
        BY <1>0, <2>3, <4>1 DEF Moves
      <4> QED
        BY <4>2 DEF HasExpiry
    <3> QED
      BY <3>2, <3>3 DEF HasExpiry
  <2> QED
    BY <2>2, <2>3
<1>3. CASE HDel(p) \/ ClearCart(p) \/ DelKey(p)
  <2>1. PICK d \in CartId, fields \in Quantities :
             SetGuest(d, fields) /\ (fields # Empty => guest[d] # Empty)
    <3>1. CASE HDel(p)
      <4> DEFINE d      == job[p].owner
                 i      == job[p].option
                 fields == [guest[d] EXCEPT ![i] = 0]
      <4>1. d \in CartId /\ i \in Option /\ guest[d] \in Quantities /\ guest[d][i] > 0 /\ SetGuest(d, fields)
        BY <1>0, <3>1, JobIs DEF HDel, At, ForGuest, JobFits, TypeOK
      <4>2. fields \in Quantities
        BY <4>1, CartConstants DEF Quantities
      <4>3. guest[d] # Empty
        BY <4>1, CartConstants
      <4> QED
        BY <4>1, <4>2, <4>3
    <3>2. CASE ClearCart(p) \/ DelKey(p)
      <4>1. PICK d \in CartId : SetGuest(d, Empty)
        BY <1>0, <3>2, JobIs DEF ClearCart, DelKey, At, JobFits
      <4> QED
        BY <4>1, CartConstants
    <3> QED
      BY <1>3, <3>1, <3>2
  <2>2. pc[p] # "expire"
    BY <1>3 DEF HDel, ClearCart, DelKey, At
  <2>3. CASE c # d
    BY <1>0, <2>1, <2>2, <2>3, GuestSet, OthersRestore DEF HasExpiry
  <2>4. CASE c = d /\ fields = Empty
    BY <1>0, <2>1, <2>4, GuestSet DEF HasExpiry
  <2>5. CASE c = d /\ fields # Empty
    <3>1. guest[c] # Empty /\ ttl'[c] = (ttl[c] /\ fields # Empty)
      BY <1>0, <2>1, <2>5, GuestSet
    <3>2. ttl'[c] = ttl[c]
      <4>1. ttl[c] \in BOOLEAN
        BY <1>0 DEF TypeOK
      <4> QED
        BY <2>5, <3>1, <4>1, Zenon
    <3> QED
      BY <1>0, <2>2, <3>1, <3>2, OthersRestore
  <2> QED
    BY <2>3, <2>4, <2>5
<1>4. CASE UNCHANGED redis /\ pc[p] # "expire"
  BY <1>0, <1>4, OthersRestore DEF redis, HasExpiry
<1>5. CASE Crash(p) /\ pc[p] = "expire"
  <2>1. job[p].owner # c /\ UNCHANGED redis
    BY <1>5 DEF Crash
  <2>2. CASE guest[c] = Empty \/ ttl[c]
    BY <2>1, <2>2, Zenon DEF redis, HasExpiry
  <2>3. CASE \E q \in Proc : pc[q] = "expire" /\ job[q].owner = c
    <3>1. PICK q \in Proc : pc[q] = "expire" /\ job[q].owner = c
      BY <2>3
    <3>2. pc'[q] = "expire" /\ job'[q].owner = c
      BY <1>0, <2>1, <3>1 DEF Moves
    <3> QED
      BY <3>2 DEF HasExpiry
  <2> QED
    BY <2>2, <2>3 DEF HasExpiry
<1>6. \/ HIncrBy(p) \/ HSet(p) \/ Expire(p) \/ HDel(p) \/ ClearCart(p) \/ DelKey(p)
      \/ Crash(p) /\ pc[p] = "expire"
      \/ UNCHANGED redis /\ pc[p] # "expire"
  BY DEF RequestStep, Begin, HExists, UpdateRow, DeleteRow, NotFound, FindRow, Reload, WriteRow,
         InsertRow, DuplicateRow, HGetAll, NextEntry, MergeEnd, Crash, At
<1> QED
  BY <1>1, <1>2, <1>3, <1>4, <1>5, <1>6

(* A guest's cart that has an expiry, or a request about to send one, keeps it *)
(* through every step of any number of requests and of logins at once, but for *)
(* the death of that request: the commands of addItem (74-75) and updateItem   *)
(* (103-104) are two, and the second is never lost to another request that     *)
(* empties the cart between them and fills it again.                           *)
THEOREM CartsExpire == Spec => TtlFollows
<1>1. CartInv /\ [Next]_vars => [KeepsExpiry]_vars
  <2> SUFFICES ASSUME CartInv, Next, NEW c \in CartId, HasExpiry(c),
                      ~ \E p \in Proc : Crash(p) /\ pc[p] = "expire" /\ job[p].owner = c
               PROVE  HasExpiry(c)'
    BY Zenon DEF KeepsExpiry
  <2>1. CASE \E p \in Proc : RequestStep(p)
    BY <2>1, StepRestores
  <2>2. CASE \E d \in CartId : TtlExpires(d)
    <3>1. PICK d \in CartId : TtlExpires(d)
      BY <2>2
    <3>2. TypeOK /\ SetGuest(d, Empty) /\ UNCHANGED requests
      BY <3>1 DEF TtlExpires, CartInv
    <3>3. CASE c = d
      BY <3>2, <3>3, CartConstants, GuestSet DEF HasExpiry
    <3>4. CASE c # d
      <4>1. guest'[c] = guest[c] /\ ttl'[c] = ttl[c]
        BY <3>2, <3>4, CartConstants, GuestSet
      <4> QED
        BY <3>2, <4>1 DEF HasExpiry, requests
    <3> QED
      BY <3>3, <3>4
  <2> QED
    BY <2>1, <2>2 DEF Next, RequestStep
<1>2. Spec => []CartInv
  BY InitCart, CartNext, PTL DEF Spec
<1>3. Spec => [][KeepsExpiry]_vars
  BY <1>1, <1>2, PTL DEF Spec
<1> QED
  BY <1>3 DEF TtlFollows


-----------------------------------------------------------------------------
(* Requests that meet no other on their carts.  Each of them finds the carts  *)
(* as it read them, but for a guest's cart that expires under a merge: the    *)
(* entries are then all that is left of it, and the member's cart has those   *)
(* that were saved on top of what it had.                                     *)

Alone(p) ==
    LET u == job[p].owner
        i == job[p].option
        c == job[p].cart
    IN
    /\ pc[p] \in {"save", "update", "insert"} =>
         seen[p].id = rowId[u][i] /\ seen[p].quantity = member[u][i]
    /\ pc[p] = "insert" => seen[p].id = 0
    /\ Merging(p) =>
         /\ guest[c] \in {entries[p], Empty}
         /\ \A k \in Option :
              /\ rest[p][k] \in {0, entries[p][k]}
              /\ member[u][k] >= entries[p][k] - rest[p][k]

Apart(p) ==
    \A q \in Proc \ {p} :
        Waiting(p) /\ Waiting(q) => Touched(job[p]) \cap Touched(job[q]) = {}

LoneInv == CartInv /\ \A p \in Proc : p \notin contested => Alone(p) /\ Apart(p)

LEMMA MergingIs ==
    ASSUME CartInv, NEW p \in Proc
    PROVE  /\ Merging(p) => /\ job[p].kind = "merge" /\ job[p].cart \in CartId /\ job[p].owner \in User
                            /\ pc[p] \in {"loop", "upsert", "save", "update", "insert"}
                            /\ [job[p] EXCEPT !.option = None] \in Jobs
                            /\ p \notin contested /\ Waiting(p)
                            /\ Touched(job[p]) = {job[p].owner, job[p].cart}
           /\ pc[p] \in {"idle", "start", "expire", "hset", "end"} => ~Merging(p)
           /\ job[p].kind = "add" => ~Merging(p)
           /\ job[p].kind = "merge" /\ pc[p] \in {"loop", "upsert", "save", "update", "insert"}
              /\ p \notin contested => Merging(p)
<1>1. JobFits(p) /\ pc[p] \in Labels /\ job[p] \in Jobs \cup {NoJob} \cup MergeJobs
  BY DEF CartInv, TypeOK
<1>2. job[p] \in Jobs /\ job[p].kind = "merge" => [job[p] EXCEPT !.option = None] \in Jobs
  BY DEF Jobs
<1>3. NoJob.kind = "none"
  BY DEF NoJob
<1>4. ASSUME Merging(p)
      PROVE  pc[p] \in {"loop", "upsert", "save", "update", "insert"}
  BY <1>1, <1>3, <1>4 DEF Merging, JobFits, Labels
<1>5. ASSUME pc[p] \in {"idle", "start", "expire", "hset", "end"} PROVE ~Merging(p)
  BY <1>1, <1>3, <1>5 DEF Merging, JobFits
<1>6. ASSUME Merging(p)
      PROVE  /\ job[p].cart \in CartId /\ job[p].owner \in User
             /\ [job[p] EXCEPT !.option = None] \in Jobs
  <2>1. CASE job[p] \in Jobs
    BY <1>2, <1>6, <2>1, JobIs DEF Merging
  <2>2. CASE job[p] \in MergeJobs
    BY <2>2, MergeJobIs
  <2> QED
    BY <1>1, <1>3, <1>6, <2>1, <2>2 DEF Merging
<1>7. ASSUME Merging(p)
      PROVE  job[p].kind = "merge" /\ p \notin contested /\ Waiting(p)
             /\ Touched(job[p]) = {job[p].owner, job[p].cart}
  BY <1>4, <1>7 DEF Merging, Waiting, Touched
<1> QED
  BY <1>4, <1>5, <1>6, <1>7 DEF Merging

\* Nothing is left to say of a request that is not in the middle of a save or a merge.
LEMMA AloneAgain ==
    ASSUME NEW p \in Proc, CartInv', pc'[p] \in {"idle", "start", "expire", "hset", "end"}
    PROVE  Alone(p)'
<1>1. JobFits(p)'
  BY DEF CartInv
<1>2. ~Merging(p)'
  BY <1>1 DEF Merging, JobFits, NoJob
<1> QED
  BY <1>2 DEF Alone

\* What a request writes is in its own carts, and nothing once it has taken effect.
LEMMA WritesOwn ==
    ASSUME CartInv, NEW p \in Proc, RequestStep(p)
    PROVE  /\ \A c \in CartId : c \notin Touched(job[p]) => guest'[c] = guest[c]
           /\ \A u \in User : u \notin Touched(job[p]) => member'[u] = member[u] /\ rowId'[u] = rowId[u]
           /\ ~Waiting(p) => guest' = guest /\ UNCHANGED database
<1>0. TypeOK /\ JobFits(p)
  BY DEF CartInv
<1>1. CASE HIncrBy(p) \/ HSet(p) \/ HDel(p) \/ ClearCart(p) \/ DelKey(p)
  <2>1. PICK c, fields : /\ c \in CartId => c \in Touched(job[p])
                         /\ SetGuest(c, fields) /\ UNCHANGED database /\ Waiting(p)
    <3>1. CASE DelKey(p)
      BY <3>1 DEF DelKey, At, Touched, Waiting
    <3>2. CASE HIncrBy(p) \/ HSet(p) \/ HDel(p) \/ ClearCart(p)
      <4>1. PICK fields : SetGuest(job[p].owner, fields) /\ UNCHANGED database
        BY <3>2 DEF HIncrBy, HSet, HDel, ClearCart
      <4>2. job[p].owner \in Touched(job[p]) /\ Waiting(p)
        BY <3>2 DEF HIncrBy, HSet, HDel, ClearCart, At, Touched, Waiting
      <4> QED
        BY <4>1, <4>2
    <3> QED
      BY <1>1, <3>1, <3>2
  <2>2. guest' = [guest EXCEPT ![c] = fields] /\ UNCHANGED <<member, rowId>>
    BY <2>1 DEF SetGuest, database
  <2> QED
    BY <1>0, <2>1, <2>2 DEF TypeOK
<1>2. CASE UpdateRow(p) \/ DeleteRow(p) \/ WriteRow(p) \/ InsertRow(p)
  <2>1. job[p].owner \in Touched(job[p]) /\ Waiting(p) /\ UNCHANGED redis
    <3>1. job[p].kind \in {"add", "update", "remove", "merge"}
      BY <1>0, <1>2, UpsertIs DEF UpdateRow, DeleteRow, WriteRow, InsertRow, At, JobFits
    <3> QED
      BY <1>2, <3>1 DEF UpdateRow, DeleteRow, WriteRow, InsertRow, At, Waiting, Touched
  <2>2. UNCHANGED database \/ \E i, id, n : SetMember(job[p].owner, i, id, n)
    BY <1>2 DEF UpdateRow, DeleteRow, WriteRow, InsertRow
  <2>3. CASE UNCHANGED database
    BY <2>1, <2>3 DEF redis, database
  <2>4. CASE \E i, id, n : SetMember(job[p].owner, i, id, n)
    <3>1. PICK i, id, n : SetMember(job[p].owner, i, id, n)
      BY <2>4
    <3> DEFINE o == job[p].owner
    <3>2. /\ member' = [member EXCEPT ![o] = [member[o] EXCEPT ![i] = n]]
          /\ rowId' = [rowId EXCEPT ![o] = [rowId[o] EXCEPT ![i] = id]]
      BY <3>1 DEF SetMember
    <3> HIDE DEF o
    <3>3. \A u \in User : u # o => member'[u] = member[u] /\ rowId'[u] = rowId[u]
      BY <1>0, <3>2 DEF TypeOK
    <3> QED
      BY <2>1, <3>3 DEF o, redis
  <2> QED
    BY <2>2, <2>3, <2>4
<1>3. CASE UNCHANGED <<guest, database>>
  BY <1>3 DEF database
<1> QED
  BY <1>1, <1>2, <1>3 DEF RequestStep, Begin, HExists, Expire, NotFound, FindRow, Reload,
       DuplicateRow, HGetAll, NextEntry, MergeEnd, Crash, redis

\* What a request that is being served does to the others: nothing.
LEMMA ServesItself ==
    ASSUME CartInv, NEW p \in Proc, RequestStep(p), ~Begin(p)
    PROVE  /\ Waiting(p)' => Waiting(p)
           /\ Touched(job'[p]) \subseteq Touched(job[p])
           /\ \A q \in Proc \ {p} : entries'[q] = entries[q] /\ (q \in contested' <=> q \in contested)
           /\ p \in contested' => p \in contested
           /\ p \in contested /\ p \notin contested' => pc'[p] = "idle"
<1>0. TypeOK /\ JobFits(p) /\ Moves(p) /\ CartInv'
  BY StepIs DEF CartInv
<1>1. CASE Done(p)
  <2>1. pc'[p] = "idle" /\ job'[p] = NoJob /\ contested' = contested \ {p}
        /\ entries' = [entries EXCEPT ![p] = Empty]
    BY <1>0, <1>1 DEF Done, GoTo, TypeOK
  <2> QED
    BY <1>0, <2>1 DEF Waiting, Touched, NoJob, TypeOK
<1>2. CASE ~Done(p)
  <2>1. /\ pc[p] \notin {"idle", "expire", "end"}
        /\ contested' = contested
        /\ \A q \in Proc \ {p} : entries'[q] = entries[q]
    <3>1. CASE Saved(p) /\ pc[p] \in {"save", "update", "insert"}
      BY <1>2, <3>1 DEF Saved
    <3>2. CASE HGetAll(p)
      <4>1. entries' = [entries EXCEPT ![p] = entries'[p]] /\ contested' = contested /\ pc[p] = "start"
        <5> DEFINE e == IF p \in contested THEN Empty ELSE guest[job[p].cart]
        <5>1. entries' = [entries EXCEPT ![p] = e]
          BY <3>2 DEF HGetAll
        <5> HIDE DEF e
        <5>2. entries'[p] = e
          BY <1>0, <5>1 DEF TypeOK
        <5> QED
          BY <3>2, <5>1, <5>2 DEF HGetAll, At
      <4> QED
        BY <1>0, <4>1 DEF TypeOK
    <3>3. CASE /\ UNCHANGED <<entries, contested>> /\ pc[p] \notin {"idle", "expire", "end"}
      BY <3>3
    <3> QED
      BY <1>2, <3>1, <3>2, <3>3 DEF RequestStep, HIncrBy, HExists, HSet, Expire, HDel, UpdateRow,
           DeleteRow, NotFound, FindRow, Reload, WriteRow, InsertRow, DuplicateRow, NextEntry, DelKey,
           MergeEnd, ClearCart, Crash, At
  <2>2. Touched(job'[p]) = Touched(job[p])
    <3>1. CASE job' = job
      BY <3>1
    <3>2. CASE NextEntry(p)
      <4>1. PICK i \in Option : job' = [job EXCEPT ![p] = [job[p] EXCEPT !.option = i]]
        BY <3>2 DEF NextEntry
      <4>2. job'[p] = [job[p] EXCEPT !.option = i] /\ job[p] \in Jobs
        BY <1>0, <3>2, <4>1 DEF TypeOK, NextEntry, At, JobFits
      <4>3. job[p].kind = "merge"
        BY <3>2 DEF NextEntry, At
      <4> QED
        BY <4>2, <4>3 DEF Touched, Jobs
    <3>3. CASE Saved(p) /\ pc[p] \in {"save", "update", "insert"}
      <4>1. job' = [job EXCEPT ![p] = [job[p] EXCEPT !.option = None]] /\ job[p].kind = "merge"
        BY <1>2, <3>3 DEF Saved
      <4>2. job'[p] = [job[p] EXCEPT !.option = None] /\ job[p] \in MergeJobs
        BY <1>0, <3>3, <4>1, JobIs DEF TypeOK, JobFits, Upserts
      <4> QED
        BY <4>1, <4>2 DEF Touched, MergeJobs
    <3> QED
      BY <1>2, <3>1, <3>2, <3>3 DEF RequestStep, HIncrBy, HExists, HSet, Expire, HDel, UpdateRow,
           DeleteRow, NotFound, FindRow, Reload, WriteRow, InsertRow, DuplicateRow, HGetAll, DelKey,
           MergeEnd, ClearCart, Crash
  <2> QED
    BY <2>1, <2>2 DEF Waiting
<1> QED
  BY <1>1, <1>2

\* A save that finds the row as the search left it.
LEMMA WriteIs ==
    ASSUME CartInv, NEW p \in Proc, Alone(p), WriteRow(p) \/ InsertRow(p)
    PROVE  /\ Upserts(p) /\ Saved(p) /\ UNCHANGED redis
           /\ member' \in [User -> Quantities]
           /\ member'[job[p].owner][job[p].option] = member[job[p].owner][job[p].option] + Units(p)
           /\ \A v \in User, k \in Option :
                v # job[p].owner \/ k # job[p].option => member'[v][k] = member[v][k]
<1> DEFINE u == job[p].owner
           i == job[p].option
           n == NewQuantity(p)
<1>1. JobFits(p) /\ TypeOK /\ Upserts(p) /\ Saved(p) /\ UNCHANGED redis
  BY DEF CartInv, JobFits, WriteRow, InsertRow
<1>2. /\ u \in User /\ i \in Option /\ n \in 0 .. MaxUnits /\ n # 0
      /\ n = member[u][i] + Units(p)
  BY <1>1, UpsertIs, CartConstants DEF Alone, WriteRow, InsertRow, NewQuantity
<1>3. PICK id \in Nat \ {0} : SetMember(u, i, id, n)
  <2>1. CASE WriteRow(p)
    <3>1. rowId[u][i] = seen[p].id /\ seen[p].id # 0 /\ rowId[u][i] \in Nat
      BY <1>1, <1>2, <2>1, UpsertIs DEF Alone, WriteRow, JobFits
    <3> QED
      BY <2>1, <3>1 DEF WriteRow
  <2>2. CASE InsertRow(p)
    <3> DEFINE id == IF seen[p].id # 0 THEN seen[p].id ELSE FreshId
    <3>1. id \in Nat \ {0}
      BY <1>1, UpsertIs, FreshIdIs
    <3>2. SetMember(u, i, id, n)
      BY <2>2 DEF InsertRow
    <3> HIDE DEF id, u, i, n
    <3> QED
      BY <3>1, <3>2
  <2> QED
    BY <2>1, <2>2
<1> HIDE DEF u, i, n
<1>4. id = 0 <=> n = 0
  BY <1>2, <1>3
<1>5. /\ member' \in [User -> Quantities] /\ member'[u][i] = n
      /\ \A v \in User, k \in Option : v # u \/ k # i => member'[v][k] = member[v][k]
  BY <1>1, <1>2, <1>3, <1>4, MemberSet
<1> QED
  BY <1>1, <1>2, <1>5 DEF u, i

\* The row is there to be updated exactly if the search found it.
LEMMA ReloadIs ==
    ASSUME CartInv, NEW p \in Proc, Alone(p), Reload(p)
    PROVE  /\ UNCHANGED <<redis, database, job, entries, rest, seen, contested>>
           /\ pc[p] = "save" /\ pc'[p] \in {"update", "insert"}
           /\ pc'[p] = "insert" => seen[p].id = 0
<1>1. JobFits(p) /\ Upserts(p) /\ TypeOK
  BY DEF CartInv, JobFits, Reload
<1>2. member[job[p].owner][job[p].option] # NewQuantity(p)
  BY <1>1, UpsertIs DEF Alone, Reload, NewQuantity
<1>3. seen[p].id = rowId[job[p].owner][job[p].option] /\ pc[p] = "save"
  BY DEF Alone, Reload
<1>4. /\ UNCHANGED <<redis, database, job, entries, rest, seen, contested>>
      /\ GoTo(p, "update") \/ (GoTo(p, "insert") /\ seen[p].id = 0)
  BY <1>2, <1>3 DEF Reload
<1> QED
  BY <1>1, <1>3, <1>4 DEF GoTo, TypeOK

LEMMA AloneSteps ==
    ASSUME NEW p \in Proc, CartInv, CartInv', p \notin contested, Alone(p), RequestStep(p)
    PROVE  Alone(p)'
<1>0. TypeOK /\ JobFits(p)
  BY DEF CartInv
<1>1. CASE \/ Begin(p) \/ HIncrBy(p) \/ HExists(p) \/ HSet(p) \/ Expire(p) \/ HDel(p)
           \/ UpdateRow(p) \/ DeleteRow(p) \/ NotFound(p) \/ DuplicateRow(p)
           \/ DelKey(p) \/ MergeEnd(p) \/ ClearCart(p) \/ Crash(p)
  <2>1. Done(p) \/ \E label \in {"start", "expire", "hset", "end"} : GoTo(p, label)
    BY <1>1 DEF Begin, HIncrBy, HExists, HSet, Expire, HDel, UpdateRow, DeleteRow, NotFound,
                DuplicateRow, DelKey, MergeEnd, ClearCart, Crash
  <2>2. pc'[p] \in {"idle", "start", "expire", "hset", "end"}
    BY <1>0, <2>1 DEF Done, GoTo, TypeOK
  <2> QED
    BY <2>2, AloneAgain
<1>2. CASE FindRow(p)
  <2>1. /\ pc'[p] = "save" /\ UNCHANGED <<redis, database, job, entries, rest, contested>>
        /\ seen'[p].id = rowId[job[p].owner][job[p].option]
        /\ seen'[p].quantity = member[job[p].owner][job[p].option]
    BY <1>0, <1>2 DEF FindRow, GoTo, TypeOK
  <2>2. Merging(p)' => Merging(p)
    BY <1>2, <2>1 DEF Merging, FindRow, At
  <2> QED
    BY <2>1, <2>2 DEF Alone, redis, database
<1>3. CASE Reload(p)
  <2>1. /\ UNCHANGED <<redis, database, job, entries, rest, seen, contested>>
        /\ pc[p] = "save" /\ pc'[p] \in {"update", "insert"}
        /\ pc'[p] = "insert" => seen[p].id = 0
    BY <1>3, ReloadIs
  <2>2. Merging(p)' => Merging(p)
    BY <2>1 DEF Merging
  <2> QED
    BY <2>1, <2>2 DEF Alone, redis, database
<1>4. CASE WriteRow(p) \/ InsertRow(p)
  <2> DEFINE u == job[p].owner
             i == job[p].option
  <2>1. /\ Upserts(p) /\ Saved(p) /\ UNCHANGED redis
        /\ member'[u][i] = member[u][i] + Units(p)
        /\ \A k \in Option : k # i => member'[u][k] = member[u][k]
    <3>1. /\ Upserts(p) /\ Saved(p) /\ UNCHANGED redis
          /\ member'[u][i] = member[u][i] + Units(p)
          /\ \A v \in User, k \in Option : v # u \/ k # i => member'[v][k] = member[v][k]
      BY <1>4, WriteIs
    <3>2. u \in User
      BY <3>1, UpsertIs
    <3> QED
      BY <3>1, <3>2
  <2>2. CASE Done(p)
    BY <1>0, <2>2, AloneAgain DEF Done, GoTo, TypeOK
  <2>3. CASE job[p].kind = "merge" /\ ~Done(p)
    <3>1. /\ rest' = [rest EXCEPT ![p] = [rest[p] EXCEPT ![i] = 0]]
          /\ job' = [job EXCEPT ![p] = [job[p] EXCEPT !.option = None]]
          /\ pc' = [pc EXCEPT ![p] = "loop"] /\ entries' = entries /\ contested' = contested
      BY <2>1, <2>3 DEF Saved, GoTo
    <3>2. pc'[p] = "loop" /\ job'[p] = [job[p] EXCEPT !.option = None]
      BY <1>0, <3>1 DEF TypeOK
    <3>3. job[p] \in MergeJobs /\ i \in Option /\ u \in User /\ rest[p][i] > 0 /\ Units(p) = rest[p][i]
      BY <2>1, <2>3, JobIs, MergeJobIs DEF Upserts, Units
    <3>4. job'[p].owner = u /\ job'[p].cart = job[p].cart
      BY <3>2, <3>3 DEF MergeJobs
    <3>5. Merging(p) /\ guest' = guest
      <4>1. pc[p] \in {"update", "insert"}
        BY <1>4 DEF WriteRow, InsertRow
      <4> QED
        BY <2>1, <2>3, <4>1 DEF Merging, redis
    <3>6. ASSUME NEW k \in Option
          PROVE  /\ rest'[p][k] \in {0, entries[p][k]}
                 /\ member'[u][k] >= entries[p][k] - rest'[p][k]
      <4>1. /\ rest[p][k] \in {0, entries[p][k]} /\ member[u][k] >= entries[p][k] - rest[p][k]
            /\ rest[p] \in Quantities /\ entries[p] \in Quantities /\ member[u] \in Quantities
        BY <1>0, <3>3, <3>5 DEF Alone, TypeOK
      <4>2. /\ rest[p][k] \in Nat /\ entries[p][k] \in Nat /\ member[u][k] \in Nat
        BY <4>1 DEF Quantities
      <4>3. rest'[p] = [rest[p] EXCEPT ![i] = 0]
        BY <1>0, <3>1 DEF TypeOK
      <4>4. CASE k = i
        <5>1. rest'[p][k] = 0
          BY <4>1, <4>3, <4>4 DEF Quantities
        <5>2. rest[p][k] = entries[p][k] /\ member'[u][k] = member[u][k] + rest[p][k]
          BY <2>1, <3>3, <4>1, <4>4
        <5> QED
          BY <4>2, <5>1, <5>2
      <4>5. CASE k # i
        <5>1. rest'[p][k] = rest[p][k] /\ member'[u][k] = member[u][k]
          BY <2>1, <4>1, <4>3, <4>5 DEF Quantities
        <5> QED
          BY <4>1, <5>1
      <4> QED
        BY <4>4, <4>5
    <3>7. guest[job[p].cart] \in {entries[p], Empty}
      BY <3>5 DEF Alone
    <3> QED
      BY <3>1, <3>2, <3>4, <3>5, <3>6, <3>7 DEF Alone
  <2> QED
    BY <2>1, <2>2, <2>3 DEF Saved
<1>5. CASE HGetAll(p)
  <2> DEFINE g == guest[job[p].cart]
  <2>1. /\ UNCHANGED <<redis, database, job, seen, contested>> /\ entries'[p] = g /\ rest'[p] = g
        /\ pc'[p] \in {"end", "loop"} /\ job[p] \in Jobs /\ job[p].kind = "merge"
    BY <1>0, <1>5 DEF HGetAll, GoTo, TypeOK, At, JobFits
  <2>2. g \in Quantities /\ member[job[p].owner] \in Quantities
    BY <1>0, <2>1, JobIs DEF TypeOK
  <2>3. \A k \in Option : g[k] \in Nat /\ member[job[p].owner][k] \in Nat
    BY <2>2 DEF Quantities
  <2>4. \A k \in Option : member[job[p].owner][k] >= g[k] - g[k]
    BY <2>3
  <2> QED
    BY <2>1, <2>4 DEF Alone, redis, database
<1>6. CASE NextEntry(p)
  <2>1. PICK i \in Option : job' = [job EXCEPT ![p] = [job[p] EXCEPT !.option = i]]
    BY <1>6 DEF NextEntry
  <2>2. /\ job[p] \in Jobs /\ job[p].kind = "merge" /\ pc[p] = "loop"
        /\ pc'[p] = "upsert" /\ UNCHANGED <<redis, database, entries, rest, seen, contested>>
    BY <1>0, <1>6 DEF NextEntry, At, JobFits, GoTo, TypeOK
  <2>3. job'[p] = [job[p] EXCEPT !.option = i]
    BY <1>0, <2>1 DEF TypeOK
  <2>4. job'[p].owner = job[p].owner /\ job'[p].cart = job[p].cart
    BY <2>2, <2>3 DEF Jobs
  <2>5. Merging(p)
    BY <2>2 DEF Merging
  <2> QED
    BY <2>2, <2>4, <2>5 DEF Alone, redis, database
<1> QED
  BY <1>1, <1>2, <1>3, <1>4, <1>5, <1>6 DEF RequestStep

LEMMA AloneExpires ==
    ASSUME CartInv, NEW p \in Proc, Alone(p), NEW c \in CartId, TtlExpires(c)
    PROVE  Alone(p)'
<1>1. TypeOK /\ SetGuest(c, Empty) /\ UNCHANGED <<database, requests>>
  BY DEF TtlExpires, CartInv
<1>2. \A d \in CartId : guest'[d] \in {guest[d], Empty}
  BY <1>1, CartConstants, GuestSet
<1>3. Merging(p)' = Merging(p) /\ (Merging(p) => job[p].cart \in CartId)
  BY <1>1, MergingIs DEF Merging, requests
<1>4. ASSUME Merging(p) PROVE guest'[job[p].cart] \in {entries[p], Empty}
  BY <1>2, <1>3, <1>4 DEF Alone
<1> QED
  BY <1>1, <1>3, <1>4 DEF Alone, database, requests

\* A request that another one overtakes without meeting it.
LEMMA OthersStayAlone ==
    ASSUME CartInv, CartInv', NEW p \in Proc, NEW q \in Proc \ {p}, RequestStep(q),
           p \notin contested, p \notin contested', Alone(p), Apart(p)
    PROVE  Alone(p)' /\ Apart(p)'
<1>1. pc'[p] = pc[p] /\ job'[p] = job[p] /\ rest'[p] = rest[p] /\ seen'[p] = seen[p] /\ Moves(q)
  BY StepIs DEF Moves
<1>2. entries'[p] = entries[p]
  <2>1. CASE Begin(q)
    <3>1. entries' = [r \in Proc |-> IF r \in contested' THEN Empty ELSE entries[r]]
      BY <2>1 DEF Begin
    <3> QED
      BY <3>1
  <2> QED
    BY <2>1, ServesItself
<1>3. Waiting(p) => /\ \A c \in CartId \cap Touched(job[p]) : guest'[c] = guest[c]
                    /\ \A u \in User \cap Touched(job[p]) : member'[u] = member[u] /\ rowId'[u] = rowId[u]
  <2>1. CASE ~Waiting(q)
    BY <2>1, WritesOwn DEF database
  <2>2. CASE Waiting(q)
    BY <2>2, WritesOwn DEF Apart
  <2> QED
    BY <2>1, <2>2
<1>4. Alone(p)'
  <2>1. Merging(p)' <=> Merging(p)
    BY <1>1 DEF Merging
  <2>2. JobFits(p)
    BY DEF CartInv
  <2>3. ASSUME pc[p] \in {"save", "update", "insert"}
        PROVE  /\ member'[job[p].owner] = member[job[p].owner]
               /\ rowId'[job[p].owner] = rowId[job[p].owner]
    <3>1. job[p].owner \in User \cap Touched(job[p]) /\ Waiting(p)
      BY <2>2, <2>3, UpsertIs DEF JobFits, Touched, Waiting
    <3> QED
      BY <1>3, <3>1
  <2>4. ASSUME Merging(p)
        PROVE  member'[job[p].owner] = member[job[p].owner] /\ guest'[job[p].cart] = guest[job[p].cart]
    BY <1>3, <2>4, MergingIs
  <2> QED
    BY <1>1, <1>2, <2>1, <2>3, <2>4 DEF Alone
<1>5. Apart(p)'
  <2> SUFFICES ASSUME NEW r \in Proc \ {p}, Waiting(p)', Waiting(r)'
               PROVE  Touched(job'[p]) \cap Touched(job'[r]) = {}
    BY DEF Apart
  <2>1. Waiting(p)
    BY <1>1 DEF Waiting
  <2>2. CASE r # q
    <3>1. pc'[r] = pc[r] /\ job'[r] = job[r]
      BY <1>1, <2>2 DEF Moves
    <3> QED
      BY <1>1, <2>1, <3>1 DEF Apart, Waiting
  <2>3. CASE r = q /\ Begin(q)
    <3>1. PICK j \in Jobs : job' = [job EXCEPT ![q] = j] /\ contested' = contested \cup Meeting(q, j)
      BY <2>3 DEF Begin
    <3>2. job'[q] = j
      BY <3>1 DEF CartInv, TypeOK
    <3>3. p \notin Rivals(q, j)
      BY <3>1 DEF Meeting
    <3> QED
      BY <1>1, <2>1, <2>3, <3>2, <3>3 DEF Rivals
  <2>4. CASE r = q /\ ~Begin(q)
    BY <1>1, <2>1, <2>4, ServesItself DEF Apart
  <2> QED
    BY <2>2, <2>3, <2>4
<1> QED
  BY <1>4, <1>5

LEMMA StaysApart ==
    ASSUME CartInv, CartInv', NEW p \in Proc, RequestStep(p), p \notin contested', Apart(p) \/ p \in contested
    PROVE  Apart(p)'
<1> SUFFICES ASSUME NEW r \in Proc \ {p}, Waiting(p)', Waiting(r)'
             PROVE  Touched(job'[p]) \cap Touched(job'[r]) = {}
  BY DEF Apart
<1>1. pc'[r] = pc[r] /\ job'[r] = job[r] /\ Waiting(r)
  BY StepIs DEF Moves, Waiting
<1>2. CASE Begin(p)
  <2>1. PICK j \in Jobs : job' = [job EXCEPT ![p] = j] /\ contested' = contested \cup Meeting(p, j)
    BY <1>2 DEF Begin
  <2>2. job'[p] = j
    BY <2>1 DEF CartInv, TypeOK
  <2>3. Rivals(p, j) = {}
    BY <2>1 DEF Meeting
  <2> QED
    BY <1>1, <2>2, <2>3 DEF Rivals
<1>3. CASE ~Begin(p)
  <2>1. Waiting(p) /\ p \notin contested
    BY <1>3, ServesItself DEF Waiting
  <2> QED
    BY <1>1, <1>3, <2>1, ServesItself DEF Apart
<1> QED
  BY <1>2, <1>3

LEMMA LoneInit == Init => LoneInv
<1> SUFFICES ASSUME Init PROVE LoneInv
  OBVIOUS
<1>1. CartInv
  BY InitCart
<1>2. \A p \in Proc : pc[p] = "idle" /\ job[p] = NoJob
  BY DEF Init
<1> QED
  BY <1>1, <1>2 DEF LoneInv, Alone, Apart, Merging, Waiting, NoJob

LEMMA LoneNext == LoneInv /\ [Next]_vars => LoneInv'
<1> SUFFICES ASSUME LoneInv, [Next]_vars PROVE LoneInv'
  OBVIOUS
<1>1. CartInv /\ CartInv' /\ \A p \in Proc : p \notin contested => Alone(p) /\ Apart(p)
  BY CartNext DEF LoneInv
<1>2. SUFFICES ASSUME NEW p \in Proc, p \notin contested' PROVE Alone(p)' /\ Apart(p)'
  BY <1>1 DEF LoneInv
<1>3. CASE UNCHANGED vars
  BY <1>1, <1>2, <1>3 DEF Alone, Apart, Merging, Waiting, vars, redis, database, requests
<1>4. CASE \E q \in Proc : RequestStep(q)
  <2>1. PICK q \in Proc : RequestStep(q)
    BY <1>4
  <2>2. CASE q = p
    <3>1. Apart(p)'
      BY <1>1, <1>2, <2>1, <2>2, StaysApart
    <3>2. CASE p \notin contested
      BY <1>1, <2>1, <2>2, <3>1, <3>2, AloneSteps
    <3>3. CASE p \in contested
      <4>1. ~Begin(p)
        BY <1>1, <3>3 DEF Begin, CartInv, JobFits
      <4>2. pc'[p] = "idle"
        BY <1>1, <1>2, <2>1, <2>2, <3>3, <4>1, ServesItself
      <4> QED
        BY <1>1, <3>1, <4>2, AloneAgain
    <3> QED
      BY <3>2, <3>3
  <2>3. CASE q # p
    <3>1. p \notin contested
      <4>1. CASE Begin(q)
        BY <1>2, <4>1 DEF Begin
      <4> QED
        BY <1>1, <1>2, <2>1, <2>3, <4>1, ServesItself
    <3> QED
      BY <1>1, <1>2, <2>1, <2>3, <3>1, OthersStayAlone
  <2> QED
    BY <2>2, <2>3
<1>5. CASE \E c \in CartId : TtlExpires(c)
  <2>1. PICK c \in CartId : TtlExpires(c)
    BY <1>5
  <2>2. UNCHANGED requests
    BY <2>1 DEF TtlExpires
  <2>3. Alone(p) /\ Apart(p)
    BY <1>1, <1>2, <2>2 DEF requests
  <2>4. Alone(p)'
    BY <1>1, <2>1, <2>3, AloneExpires
  <2>5. Apart(p)'
    BY <2>2, <2>3 DEF Apart, Waiting, requests
  <2> QED
    BY <2>4, <2>5
<1> QED
  BY <1>3, <1>4, <1>5 DEF Next, RequestStep

(* A login that meets no other request on its two carts deletes the guest's    *)
(* cart only when the member's holds at least as much of every option, however *)
(* many requests are served in other carts, wherever an earlier login died and *)
(* whenever the guest's key expires (mergeGuestCartIntoUser, cart.service.ts   *)
(* 145-162).                                                                   *)
THEOREM LoginsLoseNothing == Spec => LoginLosesNothing
<1>1. LoneInv /\ [Next]_vars => [DeletesWhatIsSaved]_vars
  <2> SUFFICES ASSUME LoneInv, Next, NEW p \in Proc \ contested,
                      job[p].kind = "merge", pc'[p] # pc[p], guest'[job[p].cart] # guest[job[p].cart],
                      NEW i \in Option
               PROVE  member[job[p].owner][i] >= guest[job[p].cart][i]
    BY DEF vars, DeletesWhatIsSaved
  <2> DEFINE c == job[p].cart
             u == job[p].owner
  <2>1. p \in Proc /\ CartInv /\ TypeOK /\ JobFits(p) /\ Alone(p)
    BY DEF LoneInv, CartInv
  <2>2. RequestStep(p)
    <3>1. PICK q \in Proc : RequestStep(q)
      BY DEF Next, RequestStep, TtlExpires, requests
    <3>2. q = p
      BY <2>1, <3>1, StepIs DEF Moves
    <3> QED
      BY <3>1, <3>2
  <2>3. DelKey(p)
    <3>1. ~ UNCHANGED redis
      BY DEF redis
    <3>2. ~HSet(p) /\ ~Expire(p)
      BY <2>1 DEF HSet, Expire, At, JobFits
    <3> QED
      BY <2>2, <3>1, <3>2 DEF RequestStep, Begin, HIncrBy, HExists, HDel, ClearCart, UpdateRow, DeleteRow,
             NotFound, FindRow, Reload, WriteRow, InsertRow, DuplicateRow, HGetAll, NextEntry, MergeEnd,
             Crash, At
  <2>4. Merging(p) /\ rest[p] = Empty
    BY <2>3 DEF DelKey, At, Merging
  <2>5. /\ c \in CartId /\ u \in User
        /\ guest[c] \in {entries[p], Empty} /\ member[u][i] >= entries[p][i] - rest[p][i]
    BY <2>1, <2>4, MergingIs DEF Alone
  <2>6. Empty[i] = 0 /\ entries[p][i] \in Nat /\ member[u][i] \in Nat
    <3>1. entries[p] \in Quantities /\ member[u] \in Quantities
      BY <2>1, <2>5 DEF TypeOK
    <3> QED
      BY <3>1, CartConstants DEF Quantities
  <2>7. rest[p][i] = 0
    BY <2>4, <2>6
  <2> QED
    BY <2>5, <2>6, <2>7
<1>2. Spec => []LoneInv
  BY LoneInit, LoneNext, PTL DEF Spec
<1>3. Spec => [][DeletesWhatIsSaved]_vars
  BY <1>1, <1>2, PTL DEF Spec
<1> QED
  BY <1>3 DEF LoginLosesNothing

-----------------------------------------------------------------------------
(* What the carts of the promise hold: for a merge at work that meets no       *)
(* other request, what it read is still the guest's, and what it saved is not  *)
(* the member's yet.                                                          *)

NotYet(p) == [i \in Option |-> member[job[p].owner][i] - (entries[p][i] - rest[p][i])]

CartsHold ==
    /\ Carts \in [CartId \cup User -> [Option -> Int]]
    /\ \A p \in Proc : Merging(p) => Carts[job[p].cart] = entries[p] /\ Carts[job[p].owner] = NotYet(p)
    /\ \A c \in CartId : (\A p \in Proc : ~(Merging(p) /\ job[p].cart = c)) => Carts[c] = guest[c]
    /\ \A u \in User : (\A p \in Proc : ~(Merging(p) /\ job[p].owner = u)) => Carts[u] = member[u]

LEMMA Integral == Quantities \subseteq [Option -> Int]
  BY CartConstants DEF Quantities

LEMMA CartsAre == LoneInv => CartsHold
<1> SUFFICES ASSUME LoneInv PROVE CartsHold
  OBVIOUS
<1>1. CartInv /\ TypeOK /\ CartId \cap User = {}
  BY CartConstants DEF LoneInv, CartInv
<1>2. ASSUME NEW p \in Proc, NEW q \in Proc, Merging(p), Merging(q),
             job[p].cart = job[q].cart \/ job[p].owner = job[q].owner
      PROVE  p = q
  BY <1>1, <1>2, MergingIs DEF LoneInv, Apart
<1>3. \A p \in Proc : Merging(p) => GuestUnits(job[p].cart) = entries[p]
  <2> SUFFICES ASSUME NEW p \in Proc, Merging(p) PROVE GuestUnits(job[p].cart) = entries[p]
    OBVIOUS
  <2> DEFINE q == CHOOSE r \in Proc : Merging(r) /\ job[r].cart = job[p].cart
  <2>1. q \in Proc /\ Merging(q) /\ job[q].cart = job[p].cart
    OBVIOUS
  <2>2. GuestUnits(job[p].cart) = entries[q]
    BY DEF GuestUnits
  <2> HIDE DEF q
  <2> QED
    BY <1>2, <2>1, <2>2
<1>4. \A p \in Proc : Merging(p) => MemberUnits(job[p].owner) = NotYet(p)
  <2> SUFFICES ASSUME NEW p \in Proc, Merging(p) PROVE MemberUnits(job[p].owner) = NotYet(p)
    OBVIOUS
  <2> DEFINE q == CHOOSE r \in Proc : Merging(r) /\ job[r].owner = job[p].owner
  <2>1. q \in Proc /\ Merging(q) /\ job[q].owner = job[p].owner
    OBVIOUS
  <2>2. MemberUnits(job[p].owner)
          = [i \in Option |-> member[job[p].owner][i] - (entries[q][i] - rest[q][i])]
    BY DEF MemberUnits
  <2> HIDE DEF q
  <2>3. p = q
    BY <1>2, <2>1
  <2> QED
    BY <2>2, <2>3 DEF NotYet
<1>5. \A p \in Proc : Merging(p) => job[p].cart \in CartId /\ job[p].owner \in User
  BY <1>1, MergingIs
<1>6. \A c \in CartId : GuestUnits(c) \in [Option -> Int]
  <2> SUFFICES ASSUME NEW c \in CartId PROVE GuestUnits(c) \in [Option -> Int]
    OBVIOUS
  <2>1. CASE \E p \in Proc : Merging(p) /\ job[p].cart = c
    BY <1>1, <1>3, <2>1, Integral DEF TypeOK
  <2>2. CASE ~ \E p \in Proc : Merging(p) /\ job[p].cart = c
    BY <1>1, <2>2, Integral DEF GuestUnits, TypeOK
  <2> QED
    BY <2>1, <2>2
<1>7. \A u \in User : MemberUnits(u) \in [Option -> Int]
  <2> SUFFICES ASSUME NEW u \in User PROVE MemberUnits(u) \in [Option -> Int]
    OBVIOUS
  <2>1. CASE \E p \in Proc : Merging(p) /\ job[p].owner = u
    <3>1. PICK p \in Proc : Merging(p) /\ job[p].owner = u
      BY <2>1
    <3>2. member[u] \in [Option -> Int] /\ entries[p] \in [Option -> Int] /\ rest[p] \in [Option -> Int]
      BY <1>1, Integral DEF TypeOK
    <3>3. NotYet(p) \in [Option -> Int]
      BY <3>1, <3>2 DEF NotYet
    <3> QED
      BY <1>4, <3>1, <3>3
  <2>2. CASE ~ \E p \in Proc : Merging(p) /\ job[p].owner = u
    BY <1>1, <2>2, Integral DEF MemberUnits, TypeOK
  <2> QED
    BY <2>1, <2>2
<1>8. /\ Carts \in [CartId \cup User -> [Option -> Int]]
      /\ \A c \in CartId : Carts[c] = GuestUnits(c)
      /\ \A u \in User : Carts[u] = MemberUnits(u)
  BY <1>1, <1>6, <1>7 DEF Carts
<1>9. \A p \in Proc : Merging(p) => Carts[job[p].cart] = entries[p] /\ Carts[job[p].owner] = NotYet(p)
  BY <1>3, <1>4, <1>5, <1>8
<1>10. \A c \in CartId : (\A p \in Proc : ~(Merging(p) /\ job[p].cart = c)) => Carts[c] = guest[c]
  BY <1>8 DEF GuestUnits
<1>11. \A u \in User : (\A p \in Proc : ~(Merging(p) /\ job[p].owner = u)) => Carts[u] = member[u]
  BY <1>8 DEF MemberUnits
<1> QED
  BY <1>8, <1>9, <1>10, <1>11 DEF CartsHold

LEMMA CartsNext == LoneInv' => CartsHold'
  BY CartsAre, PTL

\* A request keeps to its own carts.
LEMMA Elsewhere ==
    ASSUME LoneInv, LoneInv', NEW p \in Proc, RequestStep(p), ~Begin(p)
    PROVE  /\ \A o \in (CartId \cup User) \ Touched(job[p]) : Carts'[o] = Carts[o]
           /\ ~Waiting(p) => Carts' = Carts
           /\ Asked' = [Asked EXCEPT ![p] = Pending(p)']
           /\ \A q \in Proc \ {p} : q \in Disputed' <=> q \in Disputed
           /\ p \in Disputed' => p \in Disputed
<1>1. CartInv /\ CartInv' /\ CartsHold /\ CartsHold' /\ Moves(p) /\ p \in Proc
  BY CartsAre, CartsNext, StepIs DEF LoneInv
<1>2. \A q \in Proc \ {p} :
         /\ (Merging(q)' <=> Merging(q)) /\ (Waiting(q)' <=> Waiting(q))
         /\ job'[q] = job[q] /\ entries'[q] = entries[q] /\ rest'[q] = rest[q]
         /\ (q \in contested' <=> q \in contested) /\ Pending(q)' = Pending(q)
  BY <1>1, ServesItself DEF Moves, Merging, Waiting, Pending
<1>3. Asked' = [Asked EXCEPT ![p] = Pending(p)']
  BY <1>1, <1>2 DEF Asked
<1>4. /\ \A q \in Proc \ {p} : q \in Disputed' <=> q \in Disputed
      /\ p \in Disputed' => p \in Disputed
  BY <1>1, <1>2, ServesItself DEF Disputed
<1>0. /\ Merging(p) => Waiting(p) /\ {job[p].owner, job[p].cart} \subseteq Touched(job[p])
      /\ Merging(p)' => Waiting(p) /\ {job'[p].owner, job'[p].cart} \subseteq Touched(job[p])
  <2>1. Merging(p) => Waiting(p) /\ {job[p].owner, job[p].cart} \subseteq Touched(job[p])
    BY <1>1, MergingIs
  <2>2. Merging(p)' => Waiting(p)'
    BY <1>1 DEF Merging, Waiting, CartInv, JobFits, NoJob
  <2>3. Merging(p)' => {job'[p].owner, job'[p].cart} \subseteq Touched(job'[p])
    BY DEF Merging, Touched
  <2> QED
    BY <1>1, <2>1, <2>2, <2>3, ServesItself
<1>5. ASSUME NEW c \in CartId, c \notin Touched(job[p]) \/ ~Waiting(p)
      PROVE  Carts'[c] = Carts[c]
  <2>1. guest'[c] = guest[c] /\ ~(Merging(p) /\ job[p].cart = c) /\ ~(Merging(p)' /\ job'[p].cart = c)
    BY <1>0, <1>1, <1>5, WritesOwn
  <2>2. CASE \E q \in Proc : Merging(q) /\ job[q].cart = c
    BY <1>1, <1>2, <2>1, <2>2 DEF CartsHold
  <2>3. CASE \A q \in Proc : ~(Merging(q) /\ job[q].cart = c)
    <3>1. \A q \in Proc : ~(Merging(q)' /\ job'[q].cart = c)
      BY <1>2, <2>1, <2>3
    <3> QED
      BY <1>1, <2>1, <2>3, <3>1 DEF CartsHold
  <2> QED
    BY <2>2, <2>3
<1>6. ASSUME NEW u \in User, u \notin Touched(job[p]) \/ ~Waiting(p)
      PROVE  Carts'[u] = Carts[u]
  <2>1. member'[u] = member[u] /\ ~(Merging(p) /\ job[p].owner = u) /\ ~(Merging(p)' /\ job'[p].owner = u)
    BY <1>0, <1>1, <1>6, WritesOwn DEF database
  <2>2. CASE \E q \in Proc : Merging(q) /\ job[q].owner = u
    <3>1. PICK q \in Proc : Merging(q) /\ job[q].owner = u
      BY <2>2
    <3>2. q # p /\ Merging(q)' /\ job'[q].owner = u
      BY <1>2, <2>1, <3>1
    <3>3. NotYet(q)' = NotYet(q)
      BY <1>2, <2>1, <3>1, <3>2 DEF NotYet
    <3> QED
      BY <1>1, <3>1, <3>2, <3>3 DEF CartsHold
  <2>3. CASE \A q \in Proc : ~(Merging(q) /\ job[q].owner = u)
    <3>1. \A q \in Proc : ~(Merging(q)' /\ job'[q].owner = u)
      BY <1>2, <2>1, <2>3
    <3> QED
      BY <1>1, <2>1, <2>3, <3>1 DEF CartsHold
  <2> QED
    BY <2>2, <2>3
<1>7. ~Waiting(p) => Carts' = Carts
  <2> SUFFICES ASSUME ~Waiting(p) PROVE Carts' = Carts
    OBVIOUS
  <2> DEFINE owners == CartId \cup User
             ints   == [Option -> Int]
  <2>1. Carts \in [owners -> ints] /\ Carts' \in [owners -> ints] /\ \A o \in owners : Carts'[o] = Carts[o]
    BY <1>1, <1>5, <1>6 DEF CartsHold
  <2> HIDE DEF owners, ints
  <2> QED
    BY <2>1
<1> QED
  BY <1>3, <1>4, <1>5, <1>6, <1>7

\* The request stays the same until it takes effect.
LEMMA PendingKept ==
    ASSUME CartInv, NEW p \in Proc, RequestStep(p), ~Begin(p), Waiting(p)'
    PROVE  Pending(p)' = Pending(p)
<1>0. TypeOK /\ JobFits(p) /\ Waiting(p)
  BY ServesItself DEF CartInv
<1>1. ~Done(p)
  BY <1>0 DEF Done, GoTo, Waiting, TypeOK
<1>2. CASE job' = job
  BY <1>0, <1>2 DEF Pending
<1>3. CASE NextEntry(p)
  <2>1. PICK i \in Option : job' = [job EXCEPT ![p] = [job[p] EXCEPT !.option = i]]
    BY <1>3 DEF NextEntry
  <2>2. job'[p] = [job[p] EXCEPT !.option = i] /\ job[p] \in Jobs /\ job[p].kind = "merge"
    BY <1>0, <1>3, <2>1 DEF TypeOK, NextEntry, At, JobFits
  <2>3. job'[p].kind = "merge" /\ [job'[p] EXCEPT !.option = None] = [job[p] EXCEPT !.option = None]
    BY <2>2 DEF Jobs
  <2> QED
    BY <1>0, <2>2, <2>3 DEF Pending
<1>4. CASE Saved(p) /\ pc[p] \in {"save", "update", "insert"}
  <2>1. job' = [job EXCEPT ![p] = [job[p] EXCEPT !.option = None]] /\ job[p].kind = "merge"
    BY <1>1, <1>4 DEF Saved
  <2>2. job'[p] = [job[p] EXCEPT !.option = None] /\ job[p] \in MergeJobs
    BY <1>0, <1>4, <2>1, JobIs DEF TypeOK, JobFits, Upserts
  <2>3. job'[p].kind = "merge" /\ [job'[p] EXCEPT !.option = None] = [job[p] EXCEPT !.option = None]
    BY <2>1, <2>2 DEF MergeJobs
  <2> QED
    BY <1>0, <2>1, <2>3 DEF Pending
<1> QED
  BY <1>1, <1>2, <1>3, <1>4 DEF RequestStep, HIncrBy, HExists, HSet, Expire, HDel, UpdateRow,
       DeleteRow, NotFound, FindRow, Reload, WriteRow, InsertRow, DuplicateRow, HGetAll, DelKey,
       MergeEnd, ClearCart, Crash

-----------------------------------------------------------------------------
(* Every step is one of the promise, or shows nothing.                      *)

Follows == Promise!Next \/ UNCHANGED <<Carts, Asked, Disputed>>

LEMMA WaitingIs ==
    ASSUME CartInv, NEW p \in Proc, Waiting(p)
    PROVE  /\ job[p] \in Jobs \cup MergeJobs /\ job[p].kind # "none"
           /\ Pending(p) \in Jobs /\ Pending(p) # NoJob
           /\ Promise!About(Pending(p)) = Touched(job[p])
           /\ Touched(job[p]) \subseteq CartId \cup User
<1>1. JobFits(p) /\ pc[p] \in Labels
  BY DEF CartInv, TypeOK
<1>2. job[p] \in Jobs \cup MergeJobs
  BY <1>1 DEF Waiting, Labels, JobFits, Upserts
<1>3. job[p].kind # "none"
  BY <1>2, JobIs, MergeJobIs
<1>4. Pending(p) \in Jobs
  <2>1. CASE job[p] \in Jobs
    <3>1. job[p].kind = "merge" => [job[p] EXCEPT !.option = None] \in Jobs
      BY <2>1 DEF Jobs
    <3> QED
      BY <2>1, <3>1 DEF Pending
  <2>2. CASE job[p] \in MergeJobs
    BY <2>2, MergeJobIs DEF Pending
  <2> QED
    BY <1>2, <2>1, <2>2
<1>5. Pending(p) # NoJob
  BY <1>4, JobIs
<1>6. /\ Pending(p).kind = job[p].kind /\ Pending(p).owner = job[p].owner
      /\ job[p].kind = "merge" => Pending(p).cart = job[p].cart
  <2>1. CASE job[p].kind = "merge"
    <3>1. Pending(p) = [job[p] EXCEPT !.option = None]
      BY <2>1 DEF Pending
    <3> QED
      BY <1>2, <2>1, <3>1 DEF Jobs, MergeJobs
  <2>2. CASE job[p].kind # "merge"
    BY <2>2 DEF Pending
  <2> QED
    BY <2>1, <2>2
<1>7. Promise!About(Pending(p)) = Touched(job[p])
  BY <1>3, <1>5, <1>6 DEF Promise!About, Touched
<1>8. Touched(job[p]) \subseteq CartId \cup User
  <2>1. job[p].owner \in CartId \cup User /\ (job[p].kind = "merge" => job[p].cart \in CartId)
    BY <1>2, JobIs, MergeJobIs
  <2> QED
    BY <2>1 DEF Touched
<1> QED
  BY <1>2, <1>3, <1>4, <1>5, <1>7, <1>8

LEMMA AboutIs ==
    ASSUME CartInv, NEW p \in Proc
    PROVE  /\ Asked[p] = Pending(p)
           /\ Promise!About(Asked[p]) = IF Waiting(p) THEN Touched(job[p]) ELSE {}
<1>1. Asked[p] = Pending(p)
  BY DEF Asked
<1>2. CASE Waiting(p)
  BY <1>1, <1>2, WaitingIs
<1>3. CASE ~Waiting(p)
  BY <1>1, <1>3 DEF Pending, Promise!About
<1> QED
  BY <1>1, <1>2, <1>3

LEMMA BeginFollows ==
    ASSUME LoneInv, LoneInv', NEW p \in Proc, Begin(p)
    PROVE  Follows
<1>1. CartInv /\ CartInv' /\ TypeOK /\ JobFits(p) /\ CartsHold /\ CartsHold' /\ Moves(p)
  BY CartsAre, CartsNext, StepIs DEF LoneInv, CartInv, RequestStep
<1>2. PICK j \in Jobs : job' = [job EXCEPT ![p] = j] /\ contested' = contested \cup Meeting(p, j)
  BY DEF Begin
<1> DEFINE rivals == Rivals(p, j)
<1>3. /\ job'[p] = j /\ pc[p] = "idle" /\ pc'[p] = "start" /\ p \notin contested
      /\ UNCHANGED <<redis, database, rest>>
      /\ entries' = [q \in Proc |-> IF q \in contested' THEN Empty ELSE entries[q]]
  BY <1>1, <1>2 DEF Begin, GoTo, TypeOK, JobFits
<1>4. \A q \in Proc \ {p} : /\ pc'[q] = pc[q] /\ job'[q] = job[q] /\ (Waiting(q)' <=> Waiting(q))
                            /\ Pending(q)' = Pending(q)
  BY <1>1 DEF Moves, Waiting, Pending
<1>5. Asked[p] = NoJob /\ Asked' = [Asked EXCEPT ![p] = j]
  <2>1. Pending(p) = NoJob
    BY <1>3 DEF Pending, Waiting
  <2>2. Pending(p)' = j
    <3>1. j.kind = "merge" => [j EXCEPT !.option = None] = j
      BY DEF Jobs
    <3> QED
      BY <1>3, <3>1 DEF Pending, Waiting
  <2> QED
    BY <1>4, <2>1, <2>2 DEF Asked
<1>6. Promise!Met(p, j) = rivals
  <2>1. Promise!About(j) = Touched(j)
    BY JobIs DEF Promise!About, Touched
  <2> QED
    BY <1>1, <2>1, AboutIs DEF Promise!Met, Rivals
<1>7. ~Merging(p) /\ ~Merging(p)'
  BY <1>1, <1>3, MergingIs DEF Merging
<1>8. ASSUME NEW q \in Proc
      PROVE  /\ Merging(q)' => Merging(q)
             /\ Merging(q) /\ q \notin rivals =>
                  Merging(q)' /\ entries'[q] = entries[q] /\ rest'[q] = rest[q] /\ job'[q] = job[q]
  BY <1>2, <1>3, <1>4, <1>7 DEF Merging, Meeting
<1>9. ASSUME NEW o \in CartId \cup User, \A q \in rivals : o \notin Touched(job[q])
      PROVE  Carts'[o] = Carts[o]
  <2>1. ASSUME NEW q \in Proc, Merging(q), job[q].cart = o \/ job[q].owner = o PROVE q \notin rivals
    BY <1>1, <1>9, <2>1, MergingIs
  <2>2. CASE o \in CartId
    <3>1. CASE \E q \in Proc : Merging(q) /\ job[q].cart = o
      BY <1>1, <1>8, <2>1, <3>1 DEF CartsHold
    <3>2. CASE \A q \in Proc : ~(Merging(q) /\ job[q].cart = o)
      <4>1. \A q \in Proc : ~(Merging(q)' /\ job'[q].cart = o)
        BY <1>4, <1>7, <1>8, <3>2
      <4> QED
        BY <1>1, <1>3, <2>2, <3>2, <4>1 DEF CartsHold, redis
    <3> QED
      BY <3>1, <3>2
  <2>3. CASE o \in User
    <3>1. CASE \E q \in Proc : Merging(q) /\ job[q].owner = o
      <4>1. PICK q \in Proc : Merging(q) /\ job[q].owner = o
        BY <3>1
      <4>2. Merging(q)' /\ entries'[q] = entries[q] /\ rest'[q] = rest[q] /\ job'[q] = job[q]
        BY <1>8, <2>1, <4>1
      <4>3. NotYet(q)' = NotYet(q)
        BY <1>3, <4>2 DEF NotYet, database
      <4> QED
        BY <1>1, <4>1, <4>2, <4>3 DEF CartsHold
    <3>2. CASE \A q \in Proc : ~(Merging(q) /\ job[q].owner = o)
      <4>1. \A q \in Proc : ~(Merging(q)' /\ job'[q].owner = o)
        BY <1>4, <1>7, <1>8, <3>2
      <4> QED
        BY <1>1, <1>3, <2>3, <3>2, <4>1 DEF CartsHold, database
    <3> QED
      BY <3>1, <3>2
  <2> QED
    BY <2>2, <2>3
<1>10. CASE rivals = {}
  <2>1. Disputed' = Disputed
    <3>1. contested' = contested
      BY <1>2, <1>10 DEF Meeting
    <3>2. contested \subseteq Proc \ {p}
      BY <1>1, <1>3 DEF TypeOK
    <3>3. \A q \in contested : Waiting(q)' <=> Waiting(q)
      BY <1>4, <3>2
    <3> QED
      BY <3>1, <3>3 DEF Disputed
  <2>2. Carts' = Carts
    <3> DEFINE owners == CartId \cup User
               ints   == [Option -> Int]
    <3>1. Carts \in [owners -> ints] /\ Carts' \in [owners -> ints] /\ \A o \in owners : Carts'[o] = Carts[o]
      BY <1>1, <1>9, <1>10 DEF CartsHold
    <3> HIDE DEF owners, ints
    <3> QED
      BY <3>1
  <2>3. Promise!Ask(p)
    BY <1>5, <1>6, <1>10, <2>1, <2>2 DEF Promise!Ask
  <2> QED
    BY <2>3 DEF Follows, Promise!Next
<1>11. CASE rivals # {}
  <2>1. Disputed' = Disputed \cup rivals \cup {p}
    <3>1. contested' = contested \cup rivals \cup {p}
      BY <1>2, <1>11 DEF Meeting
    <3>2. Waiting(p)' /\ rivals \subseteq Proc \ {p} /\ \A q \in rivals : Waiting(q)
      BY <1>3 DEF Waiting, Rivals
    <3>3. contested \subseteq Proc
      BY <1>1 DEF TypeOK
    <3> HIDE DEF rivals
    <3> QED
      BY <1>3, <1>4, <3>1, <3>2, <3>3 DEF Disputed
  <2>2. Promise!Within(UNION {Promise!About(Asked[q]) : q \in rivals})
    <3> SUFFICES ASSUME NEW o \in (CartId \cup User) \ UNION {Promise!About(Asked[q]) : q \in rivals}
                 PROVE  Carts'[o] = Carts[o]
      BY DEF Promise!Within
    <3>1. ASSUME NEW q \in rivals PROVE o \notin Touched(job[q])
      <4>1. q \in Proc /\ Waiting(q)
        BY DEF Rivals
      <4>2. Promise!About(Asked[q]) = Touched(job[q])
        BY <1>1, <4>1, AboutIs
      <4> QED
        BY <4>2
    <3> QED
      BY <1>9, <3>1
  <2>3. Promise!Ask(p)
    <3> HIDE DEF rivals
    <3> QED
      BY <1>5, <1>6, <1>11, <2>1, <2>2, Zenon DEF Promise!Ask
  <2> QED
    BY <2>3 DEF Follows, Promise!Next
<1> QED
  BY <1>10, <1>11

\* A request that met another one, or has taken effect already.
LEMMA DisputeFollows ==
    ASSUME LoneInv, LoneInv', NEW p \in Proc, RequestStep(p), ~Begin(p), p \in contested \/ ~Waiting(p)
    PROVE  Follows
<1>1. CartInv /\ CartInv' /\ Asked \in [Proc -> Jobs \cup {NoJob}]
  <2>1. CartInv /\ CartInv'
    BY StepIs DEF LoneInv
  <2>2. \A q \in Proc : Pending(q) \in Jobs \cup {NoJob}
    BY <2>1, WaitingIs DEF Pending
  <2> QED
    BY <2>1, <2>2 DEF Asked
<1>2. /\ \A o \in (CartId \cup User) \ Touched(job[p]) : Carts'[o] = Carts[o]
      /\ ~Waiting(p) => Carts' = Carts
      /\ Asked' = [Asked EXCEPT ![p] = Pending(p)'] /\ Asked[p] = Pending(p)
      /\ \A q \in Proc \ {p} : q \in Disputed' <=> q \in Disputed
      /\ p \in Disputed' => p \in Disputed
      /\ Disputed \subseteq Proc /\ Disputed' \subseteq Proc
  <2>1. Disputed \subseteq Proc /\ Disputed' \subseteq Proc
    BY <1>1 DEF Disputed, CartInv, TypeOK
  <2> QED
    BY <1>1, <2>1, Elsewhere, AboutIs
<1>3. CASE ~Waiting(p)
  <2>1. ~Waiting(p)'
    BY <1>1, <1>3, ServesItself
  <2>2. Pending(p) = NoJob /\ Pending(p)' = NoJob /\ p \notin Disputed
    BY <1>3, <2>1 DEF Pending, Disputed
  <2>3. Asked' = Asked /\ Disputed' = Disputed
    BY <1>1, <1>2, <2>2
  <2> QED
    BY <1>2, <1>3, <2>3 DEF Follows
<1>4. CASE Waiting(p) /\ p \in contested
  <2>1. p \in Disputed /\ Promise!Within(Promise!About(Asked[p]))
    BY <1>1, <1>2, <1>4, AboutIs DEF Disputed, Promise!Within
  <2>2. CASE Waiting(p)'
    <3>1. Asked' = Asked
      BY <1>1, <1>2, <2>2, PendingKept
    <3>2. p \in contested'
      BY <1>1, <1>4, <2>2, ServesItself DEF Waiting
    <3>3. Disputed' = Disputed
      BY <1>2, <2>1, <2>2, <3>2 DEF Disputed
    <3> QED
      BY <2>1, <3>1, <3>3 DEF Follows, Promise!Next, Promise!Contend
  <2>3. CASE ~Waiting(p)'
    <3>1. Asked' = [Asked EXCEPT ![p] = NoJob]
      BY <1>2, <2>3 DEF Pending
    <3>2. Disputed' = Disputed \ {p}
      <4>1. p \notin Disputed'
        BY <2>3 DEF Disputed
      <4> QED
        BY <1>2, <4>1
    <3> QED
      BY <2>1, <3>1, <3>2 DEF Follows, Promise!Next, Promise!Contend
  <2> QED
    BY <2>2, <2>3
<1> QED
  BY <1>3, <1>4

(* What shows of a request that meets no other one.                         *)

GuestShows(p, c) == IF Merging(p) /\ job[p].cart = c THEN entries[p] ELSE guest[c]

MemberShows(p, u) == IF Merging(p) /\ job[p].owner = u THEN NotYet(p) ELSE member[u]

Lone(p) == p \in Proc /\ p \notin contested /\ Waiting(p) /\ RequestStep(p)

Shows(p) ==
    LET own == Touched(job[p]) IN
    /\ own \subseteq CartId \cup User
    /\ Carts \in [CartId \cup User -> [Option -> Int]]
    /\ Carts' \in [CartId \cup User -> [Option -> Int]]
    /\ \A c \in CartId \cap own : Carts[c] = GuestShows(p, c) /\ Carts'[c] = GuestShows(p, c)'
    /\ \A u \in User \cap own : Carts[u] = MemberShows(p, u) /\ Carts'[u] = MemberShows(p, u)'
    /\ \A o \in (CartId \cup User) \ own : Carts'[o] = Carts[o]
    /\ Asked \in [Proc -> Jobs \cup {NoJob}]
    /\ Asked[p] = Pending(p) /\ Asked' = [Asked EXCEPT ![p] = Pending(p)']
    /\ Disputed' = Disputed /\ p \notin Disputed

\* What an uncontested request starts from, and where it goes.
LoneFacts(p) ==
    /\ p \in Proc /\ p \notin contested /\ Waiting(p) /\ CartInv /\ CartInv'
    /\ TypeOK /\ JobFits(p) /\ Alone(p) /\ Shows(p)
    /\ Pending(p) \in Jobs /\ Pending(p) # NoJob

LEMMA ShowsStep ==
    ASSUME LoneInv, LoneInv', NEW p, Lone(p)
    PROVE  LoneFacts(p)
<1>1. /\ CartInv /\ CartInv' /\ TypeOK /\ JobFits(p) /\ CartsHold /\ CartsHold' /\ Moves(p)
      /\ ~Begin(p) /\ p \in Proc /\ Alone(p) /\ Apart(p)
  BY CartsAre, CartsNext, StepIs DEF LoneInv, Lone, CartInv, Begin, Waiting
<1>2. Touched(job[p]) \subseteq CartId \cup User /\ Pending(p) \in Jobs /\ Pending(p) # NoJob
  BY <1>1, WaitingIs DEF Lone
<1>3. ASSUME NEW q \in Proc \ {p}
      PROVE  /\ Merging(q) => {job[q].cart, job[q].owner} \cap Touched(job[p]) = {}
             /\ Merging(q)' => {job'[q].cart, job'[q].owner} \cap Touched(job[p]) = {}
  <2>1. (Merging(q)' => Merging(q)) /\ job'[q] = job[q]
    BY <1>1, ServesItself DEF Moves, Merging, Lone
  <2>2. Merging(q) => {job[q].cart, job[q].owner} \cap Touched(job[p]) = {}
    BY <1>1, MergingIs DEF Lone, Apart
  <2> QED
    BY <2>1, <2>2
<1>4. ASSUME NEW c \in CartId \cap Touched(job[p])
      PROVE  Carts[c] = GuestShows(p, c) /\ Carts'[c] = GuestShows(p, c)'
  <2>1. Carts[c] = GuestShows(p, c)
    <3>1. CASE Merging(p) /\ job[p].cart = c
      BY <1>1, <3>1 DEF CartsHold, GuestShows
    <3>2. CASE ~(Merging(p) /\ job[p].cart = c)
      BY <1>1, <1>3, <3>2 DEF CartsHold, GuestShows
    <3> QED
      BY <3>1, <3>2
  <2>2. Carts'[c] = GuestShows(p, c)'
    <3>1. CASE Merging(p)' /\ job'[p].cart = c
      BY <1>1, <3>1 DEF CartsHold, GuestShows
    <3>2. CASE ~(Merging(p)' /\ job'[p].cart = c)
      BY <1>1, <1>3, <3>2 DEF CartsHold, GuestShows
    <3> QED
      BY <3>1, <3>2
  <2> QED
    BY <2>1, <2>2
<1>5. ASSUME NEW u \in User \cap Touched(job[p])
      PROVE  Carts[u] = MemberShows(p, u) /\ Carts'[u] = MemberShows(p, u)'
  <2>1. Carts[u] = MemberShows(p, u)
    <3>1. CASE Merging(p) /\ job[p].owner = u
      BY <1>1, <3>1 DEF CartsHold, MemberShows
    <3>2. CASE ~(Merging(p) /\ job[p].owner = u)
      BY <1>1, <1>3, <3>2 DEF CartsHold, MemberShows
    <3> QED
      BY <3>1, <3>2
  <2>2. Carts'[u] = MemberShows(p, u)'
    <3>1. CASE Merging(p)' /\ job'[p].owner = u
      BY <1>1, <3>1 DEF CartsHold, MemberShows
    <3>2. CASE ~(Merging(p)' /\ job'[p].owner = u)
      BY <1>1, <1>3, <3>2 DEF CartsHold, MemberShows
    <3> QED
      BY <3>1, <3>2
  <2> QED
    BY <2>1, <2>2
<1>6. /\ \A o \in (CartId \cup User) \ Touched(job[p]) : Carts'[o] = Carts[o]
      /\ Asked' = [Asked EXCEPT ![p] = Pending(p)']
      /\ \A q \in Proc \ {p} : q \in Disputed' <=> q \in Disputed
      /\ p \in Disputed' => p \in Disputed
  BY <1>1, Elsewhere DEF Lone
<1>7. Disputed' = Disputed /\ p \notin Disputed
  <2>1. p \notin Disputed /\ Disputed \subseteq Proc /\ Disputed' \subseteq Proc
    BY <1>1 DEF Disputed, Lone, CartInv, TypeOK
  <2> QED
    BY <1>6, <2>1
<1>8. Asked \in [Proc -> Jobs \cup {NoJob}] /\ Asked[p] = Pending(p)
  <2>1. \A q \in Proc : Pending(q) \in Jobs \cup {NoJob}
    BY <1>1, WaitingIs DEF Pending
  <2> QED
    BY <1>1, <2>1 DEF Asked
<1>9. Shows(p)
  BY <1>1, <1>2, <1>4, <1>5, <1>6, <1>7, <1>8 DEF Shows, CartsHold
<1> QED
  BY <1>1, <1>2, <1>9 DEF LoneFacts, Lone

\* A step that shows in no cart.
LEMMA NoCartChanges ==
    ASSUME NEW p, Shows(p), \A o \in Touched(job[p]) : Carts'[o] = Carts[o]
    PROVE  Carts' = Carts
<1> DEFINE owners == CartId \cup User
           ints   == [Option -> Int]
<1>1. Carts \in [owners -> ints] /\ Carts' \in [owners -> ints] /\ \A o \in owners : Carts'[o] = Carts[o]
  BY DEF Shows
<1> HIDE DEF owners, ints
<1> QED
  BY <1>1

\* A step of a request about one cart.
LEMMA OneCartChanges ==
    ASSUME NEW p, Shows(p), NEW o \in CartId \cup User, Touched(job[p]) = {o}
    PROVE  Carts' = [Carts EXCEPT ![o] = Carts'[o]]
<1> DEFINE owners == CartId \cup User
           ints   == [Option -> Int]
<1>1. /\ Carts \in [owners -> ints] /\ Carts' \in [owners -> ints] /\ o \in owners
      /\ \A x \in owners \ {o} : Carts'[x] = Carts[x]
  BY DEF Shows
<1> HIDE DEF owners, ints
<1> QED
  BY <1>1

\* A step of a login.
LEMMA TwoCartsChange ==
    ASSUME NEW p, Shows(p), NEW c \in CartId, NEW u \in User, Touched(job[p]) = {u, c}
    PROVE  Carts' = [Carts EXCEPT ![c] = Carts'[c], ![u] = Carts'[u]]
<1> DEFINE owners == CartId \cup User
           ints   == [Option -> Int]
<1>1. /\ Carts \in [owners -> ints] /\ Carts' \in [owners -> ints] /\ c \in owners /\ u \in owners
      /\ \A x \in owners \ {c, u} : Carts'[x] = Carts[x]
  BY DEF Shows
<1>2. c # u
  BY CartConstants
<1> HIDE DEF owners, ints
<1> QED
  BY <1>1, <1>2

\* Between merges the carts are what Redis and the database hold.
LEMMA PlainShows ==
    ASSUME NEW p, Shows(p), ~Merging(p), ~Merging(p)'
    PROVE  /\ \A c \in CartId \cap Touched(job[p]) : Carts[c] = guest[c] /\ Carts'[c] = guest'[c]
           /\ \A u \in User \cap Touched(job[p]) : Carts[u] = member[u] /\ Carts'[u] = member'[u]
  BY DEF Shows, GuestShows, MemberShows

LEMMA GuestWrites ==
    ASSUME NEW p, LoneFacts(p), ~Merging(p), ~Merging(p)', NEW c \in CartId, Touched(job[p]) = {c},
           NEW fields \in Quantities, SetGuest(c, fields)
    PROVE  Carts[c] = guest[c] /\ Carts' = [Carts EXCEPT ![c] = fields]
<1>1. Carts[c] = guest[c] /\ Carts'[c] = guest'[c]
  BY PlainShows DEF LoneFacts
<1>2. guest'[c] = fields
  BY GuestSet DEF LoneFacts
<1>3. Carts' = [Carts EXCEPT ![c] = Carts'[c]]
  BY OneCartChanges DEF LoneFacts
<1> QED
  BY <1>1, <1>2, <1>3

LEMMA MemberWrites ==
    ASSUME NEW p, LoneFacts(p), ~Merging(p), ~Merging(p)', NEW u \in User, Touched(job[p]) = {u},
           NEW i \in Option, NEW n \in 0 .. MaxUnits, member'[u][i] = n,
           \A k \in Option : k # i => member'[u][k] = member[u][k]
    PROVE  Carts[u] = member[u] /\ Carts' = [Carts EXCEPT ![u] = [Carts[u] EXCEPT ![i] = n]]
<1>1. member \in [User -> Quantities] /\ member' \in [User -> Quantities]
  BY DEF LoneFacts, CartInv, TypeOK
<1>2. member'[u] = [member[u] EXCEPT ![i] = n]
  <2>1. member'[u] \in Quantities /\ member[u] \in Quantities
    BY <1>1
  <2> QED
    BY <2>1 DEF Quantities
<1>3. Carts[u] = member[u] /\ Carts'[u] = member'[u]
  BY PlainShows DEF LoneFacts
<1>4. Carts' = [Carts EXCEPT ![u] = Carts'[u]]
  BY OneCartChanges DEF LoneFacts
<1> QED
  BY <1>2, <1>3, <1>4

LEMMA NothingWritten ==
    ASSUME NEW p, LoneFacts(p), ~Merging(p), ~Merging(p)', UNCHANGED <<guest, member>>
    PROVE  Carts' = Carts
<1>1. Shows(p) /\ Touched(job[p]) \subseteq CartId \cup User
  BY DEF LoneFacts, Shows
<1>2. \A o \in Touched(job[p]) : Carts'[o] = Carts[o]
  BY <1>1, PlainShows
<1> QED
  BY <1>1, <1>2, NoCartChanges

\* A merge at work that writes nothing.
LEMMA MergeGoesOn ==
    ASSUME NEW p, LoneFacts(p), Merging(p), Merging(p)',
           UNCHANGED <<redis, database, entries, rest>>,
           job'[p].cart = job[p].cart, job'[p].owner = job[p].owner
    PROVE  Carts' = Carts
<1>1. Shows(p) /\ Touched(job[p]) \subseteq CartId \cup User
  BY DEF LoneFacts, Shows
<1>2. \A c \in CartId : GuestShows(p, c)' = GuestShows(p, c)
  BY DEF GuestShows, redis
<1>3. \A u \in User : MemberShows(p, u)' = MemberShows(p, u)
  BY DEF MemberShows, NotYet, database
<1>4. \A o \in Touched(job[p]) : Carts'[o] = Carts[o]
  BY <1>1, <1>2, <1>3 DEF Shows
<1> QED
  BY <1>1, <1>4, NoCartChanges

\* A request that takes effect.
LEMMA Takes ==
    ASSUME NEW p, LoneFacts(p), ~Waiting(p)',
           \/ Promise!Add(Pending(p)) \/ Promise!SetQuantity(Pending(p)) \/ Promise!Remove(Pending(p))
           \/ Promise!Refuse(Pending(p)) \/ Promise!Merge(Pending(p)) \/ Promise!Clear(Pending(p))
    PROVE  Follows
<1>1. /\ p \in Proc /\ Asked[p] = Pending(p) /\ Asked[p] # NoJob /\ p \notin Disputed /\ Disputed' = Disputed
      /\ Asked' = [Asked EXCEPT ![p] = NoJob]
  <2>1. Pending(p)' = NoJob
    BY DEF Pending
  <2> QED
    BY <2>1 DEF LoneFacts, Shows
<1>2. Promise!Serve(p)
  BY <1>1 DEF Promise!Serve, Promise!Alone
<1> QED
  BY <1>1, <1>2 DEF Follows, Promise!Next

\* A request that goes on.
LEMMA GoesOn ==
    ASSUME NEW p, LoneFacts(p), RequestStep(p), Waiting(p)', Carts' = Carts
    PROVE  Follows
<1>1. Pending(p)' = Pending(p)
  BY PendingKept DEF LoneFacts, Begin, Waiting
<1>2. Asked' = Asked /\ Disputed' = Disputed
  BY <1>1 DEF LoneFacts, Shows
<1> QED
  BY <1>2 DEF Follows

LEMMA GuestFollows ==
    ASSUME NEW p, LoneFacts(p),
           HIncrBy(p) \/ HExists(p) \/ HSet(p) \/ HDel(p) \/ ClearCart(p)
    PROVE  Follows
<1>0. p \in Proc /\ CartInv /\ CartInv' /\ TypeOK /\ JobFits(p) /\ JobFits(p)'
  BY DEF LoneFacts, CartInv
<1>1. ~Merging(p)
  BY <1>0, MergingIs DEF HIncrBy, HExists, HSet, HDel, ClearCart, At
<1>2. ~Merging(p)'
  <2>1. Done(p) \/ \E label \in {"expire", "hset"} : GoTo(p, label)
    BY DEF HIncrBy, HExists, HSet, HDel, ClearCart
  <2>2. pc'[p] \in {"idle", "expire", "hset"}
    BY <1>0, <2>1 DEF Done, GoTo, TypeOK
  <2> QED
    BY <1>0, <2>2 DEF JobFits, Merging, NoJob
<1>4. CASE HIncrBy(p)
  <2> DEFINE c == job[p].owner
             i == job[p].option
             n == job[p].quantity
             fields == [guest[c] EXCEPT ![i] = @ + n]
  <2>1. /\ c \in CartId /\ i \in Option /\ n \in 1 .. MaxUnits
        /\ job[p] \in Jobs /\ job[p].kind = "add" /\ pc[p] = "start" /\ pc'[p] = "expire"
    BY <1>0, <1>4, JobIs DEF HIncrBy, At, ForGuest, JobFits, GoTo, TypeOK
  <2>2. fields \in Quantities
    <3>1. guest[c] \in Quantities /\ guest[c][i] \in Nat
      BY <1>0, <2>1 DEF TypeOK, Quantities
    <3>2. guest[c][i] + n \in 0 .. MaxUnits
      BY <1>4, <2>1, <3>1, CartConstants DEF HIncrBy
    <3> QED
      BY <3>1, <3>2 DEF Quantities
  <2>3. SetGuest(c, fields) /\ UNCHANGED database
    BY <1>4 DEF HIncrBy
  <2>4. Pending(p) = job[p] /\ ~Waiting(p)' /\ Touched(job[p]) = {c}
    BY <2>1 DEF Pending, Waiting, Touched
  <2>5. Carts[c] = guest[c] /\ Carts' = [Carts EXCEPT ![c] = fields]
    <3> HIDE DEF fields
    <3> QED
      BY <1>1, <1>2, <2>1, <2>2, <2>3, <2>4, GuestWrites
  <2>6. Carts' = [Carts EXCEPT ![c][i] = @ + n]
    BY <2>5
  <2> QED
    BY <2>1, <2>4, <2>6, Takes DEF Promise!Add
<1>5. CASE HExists(p)
  <2>1. pc'[p] = "hset" /\ UNCHANGED <<guest, member>>
    BY <1>0, <1>5 DEF HExists, GoTo, TypeOK, redis, database
  <2>2. Carts' = Carts
    BY <1>1, <1>2, <2>1, NothingWritten
  <2> QED
    BY <1>5, <2>1, <2>2, GoesOn DEF RequestStep, Waiting
<1>6. CASE HSet(p)
  <2> DEFINE c == job[p].owner
             i == job[p].option
             n == job[p].quantity
             fields == [guest[c] EXCEPT ![i] = n]
  <2>1. /\ c \in CartId /\ i \in Option /\ n \in 0 .. MaxUnits
        /\ job[p] \in Jobs /\ job[p].kind = "update" /\ pc[p] = "hset" /\ pc'[p] = "expire"
    BY <1>0, <1>6, JobIs, CartConstants DEF HSet, At, JobFits, GoTo, TypeOK
  <2>2. fields \in Quantities
    <3>1. guest[c] \in Quantities
      BY <1>0, <2>1 DEF TypeOK
    <3> QED
      BY <2>1, <3>1 DEF Quantities
  <2>3. SetGuest(c, fields) /\ UNCHANGED database
    BY <1>6 DEF HSet
  <2>4. Pending(p) = job[p] /\ ~Waiting(p)' /\ Touched(job[p]) = {c}
    BY <2>1 DEF Pending, Waiting, Touched
  <2>5. Carts[c] = guest[c] /\ Carts' = [Carts EXCEPT ![c] = fields]
    <3> HIDE DEF fields
    <3> QED
      BY <1>1, <1>2, <2>1, <2>2, <2>3, <2>4, GuestWrites
  <2>6. Carts' = [Carts EXCEPT ![c][i] = n]
    BY <2>5
  <2> QED
    BY <2>1, <2>4, <2>6, Takes DEF Promise!SetQuantity
<1>8. CASE HDel(p)
  <2> DEFINE c == job[p].owner
             i == job[p].option
             fields == [guest[c] EXCEPT ![i] = 0]
  <2>1. /\ c \in CartId /\ i \in Option
        /\ job[p] \in Jobs /\ job[p].kind = "remove" /\ pc[p] = "start" /\ pc'[p] = "idle"
    BY <1>0, <1>8, JobIs DEF HDel, At, ForGuest, JobFits, Done, GoTo, TypeOK
  <2>2. fields \in Quantities
    <3>1. guest[c] \in Quantities
      BY <1>0, <2>1 DEF TypeOK
    <3> QED
      BY <3>1, CartConstants DEF Quantities
  <2>3. SetGuest(c, fields) /\ UNCHANGED database
    BY <1>8 DEF HDel
  <2>4. Pending(p) = job[p] /\ ~Waiting(p)' /\ Touched(job[p]) = {c}
    BY <2>1 DEF Pending, Waiting, Touched
  <2>5. Carts[c] = guest[c] /\ Carts' = [Carts EXCEPT ![c] = fields]
    <3> HIDE DEF fields
    <3> QED
      BY <1>1, <1>2, <2>1, <2>2, <2>3, <2>4, GuestWrites
  <2>6. Carts' = [Carts EXCEPT ![c][i] = 0]
    BY <2>5
  <2> QED
    BY <2>1, <2>4, <2>6, Takes DEF Promise!Remove
<1>9. CASE ClearCart(p)
  <2> DEFINE c == job[p].owner
  <2>1. /\ c \in CartId /\ job[p] \in Jobs /\ job[p].kind = "order" /\ pc[p] = "start" /\ pc'[p] = "idle"
    BY <1>0, <1>9, JobIs DEF ClearCart, At, JobFits, Done, GoTo, TypeOK
  <2>2. SetGuest(c, Empty) /\ UNCHANGED database
    BY <1>9 DEF ClearCart
  <2>3. Pending(p) = job[p] /\ ~Waiting(p)' /\ Touched(job[p]) = {c}
    BY <2>1 DEF Pending, Waiting, Touched
  <2>4. Carts' = [Carts EXCEPT ![c] = Empty]
    BY <1>1, <1>2, <2>1, <2>2, <2>3, GuestWrites, CartConstants
  <2> QED
    BY <2>1, <2>3, <2>4, Takes DEF Promise!Clear, Promise!Nothing, Empty
<1> QED
  BY <1>4, <1>5, <1>6, <1>8, <1>9

LEMMA MemberFollows ==
    ASSUME NEW p, LoneFacts(p), UpdateRow(p) \/ DeleteRow(p) \/ NotFound(p)
    PROVE  Follows
<1>0. p \in Proc /\ CartInv /\ CartInv' /\ TypeOK /\ JobFits(p) /\ JobFits(p)'
  BY DEF LoneFacts, CartInv
<1>1. /\ ~Merging(p) /\ ~Merging(p)' /\ pc[p] = "start" /\ pc'[p] = "idle" /\ job[p] \in Jobs
      /\ Pending(p) = job[p] /\ ~Waiting(p)' /\ Touched(job[p]) = {job[p].owner}
  <2>1. pc[p] = "start" /\ pc'[p] = "idle" /\ job[p].kind \in {"update", "remove"}
    BY <1>0 DEF UpdateRow, DeleteRow, NotFound, At, Done, GoTo, TypeOK
  <2>2. ~Merging(p) /\ ~Merging(p)'
    BY <1>0, <2>1 DEF JobFits, Merging, NoJob
  <2> QED
    BY <1>0, <2>1, <2>2 DEF JobFits, Pending, Waiting, Touched
<1> DEFINE u == job[p].owner
           i == job[p].option
<1>2. CASE UpdateRow(p)
  <2> DEFINE n == job[p].quantity
  <2>1. /\ u \in User /\ i \in Option /\ n \in 0 .. MaxUnits /\ n # 0 /\ job[p].kind = "update"
        /\ member[u][i] > 0 /\ SetMember(u, i, rowId[u][i], n) /\ UNCHANGED redis
    BY <1>1, <1>2, JobIs, CartConstants DEF UpdateRow, At, ForMember
  <2>2. rowId[u][i] \in Nat /\ (rowId[u][i] = 0 <=> n = 0)
    BY <1>0, <2>1 DEF TypeOK
  <2>3. /\ member'[u][i] = n
        /\ \A v \in User, k \in Option : v # u \/ k # i => member'[v][k] = member[v][k]
    <3> HIDE DEF u, i, n
    <3> QED
      BY <1>0, <2>1, <2>2, MemberSet
  <2>5. Touched(job[p]) = {u}
    BY <1>1
  <2>4. Carts' = [Carts EXCEPT ![u] = [Carts[u] EXCEPT ![i] = n]]
    <3> HIDE DEF u, i, n
    <3> QED
      BY <1>1, <2>1, <2>3, <2>5, MemberWrites
  <2>6. Carts' = [Carts EXCEPT ![u][i] = n]
    BY <2>4
  <2> QED
    BY <1>1, <2>1, <2>6, Takes DEF Promise!SetQuantity
<1>3. CASE DeleteRow(p)
  <2>1. /\ u \in User /\ i \in Option /\ 0 \in 0 .. MaxUnits /\ job[p].kind = "remove"
        /\ SetMember(u, i, 0, 0) /\ UNCHANGED redis
    BY <1>1, <1>3, JobIs, CartConstants DEF DeleteRow, At, ForMember
  <2>3. /\ member'[u][i] = 0
        /\ \A v \in User, k \in Option : v # u \/ k # i => member'[v][k] = member[v][k]
    <3> HIDE DEF u, i
    <3> QED
      BY <1>0, <2>1, MemberSet
  <2>5. Touched(job[p]) = {u}
    BY <1>1
  <2>4. Carts' = [Carts EXCEPT ![u] = [Carts[u] EXCEPT ![i] = 0]]
    <3> HIDE DEF u, i
    <3> QED
      BY <1>1, <2>1, <2>3, <2>5, MemberWrites
  <2>6. Carts' = [Carts EXCEPT ![u][i] = 0]
    BY <2>4
  <2> QED
    BY <1>1, <2>1, <2>6, Takes DEF Promise!Remove
<1>4. CASE NotFound(p)
  <2>1. /\ job[p].kind \in {"update", "remove"} /\ UNCHANGED <<guest, member>>
        /\ u \in CartId \cup User
        /\ IF u \in CartId THEN guest[u][i] = 0 ELSE member[u][i] = 0
    BY <1>1, <1>4, JobIs DEF NotFound, ForGuest, redis, database
  <2>2. Carts' = Carts
    BY <1>1, <2>1, NothingWritten
  <2>3. /\ u \in CartId => Carts[u] = guest[u]
        /\ u \in User => Carts[u] = member[u]
    BY <1>1, PlainShows DEF LoneFacts
  <2>4. Carts[u][i] = 0
    BY <2>1, <2>3
  <2> QED
    BY <1>1, <2>1, <2>2, <2>4, Takes DEF Promise!Refuse
<1> QED
  BY <1>2, <1>3, <1>4

LEMMA SaveFollows ==
    ASSUME NEW p, LoneFacts(p),
           \/ FindRow(p) \/ Reload(p) \/ WriteRow(p) \/ InsertRow(p) \/ DuplicateRow(p)
    PROVE  Follows
<1>0. /\ p \in Proc /\ CartInv /\ CartInv' /\ TypeOK /\ JobFits(p) /\ JobFits(p)' /\ Alone(p)
      /\ p \notin contested /\ RequestStep(p)
  BY DEF LoneFacts, CartInv, RequestStep
<1>1. CASE FindRow(p) \/ Reload(p)
  <2>1. /\ UNCHANGED <<redis, database, job, entries, rest, contested>>
        /\ pc'[p] \in {"save", "update", "insert"}
        /\ \/ job[p].kind = "add"
           \/ job[p].kind = "merge" /\ pc[p] \in {"upsert", "save"}
    <3>1. CASE FindRow(p)
      BY <1>0, <3>1 DEF FindRow, GoTo, TypeOK, At
    <3>2. CASE Reload(p)
      <4>1. job[p].kind \in {"add", "merge"} /\ pc[p] = "save"
        BY <1>0, <3>2, UpsertIs DEF Reload, JobFits
      <4> QED
        BY <1>0, <3>2, <4>1, ReloadIs
    <3> QED
      BY <1>1, <3>1, <3>2
  <2>2. CASE job[p].kind = "add"
    <3>1. ~Merging(p) /\ ~Merging(p)'
      BY <2>1, <2>2 DEF Merging
    <3> QED
      BY <1>0, <2>1, <3>1, NothingWritten, GoesOn DEF redis, database, Waiting
  <2>3. CASE job[p].kind = "merge" /\ pc[p] \in {"upsert", "save"}
    <3>1. Merging(p) /\ Merging(p)' /\ job'[p] = job[p]
      BY <1>0, <2>1, <2>3 DEF Merging
    <3> QED
      BY <1>0, <2>1, <3>1, MergeGoesOn, GoesOn DEF Waiting
  <2> QED
    BY <2>1, <2>2, <2>3
<1>2. CASE WriteRow(p) \/ InsertRow(p)
  <2> DEFINE u == job[p].owner
             i == job[p].option
  <2>1. /\ Upserts(p) /\ Saved(p) /\ UNCHANGED redis /\ member' \in [User -> Quantities]
        /\ member'[u][i] = member[u][i] + Units(p)
        /\ \A v \in User, k \in Option : v # u \/ k # i => member'[v][k] = member[v][k]
    BY <1>0, <1>2, WriteIs
  <2>2. u \in User /\ i \in Option /\ pc[p] \in {"update", "insert"}
    BY <1>0, <1>2, <2>1, UpsertIs DEF WriteRow, InsertRow
  <2>3. CASE job[p].kind = "add"
    <3>1. Done(p) /\ job[p] \in Jobs
      BY <2>1, <2>3, MergeJobIs DEF Saved, Upserts
    <3>2. pc'[p] = "idle"
      BY <1>0, <3>1 DEF Done, GoTo, TypeOK
    <3>3. ~Merging(p) /\ ~Merging(p)' /\ Pending(p) = job[p] /\ ~Waiting(p)' /\ Touched(job[p]) = {u}
      BY <1>0, <2>2, <2>3, <3>2 DEF Merging, JobFits, NoJob, Pending, Waiting, Touched
    <3>4. member'[u][i] \in 0 .. MaxUnits
      BY <2>1, <2>2 DEF Quantities
    <3>5. Carts[u] = member[u] /\ Carts' = [Carts EXCEPT ![u] = [Carts[u] EXCEPT ![i] = member'[u][i]]]
      <4> DEFINE n == member'[u][i]
      <4>1. n \in 0 .. MaxUnits /\ member'[u][i] = n
        BY <3>4
      <4> HIDE DEF u, i, n
      <4>2. Carts[u] = member[u] /\ Carts' = [Carts EXCEPT ![u] = [Carts[u] EXCEPT ![i] = n]]
        BY <2>1, <2>2, <3>3, <4>1, MemberWrites
      <4> QED
        BY <4>1, <4>2
    <3>6. member'[u][i] = Carts[u][i] + job[p].quantity
      BY <2>1, <2>3, <3>5 DEF Units
    <3>7. Carts' = [Carts EXCEPT ![u][i] = @ + job[p].quantity]
      BY <3>5, <3>6
    <3> QED
      BY <2>3, <3>1, <3>3, <3>7, Takes DEF Promise!Add
  <2>4. CASE job[p].kind = "merge"
    <3>1. /\ rest' = [rest EXCEPT ![p] = [rest[p] EXCEPT ![i] = 0]]
          /\ job' = [job EXCEPT ![p] = [job[p] EXCEPT !.option = None]]
          /\ pc' = [pc EXCEPT ![p] = "loop"] /\ entries' = entries /\ contested' = contested
      BY <2>1, <2>4 DEF Saved, GoTo
    <3>2. /\ pc'[p] = "loop" /\ job'[p] = [job[p] EXCEPT !.option = None]
          /\ rest'[p] = [rest[p] EXCEPT ![i] = 0]
      BY <1>0, <3>1 DEF TypeOK
    <3>3. job[p] \in MergeJobs /\ Units(p) = rest[p][i] /\ rest[p] \in Quantities /\ entries[p] \in Quantities
      BY <1>0, <2>1, <2>4, JobIs DEF Upserts, Units, TypeOK
    <3>4. /\ job'[p].owner = u /\ job'[p].cart = job[p].cart /\ job'[p].kind = "merge"
          /\ [job'[p] EXCEPT !.option = None] = [job[p] EXCEPT !.option = None]
      BY <3>2, <3>3 DEF MergeJobs
    <3>5. Merging(p) /\ Merging(p)' /\ guest' = guest
      BY <1>0, <2>1, <2>2, <2>4, <3>1, <3>2, <3>4 DEF Merging, redis
    <3>7. \A c \in CartId : GuestShows(p, c)' = GuestShows(p, c)
      BY <3>1, <3>4, <3>5 DEF GuestShows
    <3>8. ASSUME NEW v \in User PROVE MemberShows(p, v)' = MemberShows(p, v)
      <4>1. CASE v # u
        <5>1. member'[v] \in Quantities /\ member[v] \in Quantities
          BY <1>0, <2>1 DEF TypeOK
        <5>2. member'[v] = member[v]
          BY <2>1, <4>1, <5>1 DEF Quantities
        <5> QED
          BY <3>4, <3>5, <4>1, <5>2 DEF MemberShows
      <4>2. CASE v = u
        <5>1. /\ MemberShows(p, v) = [k \in Option |-> member[u][k] - (entries[p][k] - rest[p][k])]
              /\ MemberShows(p, v)' = [k \in Option |-> member'[u][k] - (entries[p][k] - rest'[p][k])]
          BY <3>1, <3>4, <3>5, <4>2 DEF MemberShows, NotYet
        <5>2. ASSUME NEW k \in Option
              PROVE  member'[u][k] - (entries[p][k] - rest'[p][k])
                       = member[u][k] - (entries[p][k] - rest[p][k])
          <6>1. member[u] \in Quantities
            BY <1>0, <2>2 DEF TypeOK
          <6>2. member[u][k] \in Int /\ entries[p][k] \in Int /\ rest[p][k] \in Int
            BY <3>3, <6>1, CartConstants DEF Quantities
          <6>3. CASE k = i
            <7>1. rest'[p][k] = 0 /\ member'[u][k] = member[u][k] + rest[p][k]
              BY <2>1, <3>2, <3>3, <6>3 DEF Quantities
            <7> QED
              BY <6>2, <7>1
          <6>4. CASE k # i
            <7>1. rest'[p][k] = rest[p][k] /\ member'[u][k] = member[u][k]
              BY <2>1, <2>2, <3>2, <3>3, <6>4 DEF Quantities
            <7> QED
              BY <7>1
          <6> QED
            BY <6>3, <6>4
        <5> QED
          BY <5>1, <5>2
      <4> QED
        BY <4>1, <4>2
    <3>9. Carts' = Carts
      <4>1. Shows(p)
        BY DEF LoneFacts
      <4>2. \A o \in Touched(job[p]) : Carts'[o] = Carts[o]
        BY <3>7, <3>8, <4>1 DEF Shows
      <4> QED
        BY <4>1, <4>2, NoCartChanges
    <3> QED
      BY <1>0, <3>2, <3>9, GoesOn DEF Waiting
  <2> QED
    BY <2>1, <2>3, <2>4, UpsertIs, <1>0
<1>3. CASE DuplicateRow(p)
  <2>1. job[p].owner \in User /\ job[p].option \in Option /\ pc[p] = "insert"
    BY <1>0, <1>3, UpsertIs DEF DuplicateRow, JobFits
  <2>2. seen[p].id = 0 /\ seen[p].id = rowId[job[p].owner][job[p].option]
    BY <1>0, <2>1 DEF Alone
  <2> QED
    BY <1>3, <2>2 DEF DuplicateRow
<1> QED
  BY <1>1, <1>2, <1>3

LEMMA MergeFollows ==
    ASSUME NEW p, LoneFacts(p), HGetAll(p) \/ NextEntry(p) \/ DelKey(p)
    PROVE  Follows
<1>0. /\ p \in Proc /\ CartInv /\ CartInv' /\ TypeOK /\ JobFits(p) /\ JobFits(p)' /\ Alone(p)
      /\ p \notin contested /\ RequestStep(p) /\ Shows(p)
  BY DEF LoneFacts, CartInv, RequestStep
<1>1. /\ job[p] \in Jobs /\ job[p].kind = "merge" /\ job[p].option = None
      /\ job[p].cart \in CartId /\ job[p].owner \in User /\ job[p].cart # job[p].owner
      /\ Pending(p) = job[p] /\ Touched(job[p]) = {job[p].owner, job[p].cart}
  <2>1. job[p] \in Jobs /\ job[p].kind = "merge"
    BY <1>0 DEF HGetAll, NextEntry, DelKey, At, JobFits
  <2>2. [job[p] EXCEPT !.option = None] = job[p]
    BY <2>1 DEF Jobs
  <2>3. Pending(p) = job[p] /\ Touched(job[p]) = {job[p].owner, job[p].cart}
    BY <2>1, <2>2 DEF Pending, Touched, LoneFacts
  <2> QED
    BY <2>1, <2>3, JobIs, CartConstants
<1> DEFINE c == job[p].cart
           u == job[p].owner
<1>2. CASE HGetAll(p)
  <2>1. /\ pc[p] = "start" /\ pc'[p] = (IF guest[c] = Empty THEN "end" ELSE "loop")
        /\ entries'[p] = guest[c] /\ rest'[p] = guest[c]
        /\ UNCHANGED <<guest, member, job, contested>> /\ ~Merging(p)
    <3>1. pc[p] = "start"
      BY <1>2 DEF HGetAll, At
    <3> QED
      BY <1>0, <1>2, <3>1, MergingIs DEF HGetAll, GoTo, TypeOK, redis, database
  <2>2. CASE guest[c] = Empty
    <3>1. pc'[p] = "end"
      BY <2>1, <2>2
    <3>2. ~Merging(p)' /\ ~Waiting(p)'
      BY <3>1 DEF Merging, Waiting
    <3>3. Carts' = Carts
      BY <2>1, <3>2, NothingWritten
    <3>4. /\ Carts \in [CartId \cup User -> [Option -> Int]]
          /\ Carts[c] = Empty
      <4>1. Carts \in [CartId \cup User -> [Option -> Int]]
        BY <1>0 DEF Shows
      <4>2. Carts[c] = guest[c]
        BY <1>0, <1>1, <2>1, <3>2, PlainShows
      <4> QED
        BY <2>2, <4>1, <4>2
    <3>5. Carts[u] = [k \in Option |-> Carts[u][k] + Carts[c][k]]
      <4>1. Carts[u] \in [Option -> Int] /\ \A k \in Option : Carts[c][k] = 0
        BY <1>1, <3>4, CartConstants
      <4> QED
        BY <4>1
    <3>6. Carts = [Carts EXCEPT ![c] = Empty, ![u] = [k \in Option |-> Carts[u][k] + Carts[c][k]]]
      <4> DEFINE owners == CartId \cup User
                 ints   == [Option -> Int]
                 sum    == [k \in Option |-> Carts[u][k] + Carts[c][k]]
      <4>1. Carts \in [owners -> ints] /\ Carts[c] = Empty /\ Carts[u] = sum
        BY <3>4, <3>5
      <4> HIDE DEF owners, ints, sum
      <4>2. Carts = [Carts EXCEPT ![c] = Empty, ![u] = sum]
        BY <4>1
      <4> QED
        BY <4>2 DEF sum
    <3>7. Carts' = [Carts EXCEPT ![c] = Empty, ![u] = [k \in Option |-> @[k] + Carts[c][k]]]
      <4>1. [Carts EXCEPT ![c] = Empty, ![u] = [k \in Option |-> @[k] + Carts[c][k]]]
              = [Carts EXCEPT ![c] = Empty, ![u] = [k \in Option |-> Carts[u][k] + Carts[c][k]]]
        BY <1>1, <3>4
      <4> QED
        BY <3>3, <3>6, <4>1
    <3> QED
      BY <1>1, <3>2, <3>7, Takes DEF Promise!Merge, Promise!Nothing, Empty
  <2>3. CASE guest[c] # Empty
    <3>1. pc'[p] = "loop" /\ job'[p] = job[p]
      BY <2>1, <2>3
    <3>2. Merging(p)'
      BY <1>0, <1>1, <2>1, <3>1 DEF Merging
    <3>4. \A d \in CartId : GuestShows(p, d)' = GuestShows(p, d)
      BY <2>1, <3>1, <3>2 DEF GuestShows
    <3>5. ASSUME NEW v \in User PROVE MemberShows(p, v)' = MemberShows(p, v)
      <4>1. CASE v # u
        BY <2>1, <3>1, <4>1 DEF MemberShows
      <4>2. CASE v = u
        <5>1. /\ MemberShows(p, v) = member[v]
              /\ MemberShows(p, v)' = [k \in Option |-> member[v][k] - (guest[c][k] - guest[c][k])]
          BY <2>1, <3>1, <3>2, <4>2 DEF MemberShows, NotYet
        <5>2. member[v] \in [Option -> Int] /\ guest[c] \in [Option -> Int]
          BY <1>0, <1>1, Integral DEF TypeOK
        <5>3. [k \in Option |-> member[v][k] - (guest[c][k] - guest[c][k])] = member[v]
          BY <5>2
        <5> QED
          BY <5>1, <5>3
      <4> QED
        BY <4>1, <4>2
    <3>6. \A o \in Touched(job[p]) : Carts'[o] = Carts[o]
      BY <1>0, <3>4, <3>5 DEF Shows
    <3>7. Carts' = Carts
      BY <1>0, <3>6, NoCartChanges
    <3> QED
      BY <1>0, <3>1, <3>7, GoesOn DEF Waiting
  <2> QED
    BY <2>2, <2>3
<1>3. CASE NextEntry(p)
  <2>1. PICK i \in Option : job' = [job EXCEPT ![p] = [job[p] EXCEPT !.option = i]]
    BY <1>3 DEF NextEntry
  <2>2. /\ pc[p] = "loop" /\ pc'[p] = "upsert" /\ UNCHANGED <<redis, database, entries, rest, seen, contested>>
        /\ job'[p] = [job[p] EXCEPT !.option = i]
    BY <1>0, <1>3, <2>1 DEF NextEntry, At, GoTo, TypeOK
  <2>3. job'[p].owner = u /\ job'[p].cart = c /\ job'[p].kind = "merge"
    BY <1>1, <2>2 DEF Jobs
  <2>4. Merging(p) /\ Merging(p)'
    BY <1>0, <1>1, <2>2, <2>3 DEF Merging
  <2>5. Carts' = Carts
    BY <2>2, <2>3, <2>4, MergeGoesOn
  <2> QED
    BY <1>0, <2>2, <2>5, GoesOn DEF Waiting
<1>4. CASE DelKey(p)
  <2>1. /\ pc[p] = "loop" /\ pc'[p] = "end" /\ rest[p] = Empty
        /\ SetGuest(c, Empty) /\ UNCHANGED <<database, job, entries, rest, seen, contested>>
    BY <1>0, <1>4 DEF DelKey, At, GoTo, TypeOK
  <2>2. Merging(p) /\ ~Merging(p)' /\ ~Waiting(p)'
    BY <1>0, <1>1, <2>1 DEF Merging, Waiting
  <2>4. guest'[c] = Empty
    BY <1>0, <1>1, <2>1, GuestSet, CartConstants
  <2>6. /\ Carts[c] = entries[p] /\ Carts'[c] = Empty
        /\ Carts[u] = [k \in Option |-> member[u][k] - (entries[p][k] - rest[p][k])]
        /\ Carts'[u] = member[u]
    BY <1>0, <1>1, <2>1, <2>2, <2>4 DEF Shows, GuestShows, MemberShows, NotYet, database
  <2>7. Carts'[u] = [k \in Option |-> Carts[u][k] + Carts[c][k]]
    <3>1. member[u] \in [Option -> Int] /\ entries[p] \in [Option -> Int] /\ \A k \in Option : rest[p][k] = 0
      BY <1>0, <1>1, <2>1, Integral, CartConstants DEF TypeOK
    <3>2. member[u] = [k \in Option |-> member[u][k]]
      BY <3>1
    <3>3. ASSUME NEW k \in Option PROVE Carts[u][k] + Carts[c][k] = member[u][k]
      <4>1. /\ Carts[u][k] = member[u][k] - (entries[p][k] - rest[p][k])
            /\ Carts[c][k] = entries[p][k]
        BY <2>6
      <4>2. member[u][k] \in Int /\ entries[p][k] \in Int /\ rest[p][k] = 0
        BY <3>1
      <4> QED
        BY <4>1, <4>2
    <3> QED
      BY <2>6, <3>2, <3>3
  <2>8. Carts' = [Carts EXCEPT ![c] = Carts'[c], ![u] = Carts'[u]]
    BY <1>0, <1>1, TwoCartsChange
  <2>9. Carts' = [Carts EXCEPT ![c] = Empty, ![u] = [k \in Option |-> @[k] + Carts[c][k]]]
    <3>1. [Carts EXCEPT ![c] = Empty, ![u] = [k \in Option |-> @[k] + Carts[c][k]]]
            = [Carts EXCEPT ![c] = Empty, ![u] = [k \in Option |-> Carts[u][k] + Carts[c][k]]]
      BY <1>0, <1>1 DEF Shows
    <3> QED
      BY <2>6, <2>7, <2>8, <3>1
  <2> QED
    BY <1>1, <2>2, <2>9, Takes DEF Promise!Merge, Promise!Nothing, Empty
<1> QED
  BY <1>2, <1>3, <1>4

LEMMA CrashFollows ==
    ASSUME NEW p, LoneFacts(p), Crash(p)
    PROVE  Follows
<1>0. p \in Proc /\ CartInv /\ CartInv' /\ TypeOK /\ JobFits(p) /\ JobFits(p)' /\ Alone(p) /\ Shows(p)
  BY DEF LoneFacts, CartInv
<1>1. pc[p] # "idle" /\ pc'[p] = "idle" /\ UNCHANGED <<guest, member>>
  BY <1>0 DEF Crash, Done, GoTo, TypeOK, redis, database
<1>2. /\ ~Merging(p)' /\ Asked[p] # NoJob /\ Asked[p] = Pending(p) /\ p \notin Disputed
      /\ Asked' = [Asked EXCEPT ![p] = NoJob] /\ Disputed' = Disputed
  <2>1. ~Merging(p)' /\ Pending(p)' = NoJob
    BY <1>0, <1>1 DEF JobFits, Merging, NoJob, Pending, Waiting
  <2> QED
    BY <2>1 DEF LoneFacts, Shows
<1>4. CASE ~Merging(p)
  <2>1. Carts' = Carts
    BY <1>1, <1>2, <1>4, NothingWritten
  <2>2. Promise!Fail(p)
    BY <1>2, <2>1 DEF Promise!Fail, Promise!Alone
  <2> QED
    BY <1>0, <2>2 DEF Follows, Promise!Next
<1>5. CASE Merging(p)
  <2> DEFINE c      == job[p].cart
             u      == job[p].owner
             r      == [job[p] EXCEPT !.option = None]
             copied == {k \in Option : rest[p][k] # entries[p][k]}
             now    == [k \in Option |-> IF k \in copied THEN Carts[u][k] + Carts[c][k] ELSE Carts[u][k]]
  <2>1. /\ c \in CartId /\ u \in User /\ job[p].kind = "merge"
        /\ r \in Jobs /\ r.kind = "merge" /\ r.cart = c /\ r.owner = u
        /\ Asked[p] = r /\ Touched(job[p]) = {u, c}
    <3>1. /\ c \in CartId /\ u \in User /\ r \in Jobs /\ job[p].kind = "merge"
          /\ Pending(p) = r /\ Touched(job[p]) = {u, c}
      BY <1>0, <1>5, MergingIs DEF Pending
    <3>2. job[p] \in Jobs \cup MergeJobs
      BY <1>0, <3>1 DEF TypeOK, NoJob
    <3>3. r.kind = "merge" /\ r.cart = c /\ r.owner = u
      BY <3>1, <3>2 DEF Jobs, MergeJobs
    <3> QED
      BY <1>2, <3>1, <3>3
  <2>2. Carts \in [CartId \cup User -> [Option -> Int]]
    BY <1>0 DEF Shows
  <2>3. /\ Carts[c] = entries[p] /\ Carts'[c] = guest[c]
        /\ Carts[u] = [k \in Option |-> member[u][k] - (entries[p][k] - rest[p][k])]
        /\ Carts'[u] = member[u]
    BY <1>0, <1>1, <1>2, <1>5, <2>1 DEF Shows, GuestShows, MemberShows, NotYet
  <2>5. Carts' = [Carts EXCEPT ![c] = guest[c], ![u] = Carts'[u]]
    BY <1>0, <2>1, <2>3, TwoCartsChange
  <2>6. Carts'[u] = now
    <3>1. member[u] \in [Option -> Int] /\ entries[p] \in [Option -> Int] /\ rest[p] \in [Option -> Int]
      BY <1>0, <2>1, Integral DEF TypeOK
    <3>2. member[u] = [k \in Option |-> member[u][k]]
      BY <3>1
    <3>3. ASSUME NEW k \in Option
          PROVE  (IF k \in copied THEN Carts[u][k] + Carts[c][k] ELSE Carts[u][k]) = member[u][k]
      <4>1. /\ Carts[u][k] = member[u][k] - (entries[p][k] - rest[p][k])
            /\ Carts[c][k] = entries[p][k] /\ rest[p][k] \in {0, entries[p][k]}
        BY <1>0, <1>5, <2>3 DEF Alone
      <4>2. member[u][k] \in Int /\ entries[p][k] \in Int /\ rest[p][k] \in Int
        BY <3>1
      <4> QED
        BY <4>1, <4>2
    <3> HIDE DEF copied
    <3> QED
      BY <2>3, <3>2, <3>3
  <2>7. guest[c] \in {[k \in Option |-> 0], Carts[c]} /\ copied \in SUBSET Option
    BY <1>0, <1>5, <2>3 DEF Alone, Empty
  <2>8. Carts' = [Carts EXCEPT
                     ![c] = guest[c],
                     ![u] = [k \in Option |-> IF k \in copied THEN @[k] + Carts[c][k] ELSE @[k]]]
    <3> HIDE DEF copied
    <3>1. c # u /\ Carts \in [CartId \cup User -> [Option -> Int]]
      BY <2>1, <2>2, CartConstants
    <3> QED
      BY <2>1, <2>5, <2>6, <3>1
  <2>10. \E some \in SUBSET Option, left \in {[k \in Option |-> 0], Carts[c]} :
            Carts' = [Carts EXCEPT
                         ![c] = left,
                         ![u] = [k \in Option |-> IF k \in some THEN @[k] + Carts[c][k] ELSE @[k]]]
    <3> HIDE DEF copied
    <3> QED
      BY <2>7, <2>8, Zenon
  <2>11. Asked[p].kind = "merge" /\ Asked[p].cart = c /\ Asked[p].owner = u
    BY <2>1
  <2> HIDE DEF c, u, r
  <2>12. ASSUME NEW some \in SUBSET Option, NEW left \in {[k \in Option |-> 0], Carts[c]},
                Carts' = [Carts EXCEPT
                             ![c] = left,
                             ![u] = [k \in Option |-> IF k \in some THEN @[k] + Carts[c][k] ELSE @[k]]]
         PROVE  \E copies \in SUBSET Option, remains \in {[k \in Option |-> 0], Carts[Asked[p].cart]} :
                   Carts' = [Carts EXCEPT
                                ![Asked[p].cart] = remains,
                                ![Asked[p].owner] =
                                    [k \in Option |->
                                        IF k \in copies THEN @[k] + Carts[Asked[p].cart][k] ELSE @[k]]]
    <3> DEFINE d == Asked[p].cart
               v == Asked[p].owner
    <3>1. d = c /\ v = u
      BY <2>11
    <3> HIDE DEF d, v
    <3>2. [k \in Option |-> IF k \in some THEN Carts[u][k] + Carts[c][k] ELSE Carts[u][k]]
            = [k \in Option |-> IF k \in some THEN Carts[v][k] + Carts[d][k] ELSE Carts[v][k]]
      BY <3>1
    <3>3. Carts' = [Carts EXCEPT
                       ![d] = left,
                       ![v] = [k \in Option |-> IF k \in some THEN @[k] + Carts[d][k] ELSE @[k]]]
      BY <2>12, <3>1, <3>2
    <3>4. left \in {[k \in Option |-> 0], Carts[d]}
      BY <3>1
    <3> QED
      BY <3>3, <3>4, Zenon DEF d, v
  <2>13. Promise!Alone(p)
    BY <1>2 DEF Promise!Alone
  <2>14. Promise!Fail(p)
    BY <1>2, <2>10, <2>11, <2>12, <2>13, Zenon DEF Promise!Fail, Promise!Nothing
  <2> QED
    BY <1>0, <2>14 DEF Follows, Promise!Next
<1> QED
  BY <1>4, <1>5

LEMMA LoneFollows ==
    ASSUME LoneInv, LoneInv', NEW p, Lone(p)
    PROVE  Follows
<1>1. LoneFacts(p) /\ RequestStep(p)
  BY ShowsStep DEF Lone
<1>2. pc[p] \notin {"idle", "expire", "end"}
  BY DEF Lone, Waiting
<1>3. ~Begin(p) /\ ~Expire(p) /\ ~MergeEnd(p)
  BY <1>2 DEF Begin, Expire, MergeEnd, At
<1> QED
  BY <1>1, <1>3, GuestFollows, MemberFollows, SaveFollows, MergeFollows, CrashFollows DEF RequestStep

LEMMA TtlFollowsPromise ==
    ASSUME LoneInv, LoneInv', NEW c \in CartId, TtlExpires(c)
    PROVE  Follows
<1>1. SetGuest(c, Empty) /\ UNCHANGED <<database, requests>>
  BY DEF TtlExpires
<1>2. guest'[c] = Empty /\ \A d \in CartId \ {c} : guest'[d] = guest[d]
  BY <1>1, GuestSet, CartConstants DEF LoneInv, CartInv
<1>3. CartsHold /\ CartsHold' /\ CartId \cap User = {}
  BY CartsAre, CartsNext, CartConstants
<1>4. Asked' = Asked /\ Disputed' = Disputed
  BY <1>1 DEF Asked, Disputed, Pending, Waiting, requests
<1>5. \A p \in Proc : /\ (Merging(p)' <=> Merging(p)) /\ job'[p] = job[p] /\ entries'[p] = entries[p]
                      /\ NotYet(p)' = NotYet(p)
  BY <1>1 DEF Merging, NotYet, requests, database
<1>6. ASSUME NEW u \in User PROVE Carts'[u] = Carts[u]
  <2>1. CASE \E p \in Proc : Merging(p) /\ job[p].owner = u
    BY <1>3, <1>5, <2>1 DEF CartsHold
  <2>2. CASE \A p \in Proc : ~(Merging(p) /\ job[p].owner = u)
    <3>1. \A p \in Proc : ~(Merging(p)' /\ job'[p].owner = u)
      BY <1>5, <2>2
    <3> QED
      BY <1>1, <1>3, <2>2, <3>1 DEF CartsHold, database
  <2> QED
    BY <2>1, <2>2
<1>7. ASSUME NEW d \in CartId
      PROVE  \/ Carts'[d] = Carts[d]
             \/ d = c /\ Carts'[d] = Empty
  <2>1. CASE \E p \in Proc : Merging(p) /\ job[p].cart = d
    BY <1>3, <1>5, <2>1 DEF CartsHold
  <2>2. CASE \A p \in Proc : ~(Merging(p) /\ job[p].cart = d)
    <3>1. \A p \in Proc : ~(Merging(p)' /\ job'[p].cart = d)
      BY <1>5, <2>2
    <3>2. Carts[d] = guest[d] /\ Carts'[d] = guest'[d]
      BY <1>3, <2>2, <3>1 DEF CartsHold
    <3> QED
      BY <1>2, <3>2
  <2> QED
    BY <2>1, <2>2
<1> DEFINE owners == CartId \cup User
           ints   == [Option -> Int]
<1>8. /\ Carts \in [owners -> ints] /\ Carts' \in [owners -> ints] /\ c \in owners
      /\ \A o \in owners \ {c} : Carts'[o] = Carts[o]
      /\ Carts'[c] = Carts[c] \/ Carts'[c] = Empty
  BY <1>3, <1>6, <1>7 DEF CartsHold
<1> HIDE DEF owners, ints
<1>9. CASE Carts'[c] = Carts[c]
  <2>1. Carts' = Carts
    BY <1>8, <1>9
  <2> QED
    BY <1>4, <2>1 DEF Follows
<1>10. CASE Carts'[c] = Empty
  <2>1. Carts' = [Carts EXCEPT ![c] = Empty]
    BY <1>8, <1>10
  <2>2. Promise!Expire(c)
    BY <1>4, <2>1 DEF Promise!Expire, Promise!Nothing, Empty
  <2> QED
    BY <2>2 DEF Follows, Promise!Next
<1> QED
  BY <1>8, <1>9, <1>10

(* However many requests are served at once, one that meets no other on its    *)
(* carts takes effect once, at once and as a whole: a login adds every unit of *)
(* the guest's cart to the member's, and one that dies half way has added some *)
(* entries whole and lost none.  Requests that meet leave every other cart as  *)
(* it is (cart.service.ts 53-183).                                            *)
THEOREM ImplementsCart == Spec => CartSpec
<1>1. Init => Promise!Init
  <2> SUFFICES ASSUME Init PROVE Promise!Init
    OBVIOUS
  <2>1. CartsHold
    BY LoneInit, CartsAre
  <2>2. \A p \in Proc : pc[p] = "idle" /\ ~Merging(p) /\ Pending(p) = NoJob
    BY DEF Init, Merging, NoJob, Pending, Waiting
  <2>3. Asked = [p \in Proc |-> NoJob] /\ Disputed = {}
    BY <2>2 DEF Asked, Disputed, Init
  <2>4. /\ Carts \in [CartId \cup User -> [Option -> Int]]
        /\ \A o \in CartId \cup User : Carts[o] = Empty
    BY <2>1, <2>2 DEF CartsHold, Init
  <2>5. Carts = [o \in CartId \cup User |-> Empty]
    BY <2>4
  <2> QED
    BY <2>3, <2>5 DEF Promise!Init, Promise!Nothing, Empty
<1>2. LoneInv /\ LoneInv' /\ [Next]_vars => [Promise!Next]_<<Carts, Asked, Disputed>>
  <2> SUFFICES ASSUME LoneInv, LoneInv', [Next]_vars PROVE Follows
    BY DEF Follows
  <2>1. CASE UNCHANGED vars
    <3>1. UNCHANGED Carts
      BY <2>1 DEF Carts, GuestUnits, MemberUnits, Merging, vars, redis, database, requests
    <3>2. UNCHANGED <<Asked, Disputed>>
      BY <2>1 DEF Asked, Disputed, Pending, Waiting, vars, requests
    <3> QED
      BY <3>1, <3>2 DEF Follows
  <2>2. CASE \E p \in Proc : RequestStep(p)
    <3>1. PICK p \in Proc : RequestStep(p)
      BY <2>2
    <3>2. CASE Begin(p)
      BY <3>2, BeginFollows
    <3>3. CASE ~Begin(p) /\ (p \in contested \/ ~Waiting(p))
      BY <3>1, <3>3, DisputeFollows
    <3>4. CASE p \notin contested /\ Waiting(p)
      BY <3>1, <3>4, LoneFollows DEF Lone
    <3> QED
      BY <3>2, <3>3, <3>4
  <2>3. CASE \E c \in CartId : TtlExpires(c)
    BY <2>3, TtlFollowsPromise
  <2> QED
    BY <2>1, <2>2, <2>3 DEF Next, RequestStep
<1>3. Spec => []LoneInv
  BY LoneInit, LoneNext, PTL DEF Spec
<1>4. Spec => Promise!Init /\ [][Promise!Next]_<<Carts, Asked, Disputed>>
  BY <1>1, <1>2, <1>3, PTL DEF Spec
<1> QED
  BY <1>4 DEF CartSpec, Promise!Spec, Promise!cartVars
=============================================================================
