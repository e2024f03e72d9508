--------------------------- MODULE OrderRowProofs ---------------------------
(***************************************************************************)
(* Theorems about what an order row records: its delivery stages and its    *)
(* payment, whatever requests and late gateway calls compete for it.        *)
(***************************************************************************)
EXTENDS OrdersProofs

(* What a step changes.                                                     *)

Commits(p) ==
    \/ ReclaimCommit(p) \/ CancelCommit(p) \/ CreateCommit(p)
    \/ SaveConfirm(p) \/ SaveStatus(p) \/ SaveDelivery(p)

Calls(p) == PgSilent(p) \/ PgConfirmOk(p) \/ PgCancelOk(p) \/ PgFailed(p)

\* Order rows are written by commits, which leave the gateway alone, and the
\* gateway acts in steps that write no row.
LEMMA RowsOrGateway ==
    ASSUME [Next]_vars
    PROVE  \/ UNCHANGED <<status, paymentKey, timeline, pg, late>>
           \/ UNCHANGED <<pg, late>> /\ \E p \in Proc : Commits(p)
           \/ /\ UNCHANGED <<status, paymentKey, timeline>>
              /\ \/ \E p \in Proc : Calls(p)
                 \/ \E o \in OrderId : PgLate(o)
<1> DEFINE Kept == UNCHANGED <<status, paymentKey, timeline, pg, late>>
<1> DEFINE Committed(p) == UNCHANGED <<pg, late>> /\ Commits(p)
<1> DEFINE Called(p) == UNCHANGED <<status, paymentKey, timeline>> /\ Calls(p)
<1>1. ASSUME NEW p \in Proc, Arrival(p) \/ Abort(p) \/ DeadlockVictim(p)
      PROVE  Kept
  BY <1>1 DEF Arrival, Begin, CreateOrder, GetStockOverview, Confirm, UpdateOrderStatus,
         AddDeliveryEvent, RestockOption, Abort, DeadlockVictim, RollBack, rows, gateway
<1>2. ASSUME NEW p \in Proc, Reclaim(p)
      PROVE  Kept \/ Committed(p)
  BY <1>2 DEF Reclaim, ScanCandidates, NextCandidate, LockCandidate, SkipCandidate,
         ReclaimCommit, SweepDone, rows, gateway, Commits
<1>3. ASSUME NEW p \in Proc, Checkout(p)
      PROVE  Kept \/ Committed(p)
  BY <1>3 DEF Checkout, StartOrder, LockOption, CreateCommit, StockInsufficient,
         RollBack, rows, gateway, Commits
<1>4. ASSUME NEW p \in Proc, OrderRow(p)
      PROVE  Kept \/ Committed(p)
  BY <1>4 DEF OrderRow, LockOrder, Reject, SaveConfirm, SaveStatus, CancelCommit,
         SaveDelivery, rows, gateway, Commits
<1>5. ASSUME NEW p \in Proc, Gateway(p) \/ PgSilent(p)
      PROVE  Called(p)
  BY <1>5 DEF Gateway, PgConfirmOk, PgCancelOk, PgFailed, PgSilent, RollBack, rows, Calls
<1>6. ASSUME NEW p \in Proc, RestockSteps(p)
      PROVE  Kept
  BY <1>6 DEF RestockSteps, RestockSame, RestockReload, RestockUpdate, rows, gateway
<1>7. ASSUME NEW o \in OrderId, TtlPasses(o)
      PROVE  Kept
  BY <1>7 DEF TtlPasses, rows, gateway
<1>8. ASSUME NEW o \in OrderId, PgLate(o)
      PROVE  UNCHANGED <<status, paymentKey, timeline>>
  BY <1>8 DEF PgLate, rows
<1>9. UNCHANGED vars => Kept
  BY DEF vars, rows, gateway
<1> QED
  BY <1>1, <1>2, <1>3, <1>4, <1>5, <1>6, <1>7, <1>8, <1>9 DEF Next, Serve

\* What a commit writes into the row of an order, and which row that is.
LEMMA CommitWrites ==
    ASSUME CoreInv, NEW p \in Proc, Commits(p)
    PROVE  \E o \in OrderId :
             /\ \/ status[o] = "none" /\ status'[o] = "PENDING"
                   /\ UNCHANGED <<paymentKey, timeline>>
                \/ OrderOpen(p) /\ o = cur[p] /\ orderLock[o] = p
             /\ \A x \in OrderId \ {o} :
                   /\ status'[x] = status[x] /\ paymentKey'[x] = paymentKey[x]
                   /\ timeline'[x] = timeline[x]
<1>t. TypeOK /\ JobFits(p) /\ CurFits(p) /\ OrderChecked(p)
  BY DEF CoreInv
<1>1. CASE CreateCommit(p)
  <2>1. PICK o \in OrderId : status[o] = "none" /\ status' = [status EXCEPT ![o] = "PENDING"]
    BY <1>1 DEF CreateCommit
  <2>2. UNCHANGED <<paymentKey, timeline>>
    BY <1>1 DEF CreateCommit
  <2> QED
    BY <2>1, <2>2, <1>t DEF TypeOK
<1>2. CASE ~CreateCommit(p)
  <2>1. OrderOpen(p)
    BY <1>2, <1>t DEF Commits, ReclaimCommit, CancelCommit, SaveConfirm, SaveStatus,
           SaveDelivery, OrderOpen, JobFits, CurFits
  <2>2. cur[p] \in OrderId /\ orderLock[cur[p]] = p
    BY <2>1, <1>t DEF CurFits, OrderChecked
  <2>3. \A x \in OrderId \ {cur[p]} :
           /\ status'[x] = status[x] /\ paymentKey'[x] = paymentKey[x]
           /\ timeline'[x] = timeline[x]
    BY <1>2, <1>t DEF Commits, ReclaimCommit, CancelCommit, SaveConfirm, SaveStatus,
           SaveDelivery, TypeOK
  <2> QED
    BY <2>1, <2>2, <2>3
<1> QED
  BY <1>1, <1>2

\* Seen from a request that does not take the step nothing has changed: neither
\* its own state, nor its locks, nor the order row it has locked.
Unmoved(r) ==
    /\ pc'[r] = pc[r] /\ job'[r] = job[r] /\ cur'[r] = cur[r]
    /\ need'[r] = need[r] /\ at'[r] = at[r]
    /\ \A i \in Option : optionLock'[i] = r <=> optionLock[i] = r
    /\ OrderOpen(r) =>
          /\ status'[cur[r]] = status[cur[r]]
          /\ paymentKey'[cur[r]] = paymentKey[cur[r]]
          /\ timeline'[cur[r]] = timeline[cur[r]]

LEMMA OthersUnmoved ==
    ASSUME CoreInv, [Next]_vars, NEW r \in Proc
    PROVE  Acts(r) \/ Unmoved(r)
<1> USE ConstantsAssumption
<1>t. TypeOK /\ CurFits(r) /\ OrderChecked(r)
  BY DEF CoreInv
<1>1. ASSUME NEW p \in Proc, Acts(p), p # r
      PROVE  Unmoved(r)
  <2>1. /\ pc'[r] = pc[r] /\ job'[r] = job[r] /\ cur'[r] = cur[r]
        /\ need'[r] = need[r] /\ at'[r] = at[r]
    BY <1>1, OthersKeepLocals
  <2>2. \A i \in Option : optionLock'[i] = r <=> optionLock[i] = r
    BY <1>1, OthersKeepLocks
  <2>3. ASSUME OrderOpen(r)
        PROVE  /\ status'[cur[r]] = status[cur[r]]
               /\ paymentKey'[cur[r]] = paymentKey[cur[r]]
               /\ timeline'[cur[r]] = timeline[cur[r]]
    <3>1. cur[r] \in OrderId /\ orderLock[cur[r]] = r /\ status[cur[r]] # "none"
      BY <2>3, <1>t DEF CurFits, OrderChecked
    <3>2. CASE Commits(p)
      BY <1>1, <3>1, <3>2, CommitWrites
    <3>3. CASE ~Commits(p)
      <4>1. UNCHANGED <<status, paymentKey, timeline>>
        BY <1>1, <3>3 DEF Acts, Arrival, Begin, CreateOrder, GetStockOverview, Confirm,
             UpdateOrderStatus, AddDeliveryEvent, RestockOption, Abort, DeadlockVictim,
             RollBack, Serve, Reclaim, ScanCandidates, NextCandidate, LockCandidate,
             SkipCandidate, SweepDone, Checkout, StartOrder, LockOption,
             StockInsufficient, OrderRow, LockOrder, Reject, Gateway, PgConfirmOk,
             PgCancelOk, PgFailed, RestockSteps, RestockSame, RestockReload,
             RestockUpdate, Commits, rows
      <4> QED
        BY <4>1
    <3> QED
      BY <3>2, <3>3
  <2> QED
    BY <2>1, <2>2, <2>3 DEF Unmoved
<1>2. ASSUME UNCHANGED <<rows, locks, requests>>
      PROVE  Unmoved(r)
  BY <1>2 DEF Unmoved, rows, locks, requests
<1>3. ASSUME NEW p \in Proc, PgSilent(p)
      PROVE  Unmoved(r)
  BY <1>2, <1>3 DEF PgSilent
<1>4. ASSUME NEW o \in OrderId, PgLate(o) \/ TtlPasses(o)
      PROVE  Unmoved(r)
  BY <1>2, <1>4 DEF PgLate, TtlPasses
<1>5. CASE UNCHANGED vars
  BY <1>2, <1>5 DEF vars
<1> QED
  BY <1>1, <1>3, <1>4, <1>5 DEF Next, Acts

\* How a request comes to be in the middle of a transaction.
LEMMA Entering ==
    ASSUME CoreInv, NEW p \in Proc, Acts(p)
    PROVE  \/ pc'[p] \notin {"locking", "save", "pgConfirm", "pgCancel"}
           \/ LockCandidate(p) \/ StartOrder(p) \/ LockOption(p)
           \/ LockOrder(p) \/ PgConfirmOk(p) \/ PgCancelOk(p)
<1>t. TypeOK
  BY DEF CoreInv
<1> DEFINE Out == pc'[p] \notin {"locking", "save", "pgConfirm", "pgCancel"}
<1>1. Answer(p) => Out
  BY <1>t DEF Answer, TypeOK
<1>2. ASSUME NEW l \in {"scan", "loop", "recheck", "wait", "reload", "update"}, GoTo(p, l)
      PROVE  Out
  BY <1>2, <1>t DEF GoTo, TypeOK
<1> HIDE DEF Out
<1>3. Arrival(p) => Out
  BY <1>2 DEF Arrival, Begin, CreateOrder, GetStockOverview, Confirm, UpdateOrderStatus,
              AddDeliveryEvent, RestockOption
<1>4. Abort(p) \/ DeadlockVictim(p) => Out
  BY <1>1 DEF Abort, DeadlockVictim, RollBack
<1>5. Reclaim(p) => Out \/ LockCandidate(p)
  BY <1>1, <1>2 DEF Reclaim, ScanCandidates, NextCandidate, SkipCandidate,
              ReclaimCommit, SweepDone
<1>6. Checkout(p) => Out \/ StartOrder(p) \/ LockOption(p)
  BY <1>1 DEF Checkout, CreateCommit, StockInsufficient, RollBack
<1>7. OrderRow(p) => Out \/ LockOrder(p)
  BY <1>1 DEF OrderRow, Reject, SaveConfirm, SaveStatus, CancelCommit, SaveDelivery
<1>8. Gateway(p) => Out \/ PgConfirmOk(p) \/ PgCancelOk(p)
  BY <1>1 DEF Gateway, PgFailed, RollBack
<1>9. RestockSteps(p) => Out
  BY <1>1, <1>2 DEF RestockSteps, RestockSame, RestockReload, RestockUpdate
<1> QED
  BY <1>3, <1>4, <1>5, <1>6, <1>7, <1>8, <1>9 DEF Acts, Serve, Out

-----------------------------------------------------------------------------
(* Delivery.                                                                *)

LEMMA DeliveryNext ==
    ASSUME CoreInv, DeliveryInOrder, \A p \in Proc : StageStillNext(p), [Next]_vars
    PROVE  DeliveryInOrder'
<1> USE ConstantsAssumption
<1>t. TypeOK
  BY DEF CoreInv
<1> DEFINE Fine(o) ==
    /\ Len(timeline[o]) <= Len(StageOrder)
    /\ \A k \in 1 .. Len(timeline[o]) : timeline[o][k] = StageOrder[k]
    /\ status[o] = "DELIVERED" <=> Len(timeline[o]) = Len(StageOrder)
    /\ timeline[o] # <<>> => status[o] \in {"SHIPPED", "DELIVERED"}
<1>f. \A o \in OrderId : Fine(o) /\ timeline[o] \in Seq(Stages) /\ Len(StageOrder) \in Nat
  BY <1>t DEF DeliveryInOrder, TypeOK
<1>1. CASE UNCHANGED <<status, timeline>>
  BY <1>1 DEF DeliveryInOrder
\* An order whose status is neither SHIPPED nor DELIVERED has no stage yet.
<1>2. ASSUME NEW o \in OrderId, status[o] \notin {"SHIPPED", "DELIVERED"},
             NEW s \in OrderStatus \ {"DELIVERED"},
             status' = [status EXCEPT ![o] = s], timeline' = timeline
      PROVE  DeliveryInOrder'
  <2>1. timeline[o] = <<>>
    BY <1>2, <1>f
  <2>2. Len(timeline[o]) = 0 /\ Len(StageOrder) > 0
    BY <2>1
  <2>3. \A x \in OrderId \ {o} : status'[x] = status[x]
    BY <1>2, <1>t DEF TypeOK
  <2>4. status'[o] = s
    BY <1>2, <1>t DEF TypeOK
  <2>5. Fine(o)'
    BY <1>2, <2>1, <2>2, <2>4, <1>f
  <2>6. \A x \in OrderId \ {o} : Fine(x)'
    BY <1>2, <1>f, <2>3
  <2> QED
    BY <2>5, <2>6 DEF DeliveryInOrder
<1>3. ASSUME NEW p \in Proc, CreateCommit(p)
      PROVE  DeliveryInOrder'
  BY <1>2, <1>3 DEF CreateCommit, OrderStatus
<1>4. ASSUME NEW p \in Proc, ReclaimCommit(p) \/ CancelCommit(p) \/ SaveConfirm(p)
      PROVE  DeliveryInOrder'
  <2>1. cur[p] \in OrderId /\ status[cur[p]] \notin {"SHIPPED", "DELIVERED"}
    BY <1>4, CommitOnChecked
  <2>2. \E s \in {"EXPIRED", "CANCELLED", "PAID"} : status' = [status EXCEPT ![cur[p]] = s]
    BY <1>4 DEF ReclaimCommit, CancelCommit, SaveConfirm
  <2>3. timeline' = timeline
    BY <1>4 DEF ReclaimCommit, CancelCommit, SaveConfirm
  <2> QED
    BY <1>2, <2>1, <2>2, <2>3 DEF OrderStatus
<1>5. ASSUME NEW p \in Proc, SaveStatus(p)
      PROVE  DeliveryInOrder'
  <2>1. /\ cur[p] \in OrderId /\ status[cur[p]] \in OrderStatus
        /\ job[p].target \in VALID_TRANSITIONS[status[cur[p]]]
    BY <1>5, CommitOnChecked
  <2>2. /\ status[cur[p]] \notin {"SHIPPED", "DELIVERED"}
        /\ job[p].target \in OrderStatus \ {"DELIVERED"}
    BY <2>1 DEF VALID_TRANSITIONS, OrderStatus
  <2>3. status' = [status EXCEPT ![cur[p]] = job[p].target] /\ timeline' = timeline
    BY <1>5 DEF SaveStatus
  <2> QED
    BY <1>2, <2>1, <2>2, <2>3
<1>6. ASSUME NEW p \in Proc, SaveDelivery(p)
      PROVE  DeliveryInOrder'
  <2>1. PICK o \in OrderId : o = cur[p] /\ status[o] = "SHIPPED"
    BY <1>6, CommitOnChecked
  <2>n. PICK n \in Nat : n = Len(timeline[o])
    BY <1>f
  <2>2. n < Len(StageOrder) /\ job[p].stage = StageOrder[n + 1]
    <3>1. MayAddStage(p, o)
      BY <1>6, <2>1 DEF StageStillNext, SaveDelivery
    <3> QED
      BY <3>1, <2>n DEF MayAddStage
  <2>3. /\ timeline' = [timeline EXCEPT ![o] = Append(@, job[p].stage)]
        /\ status' = [status EXCEPT ![o] =
                         IF job[p].stage = StageOrder[Len(StageOrder)]
                         THEN "DELIVERED" ELSE @]
    BY <1>6, <2>1 DEF SaveDelivery
  <2>4. \A x \in OrderId \ {o} : status'[x] = status[x] /\ timeline'[x] = timeline[x]
    BY <2>3, <1>t DEF TypeOK
  <2>5. \A x \in OrderId \ {o} : Fine(x)'
    BY <1>f, <2>4
  <2>6. /\ timeline'[o] = Append(timeline[o], job[p].stage)
        /\ status'[o] = IF job[p].stage = StageOrder[Len(StageOrder)]
                        THEN "DELIVERED" ELSE "SHIPPED"
    BY <2>1, <2>3, <1>t DEF TypeOK
  <2>7. /\ Len(timeline'[o]) = n + 1
        /\ \A k \in 1 .. n : timeline'[o][k] = timeline[o][k]
        /\ timeline'[o][n + 1] = StageOrder[n + 1]
    BY <2>2, <2>6, <2>n, <1>f
  <2>8. job[p].stage = StageOrder[Len(StageOrder)] <=> n + 1 = Len(StageOrder)
    BY <2>2, <1>f
  <2>9. \A k \in 1 .. n : timeline[o][k] = StageOrder[k]
    BY <2>n, <1>f
  <2>10. \A k \in 1 .. n + 1 : timeline'[o][k] = StageOrder[k]
    BY <2>2, <2>7, <2>9
  <2>11. Fine(o)'
    BY <2>2, <2>6, <2>7, <2>8, <2>10, <1>f
  <2> QED
    BY <2>5, <2>11 DEF DeliveryInOrder
<1> QED
  BY <1>1, <1>3, <1>4, <1>5, <1>6, RowsOrGateway DEF Commits

LEMMA StageStillNextNext ==
    ASSUME CoreInv, \A p \in Proc : StageStillNext(p), [Next]_vars, NEW r \in Proc
    PROVE  StageStillNext(r)'
<1>t. TypeOK /\ JobFits(r) /\ CurFits(r) /\ StageStillNext(r)
  BY DEF CoreInv
<1>1. CASE Unmoved(r)
  <2>1. pc[r] = "save" => OrderOpen(r)
    BY DEF OrderOpen
  <2> QED
    BY <1>1, <2>1, <1>t DEF Unmoved, StageStillNext, MayAddStage
<1>2. CASE Acts(r)
  <2>1. CASE LockOrder(r)
    <3>1. job' = job /\ status' = status /\ timeline' = timeline /\ cur'[r] = job[r].order
      BY <2>1, <1>t DEF LockOrder, rows, TypeOK
    <3>2. job[r].kind = "delivery" => MayAddStage(r, job[r].order)
      BY <2>1 DEF LockOrder, Accepted
    <3> QED
      BY <3>1, <3>2 DEF StageStillNext, MayAddStage
  <2>2. CASE PgConfirmOk(r)
    BY <2>2, <1>t DEF PgConfirmOk, StageStillNext, JobFits
  <2>3. CASE LockCandidate(r) \/ StartOrder(r) \/ LockOption(r) \/ PgCancelOk(r)
    BY <2>3, <1>t DEF LockCandidate, StartOrder, LockOption, PgCancelOk, StartLocking,
                      StageStillNext, TypeOK
  <2>4. CASE pc'[r] \notin {"locking", "save", "pgConfirm", "pgCancel"}
    BY <2>4 DEF StageStillNext
  <2> QED
    BY <1>2, <2>1, <2>2, <2>3, <2>4, Entering
<1> QED
  BY <1>1, <1>2, OthersUnmoved

-----------------------------------------------------------------------------
(* Payments.                                                                *)

PaymentInv ==
    /\ PaymentsAgree
    /\ \A o \in OrderId : KeyFits(o)
    /\ \A p \in Proc : PaymentFits(p)

\* The gateway captures a payment once and refunds a captured one once; it is
\* asked for a refund only where the order row has a key.
Moves(o) ==
    \/ pg'[o] = pg[o]
    \/ pg[o] = "none" /\ pg'[o] = "captured"
    \/ pg[o] = "captured" /\ pg'[o] = "cancelled" /\ paymentKey[o]

LEMMA GatewayMoves ==
    ASSUME CoreInv, PaymentInv, [Next]_vars, NEW o \in OrderId
    PROVE  Moves(o)
<1>t. TypeOK
  BY DEF CoreInv
<1>1. ASSUME NEW call \in {"pgConfirm", "pgCancel"}, call = "pgCancel" => paymentKey[o],
             pg'[o] = Effect(call, pg[o])
      PROVE  Moves(o)
  BY <1>1, <1>t DEF Effect, Captured, Refunded, Moves, TypeOK
<1>2. ASSUME NEW p \in Proc, Calls(p)
      PROVE  Moves(o)
  <2>1. CASE PgFailed(p)
    BY <2>1 DEF PgFailed, Moves
  <2>2. CASE ~PgFailed(p)
    <3>1. /\ pc[p] \in {"pgConfirm", "pgCancel"}
          /\ pg' = [pg EXCEPT ![cur[p]] = Effect(pc[p], @)]
      BY <1>2, <2>2 DEF Calls, PgSilent, PgConfirmOk, PgCancelOk, Effect
    <3>2. pc[p] = "pgCancel" => paymentKey[cur[p]]
      BY DEF PaymentInv, PaymentFits
    <3>3. CASE o = cur[p]
      <4>1. pg'[o] = Effect(pc[p], pg[o])
        BY <3>1, <3>3, <1>t DEF TypeOK
      <4> QED
        BY <4>1, <3>1, <3>2, <3>3, <1>1
    <3>4. CASE o # cur[p]
      BY <3>1, <3>4, <1>t DEF Moves, TypeOK
    <3> QED
      BY <3>3, <3>4
  <2> QED
    BY <2>1, <2>2
<1>3. ASSUME NEW x \in OrderId, PgLate(x)
      PROVE  Moves(o)
  <2>1. PICK r \in late[x] : pg' = [pg EXCEPT ![x] = Effect(r, @)]
    BY <1>3 DEF PgLate
  <2>2. r \in {"pgConfirm", "pgCancel"} /\ (r = "pgCancel" => paymentKey[x])
    BY <2>1, <1>t DEF TypeOK, PaymentInv, KeyFits
  <2>3. CASE o = x
    <3>1. pg'[o] = Effect(r, pg[o])
      BY <2>1, <2>3, <1>t DEF TypeOK
    <3> QED
      BY <3>1, <2>2, <2>3, <1>1
  <2>4. CASE o # x
    BY <2>1, <2>4, <1>t DEF Moves, TypeOK
  <2> QED
    BY <2>3, <2>4
<1>4. CASE UNCHANGED pg
  BY <1>4 DEF Moves
<1> QED
  BY <1>2, <1>3, <1>4, RowsOrGateway

LEMMA PaymentsAgreeNext ==
    ASSUME CoreInv, PaymentInv, [Next]_vars
    PROVE  PaymentsAgree' /\ \A o \in OrderId : KeyFits(o)'
<1>t. TypeOK
  BY DEF CoreInv
<1> DEFINE Agree(o) ==
    /\ paymentKey[o] => pg[o] # "none"
    /\ pg[o] = "cancelled" => paymentKey[o]
    /\ paymentKey[o] /\ status[o] = "CANCELLED" => pg[o] = "cancelled"
<1>a. \A o \in OrderId : Agree(o) /\ KeyFits(o)
  BY DEF PaymentInv, PaymentsAgree
<1>1. ASSUME UNCHANGED <<status, paymentKey>>, NEW o \in OrderId
      PROVE  Agree(o)'
  <2>1. Moves(o)
    BY GatewayMoves
  <2> QED
    BY <1>1, <1>a, <2>1 DEF Moves
<1>2. ASSUME UNCHANGED <<status, paymentKey>>, NEW o \in OrderId
      PROVE  KeyFits(o)'
  <2>1. CASE late'[o] \subseteq late[o]
    BY <1>2, <1>a, <2>1 DEF KeyFits
  <2>2. ASSUME NEW p \in Proc, PgFailed(p)
        PROVE  KeyFits(o)'
    <3>1. \/ UNCHANGED late
          \/ late' = [late EXCEPT ![cur[p]] = @ \cup {pc[p]}]
      BY <2>2 DEF PgFailed
    <3>2. pc[p] = "pgCancel" => paymentKey[cur[p]]
      BY DEF PaymentInv, PaymentFits
    <3>3. CASE o = cur[p] /\ late' = [late EXCEPT ![cur[p]] = @ \cup {pc[p]}]
      <4>1. late'[o] = late[o] \cup {pc[p]}
        BY <3>3, <1>t DEF TypeOK
      <4> QED
        BY <4>1, <3>2, <3>3, <1>2, <1>a DEF KeyFits
    <3>4. CASE o # cur[p] /\ late' = [late EXCEPT ![cur[p]] = @ \cup {pc[p]}]
      BY <3>4, <2>1, <1>t DEF TypeOK
    <3> QED
      BY <3>1, <3>3, <3>4, <2>1
  <2>3. ASSUME NEW x \in OrderId, PgLate(x)
        PROVE  late'[o] \subseteq late[o]
    <3>1. PICK r \in late[x] : late' = [late EXCEPT ![x] = @ \ {r}]
      BY <2>3 DEF PgLate
    <3> QED
      BY <3>1, <1>t DEF TypeOK
  <2>4. ASSUME NEW p \in Proc, Calls(p), ~PgFailed(p)
        PROVE  UNCHANGED late
    BY <2>4 DEF Calls, PgSilent, PgConfirmOk, PgCancelOk
  <2>5. ASSUME NEW p \in Proc, Commits(p), UNCHANGED late
        PROVE  UNCHANGED late
    BY <2>5
  <2> QED
    BY <2>1, <2>2, <2>3, <2>4, RowsOrGateway
<1>3. ASSUME NEW p \in Proc, Commits(p), UNCHANGED <<pg, late>>, NEW o \in OrderId
      PROVE  Agree(o)' /\ KeyFits(o)'
  <2>1. CASE UNCHANGED <<status, paymentKey>>
    BY <2>1, <1>1, <1>2
  <2>2. CASE CreateCommit(p)
    <3>1. PICK x \in OrderId : status[x] = "none" /\ status' = [status EXCEPT ![x] = "PENDING"]
      BY <2>2 DEF CreateCommit
    <3>2. paymentKey' = paymentKey
      BY <2>2 DEF CreateCommit
    <3>3. status'[o] = IF o = x THEN "PENDING" ELSE status[o]
      BY <3>1, <1>t DEF TypeOK
    <3> QED
      BY <3>1, <3>2, <3>3, <1>3, <1>a DEF KeyFits
  <2>3. CASE ReclaimCommit(p)
    <3>1. /\ status' = [status EXCEPT ![cur[p]] = "EXPIRED"] /\ paymentKey' = paymentKey
          /\ status[cur[p]] = "PENDING" /\ cur[p] \in OrderId
      BY <2>3, CommitOnChecked DEF ReclaimCommit
    <3>2. status'[o] = IF o = cur[p] THEN "EXPIRED" ELSE status[o]
      BY <3>1, <1>t DEF TypeOK
    <3> QED
      BY <3>1, <3>2, <1>3, <1>a DEF KeyFits
  <2>4. CASE CancelCommit(p)
    <3>1. /\ status' = [status EXCEPT ![cur[p]] = "CANCELLED"] /\ paymentKey' = paymentKey
          /\ pc[p] = "locking" /\ job[p].kind = "status" /\ cur[p] \in OrderId
      BY <2>4, CommitOnChecked DEF CancelCommit
    <3>2. paymentKey[cur[p]] => pg[cur[p]] = "cancelled"
      BY <3>1 DEF PaymentInv, PaymentFits
    <3>3. status'[o] = IF o = cur[p] THEN "CANCELLED" ELSE status[o]
      BY <3>1, <1>t DEF TypeOK
    <3> QED
      BY <3>1, <3>2, <3>3, <1>3, <1>a DEF KeyFits
  <2>5. CASE SaveConfirm(p)
    <3>1. /\ status' = [status EXCEPT ![cur[p]] = "PAID"]
          /\ paymentKey' = [paymentKey EXCEPT ![cur[p]] = TRUE]
          /\ pc[p] = "save" /\ job[p].kind = "confirm"
      BY <2>5 DEF SaveConfirm
    <3>2. pg[cur[p]] # "none"
      BY <3>1 DEF PaymentInv, PaymentFits
    <3>3. CASE o = cur[p]
      <4>1. status'[o] = "PAID" /\ paymentKey'[o]
        BY <3>1, <3>3, <1>t, Zenon DEF TypeOK
      <4> QED
        BY <4>1, <3>2, <3>3, <1>3 DEF KeyFits
    <3>4. CASE o # cur[p]
      <4>1. status'[o] = status[o] /\ paymentKey'[o] = paymentKey[o]
        BY <3>1, <3>4, <1>t, Zenon DEF TypeOK
      <4> QED
        BY <4>1, <1>3, <1>a DEF KeyFits
    <3> QED
      BY <3>3, <3>4
  <2>6. CASE SaveStatus(p)
    <3>1. /\ status' = [status EXCEPT ![cur[p]] = job[p].target] /\ paymentKey' = paymentKey
          /\ cur[p] \in OrderId /\ status[cur[p]] \in OrderStatus
          /\ job[p].target \in VALID_TRANSITIONS[status[cur[p]]]
          /\ job[p].target # "CANCELLED"
      BY <2>6, CommitOnChecked DEF SaveStatus
    <3>2. job[p].target \notin {"none", "PENDING", "CANCELLED"}
      BY <3>1 DEF VALID_TRANSITIONS, OrderStatus
    <3>3. status'[o] = IF o = cur[p] THEN job[p].target ELSE status[o]
      BY <3>1, <1>t DEF TypeOK
    <3> QED
      BY <3>1, <3>2, <3>3, <1>3, <1>a DEF KeyFits
  <2>7. CASE SaveDelivery(p)
    <3>1. /\ status' = status \/ status' = [status EXCEPT ![cur[p]] = "DELIVERED"]
          /\ paymentKey' = paymentKey
      BY <2>7, <1>t DEF SaveDelivery, TypeOK
    <3>2. status'[o] \in {status[o], "DELIVERED"}
      BY <3>1, <1>t DEF TypeOK
    <3> QED
      BY <3>1, <3>2, <1>3, <1>a DEF KeyFits
  <2> QED
    BY <1>3, <2>2, <2>3, <2>4, <2>5, <2>6, <2>7 DEF Commits
<1> QED
  BY <1>1, <1>2, <1>3, RowsOrGateway DEF PaymentsAgree

\* What the gateway has done for a handler is not undone before it commits.
LEMMA PaymentFitsNext ==
    ASSUME CoreInv, PaymentInv, [Next]_vars, NEW r \in Proc
    PROVE  PaymentFits(r)'
<1>t. /\ TypeOK /\ JobFits(r) /\ CurFits(r) /\ OrderChecked(r) /\ PaymentFits(r)
      /\ \A o \in OrderId : KeyFits(o) /\ Moves(o)
      /\ PaymentsAgree
  BY GatewayMoves DEF CoreInv, PaymentInv
<1>o. OrderOpen(r) => cur[r] \in OrderId /\ Moves(cur[r])
  BY <1>t DEF CurFits
<1>1. CASE Unmoved(r)
  <2>1. CASE OrderOpen(r)
    BY <1>1, <2>1, <1>o, <1>t DEF Unmoved, PaymentFits, Moves
  <2>2. CASE ~OrderOpen(r)
    <3>1. pc'[r] \notin {"pgCancel", "save"} /\ ~(pc'[r] = "locking" /\ job'[r].kind = "status")
      BY <1>1, <2>2, <1>t DEF Unmoved, OrderOpen, CurFits
    <3> QED
      BY <3>1 DEF PaymentFits
  <2> QED
    BY <2>1, <2>2
<1>2. CASE Acts(r)
  <2>1. CASE LockOrder(r)
    <3>1. /\ job' = job /\ status' = status /\ paymentKey' = paymentKey /\ pg' = pg
          /\ cur'[r] = job[r].order /\ Accepted(r) /\ pc[r] = "wait"
      BY <2>1, <1>t DEF LockOrder, rows, gateway, TypeOK
    <3>2. job[r].order \in OrderId
      BY <3>1, <1>t, JobFields DEF JobFits, TypeOK
    <3>3. CASE job[r].kind = "confirm" /\ GoTo(r, "pgConfirm")
      BY <3>3, <1>t DEF GoTo, TypeOK, PaymentFits
    <3>4. CASE Refunding(r) /\ GoTo(r, "pgCancel")
      <4>1. job[r].kind = "status" /\ job[r].target = "CANCELLED" /\ status[job[r].order] = "PAID"
        BY <3>4 DEF Refunding, Cancelling
      <4>2. paymentKey[job[r].order]
        BY <4>1, <3>1 DEF Accepted, MaySetStatus
      <4>3. pc'[r] = "pgCancel"
        BY <3>4, <1>t DEF GoTo, TypeOK
      <4> QED
        BY <4>2, <4>3, <3>1 DEF PaymentFits
    <3>5. CASE Cancelling(r) /\ ~Refunding(r) /\ StartLocking(r, items[job[r].order], FALSE)
      <4>1. job[r].kind = "status" /\ job[r].target = "CANCELLED" /\ status[job[r].order] # "PAID"
        BY <3>5 DEF Refunding, Cancelling
      <4>2. "CANCELLED" \in VALID_TRANSITIONS[status[job[r].order]] /\ status[job[r].order] # "none"
        BY <4>1, <3>1 DEF Accepted, MaySetStatus
      <4>3. status[job[r].order] = "PENDING"
        BY <4>1, <4>2, <3>2, <1>t DEF VALID_TRANSITIONS, OrderStatus, TypeOK
      <4>4. ~paymentKey[job[r].order]
        BY <4>3, <3>2, <1>t DEF KeyFits
      <4>5. pc'[r] = "locking"
        BY <3>5, <1>t DEF StartLocking, TypeOK
      <4> QED
        BY <4>4, <4>5, <3>1 DEF PaymentFits
    <3>6. CASE job[r].kind # "confirm" /\ GoTo(r, "save")
      BY <3>6, <3>1, <1>t DEF GoTo, TypeOK, PaymentFits
    <3> QED
      BY <2>1, <3>3, <3>4, <3>5, <3>6 DEF LockOrder
  <2>2. CASE PgConfirmOk(r)
    <3>1. /\ pc'[r] = "save" /\ cur' = cur /\ pg' = [pg EXCEPT ![cur[r]] = Captured(@)]
          /\ cur[r] \in OrderId
      BY <2>2, <1>t, <1>o DEF PgConfirmOk, GoTo, TypeOK, OrderOpen
    <3>2. pg'[cur[r]] # "none"
      BY <3>1, <1>t DEF Captured, TypeOK
    <3> QED
      BY <3>1, <3>2 DEF PaymentFits
  <2>3. CASE PgCancelOk(r)
    <3>1. /\ pc'[r] = "locking" /\ cur' = cur /\ pg' = [pg EXCEPT ![cur[r]] = Refunded(@)]
          /\ cur[r] \in OrderId /\ paymentKey[cur[r]]
      BY <2>3, <1>t, <1>o DEF PgCancelOk, StartLocking, TypeOK, OrderOpen, PaymentFits
    <3>2. pg[cur[r]] \in {"captured", "cancelled"}
      BY <3>1, <1>t DEF TypeOK, PaymentsAgree
    <3>3. pg'[cur[r]] = "cancelled"
      BY <3>1, <3>2, <1>t DEF Refunded, TypeOK
    <3> QED
      BY <3>1, <3>3 DEF PaymentFits
  <2>4. CASE LockOption(r)
    BY <2>4, <1>t DEF LockOption, rows, gateway, PaymentFits
  <2>5. CASE LockCandidate(r) \/ StartOrder(r)
    <3>1. pc'[r] = "locking" /\ job' = job /\ job[r].kind # "status"
      BY <2>5, <1>t DEF LockCandidate, StartOrder, StartLocking, TypeOK, JobFits
    <3> QED
      BY <3>1 DEF PaymentFits
  <2>6. CASE pc'[r] \notin {"locking", "save", "pgConfirm", "pgCancel"}
    BY <2>6 DEF PaymentFits
  <2> QED
    BY <1>2, <2>1, <2>2, <2>3, <2>4, <2>5, <2>6, Entering
<1> QED
  BY <1>1, <1>2, OthersUnmoved

-----------------------------------------------------------------------------
(* What follows for every behaviour.                                        *)

\* addDeliveryEvent adds the stage it checked: neither the check nor the save of
\* one request can be overtaken by those of another, so no timeline skips or
\* repeats a stage, and DELIVERED stands exactly for a complete one.
THEOREM DeliveryStaysInOrder == Spec => []DeliveryInOrder
<1> DEFINE Still == \A p \in Proc : StageStillNext(p)
<1>1. Init => DeliveryInOrder /\ Still
  <2> SUFFICES ASSUME Init PROVE DeliveryInOrder /\ Still
    OBVIOUS
  <2>1. Len(StageOrder) \in Nat /\ Len(StageOrder) > 0
    BY ConstantsAssumption
  <2>2. \A o \in OrderId : status[o] = "none" /\ timeline[o] = <<>>
    BY DEF Init
  <2>3. DeliveryInOrder
    BY <2>1, <2>2 DEF DeliveryInOrder
  <2>4. \A p \in Proc : pc[p] # "save"
    BY DEF Init
  <2> QED
    BY <2>3, <2>4 DEF StageStillNext
<1>2. CoreInv /\ DeliveryInOrder /\ Still /\ [Next]_vars => DeliveryInOrder' /\ Still'
  BY DeliveryNext, StageStillNextNext
<1> HIDE DEF Still
<1> QED
  BY <1>1, <1>2, CoreInvariance, PTL DEF Spec

LEMMA InitPaymentInv == Init => PaymentInv
<1> SUFFICES ASSUME Init PROVE PaymentInv
  OBVIOUS
<1>1. \A o \in OrderId : ~paymentKey[o] /\ pg[o] = "none" /\ late[o] = {}
  BY DEF Init
<1>2. \A p \in Proc : pc[p] = "idle"
  BY DEF Init
<1> QED
  BY <1>1, <1>2 DEF PaymentInv, PaymentsAgree, KeyFits, PaymentFits

LEMMA PaymentInvariance == Spec => []PaymentInv
<1>1. CoreInv /\ PaymentInv /\ [Next]_vars => PaymentInv'
  BY PaymentsAgreeNext, PaymentFitsNext DEF PaymentInv
<1> QED
  BY <1>1, InitPaymentInv, CoreInvariance, PTL DEF Spec

\* The payment key on an order row and what the gateway did agree, although the
\* call and the commit of confirm and of the admin's cancel are two steps, either
\* may fail, and a request may take effect after its handler has given up.
THEOREM PaymentsStayInStep == Spec => []PaymentsAgree
<1>1. PaymentInv => PaymentsAgree
  BY DEF PaymentInv
<1> QED
  BY <1>1, PaymentInvariance, PTL

\* While a handler waits for the gateway, its row lock keeps the reclaim and the
\* admin away: money taken from an order that is no longer PENDING was asked for
\* by a confirm request whose handler is gone.
THEOREM LateChargesOnly == Spec => NoChargeAfterPending
<1> DEFINE Explained ==
      \A o \in OrderId :
          pg[o] = "none" /\ pg'[o] = "captured" /\ status[o] # "PENDING"
              => "pgConfirm" \in late[o]
<1>1. CoreInv /\ [Next]_vars => Explained
  <2> SUFFICES ASSUME CoreInv, [Next]_vars, NEW o \in OrderId,
                      pg[o] = "none", pg'[o] = "captured", status[o] # "PENDING"
               PROVE  "pgConfirm" \in late[o]
    OBVIOUS
  <2>t. TypeOK
    BY DEF CoreInv
  <2>1. ASSUME NEW p \in Proc, Calls(p)
        PROVE  FALSE
    <3>1. OrderChecked(p) /\ JobFits(p)
      BY DEF CoreInv
    <3>2. CASE PgFailed(p)
      BY <3>2 DEF PgFailed
    <3>3. CASE ~PgFailed(p)
      <4>1. /\ pc[p] \in {"pgConfirm", "pgCancel"}
            /\ pg' = [pg EXCEPT ![cur[p]] = Effect(pc[p], @)]
        BY <2>1, <3>3 DEF Calls, PgSilent, PgConfirmOk, PgCancelOk, Effect
      <4>2. o = cur[p]
        BY <4>1, <2>t DEF TypeOK
      <4>3. pc[p] = "pgConfirm"
        BY <4>1, <4>2, <2>t DEF TypeOK, Effect, Refunded
      <4> QED
        BY <4>2, <4>3, <3>1 DEF JobFits, OrderChecked, OrderOpen
    <3> QED
      BY <3>2, <3>3
  <2>2. ASSUME NEW x \in OrderId, PgLate(x)
        PROVE  "pgConfirm" \in late[o]
    <3>1. PICK r \in late[x] : pg' = [pg EXCEPT ![x] = Effect(r, @)]
      BY <2>2 DEF PgLate
    <3>2. o = x
      BY <3>1, <2>t DEF TypeOK
    <3>3. r = "pgConfirm"
      BY <3>1, <3>2, <2>t DEF TypeOK, Effect, Refunded
    <3> QED
      BY <3>1, <3>2, <3>3
  <2> QED
    BY <2>1, <2>2, RowsOrGateway
<1> HIDE DEF Explained
<1>2. CoreInv /\ [Next]_vars => [Explained]_vars
  BY <1>1
<1>3. Spec => [][Explained]_vars
  BY <1>2, CoreInvariance, PTL DEF Spec
<1> QED
  BY <1>3 DEF NoChargeAfterPending, Explained
=============================================================================
