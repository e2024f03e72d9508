--------------------------- MODULE OrderLockProofs --------------------------
(***************************************************************************)
(* Theorems about the order of locking: the order lock of every handler, the *)
(* ascending scan of a checkout and why checkouts alone cannot deadlock.    *)
(* With them the whole inductive invariant of the order core is proved.     *)
(***************************************************************************)
EXTENDS OrderRowProofs, FiniteSetTheorems, WellFoundedInduction

-----------------------------------------------------------------------------
(* Locks on order rows.                                                     *)

\* A request drops its order locks, takes one, or leaves all of them alone.
LEMMA OrderLockMoves ==
    ASSUME CoreInv, NEW p \in Proc, Acts(p)
    PROVE  \/ UNCHANGED orderLock
           \/ DropLocks(p)
           \/ LockCandidate(p) \/ LockOrder(p)
<1>1. Arrival(p) => UNCHANGED orderLock
  BY DEF Arrival, Begin, CreateOrder, GetStockOverview, Confirm, UpdateOrderStatus,
         AddDeliveryEvent, RestockOption, locks
<1>2. Abort(p) \/ DeadlockVictim(p) => DropLocks(p)
  BY DEF Abort, DeadlockVictim, RollBack
<1>3. Reclaim(p) => UNCHANGED orderLock \/ DropLocks(p) \/ LockCandidate(p)
  BY DEF Reclaim, ScanCandidates, NextCandidate, SkipCandidate, ReclaimCommit,
         SweepDone, locks
<1>4. Checkout(p) => UNCHANGED orderLock \/ DropLocks(p)
  BY DEF Checkout, StartOrder, LockOption, CreateCommit, StockInsufficient,
         RollBack, locks
<1>5. OrderRow(p) => UNCHANGED orderLock \/ DropLocks(p) \/ LockOrder(p)
  BY DEF OrderRow, Reject, SaveConfirm, SaveStatus, CancelCommit, SaveDelivery, locks
<1>6. Gateway(p) => UNCHANGED orderLock \/ DropLocks(p)
  BY DEF Gateway, PgConfirmOk, PgCancelOk, PgFailed, RollBack, locks
<1>7. RestockSteps(p) => UNCHANGED orderLock
  BY DEF RestockSteps, RestockSame, RestockReload, RestockUpdate, locks
<1> QED
  BY <1>1, <1>2, <1>3, <1>4, <1>5, <1>6, <1>7 DEF Acts, Serve

\* In the transaction of an order a step that keeps the locks stays on the order.
LEMMA OrderTxSteps ==
    ASSUME CoreInv, NEW p \in Proc, Acts(p), UNCHANGED orderLock, OrderOpen(p)
    PROVE  OrderOpen(p)' /\ cur'[p] = cur[p]
<1> USE ConstantsAssumption
<1>t. TypeOK /\ CurFits(p) /\ OrderChecked(p) /\ JobFits(p)
  BY DEF CoreInv
<1>1. cur[p] \in OrderId /\ orderLock[cur[p]] = p /\ p # None
  BY <1>t DEF CurFits, OrderChecked
<1>2. pc[p] \in {"pgConfirm", "pgCancel", "save", "locking"} /\ cur[p] # None
  BY <1>1 DEF OrderOpen
<1>3. ~DropLocks(p)
  BY <1>1, <1>t DEF DropLocks, TypeOK
<1>4. \/ LockOption(p) \/ PgConfirmOk(p) \/ PgCancelOk(p)
  <2>1. ~Arrival(p) /\ ~RestockSteps(p)
    BY <1>2 DEF Arrival, Begin, Idle, CreateOrder, GetStockOverview, Confirm,
           UpdateOrderStatus, AddDeliveryEvent, RestockOption, RestockSteps,
           RestockSame, RestockReload, RestockUpdate
  <2>2. ~Abort(p) /\ ~DeadlockVictim(p)
    BY <1>3 DEF Abort, DeadlockVictim, RollBack
  <2>3. ~Reclaim(p) /\ ~OrderRow(p)
    BY <1>2, <1>3 DEF Reclaim, ScanCandidates, NextCandidate, LockCandidate,
           SkipCandidate, ReclaimCommit, SweepDone, OrderRow, LockOrder, Reject,
           SaveConfirm, SaveStatus, CancelCommit, SaveDelivery
  <2> QED
    BY <2>1, <2>2, <2>3, <1>2, <1>3 DEF Acts, Serve, Checkout, StartOrder, CreateCommit,
           StockInsufficient, RollBack, Gateway, PgFailed
<1>5. cur' = cur
  BY <1>4 DEF LockOption, PgConfirmOk, PgCancelOk
<1>6. pc'[p] \in {"save", "locking"}
  BY <1>2, <1>4, <1>t DEF LockOption, PgConfirmOk, PgCancelOk, GoTo, StartLocking, TypeOK
<1> QED
  BY <1>2, <1>5, <1>6 DEF OrderOpen

LEMMA OrderLockFitsNext ==
    ASSUME CoreInv, OrderLockFits, [Next]_vars
    PROVE  OrderLockFits'
<1> USE ConstantsAssumption
<1>t. TypeOK
  BY DEF CoreInv
<1> SUFFICES ASSUME NEW r \in Proc, NEW o \in OrderId, orderLock'[o] = r
             PROVE  OrderOpen(r)' /\ cur'[r] = o
  BY DEF OrderLockFits
<1>1. CASE orderLock[o] = r /\ ~Acts(r)
  <2>1. Unmoved(r) /\ OrderOpen(r) /\ cur[r] = o
    BY <1>1, OthersUnmoved DEF OrderLockFits
  <2> QED
    BY <2>1 DEF Unmoved, OrderOpen
<1>2. CASE Acts(r)
  <2>0. r # None
    OBVIOUS
  <2>1. ~DropLocks(r)
    BY <2>0 DEF DropLocks
  <2>2. CASE LockCandidate(r)
    <3>1. orderLock[o] # r /\ cur[r] \in OrderId
      BY <2>2 DEF LockCandidate, OrderLockFits, OrderOpen, CoreInv, CurFits
    <3>2. o = cur[r] /\ cur' = cur
      BY <2>2, <3>1, <1>t DEF LockCandidate, TypeOK
    <3>3. pc'[r] = "locking"
      BY <2>2, <1>t DEF LockCandidate, StartLocking, TypeOK
    <3> QED
      BY <3>1, <3>2, <3>3 DEF OrderOpen
  <2>3. CASE LockOrder(r)
    <3>1. orderLock[o] # r
      BY <2>3 DEF LockOrder, OrderLockFits, OrderOpen
    <3>2. o = job[r].order /\ cur'[r] = o
      BY <2>3, <3>1, <1>t DEF LockOrder, TypeOK
    <3>3. pc'[r] \in {"pgConfirm", "pgCancel", "save", "locking"}
      BY <2>3, <1>t DEF LockOrder, GoTo, StartLocking, TypeOK
    <3> QED
      BY <3>2, <3>3 DEF OrderOpen
  <2>4. CASE UNCHANGED orderLock
    <3>1. OrderOpen(r) /\ cur[r] = o
      BY <2>4 DEF OrderLockFits
    <3> QED
      BY <1>2, <2>4, <3>1, OrderTxSteps
  <2> QED
    BY <1>2, <2>1, <2>2, <2>3, <2>4, OrderLockMoves
<1>3. CASE orderLock[o] # r /\ ~Acts(r)
  <2>1. ASSUME NEW p \in Proc, Acts(p), p # r
        PROVE  FALSE
    <3>1. CASE UNCHANGED orderLock
      BY <1>3, <3>1
    <3>2. CASE DropLocks(p)
      BY <1>3, <3>2 DEF DropLocks
    <3>3. CASE LockCandidate(p) \/ LockOrder(p)
      BY <1>3, <2>1, <3>3, <1>t DEF LockCandidate, LockOrder, TypeOK
    <3> QED
      BY <2>1, <3>1, <3>2, <3>3, OrderLockMoves
  <2>2. ASSUME UNCHANGED locks
        PROVE  FALSE
    BY <1>3, <2>2 DEF locks
  <2> QED
    BY <1>3, <2>1, <2>2 DEF Next, Acts, PgSilent, PgLate, TtlPasses, vars
<1> QED
  BY <1>1, <1>2, <1>3

-----------------------------------------------------------------------------
(* The scan of a checkout.                                                  *)

LEMMA ScanAscendsNext ==
    ASSUME CoreInv, \A p \in Proc : ScanAscends(p), [Next]_vars, NEW r \in Proc
    PROVE  ScanAscends(r)'
<1> USE ConstantsAssumption
<1>t. TypeOK /\ JobFits(r) /\ CurFits(r) /\ ScanFits(r) /\ SnapshotsFresh /\ ScanAscends(r)
  BY DEF CoreInv
<1>n. Option \subseteq Nat
  OBVIOUS
<1>1. CASE Unmoved(r)
  BY <1>1, <1>t DEF Unmoved, ScanAscends
<1>2. CASE Acts(r)
  <2>1. CASE LockCandidate(r) \/ LockOrder(r) \/ PgConfirmOk(r) \/ PgCancelOk(r)
    <3>1. LockCandidate(r) => cur'[r] \in OrderId
      BY <1>t DEF LockCandidate, CurFits
    <3>2. LockOrder(r) => cur'[r] \in OrderId
      BY <1>t, JobFields DEF LockOrder, TypeOK, JobFits
    <3>3. PgConfirmOk(r) \/ PgCancelOk(r) => cur'[r] \in OrderId
      BY <1>t DEF PgConfirmOk, PgCancelOk, CurFits, OrderOpen
    <3> QED
      BY <2>1, <3>1, <3>2, <3>3 DEF ScanAscends
  <2>2. CASE StartOrder(r)
    <3>1. PICK i \in ScanNext(TRUE, Wanted(job[r].basket)) :
              at' = [at EXCEPT ![r] = i]
      BY <2>2 DEF StartOrder, StartLocking
    <3>2. at'[r] = i /\ need'[r] = Wanted(job[r].basket)
      BY <2>2, <3>1, <1>t DEF StartOrder, StartLocking, TypeOK
    <3>3. \A j \in need'[r] : at'[r] <= j
      BY <3>1, <3>2 DEF ScanNext
    <3>4. \A k \in Option : optionLock'[k] # r
      BY <2>2, <1>t DEF StartOrder, SnapshotsFresh, locks
    <3> QED
      BY <3>3, <3>4 DEF ScanAscends
  <2>3. CASE LockOption(r)
    <3> SUFFICES ASSUME cur'[r] = None, NEW j \in need'[r]
                 PROVE  /\ at'[r] <= j
                        /\ \A k \in Option : optionLock'[k] = r => k < j
      BY DEF ScanAscends
    <3>1. /\ pc[r] = "locking" /\ cur[r] = None /\ at[r] \in Option
          /\ need'[r] = need[r] \ {at[r]}
          /\ optionLock' = [optionLock EXCEPT ![at[r]] = r]
      BY <2>3, <1>t DEF LockOption, TypeOK
    <3>2. PICK i \in ScanNext(TRUE, need[r] \ {at[r]}) : at' = [at EXCEPT ![r] = i]
      BY <2>3, <3>1 DEF LockOption
    <3>3. j \in need[r] /\ j # at[r] /\ j \in Nat /\ at[r] \in Nat
      BY <3>1, <1>n, <1>t DEF TypeOK
    <3>4. at'[r] = i
      BY <3>2, <1>t DEF TypeOK
    <3>5. at'[r] <= j
      BY <3>1, <3>2, <3>3, <3>4 DEF ScanNext
    <3>6. at[r] <= j /\ \A k \in Option : optionLock[k] = r => k < j
      BY <3>1, <3>3, <1>t DEF ScanAscends
    <3>7. ASSUME NEW k \in Option, optionLock'[k] = r
          PROVE  k < j
      <4>1. k = at[r] \/ optionLock[k] = r
        BY <3>1, <3>7, <1>t DEF TypeOK
      <4> QED
        BY <4>1, <3>3, <3>6
    <3> QED
      BY <3>5, <3>7
  <2>4. CASE pc'[r] \notin {"locking", "save", "pgConfirm", "pgCancel"}
    BY <2>4 DEF ScanAscends
  <2> QED
    BY <1>2, <2>1, <2>2, <2>3, <2>4, Entering
<1> QED
  BY <1>1, <1>2, OthersUnmoved

-----------------------------------------------------------------------------
(* The inductive invariant.                                                 *)

LEMMA InitIInv == Init => IInv
<1> SUFFICES ASSUME Init PROVE IInv
  OBVIOUS
<1> USE ConstantsAssumption
<1>1. CoreInv /\ PaymentInv
  BY InitCoreInv, InitPaymentInv
<1>2. DeliveryInOrder
  <2>1. \A o \in OrderId : status[o] = "none" /\ timeline[o] = <<>>
    BY DEF Init
  <2> QED
    BY <2>1 DEF DeliveryInOrder
<1>3. OrderLockFits
  BY DEF Init, OrderLockFits
<1>4. \A p \in Proc : StageStillNext(p) /\ ScanAscends(p)
  BY DEF Init, StageStillNext, ScanAscends
<1> QED
  BY <1>1, <1>2, <1>3, <1>4 DEF IInv, PaymentInv

\* The inductive invariant of the order core: what holds between any two steps of
\* all handlers, and what every safety property of the core follows from.
THEOREM Invariance == Spec => []IInv
<1>1. IInv /\ [Next]_vars => IInv'
  <2> SUFFICES ASSUME IInv, [Next]_vars PROVE IInv'
    OBVIOUS
  <2>1. /\ CoreInv /\ DeliveryInOrder /\ PaymentInv /\ OrderLockFits
        /\ \A p \in Proc : StageStillNext(p)
        /\ \A p \in Proc : ScanAscends(p)
    BY DEF IInv, PaymentInv
  <2>2. CoreInv'
    BY <2>1, CoreInvNext
  <2>3. DeliveryInOrder'
    BY <2>1, DeliveryNext
  <2>4. PaymentsAgree' /\ \A o \in OrderId : KeyFits(o)'
    BY <2>1, PaymentsAgreeNext
  <2>5. OrderLockFits'
    BY <2>1, OrderLockFitsNext
  <2>6. ASSUME NEW p \in Proc
        PROVE  StageStillNext(p)' /\ PaymentFits(p)' /\ ScanAscends(p)'
    BY <2>1, StageStillNextNext, PaymentFitsNext, ScanAscendsNext
  <2> QED
    BY <2>2, <2>3, <2>4, <2>5, <2>6 DEF IInv
<1> QED
  BY <1>1, InitIInv, PTL DEF Spec

-----------------------------------------------------------------------------
(* Deadlocks.                                                               *)

\* The intervals 1 .. n are finite sets, among which inclusion is well founded.
LEMMA LeastNatural ==
    ASSUME NEW T \in SUBSET Nat, T # {}
    PROVE  \E n \in T : \A m \in T : n <= m
<1> DEFINE Intervals == {1 .. n : n \in T}
<1>1. IsWellFoundedOn(StrictSubsetOrdering(Nat), FiniteSubsetsOf(Nat))
  BY FS_StrictSubsetOrderingWellFounded
<1>2. Intervals \subseteq FiniteSubsetsOf(Nat) /\ Intervals # {}
  <2>1. ASSUME NEW n \in T
        PROVE  1 .. n \in FiniteSubsetsOf(Nat)
    BY FS_Interval DEF FiniteSubsetsOf
  <2> QED
    BY <2>1
<1>3. \E x \in Intervals : \A y \in Intervals : ~(<<y, x>> \in StrictSubsetOrdering(Nat))
  BY <1>1, <1>2, WFMin
<1>4. PICK n \in T : \A m \in T : ~(<<1 .. m, 1 .. n>> \in StrictSubsetOrdering(Nat))
  BY <1>3
<1>5. ASSUME NEW m \in T, m < n
      PROVE  FALSE
  <2>1. 1 .. m \in SUBSET Nat /\ 1 .. n \in SUBSET Nat
    OBVIOUS
  <2>2. 1 .. m \subseteq 1 .. n /\ n \in 1 .. n /\ n \notin 1 .. m
    BY <1>5
  <2>3. <<1 .. m, 1 .. n>> \in StrictSubsetOrdering(Nat)
    BY <2>1, <2>2 DEF StrictSubsetOrdering
  <2> QED
    BY <1>4, <2>3
<1> QED
  BY <1>5

\* A request that is busy with no order row and is waited for is a checkout in
\* its scan; if it waits itself, it waits at a row above the one it holds.
LEMMA WaitsAscend ==
    ASSUME IInv, NEW q \in Proc,
           NEW r \in Proc, r = Blocker(q), cur[r] = None,
           pc[q] = "locking", Blocker(r) \in Proc
    PROVE  at[q] \in Nat /\ at[r] \in Nat /\ at[q] < at[r] /\ pc[r] = "locking"
<1> USE ConstantsAssumption
<1>t. TypeOK /\ SnapshotsFresh /\ ScanFits(r) /\ ScanAscends(r)
  BY DEF IInv, CoreInv
<1>1. at[q] \in Option /\ optionLock[at[q]] = r
  BY <1>t DEF Blocker, TypeOK
<1>2. pc[r] = "locking"
  BY <1>1, <1>t DEF SnapshotsFresh
<1>3. at[r] \in Option /\ at[r] \in need[r]
  BY <1>2, <1>t DEF Blocker, TypeOK, ScanFits
<1>4. at[q] < at[r]
  BY <1>1, <1>2, <1>3, <1>t DEF ScanAscends
<1> QED
  BY <1>1, <1>2, <1>3, <1>4

\* Who is waited for by a request busy with no order row is in a lock scan.
LEMMA BlockersScan ==
    ASSUME IInv, NEW q \in Proc, NEW r \in Proc, r = Blocker(q), cur[r] = None
    PROVE  pc[r] = "locking"
<1> USE ConstantsAssumption
<1>t. TypeOK /\ SnapshotsFresh /\ JobFits(q) /\ CurFits(q) /\ CurFits(r) /\ OrderLockFits
  BY DEF IInv, CoreInv
<1>1. CASE pc[q] = "locking" /\ at[q] # NoOption
  BY <1>1, <1>t DEF Blocker, TypeOK, SnapshotsFresh
<1>2. CASE pc[q] = "update"
  <2>1. job[q].option \in Option
    BY <1>2, <1>t, JobFields DEF TypeOK, JobFits
  <2> QED
    BY <1>2, <2>1, <1>t DEF Blocker, SnapshotsFresh
<1>3. CASE pc[q] = "recheck"
  <2>1. cur[q] \in OrderId /\ orderLock[cur[q]] = r
    BY <1>3, <1>t DEF Blocker, CurFits
  <2> QED
    BY <2>1, <1>t DEF OrderLockFits
<1>4. CASE pc[q] = "wait"
  <2>1. job[q].order \in OrderId /\ orderLock[job[q].order] = r
    BY <1>4, <1>t, JobFields DEF Blocker, TypeOK, JobFits
  <2> QED
    BY <2>1, <1>t DEF OrderLockFits
<1>5. CASE /\ ~(pc[q] = "locking" /\ at[q] # NoOption)
           /\ pc[q] \notin {"update", "recheck", "wait"}
  BY <1>5 DEF Blocker
<1> QED
  BY <1>1, <1>2, <1>3, <1>4, <1>5

\* createOrder locks its options by ascending id: among any number of requests,
\* those that wait for one another in a cycle are never checkouts alone, so every
\* deadlock has the return of an order's stock in it.
THEOREM NoCheckoutDeadlock == Spec => []CheckoutsDoNotDeadlock
<1>1. IInv => CheckoutsDoNotDeadlock
  <2> SUFFICES ASSUME IInv, NEW S \in SUBSET Proc, Deadlocked(S),
                      \A q \in S : cur[q] = None
               PROVE  FALSE
    BY DEF CheckoutsDoNotDeadlock
  <2>1. S # {} /\ \A q \in S : Blocker(q) \in S
    BY DEF Deadlocked
  <2>2. ASSUME NEW r \in S
        PROVE  pc[r] = "locking" /\ at[r] \in Nat
    <3>1. PICK q \in S : r = Blocker(q)
      BY DEF Deadlocked
    <3>2. pc[r] = "locking"
      BY <3>1, BlockersScan
    <3> QED
      BY <3>2, <2>1, WaitsAscend
  <2> DEFINE Places == {at[q] : q \in S}
  <2>3. Places \in SUBSET Nat /\ Places # {}
    BY <2>1, <2>2
  <2> HIDE DEF Places
  <2>n. PICK n \in Places : \A m \in Places : n <= m
    BY <2>3, LeastNatural
  <2>4. PICK q \in S : \A r \in S : at[q] <= at[r]
    BY <2>n DEF Places
  \* the request waiting for q waits at a lower row
  <2>5. PICK r \in S : q = Blocker(r)
    BY DEF Deadlocked
  <2>6. at[r] < at[q]
    BY <2>1, <2>2, <2>5, WaitsAscend
  <2> QED
    BY <2>2, <2>4, <2>6
<1> QED
  BY <1>1, Invariance, PTL
=============================================================================
