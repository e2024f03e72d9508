---------------------------- MODULE OrdersProofs ----------------------------
(***************************************************************************)
(* Theorems about the order core, for any number of requests, orders and    *)
(* options.  The last part is about stock: no unit is ever lost or made up. *)
(* The sum over the orders that hold units needs facts about sums over      *)
(* finite sets, which come from the well-foundedness of inclusion among     *)
(* finite sets: a claim about all finite sets is proved by looking at a     *)
(* smallest one without it.                                                 *)
(***************************************************************************)
EXTENDS OrdersInvariant, TLAPS, FiniteSetTheorems, WellFoundedInduction

(* Constants and data.                                                      *)

LEMMA JobFields ==
    ASSUME NEW j \in Jobs \cup {NoJob}
    PROVE  /\ j.kind = "create" => j.basket \in Baskets
           /\ j.kind \in {"confirm", "status", "delivery"} => j.order \in OrderId
           /\ j.kind = "status" => j.target \in AdminTargets
           /\ j.kind = "delivery" => j.stage \in Stages
           /\ j.kind = "restock" => j.option \in Option /\ j.units \in 0 .. MaxStock
           /\ j.kind \in {"create", "sweep", "confirm", "status", "delivery",
                          "restock", "none"}
  BY DEF Jobs, NoJob, CreateJobs, SweepJobs, ConfirmJobs, StatusJobs,
         DeliveryJobs, RestockJobs

LEMMA ScanNextIn ==
    ASSUME NEW sorted, NEW S \in SUBSET Option, NEW i \in ScanNext(sorted, S)
    PROVE  /\ i \in S \cup {NoOption}
           /\ S # {} => i \in S
           /\ S = {} => i = NoOption
  BY DEF ScanNext

LEMMA OptionIds == NoOption \notin Option /\ Option \subseteq OptionId
  BY ConstantsAssumption DEF NoOption

\* Starting a lock scan sets three variables of the request and nothing else.
LEMMA StartLockingFacts ==
    ASSUME TypeOK, NEW p \in Proc, NEW q \in [OptionId -> Nat], NEW sorted,
           StartLocking(p, q, sorted)
    PROVE  /\ pc' = [pc EXCEPT ![p] = "locking"]
           /\ need' = [need EXCEPT ![p] = Wanted(q)]
           /\ need' \in [Proc -> SUBSET Option]
           /\ at' \in [Proc -> Option \cup {NoOption}]
           /\ \A r \in Proc : r # p => at'[r] = at[r]
           /\ at'[p] \in Wanted(q) \cup {NoOption}
           /\ Wanted(q) # {} => at'[p] \in Wanted(q)
           /\ Wanted(q) = {} => at'[p] = NoOption
<1>1. Wanted(q) \in SUBSET Option
  BY DEF Wanted
<1>2. PICK i \in ScanNext(sorted, Wanted(q)) : at' = [at EXCEPT ![p] = i]
  BY DEF StartLocking
<1>3. /\ i \in Wanted(q) \cup {NoOption}
      /\ Wanted(q) # {} => i \in Wanted(q)
      /\ Wanted(q) = {} => i = NoOption
  BY <1>1, <1>2, ScanNextIn
<1>4. at \in [Proc -> Option \cup {NoOption}] /\ need \in [Proc -> SUBSET Option]
  BY DEF TypeOK
<1>5. at'[p] = i /\ \A r \in Proc : r # p => at'[r] = at[r]
  BY <1>2, <1>4
<1>6. at' \in [Proc -> Option \cup {NoOption}]
  BY <1>1, <1>2, <1>3, <1>4
<1> QED
  BY <1>1, <1>3, <1>4, <1>5, <1>6 DEF StartLocking

LEMMA InitCoreInv == Init => CoreInv
<1> SUFFICES ASSUME Init PROVE CoreInv
  OBVIOUS
<1> USE ConstantsAssumption
<1>1. TypeOK
  BY DEF Init, TypeOK, NoItems, NoSnap, NoOption
<1>2. NoOversell
  BY DEF Init, NoOversell
<1>3. SnapshotsFresh
  BY DEF Init, SnapshotsFresh
<1>4. ASSUME NEW p \in Proc
      PROVE  JobFits(p) /\ CurFits(p) /\ OrderChecked(p) /\ ScanFits(p)
  BY DEF Init, JobFits, CurFits, OrderChecked, ScanFits, OrderOpen, NoJob
<1> QED
  BY <1>1, <1>2, <1>3, <1>4 DEF CoreInv

-----------------------------------------------------------------------------
(* Types.                                                                   *)

LEMMA TypeServe ==
    ASSUME CoreInv, NEW p \in Proc, Serve(p)
    PROVE  TypeOK'
<1> USE ConstantsAssumption DEF CoreInv, TypeOK
<1>j. /\ job[p] \in Jobs \cup {NoJob}
      /\ job[p].kind = "create" => job[p].basket \in Baskets
      /\ job[p].kind \in {"confirm", "status", "delivery"} => job[p].order \in OrderId
      /\ job[p].kind = "status" => job[p].target \in AdminTargets
      /\ job[p].kind = "delivery" => job[p].stage \in Stages
      /\ job[p].kind = "restock" => job[p].option \in Option /\ job[p].units \in 0 .. MaxStock
  BY JobFields
<1> HIDE DEF Jobs
<1>1. CASE ScanCandidates(p)
  BY <1>1 DEF ScanCandidates, rows, locks, gateway, history, GoTo
<1>2. CASE NextCandidate(p)
  BY <1>2 DEF NextCandidate, rows, locks, gateway, history, GoTo
<1>3. CASE LockCandidate(p)
  <2>1. items[cur[p]] \in [OptionId -> Nat]
    BY <1>3 DEF LockCandidate, CurFits
  <2>2. /\ pc' = [pc EXCEPT ![p] = "locking"]
        /\ need' \in [Proc -> SUBSET Option]
        /\ at' \in [Proc -> Option \cup {NoOption}]
    BY <1>3, <2>1, StartLockingFacts DEF LockCandidate
  <2> QED
    BY <1>3, <2>2 DEF LockCandidate, rows, gateway, history
<1>4. CASE SkipCandidate(p)
  BY <1>4 DEF SkipCandidate, rows, locks, gateway, history, GoTo
<1>5. CASE ReclaimCommit(p)
  BY <1>5, OptionIds DEF ReclaimCommit, PutBack, HasRestored, DropLocks, gateway, GoTo, NoSnap, OrderStatus,
     CurFits, OrderOpen
<1>6. CASE SweepDone(p)
  BY <1>6 DEF SweepDone, Answer, rows, locks, gateway, history, NoSnap
<1>7. CASE StartOrder(p)
  <2>1. job[p].basket \in [OptionId -> Nat]
    BY <1>7, <1>j DEF StartOrder
  <2>2. /\ pc' = [pc EXCEPT ![p] = "locking"]
        /\ need' \in [Proc -> SUBSET Option]
        /\ at' \in [Proc -> Option \cup {NoOption}]
    BY <1>7, <2>1, StartLockingFacts DEF StartOrder
  <2> QED
    BY <1>7, <2>2 DEF StartOrder, rows, locks, gateway, history
<1>8. CASE LockOption(p)
  <2>1. PICK i \in ScanNext(cur[p] = None, need[p] \ {at[p]}) : at' = [at EXCEPT ![p] = i]
    BY <1>8 DEF LockOption
  <2>2. i \in Option \cup {NoOption}
    <3>1. need[p] \ {at[p]} \in SUBSET Option
      OBVIOUS
    <3> QED
      BY <2>1, <3>1 DEF ScanNext
  <2>3. at[p] \in Option
    BY <1>8 DEF LockOption
  <2> QED
    BY <1>8, <2>1, <2>2, <2>3 DEF LockOption, rows, gateway, history
<1>9. CASE CreateCommit(p)
  <2>1. job[p].basket \in [OptionId -> Nat]
    BY <1>9, <1>j DEF CreateCommit, OrderTx
  <2>2. stock' \in [Option -> Int]
    BY <1>9, <2>1, OptionIds DEF CreateCommit, TakeOut
  <2>3. /\ status' \in [OrderId -> OrderStatus \cup {"none"}]
        /\ items' \in [OrderId -> [OptionId -> Nat]]
    BY <1>9, <2>1 DEF CreateCommit, OrderStatus
  <2>4. /\ orderLock' \in [OrderId -> Proc \cup {None}]
        /\ optionLock' \in [Option -> Proc \cup {None}]
    BY <1>9 DEF CreateCommit, DropLocks
  <2> QED
    BY <1>9, <2>2, <2>3, <2>4 DEF CreateCommit, Answer, gateway, history, NoSnap
<1>10. CASE StockInsufficient(p)
  BY <1>10 DEF StockInsufficient, RollBack, DropLocks, Answer, rows, gateway, history, NoSnap
<1>11. CASE LockOrder(p)
  <2>1. job[p].order \in OrderId
    BY <1>11, <1>j DEF LockOrder, JobFits
  <2>2. /\ pc' \in [Proc -> {"idle", "scan", "loop", "recheck", "locking", "wait",
                            "pgConfirm", "pgCancel", "save", "reload", "update"}]
        /\ need' \in [Proc -> SUBSET Option]
        /\ at' \in [Proc -> Option \cup {NoOption}]
    <3>1. CASE StartLocking(p, items[job[p].order], FALSE)
      <4>1. items[job[p].order] \in [OptionId -> Nat]
        BY <2>1
      <4>2. /\ pc' = [pc EXCEPT ![p] = "locking"]
            /\ need' \in [Proc -> SUBSET Option]
            /\ at' \in [Proc -> Option \cup {NoOption}]
        BY <3>1, <4>1, StartLockingFacts
      <4> QED
        BY <4>2
    <3>2. CASE /\ UNCHANGED <<need, at>>
               /\ GoTo(p, "pgConfirm") \/ GoTo(p, "pgCancel") \/ GoTo(p, "save")
      BY <3>2 DEF GoTo
    <3> QED
      BY <1>11, <3>1, <3>2 DEF LockOrder
  <2> QED
    BY <1>11, <2>1, <2>2 DEF LockOrder, rows, gateway, history
<1>12. CASE Reject(p)
  BY <1>12 DEF Reject, Answer, rows, locks, gateway, history, NoSnap
<1>13. CASE SaveConfirm(p)
  <2>1. paymentKey' \in [OrderId -> BOOLEAN]
    BY <1>13, Zenon DEF SaveConfirm
  <2> QED
    BY <1>13, <2>1 DEF SaveConfirm, DropLocks, Answer, gateway, history, NoSnap, OrderStatus
<1>14. CASE SaveStatus(p)
  <2>1. job[p].target \in OrderStatus
    BY <1>14, <1>j DEF SaveStatus
  <2>2. status' \in [OrderId -> OrderStatus \cup {"none"}]
    BY <1>14, <2>1 DEF SaveStatus
  <2> QED
    BY <1>14, <2>2 DEF SaveStatus, DropLocks, Answer, gateway, history, NoSnap
<1>15. CASE CancelCommit(p)
  BY <1>15, OptionIds DEF CancelCommit, PutBack, HasRestored, DropLocks, Answer, gateway, NoSnap, OrderStatus,
     CurFits, OrderOpen
<1>16. CASE SaveDelivery(p)
  <2>1. cur[p] \in OrderId /\ job[p].stage \in Stages
    BY <1>16, <1>j DEF SaveDelivery, CurFits, OrderOpen
  <2>2. timeline' \in [OrderId -> Seq(Stages)]
    BY <1>16, <2>1 DEF SaveDelivery
  <2>3. status' \in [OrderId -> OrderStatus \cup {"none"}]
    BY <1>16, <2>1 DEF SaveDelivery, OrderStatus
  <2> QED
    BY <1>16, <2>2, <2>3 DEF SaveDelivery, DropLocks, Answer, gateway, history, NoSnap
<1>17. CASE PgConfirmOk(p)
  BY <1>17 DEF PgConfirmOk, Captured, GoTo, rows, locks, history
<1>18. CASE PgCancelOk(p)
  <2>1. items[cur[p]] \in [OptionId -> Nat]
    BY <1>18 DEF PgCancelOk, CurFits, OrderOpen
  <2>2. /\ pc' = [pc EXCEPT ![p] = "locking"]
        /\ need' \in [Proc -> SUBSET Option]
        /\ at' \in [Proc -> Option \cup {NoOption}]
    BY <1>18, <2>1, StartLockingFacts DEF PgCancelOk
  <2> QED
    BY <1>18, <2>2 DEF PgCancelOk, Refunded, rows, locks, history
<1>19. CASE PgFailed(p)
  <2>1. late' \in [OrderId -> SUBSET {"pgConfirm", "pgCancel"}]
    <3>1. CASE UNCHANGED late
      BY <3>1
    <3>2. CASE late' = [late EXCEPT ![cur[p]] = @ \cup {pc[p]}]
      <4>1. pc[p] \in {"pgConfirm", "pgCancel"} /\ cur[p] \in OrderId
        BY <1>19 DEF PgFailed, CurFits, OrderOpen
      <4>2. late[cur[p]] \cup {pc[p]} \in SUBSET {"pgConfirm", "pgCancel"}
        BY <4>1
      <4> QED
        BY <3>2, <4>1, <4>2
    <3> QED
      BY <1>19, <3>1, <3>2 DEF PgFailed
  <2> QED
    BY <1>19, <2>1 DEF PgFailed, RollBack, DropLocks, Answer, rows, history, NoSnap
<1>20. CASE RestockSame(p)
  BY <1>20 DEF RestockSame, Answer, rows, locks, gateway, history, NoSnap
<1>21. CASE RestockReload(p)
  BY <1>21 DEF RestockReload, rows, locks, gateway, history, GoTo
<1>22. CASE RestockUpdate(p)
  <2>1. job[p].option \in Option /\ job[p].units \in Nat
    BY <1>22, <1>j DEF RestockUpdate, JobFits
  <2>2. stock' \in [Option -> Int] /\ supply' \in [Option -> Int]
    <3>1. /\ stock' = [stock EXCEPT ![job[p].option] = job[p].units]
          /\ supply' = [supply EXCEPT ![job[p].option] =
                           @ + (job[p].units - stock[job[p].option])]
      BY <1>22 DEF RestockUpdate
    <3>2. stock[job[p].option] \in Int /\ supply[job[p].option] \in Int
      BY <2>1
    <3> QED
      BY <2>1, <3>1, <3>2
  <2> QED
    BY <1>22, <2>2 DEF RestockUpdate, Answer, locks, gateway, NoSnap
<1> QED
  BY <1>1, <1>2, <1>3, <1>4, <1>5, <1>6, <1>7, <1>8, <1>9, <1>10, <1>11, <1>12, <1>13,
     <1>14, <1>15, <1>16, <1>17, <1>18, <1>19, <1>20, <1>21, <1>22
  DEF Serve, Reclaim, Checkout, OrderRow, Gateway, RestockSteps

LEMMA TypeArrival ==
    ASSUME CoreInv, NEW p \in Proc, Arrival(p)
    PROVE  TypeOK'
<1> USE DEF CoreInv, TypeOK
<1>1. ASSUME NEW kind, NEW jobs \in SUBSET Jobs,
             NEW first \in {"scan", "wait", "reload"}, Begin(p, kind, first, jobs)
      PROVE  TypeOK'
  <2>1. PICK j \in jobs : job' = [job EXCEPT ![p] = j]
    BY <1>1 DEF Begin
  <2> HIDE DEF Jobs
  <2>2. job' \in [Proc -> Jobs \cup {NoJob}]
    BY <2>1
  <2> QED
    BY <1>1, <2>2 DEF Begin, GoTo, rows, locks, gateway, history
<1> QED
  BY <1>1 DEF Arrival, CreateOrder, GetStockOverview, Confirm, UpdateOrderStatus,
              AddDeliveryEvent, RestockOption, Jobs

LEMMA TypeNext ==
    ASSUME CoreInv, [Next]_vars
    PROVE  TypeOK'
<1>1. ASSUME NEW p \in Proc, RollBack(p), UNCHANGED gateway
      PROVE  TypeOK'
  BY <1>1 DEF CoreInv, TypeOK, RollBack, DropLocks, Answer, rows, gateway, history, NoSnap
<1>2. ASSUME NEW p \in Proc, Abort(p) \/ DeadlockVictim(p)
      PROVE  TypeOK'
  BY <1>1, <1>2 DEF Abort, DeadlockVictim
<1>3. ASSUME NEW o \in OrderId, PgLate(o)
      PROVE  TypeOK'
  BY <1>3 DEF CoreInv, TypeOK, PgLate, Effect, Captured, Refunded, rows, locks, requests, history
<1>4. ASSUME NEW o \in OrderId, TtlPasses(o)
      PROVE  TypeOK'
  BY <1>4 DEF CoreInv, TypeOK, TtlPasses, rows, locks, gateway, requests, history
<1>5. CASE UNCHANGED vars
  BY <1>5 DEF CoreInv, TypeOK, vars, rows, locks, gateway, requests, history
<1>6. ASSUME NEW p \in Proc, PgSilent(p)
      PROVE  TypeOK'
  BY <1>6 DEF CoreInv, TypeOK, PgSilent, Effect, Captured, Refunded, rows, locks, requests, history
<1> QED
  BY <1>2, <1>3, <1>4, <1>5, <1>6, TypeServe, TypeArrival DEF Next

-----------------------------------------------------------------------------
(* A step of one request leaves the others alone: their program counters,   *)
(* their locks, and the rows they have locked.                              *)

Acts(p) == Arrival(p) \/ Serve(p) \/ Abort(p) \/ DeadlockVictim(p)

LEMMA OthersKeepLocals ==
    ASSUME CoreInv, NEW p \in Proc, Acts(p), NEW r \in Proc, r # p
    PROVE  /\ pc'[r] = pc[r] /\ job'[r] = job[r] /\ cur'[r] = cur[r]
           /\ need'[r] = need[r] /\ at'[r] = at[r] /\ snap'[r] = snap[r]
<1> USE DEF CoreInv, TypeOK
<1>1. ASSUME Answer(p)
      PROVE  /\ pc'[r] = pc[r] /\ job'[r] = job[r] /\ cur'[r] = cur[r]
             /\ need'[r] = need[r] /\ at'[r] = at[r] /\ snap'[r] = snap[r]
  BY <1>1 DEF Answer
<1>2. ASSUME NEW q, NEW sorted, StartLocking(p, q, sorted)
      PROVE  pc'[r] = pc[r] /\ need'[r] = need[r] /\ at'[r] = at[r]
  BY <1>2 DEF StartLocking
<1>3. CASE Arrival(p)
  BY <1>3 DEF Arrival, Begin, CreateOrder, GetStockOverview, Confirm, UpdateOrderStatus,
              AddDeliveryEvent, RestockOption, GoTo
<1>4. CASE Abort(p) \/ DeadlockVictim(p)
  BY <1>1, <1>4 DEF Abort, DeadlockVictim, RollBack
<1>5. CASE Reclaim(p)
  <2>1. CASE ScanCandidates(p) \/ SkipCandidate(p) \/ SweepDone(p)
    BY <1>1, <2>1 DEF ScanCandidates, SkipCandidate, SweepDone, GoTo
  <2>2. CASE NextCandidate(p)
    BY <2>2 DEF NextCandidate, GoTo
  <2>3. CASE LockCandidate(p)
    BY <1>2, <2>3 DEF LockCandidate
  <2>4. CASE ReclaimCommit(p)
    BY <2>4 DEF ReclaimCommit, GoTo
  <2> QED
    BY <1>5, <2>1, <2>2, <2>3, <2>4 DEF Reclaim
<1>6. CASE Checkout(p)
  BY <1>1, <1>2, <1>6 DEF Checkout, StartOrder, LockOption, CreateCommit,
              StockInsufficient, RollBack
<1>7. CASE OrderRow(p)
  BY <1>1, <1>2, <1>7 DEF OrderRow, LockOrder, Reject, SaveConfirm, SaveStatus,
              CancelCommit, SaveDelivery, GoTo
<1>8. CASE Gateway(p)
  BY <1>1, <1>2, <1>8 DEF Gateway, PgConfirmOk, PgCancelOk, PgFailed, RollBack, GoTo
<1>9. CASE RestockSteps(p)
  BY <1>1, <1>9 DEF RestockSteps, RestockSame, RestockReload, RestockUpdate, GoTo
<1> QED
  BY <1>3, <1>4, <1>5, <1>6, <1>7, <1>8, <1>9 DEF Acts, Serve

LEMMA OthersKeepLocks ==
    ASSUME CoreInv, NEW p \in Proc, Acts(p), NEW r \in Proc, r # p
    PROVE  /\ \A o \in OrderId : orderLock[o] = r => orderLock'[o] = r
           /\ \A i \in Option : optionLock'[i] = r <=> optionLock[i] = r
<1> USE ConstantsAssumption DEF CoreInv, TypeOK
<1>1. ASSUME DropLocks(p)
      PROVE  /\ \A o \in OrderId : orderLock[o] = r => orderLock'[o] = r
             /\ \A i \in Option : optionLock'[i] = r <=> optionLock[i] = r
  BY <1>1 DEF DropLocks
<1>2. ASSUME UNCHANGED locks
      PROVE  /\ \A o \in OrderId : orderLock[o] = r => orderLock'[o] = r
             /\ \A i \in Option : optionLock'[i] = r <=> optionLock[i] = r
  BY <1>2 DEF locks
<1>3. CASE Arrival(p)
  BY <1>2, <1>3 DEF Arrival, Begin, CreateOrder, GetStockOverview, Confirm,
              UpdateOrderStatus, AddDeliveryEvent, RestockOption
<1>4. CASE Abort(p) \/ DeadlockVictim(p)
  BY <1>1, <1>4 DEF Abort, DeadlockVictim, RollBack
<1>5. CASE Reclaim(p)
  <2>1. CASE ScanCandidates(p) \/ NextCandidate(p) \/ SkipCandidate(p) \/ SweepDone(p)
    BY <1>2, <2>1 DEF ScanCandidates, NextCandidate, SkipCandidate, SweepDone
  <2>2. CASE LockCandidate(p)
    BY <2>2 DEF LockCandidate
  <2>3. CASE ReclaimCommit(p)
    BY <1>1, <2>3 DEF ReclaimCommit
  <2> QED
    BY <1>5, <2>1, <2>2, <2>3 DEF Reclaim
<1>10. CASE LockOption(p)
  <2>1. /\ optionLock[at[p]] = None
        /\ optionLock' = [optionLock EXCEPT ![at[p]] = p]
        /\ UNCHANGED orderLock
    BY <1>10 DEF LockOption, RowFree
  <2> QED
    BY <2>1
<1>6. CASE Checkout(p)
  BY <1>1, <1>2, <1>6, <1>10 DEF Checkout, StartOrder, CreateCommit,
              StockInsufficient, RollBack
<1>7. CASE OrderRow(p)
  <2>1. CASE LockOrder(p)
    BY <2>1 DEF LockOrder
  <2>2. CASE Reject(p)
    BY <1>2, <2>2 DEF Reject
  <2>3. CASE SaveConfirm(p) \/ SaveStatus(p) \/ CancelCommit(p) \/ SaveDelivery(p)
    BY <1>1, <2>3 DEF SaveConfirm, SaveStatus, CancelCommit, SaveDelivery
  <2> QED
    BY <1>7, <2>1, <2>2, <2>3 DEF OrderRow
<1>8. CASE Gateway(p)
  BY <1>1, <1>2, <1>8 DEF Gateway, PgConfirmOk, PgCancelOk, PgFailed, RollBack
<1>9. CASE RestockSteps(p)
  BY <1>2, <1>9 DEF RestockSteps, RestockSame, RestockReload, RestockUpdate
<1> QED
  BY <1>3, <1>4, <1>5, <1>6, <1>7, <1>8, <1>9 DEF Acts, Serve

LEMMA OthersKeepRows ==
    ASSUME CoreInv, NEW p \in Proc, Acts(p), NEW r \in Proc, r # p
    PROVE  /\ \A o \in OrderId : orderLock[o] = r /\ status[o] # "none" =>
                 status'[o] = status[o] /\ items'[o] = items[o]
           /\ \A i \in Option : optionLock[i] = r => stock'[i] = stock[i]
<1> USE ConstantsAssumption DEF CoreInv, TypeOK
<1>1. ASSUME UNCHANGED rows
      PROVE  /\ \A o \in OrderId : orderLock[o] = r /\ status[o] # "none" =>
                 status'[o] = status[o] /\ items'[o] = items[o]
             /\ \A i \in Option : optionLock[i] = r => stock'[i] = stock[i]
  BY <1>1 DEF rows
<1>2. ASSUME OrderOpen(p)
      PROVE  cur[p] \in OrderId /\ orderLock[cur[p]] = p
  BY <1>2 DEF CurFits, OrderChecked
<1>3. CASE Arrival(p)
  BY <1>1, <1>3 DEF Arrival, Begin, CreateOrder, GetStockOverview, Confirm,
              UpdateOrderStatus, AddDeliveryEvent, RestockOption
<1>4. CASE Abort(p) \/ DeadlockVictim(p)
  BY <1>1, <1>4 DEF Abort, DeadlockVictim, RollBack
<1>5. CASE ReclaimCommit(p)
  BY <1>2, <1>5 DEF ReclaimCommit, PutBack, OrderOpen
<1>6. CASE CreateCommit(p)
  BY <1>6 DEF CreateCommit, TakeOut
<1>7. CASE CancelCommit(p)
  BY <1>2, <1>7 DEF CancelCommit, PutBack, OrderOpen, CurFits
<1>8. CASE SaveConfirm(p) \/ SaveStatus(p) \/ SaveDelivery(p)
  BY <1>2, <1>8 DEF SaveConfirm, SaveStatus, SaveDelivery, OrderOpen
<1>9. CASE RestockUpdate(p)
  <2>1. /\ optionLock[job[p].option] = None
        /\ stock' = [stock EXCEPT ![job[p].option] = job[p].units]
        /\ UNCHANGED <<status, items>>
    BY <1>9 DEF RestockUpdate, RowFree
  <2>2. ASSUME NEW i \in Option, optionLock[i] = r
        PROVE  stock'[i] = stock[i]
    BY <2>1, <2>2
  <2> QED
    BY <2>1, <2>2
<1>10. CASE UNCHANGED rows
  BY <1>1, <1>10
<1>11. Serve(p) => \/ ReclaimCommit(p) \/ CreateCommit(p) \/ CancelCommit(p)
                   \/ SaveConfirm(p) \/ SaveStatus(p) \/ SaveDelivery(p)
                   \/ RestockUpdate(p) \/ UNCHANGED rows
  BY DEF Serve, Reclaim, Checkout, OrderRow, Gateway, RestockSteps,
         ScanCandidates, NextCandidate, LockCandidate, SkipCandidate, SweepDone,
         StartOrder, LockOption, StockInsufficient, RollBack, LockOrder, Reject,
         PgConfirmOk, PgCancelOk, PgFailed, RestockSame, RestockReload
<1> QED
  BY <1>3, <1>4, <1>5, <1>6, <1>7, <1>8, <1>9, <1>10, <1>11 DEF Acts

Fits(p) == JobFits(p) /\ CurFits(p) /\ OrderChecked(p) /\ ScanFits(p)

LEMMA OthersFit ==
    ASSUME CoreInv, NEW p \in Proc, Acts(p), NEW r \in Proc, r # p
    PROVE  Fits(r)'
<1>1. /\ pc'[r] = pc[r] /\ job'[r] = job[r] /\ cur'[r] = cur[r]
      /\ need'[r] = need[r] /\ at'[r] = at[r] /\ snap'[r] = snap[r]
  BY OthersKeepLocals
<1>2. /\ \A o \in OrderId : orderLock[o] = r => orderLock'[o] = r
      /\ \A i \in Option : optionLock'[i] = r <=> optionLock[i] = r
  BY OthersKeepLocks
<1>3. \A o \in OrderId : orderLock[o] = r /\ status[o] # "none" =>
          status'[o] = status[o] /\ items'[o] = items[o]
  BY OthersKeepRows
<1>4. Fits(r)
  BY DEF CoreInv, Fits
<1>5. JobFits(r)'
  BY <1>1, <1>4 DEF Fits, JobFits
<1>6. OrderOpen(r)' <=> OrderOpen(r)
  BY <1>1 DEF OrderOpen
<1>7. CurFits(r)'
  BY <1>1, <1>4, <1>6 DEF Fits, CurFits
<1>8. ASSUME OrderOpen(r)
      PROVE  /\ cur[r] \in OrderId /\ cur'[r] = cur[r] /\ orderLock'[cur[r]] = r
             /\ status'[cur[r]] = status[cur[r]] /\ items'[cur[r]] = items[cur[r]]
  BY <1>1, <1>2, <1>3, <1>4, <1>8 DEF Fits, CurFits, OrderChecked
<1>9. OrderChecked(r)'
  BY <1>1, <1>4, <1>6, <1>8 DEF Fits, OrderChecked
<1>10. pc[r] = "locking" => Quantities(r)' = Quantities(r)
  BY <1>1, <1>8 DEF Quantities, OrderOpen
<1>11. ScanFits(r)'
  BY <1>1, <1>2, <1>4, <1>10 DEF Fits, ScanFits
<1> QED
  BY <1>5, <1>7, <1>9, <1>11 DEF Fits

-----------------------------------------------------------------------------
(* The request that takes the step.                                         *)

\* An answered request, and one outside every transaction, fits trivially.
LEMMA AnsweredFits ==
    ASSUME TypeOK, NEW p \in Proc, Answer(p)
    PROVE  Fits(p)'
<1>1. pc'[p] = "idle" /\ job'[p] = NoJob /\ cur'[p] = None
  BY DEF Answer, TypeOK
<1> QED
  BY <1>1 DEF Fits, JobFits, CurFits, OrderChecked, ScanFits, OrderOpen, NoJob

\* A lock scan that has just started, on the items of an order or on a basket.
LEMMA ScanStarts ==
    ASSUME TypeOK, NEW p \in Proc, NEW q \in [OptionId -> Nat], NEW sorted,
           StartLocking(p, q, sorted), Quantities(p)' = q
    PROVE  pc'[p] = "locking" /\ ScanFits(p)'
<1> USE OptionIds
<1>1. /\ pc' = [pc EXCEPT ![p] = "locking"]
      /\ need' = [need EXCEPT ![p] = Wanted(q)]
      /\ at'[p] \in Wanted(q) \cup {NoOption}
      /\ Wanted(q) # {} => at'[p] \in Wanted(q)
      /\ Wanted(q) = {} => at'[p] = NoOption
  BY StartLockingFacts
<1>2. pc'[p] = "locking" /\ need'[p] = Wanted(q)
  BY <1>1 DEF TypeOK
<1>3. \A i \in Option : q[i] > 0 => i \in Wanted(q)
  BY DEF Wanted
<1>4. Wanted(q) \subseteq Option
  BY DEF Wanted
<1>5. need'[p] = {} <=> at'[p] = NoOption
  BY <1>1, <1>2, <1>4
<1> QED
  BY <1>1, <1>2, <1>3, <1>5 DEF ScanFits

LEMMA ArrivalFits ==
    ASSUME CoreInv, NEW p \in Proc, Arrival(p)
    PROVE  Fits(p)'
<1>1. pc[p] = "idle" /\ cur[p] = None /\ UNCHANGED cur
  BY DEF CoreInv, Arrival, Begin, Idle, CreateOrder, GetStockOverview, Confirm,
         UpdateOrderStatus, AddDeliveryEvent, RestockOption, CurFits
<1>2. \/ pc'[p] = "scan" /\ job'[p].kind \in {"create", "sweep"}
      \/ pc'[p] = "wait" /\ job'[p].kind \in {"confirm", "status", "delivery"}
      \/ pc'[p] = "reload" /\ job'[p].kind = "restock"
  BY DEF CoreInv, TypeOK, Arrival, Begin, GoTo, CreateOrder, GetStockOverview, Confirm,
         UpdateOrderStatus, AddDeliveryEvent, RestockOption, CreateJobs, SweepJobs,
         ConfirmJobs, StatusJobs, DeliveryJobs, RestockJobs
<1> QED
  BY <1>1, <1>2 DEF Fits, JobFits, CurFits, OrderChecked, ScanFits, OrderOpen

LEMMA ServeFits ==
    ASSUME CoreInv, NEW p \in Proc, Serve(p)
    PROVE  Fits(p)'
<1> USE ConstantsAssumption, OptionIds
<1>t. TypeOK /\ JobFits(p) /\ CurFits(p) /\ OrderChecked(p) /\ ScanFits(p)
  BY DEF CoreInv
<1>a. Answer(p) => Fits(p)'
  BY <1>t, AnsweredFits
<1>j. /\ job[p].kind = "create" => job[p].basket \in [OptionId -> Nat]
      /\ job[p].kind \in {"confirm", "status", "delivery"} => job[p].order \in OrderId
  BY <1>t, JobFields DEF TypeOK
<1>1. CASE ScanCandidates(p)
  <2>1. pc'[p] = "loop" /\ cur'[p] = None /\ job'[p] = job[p] /\ pc[p] = "scan"
    BY <1>1, <1>t DEF ScanCandidates, GoTo, TypeOK, CurFits
  <2> QED
    BY <2>1, <1>t DEF Fits, JobFits, CurFits, OrderChecked, ScanFits, OrderOpen
<1>2. CASE NextCandidate(p)
  <2>1. pc'[p] = "recheck" /\ cur'[p] \in OrderId /\ job'[p] = job[p] /\ pc[p] = "loop"
    BY <1>2, <1>t DEF NextCandidate, GoTo, TypeOK
  <2> QED
    BY <2>1, <1>t DEF Fits, JobFits, CurFits, OrderChecked, ScanFits, OrderOpen
<1>3. CASE LockCandidate(p)
  <2>1. /\ cur[p] \in OrderId /\ cur'[p] = cur[p] /\ job'[p] = job[p] /\ pc[p] = "recheck"
        /\ items' = items /\ status' = status /\ status[cur[p]] = "PENDING"
        /\ orderLock'[cur[p]] = p
        /\ StartLocking(p, items[cur[p]], FALSE)
    BY <1>3, <1>t DEF LockCandidate, StillReclaimable, TypeOK, rows, CurFits
  <2>2. Quantities(p)' = items[cur[p]] /\ items[cur[p]] \in [OptionId -> Nat]
    BY <2>1, <1>t DEF Quantities, TypeOK
  <2>3. pc'[p] = "locking" /\ ScanFits(p)'
    BY <2>1, <2>2, <1>t, ScanStarts
  <2> QED
    BY <2>1, <2>3, <1>t DEF Fits, JobFits, CurFits, OrderChecked, OrderOpen
<1>4. CASE SkipCandidate(p)
  <2>1. pc'[p] = "loop" /\ cur'[p] = None /\ job'[p] = job[p] /\ pc[p] = "recheck"
    BY <1>4, <1>t DEF SkipCandidate, GoTo, TypeOK
  <2> QED
    BY <2>1, <1>t DEF Fits, JobFits, CurFits, OrderChecked, ScanFits, OrderOpen
<1>5. CASE ReclaimCommit(p)
  <2>1. /\ pc'[p] = "loop" /\ cur'[p] = None /\ job'[p] = job[p]
        /\ job[p].kind \in {"create", "sweep"}
    BY <1>5, <1>t DEF ReclaimCommit, GoTo, TypeOK
  <2> QED
    BY <2>1 DEF Fits, JobFits, CurFits, OrderChecked, ScanFits, OrderOpen
<1>6. CASE StartOrder(p)
  <2>1. /\ cur[p] = None /\ cur'[p] = None /\ job'[p] = job[p] /\ job[p].kind = "create"
        /\ StartLocking(p, job[p].basket, TRUE)
    BY <1>6, <1>t DEF StartOrder, CurFits
  <2>2. Quantities(p)' = job[p].basket /\ job[p].basket \in [OptionId -> Nat]
    BY <2>1, <1>j DEF Quantities
  <2>3. pc'[p] = "locking" /\ ScanFits(p)'
    BY <2>1, <2>2, <1>t, ScanStarts
  <2> QED
    BY <2>1, <2>3 DEF Fits, JobFits, CurFits, OrderChecked, OrderOpen
<1>7. CASE LockOption(p)
  <2>1. /\ pc[p] = "locking" /\ at[p] # NoOption /\ at[p] \in need[p]
        /\ pc' = pc /\ cur' = cur /\ job' = job /\ status' = status /\ items' = items
        /\ orderLock' = orderLock
        /\ optionLock' = [optionLock EXCEPT ![at[p]] = p]
        /\ need'[p] = need[p] \ {at[p]}
    BY <1>7, <1>t DEF LockOption, ScanFits, TypeOK, rows
  <2>2. PICK i \in ScanNext(cur[p] = None, need[p] \ {at[p]}) : at' = [at EXCEPT ![p] = i]
    BY <1>7 DEF LockOption
  <2>3. at'[p] = i
    BY <2>2, <1>t DEF TypeOK
  <2>4. need[p] \in SUBSET Option
    BY <1>t DEF TypeOK
  <2>5. /\ i \in (need[p] \ {at[p]}) \cup {NoOption}
        /\ need[p] \ {at[p]} = {} <=> i = NoOption
    BY <2>2, <2>4 DEF ScanNext
  <2>6. Quantities(p)' = Quantities(p)
    BY <2>1 DEF Quantities
  <2>7. \A j \in Option : optionLock[j] = p \/ j = at[p] => optionLock'[j] = p
    BY <2>1, <1>t DEF TypeOK
  <2>8. ScanFits(p)'
    BY <2>1, <2>3, <2>5, <2>6, <2>7, <1>t DEF ScanFits
  <2> QED
    BY <2>1, <2>8, <1>t DEF Fits, JobFits, CurFits, OrderChecked, OrderOpen
<1>8. CASE LockOrder(p)
  <2>1. /\ job[p].kind \in {"confirm", "status", "delivery"} /\ job[p].order \in OrderId
        /\ cur'[p] = job[p].order /\ job'[p] = job[p]
        /\ items' = items /\ status' = status
        /\ orderLock'[job[p].order] = p
        /\ Accepted(p)
    BY <1>8, <1>t, <1>j DEF LockOrder, JobFits, TypeOK, rows
  <2>2. /\ status[job[p].order] # "none"
        /\ job[p].kind = "confirm" => status[job[p].order] = "PENDING"
        /\ job[p].kind = "status" =>
              job[p].target \in VALID_TRANSITIONS[status[job[p].order]]
        /\ job[p].kind = "delivery" => status[job[p].order] = "SHIPPED"
    BY <2>1 DEF Accepted, MayConfirm, MaySetStatus, MayAddStage
  <2>3. CASE job[p].kind = "confirm" /\ GoTo(p, "pgConfirm")
    <3>1. pc'[p] = "pgConfirm"
      BY <2>3, <1>t DEF GoTo, TypeOK
    <3> QED
      BY <3>1, <2>1, <2>2, <2>3 DEF Fits, JobFits, CurFits, OrderChecked, ScanFits, OrderOpen
  <2>4. CASE Refunding(p) /\ GoTo(p, "pgCancel")
    <3>1. pc'[p] = "pgCancel" /\ job[p].kind = "status" /\ job[p].target = "CANCELLED"
      BY <2>4, <1>t DEF GoTo, TypeOK, Refunding, Cancelling
    <3> QED
      BY <3>1, <2>1, <2>2 DEF Fits, JobFits, CurFits, OrderChecked, ScanFits, OrderOpen
  <2>5. CASE Cancelling(p) /\ StartLocking(p, items[job[p].order], FALSE)
    <3>1. Quantities(p)' = items[job[p].order] /\ items[job[p].order] \in [OptionId -> Nat]
      BY <2>1, <1>t DEF Quantities, TypeOK
    <3>2. pc'[p] = "locking" /\ ScanFits(p)'
      BY <2>5, <3>1, <1>t, ScanStarts
    <3>3. job[p].kind = "status" /\ job[p].target = "CANCELLED"
      BY <2>5 DEF Cancelling
    <3> QED
      BY <3>2, <3>3, <2>1, <2>2 DEF Fits, JobFits, CurFits, OrderChecked, OrderOpen
  <2>6. CASE job[p].kind # "confirm" /\ ~Cancelling(p) /\ GoTo(p, "save")
    <3>1. pc'[p] = "save" /\ (job[p].kind = "status" => job[p].target # "CANCELLED")
      BY <2>6, <1>t DEF GoTo, TypeOK, Cancelling
    <3> QED
      BY <3>1, <2>1, <2>2, <2>6 DEF Fits, JobFits, CurFits, OrderChecked, ScanFits, OrderOpen
  <2> QED
    BY <1>8, <2>3, <2>4, <2>5, <2>6 DEF LockOrder
<1>9. CASE PgConfirmOk(p)
  <2>1. /\ pc[p] = "pgConfirm" /\ pc'[p] = "save" /\ cur'[p] = cur[p] /\ job'[p] = job[p]
        /\ status' = status /\ orderLock' = orderLock
    BY <1>9, <1>t DEF PgConfirmOk, GoTo, TypeOK, rows, locks
  <2> QED
    BY <2>1, <1>t DEF Fits, JobFits, CurFits, OrderChecked, ScanFits, OrderOpen
<1>10. CASE PgCancelOk(p)
  <2>1. /\ pc[p] = "pgCancel" /\ cur[p] \in OrderId /\ cur'[p] = cur[p] /\ job'[p] = job[p]
        /\ status' = status /\ items' = items /\ orderLock' = orderLock
        /\ StartLocking(p, items[cur[p]], FALSE)
    BY <1>10, <1>t DEF PgCancelOk, rows, locks, CurFits, OrderOpen
  <2>2. Quantities(p)' = items[cur[p]] /\ items[cur[p]] \in [OptionId -> Nat]
    BY <2>1, <1>t DEF Quantities, TypeOK
  <2>3. pc'[p] = "locking" /\ ScanFits(p)'
    BY <2>1, <2>2, <1>t, ScanStarts
  <2> QED
    BY <2>1, <2>3, <1>t DEF Fits, JobFits, CurFits, OrderChecked, OrderOpen
<1>11. CASE RestockReload(p)
  <2>1. pc[p] = "reload" /\ pc'[p] = "update" /\ cur'[p] = cur[p] /\ job'[p] = job[p]
    BY <1>11, <1>t DEF RestockReload, GoTo, TypeOK
  <2> QED
    BY <2>1, <1>t DEF Fits, JobFits, CurFits, OrderChecked, ScanFits, OrderOpen
<1>12. Serve(p) => \/ ScanCandidates(p) \/ NextCandidate(p) \/ LockCandidate(p)
                   \/ SkipCandidate(p) \/ ReclaimCommit(p) \/ StartOrder(p)
                   \/ LockOption(p) \/ LockOrder(p) \/ PgConfirmOk(p)
                   \/ PgCancelOk(p) \/ RestockReload(p) \/ Answer(p)
  BY DEF Serve, Reclaim, Checkout, OrderRow, Gateway, RestockSteps, SweepDone,
         CreateCommit, StockInsufficient, RollBack, Reject, SaveConfirm, SaveStatus,
         CancelCommit, SaveDelivery, PgFailed, RestockSame, RestockUpdate
<1> QED
  BY <1>a, <1>1, <1>2, <1>3, <1>4, <1>5, <1>6, <1>7, <1>8, <1>9, <1>10, <1>11, <1>12

LEMMA FitsNext ==
    ASSUME CoreInv, [Next]_vars, NEW r \in Proc
    PROVE  Fits(r)'
<1>t. TypeOK /\ Fits(r)
  BY DEF CoreInv, Fits
<1>1. ASSUME NEW p \in Proc, Acts(p)
      PROVE  Fits(r)'
  <2>1. CASE r # p
    BY <1>1, <2>1, OthersFit
  <2>2. CASE Arrival(r)
    BY <2>2, ArrivalFits
  <2>3. CASE Serve(r)
    BY <2>3, ServeFits
  <2>4. CASE Abort(r) \/ DeadlockVictim(r)
    BY <2>4, <1>t, AnsweredFits DEF Abort, DeadlockVictim, RollBack
  <2> QED
    BY <1>1, <2>1, <2>2, <2>3, <2>4 DEF Acts
<1>2. ASSUME UNCHANGED <<status, items, locks, requests>>
      PROVE  Fits(r)'
  BY <1>2, <1>t DEF locks, requests, Fits, JobFits, CurFits, OrderChecked, ScanFits,
                    OrderOpen, Quantities
<1>3. ASSUME NEW o \in OrderId, PgLate(o) \/ TtlPasses(o)
      PROVE  Fits(r)'
  BY <1>2, <1>3 DEF PgLate, TtlPasses, rows
<1>4. CASE UNCHANGED vars
  BY <1>2, <1>4 DEF vars, rows
<1>5. ASSUME NEW p \in Proc, PgSilent(p)
      PROVE  Fits(r)'
  BY <1>2, <1>5 DEF PgSilent, rows
<1> QED
  BY <1>1, <1>3, <1>4, <1>5 DEF Next, Acts

-----------------------------------------------------------------------------
(* What is read under a lock stays true, and stock never runs negative.     *)

LEMMA SnapshotsFreshNext ==
    ASSUME CoreInv, [Next]_vars
    PROVE  SnapshotsFresh'
<1> USE ConstantsAssumption, OptionIds
<1>t. TypeOK /\ SnapshotsFresh
  BY DEF CoreInv
<1>1. ASSUME NEW p \in Proc, Acts(p), NEW i \in Option, NEW r \in Proc, r # p,
             optionLock'[i] = r
      PROVE  pc'[r] = "locking" /\ snap'[r][i] = stock'[i]
  <2>1. optionLock[i] = r
    BY <1>1, OthersKeepLocks
  <2>2. pc'[r] = pc[r] /\ snap'[r] = snap[r]
    BY <1>1, OthersKeepLocals
  <2>3. stock'[i] = stock[i]
    BY <1>1, <2>1, OthersKeepRows
  <2> QED
    BY <2>1, <2>2, <2>3, <1>t DEF SnapshotsFresh
<1>2. ASSUME NEW p \in Proc, Acts(p), NEW i \in Option, optionLock'[i] = p
      PROVE  pc'[p] = "locking" /\ snap'[p][i] = stock'[i]
  <2>1. ~DropLocks(p)
    BY <1>2 DEF DropLocks
  <2>2. ~(pc[p] # "locking" /\ UNCHANGED optionLock)
    BY <1>2, <1>t DEF SnapshotsFresh
  <2>3. ~Arrival(p)
    BY <2>2 DEF Arrival, Begin, Idle, CreateOrder, GetStockOverview, Confirm,
                UpdateOrderStatus, AddDeliveryEvent, RestockOption, locks
  <2>4. ~(Abort(p) \/ DeadlockVictim(p))
    BY <2>1 DEF Abort, DeadlockVictim, RollBack
  <2>5. ~Reclaim(p)
    BY <2>1, <2>2 DEF Reclaim, ScanCandidates, NextCandidate, LockCandidate,
              SkipCandidate, ReclaimCommit, SweepDone, locks
  <2>6. ~OrderRow(p)
    BY <2>1, <2>2 DEF OrderRow, LockOrder, Reject, SaveConfirm, SaveStatus,
              CancelCommit, SaveDelivery, locks
  <2>7. ~Gateway(p)
    BY <2>1, <2>2 DEF Gateway, PgConfirmOk, PgCancelOk, PgFailed, RollBack, locks
  <2>8. ~RestockSteps(p)
    BY <2>2 DEF RestockSteps, RestockSame, RestockReload, RestockUpdate, locks
  <2>9. LockOption(p)
    BY <1>2, <2>1, <2>2, <2>3, <2>4, <2>5, <2>6, <2>7, <2>8
    DEF Acts, Serve, Checkout, StartOrder, CreateCommit, StockInsufficient, RollBack, locks
  <2>10. /\ pc[p] = "locking" /\ pc' = pc /\ stock' = stock
         /\ at[p] \in Option
         /\ optionLock' = [optionLock EXCEPT ![at[p]] = p]
         /\ snap' = [snap EXCEPT ![p][at[p]] = stock[at[p]]]
    BY <2>9, <1>t DEF LockOption, rows, TypeOK
  <2>11. CASE i = at[p]
    BY <2>10, <2>11, <1>t DEF TypeOK
  <2>12. CASE i # at[p]
    <3>1. optionLock[i] = p /\ snap'[p][i] = snap[p][i]
      BY <1>2, <2>10, <2>12, <1>t DEF TypeOK
    <3> QED
      BY <3>1, <2>10, <1>t DEF SnapshotsFresh
  <2> QED
    BY <2>11, <2>12
<1>3. ASSUME UNCHANGED <<stock, locks, requests>>
      PROVE  SnapshotsFresh'
  BY <1>3, <1>t DEF locks, requests, SnapshotsFresh
<1>4. ASSUME NEW o \in OrderId, PgLate(o) \/ TtlPasses(o)
      PROVE  SnapshotsFresh'
  BY <1>3, <1>4 DEF PgLate, TtlPasses, rows
<1>5. CASE UNCHANGED vars
  BY <1>3, <1>5 DEF vars, rows
<1>6. ASSUME NEW p \in Proc, Acts(p)
      PROVE  SnapshotsFresh'
  BY <1>1, <1>2, <1>6 DEF SnapshotsFresh
<1>7. ASSUME NEW p \in Proc, PgSilent(p)
      PROVE  SnapshotsFresh'
  BY <1>3, <1>7 DEF PgSilent, rows
<1> QED
  BY <1>4, <1>5, <1>6, <1>7 DEF Next, Acts

\* The steps that write product_options.stock.
LEMMA StockWriters ==
    ASSUME [Next]_vars
    PROVE  \/ UNCHANGED stock
           \/ \E p \in Proc : \/ ReclaimCommit(p) \/ CancelCommit(p)
                              \/ CreateCommit(p) \/ RestockUpdate(p)
<1>1. ASSUME NEW p \in Proc, Arrival(p) \/ Abort(p) \/ DeadlockVictim(p)
      PROVE  UNCHANGED stock
  BY <1>1 DEF Arrival, Begin, CreateOrder, GetStockOverview, Confirm, UpdateOrderStatus,
         AddDeliveryEvent, RestockOption, Abort, DeadlockVictim, RollBack, rows
<1>2. ASSUME NEW p \in Proc, Reclaim(p) \/ Checkout(p)
      PROVE  UNCHANGED stock \/ ReclaimCommit(p) \/ CreateCommit(p)
  BY <1>2 DEF Reclaim, ScanCandidates, NextCandidate, LockCandidate, SkipCandidate,
         SweepDone, Checkout, StartOrder, LockOption, StockInsufficient, RollBack, rows
<1>3. ASSUME NEW p \in Proc, OrderRow(p) \/ Gateway(p) \/ PgSilent(p)
      PROVE  UNCHANGED stock \/ CancelCommit(p)
  BY <1>3 DEF OrderRow, LockOrder, Reject, SaveConfirm, SaveStatus, SaveDelivery,
         Gateway, PgConfirmOk, PgCancelOk, PgFailed, PgSilent, RollBack, rows
<1>4. ASSUME NEW p \in Proc, RestockSteps(p)
      PROVE  UNCHANGED stock \/ RestockUpdate(p)
  BY <1>4 DEF RestockSteps, RestockSame, RestockReload, rows
<1>5. ASSUME NEW o \in OrderId, PgLate(o) \/ TtlPasses(o)
      PROVE  UNCHANGED stock
  BY <1>5 DEF PgLate, TtlPasses, rows
<1>6. UNCHANGED vars => UNCHANGED stock
  BY DEF vars, rows
<1> QED
  BY <1>1, <1>2, <1>3, <1>4, <1>5, <1>6 DEF Next, Serve

LEMMA NoOversellNext ==
    ASSUME CoreInv, [Next]_vars
    PROVE  NoOversell'
<1> USE ConstantsAssumption, OptionIds
<1>t. TypeOK /\ NoOversell /\ SnapshotsFresh
  BY DEF CoreInv
<1>1. ASSUME NEW p \in Proc, NEW q \in [OptionId -> Nat], PutBack(p, q)
      PROVE  NoOversell'
  <2>1. ASSUME NEW i \in Option PROVE stock'[i] >= 0
    <3>1. stock[i] \in Int /\ stock[i] >= 0 /\ q[i] \in Nat
      BY <1>t DEF TypeOK, NoOversell
    <3>2. optionLock[i] = p => snap[p][i] = stock[i]
      BY <1>t DEF SnapshotsFresh
    <3> QED
      BY <1>1, <3>1, <3>2 DEF PutBack
  <2> QED
    BY <2>1 DEF NoOversell
<1>2. ASSUME NEW p \in Proc, ReclaimCommit(p) \/ CancelCommit(p)
      PROVE  NoOversell'
  <2>1. cur[p] \in OrderId
    BY <1>2 DEF CoreInv, ReclaimCommit, CancelCommit, JobFits, CurFits, OrderOpen
  <2>2. items[cur[p]] \in [OptionId -> Nat]
    BY <2>1, <1>t DEF TypeOK
  <2> QED
    BY <1>1, <1>2, <2>2 DEF ReclaimCommit, CancelCommit
<1>3. ASSUME NEW p \in Proc, CreateCommit(p)
      PROVE  NoOversell'
  <2>1. job[p].basket \in [OptionId -> Nat]
    BY <1>3, <1>t, JobFields DEF CreateCommit, OrderTx, TypeOK
  <2>2. ASSUME NEW i \in Option PROVE stock'[i] >= 0
    <3>1. stock[i] \in Int /\ stock[i] >= 0 /\ job[p].basket[i] \in Nat
      BY <2>1, <1>t DEF TypeOK, NoOversell
    <3>2. optionLock[i] = p => snap[p][i] = stock[i]
      BY <1>t DEF SnapshotsFresh
    <3>3. job[p].basket[i] > 0 => snap[p][i] >= job[p].basket[i]
      BY <1>3 DEF CreateCommit, HasStock
    <3>4. stock'[i] = IF optionLock[i] = p THEN snap[p][i] - job[p].basket[i] ELSE stock[i]
      BY <1>3 DEF CreateCommit, TakeOut
    <3> QED
      BY <3>1, <3>2, <3>3, <3>4
  <2> QED
    BY <2>2 DEF NoOversell
<1>4. ASSUME NEW p \in Proc, RestockUpdate(p)
      PROVE  NoOversell'
  <2>1. job[p].option \in Option /\ job[p].units \in Nat
    BY <1>4, <1>t, JobFields DEF RestockUpdate, CoreInv, JobFits, TypeOK
  <2>2. stock' = [stock EXCEPT ![job[p].option] = job[p].units]
    BY <1>4 DEF RestockUpdate
  <2> QED
    BY <2>1, <2>2, <1>t DEF NoOversell, TypeOK
<1>5. CASE UNCHANGED stock
  BY <1>5, <1>t DEF NoOversell
<1> QED
  BY <1>2, <1>3, <1>4, <1>5, StockWriters

-----------------------------------------------------------------------------
(* The invariant.                                                           *)

LEMMA CoreInvNext ==
    ASSUME CoreInv, [Next]_vars
    PROVE  CoreInv'
<1>1. TypeOK' /\ NoOversell' /\ SnapshotsFresh'
  BY TypeNext, NoOversellNext, SnapshotsFreshNext
<1>2. \A r \in Proc : Fits(r)'
  BY FitsNext
<1> QED
  BY <1>1, <1>2 DEF CoreInv, Fits

\* The strengthening holds throughout: whatever a handler checked under a row
\* lock is still so when it commits, for any number of requests and orders.
THEOREM CoreInvariance == Spec => []CoreInv
<1>1. Init => CoreInv
  BY InitCoreInv
<1>2. CoreInv /\ [Next]_vars => CoreInv'
  BY CoreInvNext
<1> QED
  BY <1>1, <1>2, PTL DEF Spec

\* Every row, lock and request keeps its type.
THEOREM TypeCorrect == Spec => []TypeOK
<1>1. CoreInv => TypeOK
  BY DEF CoreInv
<1> QED
  BY <1>1, CoreInvariance, PTL

\* Stock is never oversold, however checkouts, returns and restocks overlap.
THEOREM StockNeverNegative == Spec => []NoOversell
<1>1. CoreInv => NoOversell
  BY DEF CoreInv
<1> QED
  BY <1>1, CoreInvariance, PTL

-----------------------------------------------------------------------------
(* Stock returns and the ledger, when administrators do not ask for EXPIRED *)
(* (the admin page offers no such button; the API would accept it).         *)

\* The steps that write the rows of orders.
LEMMA OrderWriters ==
    ASSUME [Next]_vars
    PROVE  \/ UNCHANGED <<status, items, returned>>
           \/ \E p \in Proc : \/ ReclaimCommit(p) \/ CancelCommit(p) \/ CreateCommit(p)
                              \/ SaveConfirm(p) \/ SaveStatus(p) \/ SaveDelivery(p)
<1> DEFINE Kept == UNCHANGED <<status, items, returned>>
<1>1. ASSUME NEW p \in Proc, Arrival(p) \/ Abort(p) \/ DeadlockVictim(p)
      PROVE  Kept
  BY <1>1 DEF Arrival, Begin, CreateOrder, GetStockOverview, Confirm, UpdateOrderStatus,
         AddDeliveryEvent, RestockOption, Abort, DeadlockVictim, RollBack, rows, history
<1>2. ASSUME NEW p \in Proc, Reclaim(p)
      PROVE  Kept \/ ReclaimCommit(p)
  BY <1>2 DEF Reclaim, ScanCandidates, NextCandidate, LockCandidate, SkipCandidate,
         SweepDone, rows, history
<1>3. ASSUME NEW p \in Proc, Checkout(p)
      PROVE  Kept \/ CreateCommit(p)
  BY <1>3 DEF Checkout, StartOrder, LockOption, StockInsufficient, RollBack, rows, history
<1>4. ASSUME NEW p \in Proc, OrderRow(p)
      PROVE  Kept \/ CancelCommit(p) \/ SaveConfirm(p) \/ SaveStatus(p) \/ SaveDelivery(p)
  BY <1>4 DEF OrderRow, LockOrder, Reject, rows, history
<1>5. ASSUME NEW p \in Proc, Gateway(p) \/ RestockSteps(p)
      PROVE  Kept
  BY <1>5 DEF Gateway, PgConfirmOk, PgCancelOk, PgFailed, RollBack, RestockSteps,
         RestockSame, RestockReload, RestockUpdate, rows, history
<1>6. ASSUME NEW o \in OrderId, PgLate(o) \/ TtlPasses(o)
      PROVE  Kept
  BY <1>6 DEF PgLate, TtlPasses, rows, history
<1>7. UNCHANGED vars => Kept
  BY DEF vars, rows, history
<1>8. ASSUME NEW p \in Proc, PgSilent(p)
      PROVE  Kept
  BY <1>8 DEF PgSilent, rows, history
<1> QED
  BY <1>1, <1>2, <1>3, <1>4, <1>5, <1>6, <1>7, <1>8 DEF Next, Serve

\* What the row lock guarantees at the commit of each handler.
LEMMA CommitOnChecked ==
    ASSUME CoreInv, NEW p \in Proc
    PROVE  /\ ReclaimCommit(p) => cur[p] \in OrderId /\ status[cur[p]] = "PENDING"
           /\ CancelCommit(p) => cur[p] \in OrderId /\ status[cur[p]] \in {"PENDING", "PAID"}
           /\ SaveConfirm(p) => cur[p] \in OrderId /\ status[cur[p]] = "PENDING"
           /\ SaveStatus(p) => /\ cur[p] \in OrderId
                               /\ job[p].target # "CANCELLED"
                               /\ job[p].target \in AdminTargets
                               /\ job[p].target \in VALID_TRANSITIONS[status[cur[p]]]
                               /\ status[cur[p]] \in OrderStatus
           /\ SaveDelivery(p) => cur[p] \in OrderId /\ status[cur[p]] = "SHIPPED"
<1>t. TypeOK /\ JobFits(p) /\ CurFits(p) /\ OrderChecked(p)
  BY DEF CoreInv
<1>1. /\ job[p].kind = "status" => job[p].target \in AdminTargets
  BY <1>t, JobFields DEF TypeOK
<1>2. OrderOpen(p) => cur[p] \in OrderId /\ status[cur[p]] \in OrderStatus
  BY <1>t DEF CurFits, OrderChecked, TypeOK
<1>3. ReclaimCommit(p) => cur[p] \in OrderId /\ status[cur[p]] = "PENDING"
  BY <1>t, <1>2 DEF ReclaimCommit, OrderOpen, OrderChecked
<1>4. CancelCommit(p) => cur[p] \in OrderId /\ status[cur[p]] \in {"PENDING", "PAID"}
  <2>1. SUFFICES ASSUME CancelCommit(p)
                 PROVE  cur[p] \in OrderId /\ status[cur[p]] \in {"PENDING", "PAID"}
    OBVIOUS
  <2>2. OrderOpen(p) /\ job[p].kind = "status" /\ job[p].target = "CANCELLED"
    BY <2>1, <1>t DEF CancelCommit, JobFits, CurFits, OrderOpen
  <2>3. "CANCELLED" \in VALID_TRANSITIONS[status[cur[p]]]
    BY <2>2, <1>t DEF OrderChecked
  <2> QED
    BY <2>2, <2>3, <1>2 DEF VALID_TRANSITIONS, OrderStatus
<1>5. SaveConfirm(p) => cur[p] \in OrderId /\ status[cur[p]] = "PENDING"
  BY <1>t, <1>2 DEF SaveConfirm, OrderOpen, OrderChecked
<1>6. SaveStatus(p) => /\ cur[p] \in OrderId
                       /\ job[p].target # "CANCELLED"
                       /\ job[p].target \in AdminTargets
                       /\ job[p].target \in VALID_TRANSITIONS[status[cur[p]]]
                       /\ status[cur[p]] \in OrderStatus
  BY <1>t, <1>1, <1>2 DEF SaveStatus, OrderOpen, OrderChecked, JobFits
<1>7. SaveDelivery(p) => cur[p] \in OrderId /\ status[cur[p]] = "SHIPPED"
  BY <1>t, <1>2 DEF SaveDelivery, OrderOpen, OrderChecked
<1> QED
  BY <1>3, <1>4, <1>5, <1>6, <1>7

\* The transitions SaveStatus may make when nobody asks for EXPIRED.
LEMMA AdminAdvances ==
    ASSUME NEW s \in OrderStatus, NEW t \in VALID_TRANSITIONS[s],
           t # "CANCELLED", t # "EXPIRED"
    PROVE  <<s, t>> \in {<<"PENDING", "PAID">>, <<"PAID", "SHIPPED">>}
  BY DEF VALID_TRANSITIONS, OrderStatus

LEMMA ReturnedOnceNext ==
    ASSUME "EXPIRED" \notin AdminTargets, CoreInv, ReturnedOnce, [Next]_vars
    PROVE  ReturnedOnce'
<1>t. TypeOK
  BY DEF CoreInv
<1>1. CASE UNCHANGED <<status, items, returned>>
  BY <1>1 DEF ReturnedOnce
<1>2. ASSUME NEW p \in Proc, ReclaimCommit(p) \/ CancelCommit(p)
      PROVE  ReturnedOnce'
  <2>1. cur[p] \in OrderId /\ status[cur[p]] \in {"PENDING", "PAID"}
    BY <1>2, CommitOnChecked
  <2>2. returned[cur[p]] = 0
    BY <2>1 DEF ReturnedOnce
  <2>3. \E s \in {"CANCELLED", "EXPIRED"} : status' = [status EXCEPT ![cur[p]] = s]
    BY <1>2 DEF ReclaimCommit, CancelCommit
  <2>4. returned' = [returned EXCEPT ![cur[p]] = @ + 1]
    BY <1>2 DEF ReclaimCommit, CancelCommit, HasRestored
  <2> QED
    BY <2>1, <2>2, <2>3, <2>4, <1>t DEF ReturnedOnce, TypeOK
<1>3. ASSUME NEW p \in Proc, CreateCommit(p)
      PROVE  ReturnedOnce'
  <2>1. PICK o \in OrderId : status[o] = "none" /\ status' = [status EXCEPT ![o] = "PENDING"]
    BY <1>3 DEF CreateCommit
  <2>2. returned' = returned
    BY <1>3 DEF CreateCommit, history
  <2> QED
    BY <2>1, <2>2, <1>t DEF ReturnedOnce, TypeOK
<1>4. ASSUME NEW p \in Proc, SaveConfirm(p) \/ SaveStatus(p) \/ SaveDelivery(p)
      PROVE  ReturnedOnce'
  <2>1. PICK s \in {"PAID", "SHIPPED", "DELIVERED"} :
            status' = [status EXCEPT ![cur[p]] = s]
    <3>1. CASE SaveConfirm(p)
      BY <3>1 DEF SaveConfirm
    <3>2. CASE SaveStatus(p)
      <4>1. status' = [status EXCEPT ![cur[p]] = job[p].target]
        BY <3>2 DEF SaveStatus
      <4>2. job[p].target \in {"PAID", "SHIPPED"}
        BY <3>2, CommitOnChecked, AdminAdvances
      <4> QED
        BY <4>1, <4>2
    <3>3. CASE SaveDelivery(p)
      BY <3>3, CommitOnChecked, <1>t DEF SaveDelivery, TypeOK
    <3> QED
      BY <1>4, <3>1, <3>2, <3>3
  <2>2. cur[p] \in OrderId /\ status[cur[p]] \in {"PENDING", "PAID", "SHIPPED"}
    BY <1>4, CommitOnChecked, AdminAdvances
  <2>3. returned' = returned
    BY <1>4 DEF SaveConfirm, SaveStatus, SaveDelivery, history
  <2> QED
    BY <2>1, <2>2, <2>3, <1>t DEF ReturnedOnce, TypeOK
<1> QED
  BY <1>1, <1>2, <1>3, <1>4, OrderWriters

\* The units of a cancelled or expired order come back once and only once.
THEOREM ReturnsHappenOnce ==
    ASSUME "EXPIRED" \notin AdminTargets
    PROVE  Spec => []ReturnedOnce
<1>1. Init => ReturnedOnce
  BY DEF Init, ReturnedOnce
<1>2. CoreInv /\ ReturnedOnce /\ [Next]_vars => ReturnedOnce'
  BY ReturnedOnceNext
<1> QED
  BY <1>1, <1>2, CoreInvariance, PTL DEF Spec

-----------------------------------------------------------------------------
(* The order core implements the stock ledger.                              *)

\* At the end of a lock scan the new stock of every option is the row's value
\* plus or minus the quantity, because every option with a quantity is locked
\* and every locked one still holds what was read.
LEMMA ScannedStock ==
    ASSUME CoreInv, NEW p \in Proc, pc[p] = "locking", at[p] = NoOption,
           Quantities(p) \in [OptionId -> Nat]
    PROVE  /\ PutBack(p, Quantities(p)) =>
                 stock' = [i \in Option |-> stock[i] + Quantities(p)[i]]
           /\ TakeOut(p, Quantities(p)) =>
                 stock' = [i \in Option |-> stock[i] - Quantities(p)[i]]
<1> DEFINE q == Quantities(p)
<1>t. TypeOK /\ SnapshotsFresh /\ ScanFits(p)
  BY DEF CoreInv
<1>1. ASSUME NEW i \in Option
      PROVE  /\ stock[i] \in Int /\ q[i] \in Nat
             /\ optionLock[i] = p => snap[p][i] = stock[i]
             /\ optionLock[i] # p => q[i] = 0
  <2>1. stock[i] \in Int /\ q[i] \in Nat
    BY <1>t, OptionIds DEF TypeOK
  <2>2. optionLock[i] = p => snap[p][i] = stock[i]
    BY <1>t DEF SnapshotsFresh
  <2>3. q[i] > 0 => optionLock[i] = p
    BY <1>t DEF ScanFits
  <2> QED
    BY <2>1, <2>2, <2>3
<1> HIDE DEF q
<1>2. ASSUME PutBack(p, q)
      PROVE  stock' = [i \in Option |-> stock[i] + q[i]]
  <2>1. stock' = [i \in Option |-> IF optionLock[i] = p THEN snap[p][i] + q[i] ELSE stock[i]]
    BY <1>2 DEF PutBack
  <2>2. ASSUME NEW i \in Option
        PROVE  (IF optionLock[i] = p THEN snap[p][i] + q[i] ELSE stock[i]) = stock[i] + q[i]
    BY <1>1
  <2> QED
    BY <2>1, <2>2
<1>3. ASSUME TakeOut(p, q)
      PROVE  stock' = [i \in Option |-> stock[i] - q[i]]
  <2>1. stock' = [i \in Option |-> IF optionLock[i] = p THEN snap[p][i] - q[i] ELSE stock[i]]
    BY <1>3 DEF TakeOut
  <2>2. ASSUME NEW i \in Option
        PROVE  (IF optionLock[i] = p THEN snap[p][i] - q[i] ELSE stock[i]) = stock[i] - q[i]
    BY <1>1
  <2> QED
    BY <2>1, <2>2
<1> QED
  BY <1>2, <1>3 DEF q

LEMMA ReturnsRelease ==
    ASSUME CoreInv, NEW p \in Proc, ReclaimCommit(p) \/ CancelCommit(p)
    PROVE  Ledger!Next
<1>1. cur[p] \in OrderId /\ cur[p] # None /\ items[cur[p]] \in [OptionId -> Nat]
  BY CommitOnChecked, ConstantsAssumption DEF CoreInv, TypeOK
<1>2. Quantities(p) = items[cur[p]]
  BY <1>1 DEF Quantities
<1>3. stock' = [i \in Option |-> stock[i] + items[cur[p]][i]]
  BY <1>1, <1>2, ScannedStock DEF ReclaimCommit, CancelCommit
<1>4. UNCHANGED <<items, supply>>
  BY DEF ReclaimCommit, CancelCommit
<1>5. CASE ReclaimCommit(p)
  <2>1. Ledger!Release(cur[p], "EXPIRED")
    BY <1>3, <1>4, <1>5, CommitOnChecked DEF Ledger!Release, ReclaimCommit
  <2> QED
    BY <2>1, <1>1 DEF Ledger!Next
<1>6. CASE CancelCommit(p)
  <2>1. Ledger!Release(cur[p], "CANCELLED")
    BY <1>3, <1>4, <1>6, CommitOnChecked DEF Ledger!Release, CancelCommit
  <2> QED
    BY <2>1, <1>1 DEF Ledger!Next
<1> QED
  BY <1>5, <1>6

LEMMA CreateReserves ==
    ASSUME CoreInv, NEW p \in Proc, CreateCommit(p)
    PROVE  Ledger!Next
<1>t. TypeOK /\ SnapshotsFresh /\ ScanFits(p)
  BY DEF CoreInv
<1>1. /\ pc[p] = "locking" /\ at[p] = NoOption /\ cur[p] = None
      /\ job[p].kind = "create"
  BY DEF CreateCommit, OrderTx
<1>2. job[p].basket \in Baskets /\ job[p].basket \in [OptionId -> Nat]
  BY <1>1, <1>t, JobFields, ConstantsAssumption DEF TypeOK
<1>3. Quantities(p) = job[p].basket
  BY <1>1 DEF Quantities
<1>4. stock' = [i \in Option |-> stock[i] - job[p].basket[i]]
  BY <1>1, <1>2, <1>3, ScannedStock DEF CreateCommit
<1>5. ASSUME NEW i \in OptionId, job[p].basket[i] > 0
      PROVE  i \in Option /\ stock[i] >= job[p].basket[i]
  <2>1. i \in Option /\ snap[p][i] >= job[p].basket[i]
    BY <1>5 DEF CreateCommit, HasStock
  <2>2. optionLock[i] = p
    BY <2>1, <1>1, <1>3, <1>5, <1>t DEF ScanFits
  <2> QED
    BY <2>1, <2>2, <1>t DEF SnapshotsFresh
<1>6. PICK o \in OrderId : /\ status[o] = "none"
                           /\ status' = [status EXCEPT ![o] = "PENDING"]
                           /\ items' = [items EXCEPT ![o] = job[p].basket]
  BY DEF CreateCommit
<1>7. Ledger!Reserve(o, job[p].basket)
  BY <1>4, <1>5, <1>6 DEF Ledger!Reserve, CreateCommit, history
<1> QED
  BY <1>2, <1>7 DEF Ledger!Next

LEMMA SavesAdvance ==
    ASSUME "EXPIRED" \notin AdminTargets, CoreInv, NEW p \in Proc,
           SaveConfirm(p) \/ SaveStatus(p) \/ SaveDelivery(p)
    PROVE  Ledger!Next \/ UNCHANGED Ledger!ledgerVars
<1>t. TypeOK
  BY DEF CoreInv
<1>1. UNCHANGED <<stock, items, supply>> /\ cur[p] \in OrderId
  BY CommitOnChecked DEF SaveConfirm, SaveStatus, SaveDelivery, history
<1>2. CASE SaveConfirm(p)
  <2>1. Ledger!Advance(cur[p], "PAID")
    BY <1>1, <1>2, CommitOnChecked DEF SaveConfirm, Ledger!Advance
  <2> QED
    BY <2>1, <1>1 DEF Ledger!Next
<1>3. CASE SaveStatus(p)
  <2>1. /\ <<status[cur[p]], job[p].target>> \in {<<"PENDING", "PAID">>, <<"PAID", "SHIPPED">>}
    BY <1>3, CommitOnChecked, AdminAdvances
  <2>2. Ledger!Advance(cur[p], job[p].target)
    BY <1>1, <1>3, <2>1 DEF SaveStatus, Ledger!Advance
  <2> QED
    BY <2>1, <2>2, <1>1 DEF Ledger!Next
<1>4. CASE SaveDelivery(p)
  <2>1. status[cur[p]] = "SHIPPED"
    BY <1>4, CommitOnChecked
  <2>2. CASE status' = [status EXCEPT ![cur[p]] = "DELIVERED"]
    <3>1. Ledger!Advance(cur[p], "DELIVERED")
      BY <1>1, <2>1, <2>2 DEF Ledger!Advance
    <3> QED
      BY <3>1, <1>1 DEF Ledger!Next
  <2>3. CASE status' = status
    BY <1>1, <2>3 DEF Ledger!ledgerVars
  <2> QED
    BY <1>4, <2>2, <2>3, <1>t DEF SaveDelivery, TypeOK
<1> QED
  BY <1>2, <1>3, <1>4

LEMMA RestockRestocks ==
    ASSUME CoreInv, NEW p \in Proc, RestockUpdate(p)
    PROVE  Ledger!Next
<1>1. job[p].option \in Option /\ job[p].units \in 0 .. MaxStock
  BY JobFields DEF CoreInv, TypeOK, RestockUpdate, JobFits
<1>2. Ledger!Restock(job[p].option, job[p].units)
  BY DEF RestockUpdate, Ledger!Restock
<1> QED
  BY <1>1, <1>2 DEF Ledger!Next

\* The steps that write the number of units in circulation.
LEMMA SupplyWriters ==
    ASSUME [Next]_vars
    PROVE  UNCHANGED supply \/ \E p \in Proc : RestockUpdate(p)
<1>1. ASSUME NEW p \in Proc, Arrival(p) \/ Abort(p) \/ DeadlockVictim(p)
      PROVE  UNCHANGED supply
  BY <1>1 DEF Arrival, Begin, CreateOrder, GetStockOverview, Confirm, UpdateOrderStatus,
         AddDeliveryEvent, RestockOption, Abort, DeadlockVictim, RollBack, history
<1>2. ASSUME NEW p \in Proc, Reclaim(p) \/ Checkout(p)
      PROVE  UNCHANGED supply
  BY <1>2 DEF Reclaim, ScanCandidates, NextCandidate, LockCandidate, SkipCandidate,
         ReclaimCommit, SweepDone, Checkout, StartOrder, LockOption, CreateCommit,
         StockInsufficient, RollBack, history
<1>3. ASSUME NEW p \in Proc, OrderRow(p) \/ Gateway(p)
      PROVE  UNCHANGED supply
  BY <1>3 DEF OrderRow, LockOrder, Reject, SaveConfirm, SaveStatus, CancelCommit,
         SaveDelivery, Gateway, PgConfirmOk, PgCancelOk, PgFailed, RollBack, history
<1>4. ASSUME NEW p \in Proc, RestockSteps(p)
      PROVE  UNCHANGED supply \/ RestockUpdate(p)
  BY <1>4 DEF RestockSteps, RestockSame, RestockReload, history
<1>5. ASSUME NEW o \in OrderId, PgLate(o) \/ TtlPasses(o)
      PROVE  UNCHANGED supply
  BY <1>5 DEF PgLate, TtlPasses, history
<1>6. UNCHANGED vars => UNCHANGED supply
  BY DEF vars, history
<1>7. ASSUME NEW p \in Proc, PgSilent(p)
      PROVE  UNCHANGED supply
  BY <1>7 DEF PgSilent, history
<1> QED
  BY <1>1, <1>2, <1>3, <1>4, <1>5, <1>6, <1>7 DEF Next, Serve

LEMMA LedgerStep ==
    ASSUME "EXPIRED" \notin AdminTargets, CoreInv, [Next]_vars
    PROVE  [Ledger!Next]_(Ledger!ledgerVars)
<1>1. \/ UNCHANGED <<stock, status, items, supply>>
      \/ \E p \in Proc : \/ ReclaimCommit(p) \/ CancelCommit(p) \/ CreateCommit(p)
                         \/ SaveConfirm(p) \/ SaveStatus(p) \/ SaveDelivery(p)
                         \/ RestockUpdate(p)
  <2>1. \/ UNCHANGED supply
        \/ \E p \in Proc : RestockUpdate(p)
    BY SupplyWriters
  <2> QED
    BY <2>1, StockWriters, OrderWriters
<1>2. UNCHANGED <<stock, status, items, supply>> => UNCHANGED Ledger!ledgerVars
  BY DEF Ledger!ledgerVars
<1> QED
  BY <1>1, <1>2, ReturnsRelease, CreateReserves, SavesAdvance, RestockRestocks

\* Seen through the four variables of the ledger, the handlers with their locks,
\* retries, rollbacks and deadlock victims take, give back and advance orders in
\* indivisible steps.
THEOREM ImplementsLedger ==
    ASSUME "EXPIRED" \notin AdminTargets
    PROVE  Spec => LedgerSpec
<1>1. Init => Ledger!Init
  BY DEF Init, Ledger!Init, NoItems, Ledger!NoItems
<1>2. CoreInv /\ [Next]_vars => [Ledger!Next]_(Ledger!ledgerVars)
  BY LedgerStep
<1> QED
  BY <1>1, <1>2, CoreInvariance, PTL DEF Spec, LedgerSpec, Ledger!Spec

-----------------------------------------------------------------------------
(* Sums over finite sets.                                                   *)

\* A set of finite sets has a member without smaller members.
LEMMA SmallestSet ==
    ASSUME NEW S, IsFiniteSet(S), NEW Bad, Bad \subseteq SUBSET S, Bad # {}
    PROVE  \E T \in Bad : \A U \in Bad : U \subseteq T => U = T
<1>1. IsWellFoundedOn(StrictSubsetOrdering(S), FiniteSubsetsOf(S))
  BY FS_StrictSubsetOrderingWellFounded
<1>2. Bad \subseteq FiniteSubsetsOf(S)
  BY FS_Subset DEF FiniteSubsetsOf
<1>3. PICK T \in Bad : \A U \in Bad : ~(<<U, T>> \in StrictSubsetOrdering(S))
  BY <1>1, <1>2, WFMin
<1> QED
  BY <1>3 DEF StrictSubsetOrdering

First(s) == CHOOSE x \in s : TRUE

\* f sums g over every subset of S, in the way the fold does it.
Adds(f, g, S) ==
    f = [s \in SUBSET S |-> IF s = {} THEN 0 ELSE g[First(s)] + f[s \ {First(s)}]]

LEMMA FirstIn == \A s : s # {} => First(s) \in s
  BY DEF First

LEMMA FinitePart ==
    ASSUME NEW S, IsFiniteSet(S)
    PROVE  \A T \in SUBSET S : IsFiniteSet(T)
  BY FS_Subset

LEMMA AddsUnique ==
    ASSUME NEW g, NEW S, NEW T, IsFiniteSet(S), T \subseteq S,
           NEW f, Adds(f, g, S), NEW h, Adds(h, g, T)
    PROVE  h[T] = f[T]
<1> DEFINE Bad == {s \in SUBSET T : h[s] # f[s]}
<1>1. SUFFICES ASSUME Bad # {} PROVE FALSE
  OBVIOUS
<1>2. Bad \subseteq SUBSET S
  OBVIOUS
<1> HIDE DEF Bad
<1>3. PICK s \in Bad : \A u \in Bad : u \subseteq s => u = s
  BY <1>1, <1>2, SmallestSet
<1> USE DEF Bad
<1>4. /\ f[s] = IF s = {} THEN 0 ELSE g[First(s)] + f[s \ {First(s)}]
      /\ h[s] = IF s = {} THEN 0 ELSE g[First(s)] + h[s \ {First(s)}]
  BY DEF Adds
<1>5. s # {}
  BY <1>4
<1>6. s \ {First(s)} # s /\ s \ {First(s)} \in SUBSET T
  BY <1>5, FirstIn
<1>7. h[s \ {First(s)}] = f[s \ {First(s)}]
  BY <1>3, <1>6
<1> QED
  BY <1>4, <1>5, <1>7

LEMMA AddsExists ==
    ASSUME NEW g, NEW S, IsFiniteSet(S)
    PROVE  \E f : Adds(f, g, S)
<1> DEFINE Bad == {T \in SUBSET S : ~\E f : Adds(f, g, T)}
<1>1. SUFFICES ASSUME Bad # {} PROVE FALSE
  OBVIOUS
<1>2. Bad \subseteq SUBSET S
  OBVIOUS
<1> HIDE DEF Bad
<1>3. PICK T \in Bad : \A U \in Bad : U \subseteq T => U = T
  BY <1>1, <1>2, SmallestSet
<1> USE DEF Bad
<1> DEFINE F(s) == CHOOSE f : Adds(f, g, s)
<1>4. ASSUME NEW s \in SUBSET T, s # T
      PROVE  Adds(F(s), g, s)
  <2>1. \E f : Adds(f, g, s)
    BY <1>3, <1>4
  <2> QED
    BY <2>1
<1> HIDE DEF F
<1> DEFINE Part(s) == F(s \ {First(s)})[s \ {First(s)}]
           f == [s \in SUBSET T |-> IF s = {} THEN 0 ELSE g[First(s)] + Part(s)]
<1>5. ASSUME NEW s \in SUBSET T, s # {}
      PROVE  f[s \ {First(s)}] = Part(s)
  <2> DEFINE r == s \ {First(s)}
  <2>1. r \in SUBSET T /\ r # T
    BY <1>5, FirstIn
  <2>2. Adds(F(r), g, r)
    BY <2>1, <1>4
  <2> HIDE DEF r
  <2>3. F(r)[r] = IF r = {} THEN 0 ELSE g[First(r)] + F(r)[r \ {First(r)}]
    BY <2>2 DEF Adds
  <2>4. f[r] = IF r = {} THEN 0 ELSE g[First(r)] + F(r \ {First(r)})[r \ {First(r)}]
    BY <2>1
  <2>5. CASE r # {}
    <3>1. r \ {First(r)} \in SUBSET T /\ r \ {First(r)} # T
      BY <2>1, <2>5, FirstIn
    <3>2. Adds(F(r \ {First(r)}), g, r \ {First(r)})
      BY <3>1, <1>4
    <3>3. IsFiniteSet(r)
      BY <2>1, FinitePart
    <3>4. F(r \ {First(r)})[r \ {First(r)}] = F(r)[r \ {First(r)}]
      BY <2>2, <3>2, <3>3, AddsUnique
    <3> QED
      BY <2>3, <2>4, <2>5, <3>4 DEF r
  <2> QED
    BY <2>3, <2>4, <2>5 DEF r
<1>6. f = [s \in SUBSET T |-> IF s = {} THEN 0 ELSE g[First(s)] + f[s \ {First(s)}]]
  <2> HIDE DEF Part
  <2>1. \A s \in SUBSET T : s # {} => Part(s) = f[s \ {First(s)}]
    BY <1>5
  <2> DEFINE h == f
  <2>2. f = [s \in SUBSET T |-> IF s = {} THEN 0 ELSE g[First(s)] + h[s \ {First(s)}]]
    BY <2>1
  <2> QED
    BY <2>2
<1>7. Adds(f, g, T)
  BY <1>6 DEF Adds
<1> QED
  BY <1>3, <1>7

LEMMA SumIs ==
    ASSUME NEW g, NEW S, IsFiniteSet(S), NEW f, Adds(f, g, S), NEW T \in SUBSET S
    PROVE  SumFunctionOnSet(g, T) = f[T]
<1>1. SumFunctionOnSet(g, T) = (CHOOSE h : Adds(h, g, T))[T]
  BY DEF SumFunctionOnSet, FoldFunctionOnSet, MapThenFoldSet, Adds, First
<1>2. IsFiniteSet(T)
  BY FS_Subset
<1>3. \E h : Adds(h, g, T)
  BY <1>2, AddsExists
<1>4. Adds(CHOOSE h : Adds(h, g, T), g, T)
  BY <1>3
<1> QED
  BY <1>1, <1>4, AddsUnique

\* The sum is what one expects of it: nothing for no element, ...
LEMMA SumEmpty == \A g : SumFunctionOnSet(g, {}) = 0
<1> SUFFICES ASSUME NEW g PROVE SumFunctionOnSet(g, {}) = 0
  OBVIOUS
<1>1. IsFiniteSet({})
  BY FS_EmptySet
<1>2. PICK f : Adds(f, g, {})
  BY <1>1, AddsExists
<1>3. SumFunctionOnSet(g, {}) = f[{}]
  BY <1>1, <1>2, SumIs
<1> QED
  BY <1>2, <1>3 DEF Adds

\* ... one element more than for the others ...
LEMMA SumFirst ==
    ASSUME NEW g, NEW S, IsFiniteSet(S), S # {}
    PROVE  SumFunctionOnSet(g, S) = g[First(S)] + SumFunctionOnSet(g, S \ {First(S)})
<1>1. PICK f : Adds(f, g, S)
  BY AddsExists
<1>2. SumFunctionOnSet(g, S) = f[S] /\ SumFunctionOnSet(g, S \ {First(S)}) = f[S \ {First(S)}]
  BY <1>1, SumIs
<1> QED
  BY <1>1, <1>2 DEF Adds

\* ... an integer ...
LEMMA SumInt ==
    ASSUME NEW g, NEW S, IsFiniteSet(S), \A x \in S : g[x] \in Int
    PROVE  SumFunctionOnSet(g, S) \in Int
<1> DEFINE Bad == {T \in SUBSET S : SumFunctionOnSet(g, T) \notin Int}
<1>1. SUFFICES ASSUME Bad # {} PROVE FALSE
  OBVIOUS
<1>2. Bad \subseteq SUBSET S
  OBVIOUS
<1> HIDE DEF Bad
<1>3. PICK T \in Bad : \A U \in Bad : U \subseteq T => U = T
  BY <1>1, <1>2, SmallestSet
<1> USE DEF Bad
<1>4. T # {}
  BY SumEmpty
<1>5. First(T) \in T /\ IsFiniteSet(T)
  BY <1>4, FirstIn, FinitePart
<1>6. SumFunctionOnSet(g, T) = g[First(T)] + SumFunctionOnSet(g, T \ {First(T)})
  BY <1>4, <1>5, SumFirst
<1>7. SumFunctionOnSet(g, T \ {First(T)}) \in Int
  BY <1>3, <1>5
<1> QED
  BY <1>5, <1>6, <1>7

\* ... that depends on the elements summed and on nothing else ...
LEMMA SumSame ==
    ASSUME NEW g, NEW h, NEW S, IsFiniteSet(S), \A x \in S : g[x] = h[x]
    PROVE  SumFunctionOnSet(g, S) = SumFunctionOnSet(h, S)
<1> DEFINE Bad == {T \in SUBSET S : SumFunctionOnSet(g, T) # SumFunctionOnSet(h, T)}
<1>1. SUFFICES ASSUME Bad # {} PROVE FALSE
  OBVIOUS
<1>2. Bad \subseteq SUBSET S
  OBVIOUS
<1> HIDE DEF Bad
<1>3. PICK T \in Bad : \A U \in Bad : U \subseteq T => U = T
  BY <1>1, <1>2, SmallestSet
<1> USE DEF Bad
<1>4. T # {}
  BY SumEmpty
<1>5. First(T) \in T /\ IsFiniteSet(T)
  BY <1>4, FirstIn, FinitePart
<1>6. /\ SumFunctionOnSet(g, T) = g[First(T)] + SumFunctionOnSet(g, T \ {First(T)})
      /\ SumFunctionOnSet(h, T) = h[First(T)] + SumFunctionOnSet(h, T \ {First(T)})
  BY <1>4, <1>5, SumFirst
<1>7. SumFunctionOnSet(g, T \ {First(T)}) = SumFunctionOnSet(h, T \ {First(T)})
  BY <1>3, <1>5
<1> QED
  BY <1>5, <1>6, <1>7

\* ... whichever element one begins with.
LEMMA SumRemove ==
    ASSUME NEW g, NEW S, IsFiniteSet(S), \A x \in S : g[x] \in Int, NEW y \in S
    PROVE  SumFunctionOnSet(g, S) = g[y] + SumFunctionOnSet(g, S \ {y})
<1> DEFINE Sum == [T \in SUBSET S |-> SumFunctionOnSet(g, T)]
           Bad == {T \in SUBSET S : \E x \in T : Sum[T] # g[x] + Sum[T \ {x}]}
<1>1. SUFFICES ASSUME Bad # {} PROVE FALSE
  OBVIOUS
<1>i. \A T \in SUBSET S : Sum[T] \in Int
  <2> SUFFICES ASSUME NEW T \in SUBSET S PROVE Sum[T] \in Int
    OBVIOUS
  <2>1. IsFiniteSet(T) /\ \A x \in T : g[x] \in Int
    BY FinitePart
  <2> QED
    BY <2>1, SumInt
<1>f. \A T \in SUBSET S : T # {} =>
          First(T) \in T /\ Sum[T] = g[First(T)] + Sum[T \ {First(T)}]
  BY FirstIn, FinitePart, SumFirst
<1> HIDE DEF Sum
<1>2. Bad \subseteq SUBSET S
  OBVIOUS
<1> HIDE DEF Bad
<1>3. PICK T \in Bad : \A U \in Bad : U \subseteq T => U = T
  BY <1>1, <1>2, SmallestSet
<1> USE DEF Bad
<1>4. PICK x \in T : Sum[T] # g[x] + Sum[T \ {x}]
  BY <1>3
<1> DEFINE z == First(T)
<1>5. z \in T /\ Sum[T] = g[z] + Sum[T \ {z}] /\ z # x
  BY <1>4, <1>f
<1>6. Sum[T \ {z}] = g[x] + Sum[(T \ {z}) \ {x}]
  <2>1. T \ {z} \notin Bad
    BY <1>3, <1>5
  <2> QED
    BY <2>1, <1>4, <1>5
<1>7. Sum[T \ {x}] = g[z] + Sum[(T \ {x}) \ {z}]
  <2>1. T \ {x} \notin Bad
    BY <1>3, <1>4
  <2> QED
    BY <2>1, <1>5
<1>8. (T \ {z}) \ {x} = (T \ {x}) \ {z}
  OBVIOUS
<1>9. PICK a \in Int, b \in Int, c \in Int :
          a = g[x] /\ b = g[z] /\ c = Sum[(T \ {x}) \ {z}]
  BY <1>4, <1>5, <1>i
<1> HIDE DEF z
<1>10. Sum[T] = b + (a + c) /\ Sum[T \ {x}] = b + c
  BY <1>5, <1>6, <1>7, <1>8, <1>9
<1>11. b + (a + c) = a + (b + c)
  OBVIOUS
<1> QED
  BY <1>4, <1>9, <1>10, <1>11

-----------------------------------------------------------------------------
(* Conservation of stock.                                                   *)

\* The units of option i that each order has in its rows, and those of the
\* orders that hold theirs.
Units(i) == [o \in OrderId |-> items[o][i]]
Held(i)  == SumFunctionOnSet(Units(i), HoldingOrders)

LEMMA UnitsInt ==
    ASSUME TypeOK, NEW i \in Option
    PROVE  \A o \in OrderId : Units(i)[o] = items[o][i] /\ Units(i)[o] \in Int
  BY OptionIds DEF Units, TypeOK

\* An order that takes its units adds them to those that are held.
LEMMA HeldMore ==
    ASSUME TypeOK, TypeOK', IsFiniteSet(HoldingOrders), NEW o \in OrderId,
           o \notin HoldingOrders, HoldingOrders' = HoldingOrders \cup {o},
           \A x \in OrderId \ {o} : items'[x] = items[x],
           NEW i \in Option
    PROVE  IsFiniteSet(HoldingOrders') /\ Held(i)' = items'[o][i] + Held(i)
<1>1. /\ \A x \in OrderId : Units(i)[x] = items[x][i] /\ Units(i)[x] \in Int
      /\ \A x \in OrderId : Units(i)'[x] = items'[x][i] /\ Units(i)'[x] \in Int
  <2>1. \A x \in OrderId : Units(i)[x] = items[x][i] /\ Units(i)[x] \in Int
    BY UnitsInt
  <2>2. \A x \in OrderId : Units(i)'[x] = items'[x][i] /\ Units(i)'[x] \in Int
    BY OptionIds DEF Units, TypeOK
  <2> QED
    BY <2>1, <2>2
<1>2. HoldingOrders \subseteq OrderId /\ HoldingOrders' \subseteq OrderId
  BY DEF HoldingOrders
<1>3. IsFiniteSet(HoldingOrders')
  BY FS_AddElement
<1>4. o \in HoldingOrders' /\ HoldingOrders' \ {o} = HoldingOrders
  OBVIOUS
<1>5. \A x \in HoldingOrders' : Units(i)'[x] \in Int
  BY <1>1, <1>2
<1>6. SumFunctionOnSet(Units(i)', HoldingOrders')
        = Units(i)'[o] + SumFunctionOnSet(Units(i)', HoldingOrders' \ {o})
  BY <1>3, <1>4, <1>5, SumRemove
<1>7. \A x \in HoldingOrders : Units(i)'[x] = Units(i)[x]
  BY <1>1, <1>2
<1>8. SumFunctionOnSet(Units(i)', HoldingOrders) = SumFunctionOnSet(Units(i), HoldingOrders)
  BY <1>7, SumSame
<1> QED
  BY <1>1, <1>3, <1>4, <1>6, <1>8 DEF Held

\* An order that gives its units back takes them out of those that are held.
LEMMA HeldLess ==
    ASSUME TypeOK, IsFiniteSet(HoldingOrders), NEW o \in HoldingOrders,
           HoldingOrders' = HoldingOrders \ {o}, items' = items,
           NEW i \in Option
    PROVE  IsFiniteSet(HoldingOrders') /\ Held(i) = items[o][i] + Held(i)'
<1>1. \A x \in OrderId : Units(i)[x] = items[x][i] /\ Units(i)[x] \in Int
  BY UnitsInt
<1>2. HoldingOrders \subseteq OrderId
  BY DEF HoldingOrders
<1>3. Units(i)' = Units(i)
  BY DEF Units
<1>4. IsFiniteSet(HoldingOrders \ {o})
  BY FS_RemoveElement
<1>5. \A x \in HoldingOrders : Units(i)[x] \in Int
  BY <1>1, <1>2
<1>6. SumFunctionOnSet(Units(i), HoldingOrders)
        = Units(i)[o] + SumFunctionOnSet(Units(i), HoldingOrders \ {o})
  BY <1>5, SumRemove
<1> QED
  BY <1>1, <1>2, <1>3, <1>4, <1>6 DEF Held

LEMMA HeldInt ==
    ASSUME TypeOK, IsFiniteSet(HoldingOrders), NEW i \in Option
    PROVE  Held(i) \in Int
<1>1. \A x \in HoldingOrders : Units(i)[x] \in Int
  BY UnitsInt DEF HoldingOrders
<1> QED
  BY <1>1, SumInt DEF Held

Conserved ==
    /\ IsFiniteSet(HoldingOrders)
    /\ \A i \in Option : supply[i] = stock[i] + Held(i)

LEMMA ConservedNext ==
    ASSUME TypeOK, TypeOK', Conserved, [Ledger!Next]_(Ledger!ledgerVars)
    PROVE  Conserved'
<1> USE DEF Conserved
<1>i. \A i \in Option : stock[i] \in Int /\ supply[i] \in Int /\ Held(i) \in Int
  BY HeldInt DEF TypeOK
<1>s. \A i \in Option, o \in OrderId : items[o][i] \in Int
  BY OptionIds DEF TypeOK
<1>1. ASSUME HoldingOrders' = HoldingOrders, items' = items,
             \A i \in Option : supply'[i] - stock'[i] = supply[i] - stock[i],
             \A i \in Option : stock'[i] \in Int /\ supply'[i] \in Int
      PROVE  Conserved'
  <2>1. \A i \in Option : Held(i)' = Held(i)
    BY <1>1 DEF Held, Units
  <2> QED
    BY <1>1, <1>i, <2>1
<1>2. ASSUME NEW o \in OrderId, NEW b \in Baskets, Ledger!Reserve(o, b)
      PROVE  Conserved'
  <2>1. /\ status[o] = "none" /\ status' = [status EXCEPT ![o] = "PENDING"]
        /\ items' = [items EXCEPT ![o] = b] /\ supply' = supply
        /\ stock' = [i \in Option |-> stock[i] - b[i]]
    BY <1>2 DEF Ledger!Reserve
  <2>2. o \notin HoldingOrders /\ HoldingOrders' = HoldingOrders \cup {o}
    BY <2>1 DEF HoldingOrders, Ledger!Holding, TypeOK
  <2>3. items'[o] = b /\ \A x \in OrderId \ {o} : items'[x] = items[x]
    BY <2>1 DEF TypeOK
  <2>4. ASSUME NEW i \in Option
        PROVE  supply'[i] = stock'[i] + Held(i)'
    <3>1. Held(i)' = b[i] + Held(i)
      BY <2>2, <2>3, HeldMore
    <3>2. b[i] \in Int
      BY OptionIds, ConstantsAssumption
    <3> QED
      BY <2>1, <3>1, <3>2, <1>i
  <2>5. IsFiniteSet(HoldingOrders')
    BY <2>2, FS_AddElement
  <2> QED
    BY <2>4, <2>5
<1>3. ASSUME NEW o \in OrderId, NEW s \in {"CANCELLED", "EXPIRED"}, Ledger!Release(o, s)
      PROVE  Conserved'
  <2>1. /\ status[o] \in {"PENDING", "PAID"} /\ status' = [status EXCEPT ![o] = s]
        /\ items' = items /\ supply' = supply
        /\ stock' = [i \in Option |-> stock[i] + items[o][i]]
    BY <1>3 DEF Ledger!Release
  <2>2. o \in HoldingOrders /\ HoldingOrders' = HoldingOrders \ {o}
    BY <2>1 DEF HoldingOrders, Ledger!Holding, TypeOK
  <2>3. IsFiniteSet(HoldingOrders')
    BY <2>2, FS_RemoveElement
  <2>4. ASSUME NEW i \in Option
        PROVE  supply'[i] = stock'[i] + Held(i)'
    <3>1. Held(i) = items[o][i] + Held(i)'
      BY <2>1, <2>2, HeldLess
    <3>2. Held(i)' \in Int
      <4>1. \A x \in HoldingOrders' : Units(i)'[x] \in Int
        BY OptionIds DEF Units, TypeOK, HoldingOrders
      <4> QED
        BY <4>1, <2>3, SumInt DEF Held
    <3> QED
      BY <2>1, <3>1, <3>2, <1>i, <1>s
  <2> QED
    BY <2>3, <2>4
<1>4. ASSUME NEW o \in OrderId, NEW s \in {"PAID", "SHIPPED", "DELIVERED"},
             Ledger!Advance(o, s)
      PROVE  Conserved'
  <2>1. /\ status[o] \in {"PENDING", "PAID", "SHIPPED"}
        /\ status' = [status EXCEPT ![o] = s]
        /\ items' = items /\ supply' = supply /\ stock' = stock
    BY <1>4 DEF Ledger!Advance
  <2>2. HoldingOrders' = HoldingOrders
    BY <2>1 DEF HoldingOrders, Ledger!Holding, TypeOK
  <2> QED
    BY <1>1, <1>i, <2>1, <2>2
<1>5. ASSUME NEW k \in Option, NEW n \in 0 .. MaxStock, Ledger!Restock(k, n)
      PROVE  Conserved'
  <2>1. /\ stock' = [stock EXCEPT ![k] = n]
        /\ supply' = [supply EXCEPT ![k] = @ + (n - stock[k])]
        /\ status' = status /\ items' = items
    BY <1>5 DEF Ledger!Restock
  <2>2. HoldingOrders' = HoldingOrders
    BY <2>1 DEF HoldingOrders
  <2>3. \A i \in Option : /\ supply'[i] - stock'[i] = supply[i] - stock[i]
                         /\ stock'[i] \in Int /\ supply'[i] \in Int
    BY <2>1, <1>i, ConstantsAssumption DEF TypeOK
  <2> QED
    BY <1>1, <2>1, <2>2, <2>3
<1>6. CASE UNCHANGED Ledger!ledgerVars
  BY <1>1, <1>6, <1>i DEF Ledger!ledgerVars, HoldingOrders
<1> QED
  BY <1>2, <1>3, <1>4, <1>5, <1>6 DEF Ledger!Next

\* Whatever transactions overlap, roll back, or are picked as deadlock victims,
\* the absolute numbers that createOrder, restoreOrderStock and restockOption
\* write lose no unit and make none up (as long as no administrator sets EXPIRED
\* by hand, which gives nothing back).
THEOREM StockIsConserved ==
    ASSUME "EXPIRED" \notin AdminTargets
    PROVE  Spec => []StockConserved
<1>1. Init => Conserved
  <2> SUFFICES ASSUME Init PROVE Conserved
    OBVIOUS
  <2>1. HoldingOrders = {}
    BY DEF Init, HoldingOrders, Ledger!Holding
  <2>2. \A i \in Option : Held(i) = 0
    BY <2>1, SumEmpty DEF Held
  <2>3. supply = stock /\ \A i \in Option : stock[i] \in Int
    BY ConstantsAssumption DEF Init
  <2> QED
    BY <2>1, <2>2, <2>3, FS_EmptySet DEF Conserved
<1>2. CoreInv /\ CoreInv' /\ Conserved /\ [Next]_vars => Conserved'
  BY LedgerStep, ConservedNext DEF CoreInv
<1>3. Conserved => StockConserved
  BY DEF Conserved, Held, Units, StockConserved
<1> QED
  BY <1>1, <1>2, <1>3, CoreInvariance, PTL DEF Spec
=============================================================================
