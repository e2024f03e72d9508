------------------------------- MODULE Orders -------------------------------
(***************************************************************************)
(* The order core of the backend: creating an order, reclaiming abandoned   *)
(* ones, confirming a payment, moving an order along from the admin page,   *)
(* recording delivery stages and restocking, run by concurrent requests     *)
(* over PostgreSQL (READ COMMITTED, SELECT ... FOR UPDATE row locks) and a   *)
(* payment gateway that answers late, or never.                             *)
(*                                                                          *)
(* A process is one HTTP request being served.  pc says how far its handler *)
(* has come; a transaction is the stretch during which it may hold row      *)
(* locks.  What a transaction writes stays invisible until it commits, so   *)
(* the writes of a handler are part of its commit step; what it READ under  *)
(* a lock is kept in snap, because the code writes back the value it read   *)
(* plus or minus a quantity, not an increment.                              *)
(***************************************************************************)
EXTENDS Integers, Sequences, FiniteSets, Functions

CONSTANTS
    Proc,          \* requests being served at the same time
    OrderId,       \* orders that may be placed (bounds the creations)
    Option,        \* ids of existing product options
    OptionId,      \* option ids a request may name
    Baskets,       \* the item lists a checkout may send
    MaxStock,      \* largest stock an administrator types in
    Traffic,       \* the kinds of request that arrive
    AdminTargets,  \* the statuses administrators ask for
    StageOrder,    \* DELIVERY_STAGE_ORDER
    Faults,        \* what may fail: "abort" of a transaction, "gateway" calls,
                   \* which may take effect "late"
    None           \* nobody, or no order

OrderStatus ==
    {"PENDING", "PAID", "SHIPPED", "DELIVERED", "CANCELLED", "EXPIRED"}

ASSUME ConstantsAssumption ==
    /\ Option \subseteq OptionId
    /\ OptionId \subseteq Nat \ {0}
    /\ Baskets \subseteq [OptionId -> Nat]
    /\ MaxStock \in Nat
    /\ AdminTargets \subseteq OrderStatus
    /\ None \notin Proc \cup OrderId
    /\ StageOrder \in Seq(STRING)
    /\ Len(StageOrder) > 0
    \* the stage that delivers an order comes last only (delivery-stage.enum.ts)
    /\ \A k \in 1 .. Len(StageOrder) - 1 : StageOrder[k] # StageOrder[Len(StageOrder)]

VARIABLES
    \* committed rows
    stock,         \* product_options.stock
    status,        \* orders.status; "none" while the row does not exist
    items,         \* order_items of the order: quantity per option id
    paymentKey,    \* orders.payment_key is set
    timeline,      \* delivery_events of the order, oldest first
    overdue,       \* orders created more than PENDING_ORDER_TTL_MS ago
    \* row locks
    orderLock, optionLock,
    \* the payment gateway (external)
    pg,            \* what it did with the order's payment
    late,          \* requests still on their way after their handler gave up
    \* requests
    pc, job, cur, cand, need, at, snap,
    \* history
    supply,        \* units in circulation: on the shelf or held by an order
    returned       \* how many times the order's units were given back

rows     == <<stock, status, items, paymentKey, timeline>>
locks    == <<orderLock, optionLock>>
gateway  == <<pg, late>>
requests == <<pc, job, cur, cand, need, at, snap>>
history  == <<supply, returned>>
vars == <<rows, overdue, locks, gateway, requests, history>>

-----------------------------------------------------------------------------
(* Data.                                                                    *)

VALID_TRANSITIONS ==
    [PENDING   |-> {"PAID", "CANCELLED", "EXPIRED"},
     PAID      |-> {"SHIPPED", "CANCELLED"},
     SHIPPED   |-> {},
     DELIVERED |-> {},
     CANCELLED |-> {},
     EXPIRED   |-> {}]

REVENUE_STATUSES == {"PAID", "SHIPPED", "DELIVERED"}

Stages == {StageOrder[k] : k \in 1 .. Len(StageOrder)}

NoOption == 0
NoItems == [i \in OptionId |-> 0]
NoSnap == [i \in Option |-> 0]

NoJob == [kind |-> "none"]
CreateJobs   == [kind : {"create"}, basket : Baskets]
SweepJobs    == [kind : {"sweep"}]
\* The gateway has opened one payment for an order: that is the paymentKey sent.
ConfirmJobs  == [kind : {"confirm"}, order : OrderId, amountOk : BOOLEAN]
StatusJobs   == [kind : {"status"}, order : OrderId, target : AdminTargets]
DeliveryJobs == [kind : {"delivery"}, order : OrderId, stage : Stages]
RestockJobs  == [kind : {"restock"}, option : Option, units : 0 .. MaxStock]
Jobs == CreateJobs \cup SweepJobs \cup ConfirmJobs \cup StatusJobs
            \cup DeliveryJobs \cup RestockJobs

\* The definitions marked "mutant" are plausible bugs; no behaviour uses them.
\* A run must refute its property once one of them replaces the definition that
\* follows it.

\* The existing options a quantity map names: what In([...keys()]) finds.
Wanted(q) == {i \in Option : q[i] > 0}

\* mutant: createOrder does not sort either
ScanNextUnsorted(sorted, rest) == IF rest = {} THEN {NoOption} ELSE rest

\* The row a lock scan stops at next.  createOrder sorts by id; the lookup in
\* restoreOrderStock has no ORDER BY, so its order is the planner's choice.
ScanNext(sorted, rest) ==
    IF rest = {} THEN {NoOption}
    ELSE IF sorted THEN {i \in rest : \A j \in rest : i <= j}
    ELSE rest

-----------------------------------------------------------------------------
Init ==
    /\ stock \in [Option -> 0 .. MaxStock]
    /\ status = [o \in OrderId |-> "none"]
    /\ items = [o \in OrderId |-> NoItems]
    /\ paymentKey = [o \in OrderId |-> FALSE]
    /\ timeline = [o \in OrderId |-> <<>>]
    /\ overdue = {}
    /\ orderLock = [o \in OrderId |-> None]
    /\ optionLock = [i \in Option |-> None]
    /\ pg = [o \in OrderId |-> "none"]
    /\ late = [o \in OrderId |-> {}]
    /\ pc = [p \in Proc |-> "idle"]
    /\ job = [p \in Proc |-> NoJob]
    /\ cur = [p \in Proc |-> None]
    /\ cand = [p \in Proc |-> {}]
    /\ need = [p \in Proc |-> {}]
    /\ at = [p \in Proc |-> NoOption]
    /\ snap = [p \in Proc |-> NoSnap]
    /\ supply = stock
    /\ returned = [o \in OrderId |-> 0]

-----------------------------------------------------------------------------
(* Pieces of handlers.                                                      *)

\* mutant: the option rows stay locked
DropOrderLocks(p) ==
    /\ orderLock' = [o \in OrderId |-> IF orderLock[o] = p THEN None ELSE orderLock[o]]
    /\ UNCHANGED optionLock

\* COMMIT and ROLLBACK both drop every row lock the request holds.
DropLocks(p) ==
    /\ orderLock' = [o \in OrderId |-> IF orderLock[o] = p THEN None ELSE orderLock[o]]
    /\ optionLock' = [i \in Option |-> IF optionLock[i] = p THEN None ELSE optionLock[i]]

\* The request is answered, with a result or with an error.
Answer(p) ==
    /\ pc' = [pc EXCEPT ![p] = "idle"]
    /\ job' = [job EXCEPT ![p] = NoJob]
    /\ cur' = [cur EXCEPT ![p] = None]
    /\ cand' = [cand EXCEPT ![p] = {}]
    /\ need' = [need EXCEPT ![p] = {}]
    /\ at' = [at EXCEPT ![p] = NoOption]
    /\ snap' = [snap EXCEPT ![p] = NoSnap]

\* An exception inside a transaction: roll back and answer with the error.
RollBack(p) ==
    /\ DropLocks(p)
    /\ Answer(p)
    /\ UNCHANGED <<rows, overdue, history>>

\* mutant: a plain SELECT, which waits for nobody
RowRead(i) == i \in Option

\* Nobody has the option row locked: FOR UPDATE and UPDATE go ahead.
RowFree(i) == optionLock[i] = None

\* Start SELECT ... FOR UPDATE over the options of quantity map q.
StartLocking(p, q, sorted) ==
    /\ pc' = [pc EXCEPT ![p] = "locking"]
    /\ need' = [need EXCEPT ![p] = Wanted(q)]
    /\ \E i \in ScanNext(sorted, Wanted(q)) : at' = [at EXCEPT ![p] = i]

GoTo(p, label) == pc' = [pc EXCEPT ![p] = label]

\* Quantities come out of the option rows p has locked; the new value is computed
\* from the value p read when it got the lock.
TakeOut(p, q) ==
    stock' = [i \in Option |->
                 IF optionLock[i] = p THEN snap[p][i] - q[i] ELSE stock[i]]

\* mutant: cancelling gives nothing back, as it once did
PutNothingBack(p, q) == stock' = stock

\* And they go back in the same way.
PutBack(p, q) ==
    stock' = [i \in Option |->
                 IF optionLock[i] = p THEN snap[p][i] + q[i] ELSE stock[i]]

HasRestored(o) == returned' = [returned EXCEPT ![o] = @ + 1]

-----------------------------------------------------------------------------
(* Requests arrive.                                                         *)

Idle(p) == pc[p] = "idle"

Begin(p, kind, first, jobs) ==
    /\ Idle(p)
    /\ kind \in Traffic
    /\ \E j \in jobs : job' = [job EXCEPT ![p] = j]
    /\ GoTo(p, first)
    /\ UNCHANGED <<rows, overdue, locks, gateway, history,
                   cur, cand, need, at, snap>>

\* Creations are bounded by OrderId: one is left for every checkout under way.
CreateOrder(p) ==
    /\ Cardinality({o \in OrderId : status[o] = "none"})
          > Cardinality({q \in Proc : job[q].kind = "create"})
    /\ Begin(p, "create", "scan", CreateJobs)

\* The stock overview of the admin page reclaims first and then reads.
GetStockOverview(p) == Begin(p, "sweep", "scan", SweepJobs)
Confirm(p)           == Begin(p, "confirm", "wait", ConfirmJobs)
UpdateOrderStatus(p) == Begin(p, "status", "wait", StatusJobs)
AddDeliveryEvent(p)  == Begin(p, "delivery", "wait", DeliveryJobs)
RestockOption(p)     == Begin(p, "restock", "reload", RestockJobs)

-----------------------------------------------------------------------------
(* reclaimExpiredPendingOrders: candidates are read outside any transaction,*)
(* then every candidate is looked at again in a transaction of its own.     *)

\* Cut-off and query; a checkout asks only for holders of the options it wants.
ScanCandidates(p) ==
    /\ pc[p] = "scan"
    /\ cand' = [cand EXCEPT ![p] =
            {o \in overdue :
                /\ status[o] = "PENDING"
                /\ \/ job[p].kind = "sweep"
                   \/ \E i \in Option : job[p].basket[i] > 0 /\ items[o][i] > 0}]
    /\ GoTo(p, "loop")
    /\ UNCHANGED <<rows, overdue, locks, gateway, history,
                   job, cur, need, at, snap>>

NextCandidate(p) ==
    /\ pc[p] = "loop"
    /\ \E o \in cand[p] : cur' = [cur EXCEPT ![p] = o]
    /\ GoTo(p, "recheck")
    /\ UNCHANGED <<rows, overdue, locks, gateway, history,
                   job, cand, need, at, snap>>

\* mutant: the candidate list is trusted
StillACandidate(o) == status[o] # "none"
\* mutant: the cut-off is compared the wrong way round
ReclaimYoung(o) == status[o] = "PENDING" /\ o \notin overdue

\* The order row is free: lock it and look again.
StillReclaimable(o) == status[o] = "PENDING" /\ o \in overdue

LockCandidate(p) ==
    /\ pc[p] = "recheck"
    /\ orderLock[cur[p]] = None
    /\ StillReclaimable(cur[p])
    /\ orderLock' = [orderLock EXCEPT ![cur[p]] = p]
    /\ StartLocking(p, items[cur[p]], FALSE)
    /\ UNCHANGED <<rows, overdue, optionLock, gateway, history,
                   job, cur, cand, snap>>

SkipCandidate(p) ==
    /\ pc[p] = "recheck"
    /\ orderLock[cur[p]] = None
    /\ ~StillReclaimable(cur[p])
    /\ cand' = [cand EXCEPT ![p] = @ \ {cur[p]}]
    /\ cur' = [cur EXCEPT ![p] = None]
    /\ GoTo(p, "loop")
    /\ UNCHANGED <<rows, overdue, locks, gateway, history, job, need, at, snap>>

\* Restore the stock, set EXPIRED, commit; on to the next candidate.
ReclaimCommit(p) ==
    /\ pc[p] = "locking" /\ at[p] = NoOption
    /\ job[p].kind \in {"create", "sweep"} /\ cur[p] # None
    /\ PutBack(p, items[cur[p]])
    /\ status' = [status EXCEPT ![cur[p]] = "EXPIRED"]
    /\ HasRestored(cur[p])
    /\ DropLocks(p)
    /\ cand' = [cand EXCEPT ![p] = @ \ {cur[p]}]
    /\ cur' = [cur EXCEPT ![p] = None]
    /\ snap' = [snap EXCEPT ![p] = NoSnap]
    /\ GoTo(p, "loop")
    /\ UNCHANGED <<items, paymentKey, timeline, overdue, gateway, supply,
                   job, need, at>>

\* All candidates seen: the overview is served.
SweepDone(p) ==
    /\ pc[p] = "loop" /\ cand[p] = {}
    /\ job[p].kind = "sweep"
    /\ Answer(p)
    /\ UNCHANGED <<rows, overdue, locks, gateway, history>>

-----------------------------------------------------------------------------
(* createOrder, after the reclaim; and the row locks of every transaction.  *)

StartOrder(p) ==
    /\ pc[p] = "loop" /\ cand[p] = {}
    /\ job[p].kind = "create"
    /\ StartLocking(p, job[p].basket, TRUE)
    /\ UNCHANGED <<rows, overdue, locks, gateway, history, job, cur, cand, snap>>

\* One row of SELECT ... FOR UPDATE: wait for the row, then read it.
LockOption(p) ==
    /\ pc[p] = "locking" /\ at[p] # NoOption
    /\ RowFree(at[p])
    /\ optionLock' = [optionLock EXCEPT ![at[p]] = p]
    /\ snap' = [snap EXCEPT ![p][at[p]] = stock[at[p]]]
    /\ need' = [need EXCEPT ![p] = @ \ {at[p]}]
    /\ \E i \in ScanNext(cur[p] = None, need[p] \ {at[p]}) : at' = [at EXCEPT ![p] = i]
    /\ UNCHANGED <<rows, overdue, orderLock, gateway, history, pc, job, cur, cand>>

\* mutant: one unit too many is sold
HasStockButOne(p) ==
    \A i \in OptionId : job[p].basket[i] > 0 =>
        i \in Option /\ snap[p][i] + 1 >= job[p].basket[i]
\* mutant: only the rows that were found are checked
HasStockFound(p) ==
    \A i \in Option : job[p].basket[i] > 0 => snap[p][i] >= job[p].basket[i]

\* Every requested option exists and has the units.
HasStock(p) ==
    \A i \in OptionId : job[p].basket[i] > 0 =>
        i \in Option /\ snap[p][i] >= job[p].basket[i]

OrderTx(p) ==
    /\ pc[p] = "locking" /\ at[p] = NoOption
    /\ job[p].kind = "create" /\ cur[p] = None

CreateCommit(p) ==
    /\ OrderTx(p)
    /\ HasStock(p)
    /\ TakeOut(p, job[p].basket)
    /\ \E o \in OrderId :
          /\ status[o] = "none"
          /\ status' = [status EXCEPT ![o] = "PENDING"]
          /\ items' = [items EXCEPT ![o] = job[p].basket]
    /\ DropLocks(p)
    /\ Answer(p)
    /\ UNCHANGED <<paymentKey, timeline, overdue, gateway, history>>

StockInsufficient(p) ==
    /\ OrderTx(p)
    /\ ~HasStock(p)
    /\ RollBack(p)
    /\ UNCHANGED gateway

-----------------------------------------------------------------------------
(* Handlers that lock one order row first: confirm, updateOrderStatus and   *)
(* addDeliveryEvent.  What they check, they check under the lock.           *)

\* mutant: the status is not looked at again under the lock
MayConfirmAmount(p, o) == status[o] # "none" /\ job[p].amountOk

MayConfirm(p, o) == status[o] = "PENDING" /\ job[p].amountOk

MaySetStatus(p, o) ==
    /\ job[p].target \in VALID_TRANSITIONS[status[o]]
    /\ job[p].target = "CANCELLED" /\ status[o] = "PAID" => paymentKey[o]

\* mutant: a repeated stage is refused, a skipped one is not
MayAddNewStage(p, o) ==
    /\ status[o] = "SHIPPED"
    /\ \A k \in 1 .. Len(timeline[o]) : timeline[o][k] # job[p].stage
\* mutant: the order need not be shipped
MayAddUnshipped(p, o) ==
    /\ Len(timeline[o]) < Len(StageOrder)
    /\ job[p].stage = StageOrder[Len(timeline[o]) + 1]

MayAddStage(p, o) ==
    /\ status[o] = "SHIPPED"
    /\ Len(timeline[o]) < Len(StageOrder)
    /\ job[p].stage = StageOrder[Len(timeline[o]) + 1]

Accepted(p) ==
    LET o == job[p].order IN
    /\ status[o] # "none"
    /\ job[p].kind = "confirm" => MayConfirm(p, o)
    /\ job[p].kind = "status" => MaySetStatus(p, o)
    /\ job[p].kind = "delivery" => MayAddStage(p, o)

\* Cancelling gives the stock back.
Cancelling(p) == job[p].kind = "status" /\ job[p].target = "CANCELLED"
\* mutant: the refund is forgotten
NeverRefunding(p) == Cancelling(p) /\ status[job[p].order] = "SHIPPED"

\* A paid order is refunded before that.
Refunding(p) == Cancelling(p) /\ status[job[p].order] = "PAID"

LockOrder(p) ==
    /\ pc[p] = "wait"
    /\ orderLock[job[p].order] = None
    /\ Accepted(p)
    /\ orderLock' = [orderLock EXCEPT ![job[p].order] = p]
    /\ cur' = [cur EXCEPT ![p] = job[p].order]
    /\ \/ /\ job[p].kind = "confirm"
          /\ GoTo(p, "pgConfirm")
          /\ UNCHANGED <<need, at>>
       \/ /\ Refunding(p)
          /\ GoTo(p, "pgCancel")
          /\ UNCHANGED <<need, at>>
       \/ /\ Cancelling(p) /\ ~Refunding(p)
          /\ StartLocking(p, items[job[p].order], FALSE)
       \/ /\ job[p].kind # "confirm" /\ ~Cancelling(p)
          /\ GoTo(p, "save")
          /\ UNCHANGED <<need, at>>
    /\ UNCHANGED <<rows, overdue, optionLock, gateway, history, job, cand, snap>>

Reject(p) ==
    /\ pc[p] = "wait"
    /\ orderLock[job[p].order] = None
    /\ ~Accepted(p)
    /\ Answer(p)
    /\ UNCHANGED <<rows, overdue, locks, gateway, history>>

SaveConfirm(p) ==
    /\ pc[p] = "save" /\ job[p].kind = "confirm"
    /\ status' = [status EXCEPT ![cur[p]] = "PAID"]
    /\ paymentKey' = [paymentKey EXCEPT ![cur[p]] = TRUE]
    /\ DropLocks(p)
    /\ Answer(p)
    /\ UNCHANGED <<stock, items, timeline, overdue, gateway, history>>

\* Every transition but CANCELLED writes the status and nothing else here.
SaveStatus(p) ==
    /\ pc[p] = "save" /\ job[p].kind = "status"
    /\ status' = [status EXCEPT ![cur[p]] = job[p].target]
    /\ DropLocks(p)
    /\ Answer(p)
    /\ UNCHANGED <<stock, items, paymentKey, timeline, overdue, gateway, history>>

CancelCommit(p) ==
    /\ pc[p] = "locking" /\ at[p] = NoOption
    /\ job[p].kind = "status"
    /\ PutBack(p, items[cur[p]])
    /\ status' = [status EXCEPT ![cur[p]] = "CANCELLED"]
    /\ HasRestored(cur[p])
    /\ DropLocks(p)
    /\ Answer(p)
    /\ UNCHANGED <<items, paymentKey, timeline, overdue, gateway, supply>>

\* The last stage delivers the order in the same transaction.
SaveDelivery(p) ==
    /\ pc[p] = "save" /\ job[p].kind = "delivery"
    /\ timeline' = [timeline EXCEPT ![cur[p]] = Append(@, job[p].stage)]
    /\ status' = [status EXCEPT ![cur[p]] =
                     IF job[p].stage = StageOrder[Len(StageOrder)]
                     THEN "DELIVERED" ELSE @]
    /\ DropLocks(p)
    /\ Answer(p)
    /\ UNCHANGED <<stock, items, paymentKey, overdue, gateway, history>>

-----------------------------------------------------------------------------
(* The payment gateway, called with the order row locked.  The retries of   *)
(* requestTossWithRetry are hidden here: module TossRetry has them and is    *)
(* shown to behave like these actions.                                      *)

\* A confirm request captures a payment once; repeating it changes nothing.
Captured(g) == IF g = "none" THEN "captured" ELSE g
\* A cancel request refunds a captured payment once.
Refunded(g) == IF g = "captured" THEN "cancelled" ELSE g

Effect(call, g) == IF call = "pgConfirm" THEN Captured(g) ELSE Refunded(g)

\* The gateway acts; its answer is lost, or slower than the timeout.
PgSilent(p) ==
    /\ pc[p] \in {"pgConfirm", "pgCancel"}
    /\ pg' = [pg EXCEPT ![cur[p]] = Effect(pc[p], @)]
    /\ UNCHANGED <<rows, overdue, locks, late, history, requests>>

\* 2xx, or an error body that says ALREADY_PROCESSED_PAYMENT.
PgConfirmOk(p) ==
    /\ pc[p] = "pgConfirm"
    /\ pg' = [pg EXCEPT ![cur[p]] = Captured(@)]
    /\ GoTo(p, "save")
    /\ UNCHANGED <<rows, overdue, locks, late, history, job, cur, cand, need, at, snap>>

PgCancelOk(p) ==
    /\ pc[p] = "pgCancel"
    /\ pg' = [pg EXCEPT ![cur[p]] = Refunded(@)]
    /\ StartLocking(p, items[cur[p]], FALSE)
    /\ UNCHANGED <<rows, overdue, locks, late, history, job, cur, cand, snap>>

\* Rejected, out of retries, or the process died in the call: the transaction
\* rolls back, but a request that was sent may still reach the gateway.
PgFailed(p) ==
    /\ "gateway" \in Faults
    /\ pc[p] \in {"pgConfirm", "pgCancel"}
    /\ RollBack(p)
    /\ \/ UNCHANGED late
       \/ /\ "late" \in Faults
          /\ late' = [late EXCEPT ![cur[p]] = @ \cup {pc[p]}]
    /\ UNCHANGED pg

\* A request whose handler is gone takes effect.
PgLate(o) ==
    \E r \in late[o] :
        /\ late' = [late EXCEPT ![o] = @ \ {r}]
        /\ pg' = [pg EXCEPT ![o] = Effect(r, @)]
        /\ UNCHANGED <<rows, overdue, locks, requests, history>>

-----------------------------------------------------------------------------
(* restockOption: findOne, then save, which reloads the row and updates it  *)
(* only if the number differs.  There is no explicit lock, but the UPDATE   *)
(* waits for the row.                                                       *)

RestockSame(p) ==
    /\ pc[p] = "reload"
    /\ stock[job[p].option] = job[p].units
    /\ Answer(p)
    /\ UNCHANGED <<rows, overdue, locks, gateway, history>>

RestockReload(p) ==
    /\ pc[p] = "reload"
    /\ stock[job[p].option] # job[p].units
    /\ GoTo(p, "update")
    /\ UNCHANGED <<rows, overdue, locks, gateway, history,
                   job, cur, cand, need, at, snap>>

RestockUpdate(p) ==
    LET i == job[p].option
        n == job[p].units
    IN
    /\ pc[p] = "update"
    /\ RowFree(i)
    /\ stock' = [stock EXCEPT ![i] = n]
    /\ supply' = [supply EXCEPT ![i] = @ + (n - stock[i])]
    /\ Answer(p)
    /\ UNCHANGED <<status, items, paymentKey, timeline, overdue, locks, gateway, returned>>

-----------------------------------------------------------------------------
(* Failures and time.                                                       *)

\* A statement fails, the connection drops or the process dies, outside a
\* gateway call: PostgreSQL rolls back and the client sees an error.
Abort(p) ==
    /\ "abort" \in Faults
    /\ pc[p] \notin {"idle", "pgConfirm", "pgCancel"}
    /\ RollBack(p)
    /\ UNCHANGED gateway

\* The request holding the row p is waiting for.
Blocker(p) ==
    CASE pc[p] = "locking" /\ at[p] # NoOption -> optionLock[at[p]]
      [] pc[p] = "update"  -> optionLock[job[p].option]
      [] pc[p] = "recheck" -> orderLock[cur[p]]
      [] pc[p] = "wait"    -> orderLock[job[p].order]
      [] OTHER             -> None

\* The requests of S wait for one another in cycles.
Deadlocked(S) == S # {} /\ {Blocker(q) : q \in S} = S

\* PostgreSQL breaks a cycle by aborting one of its members.
DeadlockVictim(p) ==
    /\ \E S \in SUBSET Proc : p \in S /\ Deadlocked(S)
    /\ RollBack(p)
    /\ UNCHANGED gateway

\* PENDING_ORDER_TTL_MS pass; the age of an order that left PENDING is moot.
TtlPasses(o) ==
    /\ status[o] = "PENDING"
    /\ overdue' = overdue \cup {o}
    /\ o \notin overdue
    /\ UNCHANGED <<rows, locks, gateway, requests, history>>

-----------------------------------------------------------------------------
Arrival(p) ==
    \/ CreateOrder(p) \/ GetStockOverview(p) \/ Confirm(p)
    \/ UpdateOrderStatus(p) \/ AddDeliveryEvent(p) \/ RestockOption(p)

Reclaim(p) ==
    \/ ScanCandidates(p) \/ NextCandidate(p) \/ LockCandidate(p)
    \/ SkipCandidate(p) \/ ReclaimCommit(p) \/ SweepDone(p)

Checkout(p) ==
    StartOrder(p) \/ LockOption(p) \/ CreateCommit(p) \/ StockInsufficient(p)

OrderRow(p) ==
    \/ LockOrder(p) \/ Reject(p) \/ SaveConfirm(p)
    \/ SaveStatus(p) \/ CancelCommit(p) \/ SaveDelivery(p)

Gateway(p) == PgConfirmOk(p) \/ PgCancelOk(p) \/ PgFailed(p)

RestockSteps(p) == RestockSame(p) \/ RestockReload(p) \/ RestockUpdate(p)

\* What a request does once it has arrived, failures left aside.
Serve(p) ==
    Reclaim(p) \/ Checkout(p) \/ OrderRow(p) \/ Gateway(p) \/ RestockSteps(p)

Next ==
    \/ \E p \in Proc : Arrival(p) \/ Serve(p) \/ Abort(p) \/ DeadlockVictim(p)
                       \/ PgSilent(p)
    \/ \E o \in OrderId : PgLate(o) \/ TtlPasses(o)

Spec == Init /\ [][Next]_vars

\* A handler keeps running; PostgreSQL queues the waiters of a row, so one that
\* finds it free again and again gets it; deadlock_timeout breaks every cycle.
\* Nothing makes a client send a request, the gateway answer well or a late
\* request arrive.
Fairness ==
    \A p \in Proc : SF_vars(Serve(p)) /\ WF_vars(DeadlockVictim(p))

FairSpec == Spec /\ Fairness

-----------------------------------------------------------------------------
TypeOK ==
    /\ stock \in [Option -> Int]
    /\ status \in [OrderId -> OrderStatus \cup {"none"}]
    /\ items \in [OrderId -> [OptionId -> Nat]]
    /\ paymentKey \in [OrderId -> BOOLEAN]
    /\ timeline \in [OrderId -> Seq(Stages)]
    /\ overdue \subseteq OrderId
    /\ orderLock \in [OrderId -> Proc \cup {None}]
    /\ optionLock \in [Option -> Proc \cup {None}]
    /\ pg \in [OrderId -> {"none", "captured", "cancelled"}]
    /\ late \in [OrderId -> SUBSET {"pgConfirm", "pgCancel"}]
    /\ pc \in [Proc -> {"idle", "scan", "loop", "recheck", "locking", "wait",
                        "pgConfirm", "pgCancel", "save", "reload", "update"}]
    /\ job \in [Proc -> Jobs \cup {NoJob}]
    /\ cur \in [Proc -> OrderId \cup {None}]
    /\ cand \in [Proc -> SUBSET OrderId]
    /\ need \in [Proc -> SUBSET Option]
    /\ at \in [Proc -> Option \cup {NoOption}]
    /\ snap \in [Proc -> [Option -> Int]]
    /\ supply \in [Option -> Int]
    /\ returned \in [OrderId -> Nat]
-----------------------------------------------------------------------------
(* Safety.                                                                  *)

\* Stock is never sold twice: whatever checkouts, returns and restocks overlap,
\* no commit computes a stock below zero (createOrder reads under FOR UPDATE).
NoOversell == \A i \in Option : stock[i] >= 0

\* restoreOrderStock commits exactly once for an order that ends CANCELLED or
\* EXPIRED, and never for another one, although the reclaim, the admin's cancel
\* and the confirmation of the same order race for its row.
ReturnedOnce ==
    \A o \in OrderId :
        returned[o] = IF status[o] \in {"CANCELLED", "EXPIRED"} THEN 1 ELSE 0

\* Two admins recording stages of one order at once can neither skip nor repeat
\* one, and DELIVERED stands exactly for a complete timeline.
DeliveryInOrder ==
    \A o \in OrderId :
        /\ Len(timeline[o]) <= Len(StageOrder)
        /\ \A k \in 1 .. Len(timeline[o]) : timeline[o][k] = StageOrder[k]
        /\ status[o] = "DELIVERED" <=> Len(timeline[o]) = Len(StageOrder)
        /\ timeline[o] # <<>> => status[o] \in {"SHIPPED", "DELIVERED"}

\* What the order row says of the payment is what the gateway did: a key on the
\* row means a charge, only such an order is ever refunded, and one that ends
\* CANCELLED with a key has been.  The calls and the commits are different
\* steps, either of which may fail.
PaymentsAgree ==
    \A o \in OrderId :
        /\ paymentKey[o] => pg[o] # "none"
        /\ pg[o] = "cancelled" => paymentKey[o]
        /\ paymentKey[o] /\ status[o] = "CANCELLED" => pg[o] = "cancelled"

\* Checkouts lock options by ascending id, so they never wait for one another
\* in a cycle: every deadlock has a stock return in it, whose lookup is unsorted.
CheckoutsDoNotDeadlock ==
    \A S \in SUBSET Proc : Deadlocked(S) => \E q \in S : cur[q] # None

\* A charge that lands on an order which is no longer PENDING belongs to a
\* confirm request that outlived its handler: while a handler is waiting for
\* the gateway the row lock keeps the reclaim and the admin away.
NoChargeAfterPending ==
    [][\A o \in OrderId :
          pg[o] = "none" /\ pg'[o] = "captured" /\ status[o] # "PENDING"
              => "pgConfirm" \in late[o]]_vars

\* The locking protocol implements the indivisible stock ledger.
Ledger == INSTANCE StockLedger
LedgerSpec == Ledger!Spec

\* Units on the shelf plus units held by living orders are the units in
\* circulation: none is lost or made up by overlapping transactions that write
\* back absolute numbers, by rollbacks or by deadlock victims.
HoldingOrders == {o \in OrderId : status[o] \in Ledger!Holding}

StockConserved ==
    \A i \in Option :
        supply[i] = stock[i]
            + SumFunctionOnSet([o \in OrderId |-> items[o][i]], HoldingOrders)

-----------------------------------------------------------------------------
(* Said by the source, and not so.                                          *)

\* order-status.enum.ts says of EXPIRED that the stock has been returned.
ExpiredGaveBack ==
    \A o \in OrderId : status[o] = "EXPIRED" => returned[o] = 1

\* admin.service.ts counts as revenue "only what is confirmed as paid"; once the
\* handler of its order has committed or rolled back, an order that was paid
\* through the gateway would then still be charged there.
RevenueIsCharged ==
    \A o \in OrderId :
        orderLock[o] = None /\ status[o] \in REVENUE_STATUSES /\ paymentKey[o]
            => pg[o] = "captured"

-----------------------------------------------------------------------------
(* Liveness.                                                                *)

\* Whatever row locks a request runs into, it is answered.
RequestsAnswered == \A p \in Proc : pc[p] # "idle" ~> pc[p] = "idle"

\* Someone keeps opening the stock overview on every connection.
SweepsGoOn == \A p \in Proc : SF_vars(GetStockOverview(p))

SweptSpec == FairSpec /\ SweepsGoOn

\* Units held by an abandoned checkout come back, or its payment arrives after
\* all, however checkouts, payments and admins get in the way: but only because
\* someone keeps opening the overview, for nothing else triggers the reclaim.
OverdueLeavesPending ==
    \A o \in OrderId :
        status[o] = "PENDING" /\ o \in overdue ~> status[o] # "PENDING"
=============================================================================
