-------------------------- MODULE OrdersInvariant --------------------------
(***************************************************************************)
(* Why the order core is right: the inductive invariant behind its safety   *)
(* properties.  TLC checks it on the small instances, OrdersProofs proves   *)
(* it for all of them.                                                      *)
(***************************************************************************)
EXTENDS Orders

\* The quantities the transaction of p takes out or puts back.
Quantities(p) == IF cur[p] = None THEN job[p].basket ELSE items[cur[p]]

\* The transaction of p works on an order row.
OrderOpen(p) ==
    \/ pc[p] \in {"pgConfirm", "pgCancel", "save"}
    \/ pc[p] = "locking" /\ cur[p] # None

\* Which request can be at which point of a handler.
JobFits(p) ==
    /\ pc[p] \in {"scan", "loop", "recheck"} => job[p].kind \in {"create", "sweep"}
    /\ pc[p] = "locking" =>
          \/ job[p].kind \in {"create", "sweep"}
          \/ job[p].kind = "status" /\ job[p].target = "CANCELLED"
    /\ pc[p] = "wait" => job[p].kind \in {"confirm", "status", "delivery"}
    /\ pc[p] = "pgConfirm" => job[p].kind = "confirm"
    /\ pc[p] = "pgCancel" => job[p].kind = "status" /\ job[p].target = "CANCELLED"
    /\ pc[p] = "save" =>
          \/ job[p].kind \in {"confirm", "delivery"}
          \/ job[p].kind = "status" /\ job[p].target # "CANCELLED"
    /\ pc[p] \in {"reload", "update"} => job[p].kind = "restock"
    /\ pc[p] = "idle" => job[p].kind = "none"

\* Which order row a request is busy with.
CurFits(p) ==
    /\ pc[p] \in {"idle", "scan", "loop", "wait", "reload", "update"} => cur[p] = None
    /\ pc[p] = "recheck" => cur[p] \in OrderId
    /\ pc[p] = "locking" /\ cur[p] = None => job[p].kind = "create"
    /\ OrderOpen(p) => cur[p] \in OrderId

\* An open order row is locked by its request, and still has the status the
\* handler checked: this is what the re-check under the row lock buys.
OrderChecked(p) ==
    OrderOpen(p) =>
        /\ orderLock[cur[p]] = p
        /\ job[p].kind \in {"create", "sweep", "confirm"} => status[cur[p]] = "PENDING"
        /\ job[p].kind = "status" => job[p].target \in VALID_TRANSITIONS[status[cur[p]]]
        /\ job[p].kind = "delivery" => status[cur[p]] = "SHIPPED"
        /\ status[cur[p]] # "none"

\* A lock scan ends with every wanted row locked.
ScanFits(p) ==
    pc[p] = "locking" =>
        /\ need[p] = {} <=> at[p] = NoOption
        /\ at[p] \in need[p] \cup {NoOption}
        /\ \A i \in Option : Quantities(p)[i] > 0 => i \in need[p] \/ optionLock[i] = p

\* The value read when a row was locked is the row's value until it is unlocked.
SnapshotsFresh ==
    \A p \in Proc, i \in Option :
        optionLock[i] = p => pc[p] = "locking" /\ snap[p][i] = stock[i]

\* The inductive invariant of the locking protocol.  It fails as soon as one
\* handler reads before it locks, unlocks before it commits, or trusts what it
\* read before the lock.
CoreInv ==
    /\ TypeOK
    /\ NoOversell
    /\ SnapshotsFresh
    /\ \A p \in Proc :
          JobFits(p) /\ CurFits(p) /\ OrderChecked(p) /\ ScanFits(p)

-----------------------------------------------------------------------------
(* What the other properties need besides.                                  *)

\* Between the check of addDeliveryEvent and its save nobody records a stage.
StageStillNext(p) ==
    pc[p] = "save" /\ job[p].kind = "delivery" => MayAddStage(p, cur[p])

\* A payment key comes with PAID, and only an order that has one is ever refunded,
\* be it by a request that is late.
KeyFits(o) ==
    /\ paymentKey[o] => status[o] \notin {"none", "PENDING"}
    /\ "pgCancel" \in late[o] => paymentKey[o]

\* What the answer of the gateway has told the handler holds until it commits.
PaymentFits(p) ==
    /\ pc[p] = "pgCancel" => paymentKey[cur[p]]
    /\ pc[p] = "save" /\ job[p].kind = "confirm" => pg[cur[p]] # "none"
    /\ pc[p] = "locking" /\ job[p].kind = "status" /\ paymentKey[cur[p]]
          => pg[cur[p]] = "cancelled"

\* Nobody keeps the lock of an order row it is not busy with.
OrderLockFits ==
    \A p \in Proc, o \in OrderId : orderLock[o] = p => OrderOpen(p) /\ cur[p] = o

\* The scan of a checkout has locked what is below all it still needs.
ScanAscends(p) ==
    pc[p] = "locking" /\ cur[p] = None =>
        \A j \in need[p] :
            /\ at[p] <= j
            /\ \A i \in Option : optionLock[i] = p => i < j

\* The inductive invariant behind every safety property of the order core.
IInv ==
    /\ CoreInv
    /\ DeliveryInOrder
    /\ PaymentsAgree
    /\ \A o \in OrderId : KeyFits(o)
    /\ OrderLockFits
    /\ \A p \in Proc : StageStillNext(p) /\ PaymentFits(p) /\ ScanAscends(p)
=============================================================================
