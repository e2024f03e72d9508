---------------------------- MODULE StockLedger ----------------------------
(***************************************************************************)
(* What the shop promises about stock, seen from outside: an order takes    *)
(* its units in one indivisible step, and only when all of them are there;  *)
(* cancelling or expiring it gives exactly those units back, once; an order *)
(* moves along its lifecycle and never leaves a final status.  There are no *)
(* transactions, locks, retries or failures here: module Orders has them    *)
(* and is shown to implement this one.                                      *)
(*                                                                          *)
(* Sources: backend/src/orders/entities/order-status.enum.ts,               *)
(* commerce-core-schema.sql, backend/src/admin/admin.service.ts (the table  *)
(* VALID_TRANSITIONS).                                                      *)
(***************************************************************************)
EXTENDS Integers

CONSTANTS
    OrderId,    \* the orders that may be placed
    Option,     \* ids of the product options on sale
    OptionId,   \* every option id a request may name, existing or not
    Baskets,    \* the baskets customers order: quantity per option id
    MaxStock    \* largest stock an administrator types in when restocking

VARIABLES
    stock,      \* product_options.stock
    status,     \* orders.status, "none" before the row exists
    items,      \* the order_items of each order, quantity per option id
    supply      \* units in circulation: on the shelf or held by an order

ledgerVars == <<stock, status, items, supply>>

NoItems == [i \in OptionId |-> 0]

\* The statuses in which an order holds its units.
Holding == {"PENDING", "PAID", "SHIPPED", "DELIVERED"}

Init ==
    /\ stock \in [Option -> 0 .. MaxStock]
    /\ status = [o \in OrderId |-> "none"]
    /\ items = [o \in OrderId |-> NoItems]
    /\ supply = stock

\* A customer takes every unit of the basket, or nothing.
Reserve(o, basket) ==
    /\ status[o] = "none"
    /\ \A i \in OptionId : basket[i] > 0 => i \in Option /\ stock[i] >= basket[i]
    /\ status' = [status EXCEPT ![o] = "PENDING"]
    /\ items' = [items EXCEPT ![o] = basket]
    /\ stock' = [i \in Option |-> stock[i] - basket[i]]
    /\ UNCHANGED supply

\* The units of an order that is cancelled or expires go back on the shelf.
Release(o, final) ==
    /\ <<status[o], final>> \in {<<"PENDING", "CANCELLED">>,
                                 <<"PENDING", "EXPIRED">>,
                                 <<"PAID", "CANCELLED">>}
    /\ status' = [status EXCEPT ![o] = final]
    /\ stock' = [i \in Option |-> stock[i] + items[o][i]]
    /\ UNCHANGED <<items, supply>>

\* The steps of the lifecycle that move no stock.
Advance(o, next) ==
    /\ <<status[o], next>> \in {<<"PENDING", "PAID">>,
                                <<"PAID", "SHIPPED">>,
                                <<"SHIPPED", "DELIVERED">>}
    /\ status' = [status EXCEPT ![o] = next]
    /\ UNCHANGED <<stock, items, supply>>

\* An administrator sets the stock of an option to a number of units.
Restock(i, units) ==
    /\ stock' = [stock EXCEPT ![i] = units]
    /\ supply' = [supply EXCEPT ![i] = @ + (units - stock[i])]
    /\ UNCHANGED <<status, items>>

Next ==
    \/ \E o \in OrderId, b \in Baskets : Reserve(o, b)
    \/ \E o \in OrderId, s \in {"CANCELLED", "EXPIRED"} : Release(o, s)
    \/ \E o \in OrderId, s \in {"PAID", "SHIPPED", "DELIVERED"} : Advance(o, s)
    \/ \E i \in Option, n \in 0 .. MaxStock : Restock(i, n)

Spec == Init /\ [][Next]_ledgerVars
=============================================================================
