------------------------------ MODULE MCOrders ------------------------------
(***************************************************************************)
(* Small instances of Orders for TLC: the constants that a configuration    *)
(* file cannot write down.                                                   *)
(***************************************************************************)
EXTENDS OrdersInvariant, TLC

\* One unit of option 1; one of each.
Basket1  == 1 :> 1 @@ 2 :> 0
Basket12 == 1 :> 1 @@ 2 :> 1

\* Option 1, with and without an option id 3 that no row has.
Missing == 1 :> 1 @@ 3 :> 1
Present == 1 :> 1 @@ 3 :> 0

OneBasket   == {1 :> 1}
Crossing    == {Basket12}
TwoBaskets  == {Basket1, Basket12}
MissingOne  == {Missing, Present}

TwoStages  == <<"COLLECTED", "DELIVERED">>
AllStages  == <<"COLLECTED", "IN_TRANSIT", "OUT_FOR_DELIVERY", "DELIVERED">>

Symmetric == Permutations(Proc) \cup Permutations(OrderId)
=============================================================================
