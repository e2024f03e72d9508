----------------------------- MODULE ShopperCart -----------------------------
(***************************************************************************)
(* What the cart promises: a request takes effect once, at once and as a     *)
(* whole, or, when the server dies, not at all - but for a login, which may  *)
(* then have copied some entries of the guest's cart already.  Logging in    *)
(* moves every unit of the guest's cart into the member's, and nothing but   *)
(* its time to live empties a guest's cart behind the shopper's back.        *)
(*                                                                          *)
(* All of this is said of a request that is alone on its carts.  Nothing is  *)
(* promised of the carts on which two requests meet, for as long as they are *)
(* being served.                                                            *)
(***************************************************************************)
EXTENDS Naturals

CONSTANTS Proc, CartId, User, Option, Jobs, NoJob

VARIABLES
    units,      \* of each option, in each cart
    request,    \* what was asked for and has not taken effect yet
    disputed    \* the requests that met another one on a cart
cartVars == <<units, request, disputed>>

Nothing == [i \in Option |-> 0]

Init ==
    /\ units = [o \in CartId \cup User |-> Nothing]
    /\ request = [p \in Proc |-> NoJob]
    /\ disputed = {}

\* The carts a request is about.
About(r) ==
    IF r = NoJob THEN {} ELSE {r.owner} \cup (IF r.kind = "merge" THEN {r.cart} ELSE {})

Met(p, r) == {q \in Proc \ {p} : About(request[q]) \cap About(r) # {}}

\* Only these carts may change.
Within(carts) == \A o \in (CartId \cup User) \ carts : units'[o] = units[o]

Ask(p) ==
    /\ request[p] = NoJob
    /\ \E r \in Jobs :
          /\ request' = [request EXCEPT ![p] = r]
          /\ \/ Met(p, r) = {} /\ UNCHANGED <<units, disputed>>
             \/ /\ Met(p, r) # {}
                /\ disputed' = disputed \cup Met(p, r) \cup {p}
                /\ Within(UNION {About(request[q]) : q \in Met(p, r)})

Add(r) ==
    /\ r.kind = "add"
    /\ units' = [units EXCEPT ![r.owner][r.option] = @ + r.quantity]

\* That the option is in the cart was checked a moment ago: the cart may have
\* expired since.
SetQuantity(r) ==
    /\ r.kind = "update"
    /\ units' = [units EXCEPT ![r.owner][r.option] = r.quantity]

Remove(r) ==
    /\ r.kind = "remove"
    /\ units' = [units EXCEPT ![r.owner][r.option] = 0]

Refuse(r) ==
    /\ r.kind \in {"update", "remove"}
    /\ units[r.owner][r.option] = 0
    /\ UNCHANGED units

Merge(r) ==
    /\ r.kind = "merge"
    /\ units' = [units EXCEPT
          ![r.cart] = Nothing,
          ![r.owner] = [i \in Option |-> @[i] + units[r.cart][i]]]

Clear(r) ==
    /\ r.kind = "order"
    /\ units' = [units EXCEPT ![r.owner] = Nothing]

Alone(p) == request[p] # NoJob /\ p \notin disputed

Serve(p) ==
    /\ Alone(p)
    /\ request' = [request EXCEPT ![p] = NoJob]
    /\ \/ Add(request[p]) \/ SetQuantity(request[p]) \/ Remove(request[p])
       \/ Refuse(request[p]) \/ Merge(request[p]) \/ Clear(request[p])
    /\ UNCHANGED disputed

\* The server dies before the request has taken effect.  A login that was at work
\* leaves the entries it copied, and the guest's cart may have expired under it.
Fail(p) ==
    LET r == request[p] IN
    /\ Alone(p)
    /\ request' = [request EXCEPT ![p] = NoJob]
    /\ \/ UNCHANGED units
       \/ /\ r.kind = "merge"
          /\ \E copied \in SUBSET Option, left \in {Nothing, units[r.cart]} :
                units' = [units EXCEPT
                    ![r.cart] = left,
                    ![r.owner] = [i \in Option |->
                        IF i \in copied THEN @[i] + units[r.cart][i] ELSE @[i]]]
    /\ UNCHANGED disputed

\* Whatever a request does that met another one, it does to its own carts.
Contend(p) ==
    /\ p \in disputed
    /\ Within(About(request[p]))
    /\ \/ UNCHANGED <<request, disputed>>
       \/ request' = [request EXCEPT ![p] = NoJob] /\ disputed' = disputed \ {p}

Expire(c) == units' = [units EXCEPT ![c] = Nothing] /\ UNCHANGED <<request, disputed>>

Next ==
    \/ \E p \in Proc : Ask(p) \/ Serve(p) \/ Fail(p) \/ Contend(p)
    \/ \E c \in CartId : Expire(c)

Spec == Init /\ [][Next]_cartVars
=============================================================================
