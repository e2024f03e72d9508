----------------------------- MODULE Storefront -----------------------------
(***************************************************************************)
(* One browser with several tabs, over Sessions: AuthContext and the pages  *)
(* to log in, register, check out and confirm a payment.  The token is in   *)
(* localStorage and shared; the user that is shown is a state of each tab.  *)
(* A tab has at most two requests under way: the one of its mount and that  *)
(* of the page it is on, or was on before it was loaded again.              *)
(*                                                                          *)
(* An order is served in one step: Orders is how.  Ghosts: `astray`, tabs   *)
(* whose user may differ from the token for a reason the code leaves open,  *)
(* and `repeated`, tabs that asked again for a confirmation that may have   *)
(* been given, or lost its answer.                                          *)
(***************************************************************************)
EXTENDS Sessions

CONSTANTS
    Tab, Order,
    Kinds,       \* bound: kinds of requests that are sent
    MaxEvents    \* bound: requests, reloads, losses, and ends of sessions

ASSUME StorefrontAssumption ==
    /\ Proc = Tab \X {"mount", "page"}
    /\ None \notin Order
    /\ MaxEvents \in Nat

VARIABLES
    token,       \* localStorage.sessionToken, shared by the tabs
    user, loading,  \* AuthContext of each tab
    page,        \* the page each tab is on, of those that matter here
    called,      \* called.current of PaymentSuccessPage
    paying,      \* the order in the URL of the gateway or of the result page
    gone,        \* tabs loaded again since their page sent the request under way
    order,       \* orders: status, user_id, whether the gateway has captured the payment,
                 \* and the user shown when it was placed
    placing,     \* ghost: the user shown when the order form was sent, and whether astray
    astray, mixed, repeated,
    events

screen == <<token, user, loading, page, called, paying, gone>>
ghosts == <<placing, astray, mixed, repeated>>
vars   == <<server, req, screen, order, ghosts, events>>

NoOrder == [status |-> "none", charged |-> FALSE, owner |-> None, shown |-> None, astray |-> FALSE]

\* Two tabs are open on the shop, and nobody is logged in.
Init ==
    /\ SessionsInit
    /\ token = None
    /\ user = [t \in Tab |-> None] /\ loading = [t \in Tab |-> FALSE]
    /\ page = [t \in Tab |-> "shop"]
    /\ called = [t \in Tab |-> FALSE]
    /\ paying = [t \in Tab |-> None] /\ gone = {}
    /\ order = [o \in Order |-> NoOrder]
    /\ placing = [t \in Tab |-> [shown |-> None, astray |-> FALSE]]
    /\ astray = {} /\ mixed = {} /\ repeated = {}
    /\ events = 0

Event == events < MaxEvents /\ events' = events + 1
Mount(t) == <<t, "mount">>
Page(t)  == <<t, "page">>
Free(p)  == req[p].at = "idle"
Settled(p) == req[p].at \in {"done", "failed"}
Answered(t, kinds) == t \notin gone /\ Settled(Page(t)) /\ req[Page(t)].kind \in kinds
Forget(p) == req' = [req EXCEPT ![p] = NoReq]

\* Tabs that a change of the token by tab t leaves with another user, and those
\* whose mount asked about the token before.
Change(t, kept) ==
    /\ astray' = (astray \ {t}) \cup (Tab \ {t}) \cup kept
    /\ mixed' = mixed \cup {s \in Tab : ~Free(Mount(s))}

-----------------------------------------------------------------------------
(* AuthContext.                                                             *)

\* A tab is opened, or loaded again, at a page: effects run, state is new, and
\* the answers to what it had sent reach nobody.
LoadPage(t, there) ==
    /\ page' = [page EXCEPT ![t] = there]
    /\ called' = [called EXCEPT ![t] = FALSE]
    /\ user' = [user EXCEPT ![t] = None]
    /\ loading' = [loading EXCEPT ![t] = token # None]
    /\ astray' = astray \ {t} /\ mixed' = mixed \ {t}
    /\ gone' = IF Free(Page(t)) THEN gone ELSE gone \cup {t}
    /\ req' = [req EXCEPT ![Mount(t)] = IF token = None THEN NoReq ELSE Asking("me", None, token)]

Reload(t) ==
    /\ Event /\ page[t] # "gateway" /\ t \notin gone
    /\ LoadPage(t, IF page[t] \in {"shop", "checkout"} THEN page[t] ELSE "confirming")
    /\ repeated' = IF called[t] THEN repeated \cup {t} ELSE repeated
    /\ UNCHANGED <<server, token, paying, order, placing>>

\* The server ends what it has begun for a page that is no more.
Orphaned(t) ==
    /\ t \in gone /\ Settled(Page(t))
    /\ Forget(Page(t))
    /\ gone' = gone \ {t}
    /\ UNCHANGED <<server, token, user, loading, page, called, paying, order, ghosts, events>>

\* Any failure of fetchCurrentUser clears the token of that moment, not the one it was about.
Mounted(t) ==
    LET p == Mount(t) IN
    /\ Settled(p)
    /\ \E answer \in {req[p].at, "failed"} :
         /\ answer # req[p].at => Event
         /\ answer = req[p].at => UNCHANGED events
         /\ IF answer = "done"
            THEN /\ user' = [user EXCEPT ![t] = req[p].user]
                 /\ astray' = IF t \in mixed THEN astray \cup {t} ELSE astray
                 /\ UNCHANGED token
            ELSE /\ token' = None
                 /\ astray' = (IF user[t] = None THEN astray ELSE astray \cup {t})
                                \cup {s \in Tab \ {t} : user[s] # None \/ ~Free(Mount(s))}
                 /\ UNCHANGED user
    /\ mixed' = (mixed \ {t}) \cup {s \in Tab \ {t} : token' # token /\ ~Free(Mount(s))}
    /\ loading' = [loading EXCEPT ![t] = FALSE]
    /\ Forget(p)
    /\ UNCHANGED <<server, page, called, paying, gone, order, repeated, placing>>

\* LoginPage and RegisterPage can be opened whoever is logged in.
Submit(t, kind, email) ==
    /\ Event /\ kind \in Kinds /\ page[t] = "shop"
    /\ Send(Page(t), kind, email, None)
    /\ UNCHANGED <<server, screen, order, ghosts>>

\* The session becomes that of the tab only when the answer comes: when it is lost,
\* a session was made that no tab will end, and the form shows an error.
LoggedIn(t) ==
    LET p == Page(t) IN
    /\ Answered(t, {"login", "register"})
    /\ \/ /\ req[p].at = "done"
          /\ token' = req[p].token
          /\ user' = [user EXCEPT ![t] = req[p].user]
          /\ Change(t, IF sessions[req[p].token] = None THEN {t} ELSE {})
          /\ UNCHANGED events
       \/ /\ IF req[p].at = "done" THEN Event ELSE UNCHANGED events
          /\ UNCHANGED <<token, user, astray, mixed>>
    /\ Forget(p)
    /\ UNCHANGED <<server, loading, page, called, paying, gone, order, repeated, placing>>

\* logout: without a token there is nobody to tell.
EndSession(t) ==
    IF token = None
    THEN /\ Forget(Page(t))
         /\ user' = [user EXCEPT ![t] = None]
         /\ Change(t, {})
    ELSE /\ req' = [req EXCEPT ![Page(t)] = Asking("logout", None, token)]
         /\ UNCHANGED <<user, astray, mixed>>

\* The header has the button once the user is known.
Logout(t) ==
    /\ Event /\ user[t] # None /\ ~loading[t] /\ page[t] \in {"shop", "checkout"}
    /\ Free(Page(t)) /\ EndSession(t)
    /\ UNCHANGED <<server, token, loading, page, called, paying, gone, order, repeated, placing>>

\* mutant: a logout that fails does not clear the token.
TokenKept(answer) == IF answer = "done" THEN None ELSE token

\* The token is cleared whatever came of the request.
TokenAfter(answer) == None

LoggedOut(t) ==
    LET p == Page(t) IN
    /\ Answered(t, {"logout"})
    /\ \E answer \in {req[p].at, "failed"} :
         /\ answer # req[p].at => Event
         /\ answer = req[p].at => UNCHANGED events
         /\ token' = TokenAfter(answer)
    /\ user' = [user EXCEPT ![t] = None]
    /\ Change(t, {})
    /\ Forget(p)
    /\ UNCHANGED <<server, loading, page, called, paying, gone, order, repeated, placing>>

\* AdminPage calls the API with the token; a 401 logs out.
Admin(t) ==
    /\ Event /\ "admin" \in Kinds /\ page[t] = "shop" /\ token # None
    /\ user[t] # None /\ ~loading[t]
    /\ Send(Page(t), "admin", None, token)
    /\ UNCHANGED <<server, screen, order, ghosts>>

\* AdminGuard answers 401; any other failure is shown on the page and ends nothing.
AdminAnswered(t) ==
    LET p == Page(t) IN
    /\ Answered(t, {"admin"})
    /\ \/ req[p].at = "done" /\ Forget(p) /\ UNCHANGED <<user, astray, mixed, events>>
       \/ req[p].at = "failed" /\ EndSession(t) /\ UNCHANGED events
       \/ Event /\ Forget(p) /\ UNCHANGED <<user, astray, mixed>>
    /\ UNCHANGED <<server, token, loading, page, called, paying, gone, order, repeated, placing>>

-----------------------------------------------------------------------------
(* CheckoutPage and the result pages.                                       *)

\* The token goes along when there is one.
PlaceOrder(t) ==
    /\ Event /\ "order" \in Kinds /\ page[t] \in {"shop", "checkout"}
    /\ page' = [page EXCEPT ![t] = "checkout"]
    /\ Send(Page(t), "order", None, token)
    /\ placing' = [placing EXCEPT ![t] =
                     [shown |-> user[t], astray |-> t \in astray \/ ~Free(Mount(t))]]
    /\ UNCHANGED <<server, token, user, loading, called, paying, gone, order, astray, mixed, repeated>>

\* A session that has ended makes it the order of a guest; the cart is deleted
\* after the commit, and when that fails so does the request.
CreateOrder(p) ==
    /\ At(p, "order", "start")
    /\ \/ GoTo(p, "failed") /\ UNCHANGED <<order, paying>>
       \/ \E o \in Order :
            /\ order[o] = NoOrder
            /\ order' = [order EXCEPT ![o] =
                           [status |-> "PENDING", charged |-> FALSE, owner |-> SessionUser(req[p].token),
                            shown |-> placing[p[1]].shown, astray |-> placing[p[1]].astray]]
            /\ \/ GoTo(p, "done") /\ paying' = [paying EXCEPT ![p[1]] = o]
               \/ GoTo(p, "failed") /\ UNCHANGED paying
    /\ UNCHANGED <<server, token, user, loading, page, called, gone, ghosts, events>>

\* requestPayment leaves for the gateway with the order of the answer; after an
\* error the form can be sent again.
OrderPlaced(t) ==
    LET p == Page(t) IN
    /\ Answered(t, {"order"})
    /\ IF req[p].at = "done" THEN page' = [page EXCEPT ![t] = "gateway"] ELSE UNCHANGED page
    /\ Forget(p)
    /\ UNCHANGED <<server, token, user, loading, called, paying, gone, order, ghosts, events>>

\* The gateway comes back at successUrl or failUrl.
GatewayReturns(t) ==
    /\ page[t] = "gateway"
    /\ \E there \in {"confirming", "shop"} : LoadPage(t, there)
    /\ repeated' = repeated \ {t}
    /\ UNCHANGED <<server, token, paying, order, events, placing>>

\* mutant: the effect does not look at called.current.
EachTime(t) == TRUE

NotCalled(t) == ~called[t]

\* The effect runs when the page is mounted, twice so under StrictMode.
ConfirmEffect(t) ==
    /\ page[t] \in {"confirming", "success"} /\ NotCalled(t)
    /\ called' = [called EXCEPT ![t] = TRUE]
    /\ Send(Page(t), "confirm", None, None)
    /\ UNCHANGED <<server, token, user, loading, page, paying, gone, order, ghosts, events>>

\* confirm refuses an order that is not PENDING; the gateway refuses, cannot be
\* reached, or captures the payment.  Then its answer is lost or the commit fails,
\* and the order stays as it was, or the order is PAID - by a later call also,
\* which the gateway answers with ALREADY_PROCESSED_PAYMENT.
Confirm(p) ==
    LET o == paying[p[1]] IN
    /\ At(p, "confirm", "start")
    /\ \/ GoTo(p, "failed") /\ UNCHANGED order
       \/ /\ order[o].status = "PENDING"
          /\ GoTo(p, "failed")
          /\ order' = [order EXCEPT ![o].charged = TRUE]
       \/ /\ order[o].status = "PENDING"
          /\ GoTo(p, "done")
          /\ order' = [order EXCEPT ![o].status = "PAID", ![o].charged = TRUE]
    /\ UNCHANGED <<server, screen, ghosts, events>>

\* An answer that is lost, to the page or of the commit, is an error like any other.
Confirmed(t) ==
    LET p == Page(t) IN
    /\ Answered(t, {"confirm"})
    /\ \E answer \in {req[p].at, "failed"} :
         /\ answer # req[p].at => Event
         /\ answer = req[p].at => UNCHANGED events
         /\ page' = [page EXCEPT ![t] = IF answer = "done" THEN "success" ELSE "error"]
         /\ repeated' = IF answer # req[p].at THEN repeated \cup {t} ELSE repeated
    /\ Forget(p)
    /\ UNCHANGED <<server, token, user, loading, called, paying, gone, order, astray, mixed, placing>>

\* reclaimExpiredPendingOrders, called by other requests.
ExpireOrder(o) ==
    /\ Event /\ order[o].status = "PENDING"
    /\ order' = [order EXCEPT ![o].status = "EXPIRED"]
    /\ UNCHANGED <<server, req, screen, ghosts>>

-----------------------------------------------------------------------------
\* A session that ends leaves the tabs as they were.
Ends(t) ==
    /\ Event /\ ExpireSession(t)
    /\ astray' = IF t = token THEN Tab ELSE astray
    /\ placing' = [u \in Tab |-> [placing[u] EXCEPT !.astray = TRUE]]
    /\ UNCHANGED <<screen, order, mixed, repeated>>

Demote(u) == Event /\ Revoke(u) /\ UNCHANGED <<screen, order, ghosts>>

\* A logout is felt in the other tabs at once.
Serve(p) ==
    /\ ServeAccount(p)
    /\ astray' = IF token # None /\ sessions[token] # None /\ sessions'[token] = None
                 THEN astray \cup {t \in Tab : t # p[1] \/ t \in gone} ELSE astray
    /\ placing' = IF At(p, "logout", "start")
                  THEN [t \in Tab |-> [placing[t] EXCEPT !.astray = @ \/ t # p[1]]] ELSE placing
    /\ UNCHANGED <<screen, order, mixed, repeated, events>>

Next ==
    \/ \E t \in Tab :
         \/ Reload(t) \/ Orphaned(t) \/ Mounted(t) \/ LoggedIn(t) \/ Logout(t) \/ LoggedOut(t)
         \/ Admin(t) \/ AdminAnswered(t) \/ PlaceOrder(t) \/ OrderPlaced(t)
         \/ GatewayReturns(t) \/ ConfirmEffect(t) \/ Confirmed(t)
         \/ \E kind \in {"login", "register"}, email \in Email : Submit(t, kind, email)
    \/ \E p \in Proc : Serve(p) \/ CreateOrder(p) \/ Confirm(p)
    \/ \E o \in Order : ExpireOrder(o)
    \/ \E t \in Token : Ends(t)
    \/ \E u \in User : Demote(u)

Spec == Init /\ [][Next]_vars

-----------------------------------------------------------------------------
(* Properties.                                                              *)

OrderRows ==
    [status : {"none", "PENDING", "PAID", "EXPIRED"}, charged : BOOLEAN,
     owner : User \cup {None}, shown : User \cup {None}, astray : BOOLEAN]

TypeOK ==
    /\ SessionsTypeOK
    /\ token \in Token \cup {None}
    /\ user \in [Tab -> User \cup {None}] /\ loading \in [Tab -> BOOLEAN]
    /\ page \in [Tab -> {"shop", "checkout", "gateway", "confirming", "success", "error"}]
    /\ called \in [Tab -> BOOLEAN]
    /\ paying \in [Tab -> Order \cup {None}] /\ gone \subseteq Tab
    /\ order \in [Order -> OrderRows]
    /\ placing \in [Tab -> [shown : User \cup {None}, astray : BOOLEAN]]
    /\ astray \subseteq Tab /\ mixed \subseteq Tab /\ repeated \subseteq Tab
    /\ events \in 0 .. MaxEvents

Quiet == \A p \in Proc : Free(p)

\* With nothing under way a tab shows the user whose session the token is, unless
\* another tab or the end of the session came between, or the answer of its mount
\* overlapped a login.  An order belongs to the user the tab showed.
ShownUser ==
    /\ Quiet => \A t \in Tab \ astray : user[t] = SessionUser(token)
    /\ \A o \in Order : order[o].status # "none" /\ ~order[o].astray
                          => order[o].owner = order[o].shown

\* A result page that says the payment was made tells the truth of the gateway and
\* of the order.  One that says it failed tells that the order is not PAID, unless
\* the page was loaded again or the answer was lost; it does not tell that nothing
\* was captured: a payment the gateway's answer or the commit of which failed is
\* charged for an order that is not PAID.
OutcomeShown ==
    \A t \in Tab : Free(Page(t)) =>
        /\ page[t] = "success" => order[paying[t]].status = "PAID" /\ order[paying[t]].charged
        /\ page[t] = "error" /\ t \notin repeated => order[paying[t]].status # "PAID"
=============================================================================
