-------------------------- MODULE StorefrontProofs --------------------------
(***************************************************************************)
(* Theorems about sessions and the browser, for any number of tabs,         *)
(* accounts, tokens and orders, and without a bound on the events.          *)
(***************************************************************************)
EXTENDS Storefront, TLAPS

-----------------------------------------------------------------------------
(* The inductive invariant.                                                 *)

\* An email has one account, a session's token has been made, and so has the one
\* the browser keeps: a token that is made later is nobody's here.
AccountsFit ==
    /\ OneAccount
    /\ \A u \in User : users[u] # NoUser => users[u].email \in Email
    /\ \A k \in Token : sessions[k] # None => k \in minted
    /\ token \in minted \cup {None}

Denied(r) == SessionUser(r.token) = None \/ users[SessionUser(r.token)].role # "admin"

\* Where a request of each kind can be, and what it has found so far.
RequestFits(p) ==
    LET r == req[p] IN
    /\ r.at = "idle" <=> r.kind = "none"
    /\ r.at = "idle" => r = NoReq
    /\ r.token \in minted \cup {None}
    /\ r.kind \in {"login", "register"} => r.email \in Email
    /\ r.at = "insert" => r.kind = "register"
    /\ r.at \in {"merge", "session"} => r.kind \in {"login", "register"} /\ r.user \in User
    /\ r.at = "role" => r.kind = "admin" /\ r.user \in User
    /\ r.kind \in {"login", "register"} /\ r.at = "done" =>
         /\ r.token \in Token /\ r.user \in User
         /\ sessions[r.token] # None => sessions[r.token].user = r.user
    /\ r.kind \in {"logout", "me"} => r.token \in Token
    /\ r.kind = "me" /\ r.at = "done" => r.user \in User
    /\ r.kind = "admin" /\ r.denied =>
         /\ r.at = "start" => Denied(r)
         /\ r.at = "role" => users[r.user].role # "admin"
         /\ r.at # "done"
    /\ IF p[2] = "mount" THEN r.kind \in {"none", "me"} ELSE r.kind # "me"

RequestsFit == \A p \in Proc : RequestFits(p)

\* A mount is under way while the tab is loading, and asks about the token that is
\* kept unless a login came between; what a tab shows is what the token stands for.
TabLoads(t) == loading[t] <=> ~Free(Mount(t))

TabShows(t) ==
    /\ ~Free(Mount(t)) /\ t \notin mixed => req[Mount(t)].token = token
    /\ At(Mount(t), "me", "done") /\ t \notin mixed \cup astray
         => req[Mount(t)].user = SessionUser(token)
    /\ req[Page(t)].kind \in {"logout", "admin"} /\ t \notin gone => Free(Mount(t))
    /\ t \notin astray /\ Free(Mount(t)) /\ ~(req[Page(t)].kind = "logout" /\ t \notin gone)
         => user[t] = SessionUser(token)

\* An order that is on its way carries the session of the user who was shown.
OrderFits(t) ==
    At(Page(t), "order", "start") /\ ~placing[t].astray
      => SessionUser(req[Page(t)].token) = placing[t].shown

OwnerFits(o) ==
    order[o].status # "none" /\ ~order[o].astray => order[o].owner = order[o].shown

ShownInv == \A t \in Tab : TabLoads(t) /\ TabShows(t) /\ OrderFits(t)
OwnersFit == \A o \in Order : OwnerFits(o)

Paid(t) == order[paying[t]].status = "PAID"

\* The page a tab is on, the request it has sent, and the order it is paying.
PageFits(t) ==
    LET r == req[Page(t)] IN
    /\ t \in gone => ~Free(Page(t))
    /\ paying[t] # None => order[paying[t]].status # "none"
    /\ page[t] \in {"gateway", "confirming", "success", "error"} => paying[t] \in Order
    /\ r.kind = "order" => page[t] = "checkout"
    /\ r.kind = "order" /\ r.at = "done" => paying[t] \in Order /\ ~Paid(t)
    /\ r.kind = "confirm" => page[t] = "confirming"
    /\ r.kind = "confirm" /\ t \notin gone => called[t]
    /\ r.kind = "confirm" /\ t \in gone => t \in repeated
    /\ page[t] \in {"gateway", "success", "error"} => Free(Page(t))
    /\ page[t] \in {"success", "error"} => called[t]
    /\ r.kind = "confirm" /\ r.at = "done" => Paid(t)
    /\ r.kind = "confirm" /\ r.at # "done" /\ t \notin repeated => ~Paid(t)
    /\ page[t] = "success" => Paid(t)
    /\ page[t] = "gateway" => ~Paid(t)
    /\ page[t] = "confirming" /\ ~called[t] /\ t \notin repeated => ~Paid(t)
    /\ page[t] = "error" /\ t \notin repeated => ~Paid(t)

\* Two tabs never pay for the same order.
PagesFit ==
    /\ \A s, t \in Tab : s # t /\ paying[s] # None => paying[s] # paying[t]
    /\ \A t \in Tab : PageFits(t)

-----------------------------------------------------------------------------
(* Requests.                                                                *)

LEMMA Constants ==
    /\ None \notin User /\ None \notin Email /\ None \notin Token /\ None \notin Order
    /\ None \notin SessionData
  BY SessionsAssumption, StorefrontAssumption

LEMMA Processes ==
    ASSUME NEW t \in Tab
    PROVE  Mount(t) \in Proc /\ Page(t) \in Proc /\ Mount(t) # Page(t)
  BY StorefrontAssumption DEF Mount, Page

LEMMA AskingIs ==
    ASSUME NEW kind \in {"me", "login", "register", "logout", "admin", "order", "confirm"},
           NEW email \in Email \cup {None}, NEW k \in Token \cup {None}
    PROVE  LET r == Asking(kind, email, k) IN
           /\ r \in Requests
           /\ r.kind = kind /\ r.at = "start" /\ r.email = email /\ r.token = k
           /\ r.user = None
           /\ r.denied <=> SessionUser(k) = None \/ users[SessionUser(k)].role # "admin"
  BY DEF Asking, NoReq, Requests

LEMMA NoReqIs == NoReq \in Requests /\ NoReq.at = "idle" /\ NoReq.kind = "none"
  BY DEF NoReq, Requests

\* A request whose fields are assigned one at a time is still one.
LEMMA ServedIs ==
    ASSUME SessionsTypeOK, NEW p \in Proc,
           NEW at \in {"idle", "start", "insert", "merge", "session", "role", "done", "failed"},
           NEW k \in Token \cup {None}, NEW u \in User \cup {None}
    PROVE  /\ GoTo(p, at) => req' \in [Proc -> Requests]
           /\ req' = [req EXCEPT ![p].at = at, ![p].user = u] => req' \in [Proc -> Requests]
           /\ req' = [req EXCEPT ![p].at = at, ![p].token = k] => req' \in [Proc -> Requests]
  BY DEF SessionsTypeOK, Requests, GoTo

LEMMA SessionUserIs ==
    ASSUME SessionsTypeOK, NEW k \in Token \cup {None}
    PROVE  SessionUser(k) \in User \cup {None}
  BY Constants DEF SessionsTypeOK, SessionUser, SessionData

LEMMA RequestIs ==
    ASSUME SessionsTypeOK, NEW p \in Proc
    PROVE  /\ req[p] \in Requests
           /\ req[p].kind \in {"none", "me", "login", "register", "logout", "admin", "order", "confirm"}
           /\ req[p].at \in {"idle", "start", "insert", "merge", "session", "role", "done", "failed"}
           /\ req[p].email \in Email \cup {None} /\ req[p].token \in Token \cup {None}
           /\ req[p].user \in User \cup {None}
  BY DEF SessionsTypeOK, Requests

LEMMA ServerTypes ==
    ASSUME SessionsTypeOK, NEW p \in Proc, ServeAccount(p),
           req[p].at = "insert" => req[p].email \in Email,
           req[p].at = "session" => req[p].user \in User,
           req[p].kind = "logout" => req[p].token \in Token
    PROVE  SessionsTypeOK'
<1> USE RequestIs, Constants
<1>1. CASE FindEmail(p)
  BY <1>1, ServedIs DEF FindEmail, server, SessionsTypeOK
<1>2. CASE SaveUser(p)
  <2> DEFINE id == CHOOSE u \in User : users[u] = NoUser
  <2>1. id \in User
    BY <1>2 DEF SaveUser
  <2>2. users' \in [User -> [email : Email \cup {None}, role : Roles]]
    <3>1. CASE EmailTaken(req[p].email) # {}
      BY <1>2, <3>1 DEF SaveUser, SessionsTypeOK
    <3>2. CASE EmailTaken(req[p].email) = {}
      <4>1. users' = [users EXCEPT ![id] = [email |-> req[p].email, role |-> "user"]]
        BY <1>2, <3>2 DEF SaveUser
      <4>2. req[p].email \in Email
        BY <1>2 DEF SaveUser, At
      <4> QED
        BY <2>1, <4>1, <4>2 DEF SessionsTypeOK, Roles
    <3> QED
      BY <3>1, <3>2
  <2>3. req' \in [Proc -> Requests]
    <3>1. \/ GoTo(p, "failed") \/ req' = [req EXCEPT ![p].at = "merge", ![p].user = id]
      BY <1>2 DEF SaveUser
    <3> QED
      BY <3>1, <2>1, ServedIs
  <2> QED
    BY <1>2, <2>2, <2>3 DEF SaveUser, SessionsTypeOK
<1>3. CASE FindUser(p)
  <2>1. Accounts(req[p].email) \subseteq User
    BY DEF Accounts
  <2>2. \/ GoTo(p, "failed")
        \/ \E u \in User : req' = [req EXCEPT ![p].at = "merge", ![p].user = u]
    BY <1>3, <2>1 DEF FindUser
  <2>3. req' \in [Proc -> Requests]
    BY <2>2, ServedIs
  <2> QED
    BY <1>3, <2>3 DEF FindUser, server, SessionsTypeOK
<1>4. CASE MergeCart(p)
  <2>1. req' \in [Proc -> Requests]
    BY <1>4, ServedIs DEF MergeCart
  <2> QED
    BY <1>4, <2>1 DEF MergeCart, server, SessionsTypeOK
<1>5. CASE CreateSession(p)
  <2>1. PICK k \in Token \ minted :
           /\ minted' = minted \cup {k}
           /\ sessions' = [sessions EXCEPT ![k] = SessionOf(req[p].user)]
           /\ req' = [req EXCEPT ![p].at = "done", ![p].token = k]
    BY <1>5 DEF CreateSession
  <2>2. SessionOf(req[p].user) \in SessionData
    BY <1>5 DEF CreateSession, SessionOf, SessionData, SessionsTypeOK
  <2> QED
    BY <1>5, <2>1, <2>2, ServedIs DEF CreateSession, SessionsTypeOK
<1>6. CASE DropSession(p)
  BY <1>6, ServedIs DEF DropSession, At, SessionsTypeOK
<1>7. CASE ResolveSession(p)
  BY <1>7, ServedIs, SessionUserIs DEF ResolveSession, server, SessionsTypeOK
<1>8. CASE GuardSession(p)
  BY <1>8, ServedIs, SessionUserIs DEF GuardSession, server, SessionsTypeOK
<1>9. CASE GuardRole(p)
  BY <1>9, ServedIs DEF GuardRole, server, SessionsTypeOK
<1> QED
  BY <1>1, <1>2, <1>3, <1>4, <1>5, <1>6, <1>7, <1>8, <1>9 DEF ServeAccount

-----------------------------------------------------------------------------
(* Types.                                                                   *)

TabStep(t) ==
    \/ Reload(t) \/ Orphaned(t) \/ Mounted(t) \/ LoggedIn(t) \/ Logout(t) \/ LoggedOut(t)
    \/ Admin(t) \/ AdminAnswered(t) \/ PlaceOrder(t) \/ OrderPlaced(t)
    \/ GatewayReturns(t) \/ ConfirmEffect(t) \/ Confirmed(t)
    \/ \E kind \in {"login", "register"}, email \in Email : Submit(t, kind, email)

PageNames == {"shop", "checkout", "gateway", "confirming", "success", "error"}

LEMMA RequestTypes ==
    ASSUME SessionsTypeOK, NEW p \in Proc
    PROVE  /\ Forget(p) => req' \in [Proc -> Requests]
           /\ \A kind \in {"me", "login", "register", "logout", "admin", "order", "confirm"},
                 email \in Email \cup {None}, k \in Token \cup {None} :
                req' = [req EXCEPT ![p] = Asking(kind, email, k)] => req' \in [Proc -> Requests]
<1>1. Forget(p) => req' \in [Proc -> Requests]
  BY NoReqIs DEF Forget, SessionsTypeOK
<1>2. ASSUME NEW kind \in {"me", "login", "register", "logout", "admin", "order", "confirm"},
             NEW email \in Email \cup {None}, NEW k \in Token \cup {None},
             req' = [req EXCEPT ![p] = Asking(kind, email, k)]
      PROVE  req' \in [Proc -> Requests]
  <2>1. Asking(kind, email, k) \in Requests
    BY AskingIs
  <2> QED
    BY <1>2, <2>1 DEF SessionsTypeOK
<1> QED
  BY <1>1, <1>2

LEMMA ServerKept ==
    ASSUME SessionsTypeOK, UNCHANGED server, req' \in [Proc -> Requests]
    PROVE  SessionsTypeOK'
  BY DEF SessionsTypeOK, server

LEMMA LoadPageTypes ==
    ASSUME TypeOK, NEW t \in Tab, NEW there \in PageNames, LoadPage(t, there)
    PROVE  /\ req' \in [Proc -> Requests]
           /\ user' \in [Tab -> User \cup {None}] /\ loading' \in [Tab -> BOOLEAN]
           /\ page' \in [Tab -> PageNames] /\ called' \in [Tab -> BOOLEAN]
           /\ gone' \subseteq Tab /\ astray' \subseteq Tab /\ mixed' \subseteq Tab
<1>1. req' \in [Proc -> Requests]
  <2>1. CASE token = None
    BY <2>1, Processes, NoReqIs DEF LoadPage, TypeOK, SessionsTypeOK
  <2>2. CASE token # None
    BY <2>2, Processes, RequestTypes DEF LoadPage, TypeOK
  <2> QED
    BY <2>1, <2>2
<1>2. (token # None) \in BOOLEAN
  OBVIOUS
<1> QED
  BY <1>1, <1>2 DEF LoadPage, TypeOK, PageNames

LEMMA EndSessionTypes ==
    ASSUME TypeOK, NEW t \in Tab, EndSession(t)
    PROVE  /\ req' \in [Proc -> Requests]
           /\ user' \in [Tab -> User \cup {None}]
           /\ astray' \subseteq Tab /\ mixed' \subseteq Tab
<1>1. CASE token = None
  BY <1>1, Processes, RequestTypes DEF EndSession, TypeOK, Change
<1>2. CASE token # None
  BY <1>2, Processes, RequestTypes DEF EndSession, TypeOK
<1> QED
  BY <1>1, <1>2

LEMMA EventType == ASSUME TypeOK, Event \/ UNCHANGED events PROVE events' \in 0 .. MaxEvents
  BY StorefrontAssumption DEF TypeOK, Event

LEMMA TabTypes ==
    ASSUME TypeOK, NEW t \in Tab, TabStep(t)
    PROVE  TypeOK'
<1> USE Processes DEF PageNames
<1>0. SessionsTypeOK
  BY DEF TypeOK
<1>1. CASE Reload(t)
  <2>1. PICK there \in PageNames : LoadPage(t, there)
    BY <1>1 DEF Reload, TypeOK
  <2>2. SessionsTypeOK'
    BY <1>0, <1>1, <2>1, LoadPageTypes, ServerKept DEF Reload
  <2> QED
    BY <1>1, <2>1, <2>2, LoadPageTypes, EventType DEF Reload, TypeOK
<1>2. CASE Orphaned(t)
  <2>1. SessionsTypeOK'
    BY <1>0, <1>2, RequestTypes, ServerKept DEF Orphaned
  <2> QED
    BY <1>2, <2>1 DEF Orphaned, TypeOK, ghosts
<1>3. CASE Mounted(t)
  <2>1. SessionsTypeOK'
    BY <1>0, <1>3, RequestTypes, ServerKept DEF Mounted
  <2>2. req[Mount(t)].user \in User \cup {None}
    BY <1>0, RequestIs
  <2>3. /\ token' \in Token \cup {None} /\ user' \in [Tab -> User \cup {None}]
        /\ astray' \subseteq Tab /\ events' \in 0 .. MaxEvents
    BY <1>3, <2>2, EventType DEF Mounted, TypeOK
  <2> QED
    BY <1>3, <2>1, <2>3 DEF Mounted, TypeOK
<1>4. CASE LoggedIn(t)
  <2>1. SessionsTypeOK'
    BY <1>0, <1>4, RequestTypes, ServerKept DEF LoggedIn
  <2>2. /\ req[Page(t)].user \in User \cup {None}
        /\ req[Page(t)].token \in Token \cup {None}
    BY <1>0, RequestIs
  <2>3. /\ token' \in Token \cup {None} /\ user' \in [Tab -> User \cup {None}]
        /\ astray' \subseteq Tab /\ mixed' \subseteq Tab
    BY <1>4, <2>2, SMTT(20) DEF LoggedIn, TypeOK, Change
  <2>4. events' \in 0 .. MaxEvents
    BY <1>4, EventType DEF LoggedIn
  <2> QED
    BY <1>4, <2>1, <2>3, <2>4 DEF LoggedIn, TypeOK
<1>5. CASE Logout(t)
  <2>1. SessionsTypeOK'
    BY <1>0, <1>5, EndSessionTypes, ServerKept DEF Logout
  <2> QED
    BY <1>5, <2>1, EndSessionTypes, EventType DEF Logout, TypeOK
<1>6. CASE LoggedOut(t)
  <2>1. SessionsTypeOK'
    BY <1>0, <1>6, RequestTypes, ServerKept DEF LoggedOut
  <2>2. events' \in 0 .. MaxEvents /\ token' = None
    BY <1>6, EventType DEF LoggedOut, TokenAfter
  <2> QED
    BY <1>6, <2>1, <2>2 DEF LoggedOut, TypeOK, Change
<1>7. CASE Admin(t)
  <2>1. SessionsTypeOK'
    BY <1>0, <1>7, RequestTypes, ServerKept DEF Admin, Send, TypeOK
  <2> QED
    BY <1>7, <2>1, EventType DEF Admin, TypeOK, screen, ghosts
<1>8. CASE AdminAnswered(t)
  <2>1. /\ req' \in [Proc -> Requests] /\ user' \in [Tab -> User \cup {None}]
        /\ astray' \subseteq Tab /\ mixed' \subseteq Tab
    <3>1. CASE Forget(Page(t)) /\ UNCHANGED <<user, astray, mixed>>
      BY <1>0, <3>1, RequestTypes DEF TypeOK
    <3>2. CASE EndSession(t)
      BY <3>2, EndSessionTypes
    <3> QED
      BY <1>8, <3>1, <3>2 DEF AdminAnswered
  <2>2. SessionsTypeOK'
    BY <1>0, <1>8, <2>1, ServerKept DEF AdminAnswered
  <2>3. events' \in 0 .. MaxEvents
    BY <1>8, EventType DEF AdminAnswered
  <2> QED
    BY <1>8, <2>1, <2>2, <2>3 DEF AdminAnswered, TypeOK
<1>9. CASE PlaceOrder(t)
  <2>1. SessionsTypeOK'
    BY <1>0, <1>9, RequestTypes, ServerKept DEF PlaceOrder, Send, TypeOK
  <2>2. (t \in astray \/ ~Free(Mount(t))) \in BOOLEAN
    OBVIOUS
  <2>3. placing' \in [Tab -> [shown : User \cup {None}, astray : BOOLEAN]]
    BY <1>9, <2>2 DEF PlaceOrder, TypeOK
  <2> QED
    BY <1>9, <2>1, <2>3, EventType DEF PlaceOrder, TypeOK
<1>10. CASE OrderPlaced(t)
  <2>1. SessionsTypeOK'
    BY <1>0, <1>10, RequestTypes, ServerKept DEF OrderPlaced
  <2> QED
    BY <1>10, <2>1 DEF OrderPlaced, TypeOK, ghosts
<1>11. CASE GatewayReturns(t)
  <2>1. PICK there \in PageNames : LoadPage(t, there)
    BY <1>11 DEF GatewayReturns, TypeOK
  <2>2. SessionsTypeOK'
    BY <1>0, <1>11, <2>1, LoadPageTypes, ServerKept DEF GatewayReturns
  <2> QED
    BY <1>11, <2>1, <2>2, LoadPageTypes DEF GatewayReturns, TypeOK
<1>12. CASE ConfirmEffect(t)
  <2>1. SessionsTypeOK'
    BY <1>0, <1>12, RequestTypes, ServerKept DEF ConfirmEffect, Send
  <2> QED
    BY <1>12, <2>1 DEF ConfirmEffect, TypeOK, ghosts
<1>13. CASE Confirmed(t)
  <2>1. SessionsTypeOK'
    BY <1>0, <1>13, RequestTypes, ServerKept DEF Confirmed
  <2>2. events' \in 0 .. MaxEvents
    BY <1>13, EventType DEF Confirmed
  <2> QED
    BY <1>13, <2>1, <2>2 DEF Confirmed, TypeOK
<1>14. ASSUME NEW kind \in {"login", "register"}, NEW email \in Email, Submit(t, kind, email)
       PROVE  TypeOK'
  <2>1. SessionsTypeOK'
    BY <1>0, <1>14, RequestTypes, ServerKept DEF Submit, Send
  <2> QED
    BY <1>14, <2>1, EventType DEF Submit, TypeOK, screen, ghosts
<1> QED
  BY <1>1, <1>2, <1>3, <1>4, <1>5, <1>6, <1>7, <1>8, <1>9, <1>10, <1>11, <1>12, <1>13, <1>14
  DEF TabStep

\* What confirm does to the orders: one of them at most is captured, and paid when
\* the request succeeds.
LEMMA ConfirmedOrder ==
    ASSUME order \in [Order -> OrderRows], NEW p \in Proc, Confirm(p)
    PROVE  /\ order' \in [Order -> OrderRows]
           /\ \A b \in Order :
                \/ order'[b] = order[b]
                \/ /\ b = paying[p[1]] /\ order[b].status = "PENDING" /\ order'[b].charged
                   /\ \/ order'[b].status = "PENDING" /\ GoTo(p, "failed")
                      \/ order'[b].status = "PAID" /\ GoTo(p, "done")
                   /\ order'[b].owner = order[b].owner /\ order'[b].shown = order[b].shown
                   /\ order'[b].astray = order[b].astray
<1> DEFINE o == paying[p[1]]
<1>1. CASE UNCHANGED order
  BY <1>1
<1>2. CASE o \notin Order
  <2>1. UNCHANGED order
    BY <1>2 DEF Confirm
  <2> QED
    BY <1>1, <2>1
<1>3. ASSUME o \in Order, order[o].status = "PENDING",
             NEW status \in {"PENDING", "PAID"},
             order'[o] = [order[o] EXCEPT !.status = status, !.charged = TRUE],
             \A b \in Order \ {o} : order'[b] = order[b]
      PROVE  /\ order'[o] \in OrderRows
             /\ order'[o].charged /\ order'[o].status = status
             /\ order'[o].owner = order[o].owner /\ order'[o].shown = order[o].shown
             /\ order'[o].astray = order[o].astray
  <2>1. order[o] \in OrderRows
    BY <1>3
  <2> QED
    BY <1>3, <2>1 DEF OrderRows
<1>4. CASE /\ o \in Order /\ order[o].status = "PENDING" /\ GoTo(p, "failed")
           /\ order' = [order EXCEPT ![o].charged = TRUE]
  <2>1. order[o] \in OrderRows
    BY <1>4
  <2>2. order'[o] = [order[o] EXCEPT !.charged = TRUE]
    BY <1>4
  <2>3. order'[o] = [order[o] EXCEPT !.status = "PENDING", !.charged = TRUE]
    BY <1>4, <2>1, <2>2 DEF OrderRows
  <2>4. order' = [b \in Order |-> order'[b]] /\ \A b \in Order \ {o} : order'[b] = order[b]
    BY <1>4
  <2> QED
    BY <1>3, <1>4, <2>3, <2>4
<1>5. CASE /\ o \in Order /\ order[o].status = "PENDING" /\ GoTo(p, "done")
           /\ order' = [order EXCEPT ![o].status = "PAID", ![o].charged = TRUE]
  <2>1. order'[o] = [order[o] EXCEPT !.status = "PAID", !.charged = TRUE]
    BY <1>5
  <2>2. order' = [b \in Order |-> order'[b]] /\ \A b \in Order \ {o} : order'[b] = order[b]
    BY <1>5
  <2> QED
    BY <1>3, <1>5, <2>1, <2>2
<1> QED
  BY <1>1, <1>2, <1>4, <1>5 DEF Confirm

LEMMA ServedTypes ==
    ASSUME TypeOK, RequestsFit, NEW p \in Proc, Serve(p) \/ CreateOrder(p) \/ Confirm(p)
    PROVE  TypeOK'
<1>0. SessionsTypeOK /\ p[1] \in Tab
  BY StorefrontAssumption DEF TypeOK
<1>1. CASE Serve(p)
  <2>1. SessionsTypeOK'
    <3>1. RequestFits(p)
      BY DEF RequestsFit
    <3> QED
      BY <1>0, <1>1, <3>1, ServerTypes, RequestIs DEF RequestFits, Serve
  <2>2. placing' \in [Tab -> [shown : User \cup {None}, astray : BOOLEAN]]
    <3>1. CASE At(p, "logout", "start")
      <4>1. placing' = [t \in Tab |-> [placing[t] EXCEPT !.astray = @ \/ t # p[1]]]
        BY <1>1, <3>1 DEF Serve
      <4>2. ASSUME NEW t \in Tab
            PROVE  placing'[t] \in [shown : User \cup {None}, astray : BOOLEAN]
        <5>1. (placing[t].astray \/ t # p[1]) \in BOOLEAN
          OBVIOUS
        <5> QED
          BY <4>1, <5>1 DEF TypeOK
      <4> QED
        BY <4>1, <4>2
    <3> QED
      BY <1>1, <3>1 DEF Serve, TypeOK
  <2> QED
    BY <1>1, <2>1, <2>2 DEF Serve, TypeOK, screen
<1>2. CASE CreateOrder(p)
  <2>1. req' \in [Proc -> Requests]
    BY <1>0, <1>2, ServedIs, Constants DEF CreateOrder
  <2>2. order' \in [Order -> OrderRows]
    <3>1. CASE order' = order
      BY <3>1 DEF TypeOK
    <3>2. CASE \E o \in Order :
                 order' = [order EXCEPT ![o] =
                            [status |-> "PENDING", charged |-> FALSE, owner |-> SessionUser(req[p].token),
                             shown |-> placing[p[1]].shown, astray |-> placing[p[1]].astray]]
      <4>1. SessionUser(req[p].token) \in User \cup {None}
        BY <1>0, SessionUserIs, RequestIs
      <4>2. [status |-> "PENDING", charged |-> FALSE, owner |-> SessionUser(req[p].token),
             shown |-> placing[p[1]].shown, astray |-> placing[p[1]].astray] \in OrderRows
        BY <1>0, <4>1 DEF TypeOK, OrderRows
      <4> QED
        BY <3>2, <4>2 DEF TypeOK
    <3> QED
      BY <1>2, <3>1, <3>2 DEF CreateOrder
  <2>3. paying' \in [Tab -> Order \cup {None}]
    BY <1>0, <1>2 DEF CreateOrder, TypeOK
  <2>4. SessionsTypeOK'
    BY <1>0, <1>2, <2>1, ServerKept DEF CreateOrder
  <2> QED
    BY <1>2, <2>2, <2>3, <2>4 DEF CreateOrder, TypeOK, ghosts
<1>3. CASE Confirm(p)
  <2>1. req' \in [Proc -> Requests]
    BY <1>0, <1>3, ServedIs, Constants DEF Confirm
  <2>2. SessionsTypeOK'
    BY <1>0, <1>3, <2>1, ServerKept DEF Confirm
  <2>3. order' \in [Order -> OrderRows]
    BY <1>3, ConfirmedOrder DEF TypeOK
  <2> QED
    BY <1>3, <2>2, <2>3 DEF Confirm, TypeOK, screen, ghosts
<1> QED
  BY <1>1, <1>2, <1>3

LEMMA OtherTypes ==
    ASSUME TypeOK,
           \/ \E o \in Order : ExpireOrder(o)
           \/ \E k \in Token : Ends(k)
           \/ \E u \in User : Demote(u)
    PROVE  TypeOK'
<1>1. ASSUME NEW o \in Order, ExpireOrder(o) PROVE TypeOK'
  <2>1. SessionsTypeOK'
    BY <1>1 DEF ExpireOrder, TypeOK, server, SessionsTypeOK
  <2>2. order' \in [Order -> OrderRows]
    <3>1. order[o] \in OrderRows
      BY DEF TypeOK
    <3>2. [order[o] EXCEPT !.status = "EXPIRED"] \in OrderRows
      BY <3>1 DEF OrderRows
    <3> QED
      BY <1>1, <3>2 DEF ExpireOrder, TypeOK
  <2> QED
    BY <1>1, <2>1, <2>2, EventType DEF ExpireOrder, TypeOK, screen, ghosts
<1>2. ASSUME NEW k \in Token, Ends(k) PROVE TypeOK'
  <2>1. SessionsTypeOK'
    BY <1>2 DEF Ends, ExpireSession, TypeOK, SessionsTypeOK
  <2>2. placing' \in [Tab -> [shown : User \cup {None}, astray : BOOLEAN]]
    BY <1>2 DEF Ends, TypeOK
  <2> QED
    BY <1>2, <2>1, <2>2, EventType DEF Ends, TypeOK, screen
<1>3. ASSUME NEW u \in User, Demote(u) PROVE TypeOK'
  <2>1. SessionsTypeOK'
    <3>1. users' \in [User -> [email : Email \cup {None}, role : Roles]]
      BY <1>3 DEF Demote, Revoke, TypeOK, SessionsTypeOK, Roles
    <3> QED
      BY <1>3, <3>1 DEF Demote, Revoke, TypeOK, SessionsTypeOK
  <2> QED
    BY <1>3, <2>1, EventType DEF Demote, TypeOK, screen, ghosts
<1> QED
  BY <1>1, <1>2, <1>3

LEMMA NextTypes == ASSUME TypeOK, RequestsFit, Next PROVE TypeOK'
  BY TabTypes, ServedTypes, OtherTypes DEF Next, TabStep

LEMMA InitTypes == ASSUME Init PROVE TypeOK
<1>1. users \in [User -> [email : Email \cup {None}, role : Roles]]
  BY SessionsAssumption DEF Init, SessionsInit, Roles, NoUser
<1>2. SessionsTypeOK
  BY <1>1, NoReqIs DEF Init, SessionsInit, SessionsTypeOK
<1>3. order \in [Order -> OrderRows]
  BY DEF Init, OrderRows, NoOrder
<1> QED
  BY <1>2, <1>3, StorefrontAssumption DEF Init, TypeOK

-----------------------------------------------------------------------------
(* Accounts, sessions and requests.                                         *)

\* What the server has made stays: a token is never anybody else's, and nobody
\* becomes an administrator.
ServerMoves ==
    /\ minted \subseteq minted'
    /\ \A k \in Token : sessions'[k] = sessions[k] \/ sessions'[k] = None \/ k \notin minted
    /\ \A u \in User : users'[u].role = "admin" => users[u].role = "admin"

LEMMA ServerStays == ASSUME UNCHANGED server PROVE ServerMoves
  BY DEF server, ServerMoves

LEMMA TabsKeepServer == ASSUME NEW t \in Tab, TabStep(t) PROVE UNCHANGED server
  BY DEF TabStep, Reload, Orphaned, Mounted, LoggedIn, Logout, LoggedOut, Admin, AdminAnswered,
         PlaceOrder, OrderPlaced, GatewayReturns, ConfirmEffect, Confirmed, Submit, server

LEMMA ServeMoves ==
    ASSUME SessionsTypeOK, NEW p \in Proc, ServeAccount(p), req[p].kind = "logout" => req[p].token \in Token
    PROVE  ServerMoves
<1>1. CASE SaveUser(p)
  <2> DEFINE id == CHOOSE u \in User : users[u] = NoUser
  <2>1. id \in User
    BY <1>1 DEF SaveUser
  <2>2. users' = users \/ users' = [users EXCEPT ![id] = [email |-> req[p].email, role |-> "user"]]
    BY <1>1 DEF SaveUser
  <2> HIDE DEF id
  <2>3. \A u \in User : users'[u].role = "admin" => users[u].role = "admin"
    BY <2>1, <2>2 DEF SessionsTypeOK
  <2> QED
    BY <1>1, <2>3 DEF SaveUser, ServerMoves
<1>2. CASE CreateSession(p)
  BY <1>2 DEF CreateSession, SessionsTypeOK, ServerMoves
<1>3. CASE DropSession(p)
  BY <1>3 DEF DropSession, At, SessionsTypeOK, ServerMoves
<1>4. CASE UNCHANGED server
  BY <1>4, ServerStays
<1> QED
  BY <1>1, <1>2, <1>3, <1>4
  DEF ServeAccount, FindEmail, FindUser, MergeCart, ResolveSession, GuardSession, GuardRole

LEMMA NextMoves == ASSUME TypeOK, RequestsFit, Next PROVE ServerMoves
<1>1. ASSUME NEW t \in Tab, TabStep(t) PROVE ServerMoves
  BY <1>1, TabsKeepServer, ServerStays
<1>2. ASSUME NEW p \in Proc, Serve(p) PROVE ServerMoves
  BY <1>2, ServeMoves DEF Serve, TypeOK, RequestsFit, RequestFits
<1>3. ASSUME NEW p \in Proc, CreateOrder(p) \/ Confirm(p) PROVE ServerMoves
  BY <1>3, ServerStays DEF CreateOrder, Confirm
<1>4. ASSUME NEW o \in Order, ExpireOrder(o) PROVE ServerMoves
  BY <1>4, ServerStays DEF ExpireOrder
<1>5. ASSUME NEW k \in Token, Ends(k) PROVE ServerMoves
  BY <1>5 DEF Ends, ExpireSession, TypeOK, SessionsTypeOK, ServerMoves
<1>6. ASSUME NEW u \in User, Demote(u) PROVE ServerMoves
  BY <1>6 DEF Demote, Revoke, TypeOK, SessionsTypeOK, ServerMoves
<1> QED
  BY <1>1, <1>2, <1>3, <1>4, <1>5, <1>6 DEF Next, TabStep

\* A session is its account's until it ends.
LEMMA SessionUserMoves ==
    ASSUME ServerMoves, NEW k \in minted \cup {None}, minted \subseteq Token
    PROVE  SessionUser(k)' = SessionUser(k) \/ SessionUser(k)' = None
  BY DEF ServerMoves, SessionUser

LEMMA DeniedStays ==
    ASSUME SessionsTypeOK, ServerMoves, NEW r \in Requests, r.token \in minted \cup {None}, Denied(r)
    PROVE  Denied(r)'
<1> DEFINE u == SessionUser(r.token)
<1>1. u' = u \/ u' = None
  BY SessionUserMoves DEF SessionsTypeOK
<1>2. u \in User \cup {None}
  BY SessionUserIs DEF Requests
<1> QED
  BY <1>1, <1>2 DEF Denied, ServerMoves

LEMMA RequestKept ==
    ASSUME SessionsTypeOK, ServerMoves, NEW p \in Proc, RequestFits(p), req'[p] = req[p]
    PROVE  RequestFits(p)'
<1> DEFINE r == req[p]
<1>0. r \in Requests /\ r.token \in minted \cup {None} /\ minted \subseteq Token
  BY RequestIs DEF RequestFits, SessionsTypeOK
<1>1. r.token \in minted' \cup {None}
  BY <1>0 DEF ServerMoves
<1>2. r.kind \in {"login", "register"} /\ r.at = "done" /\ sessions'[r.token] # None
      => sessions'[r.token].user = r.user
  BY <1>0, Constants DEF RequestFits, ServerMoves
<1>3. ASSUME r.kind = "admin", r.denied
      PROVE  /\ r.at = "start" => Denied(r)'
             /\ r.at = "role" => users'[r.user].role # "admin"
             /\ r.at # "done"
  BY <1>0, <1>3, DeniedStays DEF RequestFits, ServerMoves
<1> QED
  BY <1>1, <1>2, <1>3 DEF RequestFits, Denied, SessionUser

\* What a page sends: about the token it keeps, or with an email.
AskFits(p, kind, email, k) ==
    /\ kind \in {"me", "login", "register", "logout", "admin", "order", "confirm"}
    /\ email \in Email \cup {None}
    /\ kind \in {"login", "register"} => email \in Email
    /\ k \in minted \cup {None}
    /\ kind \in {"logout", "me"} => k \in Token
    /\ IF p[2] = "mount" THEN kind = "me" ELSE kind # "me"

LEMMA RequestAsked ==
    ASSUME SessionsTypeOK, UNCHANGED server, NEW p \in Proc, NEW kind, NEW email, NEW k,
           AskFits(p, kind, email, k), req'[p] = Asking(kind, email, k)
    PROVE  RequestFits(p)'
<1> DEFINE r == Asking(kind, email, k)
<1>1. k \in Token \cup {None}
  BY DEF AskFits, SessionsTypeOK
<1>2. /\ r.kind = kind /\ r.at = "start" /\ r.email = email /\ r.token = k /\ r.user = None
      /\ r.denied <=> Denied(r)
  BY <1>1, AskingIs DEF AskFits, Denied
<1>3. Denied(r)' <=> Denied(r)
  BY DEF Denied, SessionUser, server, Asking
<1> QED
  BY <1>2, <1>3 DEF RequestFits, AskFits, server, Denied, SessionUser

LEMMA RequestGone == ASSUME NEW p \in Proc, req'[p] = NoReq PROVE RequestFits(p)'
  BY Constants DEF RequestFits, NoReq

\* Each request is as it was, is forgotten, or has been sent anew.
LEMMA TabRequests ==
    ASSUME TypeOK, AccountsFit, RequestsFit, NEW t \in Tab, TabStep(t), NEW p \in Proc
    PROVE  \/ req'[p] = req[p] \/ req'[p] = NoReq
           \/ \E kind, email, k : AskFits(p, kind, email, k) /\ req'[p] = Asking(kind, email, k)
<1> USE Processes DEF AccountsFit
<1>0. /\ req \in [Proc -> Requests] /\ Mount(t)[2] = "mount" /\ Page(t)[2] = "page"
      /\ minted \subseteq Token
  BY DEF TypeOK, SessionsTypeOK, Mount, Page
<1>1. ASSUME NEW q \in Proc, Forget(q) PROVE req'[p] = req[p] \/ req'[p] = NoReq
  BY <1>0, <1>1 DEF Forget
<1>2. ASSUME NEW there, LoadPage(t, there)
      PROVE  \/ req'[p] = req[p] \/ req'[p] = NoReq
             \/ AskFits(p, "me", None, token) /\ req'[p] = Asking("me", None, token)
  <2>1. CASE p = Mount(t)
    BY <1>0, <1>2, <2>1 DEF LoadPage, AskFits
  <2>2. CASE p # Mount(t)
    BY <1>0, <1>2, <2>2 DEF LoadPage
  <2> QED
    BY <2>1, <2>2
<1>3. ASSUME EndSession(t)
      PROVE  \/ req'[p] = req[p] \/ req'[p] = NoReq
             \/ AskFits(p, "logout", None, token) /\ req'[p] = Asking("logout", None, token)
  <2>1. CASE token = None
    BY <1>3, <2>1, <1>1 DEF EndSession
  <2>2. CASE token # None /\ p = Page(t)
    BY <1>0, <1>3, <2>2 DEF EndSession, AskFits
  <2>3. CASE token # None /\ p # Page(t)
    BY <1>0, <1>3, <2>3 DEF EndSession
  <2> QED
    BY <2>1, <2>2, <2>3
<1>4. ASSUME NEW kind, NEW email, NEW k, Send(Page(t), kind, email, k),
             AskFits(Page(t), kind, email, k)
      PROVE  \/ req'[p] = req[p]
             \/ AskFits(p, kind, email, k) /\ req'[p] = Asking(kind, email, k)
  <2>1. CASE p = Page(t)
    BY <1>0, <1>4, <2>1 DEF Send
  <2>2. CASE p # Page(t)
    BY <1>0, <1>4, <2>2 DEF Send
  <2> QED
    BY <2>1, <2>2
<1>5. CASE Reload(t) \/ GatewayReturns(t)
  BY <1>2, <1>5 DEF Reload, GatewayReturns
<1>6. CASE \/ Orphaned(t) \/ Mounted(t) \/ LoggedIn(t) \/ LoggedOut(t) \/ OrderPlaced(t)
           \/ Confirmed(t)
  BY <1>1, <1>6 DEF Orphaned, Mounted, LoggedIn, LoggedOut, OrderPlaced, Confirmed
<1>7. CASE Logout(t) \/ AdminAnswered(t)
  BY <1>1, <1>3, <1>7 DEF Logout, AdminAnswered
<1>8. CASE Admin(t)
  <2>1. AskFits(Page(t), "admin", None, token) /\ Send(Page(t), "admin", None, token)
    BY <1>0, <1>8 DEF Admin, AskFits
  <2> QED
    BY <1>4, <2>1
<1>9. CASE PlaceOrder(t)
  <2>1. AskFits(Page(t), "order", None, token) /\ Send(Page(t), "order", None, token)
    BY <1>0, <1>9 DEF PlaceOrder, AskFits
  <2> QED
    BY <1>4, <2>1
<1>10. CASE ConfirmEffect(t)
  <2>1. AskFits(Page(t), "confirm", None, None) /\ Send(Page(t), "confirm", None, None)
    BY <1>0, <1>10 DEF ConfirmEffect, AskFits
  <2> QED
    BY <1>4, <2>1
<1>11. ASSUME NEW kind \in {"login", "register"}, NEW email \in Email, Submit(t, kind, email)
       PROVE  \/ req'[p] = req[p]
              \/ AskFits(p, kind, email, None) /\ req'[p] = Asking(kind, email, None)
  <2>1. AskFits(Page(t), kind, email, None) /\ Send(Page(t), kind, email, None)
    BY <1>0, <1>11 DEF Submit, AskFits
  <2> QED
    BY <1>4, <2>1
<1> QED
  BY <1>5, <1>6, <1>7, <1>8, <1>9, <1>10, <1>11 DEF TabStep

\* The step of the server on a request p leaves the others alone, and p fits.
LEMMA ServedFits ==
    ASSUME SessionsTypeOK, AccountsFit, ServerMoves, NEW p \in Proc, RequestFits(p), ServeAccount(p)
    PROVE  RequestFits(p)' /\ \A q \in Proc \ {p} : req'[q] = req[q]
<1> DEFINE r == req[p]
<1> USE Constants, RequestIs
<1>0. /\ r \in Requests /\ req \in [Proc -> Requests] /\ minted \subseteq Token
      /\ r.token \in minted \cup {None}
  BY DEF SessionsTypeOK, RequestFits
<1>1. CASE FindEmail(p)
  BY <1>0, <1>1 DEF FindEmail, At, GoTo, RequestFits, server, Requests
<1>2. CASE SaveUser(p)
  <2> DEFINE id == CHOOSE u \in User : users[u] = NoUser
  <2>1. id \in User
    BY <1>2 DEF SaveUser
  <2>2. \/ GoTo(p, "failed")
        \/ req' = [req EXCEPT ![p].at = "merge", ![p].user = id]
    BY <1>2 DEF SaveUser
  <2>3. At(p, "register", "insert") /\ UNCHANGED <<sessions, minted>>
    BY <1>2 DEF SaveUser
  <2> HIDE DEF id
  <2> QED
    BY <1>0, <2>1, <2>2, <2>3 DEF At, GoTo, RequestFits, Requests
<1>3. CASE FindUser(p)
  <2>1. \/ GoTo(p, "failed")
        \/ \E u \in User : req' = [req EXCEPT ![p].at = "merge", ![p].user = u]
    BY <1>3 DEF FindUser, Accounts
  <2> QED
    BY <1>0, <1>3, <2>1 DEF FindUser, At, GoTo, RequestFits, server, Requests
<1>4. CASE MergeCart(p)
  BY <1>0, <1>4 DEF MergeCart, GoTo, RequestFits, server, Requests
<1>5. CASE CreateSession(p)
  <2>1. PICK k \in Token \ minted :
           /\ minted' = minted \cup {k}
           /\ sessions' = [sessions EXCEPT ![k] = SessionOf(req[p].user)]
           /\ req' = [req EXCEPT ![p].at = "done", ![p].token = k]
    BY <1>5 DEF CreateSession
  <2>2. r.kind \in {"login", "register"} /\ r.user \in User
    BY <1>5 DEF CreateSession, RequestFits
  <2>3. sessions'[k].user = r.user
    BY <2>1 DEF SessionOf, SessionsTypeOK
  <2> QED
    BY <1>0, <2>1, <2>2, <2>3 DEF RequestFits, Requests
<1>6. CASE DropSession(p)
  BY <1>0, <1>6 DEF DropSession, At, GoTo, RequestFits, Requests
<1>7. CASE ResolveSession(p)
  <2>1. SessionUser(r.token) \in User \cup {None}
    BY <1>0, SessionUserIs
  <2> QED
    BY <1>0, <1>7, <2>1 DEF ResolveSession, At, RequestFits, server, Requests
<1>8. CASE GuardSession(p)
  <2>1. SessionUser(r.token) \in User \cup {None}
    BY <1>0, SessionUserIs
  <2> QED
    BY <1>0, <1>8, <2>1 DEF GuardSession, At, RequestFits, server, Requests, Denied
<1>9. CASE GuardRole(p)
  BY <1>0, <1>9 DEF GuardRole, RoleOf, At, GoTo, RequestFits, server, Requests
<1> QED
  BY <1>1, <1>2, <1>3, <1>4, <1>5, <1>6, <1>7, <1>8, <1>9 DEF ServeAccount

LEMMA PlacedRequests ==
    ASSUME TypeOK, RequestsFit, NEW p \in Proc, CreateOrder(p) \/ Confirm(p)
    PROVE  RequestFits(p)' /\ \A q \in Proc \ {p} : req'[q] = req[q]
<1> USE Constants
<1>0. RequestFits(p) /\ req \in [Proc -> Requests] /\ req[p] \in Requests
  BY RequestIs DEF RequestsFit, TypeOK, SessionsTypeOK
<1>1. /\ req[p].at = "start" /\ req[p].kind \in {"order", "confirm"} /\ UNCHANGED server
      /\ GoTo(p, "done") \/ GoTo(p, "failed")
  BY DEF CreateOrder, Confirm, At
<1> QED
  BY <1>0, <1>1 DEF GoTo, RequestFits, Requests, server

LEMMA RequestsStayFit ==
    ASSUME TypeOK, AccountsFit, RequestsFit, Next
    PROVE  RequestsFit'
<1>0. SessionsTypeOK /\ ServerMoves
  BY NextMoves DEF TypeOK
<1>1. ASSUME NEW t \in Tab, TabStep(t), NEW p \in Proc PROVE RequestFits(p)'
  <2>1. CASE req'[p] = req[p]
    BY <1>0, <2>1, RequestKept DEF RequestsFit
  <2>2. CASE req'[p] = NoReq
    BY <2>2, RequestGone
  <2>3. ASSUME NEW kind, NEW email, NEW k, AskFits(p, kind, email, k),
               req'[p] = Asking(kind, email, k)
        PROVE  RequestFits(p)'
    BY <1>0, <1>1, <2>3, TabsKeepServer, RequestAsked
  <2> QED
    BY <1>1, <2>1, <2>2, <2>3, TabRequests
<1>2. ASSUME NEW q \in Proc, Serve(q) \/ CreateOrder(q) \/ Confirm(q), NEW p \in Proc
      PROVE  RequestFits(p)'
  <2>1. RequestFits(q)' /\ \A x \in Proc \ {q} : req'[x] = req[x]
    BY <1>0, <1>2, ServedFits, PlacedRequests DEF RequestsFit, Serve
  <2> QED
    BY <1>0, <2>1, RequestKept DEF RequestsFit
<1>3. ASSUME UNCHANGED req, NEW p \in Proc PROVE RequestFits(p)'
  BY <1>0, <1>3, RequestKept DEF RequestsFit
<1>4. ASSUME \/ \E o \in Order : ExpireOrder(o)
             \/ \E k \in Token : Ends(k)
             \/ \E u \in User : Demote(u)
      PROVE  UNCHANGED req
  BY <1>4 DEF ExpireOrder, Ends, ExpireSession, Demote, Revoke
<1> QED
  BY <1>1, <1>2, <1>3, <1>4 DEF Next, TabStep, RequestsFit

\* An account is made where the constraint on the email allows it.
LEMMA SavedOnce ==
    ASSUME SessionsTypeOK, OneAccount, NEW p \in Proc, SaveUser(p), req[p].email \in Email,
           \A u \in User : users[u] # NoUser => users[u].email \in Email
    PROVE  OneAccount' /\ \A u \in User : users'[u] # NoUser => users'[u].email \in Email
<1> DEFINE id == CHOOSE u \in User : users[u] = NoUser
<1>1. id \in User /\ users[id] = NoUser
  BY DEF SaveUser
<1>2. CASE UNCHANGED users
  BY <1>2 DEF OneAccount
<1>3. CASE /\ Accounts(req[p].email) = {}
           /\ users' = [users EXCEPT ![id] = [email |-> req[p].email, role |-> "user"]]
  <2> HIDE DEF id
  <2>1. \A u \in User : users[u].email # req[p].email
    BY <1>3 DEF Accounts
  <2>2. /\ users'[id] = [email |-> req[p].email, role |-> "user"]
        /\ \A u \in User \ {id} : users'[u] = users[u]
    BY <1>1, <1>3 DEF SessionsTypeOK
  <2> QED
    BY <1>1, <2>1, <2>2 DEF OneAccount
<1> QED
  BY <1>2, <1>3 DEF SaveUser, EmailTaken

LEMMA AccountsStayFit ==
    ASSUME TypeOK, AccountsFit, RequestsFit, Next
    PROVE  AccountsFit'
<1>0. SessionsTypeOK /\ ServerMoves
  BY NextMoves DEF TypeOK
<1>1. ASSUME NEW t \in Tab, TabStep(t) PROVE AccountsFit'
  <2>1. UNCHANGED server
    BY <1>1, TabsKeepServer
  <2>2. token' \in minted \cup {None}
    <3>1. UNCHANGED token \/ token' = None \/ token' = req[Page(t)].token
      BY <1>1 DEF TabStep, Reload, Orphaned, Mounted, LoggedIn, Logout, LoggedOut, TokenAfter,
             Admin, AdminAnswered, PlaceOrder, OrderPlaced, GatewayReturns, ConfirmEffect,
             Confirmed, Submit, screen
    <3> QED
      BY <3>1, Processes DEF AccountsFit, RequestsFit, RequestFits
  <2> QED
    BY <2>1, <2>2 DEF AccountsFit, OneAccount, server
<1>2. ASSUME UNCHANGED <<server, token>> PROVE AccountsFit'
  BY <1>2 DEF AccountsFit, OneAccount, server
<1>3. ASSUME NEW p \in Proc, Serve(p) PROVE AccountsFit'
  <2>1. UNCHANGED token /\ RequestFits(p) /\ req[p] \in Requests
    BY <1>0, <1>3, RequestIs DEF Serve, screen, RequestsFit
  <2>2. CASE SaveUser(p)
    <3>1. req[p].email \in Email
      BY <2>1, <2>2 DEF SaveUser, At, RequestFits
    <3> QED
      BY <1>0, <2>1, <2>2, <3>1, SavedOnce DEF SaveUser, AccountsFit
  <2>3. CASE CreateSession(p)
    BY <1>0, <2>1, <2>3 DEF CreateSession, AccountsFit, OneAccount, SessionsTypeOK
  <2>4. CASE DropSession(p)
    BY <1>0, <2>1, <2>4 DEF DropSession, At, RequestFits, AccountsFit, OneAccount, SessionsTypeOK
  <2>5. CASE UNCHANGED server
    BY <1>2, <2>1, <2>5
  <2> QED
    BY <1>3, <2>2, <2>3, <2>4, <2>5
    DEF Serve, ServeAccount, FindEmail, FindUser, MergeCart, ResolveSession, GuardSession, GuardRole
<1>4. ASSUME NEW p \in Proc, CreateOrder(p) \/ Confirm(p) PROVE AccountsFit'
  BY <1>2, <1>4 DEF CreateOrder, Confirm, screen
<1>5. ASSUME NEW o \in Order, ExpireOrder(o) PROVE AccountsFit'
  BY <1>2, <1>5 DEF ExpireOrder, screen
<1>6. ASSUME NEW k \in Token, Ends(k) PROVE AccountsFit'
  BY <1>0, <1>6 DEF Ends, ExpireSession, screen, AccountsFit, OneAccount, SessionsTypeOK
<1>7. ASSUME NEW u \in User, Demote(u) PROVE AccountsFit'
  BY <1>0, <1>7 DEF Demote, Revoke, screen, AccountsFit, OneAccount, SessionsTypeOK, NoUser
<1> QED
  BY <1>1, <1>3, <1>4, <1>5, <1>6, <1>7 DEF Next, TabStep

LEMMA InitFits == ASSUME Init PROVE AccountsFit /\ RequestsFit
<1>1. AccountsFit
  BY SessionsAssumption DEF Init, SessionsInit, AccountsFit, OneAccount, NoUser
<1>2. RequestsFit
  BY Constants DEF Init, SessionsInit, RequestsFit, RequestFits, NoReq
<1> QED
  BY <1>1, <1>2

-----------------------------------------------------------------------------
\* The part of the invariant that is about the server.
ServerInv == TypeOK /\ AccountsFit /\ RequestsFit

LEMMA ServerNext == ASSUME ServerInv, [Next]_vars PROVE ServerInv'
<1>1. CASE Next
  BY <1>1, NextTypes, RequestsStayFit, AccountsStayFit DEF ServerInv
<1>2. CASE UNCHANGED vars
  BY <1>2 DEF vars, server, screen, ghosts, ServerInv, TypeOK, SessionsTypeOK, AccountsFit,
     OneAccount, RequestsFit, RequestFits, Denied, SessionUser
<1> QED
  BY <1>1, <1>2

\* The columns of the accounts, the keys of the sessions and what each tab keeps
\* have the values the code gives them, in every state the browser and the server reach.
THEOREM StorefrontTypes == Spec => []TypeOK
<1>1. Init => ServerInv
  BY InitTypes, InitFits DEF ServerInv
<1>2. ServerInv /\ [Next]_vars => ServerInv'
  BY ServerNext
<1>3. ServerInv => TypeOK
  BY DEF ServerInv
<1> QED
  BY <1>1, <1>2, <1>3, PTL DEF Spec

\* register looks an email up, hashes, and inserts later: the UNIQUE column keeps two
\* requests that both found nothing from making two accounts.
THEOREM AccountsStayUnique == Spec => []OneAccount
<1>1. Init => ServerInv
  BY InitTypes, InitFits DEF ServerInv
<1>2. ServerInv /\ [Next]_vars => ServerInv'
  BY ServerNext
<1>3. ServerInv => OneAccount
  BY DEF ServerInv, AccountsFit
<1> QED
  BY <1>1, <1>2, <1>3, PTL DEF Spec

\* AdminGuard reads the role of the account at each request: an administrator who had
\* been demoted or logged out when the request was sent is never let in, whatever role the
\* session still holds.
THEOREM DemotedAreRefused == Spec => []RightsEnd
<1>1. Init => ServerInv
  BY InitTypes, InitFits DEF ServerInv
<1>2. ServerInv /\ [Next]_vars => ServerInv'
  BY ServerNext
<1>3. ServerInv => RightsEnd
  BY DEF ServerInv, RequestsFit, RequestFits, RightsEnd, At
<1> QED
  BY <1>1, <1>2, <1>3, PTL DEF Spec

-----------------------------------------------------------------------------
(* What the result page says.                                               *)

\* A tab's requests and what it shows are its own.
LEMMA OtherTabs ==
    ASSUME TypeOK, NEW s \in Tab, TabStep(s), NEW t \in Tab \ {s}
    PROVE  /\ req'[Mount(t)] = req[Mount(t)] /\ req'[Page(t)] = req[Page(t)]
           /\ user'[t] = user[t] /\ page'[t] = page[t] /\ paying'[t] = paying[t]
           /\ placing'[t] = placing[t]
           /\ loading'[t] <=> loading[t]
           /\ called'[t] <=> called[t]
           /\ t \in gone' <=> t \in gone
           /\ t \in repeated' <=> t \in repeated
           /\ UNCHANGED <<paying, order>>
<1>0. /\ Mount(s) \in Proc /\ Page(s) \in Proc /\ Mount(t) \in Proc /\ Page(t) \in Proc
      /\ Mount(t) \notin {Mount(s), Page(s)} /\ Page(t) \notin {Mount(s), Page(s)}
      /\ req \in [Proc -> Requests]
  BY Processes DEF Mount, Page, TypeOK, SessionsTypeOK
<1>1. UNCHANGED <<paying, order>>
  BY DEF TabStep, Reload, Orphaned, Mounted, LoggedIn, Logout, LoggedOut, Admin, AdminAnswered,
         PlaceOrder, OrderPlaced, GatewayReturns, ConfirmEffect, Confirmed, Submit, screen
<1>2. req'[Mount(t)] = req[Mount(t)] /\ req'[Page(t)] = req[Page(t)]
  BY <1>0 DEF TabStep, Reload, Orphaned, Mounted, LoggedIn, Logout, LoggedOut, Admin,
         AdminAnswered, PlaceOrder, OrderPlaced, GatewayReturns, ConfirmEffect, Confirmed, Submit,
         LoadPage, EndSession, Send, Forget
<1>3. user'[t] = user[t] /\ page'[t] = page[t] /\ placing'[t] = placing[t]
  BY DEF TypeOK, TabStep, Reload, Orphaned, Mounted, LoggedIn, Logout, LoggedOut, Admin,
         AdminAnswered, PlaceOrder, OrderPlaced, GatewayReturns, ConfirmEffect, Confirmed, Submit,
         LoadPage, EndSession, screen, ghosts
<1>4. /\ t \in gone' <=> t \in gone
      /\ t \in repeated' <=> t \in repeated
  BY DEF TabStep, Reload, Orphaned, Mounted, LoggedIn, Logout, LoggedOut, Admin,
         AdminAnswered, PlaceOrder, OrderPlaced, GatewayReturns, ConfirmEffect, Confirmed, Submit,
         LoadPage, screen, ghosts
<1>5. /\ \/ UNCHANGED loading
         \/ \E b \in BOOLEAN : loading' = [loading EXCEPT ![s] = b]
      /\ \/ UNCHANGED called
         \/ \E b \in BOOLEAN : called' = [called EXCEPT ![s] = b]
  BY DEF TabStep, Reload, Orphaned, Mounted, LoggedIn, Logout, LoggedOut, Admin,
         AdminAnswered, PlaceOrder, OrderPlaced, GatewayReturns, ConfirmEffect, Confirmed, Submit,
         LoadPage, screen
<1>6. loading'[t] <=> loading[t]
  BY <1>5, Zenon DEF TypeOK
<1>7. called'[t] <=> called[t]
  BY <1>5, Zenon DEF TypeOK
<1> QED
  BY <1>1, <1>2, <1>3, <1>4, <1>6, <1>7

\* What happens elsewhere does not disturb a page, as long as its order is not paid there.
LEMMA PageKept ==
    ASSUME NEW t \in Tab, PageFits(t),
           req'[Page(t)] = req[Page(t)], page'[t] = page[t], paying'[t] = paying[t],
           called'[t] <=> called[t], t \in gone' <=> t \in gone,
           t \in repeated' <=> t \in repeated,
           paying[t] # None =>
             /\ order'[paying[t]].status = "PAID" <=> order[paying[t]].status = "PAID"
             /\ order'[paying[t]].status # "none",
           None \notin Order, paying[t] \in Order \cup {None}
    PROVE  PageFits(t)'
  BY DEF PageFits, Paid, Free

LEMMA OwnPage ==
    ASSUME ServerInv, NEW t \in Tab, PageFits(t), TabStep(t)
    PROVE  PageFits(t)'
<1> DEFINE r == req[Page(t)]
<1> USE Constants, Processes
<1>0. /\ req \in [Proc -> Requests] /\ r \in Requests /\ RequestFits(Page(t))
      /\ Page(t)[2] = "page"
      /\ paying[t] \in Order \cup {None}
      /\ page \in [Tab -> PageNames] /\ called \in [Tab -> BOOLEAN]
  BY RequestIs DEF ServerInv, TypeOK, SessionsTypeOK, RequestsFit, Page, PageNames
<1>1. UNCHANGED <<paying, order>>
  BY DEF TabStep, Reload, Orphaned, Mounted, LoggedIn, Logout, LoggedOut, Admin, AdminAnswered,
         PlaceOrder, OrderPlaced, GatewayReturns, ConfirmEffect, Confirmed, Submit, screen
<1>2. ASSUME NEW there, LoadPage(t, there)
      PROVE  /\ req'[Page(t)] = r /\ page'[t] = there /\ ~called'[t]
             /\ Free(Page(t)) => gone' = gone
             /\ ~Free(Page(t)) => t \in gone'
  <2>1. called' = [called EXCEPT ![t] = FALSE]
    BY <1>2 DEF LoadPage
  <2>2. ~called'[t]
    BY <1>0, <2>1, Zenon
  <2> QED
    BY <1>0, <1>2, <2>2 DEF LoadPage
<1>3. ASSUME req'[Page(t)] = NoReq, UNCHANGED <<page, called, repeated>>,
             t \notin gone'
      PROVE  PageFits(t)'
  BY <1>0, <1>1, <1>3 DEF PageFits, Paid, Free, NoReq, PageNames, RequestFits
<1>4. CASE Reload(t)
  <2>1. /\ t \in repeated' <=> t \in repeated \/ called[t]
        /\ t \notin gone /\ page[t] # "gateway"
    BY <1>4 DEF Reload
  <2>2. LoadPage(t, IF page[t] \in {"shop", "checkout"} THEN page[t] ELSE "confirming")
    BY <1>4 DEF Reload
  <2>3. /\ req'[Page(t)] = r /\ ~called'[t]
        /\ page'[t] = IF page[t] \in {"shop", "checkout"} THEN page[t] ELSE "confirming"
        /\ Free(Page(t)) => gone' = gone
        /\ ~Free(Page(t)) => t \in gone'
    BY <1>2, <2>2
  <2> QED
    BY <1>0, <1>1, <2>1, <2>3 DEF PageFits, Paid, Free, PageNames, RequestFits
<1>5. CASE Orphaned(t)
  BY <1>0, <1>3, <1>5 DEF Orphaned, Forget, ghosts
<1>6. CASE Mounted(t)
  <2>1. /\ req'[Page(t)] = r
        /\ UNCHANGED <<page, called, gone, repeated>>
    BY <1>0, <1>6 DEF Mounted, Forget
  <2> QED
    BY <1>0, <1>1, <2>1 DEF PageFits, Paid, Free
<1>7. CASE LoggedIn(t) \/ LoggedOut(t)
  BY <1>0, <1>3, <1>7 DEF LoggedIn, LoggedOut, Answered, Forget
<1>8. CASE Logout(t) \/ AdminAnswered(t)
  <2>1. /\ req'[Page(t)].kind \in {"none", "logout"}
        /\ UNCHANGED <<page, called, gone, repeated>>
    <3>1. ASSUME EndSession(t) PROVE req'[Page(t)].kind \in {"none", "logout"}
      <4>1. \/ req' = [req EXCEPT ![Page(t)] = NoReq]
            \/ req' = [req EXCEPT ![Page(t)] = Asking("logout", None, token)]
        BY <3>1 DEF EndSession, Forget
      <4>2. NoReq.kind = "none" /\ Asking("logout", None, token).kind = "logout"
        BY DEF NoReq, Asking
      <4> QED
        BY <1>0, <4>1, <4>2
    <3> QED
      BY <1>0, <1>8, <3>1 DEF Logout, AdminAnswered, Forget, NoReq
  <2>2. page[t] \notin {"gateway", "success", "error"}
    BY <1>8 DEF Logout, AdminAnswered, Answered, Settled, PageFits, Free
  <2>3. t \notin gone
    BY <1>8 DEF Logout, AdminAnswered, Answered, PageFits
  <2> QED
    BY <1>0, <1>1, <2>1, <2>2, <2>3 DEF PageFits, Paid, Free
<1>9. CASE Admin(t)
  <2>1. /\ req'[Page(t)].kind = "admin" /\ page[t] = "shop" /\ Free(Page(t))
        /\ UNCHANGED <<page, called, gone, repeated>>
    BY <1>0, <1>9 DEF Admin, Send, Asking, NoReq, Free, screen, ghosts
  <2> QED
    BY <1>0, <1>1, <2>1 DEF PageFits, Paid, Free
<1>10. CASE PlaceOrder(t)
  <2>1. /\ req'[Page(t)].kind = "order" /\ req'[Page(t)].at = "start" /\ page'[t] = "checkout"
        /\ UNCHANGED <<called, gone, repeated>>
    BY <1>0, <1>10 DEF PlaceOrder, Send, Asking, NoReq
  <2> QED
    BY <1>0, <1>1, <2>1 DEF PageFits, Paid, Free
<1>11. CASE OrderPlaced(t)
  <2>1. /\ req'[Page(t)] = NoReq /\ r.kind = "order" /\ t \notin gone
        /\ page'[t] = IF r.at = "done" THEN "gateway" ELSE page[t]
        /\ UNCHANGED <<called, gone, repeated>>
    BY <1>0, <1>11 DEF OrderPlaced, Answered, Forget, ghosts
  <2> QED
    BY <1>0, <1>1, <2>1 DEF PageFits, Paid, Free, NoReq
<1>12. CASE GatewayReturns(t)
  <2>1. PICK there \in {"confirming", "shop"} : LoadPage(t, there)
    BY <1>12 DEF GatewayReturns
  <2>2. /\ page[t] = "gateway" /\ t \notin repeated'
    BY <1>12 DEF GatewayReturns
  <2>3. /\ req'[Page(t)] = r /\ page'[t] = there /\ ~called'[t]
        /\ Free(Page(t)) => gone' = gone
    BY <1>2, <2>1
  <2> QED
    BY <1>0, <1>1, <2>2, <2>3 DEF PageFits, Paid, Free, RequestFits
<1>13. CASE ConfirmEffect(t)
  <2>1. /\ req'[Page(t)].kind = "confirm" /\ req'[Page(t)].at = "start"
        /\ page[t] \in {"confirming", "success"} /\ ~called[t] /\ Free(Page(t))
        /\ UNCHANGED <<page, gone, repeated>>
        /\ called' = [called EXCEPT ![t] = TRUE]
    BY <1>0, <1>13 DEF ConfirmEffect, Send, Asking, NoReq, NotCalled, Free, ghosts
  <2>2. called'[t]
    BY <1>0, <2>1, Zenon
  <2> QED
    BY <1>0, <1>1, <2>1, <2>2 DEF PageFits, Paid, Free
<1>14. CASE Confirmed(t)
  <2>1. /\ req'[Page(t)] = NoReq /\ r.kind = "confirm" /\ t \notin gone
        /\ r.at \in {"done", "failed"}
        /\ UNCHANGED <<called, gone>>
    BY <1>0, <1>14 DEF Confirmed, Answered, Settled, Forget
  <2>2. PICK answer \in {r.at, "failed"} :
           /\ page' = [page EXCEPT ![t] = IF answer = "done" THEN "success" ELSE "error"]
           /\ repeated' = IF answer # r.at THEN repeated \cup {t} ELSE repeated
    BY <1>14 DEF Confirmed
  <2>3. /\ page'[t] = IF answer = "done" THEN "success" ELSE "error"
        /\ t \in repeated' <=> t \in repeated \/ answer # r.at
    BY <1>0, <2>2
  <2> QED
    BY <1>0, <1>1, <2>1, <2>3 DEF PageFits, Paid, Free, NoReq
<1>15. ASSUME NEW kind \in {"login", "register"}, NEW email \in Email, Submit(t, kind, email)
       PROVE  PageFits(t)'
  <2>1. /\ req'[Page(t)].kind = kind /\ page[t] = "shop" /\ Free(Page(t))
        /\ UNCHANGED <<page, called, gone, repeated>>
    BY <1>0, <1>15 DEF Submit, Send, Asking, NoReq, Free, screen, ghosts
  <2> QED
    BY <1>0, <1>1, <2>1 DEF PageFits, Paid, Free
<1> QED
  BY <1>4, <1>5, <1>6, <1>7, <1>8, <1>9, <1>10, <1>11, <1>12, <1>13, <1>14, <1>15 DEF TabStep

\* What AuthService and the guards serve is neither an order nor a payment.
LEMMA ServedKind ==
    ASSUME SessionsTypeOK, NEW p \in Proc, RequestFits(p), ServeAccount(p)
    PROVE  /\ req'[p].kind = req[p].kind /\ req[p].kind \notin {"none", "order", "confirm"}
           /\ req[p].at # "idle" /\ req'[p].at # "idle"
           /\ req'[p].token = req[p].token \/ req[p].kind \in {"login", "register"}
           /\ \A q \in Proc \ {p} : req'[q] = req[q]
  BY RequestIs DEF SessionsTypeOK, RequestFits, Requests, ServeAccount, FindEmail, SaveUser, FindUser,
     MergeCart, CreateSession, DropSession, ResolveSession, GuardSession, GuardRole, At, GoTo

LEMMA ServedPage ==
    ASSUME ServerInv, NEW p \in Proc, Serve(p), NEW t \in Tab, PageFits(t)
    PROVE  PageFits(t)'
<1>0. /\ Page(t) \in Proc /\ SessionsTypeOK /\ RequestFits(p) /\ ServeAccount(p)
      /\ UNCHANGED <<page, called, paying, gone, order, repeated>>
      /\ paying[t] \in Order \cup {None}
  BY Processes DEF ServerInv, TypeOK, RequestsFit, Serve, screen
<1>1. CASE p = Page(t)
  BY <1>0, <1>1, ServedKind DEF PageFits, Paid, Free
<1>2. CASE p # Page(t)
  <2>1. req'[Page(t)] = req[Page(t)]
    BY <1>0, <1>2, ServedKind
  <2> QED
    BY <1>0, <2>1, Constants, PageKept DEF PageFits
<1> QED
  BY <1>1, <1>2

\* An order is paid by the tab whose URL names it, and by no other.
LEMMA PlacedPages ==
    ASSUME ServerInv, PagesFit, NEW p \in Proc, CreateOrder(p) \/ Confirm(p)
    PROVE  PagesFit'
<1> USE Constants
<1> DEFINE s == p[1]
<1>0. s \in Tab /\ p = Page(s) /\ req \in [Proc -> Requests]
  <2>1. p[2] # "mount"
    BY DEF ServerInv, RequestsFit, RequestFits, CreateOrder, Confirm, At
  <2> QED
    BY <2>1, StorefrontAssumption DEF Page, ServerInv, TypeOK, SessionsTypeOK
<1>1. /\ paying \in [Tab -> Order \cup {None}] /\ order \in [Order -> OrderRows]
      /\ UNCHANGED <<page, called, gone, repeated>>
      /\ req[p] \in Requests
  BY RequestIs DEF ServerInv, TypeOK, CreateOrder, Confirm, screen, ghosts
<1>2. ASSUME NEW t \in Tab \ {s} PROVE req'[Page(t)] = req[Page(t)]
  <2>1. Page(t) # Page(s) /\ Page(t) \in Proc
    BY Processes DEF Page
  <2> QED
    BY <1>0, <2>1 DEF CreateOrder, Confirm, GoTo
<1>3. ASSUME UNCHANGED order, UNCHANGED paying, GoTo(p, "failed"), req[p].at = "start"
      PROVE  PagesFit'
  <2>1. ASSUME NEW t \in Tab \ {s} PROVE PageFits(t)'
    BY <1>1, <1>2, <1>3, PageKept DEF PagesFit, PageFits
  <2>2. PageFits(s)'
    BY <1>0, <1>1, <1>3, Processes DEF PagesFit, PageFits, Paid, Free, GoTo, Requests
  <2> QED
    BY <1>3, <2>1, <2>2 DEF PagesFit
<1>4. CASE CreateOrder(p)
  <2>1. CASE GoTo(p, "failed") /\ UNCHANGED <<order, paying>>
    BY <1>3, <1>4, <2>1 DEF CreateOrder, At
  <2>2. ASSUME NEW o \in Order, order[o] = NoOrder,
               order' = [order EXCEPT ![o] =
                           [status |-> "PENDING", charged |-> FALSE, owner |-> SessionUser(req[p].token),
                            shown |-> placing[p[1]].shown, astray |-> placing[p[1]].astray]],
               \/ GoTo(p, "done") /\ paying' = [paying EXCEPT ![p[1]] = o]
               \/ GoTo(p, "failed") /\ UNCHANGED paying
        PROVE  PagesFit'
    <3>1. order'[o].status = "PENDING" /\ \A b \in Order \ {o} : order'[b] = order[b]
      BY <1>1, <2>2
    <3>2. \A t \in Tab : paying[t] # o
      BY <2>2 DEF PagesFit, PageFits, NoOrder
    <3>3. ASSUME NEW t \in Tab \ {s} PROVE PageFits(t)' /\ paying'[t] = paying[t]
      <4>1. paying'[t] = paying[t]
        BY <1>0, <1>1, <2>2
      <4> QED
        BY <1>1, <1>2, <3>1, <3>2, <4>1, PageKept DEF PagesFit, PageFits
    <3>4. /\ req'[p].kind = "order" /\ req[p].kind = "order" /\ req[p].at = "start"
          /\ \/ req'[p].at = "done" /\ paying'[s] = o
             \/ req'[p].at = "failed" /\ paying'[s] = paying[s]
      BY <1>0, <1>1, <1>4, <2>2 DEF CreateOrder, At, GoTo, Requests
    <3>5. PageFits(s)'
      BY <1>0, <1>1, <3>1, <3>2, <3>4 DEF PagesFit, PageFits, Paid, Free
    <3> QED
      BY <1>0, <3>2, <3>3, <3>4, <3>5 DEF PagesFit
  <2> QED
    BY <1>4, <2>1, <2>2 DEF CreateOrder
<1>5. CASE Confirm(p)
  <2>0. paying[s] \in Order /\ UNCHANGED paying /\ req[p].kind = "confirm" /\ req[p].at = "start"
    BY <1>0, <1>5 DEF Confirm, At, PagesFit, PageFits, screen
  <2>1. CASE UNCHANGED order /\ GoTo(p, "failed")
    BY <1>3, <2>0, <2>1
  <2>2. CASE /\ order'[paying[s]].status = "PAID" /\ GoTo(p, "done")
             /\ \A b \in Order \ {paying[s]} : order'[b] = order[b]
    <3>1. order'[paying[s]].status = "PAID" /\ \A b \in Order \ {paying[s]} : order'[b] = order[b]
      BY <2>2
    <3>2. ASSUME NEW t \in Tab \ {s} PROVE PageFits(t)'
      <4>1. paying[t] # paying[s]
        BY <1>0, <2>0 DEF PagesFit
      <4> QED
        BY <1>1, <1>2, <2>0, <3>1, <4>1, PageKept DEF PagesFit, PageFits
    <3>3. req'[p].kind = "confirm" /\ req'[p].at = "done"
      BY <1>0, <1>1, <2>0, <2>2 DEF GoTo, Requests
    <3>4. PageFits(s)'
      BY <1>0, <1>1, <2>0, <3>1, <3>3 DEF PagesFit, PageFits, Paid, Free
    <3> QED
      BY <2>0, <3>2, <3>4 DEF PagesFit
  <2>3. CASE /\ order[paying[s]].status = "PENDING" /\ order'[paying[s]].status = "PENDING"
             /\ GoTo(p, "failed")
             /\ \A b \in Order \ {paying[s]} : order'[b] = order[b]
    <3>1. \A b \in Order : order'[b].status = order[b].status
      BY <2>3
    <3>2. ASSUME NEW t \in Tab \ {s} PROVE PageFits(t)'
      BY <1>1, <1>2, <2>0, <3>1, PageKept DEF PagesFit, PageFits
    <3>3. req'[p].kind = "confirm" /\ req'[p].at = "failed"
      BY <1>0, <1>1, <2>0, <2>3 DEF GoTo, Requests
    <3>4. PageFits(s)'
      BY <1>0, <1>1, <2>0, <3>1, <3>3 DEF PagesFit, PageFits, Paid, Free
    <3> QED
      BY <2>0, <3>2, <3>4 DEF PagesFit
  <2>4. \A b \in Order \ {paying[s]} : order'[b] = order[b]
    BY <1>1, <1>5, ConfirmedOrder
  <2> QED
    <3>1. CASE UNCHANGED order /\ GoTo(p, "failed")
      BY <2>1, <3>1
    <3>2. CASE /\ order[paying[s]].status = "PENDING" /\ GoTo(p, "failed")
               /\ order' = [order EXCEPT ![paying[s]].charged = TRUE]
      <4>1. order'[paying[s]].status = "PENDING"
        BY <1>1, <2>0, <3>2 DEF OrderRows
      <4> QED
        BY <2>3, <2>4, <3>2, <4>1
    <3>3. CASE /\ order[paying[s]].status = "PENDING" /\ GoTo(p, "done")
               /\ order' = [order EXCEPT ![paying[s]].status = "PAID", ![paying[s]].charged = TRUE]
      <4>1. order'[paying[s]].status = "PAID"
        BY <1>1, <2>0, <3>3 DEF OrderRows
      <4> QED
        BY <2>2, <2>4, <3>3, <4>1
    <3> QED
      BY <1>5, <3>1, <3>2, <3>3 DEF Confirm
<1> QED
  BY <1>4, <1>5

LEMMA PagesStayFit ==
    ASSUME ServerInv, PagesFit, Next
    PROVE  PagesFit'
<1> USE Constants
<1>0. paying \in [Tab -> Order \cup {None}] /\ order \in [Order -> OrderRows]
  BY DEF ServerInv, TypeOK
<1>1. ASSUME NEW s \in Tab, TabStep(s) PROVE PagesFit'
  <2>1. PageFits(s)' /\ UNCHANGED paying
    BY <1>1, OwnPage DEF PagesFit, TabStep, Reload, Orphaned, Mounted, LoggedIn, Logout, LoggedOut,
       Admin, AdminAnswered, PlaceOrder, OrderPlaced, GatewayReturns, ConfirmEffect, Confirmed,
       Submit, screen
  <2>2. ASSUME NEW t \in Tab \ {s} PROVE PageFits(t)'
    BY <1>0, <1>1, OtherTabs, PageKept DEF ServerInv, PagesFit, PageFits
  <2> QED
    BY <2>1, <2>2 DEF PagesFit
<1>2. ASSUME NEW p \in Proc, Serve(p) PROVE PagesFit'
  BY <1>2, ServedPage DEF PagesFit, Serve, screen
<1>3. ASSUME NEW p \in Proc, CreateOrder(p) \/ Confirm(p) PROVE PagesFit'
  BY <1>3, PlacedPages
<1>4. ASSUME NEW o \in Order, ExpireOrder(o) PROVE PagesFit'
  <2>1. /\ order'[o].status = "EXPIRED" /\ order[o].status = "PENDING"
        /\ \A b \in Order \ {o} : order'[b] = order[b]
    BY <1>0, <1>4 DEF ExpireOrder, OrderRows
  <2>2. UNCHANGED <<req, page, called, paying, gone, repeated>>
    BY <1>4 DEF ExpireOrder, screen, ghosts
  <2>3. ASSUME NEW t \in Tab PROVE PageFits(t)'
    BY <1>0, <2>1, <2>2, PageKept DEF PagesFit, PageFits
  <2> QED
    BY <2>2, <2>3 DEF PagesFit
<1>5. ASSUME UNCHANGED <<req, screen, order, repeated>> PROVE PagesFit'
  BY <1>5 DEF PagesFit, PageFits, Paid, Free, screen
<1>6. ASSUME (\E k \in Token : Ends(k)) \/ (\E u \in User : Demote(u))
      PROVE  UNCHANGED <<req, screen, order, repeated>>
  BY <1>6 DEF Ends, ExpireSession, Demote, Revoke, ghosts
<1> QED
  BY <1>1, <1>2, <1>3, <1>4, <1>5, <1>6 DEF Next, TabStep

LEMMA InitPages == ASSUME Init PROVE PagesFit
  BY Constants, Processes DEF Init, SessionsInit, PagesFit, PageFits, NoReq, Free

LEMMA PagesNext == ASSUME ServerInv, PagesFit, [Next]_vars PROVE PagesFit'
<1>1. CASE UNCHANGED vars
  BY <1>1 DEF vars, screen, ghosts, PagesFit, PageFits, Paid, Free
<1> QED
  BY <1>1, PagesStayFit

\* An order is PAID only once the gateway has captured its payment.
ChargesFit == \A o \in Order : order[o].status = "PAID" => order[o].charged

LEMMA ChargesNext == ASSUME ServerInv, ChargesFit, [Next]_vars PROVE ChargesFit'
<1>0. order \in [Order -> OrderRows]
  BY DEF ServerInv, TypeOK
<1>1. CASE UNCHANGED order
  BY <1>1 DEF ChargesFit
<1>2. ASSUME NEW p \in Proc, CreateOrder(p) PROVE ChargesFit'
  <2>1. ASSUME NEW o \in Order,
               order' = [order EXCEPT ![o] =
                           [status |-> "PENDING", charged |-> FALSE, owner |-> SessionUser(req[p].token),
                            shown |-> placing[p[1]].shown, astray |-> placing[p[1]].astray]]
        PROVE  ChargesFit'
    <3>1. order'[o].status = "PENDING" /\ \A b \in Order \ {o} : order'[b] = order[b]
      BY <1>0, <2>1
    <3> QED
      BY <3>1 DEF ChargesFit
  <2> QED
    BY <1>1, <1>2, <2>1 DEF CreateOrder
<1>3. ASSUME NEW p \in Proc, Confirm(p) PROVE ChargesFit'
  BY <1>0, <1>3, ConfirmedOrder DEF ChargesFit
<1>4. ASSUME NEW o \in Order, ExpireOrder(o) PROVE ChargesFit'
  <2>1. order'[o].status = "EXPIRED" /\ \A b \in Order \ {o} : order'[b] = order[b]
    BY <1>0, <1>4 DEF ExpireOrder, OrderRows
  <2> QED
    BY <2>1 DEF ChargesFit
<1>5. ASSUME NEW p \in Proc, Serve(p) PROVE UNCHANGED order
  BY <1>5 DEF Serve
<1>6. ASSUME NEW s \in Tab, TabStep(s) PROVE UNCHANGED order
  BY <1>6 DEF TabStep, Reload, Orphaned, Mounted, LoggedIn, Logout, LoggedOut, Admin, AdminAnswered,
     PlaceOrder, OrderPlaced, GatewayReturns, ConfirmEffect, Confirmed, Submit
<1>7. ASSUME (\E k \in Token : Ends(k)) \/ (\E u \in User : Demote(u)) PROVE UNCHANGED order
  BY <1>7 DEF Ends, Demote
<1>8. CASE UNCHANGED vars
  BY <1>1, <1>8 DEF vars
<1> QED
  BY <1>1, <1>2, <1>3, <1>4, <1>5, <1>6, <1>7, <1>8 DEF Next, TabStep

\* confirm is sent once by a page, captured, refused or lost half-way, and the order expires
\* meanwhile: a page that shows a payment shows one the gateway has captured and the order
\* has, and a page that shows a failure is of an order that is not PAID, unless the answer
\* was lost or the page loaded again.  That nothing was captured it does not show.
THEOREM ResultPagesTellTheOutcome == Spec => []OutcomeShown
<1>1. Init => ServerInv /\ PagesFit /\ ChargesFit
  <2>1. ASSUME Init PROVE ChargesFit
    BY <2>1 DEF Init, NoOrder, ChargesFit
  <2> QED
    BY <2>1, InitTypes, InitFits, InitPages DEF ServerInv
<1>2. ServerInv /\ PagesFit /\ ChargesFit /\ [Next]_vars => ServerInv' /\ PagesFit' /\ ChargesFit'
  BY ServerNext, PagesNext, ChargesNext
<1>3. PagesFit /\ ChargesFit => OutcomeShown
  BY DEF PagesFit, PageFits, Paid, OutcomeShown, ChargesFit
<1> QED
  BY <1>1, <1>2, <1>3, PTL DEF Spec

-----------------------------------------------------------------------------
(* The user a tab shows.                                                    *)

LEMMA AskedAt ==
    ASSUME NEW kind, NEW email, NEW k
    PROVE  LET r == Asking(kind, email, k) IN
           r.kind = kind /\ r.at = "start" /\ r.token = k
  BY DEF Asking, NoReq

LEMMA SameSessions ==
    ASSUME UNCHANGED server, NEW k
    PROVE  SessionUser(k)' = SessionUser(k)
  BY DEF server, SessionUser

\* A change of the token by one tab leaves the others astray, and their mounts mixed.
LEMMA OthersAstray ==
    ASSUME NEW s \in Tab, TabStep(s), NEW t \in Tab \ {s}
    PROVE  /\ t \notin astray' =>
                /\ t \notin astray
                /\ token' = token \/ (token' = None /\ user[t] = None /\ Free(Mount(t)))
           /\ t \notin mixed' => t \notin mixed /\ (token' = token \/ Free(Mount(t)))
<1>1. CASE Mounted(s)
  BY <1>1 DEF Mounted
<1>2. CASE LoggedIn(s) \/ Logout(s) \/ LoggedOut(s) \/ AdminAnswered(s)
  BY <1>2 DEF LoggedIn, Logout, LoggedOut, AdminAnswered, EndSession, Change
<1>3. CASE Reload(s) \/ GatewayReturns(s)
  BY <1>3 DEF Reload, GatewayReturns, LoadPage
<1>4. CASE UNCHANGED <<token, astray, mixed>>
  BY <1>4
<1> QED
  BY <1>1, <1>2, <1>3, <1>4
  DEF TabStep, Orphaned, Admin, PlaceOrder, OrderPlaced, ConfirmEffect, Confirmed, Submit, screen, ghosts

LEMMA OtherShows ==
    ASSUME ServerInv, NEW s \in Tab, TabStep(s), NEW t \in Tab \ {s}, TabLoads(t), TabShows(t), OrderFits(t)
    PROVE  TabLoads(t)' /\ TabShows(t)' /\ OrderFits(t)'
<1>1. UNCHANGED server
  BY TabsKeepServer
<1>4. /\ req'[Mount(t)] = req[Mount(t)] /\ req'[Page(t)] = req[Page(t)]
      /\ user'[t] = user[t] /\ placing'[t] = placing[t]
      /\ loading'[t] <=> loading[t]
      /\ t \in gone' <=> t \in gone
  BY OtherTabs DEF ServerInv
<1>5. OrderFits(t)'
  BY <1>1, <1>4 DEF OrderFits, At, SessionUser, server
<1>6. /\ t \notin astray' =>
           /\ t \notin astray
           /\ token' = token \/ (token' = None /\ user[t] = None /\ Free(Mount(t)))
      /\ t \notin mixed' => t \notin mixed /\ (token' = token \/ Free(Mount(t)))
  BY OthersAstray
<1>7. Free(Mount(t))' <=> Free(Mount(t))
  BY <1>4 DEF Free
<1>8. /\ token' = token => SessionUser(token)' = SessionUser(token)
      /\ token' = None => SessionUser(token)' = None
  BY <1>1 DEF server, SessionUser
<1>9. loading'[t] <=> ~Free(Mount(t))'
  BY <1>4, <1>7, Zenon DEF TabLoads
<1>10. TabShows(t)'
  BY <1>4, <1>6, <1>8 DEF TabShows, At, Free
<1> QED
  BY <1>5, <1>9, <1>10 DEF TabLoads

LEMMA OwnLoads ==
    ASSUME ServerInv, NEW t \in Tab, TabLoads(t), TabStep(t)
    PROVE  TabLoads(t)'
<1>0. /\ Mount(t) \in Proc /\ Page(t) \in Proc /\ Mount(t) # Page(t)
      /\ req \in [Proc -> Requests] /\ loading \in [Tab -> BOOLEAN]
  BY Processes DEF ServerInv, TypeOK, SessionsTypeOK
<1>1. CASE Reload(t) \/ GatewayReturns(t)
  <2>1. /\ loading' = [loading EXCEPT ![t] = token # None]
        /\ req'[Mount(t)] = IF token = None THEN NoReq ELSE Asking("me", None, token)
    BY <1>0, <1>1 DEF Reload, GatewayReturns, LoadPage
  <2>2. Free(Mount(t))' <=> token = None
    BY <2>1, AskedAt, NoReqIs DEF Free
  <2>3. loading'[t] <=> token # None
    BY <1>0, <2>1, Zenon
  <2> QED
    BY <2>2, <2>3 DEF TabLoads
<1>2. CASE Mounted(t)
  <2>1. /\ loading' = [loading EXCEPT ![t] = FALSE]
        /\ req'[Mount(t)] = NoReq
    BY <1>0, <1>2 DEF Mounted, Forget
  <2>2. Free(Mount(t))'
    BY <2>1, NoReqIs DEF Free
  <2>3. ~loading'[t]
    BY <1>0, <2>1, Zenon
  <2> QED
    BY <2>2, <2>3 DEF TabLoads
<1>3. CASE UNCHANGED loading /\ req'[Mount(t)] = req[Mount(t)]
  BY <1>3 DEF TabLoads, Free
<1>4. CASE ~(Reload(t) \/ GatewayReturns(t) \/ Mounted(t))
  BY <1>0, <1>3, <1>4
  DEF TabStep, Orphaned, LoggedIn, Logout, LoggedOut, Admin, AdminAnswered, PlaceOrder, OrderPlaced,
      ConfirmEffect, Confirmed, Submit, EndSession, Send, Forget, screen
<1> QED
  BY <1>1, <1>2, <1>4

LEMMA OwnShows ==
    ASSUME ServerInv, NEW t \in Tab, TabLoads(t), TabShows(t), PageFits(t), TabStep(t)
    PROVE  TabShows(t)'
<1> DEFINE m == req[Mount(t)]
           r == req[Page(t)]
<1> USE Constants
<1>0. /\ Mount(t) \in Proc /\ Page(t) \in Proc /\ Mount(t) # Page(t)
      /\ req \in [Proc -> Requests] /\ user \in [Tab -> User \cup {None}]
      /\ m.kind \in {"none", "me"} /\ RequestFits(Mount(t)) /\ RequestFits(Page(t))
      /\ UNCHANGED server
  BY Processes, TabsKeepServer DEF ServerInv, TypeOK, SessionsTypeOK, RequestsFit, RequestFits, Mount
<1>1. /\ SessionUser(None)' = None
      /\ token' = token => SessionUser(token)' = SessionUser(token)
      /\ token' # None /\ sessions[token'] # None => SessionUser(token)' = sessions[token'].user
  BY <1>0 DEF server, SessionUser
<1>2. ASSUME req'[Mount(t)] = m, user'[t] = user[t], UNCHANGED <<token, astray, mixed>>,
             req'[Page(t)].kind \notin {"logout", "admin"}, r.kind # "logout" \/ t \in gone
      PROVE  TabShows(t)'
  BY <1>1, <1>2 DEF TabShows, At, Free
<1>3. ASSUME NEW there, LoadPage(t, there), UNCHANGED token PROVE TabShows(t)'
  <2>1. /\ req'[Page(t)] = r /\ user'[t] = None /\ t \notin astray'
        /\ req'[Mount(t)] = IF token = None THEN NoReq ELSE Asking("me", None, token)
        /\ r.kind # "none" => t \in gone'
    BY <1>0, <1>3 DEF LoadPage, Free, RequestFits
  <2>2. CASE token = None
    BY <1>1, <1>3, <2>1, <2>2, NoReqIs DEF TabShows, At, Free
  <2>3. CASE token # None
    BY <1>1, <1>3, <2>1, <2>3, AskedAt DEF TabShows, At, Free
  <2> QED
    BY <2>2, <2>3
<1>4. ASSUME EndSession(t), UNCHANGED <<token, gone>>, Free(Mount(t)), t \notin gone
      PROVE  TabShows(t)'
  <2>1. CASE token = None
    <3>1. req'[Mount(t)] = m /\ user'[t] = None
      BY <1>0, <1>4, <2>1 DEF EndSession, Forget
    <3> QED
      BY <1>1, <1>4, <2>1, <3>1, NoReqIs DEF TabShows, At, Free
  <2>2. CASE token # None
    <3>1. /\ req'[Mount(t)] = m /\ UNCHANGED <<user, astray, mixed>>
          /\ req'[Page(t)] = Asking("logout", None, token)
      BY <1>0, <1>4, <2>2 DEF EndSession
    <3> QED
      BY <1>1, <1>4, <3>1, AskedAt DEF TabShows, At, Free
  <2> QED
    BY <2>1, <2>2
<1>5. CASE Reload(t) \/ GatewayReturns(t)
  BY <1>3, <1>5 DEF Reload, GatewayReturns
<1>6. CASE Orphaned(t)
  <2>1. /\ req'[Mount(t)] = m /\ req'[Page(t)] = NoReq /\ t \in gone
        /\ UNCHANGED <<user, token, astray, mixed>>
    BY <1>0, <1>6 DEF Orphaned, Forget, ghosts
  <2> QED
    BY <1>2, <2>1, NoReqIs
<1>7. CASE Mounted(t)
  <2>1. /\ req'[Mount(t)] = NoReq /\ req'[Page(t)] = r /\ m.at \in {"done", "failed"}
        /\ UNCHANGED gone
    BY <1>0, <1>7 DEF Mounted, Forget, Settled
  <2>2. \/ /\ m.at = "done" /\ user'[t] = m.user /\ UNCHANGED token
           /\ astray' = IF t \in mixed THEN astray \cup {t} ELSE astray
        \/ /\ token' = None /\ user'[t] = user[t]
           /\ t \notin astray' => user[t] = None
    BY <1>0, <1>7 DEF Mounted
  <2>3. m.kind = "me"
    BY <1>0, <2>1 DEF RequestFits
  <2> QED
    BY <1>0, <1>1, <2>1, <2>2, <2>3, NoReqIs DEF TabShows, At, Free
<1>8. CASE LoggedIn(t)
  <2>1. /\ req'[Mount(t)] = m /\ req'[Page(t)] = NoReq /\ r.kind \in {"login", "register"}
    BY <1>0, <1>8 DEF LoggedIn, Answered, Forget
  <2>2. CASE UNCHANGED <<token, user, astray, mixed>>
    BY <1>2, <1>8, <2>1, <2>2, NoReqIs DEF LoggedIn
  <2>3. CASE /\ r.at = "done" /\ token' = r.token /\ user' = [user EXCEPT ![t] = r.user]
             /\ Change(t, IF sessions[r.token] = None THEN {t} ELSE {})
    <3>1. /\ token' = r.token /\ user'[t] = r.user
          /\ t \notin astray' => sessions[r.token] # None
          /\ ~Free(Mount(t)) => t \in mixed'
      BY <1>0, <1>8, <2>3 DEF LoggedIn, Change
    <3>2. t \notin astray' => SessionUser(token)' = r.user
      BY <1>0, <1>1, <2>1, <2>3, <3>1 DEF RequestFits
    <3> QED
      BY <2>1, <3>1, <3>2, NoReqIs DEF TabShows, At, Free
  <2> QED
    BY <1>8, <2>2, <2>3 DEF LoggedIn
<1>9. CASE Logout(t)
  <2>1. Free(Mount(t)) /\ t \notin gone
    BY <1>9 DEF Logout, TabLoads, PageFits
  <2> QED
    BY <1>4, <1>9, <2>1 DEF Logout
<1>10. CASE AdminAnswered(t)
  <2>1. r.kind = "admin" /\ t \notin gone /\ Free(Mount(t))
    BY <1>10 DEF AdminAnswered, Answered, TabShows
  <2>2. CASE Forget(Page(t)) /\ UNCHANGED <<user, astray, mixed>>
    <3>1. req'[Mount(t)] = m /\ req'[Page(t)] = NoReq
      BY <1>0, <2>2 DEF Forget
    <3> QED
      BY <1>2, <1>10, <2>1, <2>2, <3>1, NoReqIs DEF AdminAnswered
  <2> QED
    BY <1>4, <1>10, <2>1, <2>2 DEF AdminAnswered
<1>11. CASE LoggedOut(t)
  <2>1. /\ req'[Mount(t)] = m /\ req'[Page(t)] = NoReq /\ user'[t] = None /\ token' = None
        /\ ~Free(Mount(t)) => t \in mixed'
    BY <1>0, <1>11 DEF LoggedOut, TokenAfter, Change, Forget
  <2> QED
    BY <1>1, <2>1, NoReqIs DEF TabShows, At, Free
<1>12. CASE Admin(t)
  <2>1. /\ req'[Mount(t)] = m /\ req'[Page(t)] = Asking("admin", None, token)
        /\ UNCHANGED <<user, token, astray, mixed, gone>>
        /\ Free(Mount(t)) /\ Free(Page(t))
    BY <1>0, <1>12 DEF Admin, Send, TabLoads, Free, screen, ghosts
  <2> QED
    BY <1>0, <1>1, <2>1, AskedAt DEF TabShows, At, Free, RequestFits
<1>13. CASE PlaceOrder(t) \/ ConfirmEffect(t)
            \/ \E kind \in {"login", "register"}, email \in Email : Submit(t, kind, email)
  <2>1. /\ req'[Mount(t)] = m /\ UNCHANGED <<user, token, astray, mixed>> /\ r.at = "idle"
        /\ \E kind \in {"order", "confirm", "login", "register"} : \E email, k :
             req'[Page(t)] = Asking(kind, email, k)
    BY <1>0, <1>13 DEF PlaceOrder, ConfirmEffect, Submit, Send, screen, ghosts
  <2> QED
    BY <1>0, <1>2, <2>1, AskedAt DEF RequestFits
<1>14. CASE OrderPlaced(t) \/ Confirmed(t)
  <2>1. /\ req'[Mount(t)] = m /\ UNCHANGED <<user, token, astray, mixed>>
        /\ r.kind \in {"order", "confirm"} /\ req'[Page(t)] = NoReq
    BY <1>0, <1>14 DEF OrderPlaced, Confirmed, Answered, Forget, ghosts
  <2> QED
    BY <1>2, <2>1, NoReqIs
<1> QED
  BY <1>5, <1>6, <1>7, <1>8, <1>9, <1>10, <1>11, <1>12, <1>13, <1>14 DEF TabStep

\* An order is sent with the token whose user the tab shows.
LEMMA OwnOrder ==
    ASSUME ServerInv, NEW t \in Tab, TabShows(t), OrderFits(t), TabStep(t)
    PROVE  OrderFits(t)'
<1> DEFINE r == req[Page(t)]
<1>0. /\ Mount(t) \in Proc /\ Page(t) \in Proc /\ Mount(t) # Page(t)
      /\ req \in [Proc -> Requests] /\ RequestFits(Page(t)) /\ UNCHANGED server
      /\ placing \in [Tab -> [shown : User \cup {None}, astray : BOOLEAN]]
  BY Processes, TabsKeepServer DEF ServerInv, TypeOK, SessionsTypeOK, RequestsFit
<1>1. CASE PlaceOrder(t)
  <2>1. /\ req'[Page(t)] = Asking("order", None, token) /\ r.at = "idle"
        /\ placing' = [placing EXCEPT ![t] =
                         [shown |-> user[t], astray |-> t \in astray \/ ~Free(Mount(t))]]
    BY <1>0, <1>1 DEF PlaceOrder, Send
  <2>2. placing'[t] = [shown |-> user[t], astray |-> t \in astray \/ ~Free(Mount(t))]
    BY <1>0, <2>1
  <2>3. placing'[t].shown = user[t] /\ placing'[t].astray = (t \in astray \/ ~Free(Mount(t)))
    BY <2>2
  <2>4. ASSUME ~placing'[t].astray PROVE SessionUser(token)' = placing'[t].shown
    <3>1. user[t] = SessionUser(token)
      BY <1>0, <2>1, <2>3, <2>4 DEF TabShows, RequestFits
    <3> QED
      BY <1>0, <1>1, <2>3, <3>1 DEF PlaceOrder, server, SessionUser
  <2>5. req'[Page(t)].token = token /\ UNCHANGED token
    BY <1>1, <2>1, AskedAt DEF PlaceOrder
  <2> QED
    BY <2>4, <2>5 DEF OrderFits, SessionUser
<1>2. CASE req'[Page(t)] = r /\ UNCHANGED placing
  BY <1>0, <1>2 DEF OrderFits, At, server, SessionUser
<1>3. CASE req'[Page(t)].kind # "order"
  BY <1>3 DEF OrderFits, At
<1>4. CASE Reload(t) \/ GatewayReturns(t) \/ Mounted(t)
  BY <1>0, <1>2, <1>4 DEF Reload, GatewayReturns, LoadPage, Mounted, Forget
<1>5. CASE \/ Orphaned(t) \/ LoggedIn(t) \/ LoggedOut(t) \/ OrderPlaced(t) \/ Confirmed(t)
  BY <1>0, <1>3, <1>5, NoReqIs DEF Orphaned, LoggedIn, LoggedOut, OrderPlaced, Confirmed, Forget
<1>6. CASE Logout(t) \/ AdminAnswered(t)
  BY <1>0, <1>3, <1>6, NoReqIs, AskedAt DEF Logout, AdminAnswered, EndSession, Forget
<1>7. CASE \/ Admin(t) \/ ConfirmEffect(t)
           \/ \E kind \in {"login", "register"}, email \in Email : Submit(t, kind, email)
  <2>1. \E kind \in {"admin", "confirm", "login", "register"} : \E email, k :
           req'[Page(t)] = Asking(kind, email, k)
    BY <1>0, <1>7 DEF Admin, ConfirmEffect, Submit, Send
  <2> QED
    BY <1>3, <2>1, AskedAt
<1> QED
  BY <1>1, <1>4, <1>5, <1>6, <1>7 DEF TabStep

\* A session ends in a logout that is under way; the tabs that did not ask go astray.
LEMMA ServedSession ==
    ASSUME ServerInv, NEW p \in Proc, Serve(p), NEW k \in minted \cup {None},
           SessionUser(k)' # SessionUser(k)
    PROVE  /\ DropSession(p) /\ k = req[p].token /\ k # None
           /\ sessions[k] # None /\ sessions'[k] = None
<1>1. /\ RequestFits(p) /\ SessionsTypeOK /\ ServeAccount(p) /\ minted \subseteq Token
  BY DEF ServerInv, TypeOK, SessionsTypeOK, RequestsFit, Serve
<1>2. k # None /\ sessions'[k] # sessions[k]
  BY DEF SessionUser
<1>3. CASE CreateSession(p)
  BY <1>1, <1>2, <1>3 DEF CreateSession, SessionsTypeOK
<1>4. CASE DropSession(p)
  BY <1>1, <1>2, <1>4 DEF DropSession, SessionsTypeOK, SessionUser
<1> QED
  BY <1>1, <1>2, <1>3, <1>4
  DEF ServeAccount, FindEmail, SaveUser, FindUser, MergeCart, ResolveSession, GuardSession, GuardRole,
      server

LEMMA ServedShows ==
    ASSUME ServerInv, NEW p \in Proc, Serve(p), NEW t \in Tab, TabLoads(t), TabShows(t), OrderFits(t)
    PROVE  TabLoads(t)' /\ TabShows(t)' /\ OrderFits(t)'
<1> DEFINE m == req[Mount(t)]
           r == req[Page(t)]
<1> USE Constants
<1>0. /\ Mount(t) \in Proc /\ Page(t) \in Proc /\ Mount(t) # Page(t)
      /\ Mount(t)[1] = t /\ Page(t)[1] = t
      /\ req \in [Proc -> Requests] /\ RequestFits(p) /\ RequestFits(Mount(t)) /\ RequestFits(Page(t))
      /\ m.kind \in {"none", "me"} /\ token \in minted \cup {None} /\ r.token \in minted \cup {None}
      /\ SessionsTypeOK /\ ServeAccount(p)
      /\ UNCHANGED <<user, loading, token, gone, mixed>>
  BY Processes DEF ServerInv, TypeOK, SessionsTypeOK, RequestsFit, RequestFits, Mount, Page, AccountsFit,
     Serve, screen
<1>1. /\ req'[Mount(t)].kind = m.kind /\ req'[Page(t)].kind = r.kind
      /\ req'[Mount(t)].token = m.token
      /\ Free(Mount(t))' <=> Free(Mount(t))
  BY <1>0, ServedKind DEF Free
<1>2. TabLoads(t)'
  BY <1>0, <1>1, Zenon DEF TabLoads
<1>3. /\ astray \subseteq astray'
      /\ DropSession(p) /\ token = req[p].token /\ token # None /\ sessions[token] # None
           => t \in astray' \/ (t = p[1] /\ t \notin gone)
  <2>1. ASSUME DropSession(p), token = req[p].token, token # None, sessions[token] # None
        PROVE  sessions'[token] = None
    BY <1>0, <2>1 DEF DropSession, SessionsTypeOK
  <2> QED
    BY <2>1 DEF Serve
<1>4. ASSUME SessionUser(token)' # SessionUser(token), t \notin astray'
      PROVE  p = Page(t) /\ t \notin gone /\ r.kind = "logout"
  <2>1. DropSession(p) /\ token = req[p].token /\ token # None /\ sessions[token] # None
    BY <1>0, <1>4, ServedSession
  <2>2. t = p[1] /\ t \notin gone /\ req[p].kind = "logout"
    BY <1>3, <1>4, <2>1 DEF DropSession, At
  <2> QED
    BY <1>0, <2>2, StorefrontAssumption DEF Mount, Page
<1>5. ASSUME At(Mount(t), "me", "done")', t \notin mixed, t \notin astray'
      PROVE  req'[Mount(t)].user = SessionUser(token)'
  <2>1. ~Free(Mount(t)) /\ m.kind = "me" /\ m.token = token
    BY <1>0, <1>1, <1>5 DEF TabShows, At, Free, RequestFits
  <2>2. SessionUser(token)' = SessionUser(token)
    BY <1>4, <1>5, <2>1 DEF TabShows
  <2>3. CASE p = Mount(t)
    <3>1. ResolveSession(p)
      BY <1>0, <2>1, <2>3 DEF ServeAccount, FindEmail, SaveUser, FindUser, MergeCart, CreateSession,
         DropSession, GuardSession, GuardRole, At, RequestFits
    <3> QED
      BY <1>0, <2>1, <2>2, <2>3, <3>1 DEF ResolveSession
  <2>4. CASE p # Mount(t)
    <3>1. req'[Mount(t)] = m
      BY <1>0, <2>4, ServedKind
    <3> QED
      BY <1>3, <1>5, <2>2, <3>1 DEF TabShows, At
  <2> QED
    BY <2>3, <2>4
<1>6. TabShows(t)'
  BY <1>0, <1>1, <1>3, <1>4, <1>5 DEF TabShows
<1>7. ASSUME At(Page(t), "order", "start")', ~placing'[t].astray
      PROVE  SessionUser(req[Page(t)].token)' = placing'[t].shown
  <2>1. p # Page(t) /\ req'[Page(t)] = r
    BY <1>0, <1>7, ServedKind DEF At
  <2>2. CASE At(p, "logout", "start")
    <3>1. p[1] # t
      BY <1>0, <2>1, <2>2, StorefrontAssumption DEF Mount, Page, At
    <3>2. placing'[t] = [placing[t] EXCEPT !.astray = @ \/ t # p[1]]
      BY <2>2 DEF Serve
    <3>3. placing'[t].astray = (placing[t].astray \/ t # p[1])
      BY <3>2 DEF ServerInv, TypeOK
    <3> QED
      BY <1>7, <3>1, <3>3
  <2>3. CASE ~At(p, "logout", "start")
    <3>1. UNCHANGED placing
      BY <2>3 DEF Serve
    <3>2. SessionUser(r.token) = placing[t].shown
      BY <1>7, <2>1, <3>1 DEF OrderFits, At
    <3>3. SessionUser(r.token)' = SessionUser(r.token)
      BY <1>0, <2>1, <2>3, ServedSession DEF DropSession, SessionUser
    <3> QED
      BY <3>1, <3>2, <3>3, <2>1 DEF SessionUser
  <2> QED
    BY <2>2, <2>3
<1>8. OrderFits(t)'
  <2>1. ASSUME At(Page(t), "order", "start")' PROVE req'[Page(t)] = r
    BY <1>0, <2>1, ServedKind DEF At
  <2> QED
    BY <1>7, <2>1 DEF OrderFits, SessionUser
<1> QED
  BY <1>2, <1>6, <1>8

LEMMA PlacedShows ==
    ASSUME ServerInv, NEW p \in Proc, CreateOrder(p) \/ Confirm(p), NEW t \in Tab,
           TabLoads(t), TabShows(t), OrderFits(t)
    PROVE  TabLoads(t)' /\ TabShows(t)' /\ OrderFits(t)'
<1>0. /\ Mount(t) \in Proc /\ Page(t) \in Proc
      /\ req \in [Proc -> Requests] /\ req[p] \in Requests /\ RequestFits(p) /\ RequestFits(Mount(t))
      /\ Mount(t)[2] = "mount"
      /\ UNCHANGED <<server, user, loading, token, gone, mixed, astray, placing>>
  BY Processes, RequestIs DEF ServerInv, TypeOK, SessionsTypeOK, RequestsFit, CreateOrder, Confirm,
     screen, ghosts, Mount
<1>1. /\ req[p].kind \in {"order", "confirm"} /\ req[p].at = "start"
      /\ GoTo(p, "done") \/ GoTo(p, "failed")
  BY DEF CreateOrder, Confirm, At
<1>2. p # Mount(t) /\ req'[Mount(t)] = req[Mount(t)]
  BY <1>0, <1>1 DEF RequestFits, GoTo
<1>3. /\ req'[Page(t)] = req[Page(t)] \/ req'[Page(t)].at # "start"
      /\ req'[Page(t)].kind = req[Page(t)].kind
  BY <1>0, <1>1 DEF GoTo, Requests
<1>4. TabLoads(t)'
  BY <1>0, <1>2, Zenon DEF TabLoads, Free
<1>5. TabShows(t)'
  BY <1>0, <1>2, <1>3 DEF TabShows, At, Free, SessionUser, server
<1>6. OrderFits(t)'
  BY <1>0, <1>3 DEF OrderFits, At, SessionUser, server
<1> QED
  BY <1>4, <1>5, <1>6

LEMMA ShownStays ==
    ASSUME ServerInv, PagesFit, ShownInv, Next
    PROVE  ShownInv'
<1>1. ASSUME NEW s \in Tab, TabStep(s), NEW t \in Tab
      PROVE  TabLoads(t)' /\ TabShows(t)' /\ OrderFits(t)'
  <2>1. CASE t = s
    BY <1>1, <2>1, OwnLoads, OwnShows, OwnOrder DEF ShownInv, PagesFit
  <2>2. CASE t # s
    BY <1>1, <2>2, OtherShows DEF ShownInv
  <2> QED
    BY <2>1, <2>2
<1>2. ASSUME NEW p \in Proc, Serve(p) PROVE ShownInv'
  BY <1>2, ServedShows DEF ShownInv
<1>3. ASSUME NEW p \in Proc, CreateOrder(p) \/ Confirm(p) PROVE ShownInv'
  BY <1>3, PlacedShows DEF ShownInv
<1>4. ASSUME UNCHANGED <<sessions, req, screen, ghosts>> PROVE ShownInv'
  BY <1>4 DEF ShownInv, TabLoads, TabShows, OrderFits, At, Free, SessionUser, screen, ghosts
<1>5. ASSUME NEW k \in Token, Ends(k), NEW t \in Tab
      PROVE  TabLoads(t)' /\ TabShows(t)' /\ OrderFits(t)'
  <2>1. /\ UNCHANGED <<req, loading, user, token, gone, mixed>>
        /\ sessions' = [sessions EXCEPT ![k] = None]
        /\ astray' = IF k = token THEN Tab ELSE astray
        /\ placing' = [u \in Tab |-> [placing[u] EXCEPT !.astray = TRUE]]
    BY <1>5 DEF Ends, ExpireSession, screen
  <2>2. placing'[t].astray = TRUE
    BY <2>1 DEF ServerInv, TypeOK
  <2>3. k # token => SessionUser(token)' = SessionUser(token)
    BY <2>1 DEF SessionUser, ServerInv, TypeOK, SessionsTypeOK
  <2>4. TabLoads(t)'
    BY <2>1, Zenon DEF ShownInv, TabLoads, Free
  <2>5. TabShows(t)'
    BY <2>1, <2>3 DEF ShownInv, TabShows, At, Free
  <2> QED
    BY <2>2, <2>4, <2>5 DEF OrderFits
<1>6. ASSUME (\E o \in Order : ExpireOrder(o)) \/ (\E u \in User : Demote(u))
      PROVE  UNCHANGED <<sessions, req, screen, ghosts>>
  BY <1>6 DEF ExpireOrder, Demote, Revoke, server
<1> QED
  BY <1>1, <1>2, <1>3, <1>4, <1>5, <1>6 DEF Next, TabStep, ShownInv

\* The owner of an order is written once, from the session its request carried.
LEMMA OwnersStay ==
    ASSUME ServerInv, ShownInv, OwnersFit, Next
    PROVE  OwnersFit'
<1>0. order \in [Order -> OrderRows]
  BY DEF ServerInv, TypeOK
<1>1. CASE UNCHANGED order
  BY <1>1 DEF OwnersFit, OwnerFits
<1>2. ASSUME NEW o \in Order, NEW status, order' = [order EXCEPT ![o].status = status],
             order[o].status # "none"
      PROVE  OwnersFit'
  BY <1>0, <1>2 DEF OwnersFit, OwnerFits, OrderRows
<1>3. ASSUME NEW p \in Proc, CreateOrder(p) PROVE OwnersFit'
  <2> DEFINE new == [status |-> "PENDING", charged |-> FALSE, owner |-> SessionUser(req[p].token),
                     shown |-> placing[p[1]].shown, astray |-> placing[p[1]].astray]
  <2>1. ASSUME NEW o \in Order, order' = [order EXCEPT ![o] = new] PROVE OwnersFit'
    <3>1. At(p, "order", "start") /\ p[1] \in Tab /\ p = Page(p[1])
      <4>1. p[2] # "mount"
        BY <1>3 DEF ServerInv, RequestsFit, RequestFits, CreateOrder, At
      <4> QED
        BY <1>3, <4>1, StorefrontAssumption DEF Page, CreateOrder
    <3>2. placing[p[1]].astray \/ SessionUser(req[p].token) = placing[p[1]].shown
      BY <3>1 DEF ShownInv, OrderFits
    <3>3. new.astray = placing[p[1]].astray
      OBVIOUS
    <3>4. new.astray \/ new.owner = new.shown
      BY <3>2, <3>3
    <3>5. order'[o] = new /\ \A b \in Order \ {o} : order'[b] = order[b]
      BY <1>0, <2>1
    <3> QED
      BY <3>4, <3>5 DEF OwnersFit, OwnerFits
  <2> QED
    BY <1>1, <1>3, <2>1 DEF CreateOrder
<1>4. ASSUME NEW p \in Proc, Confirm(p) PROVE OwnersFit'
  BY <1>0, <1>4, ConfirmedOrder DEF OwnersFit, OwnerFits
<1>5. ASSUME NEW o \in Order, ExpireOrder(o) PROVE OwnersFit'
  BY <1>2, <1>5 DEF ExpireOrder
<1>6. ASSUME NEW p \in Proc, Serve(p) PROVE UNCHANGED order
  BY <1>6 DEF Serve
<1>7. ASSUME NEW s \in Tab, TabStep(s) PROVE UNCHANGED order
  BY <1>7 DEF TabStep, Reload, Orphaned, Mounted, LoggedIn, Logout, LoggedOut, Admin, AdminAnswered,
     PlaceOrder, OrderPlaced, GatewayReturns, ConfirmEffect, Confirmed, Submit
<1>8. ASSUME (\E k \in Token : Ends(k)) \/ (\E u \in User : Demote(u)) PROVE UNCHANGED order
  BY <1>8 DEF Ends, Demote
<1> QED
  BY <1>1, <1>3, <1>4, <1>5, <1>6, <1>7, <1>8 DEF Next, TabStep

LEMMA InitShown == ASSUME Init PROVE ShownInv /\ OwnersFit
<1>1. \A t \in Tab : /\ req[Mount(t)] = NoReq /\ req[Page(t)] = NoReq
                     /\ user[t] = None /\ token = None
                     /\ loading = [s \in Tab |-> FALSE]
  BY Processes DEF Init, SessionsInit
<1>2. \A t \in Tab : TabLoads(t)
  <2>1. \A t \in Tab : ~loading[t]
    BY Zenon DEF Init
  <2>2. \A t \in Tab : Free(Mount(t))
    BY <1>1, NoReqIs DEF Free
  <2> QED
    BY <2>1, <2>2 DEF TabLoads
<1>3. \A t \in Tab : TabShows(t) /\ OrderFits(t)
  BY <1>1, NoReqIs DEF TabShows, OrderFits, At, Free, SessionUser
<1>4. OwnersFit
  BY DEF Init, OwnersFit, OwnerFits, NoOrder
<1> QED
  BY <1>2, <1>3, <1>4 DEF ShownInv

\* The whole invariant.
StoreInv == ServerInv /\ PagesFit /\ ShownInv /\ OwnersFit

LEMMA StoreNext == ASSUME StoreInv, [Next]_vars PROVE StoreInv'
<1>1. ServerInv' /\ PagesFit'
  BY ServerNext, PagesNext DEF StoreInv
<1>2. CASE Next
  BY <1>1, <1>2, ShownStays, OwnersStay DEF StoreInv
<1>3. CASE UNCHANGED vars
  <2>1. ASSUME NEW t \in Tab PROVE TabLoads(t)'
    BY <1>3, Zenon DEF vars, screen, StoreInv, ShownInv, TabLoads, Free
  <2>2. ASSUME NEW t \in Tab PROVE TabShows(t)' /\ OrderFits(t)'
    BY <1>3 DEF vars, server, screen, ghosts, StoreInv, ShownInv, TabShows, OrderFits, At, Free,
       SessionUser
  <2>3. OwnersFit'
    BY <1>3 DEF vars, StoreInv, OwnersFit, OwnerFits
  <2> QED
    BY <1>1, <2>1, <2>2, <2>3 DEF StoreInv, ShownInv
<1> QED
  BY <1>2, <1>3

\* The token is shared by the tabs and the user is not: once nothing is under way, a tab
\* that no other tab's login, logout or lost session has overtaken shows the user of the
\* token, and an order that was placed there belongs to the user the tab showed.
THEOREM TabsShowTheirUser == Spec => []ShownUser
<1>1. Init => StoreInv
  BY InitTypes, InitFits, InitPages, InitShown DEF ServerInv, StoreInv
<1>2. StoreInv /\ [Next]_vars => StoreInv'
  BY StoreNext
<1>3. StoreInv => ShownUser
  <2>1. ASSUME ShownInv, Quiet, ServerInv, NEW t \in Tab \ astray
        PROVE  user[t] = SessionUser(token)
    <3>1. Free(Mount(t)) /\ Free(Page(t)) /\ RequestFits(Page(t))
      BY <2>1, Processes DEF Quiet, ServerInv, RequestsFit
    <3> QED
      BY <2>1, <3>1 DEF ShownInv, TabShows, RequestFits, Free
  <2> QED
    BY <2>1 DEF StoreInv, OwnersFit, OwnerFits, ShownUser
<1> QED
  BY <1>1, <1>2, <1>3, PTL DEF Spec
=============================================================================
