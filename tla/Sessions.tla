------------------------------ MODULE Sessions ------------------------------
(***************************************************************************)
(* Accounts and login sessions on the server: AuthService, SessionGuard and *)
(* AdminGuard, statement by statement.  Accounts are rows of users, sessions *)
(* are Redis keys that expire; a session copies the role its account had.   *)
(* What a request does to the cart is in Cart: here its failure counts.     *)
(***************************************************************************)
EXTENDS Naturals, FiniteSets

CONSTANTS
    Proc,        \* requests being served at the same time
    User,        \* bound: ids of rows of users
    Email, Token,
    Begun,       \* the accounts there at first: their email
    Admins,      \* those of them whose role is admin
    None

Roles == {"none", "user", "admin"}
SessionData == [user : User, role : Roles]

ASSUME SessionsAssumption ==
    /\ User \subseteq Nat
    /\ \E B \in SUBSET User : Begun \in [B -> Email]
    /\ \A u, v \in DOMAIN Begun : Begun[u] = Begun[v] => u = v   \* UNIQUE from the start
    /\ Admins \subseteq DOMAIN Begun
    /\ None \notin User /\ None \notin Email /\ None \notin Token
    /\ None \notin SessionData

VARIABLES
    users,       \* email and role of each account
    sessions,    \* what Redis holds for each token
    minted,      \* tokens that have been made
    req          \* the requests

server == <<users, sessions, minted>>

NoUser == [email |-> None, role |-> "none"]
NoReq  == [kind |-> "none", at |-> "idle", email |-> None, token |-> None, user |-> None,
           denied |-> FALSE]

SessionsInit ==
    /\ users = [u \in User |->
                  IF u \in DOMAIN Begun
                  THEN [email |-> Begun[u], role |-> IF u \in Admins THEN "admin" ELSE "user"]
                  ELSE NoUser]
    /\ sessions = [t \in Token |-> None]
    /\ minted = {}
    /\ req = [p \in Proc |-> NoReq]

-----------------------------------------------------------------------------
At(p, kind, label) == req[p].kind = kind /\ req[p].at = label
GoTo(p, label) == req' = [req EXCEPT ![p].at = label]

\* getSessionUserId: the account of a token, None without a session.
SessionUser(t) == IF t = None \/ sessions[t] = None THEN None ELSE sessions[t].user

\* denied is a ghost: when it was sent, its token was nobody's or of no administrator.
Asking(kind, email, t) ==
    [NoReq EXCEPT !.kind = kind, !.at = "start", !.email = email, !.token = t,
                  !.denied = SessionUser(t) = None \/ users[SessionUser(t)].role # "admin"]

Send(p, kind, email, t) ==
    req[p].at = "idle" /\ req' = [req EXCEPT ![p] = Asking(kind, email, t)]

Accounts(email) == {u \in User : users[u].email = email}

\* register: the email is looked up, then a password is hashed.
FindEmail(p) ==
    /\ At(p, "register", "start")
    /\ GoTo(p, IF Accounts(req[p].email) # {} THEN "failed" ELSE "insert")
    /\ UNCHANGED server

\* mutant: users.email is not UNIQUE.
EmailFree(email) == {}

\* Accounts the UNIQUE constraint on users.email finds.
EmailTaken(email) == Accounts(email)

SaveUser(p) ==
    /\ At(p, "register", "insert")
    /\ \E u \in User : users[u] = NoUser   \* bound
    /\ LET id == CHOOSE u \in User : users[u] = NoUser IN
       IF EmailTaken(req[p].email) # {}
       THEN GoTo(p, "failed") /\ UNCHANGED users
       ELSE /\ users' = [users EXCEPT ![id] = [email |-> req[p].email, role |-> "user"]]
            /\ req' = [req EXCEPT ![p].at = "merge", ![p].user = id]
    /\ UNCHANGED <<sessions, minted>>

\* login; a wrong password ends like an unknown email.
FindUser(p) ==
    /\ At(p, "login", "start")
    /\ IF Accounts(req[p].email) = {}
       THEN GoTo(p, "failed")
       ELSE \E u \in Accounts(req[p].email) :
                req' = [req EXCEPT ![p].at = "merge", ![p].user = u]
    /\ UNCHANGED server

\* mergeGuestCartIntoUser returns or throws: an account made is not unmade.
MergeCart(p) ==
    /\ req[p].at = "merge"
    /\ \E end \in {"session", "failed"} : GoTo(p, end)
    /\ UNCHANGED server

\* mutant: the session is kept under the email.
SessionByEmail(u) == [user |-> users[u].email, role |-> users[u].role]

\* SessionData, as the account was when it logged in.
SessionOf(u) == [user |-> u, role |-> users[u].role]

CreateSession(p) ==
    /\ req[p].at = "session"
    /\ \E t \in Token \ minted :
         /\ minted' = minted \cup {t}
         /\ sessions' = [sessions EXCEPT ![t] = SessionOf(req[p].user)]
         /\ req' = [req EXCEPT ![p].at = "done", ![p].token = t]
    /\ UNCHANGED users

\* logout deletes the key, whether there is one or not.
DropSession(p) ==
    /\ At(p, "logout", "start")
    /\ sessions' = [sessions EXCEPT ![req[p].token] = None]
    /\ GoTo(p, "done")
    /\ UNCHANGED <<users, minted>>

\* SessionGuard and me.
ResolveSession(p) ==
    /\ At(p, "me", "start")
    /\ LET u == SessionUser(req[p].token) IN
       req' = [req EXCEPT ![p].at = IF u = None THEN "failed" ELSE "done", ![p].user = u]
    /\ UNCHANGED server

\* AdminGuard reads the session, then the account.
GuardSession(p) ==
    /\ At(p, "admin", "start")
    /\ LET u == SessionUser(req[p].token) IN
       req' = [req EXCEPT ![p].at = IF u = None THEN "failed" ELSE "role", ![p].user = u]
    /\ UNCHANGED server

\* mutant: the role is taken from the session.
CachedRole(p) == IF sessions[req[p].token] = None THEN "none" ELSE sessions[req[p].token].role

RoleOf(p) == users[req[p].user].role

GuardRole(p) ==
    /\ At(p, "admin", "role")
    /\ GoTo(p, IF RoleOf(p) = "admin" THEN "done" ELSE "failed")
    /\ UNCHANGED server

\* An account loses its role: nothing in src/ does this, an operator does.
Revoke(u) ==
    /\ users[u].role = "admin"
    /\ users' = [users EXCEPT ![u].role = "user"]
    /\ UNCHANGED <<sessions, minted, req>>

\* SESSION_TTL_SECONDS after it was made.
ExpireSession(t) ==
    /\ sessions[t] # None
    /\ sessions' = [sessions EXCEPT ![t] = None]
    /\ UNCHANGED <<users, minted, req>>

ServeAccount(p) ==
    \/ FindEmail(p) \/ SaveUser(p) \/ FindUser(p) \/ MergeCart(p) \/ CreateSession(p)
    \/ DropSession(p) \/ ResolveSession(p) \/ GuardSession(p) \/ GuardRole(p)

-----------------------------------------------------------------------------
Requests ==
    [kind : {"none", "me", "login", "register", "logout", "admin", "order", "confirm"},
     at : {"idle", "start", "insert", "merge", "session", "role", "done", "failed"},
     email : Email \cup {None}, token : Token \cup {None}, user : User \cup {None},
     denied : BOOLEAN]

SessionsTypeOK ==
    /\ users \in [User -> [email : Email \cup {None}, role : Roles]]
    /\ sessions \in [Token -> SessionData \cup {None}]
    /\ minted \subseteq Token
    /\ req \in [Proc -> Requests]

\* Requests to register look an email up and insert later: however they meet, an
\* email has one account.
OneAccount ==
    \A u, v \in User : u # v /\ users[u] # NoUser => users[u].email # users[v].email

\* A session keeps the role it was made with; an administrator who has lost the
\* role, or logged out, before a request is sent is refused by AdminGuard all the
\* same.  (AdminSseGuard is not asked about roles: it admits to the event stream
\* whoever has a ticket, which AdminGuard let be issued.)
RightsEnd == \A p \in Proc : At(p, "admin", "done") => ~req[p].denied
=============================================================================
