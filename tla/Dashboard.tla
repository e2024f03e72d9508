----------------------------- MODULE Dashboard -----------------------------
(***************************************************************************)
(* AdminPage in the browser of one administrator: its event stream, the     *)
(* stock it keeps, and the list of the section that is open, over Catalog,  *)
(* where the requests of this administrator (Me) and of others are served.  *)
(*                                                                          *)
(* Every render of AdminPage makes a new onAuthError, and every effect      *)
(* depends on it.  App renders AdminPage again whenever the location or the *)
(* menu changes: the stream is closed and a new one asked for, and what is  *)
(* shown is loaded again.  A closure of the stream effect is a number.      *)
(***************************************************************************)
EXTENDS Catalog

CONSTANTS
    Me,          \* the process that serves this administrator's own requests
    Traffic,     \* bound: kinds of requests others send while a section is open
    Sections,    \* sections of AdminPage that are opened
    MaxLoads,    \* bound: loads in flight, and events on the stream
    MaxTurns,    \* bound: renders, moves to another section or page
    MaxFaults,   \* bound: failures of the network or of the server
    MaxEvents    \* bound: requests, turns and faults together

ASSUME DashboardAssumption ==
    /\ Me \in Proc
    /\ Sections \subseteq {"orders", "products", "inventory"}
    /\ MaxLoads \in Nat /\ MaxTurns \in Nat /\ MaxFaults \in Nat /\ MaxEvents \in Nat

VARIABLES
    live,        \* the closure of the effect that is current, 0 when AdminPage is not mounted
    phase,       \* what each closure has come to
    connected,
    inbox,       \* events on the stream that the browser has not seen
    section, query,
    shown,       \* the state of AdminPage (stock) and of the open section (list)
    asked,       \* loads of the stock and of the list the server has not read for yet
    answers,     \* what was read for the others and has not arrived, in the order of reading
    click,       \* what the handler of Me's own request closed over
    turns, faults

stream == <<live, phase, connected, inbox>>
screen == <<section, query, shown, asked, answers, click>>
vars   == <<rows, requests, late, stream, screen, turns, faults>>

Closure == 1 .. MaxTurns + 1
NoClick == [query |-> "none", connected |-> FALSE, here |-> FALSE]
Tabs  == {"all", "PAID"}
Pages == {"first", "second"}
Queries == [orders |-> Tabs, products |-> Pages, inventory |-> {"none"}]
Home    == [orders |-> "all", products |-> "first", inventory |-> "none"]

What == {"stock", "list"}
Ask(what, queries) == [asked EXCEPT ![what] = @ \o queries]
ListLoad(s, q) == IF s = "inventory" THEN <<>> ELSE <<q>>
Mounted(s)     == [stock |-> <<"none">>, list |-> ListLoad(s, Home[s])]
Room           == Len(asked'.stock) + Len(asked'.list) + Len(answers.stock) + Len(answers.list)
                    <= MaxLoads

\* What a load reads, of the open section or of the shell.
ListOf(s, q) ==
    CASE s = "orders"    -> RecentOrders(q)
      [] s = "products"  -> AdminProducts(q)
      [] s = "inventory" -> {}
Reading(what, q) == IF what = "stock" THEN StockOverview ELSE ListOf(section, q)

Nothing(what) == IF what = "stock" THEN [o \in Option |-> None] ELSE {}

\* AdminPage has been mounted, its loads answered and its stream opened; Return is how.
Init ==
    /\ CatalogInit
    /\ live = 1
    /\ phase = [e \in Closure |-> IF e = 1 THEN "open" ELSE "none"]
    /\ connected = TRUE
    /\ inbox = <<>>
    /\ section \in Sections /\ query = Home[section]
    /\ shown = [stock |-> StockOverview, list |-> ListOf(section, query)]
    /\ asked = [w \in What |-> <<>>] /\ answers = [w \in What |-> <<>>]
    /\ click = NoClick
    /\ turns = 0 /\ faults = 0

Serving  == UNCHANGED <<rows, requests, late>>
Within   == sent + turns + faults < MaxEvents
Turn     == turns < MaxTurns /\ Within /\ turns' = turns + 1 /\ UNCHANGED faults
Fault    == faults < MaxFaults /\ Within /\ faults' = faults + 1 /\ UNCHANGED turns
Expected == UNCHANGED <<turns, faults>>

-----------------------------------------------------------------------------
(* The requests, and the events they leave on the stream.                   *)

Request(p, j) ==
    /\ p # Me /\ j.kind \in Traffic[section] /\ Within /\ Begin(p, j)
    /\ UNCHANGED <<rows, late, stream, screen, turns, faults>>

\* Buttons: on the rows a section shows, and the form for a new product.
OrderButtons ==
    {j \in Jobs : j.kind = "ship" /\ [order |-> j.order, shipped |-> FALSE] \in shown.list}
ProductButtons ==
    {j \in Jobs : j.kind \in {"delete", "add"} /\ \E r \in shown.list : r.product = j.product}
ProductForm == {j \in Jobs : j.kind = "create"}
StockButtons == {j \in Jobs : j.kind = "restock" /\ shown.stock[j.option] # None}

Offers ==
    CASE section = "orders"    -> OrderButtons
      [] section = "products"  -> ProductButtons \cup ProductForm
      [] section = "inventory" -> StockButtons

\* Whether the handler loads the list again: it uses `connected` as of the click.
Reloads == section = "products" \/ (section = "orders" /\ ~click.connected)

Click(j) ==
    /\ live # 0 /\ j \in Offers /\ Within /\ Begin(Me, j)
    /\ click' = [query |-> query, connected |-> section = "orders" /\ connected, here |-> TRUE]
    /\ UNCHANGED <<rows, late, stream, section, query, shown, asked, answers, turns, faults>>

Serve(p) == /\ Write(p)
            /\ UNCHANGED <<stream, screen, turns, faults>>

\* DomainEventsService has no memory: without a stream the events are lost.
Emit(p) ==
    LET events == Events(job[p]) IN
    /\ Announce(p)
    /\ IF live # 0 /\ phase[live] = "open"
       THEN /\ Len(inbox) + Len(events) <= MaxLoads
            /\ inbox' = inbox \o events
       ELSE UNCHANGED inbox
    /\ UNCHANGED <<live, phase, connected, screen, turns, faults>>

Reply(p) == /\ p # Me /\ Answer(p)
            /\ UNCHANGED <<stream, screen, turns, faults>>

\* onCreated moves to the first page.
Landing(j) == IF j.kind = "create" THEN "first" ELSE query

\* The load after the answer is for the query of the click; a move brings another.
MyReply ==
    /\ Answer(Me)
    /\ IF pc[Me] = "ok" /\ click.here /\ Reloads
       THEN LET home == Landing(job[Me]) IN
            /\ query' = home
            /\ asked' = Ask("list", IF home # query THEN <<click.query, home>> ELSE <<click.query>>)
            /\ Room
       ELSE UNCHANGED <<query, asked>>
    /\ click' = NoClick
    /\ UNCHANGED <<stream, section, shown, answers, turns, faults>>

\* The handler shows an error, whatever the request has done.
MyReplyLost ==
    /\ Answer(Me) /\ Fault
    /\ click' = NoClick
    /\ UNCHANGED <<stream, section, query, shown, asked, answers>>

-----------------------------------------------------------------------------
(* Loads: answers may arrive in another order than they were read in.       *)

Without(s, i) == [j \in 1 .. Len(s) - 1 |-> IF j < i THEN s[j] ELSE s[j + 1]]

Read(what, i) ==
    /\ asked' = [asked EXCEPT ![what] = Without(@, i)]
    /\ answers' = [answers EXCEPT ![what] = Append(@, Reading(what, asked[what][i]))]
    /\ Serving /\ Expected
    /\ UNCHANGED <<stream, section, query, shown, click>>

Show(what, i) ==
    /\ shown' = [shown EXCEPT ![what] = answers[what][i]]
    /\ answers' = [answers EXCEPT ![what] = Without(@, i)]
    /\ Serving /\ Expected
    /\ UNCHANGED <<stream, section, query, asked, click>>

\* A failed load leaves what was shown.
LoadFails(what, i) ==
    /\ asked' = [asked EXCEPT ![what] = Without(@, i)]
    /\ Serving /\ Fault
    /\ UNCHANGED <<stream, section, query, shown, answers, click>>

-----------------------------------------------------------------------------
(* The event stream.                                                        *)

Phase(e, label) == phase' = [phase EXCEPT ![e] = label]
Streaming == Serving /\ UNCHANGED screen

\* mutant: connect() does not ask whether it has been cancelled.
TicketIssuedAnyway(e) ==
    /\ phase[e] = "ticket"
    /\ Phase(e, "connecting")
    /\ Streaming /\ Expected /\ UNCHANGED <<live, connected, inbox>>

TicketIssued(e) ==
    /\ phase[e] = "ticket"
    /\ Phase(e, IF e = live THEN "connecting" ELSE "closed")
    /\ Streaming /\ Expected /\ UNCHANGED <<live, connected, inbox>>

TicketFails(e) ==
    /\ phase[e] = "ticket" /\ Fault
    /\ Phase(e, IF e = live THEN "timer" ELSE "closed")
    /\ Streaming /\ UNCHANGED <<live, connected, inbox>>

\* AdminSseGuard deletes the ticket, and events() subscribes.
Admit(e) ==
    /\ phase[e] = "connecting"
    /\ Phase(e, "open")
    /\ connected' = TRUE
    /\ Streaming /\ Expected /\ UNCHANGED <<live, inbox>>

OnError(e) ==
    /\ Phase(e, "timer")
    /\ connected' = FALSE
    /\ Streaming /\ UNCHANGED <<live, inbox>>

\* The ticket has expired, or the connection fails.
Refused(e) == phase[e] = "connecting" /\ Fault /\ OnError(e)

\* The server or the network drops the stream with what is on it.
Break(e) ==
    /\ phase[e] = "open" /\ Fault
    /\ Phase(e, "broken")
    /\ inbox' = <<>>
    /\ Streaming /\ UNCHANGED <<live, connected>>

Noticed(e) == phase[e] = "broken" /\ Expected /\ OnError(e)

\* mutant: the consumed ticket is used again, and refused.
ReuseTicket(e) == phase[e] = "timer" /\ UNCHANGED vars

Reconnect(e) ==
    /\ phase[e] = "timer"
    /\ Phase(e, "ticket")
    /\ Streaming /\ Expected /\ UNCHANGED <<live, connected, inbox>>

\* Whatever order events and answers come in, the last one is shown.
OnStockUpdate ==
    LET ev == Head(inbox) IN
    /\ live # 0 /\ phase[live] = "open" /\ inbox # <<>> /\ ev.type = "stock-update"
    /\ inbox' = Tail(inbox)
    /\ shown' = [shown EXCEPT !.stock[ev.option] = ev.stock]
    /\ Serving /\ Expected
    /\ UNCHANGED <<live, phase, connected, section, query, asked, answers, click>>

\* The nonce: the orders that are shown are loaded again, for the query of now.
OnOrderUpdate ==
    /\ live # 0 /\ phase[live] = "open" /\ inbox # <<>> /\ Head(inbox).type = "order-update"
    /\ inbox' = Tail(inbox)
    /\ asked' = IF section = "orders" THEN Ask("list", <<query>>) ELSE asked
    /\ Room
    /\ Serving /\ Expected
    /\ UNCHANGED <<live, phase, connected, section, query, shown, answers, click>>

-----------------------------------------------------------------------------
(* Renders, and moves of the administrator.                                 *)

NewClosure == Cardinality({e \in Closure : phase[e] # "none"}) + 1
Cleanup == [phase EXCEPT ![live] = IF @ = "ticket" THEN "ticket" ELSE "closed"]

\* `connected` keeps its value while the new closure has no stream yet.
Rerender ==
    /\ live # 0 /\ Turn
    /\ live' = NewClosure
    /\ phase' = [Cleanup EXCEPT ![NewClosure] = "ticket"]
    /\ inbox' = <<>>
    /\ asked' = [stock |-> Append(asked.stock, "none"), list |-> asked.list \o ListLoad(section, query)]
    /\ Room
    /\ Serving /\ UNCHANGED <<connected, section, query, shown, answers, click>>

\* Also what a 401 leads to: onAuthError logs the administrator out.
Leave ==
    /\ live # 0 /\ Turn
    /\ live' = 0
    /\ phase' = Cleanup
    /\ connected' = FALSE /\ inbox' = <<>>
    /\ shown' = [w \in What |-> Nothing(w)]
    /\ asked' = [w \in What |-> <<>>] /\ answers' = [w \in What |-> <<>>]
    /\ click' = [click EXCEPT !.here = FALSE]
    /\ Serving /\ UNCHANGED <<section, query>>

\* Mounted again: nothing is kept of the last time.
Return ==
    /\ live = 0 /\ Expected
    /\ live' = NewClosure
    /\ phase' = [phase EXCEPT ![NewClosure] = "ticket"]
    /\ section' \in Sections /\ query' = Home[section']
    /\ asked' = Mounted(section')
    /\ Serving /\ UNCHANGED <<connected, inbox, shown, answers, click>>

\* mutant: the section opens with the query of the one before.
KeptQuery(s) == query

FirstQuery(s) == Home[s]

\* The section is another component: loads of the one before are of no use.
Open(s) ==
    /\ live # 0 /\ s # section /\ s \in Sections /\ Turn
    /\ section' = s /\ query' = FirstQuery(s)
    /\ shown' = [shown EXCEPT !.list = {}]
    /\ asked' = [asked EXCEPT !.list = ListLoad(s, FirstQuery(s))]
    /\ answers' = [answers EXCEPT !.list = <<>>]
    /\ click' = [click EXCEPT !.here = FALSE]
    /\ Serving /\ UNCHANGED stream

SetQuery(q) ==
    /\ live # 0 /\ q \in Queries[section] \ {query} /\ Turn
    /\ query' = q
    /\ asked' = Ask("list", <<q>>)
    /\ Room
    /\ Serving /\ UNCHANGED <<stream, section, shown, answers, click>>

-----------------------------------------------------------------------------
Requests ==
    \/ \E p \in Proc : (\E j \in Jobs : Request(p, j)) \/ Serve(p) \/ Emit(p) \/ Reply(p)
    \/ \E j \in Jobs : Click(j)
    \/ MyReply \/ MyReplyLost

Loads ==
    \E what \in What :
      \/ \E i \in DOMAIN asked[what] : Read(what, i) \/ LoadFails(what, i)
      \/ \E i \in DOMAIN answers[what] : Show(what, i)

Stream ==
    \/ \E e \in Closure : \/ TicketIssued(e) \/ TicketFails(e) \/ Admit(e) \/ Refused(e)
                          \/ Break(e) \/ Noticed(e) \/ Reconnect(e)
    \/ OnStockUpdate \/ OnOrderUpdate

Moves ==
    \/ Rerender \/ Leave \/ Return
    \/ \E s \in Sections : Open(s)
    \/ \E q \in Tabs \cup Pages : SetQuery(q)

Next == Requests \/ Loads \/ Stream \/ Moves

\* The browser and the server answer; nothing is assumed of administrators or of the network.
Fairness ==
    \A e \in Closure : WF_vars(TicketIssued(e)) /\ WF_vars(Admit(e))
                       /\ WF_vars(Noticed(e)) /\ WF_vars(Reconnect(e))

Spec == Init /\ [][Next]_vars /\ Fairness

-----------------------------------------------------------------------------
(* Properties.                                                              *)

StreamEvents == [type : {"stock-update"}, option : Option, stock : Nat]
             \cup {[type |-> "order-update"]}

AllQueries == Tabs \cup Pages \cup {"none"}
StockRows == [Option -> Nat \cup {None}]
ListRows  == SUBSET ([order : Order, shipped : BOOLEAN] \cup [product : Product, options : SUBSET Option])
Phases == {"none", "ticket", "connecting", "open", "broken", "timer", "closed"}

TypeOK ==
    /\ CatalogTypeOK
    /\ live \in 0 .. MaxTurns + 1
    /\ phase \in [Closure -> Phases]
    /\ connected \in BOOLEAN
    /\ inbox \in Seq(StreamEvents)
    /\ section \in Sections /\ query \in Queries[section]
    /\ shown \in [stock : StockRows, list : ListRows]
    /\ asked \in [stock : Seq({"none"}), list : Seq(AllQueries)]
    /\ answers \in [stock : Seq(StockRows), list : Seq(ListRows)]
    /\ click \in [query : AllQueries, connected : BOOLEAN, here : BOOLEAN]
    /\ turns \in 0 .. MaxTurns /\ faults \in 0 .. MaxFaults

\* Renders come while a ticket is being issued, a stream opens or a timer runs:
\* only the closure of the last one has or awaits a stream, and it always does,
\* however its attempts fail.
OneStream ==
    /\ \A e \in Closure \ {live} : phase[e] \in {"none", "ticket", "closed"}
    /\ live # 0 => phase[live] \in {"ticket", "connecting", "open", "broken", "timer"}

AtRest == /\ live # 0 /\ inbox = <<>>
          /\ \A w \in What : asked[w] = <<>> /\ answers[w] = <<>>
          /\ \A p \in Proc : pc[p] = "idle"

\* What the admin pages promise: while the stream is connected, one sees what one's
\* own actions have done.  The inventory shows the stock the shell keeps, which a
\* restock brings up to date through the stream; the orders are not loaded again
\* after an action because the stream will do it.  (Under a filter, answers of the
\* filter before may still come last: all orders are asked for here.)
ConnectedShows ==
    AtRest /\ phase[live] = "open" =>
        /\ section = "inventory" => shown.stock = StockOverview
        /\ section = "orders" /\ query = "all" => shown.list = RecentOrders("all")

\* A mounted AdminPage gets a stream again after every failure.
Reconnects == []<>(live = 0 \/ phase[live] = "open")
=============================================================================
