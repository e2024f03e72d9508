----------------------------- MODULE TossRetry -----------------------------
(***************************************************************************)
(* PaymentsService.requestTossWithRetry and its two callers: a request with *)
(* a timeout, repeated after a time-out, a network error or a 5xx, always   *)
(* under the same Idempotency-Key, while the requests that were given up    *)
(* may still reach the gateway in any order.                                *)
(***************************************************************************)
EXTENDS Naturals

CONSTANT Attempts      \* RETRY_DELAYS_MS.length + 1

ASSUME AttemptsAssumption == Attempts \in Nat \ {0}

VARIABLES
    kind,        \* "confirm" or "cancel": which caller
    attempt,     \* the attempt under way
    phase,       \* where the loop is
    reply,       \* what has come back for this attempt
    result,      \* what the caller makes of it
    inflight,    \* attempts whose request is still on the network
    \* the gateway
    earlier,     \* it had done this before the call, and forgotten the key
    executed,    \* it has captured (refunded) the payment
    remembered   \* the outcome it replays, per idempotency key

client  == <<kind, attempt, phase, result>>
server  == <<earlier, executed, remembered>>
vars == <<client, reply, inflight, server>>

Refusals == {"declined", "already"}

\* mutant: every attempt is a request of its own
FreshKey(a) == a

\* `confirm:${orderId}` and `cancel:${paymentKey}` are the same on every attempt.
IdempotencyKey(a) == 1

Init ==
    /\ kind \in {"confirm", "cancel"}
    /\ attempt = 1
    /\ phase = "send"
    /\ reply = "none"
    /\ result = "none"
    /\ inflight = {}
    /\ earlier \in BOOLEAN
    /\ executed = earlier
    /\ remembered = [k \in 1 .. Attempts |-> "none"]

-----------------------------------------------------------------------------
(* The client.                                                              *)

\* mutant: the loop forgets to count
SameAttempt(a) == a

NextAttempt(a) == a + 1

Send ==
    /\ phase = "send"
    /\ inflight' = inflight \cup {attempt}
    /\ reply' = "none"
    /\ phase' = "await"
    /\ UNCHANGED <<kind, attempt, result, server>>

Finish(r) == phase' = "done" /\ result' = r

\* mutant: one attempt too many
SleepOnceMore ==
    \/ attempt <= Attempts /\ phase' = "sleep" /\ UNCHANGED result
    \/ attempt > Attempts /\ Finish("failed")

\* Sleep and try again, or leave the loop for good.
SleepOrFail ==
    \/ attempt < Attempts /\ phase' = "sleep" /\ UNCHANGED result
    \/ attempt = Attempts /\ Finish("failed")

\* The abort timer fires, or the connection breaks, before or after the request
\* has left the machine.
FetchThrows ==
    /\ phase = "await"
    /\ SleepOrFail
    /\ reply' = "none"
    /\ \/ UNCHANGED inflight
       \/ inflight' = inflight \ {attempt}
    /\ UNCHANGED <<kind, attempt, server>>

\* A 5xx is retried; the callers read the body of every other error.
Retried(code) == code = "error" /\ attempt < Attempts

Respond ==
    /\ phase = "await"
    /\ \/ reply = "ok" /\ Finish("ok")
       \/ Retried(reply) /\ phase' = "sleep" /\ UNCHANGED result
       \/ reply \notin {"none", "ok"} /\ ~Retried(reply)
             /\ phase' = "body" /\ UNCHANGED result
    /\ UNCHANGED <<kind, attempt, reply, inflight, server>>

\* mutant: any refusal is taken for a success
AcceptsRefusal(code) == code \in Refusals

\* confirmWithToss takes ALREADY_PROCESSED_PAYMENT for success, cancel nothing.
Accepts(code) == kind = "confirm" /\ code = "already"

\* The timer is cleared by now: only the HTTP client limits how long this takes.
ReadBody ==
    /\ phase = "body"
    /\ \/ Accepts(reply) /\ Finish("ok")
       \/ Finish("failed")         \* another code, or an unreadable body
    /\ UNCHANGED <<kind, attempt, reply, inflight, server>>

Wake ==
    /\ phase = "sleep"
    /\ attempt' = NextAttempt(attempt)
    /\ phase' = "send"
    /\ UNCHANGED <<kind, result, reply, inflight, server>>

-----------------------------------------------------------------------------
(* The gateway (external): it executes a payment once, replays what it did  *)
(* under a key it knows, and reports what was done under another one.       *)

Execute(k, code) ==
    \/ /\ remembered[k] # "none"
       /\ code \in {remembered[k], "error"}
       /\ UNCHANGED <<executed, remembered>>
    \/ /\ remembered[k] = "none" /\ executed
       /\ code \in {"already", "error"}
       /\ UNCHANGED <<executed, remembered>>
    \/ /\ remembered[k] = "none" /\ ~executed
       /\ code \in {"ok", "error"}
       /\ executed' = TRUE
       /\ remembered' = [remembered EXCEPT ![k] = "ok"]
    \/ /\ remembered[k] = "none" /\ ~executed
       /\ code = "declined"
       /\ remembered' = [remembered EXCEPT ![k] = "declined"]
       /\ UNCHANGED executed
    \/ /\ remembered[k] = "none" /\ ~executed
       /\ code = "error"
       /\ UNCHANGED <<executed, remembered>>

\* A request arrives; nobody waits for the answer to one that was given up.
Receive(a) ==
    /\ a \in inflight
    /\ inflight' = inflight \ {a}
    /\ \E code \in {"ok", "error"} \cup Refusals :
          /\ Execute(IdempotencyKey(a), code)
          /\ reply' = IF phase = "await" /\ a = attempt THEN code ELSE reply
    /\ UNCHANGED <<client, earlier>>

-----------------------------------------------------------------------------
Client == Send \/ FetchThrows \/ Respond \/ ReadBody \/ Wake

Next == Client \/ \E a \in 1 .. Attempts : Receive(a)

\* The timers and the event loop run; nothing makes the gateway answer.
Spec == Init /\ [][Next]_vars /\ WF_vars(Client)

TypeOK ==
    /\ kind \in {"confirm", "cancel"}
    /\ attempt \in 1 .. Attempts
    /\ phase \in {"send", "await", "body", "sleep", "done"}
    /\ reply \in {"none", "ok", "error"} \cup Refusals
    /\ result \in {"none", "ok", "failed"}
    /\ inflight \subseteq 1 .. Attempts
    /\ earlier \in BOOLEAN
    /\ executed \in BOOLEAN
    /\ remembered \in [1 .. Attempts -> {"none", "ok", "declined"}]

-----------------------------------------------------------------------------
(* Properties.                                                              *)

\* When the gateway refuses a call, it has not carried it out behind the
\* client's back on an earlier attempt whose answer was lost: the repeated
\* Idempotency-Key makes it replay that answer.  (Not so for a payment it had
\* dealt with before this call.)
RefusalMeansUndone ==
    phase = "done" /\ result = "failed" /\ reply \in Refusals /\ ~earlier
        => ~executed

\* Whatever the gateway and the network do, the handler, which holds a row lock
\* meanwhile, is told something in the end.
CallEnds == <>(phase = "done")

\* Requests that overtake one another, time out or arrive after the loop gave up
\* are, for the handler, one call.
Call == INSTANCE PaymentCall WITH
    answer <- IF phase = "done" THEN result ELSE "waiting",
    done   <- executed,
    late   <- phase = "done" /\ result = "failed" /\ inflight # {} /\ ~executed
CallSpec == Call!Spec
=============================================================================
