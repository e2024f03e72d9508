---------------------------- MODULE PaymentCall ----------------------------
(***************************************************************************)
(* What a handler may assume of one call to the payment gateway: this is    *)
(* the view module Orders takes of it (PgSilent, PgConfirmOk and PgCancelOk, *)
(* PgFailed, PgLate).  "ok" means that the payment was captured or refunded; *)
(* "failed" means nothing: it may have been, or may still be.               *)
(***************************************************************************)

VARIABLES
    answer,    \* what the handler has been told: "waiting", "ok" or "failed"
    done,      \* the gateway has captured or refunded the payment
    late       \* a request may still take effect after the handler gave up

callVars == <<answer, done, late>>

Init ==
    /\ answer = "waiting"
    /\ done \in BOOLEAN
    /\ late = FALSE

Silent ==
    /\ answer = "waiting"
    /\ done' = TRUE
    /\ UNCHANGED <<answer, late>>

Ok ==
    /\ answer = "waiting"
    /\ answer' = "ok"
    /\ done' = TRUE
    /\ UNCHANGED late

Fail ==
    /\ answer = "waiting"
    /\ answer' = "failed"
    /\ late' \in BOOLEAN
    /\ UNCHANGED done

\* The late request takes effect, or comes to nothing.
Late ==
    /\ late
    /\ late' = FALSE
    /\ \/ done' = TRUE
       \/ UNCHANGED done
    /\ UNCHANGED answer

Next == Silent \/ Ok \/ Fail \/ Late

Spec == Init /\ [][Next]_callVars
=============================================================================
