--------------------------- MODULE TossRetryProofs --------------------------
(***************************************************************************)
(* Theorems about the gateway call and its retries, for any number of       *)
(* attempts.                                                                *)
(***************************************************************************)
EXTENDS TossRetry, TLAPS

-----------------------------------------------------------------------------
(* The inductive invariant.                                                 *)

\* The loop sleeps only while attempts are left, and has a result when it is done.
LoopFits ==
    /\ phase = "sleep" => attempt < Attempts
    /\ phase = "done" <=> result # "none"

\* What the gateway remembers under the one key of the call is what it did.
KeyTruthful ==
    LET memory == remembered[IdempotencyKey(attempt)] IN
    /\ memory = "ok" => executed
    /\ ~earlier /\ executed => memory = "ok"

\* What the client was told is still so: no attempt that overtakes another one,
\* or arrives after its timer, makes an answer wrong.
RepliesTrue ==
    /\ reply \in {"ok", "already"} => executed
    /\ reply = "already" => earlier
    /\ reply = "declined" => remembered[IdempotencyKey(attempt)] = "declined"
    /\ result = "ok" => executed

CallInv == TypeOK /\ LoopFits /\ KeyTruthful /\ RepliesTrue

LEMMA InitCallInv == Init => CallInv
<1> SUFFICES ASSUME Init PROVE CallInv
  OBVIOUS
<1> USE AttemptsAssumption
<1>1. 1 \in 1 .. Attempts
  OBVIOUS
<1>2. remembered[1] = "none"
  BY <1>1 DEF Init
<1>3. TypeOK
  BY <1>1 DEF Init, TypeOK
<1>4. LoopFits /\ KeyTruthful /\ RepliesTrue
  BY <1>2 DEF Init, LoopFits, KeyTruthful, RepliesTrue, IdempotencyKey
<1> QED
  BY <1>3, <1>4 DEF CallInv

\* The client's own steps leave the gateway alone.
LEMMA ClientKeeps ==
    ASSUME CallInv, Client
    PROVE  CallInv'
<1> USE AttemptsAssumption DEF CallInv, TypeOK, LoopFits, Finish, SleepOrFail,
        Retried, Accepts, Refusals, NextAttempt
<1>1. UNCHANGED server
  BY DEF Client, Send, FetchThrows, Respond, ReadBody, Wake
<1>2. KeyTruthful'
  BY <1>1 DEF KeyTruthful, IdempotencyKey, server
<1>3. TypeOK'
  <2>1. CASE Send
    BY <2>1 DEF Send, server
  <2>2. CASE FetchThrows
    BY <2>2 DEF FetchThrows, server
  <2>3. CASE Respond
    BY <2>3 DEF Respond, server
  <2>4. CASE ReadBody
    BY <2>4 DEF ReadBody, server
  <2>5. CASE Wake
    BY <2>5 DEF Wake, server
  <2> QED
    BY <2>1, <2>2, <2>3, <2>4, <2>5 DEF Client
<1>4. LoopFits'
  <2>1. CASE Send
    BY <2>1 DEF Send
  <2>2. CASE FetchThrows
    BY <2>2 DEF FetchThrows
  <2>3. CASE Respond
    BY <2>3 DEF Respond
  <2>4. CASE ReadBody
    BY <2>4 DEF ReadBody
  <2>5. CASE Wake
    BY <2>5 DEF Wake
  <2> QED
    BY <2>1, <2>2, <2>3, <2>4, <2>5 DEF Client
<1>5. RepliesTrue'
  <2>1. reply' = reply \/ reply' = "none"
    BY DEF Client, Send, FetchThrows, Respond, ReadBody, Wake
  <2>2. result' = "ok" => result = "ok" \/ reply \in {"ok", "already"}
    BY DEF Client, Send, FetchThrows, Respond, ReadBody, Wake
  <2> QED
    BY <1>1, <2>1, <2>2 DEF RepliesTrue, IdempotencyKey, server
<1> QED
  BY <1>2, <1>3, <1>4, <1>5

\* The gateway executes once under the one key, and what it answers is true.
LEMMA ReceiveKeeps ==
    ASSUME CallInv, NEW a \in 1 .. Attempts, Receive(a)
    PROVE  CallInv'
<1> USE AttemptsAssumption DEF CallInv
<1>1. PICK code \in {"ok", "error"} \cup Refusals :
          /\ Execute(1, code)
          /\ reply' = IF phase = "await" /\ a = attempt THEN code ELSE reply
  BY DEF Receive, IdempotencyKey
<1>2. UNCHANGED <<kind, attempt, phase, result, earlier>> /\ inflight' = inflight \ {a}
  BY DEF Receive, client
<1>3. 1 \in 1 .. Attempts /\ remembered[1] \in {"none", "ok", "declined"}
  BY DEF TypeOK
<1>4. CASE UNCHANGED <<executed, remembered>>
  <2>1. /\ code \in {"ok", "already"} => executed
        /\ code = "already" => earlier
        /\ code = "declined" => remembered[1] = "declined"
    BY <1>1, <1>3, <1>4 DEF Execute, KeyTruthful, IdempotencyKey, TypeOK
  <2>2. RepliesTrue'
    BY <1>1, <1>2, <1>4, <2>1 DEF RepliesTrue, IdempotencyKey
  <2>3. TypeOK' /\ LoopFits' /\ KeyTruthful'
    BY <1>1, <1>2, <1>4 DEF TypeOK, LoopFits, KeyTruthful, IdempotencyKey
  <2> QED
    BY <2>2, <2>3
<1>5. CASE /\ remembered[1] = "none" /\ ~executed
           /\ code \in {"ok", "error"}
           /\ executed' = TRUE
           /\ remembered' = [remembered EXCEPT ![1] = "ok"]
  <2>1. remembered'[1] = "ok" /\ remembered' \in [1 .. Attempts -> {"none", "ok", "declined"}]
    BY <1>3, <1>5 DEF TypeOK
  <2> QED
    BY <1>1, <1>2, <1>5, <2>1 DEF TypeOK, LoopFits, KeyTruthful, RepliesTrue, IdempotencyKey
<1>6. CASE /\ remembered[1] = "none" /\ ~executed
           /\ code = "declined"
           /\ remembered' = [remembered EXCEPT ![1] = "declined"]
           /\ UNCHANGED executed
  <2>1. /\ remembered'[1] = "declined"
        /\ remembered' \in [1 .. Attempts -> {"none", "ok", "declined"}]
    BY <1>3, <1>6 DEF TypeOK
  <2> QED
    BY <1>1, <1>2, <1>6, <2>1 DEF TypeOK, LoopFits, KeyTruthful, RepliesTrue, IdempotencyKey
<1> QED
  BY <1>1, <1>4, <1>5, <1>6 DEF Execute

LEMMA CallInvariance == Spec => []CallInv
<1>1. CallInv /\ [Next]_vars => CallInv'
  <2>1. CallInv /\ UNCHANGED vars => CallInv'
    BY DEF vars, client, server, CallInv, TypeOK, LoopFits, KeyTruthful, RepliesTrue,
           IdempotencyKey
  <2> QED
    BY <2>1, ClientKeeps, ReceiveKeeps DEF Next
<1> QED
  BY <1>1, InitCallInv, PTL DEF Spec

-----------------------------------------------------------------------------
(* What follows.                                                            *)

\* Every variable of the loop and of the gateway keeps its type; in particular
\* the loop never starts more attempts than it has delays for.
THEOREM CallTypeCorrect == Spec => []TypeOK
<1>1. CallInv => TypeOK
  BY DEF CallInv
<1> QED
  BY <1>1, CallInvariance, PTL

\* A refusal is final: whatever earlier attempts of the call timed out and still
\* reached the gateway, a call that reports a refusal has moved no money, because
\* all attempts share one Idempotency-Key.
THEOREM RefusalsAreFinal == Spec => []RefusalMeansUndone
<1>1. CallInv => RefusalMeansUndone
  BY AttemptsAssumption DEF CallInv, TypeOK, KeyTruthful, RepliesTrue, Refusals,
     IdempotencyKey, RefusalMeansUndone
<1> QED
  BY <1>1, CallInvariance, PTL

\* For the handler that holds the row lock all the attempts, in whatever order
\* they arrive, are the one call that module Orders gives it.
THEOREM ImplementsCall == Spec => CallSpec
<1>1. Init => Call!Init
  BY DEF Init, Call!Init
<1>2. CallInv /\ [Next]_vars => [Call!Next]_(Call!callVars)
  <2> SUFFICES ASSUME CallInv, [Next]_vars
               PROVE  Call!Next \/ UNCHANGED Call!callVars
    OBVIOUS
  <2> USE DEF CallInv, TypeOK, LoopFits, RepliesTrue
  <2>1. CASE Client
    <3>1. UNCHANGED executed
      BY <2>1 DEF Client, Send, FetchThrows, Respond, ReadBody, Wake, server
    <3>2. CASE phase = "done"
      BY <2>1, <3>2 DEF Client, Send, FetchThrows, Respond, ReadBody, Wake
    <3>3. CASE phase # "done" /\ phase' # "done"
      BY <3>1, <3>3 DEF Call!callVars
    <3>4. CASE phase # "done" /\ phase' = "done"
      <4>1. \/ result' = "ok" /\ executed
            \/ result' = "failed"
        BY <2>1, <3>4 DEF Client, Send, FetchThrows, Respond, ReadBody, Wake, Finish,
               SleepOrFail, Accepts
      <4> QED
        BY <3>1, <3>4, <4>1 DEF Call!Next, Call!Ok, Call!Fail
    <3> QED
      BY <3>2, <3>3, <3>4
  <2>2. ASSUME NEW a \in 1 .. Attempts, Receive(a)
        PROVE  Call!Next \/ UNCHANGED Call!callVars
    <3>1. /\ UNCHANGED <<phase, result>>
          /\ a \in inflight /\ inflight' \subseteq inflight
          /\ executed' = executed \/ executed' = TRUE
      BY <2>2 DEF Receive, Execute, client
    <3>2. CASE phase # "done"
      BY <3>1, <3>2 DEF Call!Next, Call!Silent, Call!callVars
    <3>3. CASE phase = "done" /\ result = "failed"
      BY <3>1, <3>3 DEF Call!Next, Call!Late, Call!callVars
    <3>4. CASE phase = "done" /\ result = "ok"
      BY <3>1, <3>4 DEF Call!callVars
    <3> QED
      BY <3>2, <3>3, <3>4
  <2>3. CASE UNCHANGED vars
    BY <2>3 DEF vars, client, server, Call!callVars
  <2> QED
    BY <2>1, <2>2, <2>3 DEF Next
<1> QED
  BY <1>1, <1>2, CallInvariance, PTL DEF Spec, CallSpec, Call!Spec
=============================================================================
