----------------------------- MODULE PingClient -----------------------------
(***************************************************************************)
(* One call of Client.Send (internal/ping/client.go) under the deadline    *)
(* sendPing gives it: sendWithRetry posts the ping, retries what a retry   *)
(* can cure with a capped exponential backoff, and stops at a verdict, at  *)
(* the deadline or when its attempts are used up.                          *)
(*                                                                         *)
(* The network loses and delays requests and answers; a request the client *)
(* gave up on may still be handled.  A tick is a second, and the client's  *)
(* own steps take no time.  Redirects, which net/http follows by itself,   *)
(* are part of an answer.  Definitions named X_Something are faults.       *)
(***************************************************************************)
EXTENDS Integers

CONSTANTS
    Retries,        \* cfg.Retries: attempts after the first
    BaseDelay,      \* cfg.RetryBaseDelay, in ticks
    MaxDelay,       \* the cap on the backoff (30 seconds)
    HttpTimeout,    \* httpClient.Timeout (30 seconds)
    CtxTimeout      \* the deadline sendPing puts on the context

\* config.Validate refuses negative retries and leaves RetryBaseDelay alone.
ASSUME PingAssumption ==
    /\ Retries \in Nat /\ BaseDelay \in Int /\ MaxDelay \in Nat
    /\ HttpTimeout \in Nat \ {0} /\ CtxTimeout \in Nat \ {0}

VARIABLES
    pc,             \* "send", "do", "backoff" or "returned"
    attempt,        \* the loop variable
    ctxLeft,        \* ticks before the context expires
    httpLeft,       \* ticks before httpClient gives up on this request
    backoffLeft,    \* ticks before the backoff ends
    outcome,        \* what Send returned
    request,        \* the request of each attempt, as the server knows it
    answer,         \* the server's answer to it
    seen,           \* history: what the client saw of each attempt
    elapsed         \* history: ticks since Send began

clientVars == <<pc, attempt, ctxLeft, httpLeft, backoffLeft, outcome>>
netVars    == <<request, answer>>
vars       == <<clientVars, netVars, seen, elapsed>>

Attempts == 0..Retries

\* Status codes below 400, from 400 to 499, and the others.
Answers  == {"ok", "client", "server"}
Outcomes == {"nil", "client", "deadline", "exhausted"}

Init ==
    /\ pc = "send" /\ attempt = 0
    /\ ctxLeft = CtxTimeout /\ httpLeft = 0 /\ backoffLeft = 0
    /\ outcome = "none"
    /\ request = [r \in Attempts |-> "unsent"]
    /\ answer = [r \in Attempts |-> "none"]
    /\ seen = [r \in Attempts |-> "none"]
    /\ elapsed = 0

Return(what) == pc' = "returned" /\ outcome' = what

-----------------------------------------------------------------------------
\* The server and the network.

Handle(r) ==
    /\ request[r] = "flying"
    /\ request' = [request EXCEPT ![r] = "handled"]
    /\ \E a \in Answers : answer' = [answer EXCEPT ![r] = a]
    /\ UNCHANGED <<clientVars, seen, elapsed>>

Lose(r) ==
    /\ request[r] = "flying"
    /\ request' = [request EXCEPT ![r] = "lost"]
    /\ UNCHANGED <<clientVars, answer, seen, elapsed>>

-----------------------------------------------------------------------------
\* The client.

\* A request built without the context: only httpClient.Timeout ends Do.
DoExpired_NoContext == httpLeft = 0

\* Do gives up when the client's timeout or the context ends.
DoExpired == httpLeft = 0 \/ ctxLeft = 0

\* time.After fires at once for a negative delay too.
BackoffExpired == backoffLeft <= 0

\* Post this attempt's request; on an expired context Do sends nothing.
Send ==
    /\ pc = "send" /\ ctxLeft > 0
    /\ pc' = "do"
    /\ httpLeft' = HttpTimeout
    /\ request' = [request EXCEPT ![attempt] = "flying"]
    /\ UNCHANGED <<attempt, ctxLeft, backoffLeft, outcome, answer, seen, elapsed>>

SendExpired ==
    /\ pc = "send" /\ ctxLeft = 0
    /\ Return("deadline")
    /\ UNCHANGED <<attempt, ctxLeft, httpLeft, backoffLeft, netVars, seen, elapsed>>

\* No cap on the delay.
Delay_Uncapped(n) == BaseDelay * 2^n

\* The shift is capped at 20 and the delay at MaxDelay.
Delay(n) ==
    LET d == BaseDelay * 2^(IF n > 20 THEN 20 ELSE n)
    IN  IF d > MaxDelay THEN MaxDelay ELSE d

\* Giving up one attempt early.
Retry_OffByOne ==
    IF attempt + 1 < Retries
    THEN pc' = "backoff" /\ backoffLeft' = Delay(attempt) /\ outcome' = outcome
    ELSE Return("exhausted") /\ backoffLeft' = backoffLeft

\* After a failure that a retry may cure: sleep, except after the last one.
Retry ==
    IF attempt < Retries
    THEN pc' = "backoff" /\ backoffLeft' = Delay(attempt) /\ outcome' = outcome
    ELSE Return("exhausted") /\ backoffLeft' = backoffLeft

\* A 4xx taken for success.
Verdict_AnyAnswer(a) == IF a = "server" THEN Retry
                        ELSE Return("nil") /\ backoffLeft' = backoffLeft

\* A 4xx retried like a 5xx.
Verdict_RetriesClientErrors(a) == IF a = "ok" THEN Return("nil") /\ backoffLeft' = backoffLeft
                                  ELSE Retry

\* What a status code means: below 400 is success, 4xx is final, 5xx is not.
Verdict(a) ==
    CASE a = "ok"     -> Return("nil") /\ backoffLeft' = backoffLeft
      [] a = "client" -> Return("client") /\ backoffLeft' = backoffLeft
      [] a = "server" -> Retry

Answered ==
    /\ pc = "do" /\ answer[attempt] \in Answers
    /\ seen' = [seen EXCEPT ![attempt] = answer[attempt]]
    /\ Verdict(answer[attempt])
    /\ UNCHANGED <<attempt, ctxLeft, httpLeft, netVars, elapsed>>

\* Do returns an error: a timeout, the context, or the connection breaking,
\* before the server handles the request or after.  The context is asked
\* first.
DoFails ==
    /\ pc = "do"
    /\ \/ DoExpired
       \/ request[attempt] # "flying"
    /\ seen' = [seen EXCEPT ![attempt] = "failed"]
    /\ IF ctxLeft = 0
       THEN Return("deadline") /\ backoffLeft' = backoffLeft
       ELSE Retry
    /\ UNCHANGED <<attempt, ctxLeft, httpLeft, netVars, elapsed>>

BackoffEnds ==
    /\ pc = "backoff" /\ BackoffExpired
    /\ pc' = "send" /\ attempt' = attempt + 1
    /\ UNCHANGED <<ctxLeft, httpLeft, backoffLeft, outcome, netVars, seen, elapsed>>

BackoffCancelled ==
    /\ pc = "backoff" /\ ctxLeft = 0
    /\ Return("deadline")
    /\ UNCHANGED <<attempt, ctxLeft, httpLeft, backoffLeft, netVars, seen, elapsed>>

\* A second passes for a client that waits in Do or in the backoff.
Tick ==
    /\ \/ pc = "do" /\ ~DoExpired
       \/ pc = "backoff" /\ ~BackoffExpired /\ ctxLeft > 0
    /\ ctxLeft' = IF ctxLeft > 0 THEN ctxLeft - 1 ELSE 0
    /\ httpLeft' = IF pc = "do" THEN httpLeft - 1 ELSE httpLeft
    /\ backoffLeft' = IF pc = "backoff" THEN backoffLeft - 1 ELSE backoffLeft
    /\ elapsed' = elapsed + 1
    /\ UNCHANGED <<pc, attempt, outcome, netVars, seen>>

\* Send has returned; what is still in the network may yet arrive.
Over == pc = "returned" /\ UNCHANGED vars

Client ==
    \/ Send \/ SendExpired \/ Answered \/ DoFails
    \/ BackoffEnds \/ BackoffCancelled

Network == \E r \in Attempts : Handle(r) \/ Lose(r)

Next == Client \/ Network \/ Tick \/ Over

Spec == Init /\ [][Next]_vars

\* The client runs and time passes; the server owes nothing.
FairSpec == Spec /\ WF_vars(Client) /\ WF_vars(Tick)

-----------------------------------------------------------------------------
\* Properties.

\* The values of the variables; no timer exceeds what it was set to.
TypeOK ==
    /\ pc \in {"send", "do", "backoff", "returned"}
    /\ attempt \in Attempts
    /\ ctxLeft \in 0..CtxTimeout /\ httpLeft \in 0..HttpTimeout
    /\ backoffLeft \in Int /\ backoffLeft <= MaxDelay
    /\ outcome \in Outcomes \cup {"none"}
    /\ request \in [Attempts -> {"unsent", "flying", "handled", "lost"}]
    /\ answer \in [Attempts -> Answers \cup {"none"}]
    /\ seen \in [Attempts -> Answers \cup {"none", "failed"}]
    /\ elapsed \in Nat

\* Send never outlasts the deadline of its context, however the server
\* behaves: no agent hangs on an unreachable API (the comment on the ping
\* timeouts).
WithinDeadline == elapsed <= CtxTimeout

\* A ping is posted again only after the attempts before it failed in a way
\* that a retry may cure: never after a success or a 4xx.
StopsAtVerdict ==
    \A r \in Attempts : request[r] # "unsent" =>
        \A q \in 0..(r - 1) : seen[q] \in {"server", "failed"}

\* Send reports its retries exhausted only when every attempt the
\* configuration grants was made and failed.
ExhaustedTriedAll ==
    outcome = "exhausted" => \A r \in Attempts : seen[r] \in {"server", "failed"}

\* Send keeps the promise of PingCall.
Told ==
    CASE outcome = "none" -> "none"
      [] outcome = "nil"  -> "ok"
      [] OTHER            -> "failed"

Posted(r) ==
    IF request[r] # "handled" THEN request[r]
    ELSE IF answer[r] = "ok" THEN "accepted" ELSE "rejected"

Stage == IF pc = "returned" THEN "returned" ELSE "sending"

Call == [phase |-> Stage,
         posts |-> [r \in Attempts |-> Posted(r)],
         spent |-> elapsed,
         told  |-> Told]

Promise == INSTANCE PingCall WITH
    Requests <- Attempts, Budget <- CtxTimeout, call <- Call

\* Whatever the attempts, timers and backoffs do, the caller of Send sees a
\* call that ends within its budget, posts each request at most once and
\* says "ok" only of a ping the server accepted.
KeepsPromise == Promise!Spec

=============================================================================
