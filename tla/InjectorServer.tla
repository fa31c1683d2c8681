--------------------------- MODULE InjectorServer ---------------------------
(***************************************************************************)
(* The admission webhook as a process (cmd/crond-agent-injector/main.go)   *)
(* and its HTTP handler (internal/webhook/handler.go): one goroutine       *)
(* serves, one waits for a signal and shuts the server down, and one runs  *)
(* the handler for every client.  The clients are the API server, which    *)
(* gives up on a call after CallTimeout and then admits the object as it   *)
(* is (failurePolicy Ignore), and others that may stall for ever.          *)
(* Definitions named X_Something are faults.                               *)
(***************************************************************************)
EXTENDS Integers

CONSTANTS
    Clients,        \* one request each
    ApiServer,      \* the clients that give up
    CallTimeout,    \* ticks the API server waits: timeoutSeconds, 5 s
    HeaderTimeout,  \* ReadHeaderTimeout, 5 s
    DrainTimeout    \* the context of Shutdown, 10 s

ASSUME ServerAssumption ==
    /\ ApiServer \subseteq Clients
    /\ {CallTimeout, HeaderTimeout, DrainTimeout} \subseteq Nat \ {0}
    /\ CallTimeout < DrainTimeout

Horizon == IF CallTimeout > HeaderTimeout THEN CallTimeout ELSE HeaderTimeout

VARIABLES
    main,       \* main(): "config", "bind", "keys", "serve", "wait" (for
                \* idleClosed) or "ended"
    stopper,    \* the signal goroutine: "unborn", "born", "subscribed",
                \* "draining" (in Shutdown) or "closed" (idleClosed)
    queued,     \* its channel, of one slot, holds a signal
    drained,    \* ticks since Shutdown began
    exit,       \* "none", "ok" (0), "error" (1), "signal" or "killed"
    handler,    \* per client: "none", "header", "body", "review" or "done"
    body,       \* what it sent: "none", "unread" (the wrong method, too much
                \* or broken off), "malformed", "undecodable", "skipped" or
                \* "fits"
    call,       \* how its call went: "unsent", "waiting", or with the answer
                \* "patched", "admitted", "rejected" (4xx or closed), or
                \* without one "refused", "timeout", "cut" (by the end of
                \* the process)
    age         \* ticks since it was sent, up to Horizon

server  == <<main, stopper, queued, drained, exit>>
clients == <<handler, body, call, age>>
vars    == <<server, clients>>

Init ==
    /\ main = "config" /\ stopper = "unborn" /\ queued = FALSE
    /\ drained = 0 /\ exit = "none"
    /\ handler = [c \in Clients |-> "none"] /\ body = [c \in Clients |-> "none"]
    /\ call = [c \in Clients |-> "unsent"] /\ age = [c \in Clients |-> 0]

Bodies   == {"unread", "malformed", "undecodable", "skipped", "fits"}
InFlight == {c \in Clients : handler[c] \in {"header", "body", "review"}}
Stopping == stopper \in {"draining", "closed"}
Listening == main = "serve" /\ ~Stopping

\* The process is gone, and with it every connection.
Ends(how) ==
    /\ main' = "ended" /\ exit' = how
    /\ handler' = [c \in Clients |-> IF c \in InFlight THEN "done" ELSE handler[c]]
    /\ call' = [c \in Clients |-> IF call[c] = "waiting" THEN "cut" ELSE call[c]]
    /\ UNCHANGED <<stopper, queued, drained, body, age>>

-----------------------------------------------------------------------------
\* main().

\* LoadConfig and Validate; the signal goroutine is started after them.
LoadConfig ==
    /\ main = "config"
    /\ main' = "bind" /\ stopper' = "born"
    /\ UNCHANGED <<queued, drained, exit, clients>>

\* ListenAndServeTLS returns http.ErrServerClosed at once after Shutdown, and
\* also from the accept loop; in between it binds and loads the key pair.
Bind ==
    /\ main = "bind"
    /\ main' = IF Stopping THEN "wait" ELSE "keys"
    /\ UNCHANGED <<stopper, queued, drained, exit, clients>>

LoadKeys ==
    /\ main = "keys"
    /\ main' = IF Stopping THEN "wait" ELSE "serve"
    /\ UNCHANGED <<stopper, queued, drained, exit, clients>>

ServerClosed ==
    /\ main = "serve" /\ Stopping
    /\ main' = "wait"
    /\ UNCHANGED <<stopper, queued, drained, exit, clients>>

\* LoadConfig or Validate returns an error.
BadConfig == main = "config" /\ Ends("error")

\* An address in use, a bad key pair (which counts after Shutdown, too), or a
\* listener that fails: the process ends at once, reviews and all.
ServeFails ==
    /\ main = "keys" \/ (main \in {"bind", "serve"} /\ ~Stopping)
    /\ Ends("error")

\* Returning as soon as ListenAndServeTLS does.
Return_AtOnce == main = "wait" /\ Ends("ok")

\* <-idleClosed
Return == main = "wait" /\ stopper = "closed" /\ Ends("ok")

Main == LoadConfig \/ Bind \/ LoadKeys \/ ServerClosed \/ Return

-----------------------------------------------------------------------------
\* The signal goroutine.

Subscribe ==
    /\ stopper = "born" /\ main # "ended"
    /\ stopper' = "subscribed"
    /\ UNCHANGED <<main, queued, drained, exit, clients>>

BeginShutdown ==
    /\ stopper = "subscribed" /\ queued /\ main # "ended"
    /\ stopper' = "draining" /\ queued' = FALSE
    /\ UNCHANGED <<main, drained, exit, clients>>

\* Close in the place of Shutdown.
EndShutdown_Close ==
    /\ stopper = "draining" /\ main # "ended"
    /\ stopper' = "closed"
    /\ UNCHANGED <<main, queued, drained, exit, clients>>

\* Shutdown(context.Background()).
EndShutdown_NoDeadline ==
    /\ stopper = "draining" /\ main # "ended"
    /\ InFlight = {}
    /\ stopper' = "closed"
    /\ UNCHANGED <<main, queued, drained, exit, clients>>

\* Shutdown returns when no connection is active, or with the context's
\* error and without closing the connections that are.
EndShutdown ==
    /\ stopper = "draining" /\ main # "ended"
    /\ InFlight = {} \/ drained = DrainTimeout
    /\ stopper' = "closed"
    /\ UNCHANGED <<main, queued, drained, exit, clients>>

Stopper == Subscribe \/ BeginShutdown \/ EndShutdown

\* SIGTERM or SIGINT: its default action before Notify; after it the channel
\* takes one, and what does not fit is dropped.
Signal ==
    /\ main # "ended"
    /\ IF stopper \in {"unborn", "born"}
       THEN Ends("signal")
       ELSE queued' = TRUE /\ UNCHANGED <<main, stopper, drained, exit, clients>>

\* SIGKILL, the OOM killer, the node.
Kill == main # "ended" /\ Ends("killed")

-----------------------------------------------------------------------------
\* ServeHTTP and review for client c.

Answer(c, how) ==
    /\ handler' = [handler EXCEPT ![c] = "done"]
    /\ call' = [call EXCEPT ![c] = IF @ = "waiting" THEN how ELSE @]
    /\ UNCHANGED <<server, body, age>>

HeaderArrives(c) ==
    /\ handler[c] = "header" /\ call[c] = "waiting"
    /\ handler' = [handler EXCEPT ![c] = "body"]
    /\ UNCHANGED <<server, body, call, age>>

\* ReadHeaderTimeout, or the client has hung up.
CutHeader(c) ==
    /\ handler[c] = "header"
    /\ age[c] >= HeaderTimeout \/ call[c] # "waiting"
    /\ Answer(c, "rejected")

\* io.ReadAll, for which there is no timeout, returns.
BodyArrives(c) ==
    /\ handler[c] = "body" /\ call[c] = "waiting"
    /\ \E b \in Bodies : body' = [body EXCEPT ![c] = b]
    /\ handler' = [handler EXCEPT ![c] = "review"]
    /\ UNCHANGED <<server, call, age>>

\* The client has hung up: "read body".
BodyBreaks(c) ==
    /\ handler[c] = "body" /\ call[c] # "waiting"
    /\ Answer(c, "rejected")

\* Denying what cannot be decoded.
Verdict_Denies(b) ==
    CASE b \in {"unread", "malformed"} -> "rejected"
      [] b = "undecodable"             -> "denied"
      [] b = "skipped"                 -> "admitted"
      [] b = "fits"                    -> "patched"

\* 405 or 400 without a UID to answer to; otherwise allowed.
Verdict(b) ==
    CASE b \in {"unread", "malformed"}     -> "rejected"
      [] b \in {"undecodable", "skipped"}  -> "admitted"
      [] b = "fits"                        -> "patched"

Review(c) ==
    /\ handler[c] = "review"
    /\ Answer(c, Verdict(body[c]))

Handler(c) == CutHeader(c) \/ BodyBreaks(c) \/ Review(c)

-----------------------------------------------------------------------------
\* The clients and the time.

Connect(c) ==
    /\ call[c] = "unsent"
    /\ IF Listening
       THEN /\ handler' = [handler EXCEPT ![c] = "header"]
            /\ call' = [call EXCEPT ![c] = "waiting"]
       ELSE handler' = handler /\ call' = [call EXCEPT ![c] = "refused"]
    /\ UNCHANGED <<server, body, age>>

GiveUp(c) ==
    /\ c \in ApiServer /\ call[c] = "waiting" /\ age[c] >= CallTimeout
    /\ call' = [call EXCEPT ![c] = "timeout"]
    /\ UNCHANGED <<server, handler, body, age>>

\* What is due is done before the clock goes on.
Due ==
    \/ stopper = "draining" /\ drained = DrainTimeout
    \/ \E c \in ApiServer : call[c] = "waiting" /\ age[c] >= CallTimeout

Tick ==
    /\ main # "ended" /\ ~Due
    /\ drained' = IF stopper = "draining" THEN drained + 1 ELSE drained
    /\ age' = [c \in Clients |->
                 IF call[c] = "waiting" /\ age[c] < Horizon THEN age[c] + 1 ELSE age[c]]
    /\ UNCHANGED <<main, stopper, queued, exit, handler, body, call>>

Over == main = "ended" /\ UNCHANGED vars

Next ==
    \/ Main \/ BadConfig \/ ServeFails \/ Stopper \/ Signal \/ Kill
    \/ \E c \in Clients :
         \/ Handler(c) \/ HeaderArrives(c) \/ BodyArrives(c)
         \/ Connect(c) \/ GiveUp(c)
    \/ Tick \/ Over

\* The process runs and time passes; a client owes neither its header nor its
\* body, and nobody owes a signal or a failure.
Spec ==
    /\ Init /\ [][Next]_vars
    /\ WF_vars(Main) /\ WF_vars(Stopper) /\ WF_vars(Tick)
    /\ \A c \in Clients : WF_vars(Handler(c)) /\ WF_vars(GiveUp(c))

-----------------------------------------------------------------------------
\* Properties.

\* The types of the variables.  No admission is ever denied: a call that is
\* answered is patched, allowed as it is, or an error that failurePolicy
\* Ignore turns into the same.
TypeOK ==
    /\ main \in {"config", "bind", "keys", "serve", "wait", "ended"}
    /\ stopper \in {"unborn", "born", "subscribed", "draining", "closed"}
    /\ queued \in BOOLEAN
    /\ drained \in 0..DrainTimeout
    /\ exit \in {"none", "ok", "error", "signal", "killed"}
    /\ handler \in [Clients -> {"none", "header", "body", "review", "done"}]
    /\ body \in [Clients -> Bodies \cup {"none"}]
    /\ call \in [Clients -> {"unsent", "waiting", "patched", "admitted",
                             "rejected", "refused", "timeout", "cut"}]
    /\ age \in [Clients -> 0..Horizon]

\* A graceful stop cuts no admission short: every call of the API server that
\* was in flight has its answer, or was given up by the API server itself,
\* before the process exits (main.go:62).
AdmissionsFinish ==
    exit = "ok" => \A c \in ApiServer : call[c] # "cut"

\* The process leaves a client without an answer only if that client used up
\* the whole deadline of Shutdown.
DeadlineUsed ==
    exit = "ok" /\ (\E c \in Clients : call[c] = "cut") => drained = DrainTimeout

\* A signal that was taken ends the process, although a client that never
\* finishes its body holds a handler for ever: the kubelet need not kill it.
StopEnds == (stopper = "subscribed" /\ queued) ~> main = "ended"

=============================================================================
