----------------------------- MODULE CommandRun -----------------------------
(***************************************************************************)
(* What a call of RunWithOptions promises to the code that made it, with   *)
(* no goroutine, channel or process group in sight: one command, asked to  *)
(* stop before it is forced to, and a report that comes last and tells the *)
(* truth.  Runner implements it.                                           *)
(***************************************************************************)
EXTENDS Integers

CONSTANTS
    Statuses,       \* how a command may end
    GracePeriod     \* ticks between asking it to stop and forcing it

NoResult == [kind |-> "none", code |-> 0]
Failed   == [kind |-> "error", code |-> 0]
NoStatus == [kind |-> "none", n |-> 0]

VARIABLES
    phase,          \* "idle", "running", "ended" or "reported"
    open,           \* some process can still write to the captured streams
    asked,          \* the command was sent SIGTERM or SIGINT
    waited,         \* ticks since then, up to GracePeriod
    forced,         \* the command was sent SIGKILL
    outcome,        \* how the command ended
    report,         \* what the caller was told
    aborted         \* the agent itself was ended by a signal

vars == <<phase, open, asked, waited, forced, outcome, report, aborted>>

Init ==
    /\ phase = "idle" /\ open = FALSE
    /\ asked = FALSE /\ waited = 0 /\ forced = FALSE
    /\ outcome = NoStatus /\ report = NoResult /\ aborted = FALSE

Refuse ==
    /\ phase = "idle" /\ ~aborted
    /\ phase' = "reported" /\ report' = Failed
    /\ UNCHANGED <<open, asked, waited, forced, outcome, aborted>>

Begin ==
    /\ phase = "idle" /\ ~aborted
    /\ phase' = "running" /\ open' = TRUE
    /\ UNCHANGED <<asked, waited, forced, outcome, report, aborted>>

\* The last writer may be the command itself.
End ==
    /\ phase = "running"
    /\ phase' = "ended"
    /\ outcome' \in Statuses
    /\ open' \in {open, FALSE}
    /\ UNCHANGED <<asked, waited, forced, report, aborted>>

\* Streams close for good.
Close ==
    /\ open /\ phase # "running"
    /\ open' = FALSE
    /\ UNCHANGED <<phase, asked, waited, forced, outcome, report, aborted>>

Ask ==
    /\ phase \in {"running", "ended"}
    /\ asked' = TRUE
    /\ UNCHANGED <<phase, open, waited, forced, outcome, report, aborted>>

Wait ==
    /\ asked /\ waited < GracePeriod
    /\ waited' = waited + 1
    /\ UNCHANGED <<phase, open, asked, forced, outcome, report, aborted>>

Force ==
    /\ asked /\ waited = GracePeriod /\ ~forced
    /\ forced' = TRUE
    /\ UNCHANGED <<phase, open, asked, waited, outcome, report, aborted>>

\* Go's sentinel for "ended by a signal".
Verdict_Sentinel(st) == IF st.kind = "signaled" THEN -1 ELSE st.n

\* 128 + n is the shell's name for "ended by signal n".
Verdict(st) == IF st.kind = "signaled" THEN 128 + st.n ELSE st.n

Report ==
    /\ phase = "ended" /\ ~open
    /\ phase' = "reported"
    /\ \/ report' = [kind |-> "result", code |-> Verdict(outcome)]
       \/ /\ Verdict(outcome) = 0
          /\ report' = Failed
    /\ UNCHANGED <<open, asked, waited, forced, outcome, aborted>>

\* A signal may end the agent before the command starts or after the report,
\* never in between.
Abort ==
    /\ phase \in {"idle", "reported"} /\ ~aborted
    /\ aborted' = TRUE
    /\ UNCHANGED <<phase, open, asked, waited, forced, outcome, report>>

Next ==
    \/ Refuse \/ Begin \/ End \/ Close \/ Ask \/ Wait \/ Force
    \/ Report \/ Abort

Spec == Init /\ [][Next]_vars

=============================================================================
