----------------------------- MODULE ExecAgent ------------------------------
(***************************************************************************)
(* `crond-agent exec -- command` (runExec, commands.go): a start ping, one *)
(* run of the command, a ping with the verdict, and the exit code of the   *)
(* agent.  The run is any behaviour CommandRun allows and a ping any that  *)
(* PingCall allows: Runner and PingClient implement those promises, so     *)
(* what holds here holds of the program.  A request that Send gave up on   *)
(* can still reach the server.  Definitions named X_Something are faults.  *)
(***************************************************************************)
EXTENDS Integers, Sequences

CONSTANTS
    Statuses,       \* how a command may end
    GracePeriod,    \* see CommandRun
    Requests,       \* the requests of one ping: 1 + cfg.Retries
    StartBudget,    \* startPingTimeout
    FinalBudget     \* finalPingTimeout

ASSUME ExecAssumption ==
    /\ Statuses \subseteq [kind : {"exited"}, n : 0..255] \cup [kind : {"signaled"}, n : 1..64]
    /\ {GracePeriod, StartBudget, FinalBudget} \subseteq Nat

VARIABLES
    phase, open, asked, waited, forced, outcome, report, aborted,
                    \* the run, as in CommandRun
    at,             \* the line of runExec: "begin", "start", "run", "final",
                    \* "exited" (os.Exit) or "killed" (by a signal)
    start, final,   \* the two calls of sendPing, as in PingCall
    kind,           \* the kind of the final ping
    exitCode,       \* what the agent exited with, or -1
    log             \* the pings the server accepted, in its order

runVars == <<phase, open, asked, waited, forced, outcome, report, aborted>>
vars    == <<runVars, at, start, final, kind, exitCode, log>>

Run   == INSTANCE CommandRun
Start == INSTANCE PingCall WITH call <- start, Budget <- StartBudget
Final == INSTANCE PingCall WITH call <- final, Budget <- FinalBudget

Init ==
    /\ Run!Init /\ Start!Init /\ Final!Init
    /\ at = "begin" /\ kind = "none" /\ exitCode = -1 /\ log = <<>>

Leave(code) == at' = "exited" /\ exitCode' = code

-----------------------------------------------------------------------------
\* The agent.

\* -h (0), bad flags (2), an invalid configuration, no key, no command or no
\* client (1).
Misuse ==
    /\ at = "begin"
    /\ \E code \in 0..2 : Leave(code)
    /\ UNCHANGED <<runVars, start, final, kind, log>>

Ready ==
    /\ at = "begin"
    /\ at' = "start"
    /\ UNCHANGED <<runVars, start, final, kind, exitCode, log>>

StartPing ==
    /\ at = "start"
    /\ Start!Client
    /\ UNCHANGED <<runVars, at, final, kind, exitCode, log>>

\* Requiring the start ping to succeed.
RunCommand_NeedsStart ==
    /\ at = "start" /\ start.told = "ok"
    /\ at' = "run"
    /\ UNCHANGED <<runVars, start, final, kind, exitCode, log>>

\* sendPing logs an error and returns all the same.
RunCommand ==
    /\ at = "start" /\ start.phase = "returned"
    /\ at' = "run"
    /\ UNCHANGED <<runVars, start, final, kind, exitCode, log>>

StartCommand ==
    /\ at = "run"
    /\ Run!Refuse \/ Run!Begin
    /\ UNCHANGED <<at, start, final, kind, exitCode, log>>

\* The command, its process group and the runner's goroutines, which outlive
\* the call by a little.
RunStep ==
    /\ at \in {"run", "final"}
    /\ \/ Run!End \/ Run!Close \/ Run!Ask \/ Run!Wait \/ Run!Force
       \/ Run!Report
    /\ UNCHANGED <<at, start, final, kind, exitCode, log>>

\* Asking for an error and not for the exit code.
Judge_ByError ==
    /\ at = "run" /\ phase = "reported"
    /\ at' = "final"
    /\ kind' = IF report.kind = "error" THEN "fail" ELSE "success"
    /\ UNCHANGED <<runVars, start, final, exitCode, log>>

\* Leaving at once when RunWithOptions returns an error.
Judge_SilentError ==
    /\ at = "run" /\ phase = "reported"
    /\ IF report.kind = "error"
       THEN Leave(1) /\ kind' = kind
       ELSE /\ at' = "final" /\ exitCode' = exitCode
            /\ kind' = IF report.code # 0 THEN "fail" ELSE "success"
    /\ UNCHANGED <<runVars, start, final, log>>

Judge ==
    /\ at = "run" /\ phase = "reported"
    /\ at' = "final"
    /\ kind' = IF report.kind = "error" \/ report.code # 0 THEN "fail" ELSE "success"
    /\ UNCHANGED <<runVars, start, final, exitCode, log>>

FinalPing ==
    /\ at = "final"
    /\ Final!Client
    /\ UNCHANGED <<runVars, at, start, kind, exitCode, log>>

\* Letting the API's failure become the job's.
Exit_OnPingError ==
    /\ at = "final" /\ final.phase = "returned"
    /\ Leave(IF report.kind = "error" \/ final.told = "failed" THEN 1 ELSE report.code)
    /\ UNCHANGED <<runVars, start, final, kind, log>>

Exit ==
    /\ at = "final" /\ final.phase = "returned"
    /\ Leave(IF report.kind = "error" THEN 1 ELSE report.code)
    /\ UNCHANGED <<runVars, start, final, kind, log>>

-----------------------------------------------------------------------------
\* The surroundings.

\* A signal ends the agent where nothing has subscribed to it: during the
\* pings, and in the run only where CommandRun says so.
Killed ==
    /\ at \notin {"exited", "killed"}
    /\ Run!Abort
    /\ at' = "killed"
    /\ UNCHANGED <<start, final, kind, exitCode, log>>

Logged(how, what) == IF how = "accepted" THEN Append(log, what) ELSE log

StartArrives ==
    /\ \E r \in Requests, how \in {"accepted", "rejected", "lost"} :
         Start!Handle(r, how) /\ log' = Logged(how, "start")
    /\ UNCHANGED <<runVars, at, final, kind, exitCode>>

FinalArrives ==
    /\ \E r \in Requests, how \in {"accepted", "rejected", "lost"} :
         Final!Handle(r, how) /\ log' = Logged(how, kind)
    /\ UNCHANGED <<runVars, at, start, kind, exitCode>>

Over == at \in {"exited", "killed"} /\ UNCHANGED vars

Agent ==
    \/ Misuse \/ Ready \/ StartPing \/ RunCommand \/ StartCommand
    \/ Judge \/ FinalPing \/ Exit

Next == Agent \/ RunStep \/ Killed \/ StartArrives \/ FinalArrives \/ Over

\* The agent's own steps are taken; a call of Send is a bounded number of
\* them.  The command, the server and the host owe nothing.
Spec == Init /\ [][Next]_vars /\ WF_vars(Agent)

-----------------------------------------------------------------------------
\* Properties.

\* The types of the variables: every exit code the agent can leave with fits
\* the eight bits the kernel keeps.
TypeOK ==
    /\ phase \in {"idle", "running", "ended", "reported"}
    /\ open \in BOOLEAN /\ asked \in BOOLEAN /\ forced \in BOOLEAN /\ aborted \in BOOLEAN
    /\ waited \in 0..GracePeriod
    /\ outcome \in Statuses \cup {Run!NoStatus}
    /\ report \in [kind : {"none", "error", "result"}, code : 0..255]
    /\ at \in {"begin", "start", "run", "final", "exited", "killed"}
    /\ Start!TypeOK /\ Final!TypeOK
    /\ kind \in {"none", "success", "fail"}
    /\ exitCode \in {-1} \cup 0..255
    /\ log \in Seq({"start", "success", "fail"})

\* What the server recorded is what happened: "success" only of a command
\* that exited with 0, "fail" only of one that did not or of a run that
\* could not be made or read, however late the request arrives and whatever
\* killed the agent meanwhile.
VerdictTrue ==
    \A i \in DOMAIN log :
        /\ log[i] = "success" =>
             outcome = [kind |-> "exited", n |-> 0] /\ report.kind = "result"
        /\ log[i] = "fail" =>
             report.kind = "error" \/ Run!Verdict(outcome) # 0

\* Cron and Kubernetes see the command's own exit code, however the API
\* answered: the exit code of an agent that came to run it is the verdict
\* on the command, or 1 when there is none.
ExitIsTheCommands ==
    at = "exited" /\ phase # "idle" =>
        \/ report.kind = "error" /\ exitCode = 1
        \/ report.kind = "result" /\ exitCode = Run!Verdict(outcome)

\* A run whose agent was not killed is never passed over in silence: the
\* agent exits only after a ping about it was tried.
NoSilentRun ==
    at = "exited" /\ phase # "idle" => final.phase = "returned"

\* The API cannot keep the job from starting: the start ping is best-effort
\* and bounded.
JobNotHeldUp == (at = "start") ~> (phase # "idle" \/ aborted)

\* The API cannot keep the agent from exiting once the command is done: no
\* agents pile up behind an API that hangs.
AgentLeaves == (phase = "reported") ~> (at \in {"exited", "killed"})

=============================================================================
