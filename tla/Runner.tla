------------------------------- MODULE Runner -------------------------------
(***************************************************************************)
(* The command runner of crond-agent, internal/exec/runner.go: how         *)
(* RunWithOptions starts the wrapped command in a process group of its own *)
(* and how waitWithGracefulTermination waits for it while it forwards      *)
(* signals, enforces the timeout and escalates to SIGKILL.                 *)
(*                                                                         *)
(* Three goroutines run here: the caller in the select loop (pc), the one  *)
(* inside cmd.Wait (waiter) and the SIGKILL-after-grace one (killer).      *)
(* Around them are the processes of the wrapped command, the kernel that   *)
(* delivers signals and recycles process-group ids, and the host that      *)
(* signals the agent.                                                      *)
(*                                                                         *)
(* A definition named X_Something is X with a plausible fault; none of     *)
(* them is part of the specification (README, "Faults").                   *)
(***************************************************************************)
EXTENDS Integers

CONSTANTS
    Leader,         \* the process cmd.Start forks; its pid is the group id
    Helpers,        \* processes the wrapped command may spawn
    HelperTraits,   \* the traits a helper may have, a subset of Traits
    ExitCodes,      \* the codes a process may exit with
    Timeouts,       \* the timeouts a run may be given; 0 or less is none
    GracePeriod,    \* ticks between the first signal and SIGKILL
    MaxSignals,     \* bound on the signals the host sends to the agent
    CtxCancels      \* whether the caller's context may be cancelled

SIGINT  == 2
SIGKILL == 9
SIGTERM == 15

AgentSignals == {SIGINT, SIGTERM}
Signals      == AgentSignals \cup {SIGKILL}
Procs        == {Leader} \cup Helpers

\* What the model needs to know of a process: whether it stays in the
\* group of the leader (a daemonised helper leaves it with setsid), whether
\* it keeps the captured stdout or stderr open, and what SIGTERM and SIGINT
\* do to it.
Traits == [grouped : BOOLEAN, writes : BOOLEAN,
           onTerm : {"die", "trap", "ignore"}]

ASSUME RunnerAssumption ==
    /\ Leader \notin Helpers
    /\ HelperTraits \subseteq Traits
    /\ ExitCodes \subseteq 0..255
    /\ Timeouts \subseteq Int
    /\ GracePeriod \in Nat \ {0}
    /\ MaxSignals \in Nat
    /\ CtxCancels \in BOOLEAN

VARIABLES
    \* the agent
    pc,             \* where RunWithOptions is
    agent,          \* "alive", or "killed" by an unhandled signal
    sigs,           \* the one-slot channel signal.Notify fills
    ctxDone,        \* the select still watches ctx.Done()
    ctxCancelled,   \* the caller cancelled the context
    timeoutCh,      \* the select still watches the timeout channel
    timeoutLeft,    \* ticks before the timeout channel is ready
    waiter,         \* the goroutine inside cmd.Wait
    waitErr,        \* what cmd.Wait returned
    killer,         \* the SIGKILL-after-grace goroutine
    graceLeft,      \* ticks before its time.After is ready
    result,         \* what RunWithOptions returned
    \* the wrapped command and the kernel
    trait,          \* the traits of every process
    proc,           \* "unborn", "running", "zombie" or "gone"
    pending,        \* signals sent to a process and not yet acted on
    status,         \* how the leader ended
    recycled,       \* the group id now names an unrelated group
    \* history, read by the properties only
    received,       \* signals the host sent to the agent
    forwarded,      \* SIGTERM and SIGINT the agent sent to the group
    sinceFirst,     \* ticks since the first of them, up to GracePeriod
    strays          \* signals that reached an unrelated group

agentVars   == <<pc, agent, sigs, ctxDone, ctxCancelled, timeoutCh, timeoutLeft>>
waiterVars  == <<waiter, waitErr>>
killerVars  == <<killer, graceLeft>>
procVars    == <<trait, proc, pending, status, recycled>>
historyVars == <<received, forwarded, sinceFirst, strays>>
vars == <<agentVars, waiterVars, killerVars, result, procVars, historyVars>>

NoResult  == [kind |-> "none", code |-> 0]
NoStatus  == [kind |-> "none", n |-> 0]
Exited(c)   == [kind |-> "exited", n |-> c]
Signaled(s) == [kind |-> "signaled", n |-> s]
Endings     == {Exited(c) : c \in ExitCodes} \cup {Signaled(s) : s \in Signals}

-----------------------------------------------------------------------------
\* The processes.

Running(p)  == proc[p] = "running"
InGroup(p)  == trait[p].grouped /\ Running(p)
HoldsPipe(p) == trait[p].writes /\ Running(p)

\* The group id stays allocated while the leader is not reaped or a member
\* is alive.
GroupExists ==
    \/ proc[Leader] \in {"running", "zombie"}
    \/ \E p \in Helpers : InGroup(p)

Init ==
    /\ pc = "entry" /\ agent = "alive" /\ sigs = {}
    /\ ctxDone = TRUE /\ ctxCancelled = FALSE
    /\ timeoutCh = FALSE /\ timeoutLeft = 0
    /\ waiter = "none" /\ waitErr = "none"
    /\ killer = "none" /\ graceLeft = 0
    /\ result = NoResult
    /\ trait \in [Procs -> Traits]
    /\ trait[Leader].grouped /\ trait[Leader].writes
    /\ \A h \in Helpers : trait[h] \in HelperTraits
    /\ proc = [p \in Procs |-> "unborn"]
    /\ pending = [p \in Procs |-> {}]
    /\ status = NoStatus /\ recycled = FALSE
    /\ received = 0 /\ forwarded = 0 /\ sinceFirst = 0 /\ strays = {}

\* Process p ends: the leader stays a zombie until cmd.Wait reaps it, a
\* helper is reaped by its parent or by init.
Ends(p, how) ==
    /\ proc' = [proc EXCEPT ![p] = IF p = Leader THEN "zombie" ELSE "gone"]
    /\ pending' = [pending EXCEPT ![p] = {}]
    /\ status' = IF p = Leader THEN how ELSE status
    /\ UNCHANGED <<trait, recycled>>

\* It exits, or someone else kills it (the kernel when memory runs out).
Exit(p) ==
    /\ Running(p)
    /\ \E how \in {Exited(c) : c \in ExitCodes} \cup {Signaled(SIGKILL)} : Ends(p, how)
    /\ UNCHANGED <<agentVars, waiterVars, killerVars, result, historyVars>>

\* A helper inherits the process group and the pipe from the live process
\* that forks it; the kernel lets no fork overtake a pending signal.
Spawn(h) ==
    /\ proc[h] = "unborn"
    /\ \E p \in Procs :
         /\ Running(p) /\ pending[p] = {}
         /\ trait[h].grouped => trait[p].grouped
         /\ trait[h].writes => trait[p].writes
    /\ proc' = [proc EXCEPT ![h] = "running"]
    /\ UNCHANGED <<agentVars, waiterVars, killerVars, result, trait, pending,
                   status, recycled, historyVars>>

\* The kernel acts on a pending signal: SIGKILL always ends the process,
\* the others do what the process asked for.
Deliver(p) ==
    /\ Running(p)
    /\ \E s \in pending[p] :
         \/ /\ s = SIGKILL \/ trait[p].onTerm = "die"
            /\ Ends(p, Signaled(s))
         \/ /\ s # SIGKILL /\ trait[p].onTerm = "trap"
            /\ \E c \in ExitCodes : Ends(p, Exited(c))
         \/ /\ s # SIGKILL /\ trait[p].onTerm = "ignore"
            /\ pending' = [pending EXCEPT ![p] = @ \ {s}]
            /\ UNCHANGED <<trait, proc, status, recycled>>
    /\ UNCHANGED <<agentVars, waiterVars, killerVars, result, historyVars>>

\* Once the leader is reaped and no member is left, the kernel may give the
\* id to an unrelated process group.
Recycle ==
    /\ proc[Leader] = "gone" /\ ~GroupExists /\ ~recycled
    /\ recycled' = TRUE
    /\ UNCHANGED <<agentVars, waiterVars, killerVars, result, trait, proc,
                   pending, status, historyVars>>

\* kill(pid) where kill(-pgid) is meant.
KillGroup_LeaderOnly(sig) ==
    /\ pending' = IF Running(Leader)
                  THEN [pending EXCEPT ![Leader] = @ \cup {sig}] ELSE pending
    /\ strays' = strays
    /\ UNCHANGED <<trait, proc, status, recycled>>

\* syscall.Kill(-pgid, sig), errors ignored.
KillGroup(sig) ==
    /\ pending' = [p \in Procs |->
                     IF InGroup(p) THEN pending[p] \cup {sig} ELSE pending[p]]
    /\ strays' = IF recycled THEN strays \cup {sig} ELSE strays
    /\ UNCHANGED <<trait, proc, status, recycled>>

-----------------------------------------------------------------------------
\* The host.

\* Subscribing once the command has started.
Subscribed_Late == pc \in {"select", "flush"}

\* signal.Notify runs before cmd.Start, the deferred signal.Stop at return.
Subscribed == pc \in {"notified", "started", "select", "flush"}

\* A signal for the agent: buffered when the slot is free and lost when it
\* is not; without a subscription the default action ends the agent.
HostSignal ==
    /\ agent = "alive" /\ received < MaxSignals
    /\ received' = received + 1
    /\ \E s \in AgentSignals :
         IF Subscribed
         THEN /\ sigs' = IF sigs = {} THEN {s} ELSE sigs
              /\ agent' = agent
         ELSE /\ agent' = "killed"
              /\ sigs' = sigs
    /\ UNCHANGED <<pc, ctxDone, ctxCancelled, timeoutCh, timeoutLeft,
                   waiterVars, killerVars, result, procVars,
                   forwarded, sinceFirst, strays>>

CancelCtx ==
    /\ CtxCancels /\ ~ctxCancelled
    /\ ctxCancelled' = TRUE
    /\ UNCHANGED <<pc, agent, sigs, ctxDone, timeoutCh, timeoutLeft,
                   waiterVars, killerVars, result, procVars, historyVars>>

\* One tick of the clock, for every timer that still runs.
Tick ==
    /\ agent = "alive"
    /\ \/ timeoutCh /\ timeoutLeft > 0
       \/ killer = "waiting" /\ graceLeft > 0
    /\ timeoutLeft' = IF timeoutLeft > 0 THEN timeoutLeft - 1 ELSE 0
    /\ graceLeft' = IF graceLeft > 0 THEN graceLeft - 1 ELSE 0
    /\ sinceFirst' = IF forwarded > 0 /\ sinceFirst < GracePeriod
                     THEN sinceFirst + 1 ELSE sinceFirst
    /\ UNCHANGED <<pc, agent, sigs, ctxDone, ctxCancelled, timeoutCh, waiterVars,
                   killer, result, procVars, received, forwarded, strays>>

-----------------------------------------------------------------------------
\* RunWithOptions.

\* No command, or a command cmd.Start cannot run.
Refuse ==
    /\ agent = "alive" /\ pc \in {"entry", "notified"}
    /\ pc' = "returned"
    /\ result' = [kind |-> "error", code |-> 0]
    /\ UNCHANGED <<agent, sigs, ctxDone, ctxCancelled, timeoutCh, timeoutLeft,
                   waiterVars, killerVars, procVars, historyVars>>

Notify ==
    /\ agent = "alive" /\ pc = "entry"
    /\ pc' = "notified"
    /\ UNCHANGED <<agent, sigs, ctxDone, ctxCancelled, timeoutCh, timeoutLeft,
                   waiterVars, killerVars, result, procVars, historyVars>>

Start ==
    /\ agent = "alive" /\ pc = "notified"
    /\ pc' = "started"
    /\ proc' = [proc EXCEPT ![Leader] = "running"]
    /\ UNCHANGED <<agent, sigs, ctxDone, ctxCancelled, timeoutCh, timeoutLeft,
                   waiterVars, killerVars, result, trait, pending, status,
                   recycled, historyVars>>

SetTimeout(t) ==
    /\ timeoutCh' = (t > 0)
    /\ timeoutLeft' = IF t > 0 THEN t ELSE 0

\* Starting to wait by forgetting the signals of the meantime.
EnterLoop_Drains ==
    /\ agent = "alive" /\ pc = "started"
    /\ pc' = "select"
    /\ waiter' = "wait4"
    /\ sigs' = {}
    /\ \E t \in Timeouts : SetTimeout(t)
    /\ UNCHANGED <<agent, ctxDone, ctxCancelled, waitErr, killerVars,
                   result, procVars, historyVars>>

\* The head of waitWithGracefulTermination: the goroutine inside cmd.Wait
\* starts and the timeout, if there is one, begins to run.
EnterLoop ==
    /\ agent = "alive" /\ pc = "started"
    /\ pc' = "select"
    /\ waiter' = "wait4"
    /\ \E t \in Timeouts : SetTimeout(t)
    /\ UNCHANGED <<agent, sigs, ctxDone, ctxCancelled, waitErr, killerVars,
                   result, procVars, historyVars>>

\* A second signal forces at once.
SendSignalAndScheduleKill_Impatient(sig) ==
    /\ KillGroup(IF killer = "none" THEN sig ELSE SIGKILL)
    /\ forwarded' = forwarded + 1
    /\ IF killer = "none"
       THEN killer' = "waiting" /\ graceLeft' = GracePeriod
       ELSE UNCHANGED killerVars
    /\ UNCHANGED <<received, sinceFirst>>

\* The killed flag is never set: each signal starts the grace period anew.
SendSignalAndScheduleKill_Rearmed(sig) ==
    /\ KillGroup(sig)
    /\ forwarded' = forwarded + 1
    /\ killer' = "waiting" /\ graceLeft' = GracePeriod
    /\ UNCHANGED <<received, sinceFirst>>

\* The signal is forwarded and nothing escalates.
SendSignalAndScheduleKill_NoEscalation(sig) ==
    /\ KillGroup(sig)
    /\ forwarded' = forwarded + 1
    /\ UNCHANGED <<killer, graceLeft, received, sinceFirst>>

\* sendSignalAndScheduleKill: forward sig, and on the first call only start
\* the goroutine that escalates.
SendSignalAndScheduleKill(sig) ==
    /\ KillGroup(sig)
    /\ forwarded' = forwarded + 1
    /\ IF killer = "none"
       THEN killer' = "waiting" /\ graceLeft' = GracePeriod
       ELSE UNCHANGED killerVars
    /\ UNCHANGED <<received, sinceFirst>>

InSelect == agent = "alive" /\ pc = "select"

SelectSignal ==
    /\ InSelect
    /\ \E s \in sigs :
         /\ sigs' = sigs \ {s}
         /\ SendSignalAndScheduleKill(s)
    /\ UNCHANGED <<pc, agent, ctxDone, ctxCancelled, timeoutCh, timeoutLeft,
                   waiterVars, result>>

\* Returning on cancellation without waiting for the command.
SelectCtx_GivesUp ==
    /\ InSelect /\ ctxDone /\ ctxCancelled
    /\ ctxDone' = FALSE
    /\ pc' = "flush"
    /\ SendSignalAndScheduleKill(SIGTERM)
    /\ UNCHANGED <<agent, sigs, ctxCancelled, timeoutCh, timeoutLeft,
                   waiterVars, result>>

SelectCtx ==
    /\ InSelect /\ ctxDone /\ ctxCancelled
    /\ ctxDone' = FALSE
    /\ SendSignalAndScheduleKill(SIGTERM)
    /\ UNCHANGED <<pc, agent, sigs, ctxCancelled, timeoutCh, timeoutLeft,
                   waiterVars, result>>

\* The fired timeout channel is still watched (as a closed one would be).
SelectTimeout_KeepsChannel ==
    /\ InSelect /\ timeoutCh /\ timeoutLeft = 0
    /\ SendSignalAndScheduleKill(SIGTERM)
    /\ UNCHANGED <<pc, agent, sigs, ctxDone, ctxCancelled, timeoutCh,
                   timeoutLeft, waiterVars, result>>

SelectTimeout ==
    /\ InSelect /\ timeoutCh /\ timeoutLeft = 0
    /\ timeoutCh' = FALSE
    /\ SendSignalAndScheduleKill(SIGTERM)
    /\ UNCHANGED <<pc, agent, sigs, ctxDone, ctxCancelled, timeoutLeft,
                   waiterVars, result>>

\* The loop returns, which closes waitDone.
SelectWaitErr ==
    /\ InSelect /\ waiter = "done"
    /\ pc' = "flush"
    /\ UNCHANGED <<agent, sigs, ctxDone, ctxCancelled, timeoutCh, timeoutLeft,
                   waiterVars, killerVars, result, procVars, historyVars>>

\* Go's -1 for a signalled process, as it is and as os.Exit truncates it.
ExitCode_Sentinel(st) == IF st.kind = "signaled" THEN -1 ELSE st.n
ExitCode_Truncated(st) == IF st.kind = "signaled" THEN 255 ELSE st.n

\* exitCodeFromExitError: 128 + signal number for a signalled leader.
ExitCode(st) == IF st.kind = "signaled" THEN 128 + st.n ELSE st.n

\* Flush the redactors, build the Result, and run the deferred signal.Stop.
Finish ==
    /\ agent = "alive" /\ pc = "flush"
    /\ pc' = "returned"
    /\ result' = CASE waitErr = "nil"  -> [kind |-> "result", code |-> 0]
                   [] waitErr = "exit" -> [kind |-> "result", code |-> ExitCode(status)]
                   [] OTHER            -> [kind |-> "error", code |-> 0]
    /\ UNCHANGED <<agent, sigs, ctxDone, ctxCancelled, timeoutCh, timeoutLeft,
                   waiterVars, killerVars, procVars, historyVars>>

-----------------------------------------------------------------------------
\* The goroutine inside cmd.Wait.

\* wait4 reaps the leader.
Reap ==
    /\ agent = "alive" /\ waiter = "wait4" /\ proc[Leader] = "zombie"
    /\ waiter' = "copy"
    /\ proc' = [proc EXCEPT ![Leader] = "gone"]
    /\ UNCHANGED <<agentVars, waitErr, killerVars, result, trait, pending,
                   status, recycled, historyVars>>

\* Not waiting for EOF (an exec.Cmd with a WaitDelay).
CopyEnds_WaitDelay ==
    /\ agent = "alive" /\ waiter = "copy"
    /\ waiter' = "store"
    /\ waitErr' \in IF status = Exited(0) THEN {"nil", "copy"} ELSE {"exit"}
    /\ UNCHANGED <<agentVars, killerVars, result, procVars, historyVars>>

\* The copying of stdout and stderr ends at EOF, when no process holds the
\* pipes; a failed exit hides an error of the copying itself.
CopyEnds ==
    /\ agent = "alive" /\ waiter = "copy"
    /\ \A p \in Procs : ~HoldsPipe(p)
    /\ waiter' = "store"
    /\ waitErr' \in IF status = Exited(0) THEN {"nil", "copy"} ELSE {"exit"}
    /\ UNCHANGED <<agentVars, killerVars, result, procVars, historyVars>>

\* childExited.Store(true), then the buffered send on waitErrCh.
StoreExited ==
    /\ agent = "alive" /\ waiter = "store"
    /\ waiter' = "send"
    /\ UNCHANGED <<agentVars, waitErr, killerVars, result, procVars, historyVars>>

SendWaitErr ==
    /\ agent = "alive" /\ waiter = "send"
    /\ waiter' = "done"
    /\ UNCHANGED <<agentVars, waitErr, killerVars, result, procVars, historyVars>>

ChildExited == waiter \in {"send", "done"}

-----------------------------------------------------------------------------
\* The SIGKILL-after-grace goroutine.

WaitDone == pc \in {"flush", "returned"}

GraceFires ==
    /\ agent = "alive" /\ killer = "waiting" /\ graceLeft = 0
    /\ killer' = IF ChildExited THEN "quit" ELSE "checked"
    /\ UNCHANGED <<agentVars, waiterVars, graceLeft, result, procVars, historyVars>>

SendKill ==
    /\ agent = "alive" /\ killer = "checked"
    /\ killer' = "sent"
    /\ KillGroup(SIGKILL)
    /\ UNCHANGED <<agentVars, waiterVars, graceLeft, result, received,
                   forwarded, sinceFirst>>

KillerQuits ==
    /\ agent = "alive" /\ killer = "waiting" /\ WaitDone
    /\ killer' = "quit"
    /\ UNCHANGED <<agentVars, waiterVars, graceLeft, result, procVars, historyVars>>

-----------------------------------------------------------------------------
\* The run is over: RunWithOptions has returned or the agent is gone.
Over ==
    /\ pc = "returned" \/ agent = "killed"
    /\ UNCHANGED vars

Caller ==
    \/ Refuse \/ Notify \/ Start \/ EnterLoop \/ Finish
    \/ SelectSignal \/ SelectCtx \/ SelectTimeout \/ SelectWaitErr

Waiter == Reap \/ CopyEnds \/ StoreExited \/ SendWaitErr

Killer == GraceFires \/ SendKill \/ KillerQuits

Environment ==
    \/ HostSignal \/ CancelCtx \/ Tick \/ Recycle
    \/ \E p \in Procs : Exit(p) \/ Deliver(p)
    \/ \E h \in Helpers : Spawn(h)

Next == Caller \/ Waiter \/ Killer \/ Environment \/ Over

Spec == Init /\ [][Next]_vars

\* Every goroutine keeps running, every ready case of the select is taken
\* in the end (Go picks among them at random), time passes, and the kernel
\* delivers what was sent. The wrapped command owes nothing: it may never
\* exit on its own.
Fairness ==
    /\ WF_vars(Notify) /\ WF_vars(Start) /\ WF_vars(EnterLoop) /\ WF_vars(Finish)
    /\ WF_vars(SelectSignal) /\ WF_vars(SelectCtx)
    /\ WF_vars(SelectTimeout) /\ WF_vars(SelectWaitErr)
    /\ WF_vars(Waiter) /\ WF_vars(Killer) /\ WF_vars(Tick)
    /\ \A p \in Procs : WF_vars(Deliver(p))

FairSpec == Spec /\ Fairness

-----------------------------------------------------------------------------
\* Properties.

\* The values every variable ranges over, of the code's states and channels.
TypeOK ==
    /\ pc \in {"entry", "notified", "started", "select", "flush", "returned"}
    /\ agent \in {"alive", "killed"}
    /\ sigs \subseteq AgentSignals
    /\ ctxDone \in BOOLEAN /\ ctxCancelled \in BOOLEAN
    /\ timeoutCh \in BOOLEAN /\ timeoutLeft \in Nat
    /\ waiter \in {"none", "wait4", "copy", "store", "send", "done"}
    /\ waitErr \in {"none", "nil", "exit", "copy"}
    /\ killer \in {"none", "waiting", "checked", "sent", "quit"}
    /\ graceLeft \in 0..GracePeriod
    /\ result \in [kind : {"none", "result", "error"}, code : Nat]
    /\ trait \in [Procs -> Traits]
    /\ proc \in [Procs -> {"unborn", "running", "zombie", "gone"}]
    /\ pending \in [Procs -> SUBSET Signals]
    /\ status \in [kind : {"none", "exited", "signaled"}, n : Nat]
    /\ recycled \in BOOLEAN
    /\ received \in 0..MaxSignals /\ forwarded \in Nat
    /\ sinceFirst \in 0..GracePeriod
    /\ strays \subseteq Signals

\* A signal never ends the agent while the wrapped command is alive or not
\* yet reaped: the handler is installed before the fork and removed after
\* the command is gone (the comment on signal.Notify).
SignalNeverOrphans ==
    agent = "killed" => proc[Leader] \in {"unborn", "gone"}

\* The wrapped command has the whole grace period between the first signal
\* the agent sends it and SIGKILL, whatever further signals, cancellation
\* or timeout arrive in between.
GraceHonoured ==
    killer = "checked" \/ (\E p \in Procs : SIGKILL \in pending[p])
        => sinceFirst = GracePeriod

\* A repeated signal never postpones the escalation the first one started.
EscalationNotPostponed ==
    [][killer = "waiting" /\ killer' = "waiting" => graceLeft' <= graceLeft]_vars

\* The agent sends the group one signal for each it received, one for the
\* timeout and one for the cancelled context, never a storm of them.
NoSignalStorm == forwarded <= received + 2

\* RunWithOptions reports how the leader really ended: its own code, or
\* 128 + n when signal n ended it; and an error for a command that ran only
\* when that command exited 0 and the copying of its output failed.
ResultFaithful ==
    /\ result.kind = "result" =>
         \/ status.kind = "exited" /\ result.code = status.n
         \/ status.kind = "signaled" /\ result.code > 128
                                     /\ status.n = result.code - 128
    /\ (result.kind = "error" /\ proc[Leader] # "unborn") => status = Exited(0)

\* When the loop has returned, no live process can still write to the
\* captured streams: the redactors are flushed and the buffers read without
\* a lock, which is sound only because cmd.Wait saw EOF on both pipes.
CaptureQuiescent ==
    (pc = "flush" \/ result.kind = "result") => \A p \in Procs : ~HoldsPipe(p)

\* Once SIGKILL is sent, it has reached every process of the command's
\* group, the helpers forked in the meantime too: the subtree the comment on
\* Setpgid speaks of.
SubtreeKilled ==
    killer = "sent" => \A p \in Procs : InGroup(p) => SIGKILL \in pending[p]

\* A run with a timeout ends, even when the command ignores SIGTERM.
TimeoutEndsRun == (pc = "select" /\ timeoutCh) ~> (pc = "returned")

\* A signal the agent has buffered ends the run, timeout or not.
SignalEndsRun == (sigs # {}) ~> (pc = "returned")

\* The run keeps the promise of CommandRun.
Phase ==
    IF result.kind # "none" THEN "reported"
    ELSE CASE proc[Leader] = "unborn"  -> "idle"
           [] proc[Leader] = "running" -> "running"
           [] OTHER                    -> "ended"

Open == \E p \in Procs : HoldsPipe(p)

Promise == INSTANCE CommandRun WITH
    Statuses <- Endings,
    phase    <- Phase,
    open     <- Open,
    asked    <- forwarded > 0,
    waited   <- sinceFirst,
    forced   <- killer = "sent",
    outcome  <- status,
    report   <- result,
    aborted  <- agent = "killed"

\* Whatever the goroutines, the processes and the host do, the caller of
\* RunWithOptions sees one command that is asked before it is forced and a
\* single, last and truthful report.
KeepsPromise == Promise!Spec

\* The comment on childExited: no SIGKILL of the agent reaches a process
\* group that the kernel recycled.
NoStrayKill == SIGKILL \notin strays

=============================================================================
