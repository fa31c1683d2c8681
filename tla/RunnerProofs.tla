---------------------------- MODULE RunnerProofs ----------------------------
(***************************************************************************)
(* Theorems about Runner, for every set of helpers and traits, every       *)
(* timeout and grace period, and any number of host signals.               *)
(*                                                                         *)
(* The safety properties are not inductive by themselves: each needs to    *)
(* know where the three goroutines can be relative to the processes.       *)
(* Stages .. Budget below say so, one concern each; IInv is their          *)
(* conjunction with the type invariant.                                    *)
(***************************************************************************)
EXTENDS Runner, TLAPS

\* Where the caller is, what the goroutine inside cmd.Wait has done, and how
\* far the leader is.
Stages ==
    /\ pc \in {"entry", "notified"} => proc[Leader] = "unborn"
    /\ pc = "started" => proc[Leader] \in {"running", "zombie"}
    /\ pc \in {"select", "flush"} => proc[Leader] # "unborn"
    /\ pc \in {"entry", "notified", "started"} => waiter = "none"
    /\ pc = "select" => waiter # "none"
    /\ pc = "flush" => waiter = "done"
    /\ pc = "returned" => (waiter = "none" /\ proc[Leader] = "unborn") \/ waiter = "done"
    /\ waiter = "wait4" => proc[Leader] \in {"running", "zombie"}
    /\ waiter \in {"copy", "store", "send", "done"} => proc[Leader] = "gone"
    /\ agent = "killed" => pc \in {"entry", "returned"}
    /\ pc = "entry" => sigs = {}

\* What is known of the leader's end, of cmd.Wait's error and of the result.
Outcomes ==
    /\ proc[Leader] \in {"unborn", "running"} => status = NoStatus
    /\ proc[Leader] \in {"zombie", "gone"} => status \in Endings
    /\ waiter \in {"store", "send", "done"} =>
         \/ waitErr \in {"nil", "copy"} /\ status = Exited(0)
         \/ waitErr = "exit"
    /\ pc # "returned" => result = NoResult
    /\ pc = "returned" =>
         \/ result = [kind |-> "error", code |-> 0] /\ proc[Leader] = "unborn"
         \/ result = [kind |-> "error", code |-> 0] /\ status = Exited(0)
         \/ result = [kind |-> "result", code |-> ExitCode(status)] /\ waiter = "done"

\* cmd.Wait saw EOF, and nobody can open a pipe again.
Quiet ==
    /\ trait[Leader].grouped /\ trait[Leader].writes
    /\ waiter \in {"store", "send", "done"} => \A p \in Procs : ~HoldsPipe(p)
    /\ proc[Leader] = "unborn" => \A p \in Procs : proc[p] = "unborn"

\* The escalation starts with the first signal and runs with the clock.
Escalation ==
    /\ pc \in {"entry", "notified", "started"} => forwarded = 0
    /\ (pc = "returned" /\ proc[Leader] = "unborn") => forwarded = 0
    /\ forwarded = 0 <=> killer = "none"
    /\ killer = "none" => sinceFirst = 0
    /\ killer = "waiting" => sinceFirst + graceLeft = GracePeriod
    /\ killer \in {"checked", "sent"} => sinceFirst = GracePeriod
    /\ \A p \in Procs : SIGKILL \in pending[p] => killer = "sent"

\* SIGKILL, once sent, is pending for the whole group.
Reach == SubtreeKilled

\* Every signal sent to the group was paid for by a signal received, by the
\* timeout or by the context.
B(b) == IF b THEN 1 ELSE 0

Budget ==
    /\ sigs = {} \/ \E s \in AgentSignals : sigs = {s}
    /\ forwarded + B(sigs # {}) + B(ctxDone)
         + B(timeoutCh \/ pc \in {"entry", "notified", "started"}) <= received + 2

IInv == TypeOK /\ Stages /\ Outcomes /\ Quiet /\ Escalation /\ Reach /\ Budget


-----------------------------------------------------------------------------
\* Type correctness.

LEMMA TypeInit == Init => TypeOK
  <1> SUFFICES ASSUME Init PROVE TypeOK
    OBVIOUS
  <1>1. ctxDone \in BOOLEAN /\ ctxCancelled \in BOOLEAN /\ timeoutCh \in BOOLEAN
        /\ recycled \in BOOLEAN
    BY Zenon DEF Init
  <1>2. /\ result \in [kind : {"none", "result", "error"}, code : Nat]
        /\ status \in [kind : {"none", "exited", "signaled"}, n : Nat]
    BY DEF Init, NoResult, NoStatus
  <1> QED
    BY <1>1, <1>2, RunnerAssumption DEF Init, TypeOK

\* A process that ends keeps the types, whichever way it ends.
LEMMA TypeEnds ==
  ASSUME TypeOK, NEW p \in Procs, NEW how \in Endings, Ends(p, how)
  PROVE  /\ trait' \in [Procs -> Traits]
         /\ proc' \in [Procs -> {"unborn", "running", "zombie", "gone"}]
         /\ pending' \in [Procs -> SUBSET Signals]
         /\ status' \in [kind : {"none", "exited", "signaled"}, n : Nat]
         /\ recycled' \in BOOLEAN
  <1>1. how \in [kind : {"none", "exited", "signaled"}, n : Nat]
    BY RunnerAssumption
       DEF Endings, Exited, Signaled, Signals, AgentSignals, SIGINT, SIGTERM, SIGKILL
  <1> QED BY <1>1 DEF TypeOK, Ends

\* So does a signal to the group.
LEMMA TypeKillGroup ==
  ASSUME TypeOK, NEW sig \in Signals, KillGroup(sig)
  PROVE  /\ trait' \in [Procs -> Traits]
         /\ proc' \in [Procs -> {"unborn", "running", "zombie", "gone"}]
         /\ pending' \in [Procs -> SUBSET Signals]
         /\ status' \in [kind : {"none", "exited", "signaled"}, n : Nat]
         /\ recycled' \in BOOLEAN
         /\ strays' \subseteq Signals
  BY DEF TypeOK, KillGroup

LEMMA TypeForward ==
  ASSUME TypeOK, NEW sig \in Signals, SendSignalAndScheduleKill(sig)
  PROVE  /\ killer' \in {"none", "waiting", "checked", "sent", "quit"}
         /\ graceLeft' \in 0..GracePeriod
         /\ received' \in 0..MaxSignals /\ forwarded' \in Nat
         /\ sinceFirst' \in 0..GracePeriod
  BY RunnerAssumption DEF TypeOK, SendSignalAndScheduleKill, killerVars

LEMMA TypeCaller == TypeOK /\ Caller => TypeOK'
  <1> SUFFICES ASSUME TypeOK, Caller PROVE TypeOK'
    OBVIOUS
  <1> USE RunnerAssumption
      DEF TypeOK, agentVars, waiterVars, killerVars, procVars, historyVars
  <1>1. CASE Refuse
    BY <1>1 DEF Refuse
  <1>2. CASE Notify
    BY <1>2 DEF Notify
  <1>3. CASE Start
    BY <1>3 DEF Start, Procs
  <1>4. CASE EnterLoop
    <2>1. PICK t \in Timeouts : SetTimeout(t)
      BY <1>4 DEF EnterLoop
    <2>2. timeoutCh' \in BOOLEAN
      BY <2>1, RunnerAssumption, SMT DEF SetTimeout
    <2>3. timeoutLeft' \in Nat
      BY <2>1 DEF SetTimeout
    <2> QED BY <1>4, <2>2, <2>3 DEF EnterLoop
  <1>5. CASE Finish
    <2>1. ExitCode(status) \in Nat
      BY DEF ExitCode
    <2> QED BY <1>5, <2>1 DEF Finish
  <1>6. CASE SelectSignal
    <2>1. PICK s \in sigs : sigs' = sigs \ {s} /\ SendSignalAndScheduleKill(s)
      BY <1>6 DEF SelectSignal
    <2>2. s \in Signals
      BY DEF Signals
    <2> QED
      BY <1>6, <2>1, <2>2, TypeKillGroup, TypeForward
         DEF SelectSignal, SendSignalAndScheduleKill
  <1>7. CASE SelectCtx
    <2>1. SIGTERM \in Signals /\ SendSignalAndScheduleKill(SIGTERM)
      BY <1>7 DEF SelectCtx, Signals, AgentSignals
    <2>2. ctxDone' \in BOOLEAN
      BY <1>7, ZenonT(30) DEF SelectCtx
    <2> QED
      BY <1>7, <2>1, <2>2, TypeKillGroup, TypeForward
         DEF SelectCtx, SendSignalAndScheduleKill
  <1>8. CASE SelectTimeout
    <2>1. SIGTERM \in Signals /\ SendSignalAndScheduleKill(SIGTERM)
      BY <1>8 DEF SelectTimeout, Signals, AgentSignals
    <2>2. timeoutCh' \in BOOLEAN
      BY <1>8, ZenonT(30) DEF SelectTimeout
    <2> QED
      BY <1>8, <2>1, <2>2, TypeKillGroup, TypeForward
         DEF SelectTimeout, SendSignalAndScheduleKill
  <1>9. CASE SelectWaitErr
    BY <1>9 DEF SelectWaitErr
  <1> QED
    BY <1>1, <1>2, <1>3, <1>4, <1>5, <1>6, <1>7, <1>8, <1>9 DEF Caller

LEMMA TypeGoroutines == TypeOK /\ (Waiter \/ Killer) => TypeOK'
  <1> SUFFICES ASSUME TypeOK, Waiter \/ Killer PROVE TypeOK'
    OBVIOUS
  <1> USE DEF TypeOK, agentVars, waiterVars, killerVars, procVars, historyVars
  <1>1. CASE Reap
    BY <1>1 DEF Reap, Procs
  <1>2. CASE CopyEnds
    BY <1>2 DEF CopyEnds
  <1>3. CASE StoreExited
    BY <1>3 DEF StoreExited
  <1>4. CASE SendWaitErr
    BY <1>4 DEF SendWaitErr
  <1>5. CASE GraceFires
    BY <1>5 DEF GraceFires
  <1>6. CASE SendKill
    <2>1. SIGKILL \in Signals
      BY DEF Signals
    <2> QED BY <1>6, <2>1, TypeKillGroup DEF SendKill
  <1>7. CASE KillerQuits
    BY <1>7 DEF KillerQuits
  <1> QED
    BY <1>1, <1>2, <1>3, <1>4, <1>5, <1>6, <1>7 DEF Waiter, Killer

LEMMA TypeEnvironment == TypeOK /\ Environment => TypeOK'
  <1> SUFFICES ASSUME TypeOK, Environment PROVE TypeOK'
    OBVIOUS
  <1> USE RunnerAssumption
      DEF TypeOK, agentVars, waiterVars, killerVars, procVars, historyVars
  <1>1. CASE HostSignal
    BY <1>1 DEF HostSignal
  <1>2. CASE CancelCtx
    BY <1>2 DEF CancelCtx
  <1>3. CASE Tick
    BY <1>3 DEF Tick
  <1>4. CASE Recycle
    BY <1>4 DEF Recycle
  <1>5. ASSUME NEW p \in Procs, Exit(p) PROVE TypeOK'
    <2>1. PICK how \in Endings : Ends(p, how)
      BY <1>5 DEF Exit, Endings, Signals
    <2> QED BY <1>5, <2>1, TypeEnds DEF Exit
  <1>6. ASSUME NEW p \in Procs, Deliver(p) PROVE TypeOK'
    <2>1. PICK s \in pending[p] :
            \/ \E how \in Endings : Ends(p, how)
            \/ /\ pending' = [pending EXCEPT ![p] = @ \ {s}]
               /\ UNCHANGED <<trait, proc, status, recycled>>
      BY <1>6 DEF Deliver, Endings
    <2>2. CASE \E how \in Endings : Ends(p, how)
      BY <1>6, <2>2, TypeEnds DEF Deliver
    <2>3. CASE /\ pending' = [pending EXCEPT ![p] = @ \ {s}]
               /\ UNCHANGED <<trait, proc, status, recycled>>
      BY <1>6, <2>3 DEF Deliver
    <2> QED BY <2>1, <2>2, <2>3
  <1>7. ASSUME NEW h \in Helpers, Spawn(h) PROVE TypeOK'
    BY <1>7 DEF Spawn, Procs
  <1> QED
    BY <1>1, <1>2, <1>3, <1>4, <1>5, <1>6, <1>7 DEF Environment

LEMMA TypeStep == TypeOK /\ [Next]_vars => TypeOK'
  <1>1. TypeOK /\ UNCHANGED vars => TypeOK'
    BY DEF TypeOK, vars, agentVars, waiterVars, killerVars, procVars, historyVars
  <1> QED
    BY <1>1, TypeCaller, TypeGoroutines, TypeEnvironment DEF Next, Over

\* Every variable keeps to its type, the bounds of the timers included.
THEOREM TypeCorrect == Spec => []TypeOK
  BY TypeInit, TypeStep, PTL DEF Spec

-----------------------------------------------------------------------------
\* The inductive invariant, part by part.

\* What a step does to the processes, for the actions that end one.
LEMMA EndsEffect ==
  ASSUME TypeOK, NEW p \in Procs, NEW how, Ends(p, how)
  PROVE  /\ \A q \in Procs : q # p => proc'[q] = proc[q] /\ pending'[q] = pending[q]
         /\ pending'[p] = {} /\ proc'[p] \in {"zombie", "gone"}
         /\ trait' = trait
         /\ p = Leader => proc'[Leader] = "zombie" /\ status' = how
         /\ p # Leader => proc'[Leader] = proc[Leader] /\ status' = status
  BY DEF TypeOK, Ends, Procs

\* An Exit or a Deliver either ends the process or consumes a signal that
\* is not SIGKILL.
LEMMA ProcessStep ==
  ASSUME TypeOK, NEW p \in Procs, Exit(p) \/ Deliver(p)
  PROVE  /\ Running(p)
         /\ \/ \E how \in Endings : Ends(p, how)
            \/ \E s \in pending[p] :
                 /\ s # SIGKILL
                 /\ pending' = [pending EXCEPT ![p] = @ \ {s}]
                 /\ UNCHANGED <<trait, proc, status, recycled>>
         /\ UNCHANGED <<agentVars, waiterVars, killerVars, result, historyVars>>
  <1>1. CASE Exit(p)
    BY <1>1 DEF Exit, Endings, Signals
  <1>2. CASE Deliver(p)
    <2>1. PICK s \in pending[p] :
            \/ Ends(p, Signaled(s)) /\ s \in Signals
            \/ \E c \in ExitCodes : Ends(p, Exited(c))
            \/ /\ s # SIGKILL
               /\ pending' = [pending EXCEPT ![p] = @ \ {s}]
               /\ UNCHANGED <<trait, proc, status, recycled>>
      BY <1>2 DEF Deliver, TypeOK
    <2> QED BY <1>2, <2>1 DEF Deliver, Endings
  <1> QED BY <1>1, <1>2

LEMMA StagesStep == TypeOK /\ Stages /\ [Next]_vars => Stages'
  <1> SUFFICES ASSUME TypeOK, Stages, [Next]_vars PROVE Stages'
    OBVIOUS
  <1> USE DEF Stages, agentVars, waiterVars, killerVars, procVars, historyVars
  <1>1. CASE Refuse
    BY <1>1 DEF Refuse
  <1>2. CASE Notify
    BY <1>2 DEF Notify
  <1>3. CASE Start
    BY <1>3 DEF Start, TypeOK, Procs
  <1>4. CASE EnterLoop
    BY <1>4 DEF EnterLoop
  <1>5. CASE Finish
    BY <1>5 DEF Finish
  <1>6. CASE SelectSignal \/ SelectCtx \/ SelectTimeout
    BY <1>6 DEF SelectSignal, SelectCtx, SelectTimeout, InSelect,
                SendSignalAndScheduleKill, KillGroup
  <1>7. CASE SelectWaitErr
    BY <1>7 DEF SelectWaitErr, InSelect
  <1>8. CASE Reap
    BY <1>8 DEF Reap, TypeOK, Procs
  <1>9. CASE CopyEnds \/ StoreExited \/ SendWaitErr
    BY <1>9 DEF CopyEnds, StoreExited, SendWaitErr
  <1>10. CASE GraceFires \/ SendKill \/ KillerQuits
    BY <1>10 DEF GraceFires, SendKill, KillerQuits, KillGroup
  <1>11. CASE HostSignal
    BY <1>11 DEF HostSignal, Subscribed, TypeOK
  <1>12. CASE CancelCtx \/ Tick \/ Recycle
    BY <1>12 DEF CancelCtx, Tick, Recycle
  <1>13. ASSUME NEW p \in Procs, Exit(p) \/ Deliver(p) PROVE Stages'
    <2>1. UNCHANGED <<pc, agent, sigs, waiter>>
      BY <1>13, ProcessStep
    <2>2. \/ UNCHANGED proc
          \/ proc[Leader] = "running" /\ proc'[Leader] = "zombie"
          \/ proc'[Leader] = proc[Leader]
      BY <1>13, ProcessStep, EndsEffect DEF Running, Procs
    <2> QED BY <2>1, <2>2
  <1>14. ASSUME NEW h \in Helpers, Spawn(h) PROVE Stages'
    BY <1>14, RunnerAssumption DEF Spawn, TypeOK, Procs
  <1>15. CASE UNCHANGED vars
    BY <1>15 DEF vars
  <1> QED
    BY <1>1, <1>2, <1>3, <1>4, <1>5, <1>6, <1>7, <1>8, <1>9, <1>10, <1>11,
       <1>12, <1>13, <1>14, <1>15
       DEF Next, Caller, Waiter, Killer, Environment, Over

LEMMA OutcomesStep == TypeOK /\ Stages /\ Outcomes /\ [Next]_vars => Outcomes'
  <1> SUFFICES ASSUME TypeOK, Stages, Outcomes, [Next]_vars PROVE Outcomes'
    OBVIOUS
  <1> USE DEF Outcomes, agentVars, waiterVars, killerVars, procVars, historyVars
  <1>1. CASE Refuse
    BY <1>1 DEF Refuse, Stages
  <1>2. CASE Notify \/ EnterLoop \/ SelectWaitErr
    BY <1>2 DEF Notify, EnterLoop, SelectWaitErr, InSelect
  <1>3. CASE Start
    BY <1>3 DEF Start, TypeOK, Procs, Stages
  <1>4. CASE Finish
    <2>1. waiter = "done" /\ status \in Endings
      BY <1>4 DEF Finish, Stages
    <2>2. CASE waitErr = "exit"
      BY <1>4, <2>1, <2>2 DEF Finish
    <2>3. CASE waitErr = "nil" /\ status = Exited(0)
      BY <1>4, <2>1, <2>3 DEF Finish, ExitCode, Exited
    <2>4. CASE waitErr = "copy" /\ status = Exited(0)
      BY <1>4, <2>1, <2>4 DEF Finish
    <2> QED BY <2>1, <2>2, <2>3, <2>4
  <1>5. CASE SelectSignal \/ SelectCtx \/ SelectTimeout
    BY <1>5 DEF SelectSignal, SelectCtx, SelectTimeout, InSelect,
                SendSignalAndScheduleKill, KillGroup
  <1>6. CASE Reap
    BY <1>6 DEF Reap, TypeOK, Procs
  <1>7. CASE CopyEnds
    BY <1>7 DEF CopyEnds, Stages
  <1>8. CASE StoreExited \/ SendWaitErr
    BY <1>8 DEF StoreExited, SendWaitErr, Stages
  <1>9. CASE GraceFires \/ SendKill \/ KillerQuits
    BY <1>9 DEF GraceFires, SendKill, KillerQuits, KillGroup
  <1>10. CASE HostSignal \/ CancelCtx \/ Tick \/ Recycle
    BY <1>10 DEF HostSignal, CancelCtx, Tick, Recycle
  <1>11. ASSUME NEW p \in Procs, Exit(p) \/ Deliver(p) PROVE Outcomes'
    <2>1. UNCHANGED <<pc, waiter, waitErr, result>>
      BY <1>11, ProcessStep
    <2>2. \/ UNCHANGED <<proc, status>>
          \/ p # Leader /\ proc'[Leader] = proc[Leader] /\ status' = status
          \/ p = Leader /\ proc'[Leader] = "zombie" /\ status' \in Endings
      BY <1>11, ProcessStep, EndsEffect
    <2>3. CASE p = Leader /\ proc'[Leader] = "zombie" /\ status' \in Endings
      <3>1. proc[Leader] = "running"
        BY <1>11, <2>3, ProcessStep DEF Running
      <3>2. waiter \in {"none", "wait4"} /\ pc # "returned"
        BY <3>1 DEF Stages, TypeOK
      <3> QED BY <2>1, <2>3, <3>2
    <2> QED BY <2>1, <2>2, <2>3
  <1>12. ASSUME NEW h \in Helpers, Spawn(h) PROVE Outcomes'
    BY <1>12, RunnerAssumption DEF Spawn, TypeOK, Procs
  <1>13. CASE UNCHANGED vars
    BY <1>13 DEF vars
  <1> QED
    BY <1>1, <1>2, <1>3, <1>4, <1>5, <1>6, <1>7, <1>8, <1>9, <1>10, <1>11,
       <1>12, <1>13
       DEF Next, Caller, Waiter, Killer, Environment, Over

LEMMA QuietStep == TypeOK /\ Stages /\ Quiet /\ [Next]_vars => Quiet'
  <1> SUFFICES ASSUME TypeOK, Stages, Quiet, [Next]_vars PROVE Quiet'
    OBVIOUS
  <1> USE DEF Quiet, HoldsPipe, Running, agentVars, waiterVars, killerVars,
              procVars, historyVars
  <1>1. CASE Refuse \/ Notify \/ Finish \/ SelectWaitErr \/ HostSignal
             \/ CancelCtx \/ Tick \/ Recycle
    BY <1>1 DEF Refuse, Notify, Finish, SelectWaitErr, HostSignal, CancelCtx,
                Tick, Recycle
  <1>2. CASE EnterLoop
    BY <1>2 DEF EnterLoop
  <1>3. CASE Start
    BY <1>3 DEF Start, TypeOK, Procs, Stages
  <1>4. CASE SelectSignal \/ SelectCtx \/ SelectTimeout
    BY <1>4 DEF SelectSignal, SelectCtx, SelectTimeout,
                SendSignalAndScheduleKill, KillGroup
  <1>5. CASE Reap
    BY <1>5 DEF Reap, TypeOK, Procs
  <1>6. CASE CopyEnds
    BY <1>6 DEF CopyEnds
  <1>7. CASE StoreExited \/ SendWaitErr
    BY <1>7 DEF StoreExited, SendWaitErr
  <1>8. CASE GraceFires \/ SendKill \/ KillerQuits
    BY <1>8 DEF GraceFires, SendKill, KillerQuits, KillGroup
  <1>9. ASSUME NEW p \in Procs, Exit(p) \/ Deliver(p) PROVE Quiet'
    <2>1. UNCHANGED <<trait, waiter>>
      BY <1>9, ProcessStep, EndsEffect
    <2>2. Running(p) /\ \A q \in Procs : proc'[q] = proc[q] \/ proc'[q] \in {"zombie", "gone"}
      BY <1>9, ProcessStep, EndsEffect
    <2>3. proc[Leader] # "unborn"
      BY <2>2
    <2>4. proc'[Leader] # "unborn"
      BY <2>2, <2>3 DEF Procs
    <2> QED BY <2>1, <2>2, <2>4
  <1>10. ASSUME NEW h \in Helpers, Spawn(h) PROVE Quiet'
    <2>1. PICK p \in Procs : Running(p) /\ (trait[h].writes => trait[p].writes)
      BY <1>10 DEF Spawn
    <2>2. h \in Procs /\ h # Leader
      BY RunnerAssumption DEF Procs
    <2>3. UNCHANGED <<trait, waiter>> /\ proc' = [proc EXCEPT ![h] = "running"]
      BY <1>10 DEF Spawn
    <2>4. proc'[Leader] # "unborn"
      BY <2>1, <2>2, <2>3 DEF TypeOK, Procs
    <2>5. waiter \in {"store", "send", "done"} => ~trait[h].writes
      BY <2>1
    <2> QED BY <2>2, <2>3, <2>4, <2>5 DEF TypeOK
  <1>11. CASE UNCHANGED vars
    BY <1>11 DEF vars
  <1> QED
    BY <1>1, <1>2, <1>3, <1>4, <1>5, <1>6, <1>7, <1>8, <1>9, <1>10, <1>11
       DEF Next, Caller, Waiter, Killer, Environment, Over

LEMMA EscalationStep ==
  TypeOK /\ Stages /\ Escalation /\ [Next]_vars => Escalation'
  <1> SUFFICES ASSUME TypeOK, Stages, Escalation, [Next]_vars PROVE Escalation'
    OBVIOUS
  <1> USE DEF Escalation, agentVars, waiterVars, killerVars, procVars, historyVars
  <1>1. CASE Refuse
    BY <1>1 DEF Refuse
  <1>2. CASE Notify \/ EnterLoop
    BY <1>2 DEF Notify, EnterLoop
  <1>3. CASE Start
    BY <1>3 DEF Start
  <1>4. CASE Finish \/ SelectWaitErr
    BY <1>4 DEF Finish, SelectWaitErr, InSelect, Stages
  <1>5. ASSUME NEW sig \in AgentSignals, pc = "select", pc' = "select",
               SendSignalAndScheduleKill(sig)
        PROVE  Escalation'
    <2>1. sig # SIGKILL
      BY DEF AgentSignals, SIGINT, SIGTERM, SIGKILL
    <2>2. forwarded' = forwarded + 1 /\ forwarded' # 0 /\ sinceFirst' = sinceFirst
      BY <1>5 DEF SendSignalAndScheduleKill, TypeOK
    <2>3. \A p \in Procs : SIGKILL \in pending'[p] => SIGKILL \in pending[p]
      BY <1>5, <2>1 DEF SendSignalAndScheduleKill, KillGroup
    <2>4. CASE killer = "none"
      BY <1>5, <2>2, <2>3, <2>4, RunnerAssumption
         DEF SendSignalAndScheduleKill, TypeOK
    <2>5. CASE killer # "none"
      BY <1>5, <2>2, <2>3, <2>5 DEF SendSignalAndScheduleKill
    <2> QED BY <2>4, <2>5
  <1>6. CASE SelectSignal
    <2>1. PICK s \in sigs : SendSignalAndScheduleKill(s)
      BY <1>6 DEF SelectSignal
    <2> QED BY <1>5, <1>6, <2>1 DEF SelectSignal, InSelect, TypeOK
  <1>7. CASE SelectCtx \/ SelectTimeout
    BY <1>5, <1>7 DEF SelectCtx, SelectTimeout, InSelect, AgentSignals
  <1>8. CASE Reap
    BY <1>8 DEF Reap, Stages, TypeOK, Procs
  <1>9. CASE CopyEnds \/ StoreExited \/ SendWaitErr
    BY <1>9 DEF CopyEnds, StoreExited, SendWaitErr
  <1>10. CASE GraceFires
    BY <1>10, RunnerAssumption DEF GraceFires, TypeOK
  <1>11. CASE SendKill
    BY <1>11 DEF SendKill, KillGroup
  <1>12. CASE KillerQuits
    BY <1>12 DEF KillerQuits
  <1>13. CASE Tick
    BY <1>13, RunnerAssumption DEF Tick, TypeOK
  <1>14. CASE HostSignal \/ CancelCtx \/ Recycle
    BY <1>14 DEF HostSignal, CancelCtx, Recycle
  <1>15. ASSUME NEW p \in Procs, Exit(p) \/ Deliver(p) PROVE Escalation'
    <2>1. UNCHANGED <<pc, forwarded, killer, graceLeft, sinceFirst>>
      BY <1>15, ProcessStep
    <2>2. \A q \in Procs : pending'[q] \subseteq pending[q]
      BY <1>15, ProcessStep, EndsEffect DEF TypeOK
    <2>3. proc'[Leader] = "unborn" => proc[Leader] = "unborn"
      BY <1>15, ProcessStep, EndsEffect DEF Procs
    <2> QED BY <2>1, <2>2, <2>3
  <1>16. ASSUME NEW h \in Helpers, Spawn(h) PROVE Escalation'
    BY <1>16, RunnerAssumption DEF Spawn, TypeOK, Procs
  <1>17. CASE UNCHANGED vars
    BY <1>17 DEF vars
  <1> QED
    BY <1>1, <1>2, <1>3, <1>4, <1>6, <1>7, <1>8, <1>9, <1>10, <1>11, <1>12,
       <1>13, <1>14, <1>15, <1>16, <1>17
       DEF Next, Caller, Waiter, Killer, Environment, Over

\* A signal to the group takes nothing away from what is pending.
LEMMA ReachKillGroup ==
  ASSUME Reach, NEW sig, KillGroup(sig), killer' = "sent" => killer = "sent"
  PROVE  Reach'
  BY DEF Reach, SubtreeKilled, KillGroup, InGroup, Running

LEMMA ReachStep ==
  TypeOK /\ Stages /\ Escalation /\ Reach /\ [Next]_vars => Reach'
  <1> SUFFICES ASSUME TypeOK, Stages, Escalation, Reach, [Next]_vars PROVE Reach'
    OBVIOUS
  <1> USE DEF agentVars, waiterVars, killerVars, procVars, historyVars
  <1>1. ASSUME UNCHANGED procVars, killer' # "sent" \/ killer' = killer PROVE Reach'
    BY <1>1 DEF Reach, SubtreeKilled, InGroup, Running
  <1>2. CASE Refuse \/ Notify \/ EnterLoop \/ Finish \/ SelectWaitErr
             \/ CopyEnds \/ StoreExited \/ SendWaitErr \/ HostSignal
             \/ CancelCtx \/ Tick
    BY <1>1, <1>2 DEF Refuse, Notify, EnterLoop, Finish, SelectWaitErr,
                CopyEnds, StoreExited, SendWaitErr, HostSignal, CancelCtx, Tick
  <1>3. CASE GraceFires \/ KillerQuits
    BY <1>1, <1>3 DEF GraceFires, KillerQuits
  <1>4. CASE Start
    BY <1>4 DEF Start, Stages, Escalation, Reach, SubtreeKilled
  <1>5. CASE SelectSignal \/ SelectCtx \/ SelectTimeout
    <2>1. PICK sig \in Signals : SendSignalAndScheduleKill(sig)
      BY <1>5 DEF SelectSignal, SelectCtx, SelectTimeout, TypeOK, Signals, AgentSignals
    <2> QED BY <2>1, ReachKillGroup DEF SendSignalAndScheduleKill
  <1>6. CASE Reap \/ Recycle
    BY <1>6 DEF Reap, Recycle, Reach, SubtreeKilled, InGroup, Running, TypeOK, Procs
  <1>7. CASE SendKill
    BY <1>7 DEF SendKill, KillGroup, Reach, SubtreeKilled, InGroup, Running
  <1>8. ASSUME NEW p \in Procs, Exit(p) \/ Deliver(p) PROVE Reach'
    <2>1. killer' = killer /\ trait' = trait
      BY <1>8, ProcessStep, EndsEffect
    <2>2. ASSUME NEW q \in Procs, InGroup(q)'
          PROVE  InGroup(q) /\ (SIGKILL \in pending[q] => SIGKILL \in pending'[q])
      BY <1>8, <2>1, <2>2, ProcessStep, EndsEffect DEF InGroup, Running, TypeOK
    <2> QED BY <2>1, <2>2 DEF Reach, SubtreeKilled
  <1>9. ASSUME NEW h \in Helpers, Spawn(h) PROVE Reach'
    <2>1. PICK p \in Procs :
            Running(p) /\ pending[p] = {} /\ (trait[h].grouped => trait[p].grouped)
      BY <1>9 DEF Spawn
    <2>2. /\ UNCHANGED <<trait, pending, killer>>
          /\ \A q \in Procs : q # h => proc'[q] = proc[q]
      BY <1>9 DEF Spawn, TypeOK
    <2>3. killer = "sent" => ~trait[h].grouped
      BY <2>1 DEF Reach, SubtreeKilled, InGroup
    <2> QED BY <2>2, <2>3 DEF Reach, SubtreeKilled, InGroup, Running
  <1>10. CASE UNCHANGED vars
    BY <1>1, <1>10 DEF vars
  <1> QED
    BY <1>2, <1>3, <1>4, <1>5, <1>6, <1>7, <1>8, <1>9, <1>10
       DEF Next, Caller, Waiter, Killer, Environment, Over

LEMMA BudgetStep ==
  TypeOK /\ Stages /\ Budget /\ [Next]_vars => Budget'
  <1> SUFFICES ASSUME TypeOK, Stages, Budget, [Next]_vars PROVE Budget'
    OBVIOUS
  <1> USE DEF Budget, B, TypeOK, agentVars, waiterVars, killerVars, procVars,
              historyVars
  <1>1. CASE Refuse \/ Notify \/ Start \/ EnterLoop \/ SelectWaitErr \/ Finish
    BY <1>1, RunnerAssumption
       DEF Refuse, Notify, Start, EnterLoop, SelectWaitErr, Finish, InSelect
  <1>2. CASE SelectSignal
    <2>1. PICK s \in sigs : sigs' = sigs \ {s} /\ SendSignalAndScheduleKill(s)
      BY <1>2 DEF SelectSignal
    <2>2. sigs' = {} /\ sigs # {}
      BY <2>1
    <2> QED
      BY <1>2, <2>1, <2>2, RunnerAssumption
         DEF SelectSignal, InSelect, SendSignalAndScheduleKill
  <1>3. CASE SelectCtx
    BY <1>3, RunnerAssumption DEF SelectCtx, InSelect, SendSignalAndScheduleKill
  <1>4. CASE SelectTimeout
    BY <1>4, RunnerAssumption DEF SelectTimeout, InSelect, SendSignalAndScheduleKill
  <1>5. CASE Waiter \/ Killer
    BY <1>5 DEF Waiter, Killer, Reap, CopyEnds, StoreExited, SendWaitErr,
                GraceFires, SendKill, KillerQuits
  <1>6. CASE HostSignal
    BY <1>6, RunnerAssumption DEF HostSignal
  <1>7. CASE CancelCtx \/ Tick \/ Recycle
    BY <1>7 DEF CancelCtx, Tick, Recycle
  <1>8. ASSUME NEW p \in Procs, Exit(p) \/ Deliver(p) PROVE Budget'
    BY <1>8, ProcessStep
  <1>9. ASSUME NEW h \in Helpers, Spawn(h) PROVE Budget'
    BY <1>9 DEF Spawn
  <1>10. CASE UNCHANGED vars
    BY <1>10 DEF vars
  <1> QED
    BY <1>1, <1>2, <1>3, <1>4, <1>5, <1>6, <1>7, <1>8, <1>9, <1>10
       DEF Next, Caller, Environment, Over

-----------------------------------------------------------------------------
\* The invariant and what follows from it.

LEMMA InvInit == Init => IInv
  <1> SUFFICES ASSUME Init PROVE IInv
    OBVIOUS
  <1>1. TypeOK
    BY TypeInit
  <1>2. Stages /\ Outcomes /\ Quiet
    BY DEF Init, Stages, Outcomes, Quiet, Procs, HoldsPipe, Running
  <1>3. Escalation /\ Reach
    BY DEF Init, Escalation, Reach, SubtreeKilled
  <1>4. Budget
    BY DEF Init, Budget, B
  <1> QED BY <1>1, <1>2, <1>3, <1>4 DEF IInv

LEMMA InvStep == IInv /\ [Next]_vars => IInv'
  BY TypeStep, StagesStep, OutcomesStep, QuietStep, EscalationStep, ReachStep,
     BudgetStep
     DEF IInv

\* The inductive invariant holds of every reachable state.
THEOREM Invariance == Spec => []IInv
  BY InvInit, InvStep, PTL DEF Spec

\* No signal ends the agent while the wrapped command is alive or unreaped.
THEOREM NeverOrphans == Spec => []SignalNeverOrphans
  <1>1. IInv => SignalNeverOrphans
    BY DEF IInv, TypeOK, Stages, SignalNeverOrphans, Procs
  <1> QED BY <1>1, Invariance, PTL

\* SIGKILL follows the first forwarded signal by the whole grace period.
THEOREM Grace == Spec => []GraceHonoured
  <1>1. IInv => GraceHonoured
    BY DEF IInv, Escalation, GraceHonoured
  <1> QED BY <1>1, Invariance, PTL

\* The grace period runs from the first signal and is never restarted.
THEOREM NotPostponed == Spec => EscalationNotPostponed
  <1>1. TypeOK /\ [Next]_vars =>
          [killer = "waiting" /\ killer' = "waiting" => graceLeft' <= graceLeft]_vars
    <2> SUFFICES ASSUME TypeOK, [Next]_vars, killer = "waiting", killer' = "waiting"
                 PROVE  graceLeft' <= graceLeft
      OBVIOUS
    <2>1. CASE UNCHANGED graceLeft
      BY <2>1, RunnerAssumption DEF TypeOK
    <2>2. CASE Tick
      BY <2>2, RunnerAssumption DEF Tick, TypeOK
    <2>3. Tick \/ UNCHANGED graceLeft
      BY DEF Next, Caller, Waiter, Killer, Environment, Over, vars, killerVars,
             Refuse, Notify, Start, EnterLoop, Finish, SelectSignal, SelectCtx,
             SelectTimeout, SelectWaitErr, SendSignalAndScheduleKill, Reap,
             CopyEnds, StoreExited, SendWaitErr, GraceFires, SendKill,
             KillerQuits, HostSignal, CancelCtx, Recycle, Exit, Deliver, Spawn
    <2> QED BY <2>1, <2>2, <2>3
  <1> QED BY <1>1, TypeCorrect, PTL DEF Spec, EscalationNotPostponed

\* The group gets one signal for each the agent received, and two at most on
\* top of them.
THEOREM NoStorm == Spec => []NoSignalStorm
  <1>1. IInv => NoSignalStorm
    BY RunnerAssumption DEF IInv, TypeOK, Budget, B, NoSignalStorm
  <1> QED BY <1>1, Invariance, PTL

\* The result is how the leader really ended.
THEOREM Faithful == Spec => []ResultFaithful
  <1>1. ASSUME IInv PROVE ResultFaithful
    <2> USE <1>1 DEF IInv, TypeOK, Stages, Outcomes
    <2>1. \A st \in Endings :
            \/ st.kind = "exited" /\ ExitCode(st) = st.n
            \/ st.kind = "signaled" /\ ExitCode(st) > 128 /\ st.n = ExitCode(st) - 128
      BY DEF Endings, ExitCode, Exited, Signaled, Signals, AgentSignals, SIGINT,
             SIGTERM, SIGKILL
    <2>2. CASE result.kind = "result"
      <3>1. pc = "returned" /\ waiter = "done" /\ result.code = ExitCode(status)
        BY <2>2 DEF NoResult
      <3>2. status \in Endings
        BY <3>1
      <3> QED BY <2>1, <2>2, <3>1, <3>2 DEF ResultFaithful
    <2>3. CASE result.kind = "error"
      BY <2>3 DEF ResultFaithful, NoResult
    <2> QED BY <2>2, <2>3 DEF ResultFaithful
  <1> QED BY <1>1, Invariance, PTL

\* Nobody can still write to the capture when it is flushed and read.
THEOREM Quiescent == Spec => []CaptureQuiescent
  <1>1. IInv => CaptureQuiescent
    BY DEF IInv, TypeOK, Stages, Outcomes, Quiet, CaptureQuiescent, NoResult
  <1> QED BY <1>1, Invariance, PTL

\* SIGKILL, once sent, reaches every member of the command's group.
THEOREM Subtree == Spec => []SubtreeKilled
  <1>1. IInv => SubtreeKilled
    BY DEF IInv, Reach
  <1> QED BY <1>1, Invariance, PTL

-----------------------------------------------------------------------------
\* The refinement of CommandRun, action by action.

LEMMA PhaseIs ==
  ASSUME TypeOK
  PROVE  /\ result.kind # "none" => Phase = "reported"
         /\ result.kind = "none" =>
              /\ proc[Leader] = "unborn"  => Phase = "idle"
              /\ proc[Leader] = "running" => Phase = "running"
              /\ proc[Leader] \in {"zombie", "gone"} => Phase = "ended"
  BY DEF Phase

\* A step that touches nothing the caller can see is a stuttering step.
LEMMA Hidden ==
  ASSUME TypeOK, UNCHANGED <<proc, trait, status, result, agent, sinceFirst>>,
         forwarded > 0 <=> forwarded' > 0, killer = "sent" <=> killer' = "sent"
  PROVE  UNCHANGED Promise!vars
  <1>1. Phase' = Phase
    BY DEF Phase
  <1>2. Open' = Open
    BY DEF Open, HoldsPipe, Running
  <1>3. (forwarded > 0)' = (forwarded > 0)
    OBVIOUS
  <1>4. (killer = "sent")' = (killer = "sent")
    OBVIOUS
  <1>5. (agent = "killed")' = (agent = "killed")
    OBVIOUS
  <1> QED BY <1>1, <1>2, <1>3, <1>4, <1>5 DEF Promise!vars

LEMMA PromiseInit == Init => Promise!Init
  <1> SUFFICES ASSUME Init PROVE Promise!Init
    OBVIOUS
  <1>1. proc[Leader] = "unborn" /\ result.kind = "none"
    BY DEF Init, Procs, NoResult
  <1>2. Phase = "idle"
    BY <1>1, TypeInit, PhaseIs
  <1>3. Open = FALSE
    BY DEF Init, Open, HoldsPipe, Running
  <1>4. (forwarded > 0) = FALSE /\ (killer = "sent") = FALSE /\ (agent = "killed") = FALSE
    BY DEF Init
  <1> QED
    BY <1>2, <1>3, <1>4
       DEF Init, Promise!Init, NoStatus, NoResult, Promise!NoStatus, Promise!NoResult

LEMMA PromiseCaller == IInv /\ IInv' /\ Caller => [Promise!Next]_(Promise!vars)
  <1> SUFFICES ASSUME IInv, IInv', Caller PROVE [Promise!Next]_(Promise!vars)
    OBVIOUS
  <1> USE DEF agentVars, waiterVars, killerVars, procVars, historyVars
  <1>1. TypeOK /\ TypeOK'
    BY DEF IInv
  <1>2. CASE Notify \/ EnterLoop \/ SelectWaitErr
    BY <1>1, <1>2, Hidden DEF Notify, EnterLoop, SelectWaitErr
  <1>3. CASE Refuse
    <2>1. Phase = "idle" /\ agent = "alive"
      BY <1>1, <1>3, PhaseIs DEF Refuse, IInv, Stages, Outcomes, NoResult
    <2>2. Phase' = "reported"
      BY <1>3 DEF Refuse, Phase
    <2>3. Open' = Open
      BY <1>3 DEF Refuse, Open, HoldsPipe, Running
    <2>4. Promise!Refuse
      BY <1>3, <2>1, <2>2, <2>3 DEF Refuse, Promise!Refuse, Promise!Failed
    <2> QED BY <2>4 DEF Promise!Next
  <1>4. CASE Start
    <2>1. Phase = "idle" /\ agent = "alive"
      BY <1>1, <1>4, PhaseIs DEF Start, IInv, Stages, Outcomes, NoResult
    <2>2. proc'[Leader] = "running" /\ result' = result /\ trait' = trait
      BY <1>1, <1>4 DEF Start, TypeOK, Procs
    <2>3. Phase' = "running"
      BY <1>4, <2>2 DEF Start, Phase, IInv, Outcomes, NoResult
    <2>4. Open'
      BY <2>2 DEF Open, HoldsPipe, Running, IInv, Quiet, Procs
    <2>5. Promise!Begin
      BY <1>4, <2>1, <2>3, <2>4 DEF Start, Promise!Begin
    <2> QED BY <2>5 DEF Promise!Next
  <1>5. CASE SelectSignal \/ SelectCtx \/ SelectTimeout
    <2>1. PICK sig \in Signals : SendSignalAndScheduleKill(sig)
      BY <1>1, <1>5 DEF SelectSignal, SelectCtx, SelectTimeout, TypeOK, Signals, AgentSignals
    <2>2. UNCHANGED <<pc, agent, result, trait, proc, status, sinceFirst>> /\ pc = "select"
      BY <1>5, <2>1 DEF SelectSignal, SelectCtx, SelectTimeout, InSelect,
                        SendSignalAndScheduleKill, KillGroup
    <2>3. result.kind = "none" /\ proc[Leader] \in {"running", "zombie", "gone"}
      BY <1>1, <2>2 DEF IInv, Stages, Outcomes, NoResult, TypeOK, Procs
    <2>4. Phase \in {"running", "ended"} /\ Phase' = Phase
      BY <1>1, <2>2, <2>3, PhaseIs DEF Phase
    <2>5. Open' = Open
      BY <2>2 DEF Open, HoldsPipe, Running
    <2>6. (forwarded > 0)' /\ (killer = "sent")' = (killer = "sent")
      BY <1>1, <2>1 DEF SendSignalAndScheduleKill, TypeOK
    <2>7. Promise!Ask
      BY <2>2, <2>4, <2>5, <2>6 DEF Promise!Ask
    <2> QED BY <2>7 DEF Promise!Next
  <1>6. CASE Finish
    <2>1. /\ UNCHANGED <<proc, trait, status, forwarded, killer, sinceFirst, agent>>
          /\ pc = "flush" /\ pc' = "returned" /\ result = NoResult
          /\ proc[Leader] = "gone" /\ waiter = "done"
      BY <1>6 DEF Finish, IInv, Stages, Outcomes
    <2>2. Phase = "ended"
      BY <1>1, <2>1, PhaseIs DEF NoResult
    <2>3. /\ result'.kind # "none"
          /\ \/ result' = [kind |-> "result", code |-> ExitCode(status)]
             \/ result' = [kind |-> "error", code |-> 0] /\ status = Exited(0)
      BY <2>1 DEF IInv, Outcomes
    <2>4. Phase' = "reported"
      BY <2>3 DEF Phase
    <2>5. ~Open /\ Open' = Open
      BY <2>1 DEF Open, HoldsPipe, Running, IInv, Quiet
    <2>6. Promise!Verdict(status) = ExitCode(status)
      BY DEF Promise!Verdict, ExitCode
    <2>7. status = Exited(0) => ExitCode(status) = 0
      BY DEF ExitCode, Exited
    <2>8. \/ result' = [kind |-> "result", code |-> Promise!Verdict(status)]
          \/ Promise!Verdict(status) = 0 /\ result' = Promise!Failed
      BY <2>3, <2>6, <2>7 DEF Promise!Failed
    <2>9. /\ (forwarded > 0)' = (forwarded > 0)
          /\ (killer = "sent")' = (killer = "sent")
          /\ (agent = "killed")' = (agent = "killed")
      BY <2>1
    <2>10. Promise!Report
      BY <2>1, <2>2, <2>4, <2>5, <2>8, <2>9 DEF Promise!Report
    <2> QED BY <2>10 DEF Promise!Next
  <1> QED BY <1>2, <1>3, <1>4, <1>5, <1>6 DEF Caller

LEMMA PromiseGoroutines ==
  IInv /\ IInv' /\ (Waiter \/ Killer) => [Promise!Next]_(Promise!vars)
  <1> SUFFICES ASSUME IInv, IInv', Waiter \/ Killer
               PROVE  [Promise!Next]_(Promise!vars)
    OBVIOUS
  <1> USE DEF agentVars, waiterVars, killerVars, procVars, historyVars
  <1>1. TypeOK /\ TypeOK'
    BY DEF IInv
  <1>2. CASE CopyEnds \/ StoreExited \/ SendWaitErr
    BY <1>1, <1>2, Hidden DEF CopyEnds, StoreExited, SendWaitErr
  <1>3. CASE GraceFires \/ KillerQuits
    BY <1>1, <1>3, Hidden DEF GraceFires, KillerQuits
  <1>4. CASE Reap
    <2>1. /\ proc[Leader] = "zombie" /\ proc'[Leader] = "gone"
          /\ \A p \in Procs : Running(p)' <=> Running(p)
      BY <1>1, <1>4 DEF Reap, TypeOK, Procs, Running
    <2>2. result = NoResult /\ result' = NoResult
      BY <1>4 DEF Reap, IInv, Stages, Outcomes
    <2>3. Phase' = Phase
      BY <2>1, <2>2 DEF Phase
    <2>4. Open' = Open
      BY <1>4, <2>1 DEF Reap, Open, HoldsPipe
    <2>5. /\ (forwarded > 0)' = (forwarded > 0)
          /\ (killer = "sent")' = (killer = "sent")
          /\ (agent = "killed")' = (agent = "killed")
      BY <1>4 DEF Reap
    <2> QED BY <1>4, <2>3, <2>4, <2>5 DEF Reap, Promise!vars
  <1>5. CASE SendKill
    <2>1. UNCHANGED <<proc, trait, status, result, forwarded, sinceFirst, agent>>
      BY <1>5 DEF SendKill, KillGroup
    <2>2. /\ (forwarded > 0) /\ sinceFirst = GracePeriod
          /\ (killer = "sent") = FALSE /\ (killer = "sent")' = TRUE
      BY <1>1, <1>5 DEF SendKill, IInv, Escalation, TypeOK
    <2>3. Phase' = Phase /\ Open' = Open
      BY <2>1 DEF Phase, Open, HoldsPipe, Running
    <2>4. Promise!Force
      BY <2>1, <2>2, <2>3 DEF Promise!Force
    <2> QED BY <2>4 DEF Promise!Next
  <1> QED BY <1>2, <1>3, <1>4, <1>5 DEF Waiter, Killer

LEMMA PromiseEnvironment ==
  IInv /\ IInv' /\ Environment => [Promise!Next]_(Promise!vars)
  <1> SUFFICES ASSUME IInv, IInv', Environment PROVE [Promise!Next]_(Promise!vars)
    OBVIOUS
  <1> USE DEF agentVars, waiterVars, killerVars, procVars, historyVars
  <1>1. TypeOK /\ TypeOK'
    BY DEF IInv
  <1>2. CASE CancelCtx \/ Recycle
    BY <1>1, <1>2, Hidden DEF CancelCtx, Recycle
  <1>3. CASE HostSignal
    <2>1. UNCHANGED <<pc, proc, trait, status, result, forwarded, killer, sinceFirst>>
      BY <1>3 DEF HostSignal
    <2>2. CASE agent' = agent
      BY <1>1, <2>1, <2>2, Hidden
    <2>3. CASE agent' # agent
      <3>1. agent = "alive" /\ agent' = "killed" /\ pc \in {"entry", "returned"}
        BY <1>1, <1>3, <2>3 DEF HostSignal, Subscribed, TypeOK
      <3>2. Phase \in {"idle", "reported"}
        BY <1>1, <3>1, PhaseIs DEF IInv, Stages, Outcomes, NoResult
      <3>3. Phase' = Phase /\ Open' = Open
        BY <2>1 DEF Phase, Open, HoldsPipe, Running
      <3>4. Promise!Abort
        BY <2>1, <3>1, <3>2, <3>3 DEF Promise!Abort
      <3> QED BY <3>4 DEF Promise!Next
    <2> QED BY <2>2, <2>3
  <1>4. CASE Tick
    <2>1. UNCHANGED <<proc, trait, status, result, agent, forwarded, killer>>
      BY <1>4 DEF Tick
    <2>2. CASE sinceFirst' = sinceFirst
      BY <1>1, <2>1, <2>2, Hidden
    <2>3. CASE sinceFirst' # sinceFirst
      <3>1. (forwarded > 0) /\ sinceFirst < GracePeriod /\ sinceFirst' = sinceFirst + 1
        BY <1>4, <2>3 DEF Tick
      <3>2. Phase' = Phase /\ Open' = Open
        BY <2>1 DEF Phase, Open, HoldsPipe, Running
      <3>3. Promise!Wait
        BY <2>1, <3>1, <3>2 DEF Promise!Wait
      <3> QED BY <3>3 DEF Promise!Next
    <2> QED BY <2>2, <2>3
  <1>5. ASSUME NEW p \in Procs, Exit(p) \/ Deliver(p)
        PROVE  [Promise!Next]_(Promise!vars)
    <2>1. UNCHANGED <<agentVars, killerVars, result, historyVars>> /\ Running(p)
      BY <1>1, <1>5, ProcessStep
    <2>2. (forwarded > 0)' = (forwarded > 0) /\ (killer = "sent")' = (killer = "sent")
          /\ (agent = "killed")' = (agent = "killed")
      BY <2>1
    <2>3. CASE UNCHANGED <<trait, proc, status>>
      BY <1>1, <2>1, <2>3, Hidden
    <2>4. ASSUME NEW how \in Endings, Ends(p, how)
          PROVE  [Promise!Next]_(Promise!vars)
      <3>1. \A q \in Procs : HoldsPipe(q)' => HoldsPipe(q)
        BY <1>1, <2>4, EndsEffect DEF HoldsPipe, Running
      <3>2. Open' \in {Open, FALSE}
        BY <3>1 DEF Open
      <3>3. CASE p = Leader
        <4>1. proc[Leader] = "running" /\ proc'[Leader] = "zombie" /\ status' = how
          BY <1>1, <2>1, <2>4, <3>3, EndsEffect DEF Running
        <4>2. pc # "returned"
          BY <1>1, <4>1 DEF IInv, Stages, TypeOK
        <4>3. result.kind = "none" /\ result' = result
          BY <2>1, <4>2 DEF IInv, Outcomes, NoResult
        <4>4. Phase = "running" /\ Phase' = "ended"
          BY <4>1, <4>3 DEF Phase
        <4>5. Promise!End
          BY <2>1, <2>2, <3>2, <4>1, <4>4 DEF Promise!End
        <4> QED BY <4>5 DEF Promise!Next
      <3>4. CASE p # Leader
        <4>1. proc'[Leader] = proc[Leader] /\ status' = status /\ trait' = trait
          BY <1>1, <2>4, <3>4, EndsEffect
        <4>2. Phase' = Phase
          BY <2>1, <4>1 DEF Phase
        <4>3. CASE Open' = Open
          BY <2>1, <2>2, <4>1, <4>2, <4>3 DEF Promise!vars
        <4>4. CASE Open' # Open
          <5>1. Open /\ Open' = FALSE
            BY <3>2, <4>4 DEF Open
          <5>2. proc[Leader] = "running" => Open'
            BY <4>1 DEF Open, HoldsPipe, Running, IInv, Quiet, Procs
          <5>3. Phase # "running"
            BY <5>1, <5>2 DEF Phase
          <5>4. Promise!Close
            BY <2>1, <2>2, <4>1, <4>2, <5>1, <5>3 DEF Promise!Close
          <5> QED BY <5>4 DEF Promise!Next
        <4> QED BY <4>3, <4>4
      <3> QED BY <3>3, <3>4
    <2> QED BY <1>5, <2>3, <2>4, ProcessStep, <1>1
  <1>6. ASSUME NEW h \in Helpers, Spawn(h)
        PROVE  [Promise!Next]_(Promise!vars)
    <2>1. PICK p \in Procs : Running(p) /\ (trait[h].writes => trait[p].writes)
      BY <1>6 DEF Spawn
    <2>2. /\ h \in Procs /\ h # Leader /\ ~Running(h)
          /\ proc' = [proc EXCEPT ![h] = "running"]
          /\ UNCHANGED <<trait, status, result, forwarded, sinceFirst, killer, agent>>
      BY <1>6, RunnerAssumption DEF Spawn, Procs, Running
    <2>3. Phase' = Phase
      BY <1>1, <2>2 DEF Phase, TypeOK
    <2>4. \A q \in Procs : q # h => (HoldsPipe(q)' <=> HoldsPipe(q))
      BY <1>1, <2>2 DEF HoldsPipe, Running, TypeOK
    <2>5. HoldsPipe(h)' => Open
      BY <2>1, <2>2 DEF HoldsPipe, Open
    <2>6. ~HoldsPipe(h)
      BY <2>2 DEF HoldsPipe
    <2>7. Open' = Open
      BY <2>4, <2>5, <2>6 DEF Open
    <2>8. /\ (forwarded > 0)' = (forwarded > 0)
          /\ (killer = "sent")' = (killer = "sent")
          /\ (agent = "killed")' = (agent = "killed")
      BY <2>2
    <2> QED BY <2>2, <2>3, <2>7, <2>8 DEF Promise!vars
  <1> QED BY <1>2, <1>3, <1>4, <1>5, <1>6 DEF Environment

\* Runner implements CommandRun: whatever the goroutines, the processes and
\* the host do, the caller sees a command that is asked before it is forced
\* and one last, truthful report.
THEOREM Refinement == Spec => KeepsPromise
  <1>1. Init => Promise!Init
    BY PromiseInit
  <1>2. IInv /\ IInv' /\ [Next]_vars => [Promise!Next]_(Promise!vars)
    <2>1. ASSUME IInv, UNCHANGED vars PROVE UNCHANGED Promise!vars
      BY <2>1, Hidden
         DEF IInv, vars, agentVars, waiterVars, killerVars, procVars, historyVars
    <2> QED
      BY <2>1, PromiseCaller, PromiseGoroutines, PromiseEnvironment DEF Next, Over
  <1> QED
    BY <1>1, <1>2, Invariance, PTL DEF Spec, KeepsPromise, Promise!Spec

=============================================================================
