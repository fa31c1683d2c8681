----------------------------- MODULE ExecProofs -----------------------------
(***************************************************************************)
(* Theorems about ExecAgent, for every set of ways a command may end, any  *)
(* number of retries and any budget of time.  The invariant follows the    *)
(* truth from the command's end through the report, the choice of the ping *)
(* and its requests to the server's log.                                   *)
(***************************************************************************)
EXTENDS ExecAgent, TLAPS

\* The report is how the command ended.
Reported ==
    /\ phase # "reported" => report = Run!NoResult
    /\ phase = "reported" =>
         \/ report = Run!Failed
         \/ outcome \in Statuses
            /\ report = [kind |-> "result", code |-> Run!Verdict(outcome)]
    /\ phase = "ended" => outcome \in Statuses

\* Where runExec is tells how far the run and the pings are.
Stages ==
    /\ at \in {"begin", "start"} => phase = "idle"
    /\ at = "final" => phase = "reported" /\ kind # "none"
    /\ at = "exited" => phase \in {"idle", "reported"}
    /\ at \in {"begin", "start", "run"} => kind = "none"

\* The kind of the final ping follows from the report, and no request is
\* posted before it is chosen.
Judged ==
    /\ kind = "none" => final = Final!Fresh
    /\ kind # "none" => phase = "reported"
    /\ kind = "success" => report.kind = "result" /\ report.code = 0
    /\ kind = "fail" => report.kind = "error" \/ report.code # 0

\* The server knows of starts and of that one verdict.
Recorded ==
    \A i \in DOMAIN log : log[i] = "start" \/ (log[i] = kind /\ kind # "none")

\* What the agent exits with.
Left ==
    /\ at = "exited" /\ phase # "idle" =>
         /\ exitCode = (IF report.kind = "error" THEN 1 ELSE report.code)
         /\ final.phase = "returned"

IInv == TypeOK /\ Reported /\ Stages /\ Judged /\ Recorded /\ Left

-----------------------------------------------------------------------------
\* Type correctness, one call of Send and one run at a time.

LEMMA VerdictType ==
  ASSUME NEW st \in Statuses
  PROVE  /\ Run!Verdict(st) \in 0..255
         /\ Run!Verdict(st) = 0 => st = [kind |-> "exited", n |-> 0]
  <1>1. CASE st \in [kind : {"exited"}, n : 0..255]
    BY <1>1 DEF Run!Verdict
  <1>2. CASE st \in [kind : {"signaled"}, n : 1..64]
    BY <1>2 DEF Run!Verdict
  <1> QED BY <1>1, <1>2, ExecAssumption

LEMMA StartType == Start!TypeOK /\ (Start!Client \/ Start!Network) => Start!TypeOK'
  <1> SUFFICES ASSUME Start!TypeOK, Start!Client \/ Start!Network PROVE Start!TypeOK'
    OBVIOUS
  <1> USE ExecAssumption DEF Start!TypeOK
  <1>1. CASE Start!Post
    BY <1>1 DEF Start!Post
  <1>2. CASE Start!Spend
    BY <1>2 DEF Start!Spend
  <1>3. CASE \E what \in {"ok", "failed"} : Start!Return(what)
    BY <1>3 DEF Start!Return
  <1>4. CASE Start!Network
    BY <1>4 DEF Start!Network, Start!Handle
  <1> QED BY <1>1, <1>2, <1>3, <1>4 DEF Start!Client

LEMMA FinalType == Final!TypeOK /\ (Final!Client \/ Final!Network) => Final!TypeOK'
  <1> SUFFICES ASSUME Final!TypeOK, Final!Client \/ Final!Network PROVE Final!TypeOK'
    OBVIOUS
  <1> USE ExecAssumption DEF Final!TypeOK
  <1>1. CASE Final!Post
    BY <1>1 DEF Final!Post
  <1>2. CASE Final!Spend
    BY <1>2 DEF Final!Spend
  <1>3. CASE \E what \in {"ok", "failed"} : Final!Return(what)
    BY <1>3 DEF Final!Return
  <1>4. CASE Final!Network
    BY <1>4 DEF Final!Network, Final!Handle
  <1> QED BY <1>1, <1>2, <1>3, <1>4 DEF Final!Client

RunTypeOK ==
    /\ phase \in {"idle", "running", "ended", "reported"}
    /\ open \in BOOLEAN /\ asked \in BOOLEAN /\ forced \in BOOLEAN /\ aborted \in BOOLEAN
    /\ waited \in 0..GracePeriod
    /\ outcome \in Statuses \cup {Run!NoStatus}
    /\ report \in [kind : {"none", "error", "result"}, code : 0..255]

LEMMA RunType == RunTypeOK /\ Reported /\ Run!Next => RunTypeOK'
  <1> SUFFICES ASSUME RunTypeOK, Reported, Run!Next PROVE RunTypeOK'
    OBVIOUS
  <1> USE ExecAssumption DEF RunTypeOK
  <1>1. CASE Run!Refuse
    BY <1>1 DEF Run!Refuse, Run!Failed
  <1>2. CASE Run!Begin
    BY <1>2 DEF Run!Begin
  <1>3. CASE Run!End
    BY <1>3 DEF Run!End
  <1>4. CASE Run!Close
    BY <1>4 DEF Run!Close
  <1>5. CASE Run!Ask
    BY <1>5 DEF Run!Ask
  <1>6. CASE Run!Wait
    BY <1>6 DEF Run!Wait
  <1>7. CASE Run!Force
    BY <1>7 DEF Run!Force
  <1>8. CASE Run!Report
    BY <1>8, VerdictType DEF Run!Report, Run!Failed, Reported
  <1>9. CASE Run!Abort
    BY <1>9 DEF Run!Abort
  <1> QED
    BY <1>1, <1>2, <1>3, <1>4, <1>5, <1>6, <1>7, <1>8, <1>9 DEF Run!Next

LEMMA TypeInit == Init => TypeOK
  <1> SUFFICES ASSUME Init PROVE TypeOK
    OBVIOUS
  <1>0. GracePeriod \in Nat /\ StartBudget \in Nat /\ FinalBudget \in Nat
    BY ExecAssumption
  <1>1. open \in BOOLEAN /\ asked \in BOOLEAN /\ forced \in BOOLEAN /\ aborted \in BOOLEAN
    BY Zenon DEF Init, Run!Init
  <1>2. /\ phase \in {"idle", "running", "ended", "reported"}
        /\ waited \in 0..GracePeriod
        /\ outcome \in Statuses \cup {Run!NoStatus}
        /\ report \in [kind : {"none", "error", "result"}, code : 0..255]
    BY <1>0 DEF Init, Run!Init, Run!NoResult
  <1>3. Start!TypeOK
    BY <1>0 DEF Init, Start!Init, Start!Fresh, Start!TypeOK
  <1>4. Final!TypeOK
    BY <1>0 DEF Init, Final!Init, Final!Fresh, Final!TypeOK
  <1>5. /\ at \in {"begin", "start", "run", "final", "exited", "killed"}
        /\ kind \in {"none", "success", "fail"}
        /\ exitCode \in {-1} \cup 0..255
        /\ log \in Seq({"start", "success", "fail"})
    BY DEF Init
  <1> QED BY <1>1, <1>2, <1>3, <1>4, <1>5 DEF TypeOK

\* What is left of TypeOK for runExec's own variables.
OwnTypeOK ==
    /\ at \in {"begin", "start", "run", "final", "exited", "killed"}
    /\ kind \in {"none", "success", "fail"}
    /\ exitCode \in {-1} \cup 0..255
    /\ log \in Seq({"start", "success", "fail"})

LEMMA TypeParts == TypeOK <=> RunTypeOK /\ Start!TypeOK /\ Final!TypeOK /\ OwnTypeOK
  BY DEF TypeOK, RunTypeOK, OwnTypeOK

LEMMA TypeStep == TypeOK /\ Reported /\ Judged /\ [Next]_vars => TypeOK'
  <1> SUFFICES ASSUME TypeOK, Reported, Judged, [Next]_vars
               PROVE  RunTypeOK' /\ Start!TypeOK' /\ Final!TypeOK' /\ OwnTypeOK'
    BY TypeParts DEF TypeOK, RunTypeOK, OwnTypeOK
  <1>0. RunTypeOK /\ Start!TypeOK /\ Final!TypeOK /\ OwnTypeOK
    BY TypeParts
  <1>1. RunTypeOK'
    <2>1. CASE Run!Next
      BY <1>0, <2>1, RunType
    <2>2. CASE UNCHANGED runVars
      BY <1>0, <2>2 DEF runVars, RunTypeOK
    <2> QED
      BY <2>1, <2>2
         DEF Next, Agent, Misuse, Ready, StartPing, RunCommand, StartCommand, Judge,
             FinalPing, Exit, RunStep, Killed, StartArrives, FinalArrives, Over, vars,
             Run!Next
  <1>2. Start!TypeOK'
    <2>1. CASE Start!Client \/ Start!Network
      BY <1>0, <2>1, StartType
    <2>2. CASE UNCHANGED start
      BY <1>0, <2>2 DEF Start!TypeOK
    <2> QED
      BY <2>1, <2>2
         DEF Next, Agent, Misuse, Ready, StartPing, RunCommand, StartCommand, Judge,
             FinalPing, Exit, RunStep, Killed, StartArrives, FinalArrives, Over, vars,
             Start!Network
  <1>3. Final!TypeOK'
    <2>1. CASE Final!Client \/ Final!Network
      BY <1>0, <2>1, FinalType
    <2>2. CASE UNCHANGED final
      BY <1>0, <2>2 DEF Final!TypeOK
    <2> QED
      BY <2>1, <2>2
         DEF Next, Agent, Misuse, Ready, StartPing, RunCommand, StartCommand, Judge,
             FinalPing, Exit, RunStep, Killed, StartArrives, FinalArrives, Over, vars,
             Final!Network
  <1>4. OwnTypeOK'
    <2> USE <1>0 DEF OwnTypeOK
    <2>0. CASE Misuse
      BY <2>0 DEF Misuse, Leave
    <2>1. CASE Ready \/ StartPing \/ RunCommand \/ StartCommand \/ FinalPing
               \/ RunStep \/ Killed
      <3>1. UNCHANGED <<kind, exitCode, log>>
        BY <2>1 DEF Ready, StartPing, RunCommand, StartCommand, FinalPing, RunStep, Killed
      <3>2. at' = at \/ at' \in {"start", "run", "killed"}
        BY <2>1 DEF Ready, StartPing, RunCommand, StartCommand, FinalPing, RunStep, Killed
      <3> QED BY <3>1, <3>2
    <2>2. CASE Judge
      BY <2>2 DEF Judge
    <2>3. CASE Exit
      BY <2>3 DEF Exit, Leave, RunTypeOK
    <2>4. CASE StartArrives
      BY <2>4 DEF StartArrives, Logged
    <2>5. CASE FinalArrives
      <3>1. kind # "none"
        BY <2>5 DEF FinalArrives, Judged, Final!Fresh, Final!Handle
      <3> QED BY <2>5, <3>1 DEF FinalArrives, Logged
    <2>6. CASE UNCHANGED vars
      BY <2>6 DEF vars
    <2> QED
      BY <2>0, <2>1, <2>2, <2>3, <2>4, <2>5, <2>6 DEF Next, Agent, Over
  <1> QED BY <1>1, <1>2, <1>3, <1>4

-----------------------------------------------------------------------------
\* The other parts of the invariant, for the steps that can disturb them.

\* Once reported, a run stays as it is; no other step changes it.
LEMMA RunFrame ==
  ASSUME [Next]_vars
  PROVE  \/ UNCHANGED <<phase, outcome, report>>
         \/ at = "run" /\ at' = at /\ (Run!Refuse \/ Run!Begin)
         \/ at \in {"run", "final"} /\ at' = at /\ (Run!End \/ Run!Report)
  <1>1. CASE StartCommand
    BY <1>1 DEF StartCommand
  <1>2. CASE RunStep
    BY <1>2 DEF RunStep, Run!Close, Run!Ask, Run!Wait, Run!Force
  <1>3. CASE Killed
    BY <1>3 DEF Killed, Run!Abort
  <1>4. CASE UNCHANGED runVars
    BY <1>4 DEF runVars
  <1> QED
    BY <1>1, <1>2, <1>3, <1>4
       DEF Next, Agent, Misuse, Ready, StartPing, RunCommand, Judge, FinalPing, Exit,
           StartArrives, FinalArrives, Over, vars

LEMMA ReportedStep == Reported /\ [Next]_vars => Reported'
  <1> SUFFICES ASSUME Reported, [Next]_vars PROVE Reported'
    OBVIOUS
  <1>1. CASE UNCHANGED <<phase, outcome, report>>
    BY <1>1 DEF Reported, Run!Verdict
  <1>2. CASE Run!Refuse
    BY <1>2 DEF Run!Refuse, Reported
  <1>3. CASE Run!Begin
    BY <1>3 DEF Run!Begin, Reported
  <1>4. CASE Run!End
    BY <1>4 DEF Run!End, Reported
  <1>5. CASE Run!Report
    BY <1>5 DEF Run!Report, Reported, Run!Verdict
  <1> QED BY <1>1, <1>2, <1>3, <1>4, <1>5, RunFrame

LEMMA StagesStep == Reported /\ Stages /\ [Next]_vars => Stages'
  <1> SUFFICES ASSUME Reported, Stages, [Next]_vars PROVE Stages'
    OBVIOUS
  <1> USE DEF Stages
  <1>1. CASE StartCommand
    BY <1>1 DEF StartCommand
  <1>2. CASE RunStep
    BY <1>2 DEF RunStep, Run!End, Run!Close, Run!Ask, Run!Wait, Run!Force, Run!Report
  <1>3. CASE Killed
    BY <1>3 DEF Killed, Run!Abort
  <1>4. CASE Misuse \/ Ready \/ RunCommand
    BY <1>4 DEF Misuse, Leave, Ready, RunCommand, runVars
  <1>5. CASE StartPing \/ FinalPing \/ StartArrives \/ FinalArrives
    BY <1>5 DEF StartPing, FinalPing, StartArrives, FinalArrives, runVars
  <1>6. CASE Judge
    BY <1>6 DEF Judge, runVars
  <1>7. CASE Exit
    BY <1>7 DEF Exit, Leave, runVars
  <1>8. CASE UNCHANGED vars
    BY <1>8 DEF vars, runVars
  <1> QED
    BY <1>1, <1>2, <1>3, <1>4, <1>5, <1>6, <1>7, <1>8 DEF Next, Agent, Over

LEMMA JudgedStep == Reported /\ Stages /\ Judged /\ [Next]_vars => Judged'
  <1> SUFFICES ASSUME Reported, Stages, Judged, [Next]_vars PROVE Judged'
    OBVIOUS
  <1> USE DEF Judged
  <1>1. CASE StartCommand \/ RunStep
    <2>1. UNCHANGED <<kind, final>>
      BY <1>1 DEF StartCommand, RunStep
    <2>2. kind # "none" => UNCHANGED <<phase, report>>
      BY <1>1 DEF StartCommand, RunStep, Run!Refuse, Run!Begin, Run!End, Run!Close,
                  Run!Ask, Run!Wait, Run!Force, Run!Report
    <2> QED BY <2>1, <2>2 DEF Final!Fresh
  <1>2. CASE Killed
    BY <1>2 DEF Killed, Run!Abort, Final!Fresh
  <1>3. CASE Misuse \/ Ready \/ StartPing \/ RunCommand \/ StartArrives \/ Exit
    BY <1>3 DEF Misuse, Ready, StartPing, RunCommand, StartArrives, Exit, runVars, Final!Fresh
  <1>4. CASE FinalPing
    BY <1>4 DEF FinalPing, Stages, runVars, Final!Fresh
  <1>5. CASE FinalArrives
    BY <1>5 DEF FinalArrives, runVars, Final!Fresh, Final!Handle
  <1>6. CASE Judge
    BY <1>6 DEF Judge, runVars, Reported, Run!Failed
  <1>7. CASE UNCHANGED vars
    BY <1>7 DEF vars, runVars, Final!Fresh
  <1> QED
    BY <1>1, <1>2, <1>3, <1>4, <1>5, <1>6, <1>7 DEF Next, Agent, Over

LEMMA RecordedStep == TypeOK /\ Stages /\ Judged /\ Recorded /\ [Next]_vars => Recorded'
  <1> SUFFICES ASSUME TypeOK, Stages, Judged, Recorded, [Next]_vars PROVE Recorded'
    OBVIOUS
  <1>0. log \in Seq({"start", "success", "fail"})
    BY DEF TypeOK
  <1>1. CASE StartArrives
    BY <1>0, <1>1 DEF StartArrives, Logged, Recorded
  <1>2. CASE FinalArrives
    <2>1. kind # "none"
      BY <1>2 DEF FinalArrives, Judged, Final!Fresh, Final!Handle
    <2> QED BY <1>0, <1>2, <2>1 DEF FinalArrives, Logged, Recorded
  <1>3. CASE Judge
    <2>1. kind = "none" /\ kind' # "none" /\ log' = log
      BY <1>3 DEF Judge, Stages
    <2> QED BY <2>1 DEF Recorded
  <1>4. CASE UNCHANGED <<kind, log>>
    BY <1>4 DEF Recorded
  <1> QED
    BY <1>1, <1>2, <1>3, <1>4
       DEF Next, Agent, Misuse, Ready, StartPing, RunCommand, StartCommand, FinalPing,
           Exit, RunStep, Killed, Over, vars

LEMMA LeftStep == Stages /\ Left /\ [Next]_vars => Left'
  <1> SUFFICES ASSUME Stages, Left, [Next]_vars PROVE Left'
    OBVIOUS
  <1> USE DEF Left
  <1>1. CASE Misuse
    BY <1>1 DEF Misuse, Stages, runVars
  <1>2. CASE Exit
    BY <1>2 DEF Exit, Leave, runVars
  <1>3. CASE at' # "exited"
    BY <1>3
  <1>4. CASE at = "exited" /\ at' = "exited"
    <2>1. UNCHANGED <<phase, report, exitCode, final>> \/ FinalArrives
      BY <1>4
         DEF Next, Agent, Misuse, Ready, StartPing, RunCommand, StartCommand, Judge,
             FinalPing, Exit, RunStep, Killed, StartArrives, Over, vars, runVars
    <2>2. FinalArrives => UNCHANGED <<phase, report, exitCode>> /\ final'.phase = final.phase
      BY DEF FinalArrives, Final!Handle, runVars
    <2> QED BY <1>4, <2>1, <2>2
  <1> QED
    BY <1>1, <1>2, <1>3, <1>4
       DEF Next, Agent, Ready, StartPing, RunCommand, StartCommand, Judge, FinalPing,
           RunStep, Killed, StartArrives, FinalArrives, Over, vars

-----------------------------------------------------------------------------
\* The theorems.

\* The invariant holds of every behaviour: the truth about the command is
\* passed on unchanged at each line of runExec.
THEOREM Invariance == Spec => []IInv
  <1>1. Init => IInv
    <2>1. Init => TypeOK
      BY TypeInit
    <2>2. Init => Reported /\ Stages /\ Judged /\ Recorded /\ Left
      BY DEF Init, Run!Init, Final!Init, Reported, Stages, Judged, Recorded, Left
    <2> QED BY <2>1, <2>2 DEF IInv
  <1>2. IInv /\ [Next]_vars => IInv'
    BY TypeStep, ReportedStep, StagesStep, JudgedStep, RecordedStep, LeftStep DEF IInv
  <1> QED BY <1>1, <1>2, PTL DEF Spec

\* The variables of runExec, of the run and of both pings keep their types;
\* in particular every exit code is one the kernel can report.
THEOREM TypeCorrect == Spec => []TypeOK
  <1>1. IInv => TypeOK
    BY DEF IInv
  <1> QED BY <1>1, Invariance, PTL

\* The server never records a verdict that is not the command's own, however
\* many requests, retries and late arrivals there are.
THEOREM Truthful == Spec => []VerdictTrue
  <1>1. IInv => VerdictTrue
    <2> SUFFICES ASSUME IInv, NEW i \in DOMAIN log
                 PROVE  /\ log[i] = "success" =>
                              outcome = [kind |-> "exited", n |-> 0] /\ report.kind = "result"
                        /\ log[i] = "fail" =>
                              report.kind = "error" \/ Run!Verdict(outcome) # 0
      BY DEF VerdictTrue
    <2>1. log[i] = "start" \/ (log[i] = kind /\ kind # "none")
      BY DEF IInv, Recorded
    <2>2. kind # "none" =>
            \/ report = Run!Failed
            \/ outcome \in Statuses
               /\ report = [kind |-> "result", code |-> Run!Verdict(outcome)]
      BY DEF IInv, Judged, Reported
    <2>3. CASE log[i] = "success"
      <3>1. report.kind = "result" /\ report.code = 0
        BY <2>1, <2>3 DEF IInv, Judged
      <3>2. outcome \in Statuses /\ Run!Verdict(outcome) = 0
        BY <2>1, <2>2, <2>3, <3>1 DEF Run!Failed
      <3> QED BY <2>3, <3>1, <3>2, VerdictType
    <2>4. CASE log[i] = "fail"
      <3>1. report.kind = "error" \/ report.code # 0
        BY <2>1, <2>4 DEF IInv, Judged
      <3> QED BY <2>1, <2>2, <2>4, <3>1 DEF Run!Failed
    <2> QED BY <2>3, <2>4
  <1> QED BY <1>1, Invariance, PTL

\* The agent's exit code is the command's, whatever the API does.
THEOREM ExitFaithful == Spec => []ExitIsTheCommands
  <1>1. IInv => ExitIsTheCommands
    BY DEF IInv, Stages, Left, Reported, Run!Failed, ExitIsTheCommands
  <1> QED BY <1>1, Invariance, PTL

\* No run ends without a ping about it, unless a signal ends the agent.
THEOREM NeverSilent == Spec => []NoSilentRun
  <1>1. IInv => NoSilentRun
    BY DEF IInv, Left, NoSilentRun
  <1> QED BY <1>1, Invariance, PTL

=============================================================================
