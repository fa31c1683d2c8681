----------------------------- MODULE PingProofs -----------------------------
(***************************************************************************)
(* Theorems about PingClient, for every number of retries, every delay and *)
(* every deadline.  The inductive invariant relates the clock of the       *)
(* context to the time that passed, and the loop variable to what the      *)
(* client saw of the attempts before it.                                   *)
(***************************************************************************)
EXTENDS PingClient, TLAPS

\* The context runs down exactly as time passes.
Clock == elapsed + ctxLeft = CtxTimeout

Curable == {"server", "failed"}

\* The attempts before this one failed curably; this one has been seen to do
\* so when the client sleeps on it or gives up after it; those after it are
\* unsent.
Progress ==
    /\ \A q \in Attempts : q < attempt => seen[q] \in Curable
    /\ \A q \in Attempts : q > attempt => request[q] = "unsent"
    /\ pc = "send" => request[attempt] = "unsent"
    /\ pc = "backoff" => attempt < Retries /\ seen[attempt] \in Curable
    /\ outcome = "exhausted" => attempt = Retries /\ seen[attempt] \in Curable

\* Answers come from handled requests, outcomes from answers.
Answering ==
    /\ \A r \in Attempts : answer[r] # "none" <=> request[r] = "handled"
    /\ outcome = "none" <=> pc # "returned"
    /\ outcome = "nil" => answer[attempt] = "ok"

IInv == TypeOK /\ Clock /\ Progress /\ Answering

-----------------------------------------------------------------------------
\* Type correctness.

LEMMA DelayType ==
  ASSUME NEW n \in Nat
  PROVE  Delay(n) \in Int /\ Delay(n) <= MaxDelay
  <1> DEFINE k == IF n > 20 THEN 20 ELSE n
             d == BaseDelay * 2^k
  <1>1. 2^k \in Int
    BY SMT
  <1>2. d \in Int
    BY <1>1, PingAssumption
  <1> QED BY <1>2, PingAssumption DEF Delay

LEMMA RetryType ==
  ASSUME TypeOK, Retry
  PROVE  /\ pc' \in {"send", "do", "backoff", "returned"}
         /\ outcome' \in Outcomes \cup {"none"}
         /\ backoffLeft' \in Int /\ backoffLeft' <= MaxDelay
  <1>1. Delay(attempt) \in Int /\ Delay(attempt) <= MaxDelay
    BY DelayType, PingAssumption DEF TypeOK, Attempts
  <1> QED BY <1>1 DEF TypeOK, Retry, Return, Outcomes

LEMMA TypeInit == Init => TypeOK
  BY PingAssumption DEF Init, TypeOK, Attempts

LEMMA TypeStep == TypeOK /\ Progress /\ [Next]_vars => TypeOK'
  <1> SUFFICES ASSUME TypeOK, Progress, [Next]_vars PROVE TypeOK'
    OBVIOUS
  <1> USE PingAssumption DEF TypeOK, clientVars, netVars
  <1>1. CASE Send
    BY <1>1 DEF Send
  <1>2. CASE SendExpired
    BY <1>2 DEF SendExpired, Return, Outcomes
  <1>3. CASE Answered
    <2>1. /\ pc' \in {"send", "do", "backoff", "returned"}
          /\ outcome' \in Outcomes \cup {"none"}
          /\ backoffLeft' \in Int /\ backoffLeft' <= MaxDelay
      BY <1>3, RetryType DEF Answered, Verdict, Return, Answers, Outcomes
    <2> QED BY <1>3, <2>1 DEF Answered, Answers
  <1>4. CASE DoFails
    <2>1. /\ pc' \in {"send", "do", "backoff", "returned"}
          /\ outcome' \in Outcomes \cup {"none"}
          /\ backoffLeft' \in Int /\ backoffLeft' <= MaxDelay
      BY <1>4, RetryType DEF DoFails, Return, Outcomes
    <2> QED BY <1>4, <2>1 DEF DoFails
  <1>5. CASE BackoffEnds
    <2>1. attempt' \in Attempts
      BY <1>5 DEF BackoffEnds, Progress, Attempts
    <2> QED BY <1>5, <2>1 DEF BackoffEnds
  <1>6. CASE BackoffCancelled
    BY <1>6 DEF BackoffCancelled, Return, Outcomes
  <1>7. CASE Tick
    BY <1>7 DEF Tick, DoExpired
  <1>8. CASE Network
    BY <1>8 DEF Network, Handle, Lose
  <1>9. CASE UNCHANGED vars
    BY <1>9 DEF vars
  <1> QED
    BY <1>1, <1>2, <1>3, <1>4, <1>5, <1>6, <1>7, <1>8, <1>9 DEF Next, Client, Over

-----------------------------------------------------------------------------
\* The other parts of the invariant.

LEMMA ClockStep == TypeOK /\ Clock /\ [Next]_vars => Clock'
  <1> SUFFICES ASSUME TypeOK, Clock, [Next]_vars PROVE Clock'
    OBVIOUS
  <1>1. CASE Tick
    BY <1>1, PingAssumption DEF Tick, DoExpired, TypeOK, Clock
  <1>2. CASE UNCHANGED <<elapsed, ctxLeft>>
    BY <1>2 DEF Clock
  <1> QED
    BY <1>1, <1>2
       DEF Next, Client, Network, Over, vars, clientVars, Send, SendExpired,
           Answered, DoFails, BackoffEnds, BackoffCancelled, Handle, Lose

\* What Retry leaves behind when this attempt was seen to fail curably.
LEMMA RetryProgress ==
  ASSUME TypeOK, Progress, Retry, pc = "do",
         attempt' = attempt, request' = request,
         \E s \in Curable : seen' = [seen EXCEPT ![attempt] = s]
  PROVE  Progress'
  BY PingAssumption DEF TypeOK, Progress, Retry, Return, Attempts

\* The last attempt seen, and Send returns for another reason.
LEMMA ReturnProgress ==
  ASSUME TypeOK, Progress, NEW what \in Outcomes \ {"exhausted"}, Return(what),
         attempt' = attempt, request' = request,
         \A q \in Attempts : q < attempt => seen'[q] = seen[q]
  PROVE  Progress'
  BY PingAssumption DEF TypeOK, Progress, Return, Attempts

LEMMA ProgressStep == TypeOK /\ Progress /\ [Next]_vars => Progress'
  <1> SUFFICES ASSUME TypeOK, Progress, [Next]_vars PROVE Progress'
    OBVIOUS
  <1> USE DEF clientVars, netVars
  <1>1. CASE Send
    BY <1>1, PingAssumption DEF Send, Progress, TypeOK, Attempts
  <1>2. CASE SendExpired \/ BackoffCancelled
    BY <1>2, ReturnProgress DEF SendExpired, BackoffCancelled, Outcomes
  <1>3. CASE Answered
    <2>1. CASE answer[attempt] = "server"
      <3>1. Retry /\ seen' = [seen EXCEPT ![attempt] = "server"]
        BY <1>3, <2>1 DEF Answered, Verdict
      <3> QED BY <1>3, <3>1, RetryProgress DEF Answered, Curable
    <2>2. CASE answer[attempt] \in {"ok", "client"}
      <3>1. \E what \in {"nil", "client"} : Return(what)
        BY <1>3, <2>2 DEF Answered, Verdict
      <3>2. \A q \in Attempts : q < attempt => seen'[q] = seen[q]
        BY <1>3 DEF Answered, TypeOK, Attempts
      <3> QED BY <1>3, <3>1, <3>2, ReturnProgress DEF Answered, Outcomes
    <2> QED BY <1>3, <2>1, <2>2 DEF Answered, Answers
  <1>4. CASE DoFails
    <2>1. CASE ctxLeft = 0
      <3>1. \A q \in Attempts : q < attempt => seen'[q] = seen[q]
        BY <1>4 DEF DoFails, TypeOK, Attempts
      <3> QED BY <1>4, <2>1, <3>1, ReturnProgress DEF DoFails, Outcomes
    <2>2. CASE ctxLeft # 0
      BY <1>4, <2>2, RetryProgress DEF DoFails, Curable
    <2> QED BY <2>1, <2>2
  <1>5. CASE BackoffEnds
    BY <1>5, PingAssumption DEF BackoffEnds, Progress, TypeOK, Attempts
  <1>6. CASE Tick
    BY <1>6 DEF Tick, Progress
  <1>7. CASE Network
    BY <1>7 DEF Network, Handle, Lose, Progress, TypeOK
  <1>8. CASE UNCHANGED vars
    BY <1>8 DEF vars, Progress
  <1> QED
    BY <1>1, <1>2, <1>3, <1>4, <1>5, <1>6, <1>7, <1>8 DEF Next, Client, Over

LEMMA AnsweringStep == TypeOK /\ Progress /\ Answering /\ [Next]_vars => Answering'
  <1> SUFFICES ASSUME TypeOK, Progress, Answering, [Next]_vars PROVE Answering'
    OBVIOUS
  <1> USE DEF Answering, clientVars, netVars, Return
  <1>1. CASE Send
    BY <1>1 DEF Send, Progress, TypeOK
  <1>2. CASE SendExpired \/ BackoffCancelled
    BY <1>2 DEF SendExpired, BackoffCancelled
  <1>3. CASE Answered
    BY <1>3 DEF Answered, Verdict, Answers, Retry
  <1>4. CASE DoFails
    BY <1>4 DEF DoFails, Retry
  <1>5. CASE BackoffEnds
    BY <1>5 DEF BackoffEnds
  <1>6. CASE Tick
    BY <1>6 DEF Tick
  <1>7. ASSUME NEW r \in Attempts, Handle(r) PROVE Answering'
    <2>1. PICK a \in Answers : answer' = [answer EXCEPT ![r] = a]
      BY <1>7 DEF Handle
    <2>2. request[r] = "flying" /\ request' = [request EXCEPT ![r] = "handled"]
          /\ UNCHANGED clientVars
      BY <1>7 DEF Handle
    <2>3. answer[r] = "none" /\ a # "none"
      BY <2>2 DEF Answers
    <2>4. \A q \in Attempts : answer'[q] # "none" <=> request'[q] = "handled"
      BY <2>1, <2>2, <2>3 DEF TypeOK
    <2>5. outcome' = "nil" => answer'[attempt'] = "ok"
      BY <2>1, <2>2, <2>3 DEF TypeOK
    <2> QED BY <2>2, <2>4, <2>5
  <1>8. ASSUME NEW r \in Attempts, Lose(r) PROVE Answering'
    BY <1>8 DEF Lose, TypeOK
  <1>9. CASE UNCHANGED vars
    BY <1>9 DEF vars
  <1> QED
    BY <1>1, <1>2, <1>3, <1>4, <1>5, <1>6, <1>7, <1>8, <1>9
       DEF Next, Client, Network, Over

-----------------------------------------------------------------------------
\* The invariant and what follows from it.

LEMMA InvInit == Init => IInv
  BY TypeInit, PingAssumption
     DEF Init, IInv, Clock, Progress, Answering, Attempts

LEMMA InvStep == IInv /\ [Next]_vars => IInv'
  BY TypeStep, ClockStep, ProgressStep, AnsweringStep DEF IInv

\* Every variable keeps to its type, and no delay exceeds the cap.
THEOREM TypeCorrect == Spec => []TypeOK
  <1>1. IInv => TypeOK
    BY DEF IInv
  <1> QED BY <1>1, InvInit, InvStep, PTL DEF Spec

\* The inductive invariant holds of every behaviour: clock, loop variable and
\* answers agree at each step of sendWithRetry.
THEOREM Invariance == Spec => []IInv
  BY InvInit, InvStep, PTL DEF Spec

\* Send never outlasts the deadline of its context.
THEOREM Deadline == Spec => []WithinDeadline
  <1>1. IInv => WithinDeadline
    BY PingAssumption DEF IInv, TypeOK, Clock, WithinDeadline
  <1> QED BY <1>1, Invariance, PTL

\* No ping is posted again after a verdict.
THEOREM Stops == Spec => []StopsAtVerdict
  <1>1. ASSUME IInv PROVE StopsAtVerdict
    <2> SUFFICES ASSUME NEW r \in Attempts, request[r] # "unsent", NEW q \in 0..(r - 1)
                 PROVE  seen[q] \in Curable
      BY DEF StopsAtVerdict, Curable
    <2>1. r <= attempt /\ q \in Attempts /\ q < attempt
      BY <1>1, PingAssumption DEF IInv, TypeOK, Progress, Attempts
    <2> QED BY <1>1, <2>1 DEF IInv, Progress
  <1> QED BY <1>1, Invariance, PTL

\* Exhausted means that every attempt was made and failed.
THEOREM Exhausted == Spec => []ExhaustedTriedAll
  <1>1. ASSUME IInv PROVE ExhaustedTriedAll
    <2> SUFFICES ASSUME outcome = "exhausted", NEW r \in Attempts
                 PROVE  seen[r] \in Curable
      BY DEF ExhaustedTriedAll, Curable
    <2>1. attempt = Retries /\ seen[attempt] \in Curable
      BY <1>1 DEF IInv, Progress
    <2>2. r < attempt \/ r = attempt
      BY <2>1, PingAssumption DEF Attempts
    <2> QED BY <1>1, <2>1, <2>2 DEF IInv, Progress
  <1> QED BY <1>1, Invariance, PTL

-----------------------------------------------------------------------------
\* PingClient implements PingCall.

LEMMA CallParts ==
  Call = [phase |-> Stage, posts |-> Call.posts, spent |-> elapsed, told |-> Told]
  BY DEF Call

LEMMA CallNext ==
  ASSUME NEW p, NEW f, NEW n, NEW t,
         Stage' = p, elapsed' = n, Told' = t,
         f = [r \in Attempts |-> f[r]],
         \A r \in Attempts : Posted(r)' = f[r]
  PROVE  Call' = [phase |-> p, posts |-> f, spent |-> n, told |-> t]
  <1>1. [r \in Attempts |-> Posted(r)]' = f
    OBVIOUS
  <1> QED BY <1>1 DEF Call

\* A step that leaves what the promise is about alone.
LEMMA Stutters ==
  ASSUME Told' = Told, elapsed' = elapsed, UNCHANGED netVars,
         pc' = "returned" <=> pc = "returned"
  PROVE  UNCHANGED Call
  <1>1. \A r \in Attempts : Posted(r)' = Posted(r)
    BY DEF netVars, Posted
  <1>2. Stage' = Stage
    BY DEF Stage
  <1> QED BY <1>1, <1>2 DEF Call

\* Send returns; "ok" is backed by an accepted request.
LEMMA ReturnMaps ==
  ASSUME IInv, NEW what \in Outcomes, pc # "returned", Return(what),
         what = "nil" => answer[attempt] = "ok",
         elapsed' = elapsed, UNCHANGED netVars
  PROVE  Promise!Client
  <1> DEFINE said == IF what = "nil" THEN "ok" ELSE "failed"
  <1>1. Call.phase = "sending" /\ outcome = "none"
    BY DEF IInv, Answering, Call, Stage
  <1>2. Told' = said
    BY DEF Return, Told, Outcomes
  <1>3. \A r \in Attempts : Posted(r)' = Posted(r)
    BY DEF netVars, Posted
  <1>4. Call' = [Call EXCEPT !.phase = "returned", !.told = said]
    <2>1. Stage' = "returned"
      BY DEF Return, Stage
    <2>2. Call' = [phase |-> "returned", posts |-> Call.posts, spent |-> elapsed, told |-> said]
      BY <1>2, <1>3, <2>1, CallNext DEF Call
    <2> HIDE DEF said
    <2>3. [Call EXCEPT !.phase = "returned", !.told = said]
            = [phase |-> "returned", posts |-> Call.posts, spent |-> elapsed, told |-> said]
      <3> DEFINE first == [Call EXCEPT !.phase = "returned"]
      <3>1. first = [phase |-> "returned", posts |-> Call.posts, spent |-> elapsed, told |-> Told]
        BY CallParts
      <3>2. [Call EXCEPT !.phase = "returned", !.told = said] = [first EXCEPT !.told = said]
        BY CallParts, <3>1
      <3> HIDE DEF first
      <3> QED BY <3>1, <3>2
    <2> QED BY <2>2, <2>3
  <1>5. said = "ok" => \E r \in Attempts : Call.posts[r] = "accepted"
    <2> SUFFICES ASSUME what = "nil" PROVE \E r \in Attempts : Call.posts[r] = "accepted"
      OBVIOUS
    <2>1. attempt \in Attempts /\ request[attempt] = "handled"
      BY DEF IInv, TypeOK, Answering
    <2> QED BY <2>1 DEF Call, Posted
  <1>6. Promise!Return(said)
    BY <1>1, <1>4, <1>5 DEF Promise!Return, Promise!Sending
  <1> QED BY <1>6 DEF Promise!Client

\* Retry sleeps, which the caller does not see, or gives up.
LEMMA RetryMaps ==
  ASSUME IInv, pc = "do", Retry, elapsed' = elapsed, UNCHANGED netVars
  PROVE  Promise!Client \/ UNCHANGED Call
  <1>1. CASE attempt < Retries
    BY <1>1, Stutters DEF Retry, Told
  <1>2. CASE ~(attempt < Retries)
    BY <1>2, ReturnMaps DEF Retry, Outcomes
  <1> QED BY <1>1, <1>2

LEMMA StepMaps == IInv /\ [Next]_vars => [Promise!Next]_Call
  <1> SUFFICES ASSUME IInv, [Next]_vars PROVE Promise!Next \/ UNCHANGED Call
    OBVIOUS
  <1>1. CASE Send
    <2>1. attempt \in Attempts /\ request[attempt] = "unsent"
      BY <1>1 DEF IInv, TypeOK, Progress, Send
    <2>2. \A r \in Attempts :
            Posted(r)' = IF r = attempt THEN "flying" ELSE Posted(r)
      BY <1>1, <2>1 DEF Send, Posted, IInv, TypeOK
    <2>3. Call' = [Call EXCEPT !.posts[attempt] = "flying"]
      <3> DEFINE f == [Call.posts EXCEPT ![attempt] = "flying"]
      <3>1. Stage' = Stage /\ Told' = Told /\ elapsed' = elapsed
        BY <1>1 DEF Send, Stage, Told
      <3>2. Call' = [phase |-> Stage, posts |-> f, spent |-> elapsed, told |-> Told]
        BY <2>1, <2>2, <3>1, CallNext DEF Call
      <3> QED BY <3>2, CallParts
    <2>4. Call.phase = "sending" /\ Call.posts[attempt] = "unsent"
      BY <1>1, <2>1 DEF Send, Call, Posted, Stage
    <2> QED
      BY <2>1, <2>3, <2>4 DEF Promise!Next, Promise!Client, Promise!Post, Promise!Sending
  <1>2. CASE SendExpired
    BY <1>2, ReturnMaps DEF SendExpired, Outcomes, Promise!Next
  <1>3. CASE Answered
    <2>1. CASE answer[attempt] = "server"
      BY <1>3, <2>1, RetryMaps DEF Answered, Verdict, Promise!Next
    <2>2. CASE answer[attempt] = "ok"
      BY <1>3, <2>2, ReturnMaps DEF Answered, Verdict, Outcomes, Promise!Next
    <2>3. CASE answer[attempt] = "client"
      BY <1>3, <2>3, ReturnMaps DEF Answered, Verdict, Outcomes, Promise!Next
    <2> QED BY <1>3, <2>1, <2>2, <2>3 DEF Answered, Answers
  <1>4. CASE DoFails
    <2>1. CASE ctxLeft = 0
      BY <1>4, <2>1, ReturnMaps DEF DoFails, Outcomes, Promise!Next
    <2>2. CASE ctxLeft # 0
      BY <1>4, <2>2, RetryMaps DEF DoFails, Promise!Next
    <2> QED BY <2>1, <2>2
  <1>5. CASE BackoffEnds
    BY <1>5, Stutters DEF BackoffEnds, Told
  <1>6. CASE BackoffCancelled
    BY <1>6, ReturnMaps DEF BackoffCancelled, Outcomes, Promise!Next
  <1>7. CASE Network
    <2> PICK r \in Attempts : Handle(r) \/ Lose(r)
      BY <1>7 DEF Network
    <2>1. PICK how \in {"accepted", "rejected", "lost"} :
            \A q \in Attempts : Posted(q)' = IF q = r THEN how ELSE Posted(q)
      <3>1. CASE Handle(r)
        <4> PICK a \in Answers : answer' = [answer EXCEPT ![r] = a]
          BY <3>1 DEF Handle
        <4> DEFINE h == IF a = "ok" THEN "accepted" ELSE "rejected"
        <4>1. \A q \in Attempts : Posted(q)' = IF q = r THEN h ELSE Posted(q)
          BY <3>1 DEF Handle, Posted, IInv, TypeOK
        <4> QED BY <4>1
      <3>2. CASE Lose(r)
        BY <3>2 DEF Lose, Posted, IInv, TypeOK
      <3> QED BY <3>1, <3>2
    <2>2. UNCHANGED <<pc, outcome, elapsed>> /\ request[r] = "flying"
      BY DEF Handle, Lose, clientVars
    <2>3. Call' = [Call EXCEPT !.posts[r] = how]
      <3> DEFINE f == [Call.posts EXCEPT ![r] = how]
      <3>1. Stage' = Stage /\ Told' = Told /\ elapsed' = elapsed
        BY <2>2 DEF Stage, Told
      <3>2. Call' = [phase |-> Stage, posts |-> f, spent |-> elapsed, told |-> Told]
        BY <2>1, <3>1, CallNext DEF Call
      <3> QED BY <3>2, CallParts
    <2>4. Call.posts[r] = "flying"
      BY <2>2 DEF Call, Posted
    <2> QED BY <2>3, <2>4 DEF Promise!Next, Promise!Network, Promise!Handle
  <1>8. CASE Tick
    <2>1. elapsed < CtxTimeout /\ pc # "returned"
      BY <1>8, PingAssumption DEF Tick, DoExpired, IInv, TypeOK, Clock
    <2>2. \A r \in Attempts : Posted(r)' = Posted(r)
      BY <1>8 DEF Tick, netVars, Posted
    <2>3. Call' = [Call EXCEPT !.spent = @ + 1]
      <3>1. Stage' = Stage /\ Told' = Told /\ elapsed' = elapsed + 1
        BY <1>8 DEF Tick, Stage, Told
      <3>2. Call' = [phase |-> Stage, posts |-> Call.posts, spent |-> elapsed + 1, told |-> Told]
        BY <2>2, <3>1, CallNext DEF Call
      <3> QED BY <3>2, CallParts
    <2>4. Call.phase = "sending" /\ Call.spent < CtxTimeout
      BY <2>1 DEF Call, Stage
    <2> QED
      BY <2>3, <2>4 DEF Promise!Next, Promise!Client, Promise!Spend, Promise!Sending
  <1>9. CASE UNCHANGED vars
    BY <1>9, Stutters DEF vars, clientVars, Told
  <1> QED
    BY <1>1, <1>2, <1>3, <1>4, <1>5, <1>6, <1>7, <1>8, <1>9 DEF Next, Client, Over

\* PingClient implements PingCall: at most one post for each attempt, a
\* return within the budget, and "ok" only of a ping that was accepted.
THEOREM Refinement == Spec => KeepsPromise
  <1>1. Init => Promise!Init
    BY DEF Init, Promise!Init, Promise!Fresh, Call, Stage, Told, Posted
  <1> QED BY <1>1, StepMaps, Invariance, PTL DEF Spec, Promise!Spec, KeepsPromise

=============================================================================
