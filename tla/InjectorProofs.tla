--------------------------- MODULE InjectorProofs ---------------------------
(***************************************************************************)
(* Proofs about InjectorServer, for any clients and any timeouts with      *)
(* CallTimeout < DrainTimeout.  The argument is about two clocks that run  *)
(* side by side: no call begins once Shutdown has closed the listener, so  *)
(* while it drains every call that still waits is at least as old as the   *)
(* drain (DrainIsYounger); the API server gives up first.                  *)
(***************************************************************************)
EXTENDS InjectorServer, TLAPS

\* A call waits only for a handler that is at work, and a review is of a body.
WaitsForHandler ==
    \A c \in Clients :
        /\ call[c] = "waiting" => handler[c] \in {"header", "body", "review"}
        /\ handler[c] = "review" => body[c] \in Bodies

\* The API server does not wait longer than it said.
CallsBounded ==
    \A c \in ApiServer :
        /\ call[c] = "unsent" => age[c] = 0
        /\ call[c] = "waiting" => age[c] <= CallTimeout

DrainIsYounger ==
    /\ main = "config" => stopper = "unborn"
    /\ stopper \in {"unborn", "born", "subscribed"} => drained = 0
    /\ stopper = "draining" =>
         \A c \in ApiServer : call[c] = "waiting" => drained <= age[c]

\* What idleClosed tells main.
ClosedMeansDone ==
    stopper = "closed" =>
        /\ \A c \in ApiServer : call[c] # "waiting"
        /\ (\E c \in Clients : call[c] = "waiting") => drained = DrainTimeout

\* Only the end of the process cuts a call, and it leaves none waiting.
CutAtTheEnd ==
    /\ main = "ended" <=> exit # "none"
    /\ main # "ended" => \A c \in Clients : call[c] # "cut"
    /\ main = "ended" => \A c \in Clients : call[c] # "waiting"

IInv ==
    /\ TypeOK /\ WaitsForHandler /\ CallsBounded /\ DrainIsYounger
    /\ ClosedMeansDone /\ CutAtTheEnd
    /\ AdmissionsFinish /\ DeadlineUsed

LEMMA InitIInv == Init => IInv
  <1> SUFFICES ASSUME Init PROVE IInv
    OBVIOUS
  <1> USE DEF Init
  <1>1. TypeOK
    <2>1. DrainTimeout \in Nat /\ Horizon \in Nat
      BY ServerAssumption DEF Horizon
    <2>2. 0 \in 0..DrainTimeout /\ 0 \in 0..Horizon
      BY <2>1
    <2> QED
      BY <2>2, Zenon DEF TypeOK
  <1>2. WaitsForHandler /\ CallsBounded /\ DrainIsYounger /\ ClosedMeansDone
    BY ServerAssumption DEF WaitsForHandler, CallsBounded, DrainIsYounger, ClosedMeansDone
  <1>3. CutAtTheEnd /\ AdmissionsFinish /\ DeadlineUsed
    BY DEF CutAtTheEnd, AdmissionsFinish, DeadlineUsed
  <1> QED
    BY <1>1, <1>2, <1>3 DEF IInv

\* The steps of main() and of the signal goroutine while the process lives.
LEMMA ServerSteps ==
    ASSUME IInv,
           LoadConfig \/ Bind \/ LoadKeys \/ ServerClosed \/ Stopper \/
           (queued' = TRUE /\ stopper \notin {"unborn", "born"} /\ main # "ended" /\
              UNCHANGED <<main, stopper, drained, exit, clients>>)
    PROVE  IInv'
  <1> USE DEF IInv
  <1>a. /\ UNCHANGED <<drained, exit, handler, body, call, age>>
        /\ main # "ended" /\ main' # "ended"
        /\ main' \in {"config", "bind", "keys", "serve", "wait"}
        /\ queued' \in BOOLEAN
        /\ main' = "config" => main = "config" /\ stopper' = stopper
    BY DEF TypeOK, LoadConfig, Bind, LoadKeys, ServerClosed, Stopper, Subscribe, BeginShutdown, EndShutdown, clients, DrainIsYounger
  <1>b. \/ stopper' = stopper
        \/ stopper \in {"unborn", "born"} /\ stopper' \in {"born", "subscribed"}
        \/ stopper = "subscribed" /\ stopper' = "draining"
        \/ stopper = "draining" /\ stopper' = "closed" /\ (InFlight = {} \/ drained = DrainTimeout)
    <2>1. CASE LoadConfig
      <3> QED
        BY <2>1 DEF LoadConfig, DrainIsYounger
    <2>2. CASE ~LoadConfig
      BY <2>2 DEF Bind, LoadKeys, ServerClosed, Stopper, Subscribe, BeginShutdown, EndShutdown
    <2> QED
      BY <2>1, <2>2
  <1>1. TypeOK'
    BY <1>a, <1>b DEF TypeOK, Bodies
  <1>2. WaitsForHandler' /\ CallsBounded'
    BY <1>a DEF WaitsForHandler, CallsBounded
  <1>3. DrainIsYounger'
    <2>1. (main = "config" => stopper = "unborn")'
      BY <1>a DEF DrainIsYounger
    <2>2. (stopper \in {"unborn", "born", "subscribed"} => drained = 0)'
      BY <1>a, <1>b DEF DrainIsYounger
    <2>3. ASSUME stopper' = "draining", NEW c \in ApiServer, call[c] = "waiting"
          PROVE  drained <= age[c]
      <3>1. age[c] \in Nat
        BY ServerAssumption DEF TypeOK
      <3>2. CASE stopper = "draining"
        BY <2>3, <3>2 DEF DrainIsYounger
      <3>3. CASE stopper # "draining"
        BY <1>b, <2>3, <3>1, <3>3 DEF DrainIsYounger
      <3> QED
        BY <3>2, <3>3
    <2> QED
      BY <1>a, <2>1, <2>2, <2>3 DEF DrainIsYounger
  <1>4. ClosedMeansDone'
    <2> SUFFICES ASSUME stopper' = "closed"
                 PROVE  /\ \A c \in ApiServer : call[c] # "waiting"
                        /\ (\E c \in Clients : call[c] = "waiting") => drained = DrainTimeout
      BY <1>a DEF ClosedMeansDone
    <2>1. CASE stopper = "closed"
      BY <2>1 DEF ClosedMeansDone
    <2>2. CASE stopper = "draining" /\ InFlight = {}
      BY <2>2, ServerAssumption DEF WaitsForHandler, InFlight
    <2>3. CASE stopper = "draining" /\ drained = DrainTimeout
      <3> SUFFICES ASSUME NEW c \in ApiServer, call[c] = "waiting" PROVE FALSE
        BY <2>3
      <3>1. drained <= age[c] /\ age[c] <= CallTimeout /\ age[c] \in Int
        BY <2>3, ServerAssumption DEF DrainIsYounger, CallsBounded, TypeOK
      <3> QED
        BY <3>1, <2>3, ServerAssumption
    <2> QED
      BY <1>b, <2>1, <2>2, <2>3
  <1>5. CutAtTheEnd'
    BY <1>a DEF CutAtTheEnd
  <1>6. AdmissionsFinish' /\ DeadlineUsed'
    BY <1>a DEF CutAtTheEnd, AdmissionsFinish, DeadlineUsed
  <1> QED
    BY <1>1, <1>2, <1>3, <1>4, <1>5, <1>6

\* The end of the process, which is "ok" only when idleClosed is closed.
LEMMA EndSteps ==
    ASSUME IInv, main # "ended",
           NEW how \in {"ok", "error", "signal", "killed"}, Ends(how),
           how = "ok" => stopper = "closed"
    PROVE  IInv'
  <1> USE DEF IInv
  <1>a. /\ main' = "ended" /\ exit' = how
        /\ UNCHANGED <<stopper, queued, drained, body, age>>
        /\ handler' = [c \in Clients |-> IF c \in InFlight THEN "done" ELSE handler[c]]
        /\ call' = [c \in Clients |-> IF call[c] = "waiting" THEN "cut" ELSE call[c]]
    BY DEF Ends
  <1>b. \A c \in Clients : call'[c] # "waiting" /\ (call'[c] = "cut" => call[c] = "waiting")
    BY <1>a DEF CutAtTheEnd
  <1>1. TypeOK'
    BY <1>a DEF TypeOK, Bodies
  <1>2. WaitsForHandler' /\ CallsBounded' /\ DrainIsYounger' /\ ClosedMeansDone'
    BY <1>a, <1>b, ServerAssumption DEF WaitsForHandler, CallsBounded, DrainIsYounger, ClosedMeansDone
  <1>3. CutAtTheEnd'
    BY <1>a, <1>b DEF CutAtTheEnd
  <1>4. AdmissionsFinish' /\ DeadlineUsed'
    BY <1>a, <1>b, ServerAssumption DEF AdmissionsFinish, DeadlineUsed, ClosedMeansDone
  <1> QED
    BY <1>1, <1>2, <1>3, <1>4

\* The handlers, the clients that have a connection, and the API server.
LEMMA ClientSteps ==
    ASSUME IInv, NEW c \in Clients,
           Handler(c) \/ HeaderArrives(c) \/ BodyArrives(c) \/ GiveUp(c)
    PROVE  IInv'
  <1> USE DEF IInv
  <1>a. UNCHANGED <<main, stopper, queued, drained, exit, age>>
    BY DEF Handler, CutHeader, BodyBreaks, Review, Answer, HeaderArrives, BodyArrives, GiveUp, server
  <1>b. /\ handler' \in [Clients -> {"none", "header", "body", "review", "done"}]
        /\ \A d \in Clients : d # c => handler'[d] = handler[d] /\ call'[d] = call[d]
        /\ body' \in [Clients -> Bodies \cup {"none"}]
    <2>1. CASE HeaderArrives(c) \/ BodyArrives(c) \/ GiveUp(c)
      BY <2>1 DEF TypeOK, HeaderArrives, BodyArrives, GiveUp
    <2>2. CASE Handler(c)
      BY <2>2 DEF TypeOK, Handler, CutHeader, BodyBreaks, Review, Answer, Bodies
    <2> QED
      BY <2>1, <2>2
  <1>c. /\ call' \in [Clients -> {"unsent", "waiting", "patched", "admitted",
                                  "rejected", "refused", "timeout", "cut"}]
        /\ call'[c] = "waiting" => call[c] = "waiting" /\ handler'[c] \in {"header", "body", "review"}
        /\ call'[c] = "cut" => call[c] = "cut"
        /\ call'[c] = "unsent" => call[c] = "unsent"
    <2>1. CASE HeaderArrives(c) \/ BodyArrives(c)
      BY <2>1 DEF TypeOK, HeaderArrives, BodyArrives
    <2>2. CASE GiveUp(c)
      BY <2>2 DEF TypeOK, GiveUp
    <2>3. CASE CutHeader(c) \/ BodyBreaks(c)
      BY <2>3 DEF TypeOK, CutHeader, BodyBreaks, Answer
    <2>4. CASE Review(c)
      <3>1. CASE call[c] = "waiting"
        <4>1. handler[c] = "review" /\ call' = [call EXCEPT ![c] = Verdict(body[c])]
          BY <2>4, <3>1 DEF Review, Answer
        <4>2. body[c] \in Bodies
          BY <4>1 DEF WaitsForHandler
        <4> QED
          BY <4>1, <4>2 DEF Verdict, Bodies, TypeOK
      <3>2. CASE call[c] # "waiting"
        BY <2>4, <3>2 DEF Review, Answer, TypeOK
      <3> QED
        BY <3>1, <3>2
    <2> QED
      BY <2>1, <2>2, <2>3, <2>4 DEF Handler
  <1>d. \A d \in Clients : /\ call'[d] = "waiting" => call[d] = "waiting"
                           /\ call'[d] = "cut" => call[d] = "cut"
                           /\ call'[d] = "unsent" => call[d] = "unsent"
    BY <1>b, <1>c
  <1>1. TypeOK'
    BY <1>a, <1>b, <1>c DEF TypeOK, Bodies
  <1>2. WaitsForHandler'
    <2>1. ASSUME NEW d \in Clients, handler'[d] = "review" PROVE body'[d] \in Bodies
      <3>1. CASE BodyArrives(c)
        BY <2>1, <3>1 DEF BodyArrives, WaitsForHandler, TypeOK
      <3>2. CASE HeaderArrives(c) \/ GiveUp(c)
        BY <2>1, <3>2 DEF HeaderArrives, GiveUp, WaitsForHandler, TypeOK
      <3>3. CASE Handler(c)
        BY <2>1, <3>3 DEF Handler, CutHeader, BodyBreaks, Review, Answer, WaitsForHandler, TypeOK
      <3> QED
        BY <3>1, <3>2, <3>3
    <2> QED
      BY <1>b, <1>c, <1>d, <2>1 DEF WaitsForHandler
  <1>3. CallsBounded' /\ DrainIsYounger' /\ ClosedMeansDone'
    BY <1>a, <1>d, ServerAssumption DEF CallsBounded, DrainIsYounger, ClosedMeansDone
  <1>4. CutAtTheEnd' /\ AdmissionsFinish' /\ DeadlineUsed'
    BY <1>a, <1>d, ServerAssumption DEF CutAtTheEnd, AdmissionsFinish, DeadlineUsed
  <1> QED
    BY <1>1, <1>2, <1>3, <1>4

LEMMA ConnectStep == ASSUME IInv, NEW c \in Clients, Connect(c) PROVE IInv'
  <1> USE DEF IInv
  <1>a. UNCHANGED <<main, stopper, queued, drained, exit, body, age>>
    BY DEF Connect, server
  <1>b. \A d \in Clients : d # c => handler'[d] = handler[d] /\ call'[d] = call[d]
    BY DEF Connect, TypeOK
  <1>1. CASE Listening
    <2>1. /\ handler' = [handler EXCEPT ![c] = "header"]
          /\ call' = [call EXCEPT ![c] = "waiting"] /\ call[c] = "unsent"
          /\ main = "serve" /\ stopper \notin {"draining", "closed"}
      BY <1>1 DEF Connect, Listening, Stopping
    <2>2. TypeOK'
      BY <1>a, <2>1 DEF TypeOK, Bodies
    <2>3. WaitsForHandler' /\ DrainIsYounger' /\ ClosedMeansDone'
      BY <1>a, <1>b, <2>1 DEF WaitsForHandler, DrainIsYounger, ClosedMeansDone, TypeOK
    <2>4. CallsBounded'
      BY <1>a, <1>b, <2>1, ServerAssumption DEF CallsBounded, TypeOK
    <2>5. CutAtTheEnd' /\ AdmissionsFinish' /\ DeadlineUsed'
      BY <1>a, <1>b, <2>1 DEF CutAtTheEnd, AdmissionsFinish, DeadlineUsed, TypeOK
    <2> QED
      BY <2>2, <2>3, <2>4, <2>5
  <1>2. CASE ~Listening
    <2>1. handler' = handler /\ call' = [call EXCEPT ![c] = "refused"]
      BY <1>2 DEF Connect
    <2>2. TypeOK'
      BY <1>a, <2>1 DEF TypeOK, Bodies
    <2>3. WaitsForHandler' /\ CallsBounded' /\ DrainIsYounger' /\ ClosedMeansDone'
      BY <1>a, <1>b, <2>1, ServerAssumption
         DEF WaitsForHandler, CallsBounded, DrainIsYounger, ClosedMeansDone, TypeOK
    <2>4. CutAtTheEnd' /\ AdmissionsFinish' /\ DeadlineUsed'
      BY <1>a, <1>b, <2>1, ServerAssumption DEF CutAtTheEnd, AdmissionsFinish, DeadlineUsed, TypeOK
    <2> QED
      BY <2>2, <2>3, <2>4
  <1> QED
    BY <1>1, <1>2

LEMMA TickStep == ASSUME IInv, Tick PROVE IInv'
  <1> USE DEF IInv
  <1>a. /\ UNCHANGED <<main, stopper, queued, exit, handler, body, call>>
        /\ main # "ended" /\ ~Due
        /\ drained' = IF stopper = "draining" THEN drained + 1 ELSE drained
        /\ age' = [c \in Clients |->
                     IF call[c] = "waiting" /\ age[c] < Horizon THEN age[c] + 1 ELSE age[c]]
    BY DEF Tick
  <1>b. Horizon \in Nat /\ CallTimeout <= Horizon /\ DrainTimeout \in Nat /\ CallTimeout \in Nat
    BY ServerAssumption DEF Horizon
  <1>1. TypeOK'
    <2>1. drained' \in 0..DrainTimeout
      BY <1>a, <1>b DEF TypeOK, Due
    <2>2. age' \in [Clients -> 0..Horizon]
      BY <1>a, <1>b DEF TypeOK
    <2> QED
      BY <1>a, <2>1, <2>2 DEF TypeOK, Bodies
  <1>2. WaitsForHandler' /\ CutAtTheEnd'
    BY <1>a DEF WaitsForHandler, CutAtTheEnd
  <1>3. ASSUME NEW c \in ApiServer, call[c] = "waiting"
        PROVE  age'[c] = age[c] + 1 /\ age'[c] <= CallTimeout /\ age[c] \in Nat
    <2>1. age[c] \in Nat /\ ~(age[c] >= CallTimeout)
      BY <1>a, <1>3, <1>b, ServerAssumption DEF TypeOK, Due
    <2> QED
      BY <1>a, <1>b, <1>3, <2>1, ServerAssumption
  <1>4. CallsBounded'
    BY <1>a, <1>3, ServerAssumption DEF CallsBounded
  <1>5. DrainIsYounger'
    <2>1. ASSUME stopper = "draining", NEW c \in ApiServer, call[c] = "waiting"
          PROVE  drained' <= age'[c]
      <3>1. drained \in Nat /\ drained <= age[c]
        BY <2>1, <1>b DEF DrainIsYounger, TypeOK
      <3> QED
        BY <1>a, <1>3, <2>1, <3>1
    <2> QED
      BY <1>a, <2>1 DEF DrainIsYounger
  <1>6. ClosedMeansDone'
    BY <1>a DEF ClosedMeansDone
  <1>7. AdmissionsFinish' /\ DeadlineUsed'
    BY <1>a DEF AdmissionsFinish, DeadlineUsed, CutAtTheEnd
  <1> QED
    BY <1>1, <1>2, <1>4, <1>5, <1>6, <1>7

LEMMA NextIInv == IInv /\ [Next]_vars => IInv'
  <1> SUFFICES ASSUME IInv, [Next]_vars PROVE IInv'
    OBVIOUS
  <1>1. CASE LoadConfig \/ Bind \/ LoadKeys \/ ServerClosed \/ Stopper
    BY <1>1, ServerSteps
  <1>2. CASE Return
    BY <1>2, EndSteps DEF Return
  <1>3. CASE BadConfig \/ ServeFails
    BY <1>3, EndSteps DEF BadConfig, ServeFails
  <1>4. CASE Signal
    <2>1. CASE stopper \in {"unborn", "born"}
      BY <1>4, <2>1, EndSteps DEF Signal
    <2>2. CASE stopper \notin {"unborn", "born"}
      BY <1>4, <2>2, ServerSteps DEF Signal
    <2> QED
      BY <2>1, <2>2
  <1>5. CASE Kill
    BY <1>5, EndSteps DEF Kill
  <1>6. ASSUME NEW c \in Clients,
               Handler(c) \/ HeaderArrives(c) \/ BodyArrives(c) \/ Connect(c) \/ GiveUp(c)
        PROVE  IInv'
    BY <1>6, ClientSteps, ConnectStep
  <1>7. CASE Tick
    BY <1>7, TickStep
  <1>8. CASE UNCHANGED vars
    <2> USE <1>8 DEF vars, server, clients
    <2>1. TypeOK' /\ WaitsForHandler' /\ CallsBounded'
      BY DEF IInv, TypeOK, Bodies, WaitsForHandler, CallsBounded
    <2>2. DrainIsYounger' /\ ClosedMeansDone' /\ CutAtTheEnd' /\ AdmissionsFinish' /\ DeadlineUsed'
      BY DEF IInv, DrainIsYounger, ClosedMeansDone, CutAtTheEnd, AdmissionsFinish, DeadlineUsed
    <2> QED
      BY <2>1, <2>2 DEF IInv
  <1> QED
    BY <1>1, <1>2, <1>3, <1>4, <1>5, <1>6, <1>7, <1>8 DEF Next, Main, Over

\* The inductive invariant: the two clocks, and what the end of the drain,
\* the end of main and a cut call tell of each other.
THEOREM Invariance == Spec => []IInv
  <1>1. Init /\ [][Next]_vars => []IInv
    BY InitIInv, NextIInv, PTL
  <1> QED
    BY <1>1, PTL DEF Spec

\* The types of the server's variables: no timer runs past its timeout, and
\* no answer is a denial.
THEOREM TypeCorrect == Spec => []TypeOK
  BY Invariance, PTL DEF IInv

\* A graceful stop never cuts a call of the API server (main.go:62), whenever
\* the API server's timeout is below Shutdown's.
THEOREM Finish == Spec => []AdmissionsFinish
  BY Invariance, PTL DEF IInv

\* Nobody is cut by a graceful stop before the deadline of Shutdown.
THEOREM Deadline == Spec => []DeadlineUsed
  BY Invariance, PTL DEF IInv

=============================================================================
