------------------------------ MODULE PingCall ------------------------------
(***************************************************************************)
(* What one call of Client.Send promises to sendPing: it posts a bounded   *)
(* number of requests, returns within its budget of time, and says "ok"    *)
(* only when the server accepted one of them.  The network owes nothing,   *)
(* and what was posted may be handled after the call returned.  PingClient *)
(* implements it.                                                          *)
(***************************************************************************)
EXTENDS Naturals

CONSTANTS
    Requests,       \* the requests a call may post
    Budget          \* the ticks it may take

VARIABLE call

Fresh == [phase |-> "sending", posts |-> [r \in Requests |-> "unsent"],
          spent |-> 0, told |-> "none"]

Init == call = Fresh

Sending == call.phase = "sending"

Post ==
    /\ Sending
    /\ \E r \in Requests :
         /\ call.posts[r] = "unsent"
         /\ call' = [call EXCEPT !.posts[r] = "flying"]

\* Waiting without a deadline (the clock wraps, the wait does not end).
Spend_NoDeadline ==
    /\ Sending
    /\ call' = [call EXCEPT !.spent = (@ + 1) % (Budget + 1)]

Spend ==
    /\ Sending /\ call.spent < Budget
    /\ call' = [call EXCEPT !.spent = @ + 1]

Return(what) ==
    /\ Sending
    /\ what = "ok" => \E r \in Requests : call.posts[r] = "accepted"
    /\ call' = [call EXCEPT !.phase = "returned", !.told = what]

\* The server takes a request, or the network loses it.
Handle(r, how) ==
    /\ call.posts[r] = "flying"
    /\ call' = [call EXCEPT !.posts[r] = how]

Client  == Post \/ Spend \/ \E what \in {"ok", "failed"} : Return(what)
Network == \E r \in Requests, how \in {"accepted", "rejected", "lost"} : Handle(r, how)

Next == Client \/ Network

Spec == Init /\ [][Next]_call

\* The values of a call; the time it spent is within its budget.
TypeOK ==
    call \in [phase : {"sending", "returned"},
              posts : [Requests -> {"unsent", "flying", "accepted", "rejected", "lost"}],
              spent : 0..Budget,
              told  : {"none", "ok", "failed"}]

=============================================================================
