---------------------------- MODULE MCExecAgent -----------------------------
(* An instance of ExecAgent for TLC. *)
EXTENDS ExecAgent, TLC

\* A command that succeeds, fails (with the code the agent itself uses for
\* errors) or is killed.
AllStatuses ==
    {[kind |-> "exited", n |-> 0], [kind |-> "exited", n |-> 1],
     [kind |-> "signaled", n |-> 9]}
=============================================================================
