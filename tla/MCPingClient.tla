---------------------------- MODULE MCPingClient ----------------------------
(* Instances of PingClient for TLC; the cfg files hold all the values. *)
EXTENDS PingClient, TLC
=============================================================================
