------------------------- MODULE MCInjectorServer ---------------------------
(* An instance of InjectorServer for TLC. *)
EXTENDS InjectorServer
=============================================================================
