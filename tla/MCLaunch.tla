------------------------------ MODULE MCLaunch ------------------------------
(* An instance of Launch for TLC. *)
EXTENDS Launch

\* No setting, or one, besides a ping key that is given or not.  The fields
\* do not depend on each other: what a setting of one source does to that of
\* another is all there is.
Holding(keys, settings) ==
    {[f \in Fields |-> IF f = "ping_key" THEN key ELSE IF f = s[1] THEN s[2] ELSE "unset"] :
        key \in keys, s \in settings \cup {<<"none", "unset">>}}

Settings == UNION {{f} \X Values[f] : f \in Fields \ {"ping_key"}}

MCFiles == Holding({"unset"}, Settings) \cup Holding({"good"}, {})
MCEnvs  == Holding({"good"}, Settings) \cup Holding({"unset"}, {})
MCFlags ==
    Holding({"unset", "good"}, {s \in Settings : s[1] \in {"api_url", "timeout"}})
=============================================================================
