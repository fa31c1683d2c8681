------------------------------ MODULE MCRunner ------------------------------
(***************************************************************************)
(* Instances of Runner for TLC: the sets of helper traits the runs use.    *)
(***************************************************************************)
EXTENDS Runner, TLC

Helper(g, w, t) == [grouped |-> g, writes |-> w, onTerm |-> t]

\* Any helper at all. Only the leader's end is reported, so a helper that
\* traps a signal and exits is one that dies of it.
AllTraits == {t \in Traits : t.onTerm # "trap"}

\* Helpers that stay in the group of the wrapped command, or at least give
\* up its stdout and stderr when they leave it.
TameTraits == {t \in AllTraits : t.grouped \/ ~t.writes}

\* A helper that left the group and kept the captured stdout open.
DetachedWriter == {Helper(FALSE, TRUE, "die")}

=============================================================================
