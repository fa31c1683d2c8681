----------------------------- MODULE MCCapture ------------------------------
(***************************************************************************)
(* An instance of Capture for TLC.  One pattern matches less than the      *)
(* placeholder is long and one more, so that redaction makes a line grow   *)
(* or shrink; two are applied in turn, one spans lines and one is anchored *)
(* to the beginning of the text.                                           *)
(***************************************************************************)
EXTENDS Capture, SequencesExt, TLC

Placeholder == <<"[", "]">>

\* b with old replaced by new, leftmost first, as ReplaceAll does.
ReplaceText(b, old, new) ==
    LET add(acc, c) ==
          LET longer == Append(acc, c)
          IN  IF IsSuffix(old, longer)
              THEN SubSeq(longer, 1, Len(longer) - Len(old)) \o new
              ELSE longer
    IN  FoldLeft(add, <<>>, b)

Literal == [short |-> <<"s">>, long |-> <<"t", "s", "t">>, lines |-> <<"t", "n", "s">>]

MCRedact(ps, b) ==
    CASE ps \in DOMAIN Literal -> ReplaceText(b, Literal[ps], Placeholder)
      [] ps = "both"           -> ReplaceText(ReplaceText(b, <<"t">>, Placeholder),
                                              <<"]", "s">>, Placeholder)
      [] ps = "anchored"       -> IF b[1] = "s" THEN Placeholder \o Tail(b) ELSE b
=============================================================================
