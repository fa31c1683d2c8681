------------------------------ MODULE Capture -------------------------------
(***************************************************************************)
(* The captured view of one stream of the command: the copying goroutine   *)
(* of os/exec hands whatever chunk it read to streamingRedactWriter        *)
(* (redact.go), which holds back the last, partial line, redacts, and      *)
(* passes on to cappedWriter (runner.go).  RunWithOptions closes the       *)
(* redactor when the stream has ended and reads the cap.                   *)
(*                                                                         *)
(* A byte is a member of a small set.  What a list of patterns does to a   *)
(* text is a constant operator, of which little is assumed: a pattern may  *)
(* be anchored or match across lines.  Every writer below returns the      *)
(* length it was given, so no write fails.  Definitions named X_Something  *)
(* are faults.                                                             *)
(***************************************************************************)
EXTENDS Integers, Sequences, FiniteSetsExt

CONSTANTS
    Bytes,          \* what the command may write
    Newline,        \* one of them
    Symbols,        \* what a capture may hold: Bytes and the placeholder's
    PatternLists,   \* values redact_patterns may have, other than none
    Redact(_, _),   \* Redact(ps, b): ReplaceAll for each pattern of ps on b
    MaxOutput,      \* max_output_bytes
    ChunkMax,       \* bound: the longest chunk the goroutine reads
    Limit           \* bound: all the command writes

NoPatterns == "none"

Texts == UNION {[1..n -> Bytes] : n \in 0..Limit}

\* The placeholder is not empty, so that redaction never empties a text.
ASSUME CaptureAssumption ==
    /\ Newline \in Bytes /\ Bytes \subseteq Symbols
    /\ NoPatterns \notin PatternLists
    /\ \A ps \in PatternLists, b \in Texts :
         b # <<>> => Redact(ps, b) \in Seq(Symbols) \ {<<>>}
    /\ MaxOutput \in Nat \ {0} /\ ChunkMax \in Nat \ {0} /\ Limit \in Nat

VARIABLES
    patterns,       \* redact_patterns
    buf,            \* streamingRedactWriter.buf
    cap,            \* cappedWriter: its buf and truncated
    closed,         \* flushRedactor was called
    said            \* history: all the command wrote

vars == <<patterns, buf, cap, closed, said>>

Chunks == UNION {[1..n -> Bytes] : n \in 1..ChunkMax}

Init ==
    /\ patterns \in PatternLists \cup {NoPatterns}
    /\ buf = <<>> /\ cap = [buf |-> <<>>, truncated |-> FALSE]
    /\ closed = FALSE /\ said = <<>>

-----------------------------------------------------------------------------

\* The first n bytes of b, if there are so many.
Prefix(b, n) == SubSeq(b, 1, IF n < Len(b) THEN n ELSE Len(b))

\* redact, which is never called for no bytes.
Redacted(ps, b) == IF b = <<>> \/ ps = NoPatterns THEN b ELSE Redact(ps, b)

\* Marking only what did not fit at all: a chunk cut short goes unmarked.
Cap_Unmarked(c, p) ==
    LET remaining == MaxOutput - Len(c.buf)
    IN  IF remaining <= 0
        THEN [c EXCEPT !.truncated = TRUE]
        ELSE [c EXCEPT !.buf = @ \o Prefix(p, remaining)]

\* Testing for >= : a chunk that just fits counts as truncated.
Cap_OffByOne(c, p) ==
    LET remaining == MaxOutput - Len(c.buf)
    IN  IF c.truncated \/ remaining <= 0 \/ Len(p) >= remaining
        THEN [buf |-> c.buf \o Prefix(p, remaining), truncated |-> TRUE]
        ELSE [c EXCEPT !.buf = @ \o p]

\* cappedWriter.Write, called with a chunk that is never empty.
Cap(c, p) ==
    LET remaining == MaxOutput - Len(c.buf)
    IN  IF c.truncated \/ remaining <= 0
        THEN [buf |-> c.buf, truncated |-> TRUE]
        ELSE [buf       |-> c.buf \o Prefix(p, remaining),
              truncated |-> Len(p) > remaining]

\* dst.Write, where there is something to write.
Pass(c, b) == IF b = <<>> THEN c ELSE Cap(c, Redacted(patterns, b))

\* Looking for the first newline instead of the last.
CompleteLines_First(b) ==
    LET ends == {i \in 1..Len(b) : b[i] = Newline}
    IN  IF ends = {} THEN 0 ELSE Min(ends)

\* The length of b up to its last newline.
CompleteLines(b) == Max({0} \cup {i \in 1..Len(b) : b[i] = Newline})

\* Redacting each chunk by itself.
Write_Chunkwise(p) ==
    /\ cap' = Pass(cap, p)
    /\ UNCHANGED buf

\* Never forcing out a partial line.
Write_Unbounded(p) ==
    LET held  == buf \o p
        last  == CompleteLines(held)
    IN  IF patterns = NoPatterns
        THEN cap' = Cap(cap, p) /\ UNCHANGED buf
        ELSE /\ cap' = Pass(cap, SubSeq(held, 1, last))
             /\ buf' = SubSeq(held, last + 1, Len(held))

\* Write: complete lines go out together, the partial one is held unless it
\* is as long as the cap.  With no pattern there is no redactor.
Write(p) ==
    LET held  == buf \o p
        last  == CompleteLines(held)
        lines == Pass(cap, SubSeq(held, 1, last))
        rest  == SubSeq(held, last + 1, Len(held))
    IN  IF patterns = NoPatterns
        THEN cap' = Cap(cap, p) /\ UNCHANGED buf
        ELSE IF Len(rest) >= MaxOutput
             THEN cap' = Pass(lines, rest) /\ buf' = <<>>
             ELSE cap' = lines /\ buf' = rest

\* io.Copy reads some chunk and writes it.
Copy ==
    /\ ~closed
    /\ \E p \in Chunks :
         /\ Len(said) + Len(p) <= Limit
         /\ Write(p)
         /\ said' = said \o p
    /\ UNCHANGED <<patterns, closed>>

\* Dropping a line that did not end in a newline.
Close_Drops ==
    /\ ~closed
    /\ cap' = cap
    /\ buf' = <<>> /\ closed' = TRUE
    /\ UNCHANGED <<patterns, said>>

\* flushRedactor, after the stream has ended.
Close ==
    /\ ~closed
    /\ cap' = Pass(cap, buf)
    /\ buf' = <<>> /\ closed' = TRUE
    /\ UNCHANGED <<patterns, said>>

Over == closed /\ UNCHANGED vars

Next == Copy \/ Close \/ Over

Spec == Init /\ [][Next]_vars

-----------------------------------------------------------------------------
\* Properties.

\* The types of the variables: a held line is a line, and nothing is held
\* when there is no pattern.
TypeOK ==
    /\ patterns \in PatternLists \cup {NoPatterns}
    /\ said \in Texts /\ closed \in BOOLEAN
    /\ buf \in Seq(Bytes) /\ \A i \in 1..Len(buf) : buf[i] # Newline
    /\ cap \in [buf : Seq(Symbols), truncated : BOOLEAN]
    /\ patterns = NoPatterns => buf = <<>>

\* All the cap lets through of b when it comes in one piece.
Cut(b) == [buf |-> Prefix(b, MaxOutput), truncated |-> Len(b) > MaxOutput]

\* Every line of b is shorter than the cap.
ShortLines(b) ==
    \A i \in 0..(Len(b) - MaxOutput) : \E j \in (i + 1)..(i + MaxOutput) : b[j] = Newline

\* The pattern lists to which a text cut at the end of a line is two texts:
\* no match spans the cut, and no anchor sees it.
Separable ==
    {ps \in PatternLists : \A b \in Texts : \A i \in 1..(Len(b) - 1) :
        b[i] = Newline =>
          Redact(ps, b) = Redact(ps, SubSeq(b, 1, i)) \o Redact(ps, SubSeq(b, i + 1, Len(b)))}

\* Where the reads fall makes no difference, and neither does the cap: while
\* every line is shorter than the cap, and if the patterns are for single
\* lines, the capture is the whole output redacted and then cut, and it says
\* so exactly when something was cut off.  (runner.go:110 and commands.go:82
\* give this order; config.example.yaml:38 describes the opposite one, with a
\* secret that straddles the cap shipped in part.)
RedactedThenCut ==
    (closed /\ patterns \in Separable \cup {NoPatterns} /\ ShortLines(said)) =>
        cap = Cut(Redacted(patterns, said))

\* The agent's memory does not grow with the output, not even on a stream
\* that never has a newline.
MemoryBounded == Len(buf) < MaxOutput /\ Len(cap.buf) <= MaxOutput

\* No pattern matches anywhere in b.
Untouched(ps, b) ==
    \A i \in 1..Len(b) : \A j \in i..Len(b) :
        Redacted(ps, SubSeq(b, i, j)) = SubSeq(b, i, j)

\* No byte disappears between the two buffers without a trace, however long
\* the lines: of an output that no pattern matches, what is captured and held
\* is all that was said, or its beginning and marked as such.
NothingLost ==
    Untouched(patterns, said) =>
        IF cap.truncated
        THEN cap.buf = Prefix(said, MaxOutput) /\ Len(said) > MaxOutput
        ELSE cap.buf \o buf = said

=============================================================================
