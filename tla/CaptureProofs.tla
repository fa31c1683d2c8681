---------------------------- MODULE CaptureProofs ----------------------------
(***************************************************************************)
(* Theorems about Capture, for every alphabet, every list of patterns and  *)
(* every cap.  What was passed on is a prefix d of the output that is      *)
(* followed by the bytes held; the cap holds what it makes of d, redacted, *)
(* in one piece.                                                           *)
(***************************************************************************)
EXTENDS Capture, SequenceTheorems, WellFoundedInduction, TLAPS

-----------------------------------------------------------------------------
(* The last newline.                                                       *)

LEMMA Least ==
    ASSUME NEW T \in SUBSET Nat, T # {}
    PROVE  \E x \in T : \A y \in T : x <= y
<1> DEFINE R == OpToRel(<, Nat)
<1>1. IsWellFoundedOn(R, Nat)
  BY NatLessThanWellFounded
<1>2. \A x, y \in Nat : <<y, x>> \in R <=> y < x
  BY DEF OpToRel
<1> HIDE DEF R
<1>3. PICK x \in T : \A y \in T : ~(<<y, x>> \in R)
  BY <1>1, WFMin
<1>4. \A y \in T : x <= y
  <2> TAKE y \in T
  <2>1. x \in Nat /\ y \in Nat /\ ~(y < x)
    BY <1>2, <1>3
  <2> QED BY <2>1
<1> QED BY <1>4

LEMMA MaxExists ==
    ASSUME NEW n \in Nat, NEW T \in SUBSET (0..n), T # {}
    PROVE  /\ Max(T) \in T
           /\ \A i \in T : i <= Max(T)
<1> DEFINE D == {n - i : i \in T}
<1>1. D \in SUBSET Nat
  BY \A i \in T : n - i \in Nat
<1>2. D # {}
  BY T # {}
<1> HIDE DEF D
<1>3. PICK x \in D : \A y \in D : x <= y
  BY <1>1, <1>2, Least
<1>4. PICK m \in T : x = n - m
  BY <1>3 DEF D
<1>5. \A i \in T : m >= i
  <2> TAKE i \in T
  <2>1. n - i \in D
    BY DEF D
  <2>2. i \in 0..n /\ m \in 0..n
    OBVIOUS
  <2> QED BY <1>3, <1>4, <2>1, <2>2
<1>6. /\ Max(T) \in T
      /\ \A i \in T : Max(T) >= i
  BY <1>5 DEF Max
<1> QED BY <1>6

\* Write's LastIndexByte: what follows the last newline is one line.
LEMMA LastNewline ==
    ASSUME NEW b \in Seq(Bytes)
    PROVE  /\ CompleteLines(b) \in 0..Len(b)
           /\ CompleteLines(b) > 0 => b[CompleteLines(b)] = Newline
           /\ \A i \in (CompleteLines(b) + 1)..Len(b) : b[i] # Newline
<1> DEFINE T == {0} \cup {i \in 1..Len(b) : b[i] = Newline}
<1>1. T \in SUBSET (0..Len(b)) /\ T # {} /\ Len(b) \in Nat
  BY LenProperties
<1>2. Max(T) \in T /\ \A i \in T : i <= Max(T)
  BY <1>1, MaxExists
<1>3. CompleteLines(b) = Max(T)
  BY DEF CompleteLines
<1> HIDE DEF CompleteLines
<1>4. \A i \in (CompleteLines(b) + 1)..Len(b) : b[i] # Newline
  <2> SUFFICES ASSUME NEW i \in (CompleteLines(b) + 1)..Len(b), b[i] = Newline
               PROVE  FALSE
    OBVIOUS
  <2>1. CompleteLines(b) \in 0..Len(b)
    BY <1>1, <1>2, <1>3
  <2>2. i \in T
    BY <1>1, <2>1
  <2> QED BY <1>1, <1>2, <1>3, <2>1, <2>2
<1> QED BY <1>1, <1>2, <1>3, <1>4

-----------------------------------------------------------------------------
(* The cap.                                                                *)

LEMMA PrefixProperties ==
    ASSUME NEW S, NEW s \in Seq(S), NEW n \in Nat
    PROVE  /\ Prefix(s, n) \in Seq(S)
           /\ Len(Prefix(s, n)) = IF n < Len(s) THEN n ELSE Len(s)
           /\ \A i \in 1..Len(Prefix(s, n)) : Prefix(s, n)[i] = s[i]
           /\ Len(s) <= n => Prefix(s, n) = s
<1> DEFINE m == IF n < Len(s) THEN n ELSE Len(s)
<1>1. Len(s) \in Nat /\ m \in 0..Len(s) /\ \A i \in 1..m : s[i] \in S
  BY LenProperties, ElementOfSeq
<1>2. Prefix(s, n) = SubSeq(s, 1, m)
  BY DEF Prefix
<1> HIDE DEF m
<1>3. /\ SubSeq(s, 1, m) \in Seq(S)
      /\ Len(SubSeq(s, 1, m)) = m
      /\ \A i \in 1..m : SubSeq(s, 1, m)[i] = s[i]
  <2>1. /\ SubSeq(s, 1, m) \in Seq(S)
        /\ Len(SubSeq(s, 1, m)) = IF 1 <= m THEN m - 1 + 1 ELSE 0
        /\ \A i \in 1..(m - 1 + 1) : SubSeq(s, 1, m)[i] = s[1 + i - 1]
    BY <1>1, SubSeqProperties
  <2> QED BY <1>1, <2>1
<1>4. Len(s) <= n => Prefix(s, n) = s
  BY <1>1, <1>2, SubSeqFull DEF m
<1> QED BY <1>1, <1>2, <1>3, <1>4 DEF m

\* Passing B to a cap that holds A, cut, is as good as cutting both at once.
LEMMA CapOfCut ==
    ASSUME NEW A \in Seq(Symbols), NEW B \in Seq(Symbols), B # <<>>
    PROVE  Cap(Cut(A), B) = Cut(A \o B)
<1> USE CaptureAssumption
<1>0. Len(A) \in Nat /\ Len(B) \in Nat \ {0} /\ MaxOutput \in Nat \ {0}
  BY EmptySeq, LenProperties
<1>1. /\ A \o B \in Seq(Symbols) /\ Len(A \o B) = Len(A) + Len(B)
      /\ \A i \in 1..(Len(A) + Len(B)) :
           (A \o B)[i] = IF i <= Len(A) THEN A[i] ELSE B[i - Len(A)]
  BY ConcatProperties
<1> DEFINE P == Prefix(A \o B, MaxOutput)
<1>2. /\ P \in Seq(Symbols)
      /\ Len(P) = IF MaxOutput < Len(A \o B) THEN MaxOutput ELSE Len(A \o B)
      /\ \A i \in 1..Len(P) : P[i] = (A \o B)[i]
  BY <1>0, <1>1, PrefixProperties
<1> DEFINE Q == Prefix(A, MaxOutput)
<1>3. /\ Q \in Seq(Symbols)
      /\ Len(Q) = IF MaxOutput < Len(A) THEN MaxOutput ELSE Len(A)
      /\ \A i \in 1..Len(Q) : Q[i] = A[i]
      /\ Len(A) <= MaxOutput => Q = A
  BY <1>0, PrefixProperties
<1> HIDE DEF P, Q
<1>4. CASE Len(A) >= MaxOutput
  <2>1. Len(P) = Len(Q) /\ \A i \in 1..Len(P) : P[i] = Q[i]
    BY <1>0, <1>1, <1>2, <1>3, <1>4
  <2>2. P = Q
    BY <1>2, <1>3, <2>1, SeqEqual
  <2>3. Cut(A).buf = Q /\ MaxOutput - Len(Q) <= 0
    BY <1>0, <1>3, <1>4 DEF Cut, Q
  <2>4. Cap(Cut(A), B) = [buf |-> Q, truncated |-> TRUE]
    BY <2>3 DEF Cap
  <2>5. (Len(A \o B) > MaxOutput) = TRUE
    BY <1>0, <1>1, <1>4
  <2>6. Cut(A \o B) = [buf |-> P, truncated |-> TRUE]
    BY <2>5, Zenon DEF Cut, P
  <2> QED BY <2>2, <2>4, <2>6
<1>5. CASE Len(A) < MaxOutput
  <2> DEFINE r == MaxOutput - Len(A)
             F == Prefix(B, r)
  <2>1. r \in Nat \ {0}
    BY <1>0, <1>5
  <2>2. /\ F \in Seq(Symbols)
        /\ Len(F) = IF r < Len(B) THEN r ELSE Len(B)
        /\ \A i \in 1..Len(F) : F[i] = B[i]
    BY <2>1, PrefixProperties
  <2>3. /\ A \o F \in Seq(Symbols) /\ Len(A \o F) = Len(A) + Len(F)
        /\ \A i \in 1..(Len(A) + Len(F)) :
             (A \o F)[i] = IF i <= Len(A) THEN A[i] ELSE F[i - Len(A)]
    BY <2>2, ConcatProperties
  <2>4. Cut(A) = [buf |-> A, truncated |-> FALSE]
    <3>1. (Len(A) > MaxOutput) = FALSE /\ Q = A
      BY <1>0, <1>3, <1>5
    <3> QED BY <3>1, Zenon DEF Cut, Q
  <2>5. Cap(Cut(A), B) = [buf |-> A \o F, truncated |-> Len(B) > r]
    BY <1>0, <2>1, <2>4 DEF Cap
  <2>6. Cut(A \o B) = [buf |-> P, truncated |-> Len(A) + Len(B) > MaxOutput]
    BY <1>1 DEF Cut, P
  <2> HIDE DEF F
  <2>7. Len(A \o F) = Len(P)
    BY <1>0, <1>1, <1>2, <1>5, <2>2, <2>3
  <2>8. \A i \in 1..Len(P) : P[i] = (A \o F)[i]
    <3> TAKE i \in 1..Len(P)
    <3>1. i \in 1..(Len(A) + Len(F)) /\ i \in 1..(Len(A) + Len(B))
      BY <1>0, <1>1, <1>2, <2>2, <2>3, <2>7
    <3>2. i > Len(A) => i - Len(A) \in 1..Len(F)
      BY <1>0, <2>2, <3>1
    <3> QED BY <1>1, <1>2, <2>2, <2>3, <3>1, <3>2
  <2>9. P = A \o F
    BY <1>2, <2>3, <2>7, <2>8, SeqEqual
  <2>10. (Len(B) > r) = (Len(A) + Len(B) > MaxOutput)
    BY <1>0
  <2> QED BY <2>5, <2>6, <2>9, <2>10, Zenon
<1> QED BY <1>0, <1>4, <1>5

LEMMA CapType ==
    ASSUME NEW c \in [buf : Seq(Symbols), truncated : BOOLEAN], Len(c.buf) <= MaxOutput,
           NEW b \in Seq(Symbols)
    PROVE  /\ Cap(c, b) \in [buf : Seq(Symbols), truncated : BOOLEAN]
           /\ Len(Cap(c, b).buf) <= MaxOutput
<1> USE CaptureAssumption
<1> DEFINE r == MaxOutput - Len(c.buf)
<1>0. c.buf \in Seq(Symbols) /\ Len(c.buf) \in Nat /\ Len(b) \in Nat
  BY LenProperties
<1>1. CASE c.truncated \/ r <= 0
  BY <1>0, <1>1 DEF Cap
<1>2. CASE ~(c.truncated \/ r <= 0)
  <2> DEFINE F == Prefix(b, r)
  <2>1. F \in Seq(Symbols) /\ Len(F) = IF r < Len(b) THEN r ELSE Len(b)
    BY <1>0, <1>2, PrefixProperties
  <2>2. Cap(c, b) = [buf |-> c.buf \o F, truncated |-> Len(b) > r]
    BY <1>2 DEF Cap
  <2> HIDE DEF F
  <2>3. c.buf \o F \in Seq(Symbols) /\ Len(c.buf \o F) = Len(c.buf) + Len(F)
    BY <1>0, <2>1, ConcatProperties
  <2> QED BY <1>0, <1>2, <2>1, <2>2, <2>3
<1> QED BY <1>1, <1>2

-----------------------------------------------------------------------------
(* Texts.                                                                  *)

LEMMA TextIsSeq ==
    \A b : b \in Texts <=> b \in Seq(Bytes) /\ Len(b) <= Limit
<1> USE CaptureAssumption
<1> TAKE b
<1>1. ASSUME b \in Texts PROVE b \in Seq(Bytes) /\ Len(b) <= Limit
  <2>1. PICK n \in 0..Limit : b \in [1..n -> Bytes]
    BY <1>1 DEF Texts
  <2>2. b \in Seq(Bytes) /\ Len(b) = n
    BY <2>1
  <2> QED BY <2>1, <2>2
<1>2. ASSUME b \in Seq(Bytes), Len(b) <= Limit PROVE b \in Texts
  <2>1. Len(b) \in 0..Limit /\ b \in [1..Len(b) -> Bytes]
    BY <1>2, LenProperties
  <2> QED BY <2>1 DEF Texts
<1> QED BY <1>1, <1>2

LEMMA RedactedType ==
    ASSUME NEW ps \in PatternLists \cup {NoPatterns}, NEW b \in Texts
    PROVE  /\ Redacted(ps, b) \in Seq(Symbols)
           /\ b # <<>> => Redacted(ps, b) # <<>>
<1> USE CaptureAssumption
<1>1. b \in Seq(Symbols)
  BY TextIsSeq, SeqMonotonic
<1>2. CASE b = <<>> \/ ps = NoPatterns
  BY <1>1, <1>2 DEF Redacted
<1>3. CASE b # <<>> /\ ps # NoPatterns
  BY <1>3 DEF Redacted
<1> QED BY <1>2, <1>3

\* The two parts of a concatenation.
LEMMA Parts ==
    ASSUME NEW S, NEW a \in Seq(S), NEW b \in Seq(S)
    PROVE  /\ a # <<>> => SubSeq(a \o b, 1, Len(a)) = a
           /\ b # <<>> => SubSeq(a \o b, Len(a) + 1, Len(a) + Len(b)) = b
<1>0. Len(a) \in Nat /\ Len(b) \in Nat
  BY LenProperties
<1>1. ASSUME a # <<>> PROVE SubSeq(a \o b, 1, Len(a)) = a
  <2>1. Len(a) \in Nat \ {0}
    BY <1>1, EmptySeq
  <2>2. SubSeq(a \o b, 1, Len(a)) = SubSeq(a, 1, Len(a))
    BY <2>1, SubSeqOfConcat1
  <2> QED BY <2>2, SubSeqFull
<1>2. ASSUME b # <<>> PROVE SubSeq(a \o b, Len(a) + 1, Len(a) + Len(b)) = b
  <2>1. Len(b) \in Nat \ {0}
    BY <1>2, EmptySeq
  <2>2. SubSeq(a \o b, Len(a) + 1, Len(a) + Len(b))
          = SubSeq(b, Len(a) + 1 - Len(a), Len(a) + Len(b) - Len(a))
    BY <1>0, <2>1, SubSeqOfConcat2
  <2>3. Len(a) + 1 - Len(a) = 1 /\ Len(a) + Len(b) - Len(a) = Len(b)
    BY <1>0
  <2> QED BY <2>2, <2>3, SubSeqFull
<1> QED BY <1>1, <1>2

\* Text that has come to the end of a line can be redacted by itself.
LEMMA RedactedApart ==
    ASSUME NEW ps \in Separable \cup {NoPatterns},
           NEW a \in Seq(Bytes), NEW b \in Seq(Bytes), a \o b \in Texts,
           ps = NoPatterns \/ a = <<>> \/ a[Len(a)] = Newline
    PROVE  Redacted(ps, a \o b) = Redacted(ps, a) \o Redacted(ps, b)
<1> USE CaptureAssumption
<1> DEFINE t == a \o b
<1>0. Len(a) \in Nat /\ Len(b) \in Nat
  BY LenProperties
<1>1. CASE a = <<>> \/ b = <<>> \/ ps = NoPatterns
  <2>1. ps \in PatternLists \cup {NoPatterns}
    BY DEF Separable
  <2>2. a \in Texts /\ b \in Texts
    <3>1. Len(t) = Len(a) + Len(b) /\ Len(t) <= Limit
      BY TextIsSeq, ConcatProperties
    <3>2. Len(a) <= Limit /\ Len(b) <= Limit
      BY <1>0, <3>1
    <3> QED BY <3>2, TextIsSeq
  <2>3. Redacted(ps, a) \in Seq(Symbols) /\ Redacted(ps, b) \in Seq(Symbols)
    BY <2>1, <2>2, RedactedType
  <2>4. Redacted(ps, <<>>) = <<>>
    BY DEF Redacted
  <2>5. CASE a = <<>>
    BY <2>3, <2>4, <2>5, ConcatEmptySeq
  <2>6. CASE b = <<>>
    BY <2>3, <2>4, <2>6, ConcatEmptySeq
  <2>7. CASE ps = NoPatterns
    BY <2>7 DEF Redacted
  <2> QED BY <1>1, <2>5, <2>6, <2>7
<1>2. CASE a # <<>> /\ b # <<>> /\ ps # NoPatterns
  <2>1. Len(a) \in Nat \ {0} /\ Len(b) \in Nat \ {0}
    BY <1>2, EmptySeq
  <2>2. Len(t) = Len(a) + Len(b) /\ t[Len(a)] = a[Len(a)] /\ t # <<>>
    BY <1>2, <2>1, ConcatProperties
  <2>3. Len(a) \in 1..(Len(t) - 1) /\ t[Len(a)] = Newline
    BY <1>2, <2>1, <2>2
  <2>4. Redact(ps, t) = Redact(ps, SubSeq(t, 1, Len(a))) \o Redact(ps, SubSeq(t, Len(a) + 1, Len(t)))
    BY <1>2, <2>3 DEF Separable
  <2>5. SubSeq(t, 1, Len(a)) = a /\ SubSeq(t, Len(a) + 1, Len(a) + Len(b)) = b
    BY <1>2, Parts
  <2>6. Redact(ps, t) = Redact(ps, a) \o Redact(ps, b)
    BY <2>2, <2>4, <2>5
  <2> QED BY <1>2, <2>2, <2>6 DEF Redacted
<1> QED BY <1>1, <1>2

LEMMA ShortBefore ==
    ASSUME NEW a \in Seq(Bytes), NEW b \in Seq(Bytes), ShortLines(a \o b)
    PROVE  ShortLines(a)
<1> USE CaptureAssumption
<1>0. Len(a) \in Nat /\ Len(b) \in Nat /\ Len(a \o b) = Len(a) + Len(b)
      /\ \A j \in 1..Len(a) : (a \o b)[j] = a[j]
  BY LenProperties, ConcatProperties
<1>1. SUFFICES ASSUME NEW i \in 0..(Len(a) - MaxOutput)
               PROVE  \E j \in (i + 1)..(i + MaxOutput) : a[j] = Newline
  BY DEF ShortLines
<1>2. i \in 0..(Len(a \o b) - MaxOutput)
  BY <1>0
<1>3. PICK j \in (i + 1)..(i + MaxOutput) : (a \o b)[j] = Newline
  BY <1>2 DEF ShortLines
<1>4. j \in 1..Len(a)
  BY <1>0
<1> QED BY <1>0, <1>3, <1>4

\* What is held of an output of short lines fits.
LEMMA ShortRest ==
    ASSUME NEW a \in Seq(Bytes), NEW b \in Seq(Bytes), ShortLines(a \o b),
           \A i \in 1..Len(b) : b[i] # Newline
    PROVE  Len(b) < MaxOutput
<1> USE CaptureAssumption
<1>0. Len(a) \in Nat /\ Len(b) \in Nat /\ Len(a \o b) = Len(a) + Len(b)
      /\ \A j \in (Len(a) + 1)..(Len(a) + Len(b)) : (a \o b)[j] = b[j - Len(a)]
  BY LenProperties, ConcatProperties
<1>1. SUFFICES ASSUME Len(b) >= MaxOutput PROVE FALSE
  BY <1>0
<1> DEFINE i == Len(a) + Len(b) - MaxOutput
<1>2. i \in 0..(Len(a \o b) - MaxOutput)
  BY <1>0, <1>1
<1>3. PICK j \in (i + 1)..(i + MaxOutput) : (a \o b)[j] = Newline
  BY <1>2 DEF ShortLines
<1>4. j \in (Len(a) + 1)..(Len(a) + Len(b)) /\ j - Len(a) \in 1..Len(b)
  BY <1>0, <1>1
<1> QED BY <1>0, <1>3, <1>4

LEMMA UntouchedBefore ==
    ASSUME NEW ps, NEW a \in Seq(Bytes), NEW b \in Seq(Bytes), Untouched(ps, a \o b)
    PROVE  Untouched(ps, a)
<1>0. Len(a) \in Nat /\ Len(b) \in Nat /\ Len(a \o b) = Len(a) + Len(b)
  BY LenProperties, ConcatProperties
<1>1. SUFFICES ASSUME NEW i \in 1..Len(a), NEW j \in i..Len(a)
               PROVE  Redacted(ps, SubSeq(a, i, j)) = SubSeq(a, i, j)
  BY DEF Untouched
<1>2. i \in 1..Len(a \o b) /\ j \in i..Len(a \o b) /\ j \in 1..Len(a)
  BY <1>0
<1>3. SubSeq(a \o b, i, j) = SubSeq(a, i, j)
  BY <1>2, SubSeqOfConcat1
<1> QED BY <1>2, <1>3 DEF Untouched

\* A part of a text that no pattern matches is what it is redacted to.
LEMMA UntouchedPart ==
    ASSUME NEW ps, NEW a \in Seq(Bytes), NEW b \in Seq(Bytes), Untouched(ps, a \o b)
    PROVE  Redacted(ps, b) = b
<1>0. Len(a) \in Nat /\ Len(b) \in Nat /\ Len(a \o b) = Len(a) + Len(b)
  BY LenProperties, ConcatProperties
<1>1. CASE b = <<>>
  BY <1>1 DEF Redacted
<1>2. CASE b # <<>>
  <2>1. Len(b) \in Nat \ {0}
    BY <1>2, EmptySeq
  <2>2. Len(a) + 1 \in 1..Len(a \o b) /\ Len(a) + Len(b) \in (Len(a) + 1)..Len(a \o b)
    BY <1>0, <2>1
  <2>3. Redacted(ps, SubSeq(a \o b, Len(a) + 1, Len(a) + Len(b)))
          = SubSeq(a \o b, Len(a) + 1, Len(a) + Len(b))
    BY <2>2 DEF Untouched
  <2>4. SubSeq(a \o b, Len(a) + 1, Len(a) + Len(b)) = b
    BY <1>2, Parts
  <2> QED BY <2>3, <2>4
<1> QED BY <1>1, <1>2

-----------------------------------------------------------------------------
(* The inductive invariant.                                                *)

Lists == PatternLists \cup {NoPatterns}

\* d is what was passed on.
Ahead(d) ==
    /\ said = d \o buf
    /\ (patterns # NoPatterns /\ ~closed /\ ShortLines(said)) =>
           d = <<>> \/ d[Len(d)] = Newline
    /\ (patterns \in Separable \cup {NoPatterns} /\ ShortLines(said)) =>
           cap = Cut(Redacted(patterns, d))
    /\ Untouched(patterns, said) => cap = Cut(d)

IInv ==
    /\ TypeOK /\ MemoryBounded
    /\ closed => buf = <<>>
    /\ \E d \in Seq(Bytes) : Ahead(d)

LEMMA PartsAreTexts ==
    ASSUME NEW a \in Seq(Bytes), NEW b \in Seq(Bytes), a \o b \in Texts
    PROVE  a \in Texts /\ b \in Texts
<1>1. /\ Len(a \o b) = Len(a) + Len(b) /\ Len(a \o b) <= Limit
      /\ Len(a) \in Nat /\ Len(b) \in Nat
  BY TextIsSeq, ConcatProperties, LenProperties
<1>2. Len(a) <= Limit /\ Len(b) <= Limit
  BY <1>1, CaptureAssumption
<1> QED BY <1>2, TextIsSeq

LEMMA PassType ==
    ASSUME patterns \in Lists,
           NEW c \in [buf : Seq(Symbols), truncated : BOOLEAN], Len(c.buf) <= MaxOutput,
           NEW b \in Texts
    PROVE  /\ Pass(c, b) \in [buf : Seq(Symbols), truncated : BOOLEAN]
           /\ Len(Pass(c, b).buf) <= MaxOutput
<1>1. Redacted(patterns, b) \in Seq(Symbols)
  BY RedactedType DEF Lists
<1>2. /\ Cap(c, Redacted(patterns, b)) \in [buf : Seq(Symbols), truncated : BOOLEAN]
      /\ Len(Cap(c, Redacted(patterns, b)).buf) <= MaxOutput
  BY <1>1, CapType
<1> QED BY <1>2 DEF Pass

\* One piece b more, behind the lines d that were passed on before.
LEMMA PassRedacted ==
    ASSUME patterns \in Separable \cup {NoPatterns},
           NEW d \in Seq(Bytes), NEW b \in Seq(Bytes), d \o b \in Texts,
           patterns = NoPatterns \/ d = <<>> \/ d[Len(d)] = Newline
    PROVE  Pass(Cut(Redacted(patterns, d)), b) = Cut(Redacted(patterns, d \o b))
<1> DEFINE R == Redacted(patterns, b)
           D == Redacted(patterns, d)
<1>1. CASE b = <<>>
  <2>1. d \o b = d
    BY <1>1, ConcatEmptySeq
  <2> QED BY <1>1, <2>1 DEF Pass
<1>2. CASE b # <<>>
  <2>1. d \in Texts /\ b \in Texts /\ patterns \in PatternLists \cup {NoPatterns}
    BY PartsAreTexts DEF Separable
  <2>2. R \in Seq(Symbols) /\ R # <<>> /\ D \in Seq(Symbols)
    BY <1>2, <2>1, RedactedType
  <2>3. Redacted(patterns, d \o b) = D \o R
    BY RedactedApart
  <2>4. Cap(Cut(D), R) = Cut(D \o R)
    BY <2>2, CapOfCut
  <2> QED BY <1>2, <2>3, <2>4 DEF Pass
<1> QED BY <1>1, <1>2

\* The same for a text that no pattern matches.
LEMMA PassUntouched ==
    ASSUME NEW d \in Seq(Bytes), NEW b \in Seq(Bytes), Redacted(patterns, b) = b
    PROVE  Pass(Cut(d), b) = Cut(d \o b)
<1>1. CASE b = <<>>
  <2>1. d \o b = d
    BY <1>1, ConcatEmptySeq
  <2> QED BY <1>1, <2>1 DEF Pass
<1>2. CASE b # <<>>
  <2>1. d \in Seq(Symbols) /\ b \in Seq(Symbols)
    BY CaptureAssumption, SeqMonotonic
  <2>2. Cap(Cut(d), b) = Cut(d \o b)
    BY <1>2, <2>1, CapOfCut
  <2> QED BY <1>2, <2>2 DEF Pass
<1> QED BY <1>1, <1>2

LEMMA EmptyCut ==
    /\ Cut(<<>>) = [buf |-> <<>>, truncated |-> FALSE]
    /\ \A ps : Redacted(ps, <<>>) = <<>>
<1> USE CaptureAssumption
<1>0. <<>> \in Seq(Bytes) /\ Len(<<>>) = 0
  BY EmptySeq
<1>1. Prefix(<<>>, MaxOutput) = <<>>
  <2>1. (IF MaxOutput < 0 THEN MaxOutput ELSE 0) = 0
    OBVIOUS
  <2> QED BY <1>0, <2>1, SubSeqEmpty DEF Prefix
<1>2. (Len(<<>>) > MaxOutput) = FALSE
  BY <1>0
<1>3. Cut(<<>>) = [buf |-> <<>>, truncated |-> FALSE]
  BY <1>1, <1>2, Zenon DEF Cut
<1> QED BY <1>3 DEF Redacted

LEMMA InitInv == Init => IInv
<1> USE CaptureAssumption
<1> SUFFICES ASSUME Init PROVE IInv
  OBVIOUS
<1>1. TypeOK
  <2>1. <<>> \in Seq(Bytes) /\ <<>> \in Seq(Symbols) /\ Len(<<>>) = 0
    BY EmptySeq
  <2>2. <<>> \in Texts
    <3>1. Len(<<>>) <= Limit
      BY <2>1
    <3> QED BY <2>1, <3>1, TextIsSeq, Zenon
  <2>3. \A i \in 1..Len(<<>>) : <<>>[i] # Newline
    BY <2>1
  <2>4. [buf |-> <<>>, truncated |-> FALSE] \in [buf : Seq(Symbols), truncated : BOOLEAN]
    BY <2>1
  <2> QED BY <2>1, <2>2, <2>3, <2>4 DEF Init, TypeOK
<1>2. MemoryBounded
  BY EmptySeq DEF Init, MemoryBounded
<1>3. <<>> \in Seq(Bytes) /\ Ahead(<<>>)
  <2>1. <<>> \in Seq(Bytes) /\ <<>> \o <<>> = <<>>
    BY EmptySeq, ConcatEmptySeq
  <2> QED BY <2>1, EmptyCut DEF Init, Ahead
<1> QED BY <1>1, <1>2, <1>3 DEF Init, IInv

LEMMA CopyInv ==
    ASSUME IInv, Copy
    PROVE  IInv'
<1> USE CaptureAssumption
<1>1. PICK p \in Chunks : Len(said) + Len(p) <= Limit /\ Write(p) /\ said' = said \o p
  BY DEF Copy
<1>2. ~closed /\ patterns' = patterns /\ closed' = FALSE /\ patterns \in Lists
  BY DEF Copy, IInv, TypeOK, Lists
<1>3. PICK d \in Seq(Bytes) : Ahead(d)
  BY DEF IInv
<1>4. /\ p \in Seq(Bytes) /\ p # <<>>
      /\ buf \in Seq(Bytes) /\ said \in Seq(Bytes) /\ said' \in Texts
      /\ said = d \o buf
  <2>1. PICK n \in 1..ChunkMax : p \in [1..n -> Bytes]
    BY DEF Chunks
  <2>2. p \in Seq(Bytes) /\ Len(p) = n
    BY <2>1
  <2>3. p # <<>>
    BY <2>2, EmptySeq
  <2>4. buf \in Seq(Bytes) /\ said \in Seq(Bytes)
    BY TextIsSeq DEF IInv, TypeOK
  <2>5. said \o p \in Seq(Bytes) /\ Len(said \o p) = Len(said) + Len(p)
    BY <2>2, <2>4, ConcatProperties
  <2> QED BY <1>1, <1>3, <2>2, <2>3, <2>4, <2>5, TextIsSeq DEF Ahead
<1>5. /\ ShortLines(said') => ShortLines(said)
      /\ Untouched(patterns, said') => Untouched(patterns, said)
  BY <1>1, <1>4, ShortBefore, UntouchedBefore
<1>6. cap \in [buf : Seq(Symbols), truncated : BOOLEAN] /\ Len(cap.buf) <= MaxOutput
  BY DEF IInv, TypeOK, MemoryBounded
<1> DEFINE held == buf \o p
           last == CompleteLines(held)
           lines   == SubSeq(held, 1, last)
           partial == SubSeq(held, last + 1, Len(held))
<1>7. /\ held \in Seq(Bytes) /\ d \o held = said'
      /\ lines \in Seq(Bytes) /\ partial \in Seq(Bytes) /\ held = lines \o partial
      /\ \A i \in 1..Len(partial) : partial[i] # Newline
      /\ lines = <<>> \/ lines[Len(lines)] = Newline
  <2>1. held \in Seq(Bytes) /\ Len(held) \in Nat
    BY <1>4, ConcatProperties, LenProperties
  <2>2. said' = d \o held
    BY <1>1, <1>3, <1>4, ConcatAssociative
  <2>3. /\ last \in 0..Len(held)
        /\ last > 0 => held[last] = Newline
        /\ \A i \in (last + 1)..Len(held) : held[i] # Newline
    BY <2>1, LastNewline
  <2> HIDE DEF held, last
  <2>4. \A i \in 1..Len(held) : held[i] \in Bytes
    BY <2>1, ElementOfSeq
  <2>5. lines \in Seq(Bytes) /\ Len(lines) = last /\ (\A i \in 1..last : lines[i] = held[i])
    <3>1. /\ SubSeq(held, 1, last) \in Seq(Bytes)
          /\ Len(SubSeq(held, 1, last)) = IF 1 <= last THEN last - 1 + 1 ELSE 0
          /\ \A i \in 1..(last - 1 + 1) : SubSeq(held, 1, last)[i] = held[1 + i - 1]
      BY <2>1, <2>3, <2>4, SubSeqProperties
    <3> QED BY <2>1, <2>3, <3>1
  <2>6. /\ partial \in Seq(Bytes) /\ Len(partial) = Len(held) - last
        /\ \A i \in 1..Len(partial) : partial[i] = held[last + i]
    <3> DEFINE n == Len(held)
               m == last + 1
    <3>1. /\ SubSeq(held, m, n) \in Seq(Bytes)
          /\ Len(SubSeq(held, m, n)) = IF m <= n THEN n - m + 1 ELSE 0
          /\ \A i \in 1..(n - m + 1) : SubSeq(held, m, n)[i] = held[m + i - 1]
      BY <2>1, <2>3, <2>4, SubSeqProperties
    <3> QED BY <2>1, <2>3, <3>1
  <2>7. held = lines \o partial
    <3>1. 1 \in 1..(Len(held) + 1) /\ last \in (1 - 1)..Len(held) /\ Len(held) \in last..Len(held)
      BY <2>1, <2>3
    <3>2. SubSeq(held, 1, last) \o SubSeq(held, last + 1, Len(held)) = SubSeq(held, 1, Len(held))
      BY <2>1, <3>1, ConcatAdjacentSubSeq
    <3> QED BY <2>1, <3>2, SubSeqFull
  <2> HIDE DEF lines, partial
  <2>8. \A i \in 1..Len(partial) : partial[i] # Newline
    BY <2>1, <2>3, <2>6
  <2>9. lines = <<>> \/ lines[Len(lines)] = Newline
    <3>1. CASE last = 0
      BY <2>5, <3>1, EmptySeq
    <3>2. CASE last > 0
      BY <2>1, <2>3, <2>5, <3>2
    <3> QED BY <2>1, <2>3, <3>1, <3>2
  <2> QED BY <2>1, <2>2, <2>5, <2>6, <2>7, <2>8, <2>9 DEF held
<1> HIDE DEF lines, partial
\* They are called L and rest, as constants that have no next value.
<1>7a. PICK L \in Seq(Bytes), rest \in Seq(Bytes) : L = lines /\ rest = partial
  BY <1>7
<1>7b. /\ d \o (L \o rest) = said'
       /\ \A i \in 1..Len(rest) : rest[i] # Newline
       /\ L = <<>> \/ L[Len(L)] = Newline
  BY <1>7, <1>7a
\* What makes the new state good.
<1> DEFINE Good(e) ==
             /\ buf' \in Seq(Bytes)
             /\ \A i \in 1..Len(buf') : buf'[i] # Newline
             /\ Len(buf') < MaxOutput
             /\ patterns = NoPatterns => buf' = <<>>
             /\ cap' \in [buf : Seq(Symbols), truncated : BOOLEAN]
             /\ Len(cap'.buf) <= MaxOutput
             /\ e \in Seq(Bytes) /\ Ahead(e)'
<1>8. ASSUME NEW e, Good(e) PROVE IInv'
  <2>1. TypeOK'
    BY <1>2, <1>4, <1>8 DEF TypeOK, Lists
  <2>2. MemoryBounded'
    BY <1>8 DEF MemoryBounded
  <2> QED BY <1>2, <1>8, <2>1, <2>2 DEF IInv
<1>9. CASE patterns = NoPatterns
  <2>1. buf = <<>> /\ buf' = <<>> /\ cap' = Cap(cap, p) /\ said = d
    <3>1. buf = <<>>
      BY <1>9 DEF IInv, TypeOK
    <3> QED BY <1>1, <1>4, <1>9, <3>1, ConcatEmptySeq DEF Write
  <2>2. cap' = Pass(cap, p) /\ d \o p = said' /\ Redacted(patterns, p) = p
    BY <1>1, <1>4, <1>9, <2>1 DEF Pass, Redacted
  <2>3. d \o p \in Texts /\ d \o p \in Seq(Bytes)
    BY <1>4, <2>2, TextIsSeq
  <2>4. /\ cap' \in [buf : Seq(Symbols), truncated : BOOLEAN]
        /\ Len(cap'.buf) <= MaxOutput
    BY <1>2, <1>4, <1>6, <2>2, <2>3, PartsAreTexts, PassType
  <2>5. Ahead(d \o p)'
    <3>1. said' = (d \o p) \o buf'
      BY <2>1, <2>2, <2>3, ConcatEmptySeq
    <3>2. ASSUME ShortLines(said') PROVE cap' = Cut(Redacted(patterns, d \o p))
      <4>1. cap = Cut(Redacted(patterns, d))
        BY <1>3, <1>5, <1>9, <3>2 DEF Ahead
      <4> QED BY <1>4, <1>9, <2>2, <2>3, <4>1, PassRedacted
    <3>3. ASSUME Untouched(patterns, said') PROVE cap' = Cut(d \o p)
      <4>1. cap = Cut(d)
        BY <1>3, <1>5, <3>3 DEF Ahead
      <4> QED BY <1>4, <2>2, <4>1, PassUntouched
    <3> QED BY <1>2, <1>9, <3>1, <3>2, <3>3 DEF Ahead
  <2>6. Len(buf') < MaxOutput /\ \A i \in 1..Len(buf') : buf'[i] # Newline
    BY <2>1, EmptySeq
  <2>7. Good(d \o p)
    BY <1>4, <2>1, <2>3, <2>4, <2>5, <2>6
  <2> QED BY <1>8, <2>7
\* The complete lines are passed on.
<1>10. ASSUME patterns # NoPatterns
       PROVE  LET c == Pass(cap, L)
                  e == d \o L
              IN  /\ c \in [buf : Seq(Symbols), truncated : BOOLEAN]
                  /\ Len(c.buf) <= MaxOutput
                  /\ e \in Seq(Bytes) /\ said' = e \o rest
                  /\ ShortLines(said') => e = <<>> \/ e[Len(e)] = Newline
                  /\ (patterns \in Separable \cup {NoPatterns} /\ ShortLines(said')) =>
                         c = Cut(Redacted(patterns, e))
                  /\ Untouched(patterns, said') => c = Cut(e)
  <2> DEFINE c == Pass(cap, L)
             e == d \o L
  <2>1. e \in Seq(Bytes) /\ said' = e \o rest /\ e \in Texts
    <3>1. e \in Seq(Bytes)
      BY <1>7b, ConcatProperties
    <3>2. (d \o L) \o rest = d \o (L \o rest)
      BY ConcatAssociative
    <3>3. said' = e \o rest
      BY <1>7b, <3>2
    <3> QED BY <1>4, <3>1, <3>3, PartsAreTexts
  <2>2. L \in Texts
    BY <1>7b, <2>1, PartsAreTexts
  <2>3. c \in [buf : Seq(Symbols), truncated : BOOLEAN] /\ Len(c.buf) <= MaxOutput
    BY <1>2, <1>6, <2>2, PassType
  <2>4. ASSUME ShortLines(said') PROVE d = <<>> \/ d[Len(d)] = Newline
    BY <1>2, <1>3, <1>5, <1>10, <2>4 DEF Ahead
  <2>5. ASSUME ShortLines(said') PROVE e = <<>> \/ e[Len(e)] = Newline
    <3>1. CASE L = <<>>
      <4>1. e = d
        BY <3>1, ConcatEmptySeq
      <4> QED BY <2>4, <2>5, <4>1
    <3>2. CASE L # <<>>
      <4>1. Len(d) \in Nat /\ Len(L) \in Nat \ {0}
        BY <1>7b, <3>2, EmptySeq, LenProperties
      <4>2. /\ Len(e) = Len(d) + Len(L)
            /\ \A i \in 1..(Len(d) + Len(L)) : e[i] = IF i <= Len(d) THEN d[i] ELSE L[i - Len(d)]
        BY <1>7b, ConcatProperties
      <4>3. e[Len(e)] = L[Len(L)]
        BY <4>1, <4>2
      <4> QED BY <1>7b, <3>2, <4>3
    <3> QED BY <3>1, <3>2
  <2>6. ASSUME patterns \in Separable \cup {NoPatterns}, ShortLines(said')
        PROVE  c = Cut(Redacted(patterns, e))
    <3>1. cap = Cut(Redacted(patterns, d))
      BY <1>3, <1>5, <2>6 DEF Ahead
    <3> QED BY <1>7b, <2>1, <2>4, <2>6, <3>1, PassRedacted
  <2>7. ASSUME Untouched(patterns, said') PROVE c = Cut(e)
    <3>1. cap = Cut(d)
      BY <1>3, <1>5, <2>7 DEF Ahead
    <3>2. Untouched(patterns, e)
      BY <2>1, <2>7, UntouchedBefore
    <3>3. Redacted(patterns, L) = L
      BY <3>2, UntouchedPart
    <3> QED BY <3>1, <3>3, PassUntouched
  <2> QED BY <2>1, <2>3, <2>5, <2>6, <2>7
<1>11. CASE patterns # NoPatterns /\ Len(rest) < MaxOutput
  <2>0. ~(Len(partial) >= MaxOutput)
    BY <1>7a, <1>11, LenProperties
  <2>1. cap' = Pass(cap, L) /\ buf' = rest
    BY <1>1, <1>7a, <1>11, <2>0 DEF Write, lines, partial
  <2>2. Ahead(d \o L)'
    BY <1>2, <1>10, <1>11, <2>1 DEF Ahead
  <2>3. Good(d \o L)
    BY <1>7b, <1>10, <1>11, <2>1, <2>2
  <2> QED BY <1>8, <2>3
\* The forced flush: with short lines it does not come to that.
<1>12. CASE patterns # NoPatterns /\ ~(Len(rest) < MaxOutput)
  <2> DEFINE c == Pass(cap, L)
             e == d \o L
  <2>1. cap' = Pass(c, rest) /\ buf' = <<>>
    BY <1>1, <1>7a, <1>7b, <1>12, LenProperties, CaptureAssumption DEF Write, lines, partial
  <2>2. ~ShortLines(said')
    BY <1>7b, <1>10, <1>12, ShortRest
  <2>3. said' = e \o rest /\ e \in Seq(Bytes) /\ rest \in Texts
    BY <1>4, <1>7b, <1>10, <1>12, PartsAreTexts
  <2>4. cap' \in [buf : Seq(Symbols), truncated : BOOLEAN] /\ Len(cap'.buf) <= MaxOutput
    BY <1>2, <1>10, <1>12, <2>1, <2>3, PassType
  <2>5. ASSUME Untouched(patterns, said') PROVE cap' = Cut(said')
    <3>1. c = Cut(e)
      BY <1>10, <1>12, <2>5
    <3>2. Redacted(patterns, rest) = rest
      BY <1>7b, <2>3, <2>5, UntouchedPart
    <3> QED BY <1>7b, <2>1, <2>3, <3>1, <3>2, PassUntouched
  <2>6. PICK s \in Seq(Bytes) : s = said' /\ said' = s \o buf'
    BY <1>4, <2>1, TextIsSeq, ConcatEmptySeq
  <2>7. Ahead(s)'
    BY <1>2, <2>2, <2>5, <2>6 DEF Ahead
  <2>8. Len(buf') < MaxOutput /\ \A i \in 1..Len(buf') : buf'[i] # Newline
    BY <2>1, EmptySeq
  <2>9. Good(s)
    BY <1>12, <2>1, <2>4, <2>6, <2>7, <2>8, EmptySeq
  <2> QED BY <1>8, <2>9
<1> QED BY <1>9, <1>11, <1>12

LEMMA CloseInv ==
    ASSUME IInv, Close
    PROVE  IInv'
<1> USE CaptureAssumption
<1>1. PICK d \in Seq(Bytes) : Ahead(d)
  BY DEF IInv
<1>2. /\ ~closed /\ closed' = TRUE /\ buf' = <<>> /\ cap' = Pass(cap, buf)
      /\ patterns' = patterns /\ said' = said /\ patterns \in Lists
  BY DEF Close, IInv, TypeOK, Lists
<1>3. PICK s \in Seq(Bytes), b \in Seq(Bytes) : s = said /\ b = buf /\ s \in Texts
  BY TextIsSeq DEF IInv, TypeOK
<1>4. s = d \o b /\ b \in Texts
  BY <1>1, <1>3, PartsAreTexts DEF Ahead
<1>5. /\ cap' \in [buf : Seq(Symbols), truncated : BOOLEAN]
      /\ Len(cap'.buf) <= MaxOutput
  <2>1. cap \in [buf : Seq(Symbols), truncated : BOOLEAN] /\ Len(cap.buf) <= MaxOutput
    BY DEF IInv, TypeOK, MemoryBounded
  <2> QED BY <1>2, <1>3, <1>4, <2>1, PassType
<1>6. ASSUME patterns \in Separable \cup {NoPatterns}, ShortLines(s)
      PROVE  cap' = Cut(Redacted(patterns, s))
  <2>1. cap = Cut(Redacted(patterns, d))
    BY <1>1, <1>3, <1>6 DEF Ahead
  <2>2. patterns = NoPatterns \/ d = <<>> \/ d[Len(d)] = Newline
    BY <1>1, <1>2, <1>3, <1>6 DEF Ahead
  <2>3. Pass(Cut(Redacted(patterns, d)), b) = Cut(Redacted(patterns, d \o b))
    BY <1>3, <1>4, <1>6, <2>2, PassRedacted
  <2> QED BY <1>2, <1>3, <1>4, <2>1, <2>3
<1>7. ASSUME Untouched(patterns, s)
      PROVE  cap' = Cut(s)
  <2>1. cap = Cut(d)
    BY <1>1, <1>3, <1>7 DEF Ahead
  <2>2. Redacted(patterns, b) = b
    BY <1>4, <1>7, UntouchedPart
  <2> QED BY <1>2, <1>3, <1>4, <2>1, <2>2, PassUntouched
<1>8. Ahead(s)'
  <2>1. said' = s \o buf'
    BY <1>2, <1>3, ConcatEmptySeq
  <2> QED BY <1>2, <1>3, <1>6, <1>7, <2>1 DEF Ahead
<1>9. <<>> \in Seq(Bytes) /\ Len(<<>>) = 0
  BY EmptySeq
<1>10. TypeOK'
  <2>1. /\ patterns' \in PatternLists \cup {NoPatterns} /\ said' \in Texts /\ closed' \in BOOLEAN
        /\ buf' \in Seq(Bytes) /\ (patterns' = NoPatterns => buf' = <<>>)
    BY <1>2, <1>3, <1>9 DEF Lists
  <2>2. \A i \in 1..Len(buf') : buf'[i] # Newline
    BY <1>2, <1>9
  <2> QED BY <1>5, <2>1, <2>2 DEF TypeOK
<1>11. MemoryBounded'
  BY <1>2, <1>5, <1>9 DEF MemoryBounded
<1> QED BY <1>2, <1>8, <1>10, <1>11 DEF IInv

\* The inductive invariant.
THEOREM Invariance == Spec => []IInv
<1>1. Init => IInv
  BY InitInv
<1>2. IInv /\ [Next]_vars => IInv'
  <2>1. ASSUME IInv, UNCHANGED vars PROVE IInv'
    BY <2>1 DEF vars, IInv, TypeOK, MemoryBounded, Ahead
  <2>2. ASSUME IInv, Over PROVE IInv'
    BY <2>1, <2>2 DEF Over
  <2> QED BY <2>1, <2>2, CopyInv, CloseInv DEF Next
<1> QED BY <1>1, <1>2, PTL DEF Spec

\* The types of the redactor's and the cap's state; what is held is a line.
THEOREM TypeCorrect == Spec => []TypeOK
<1>1. IInv => TypeOK
  BY DEF IInv
<1> QED BY <1>1, Invariance, PTL

\* Neither buffer outgrows max_output_bytes, whatever the command writes.
THEOREM Bounded == Spec => []MemoryBounded
<1>1. IInv => MemoryBounded
  BY DEF IInv
<1> QED BY <1>1, Invariance, PTL

\* For every list of single-line patterns and every chunking, the capture of
\* an output of short lines is its redaction, cut.
THEOREM Redacts == Spec => []RedactedThenCut
<1>1. ASSUME IInv PROVE RedactedThenCut
  <2>1. SUFFICES ASSUME closed, patterns \in Separable \cup {NoPatterns}, ShortLines(said)
                 PROVE  cap = Cut(Redacted(patterns, said))
    BY DEF RedactedThenCut
  <2>2. PICK d \in Seq(Bytes) : Ahead(d)
    BY <1>1 DEF IInv
  <2>3. said = d
    BY <1>1, <2>1, <2>2, ConcatEmptySeq DEF IInv, Ahead
  <2> QED BY <2>1, <2>2, <2>3 DEF Ahead
<1> QED BY <1>1, Invariance, PTL

\* Nothing the patterns leave alone is lost without the truncation mark.
THEOREM Complete == Spec => []NothingLost
<1> USE CaptureAssumption
<1>1. ASSUME IInv PROVE NothingLost
  <2>1. SUFFICES ASSUME Untouched(patterns, said)
                 PROVE  IF cap.truncated
                        THEN cap.buf = Prefix(said, MaxOutput) /\ Len(said) > MaxOutput
                        ELSE cap.buf \o buf = said
    BY DEF NothingLost
  <2>2. PICK d \in Seq(Bytes) : Ahead(d)
    BY <1>1 DEF IInv
  <2>3. buf \in Seq(Bytes) /\ said = d \o buf /\ cap = Cut(d)
    BY <1>1, <2>1, <2>2 DEF IInv, TypeOK, Ahead
  <2>4. Len(d) \in Nat /\ Len(buf) \in Nat /\ Len(said) = Len(d) + Len(buf)
        /\ said \in Seq(Bytes)
    BY <2>3, LenProperties, ConcatProperties
  <2>5. cap.buf = Prefix(d, MaxOutput) /\ (cap.truncated <=> Len(d) > MaxOutput)
    BY <2>3 DEF Cut
  <2>6. CASE Len(d) > MaxOutput
    <3> DEFINE P == Prefix(d, MaxOutput)
               Q == Prefix(said, MaxOutput)
    <3>1. /\ P \in Seq(Bytes) /\ Len(P) = MaxOutput
          /\ \A i \in 1..MaxOutput : P[i] = d[i]
      BY <2>4, <2>6, PrefixProperties
    <3>2. /\ Q \in Seq(Bytes) /\ Len(Q) = MaxOutput
          /\ \A i \in 1..MaxOutput : Q[i] = said[i]
      BY <2>4, <2>6, PrefixProperties
    <3>3. \A i \in 1..MaxOutput : said[i] = d[i]
      BY <2>3, <2>4, <2>6, ConcatProperties
    <3> HIDE DEF P, Q
    <3>4. P = Q
      BY <3>1, <3>2, <3>3, SeqEqual
    <3> QED BY <2>4, <2>5, <2>6, <3>4 DEF P, Q
  <2>7. CASE Len(d) <= MaxOutput
    <3>1. cap.buf = d /\ ~cap.truncated
      BY <2>4, <2>5, <2>7, PrefixProperties
    <3> QED BY <2>3, <3>1
  <2> QED BY <2>4, <2>6, <2>7
<1> QED BY <1>1, Invariance, PTL

=============================================================================
