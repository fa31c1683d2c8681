------------------------- MODULE CommandLineProofs --------------------------
(***************************************************************************)
(* Lemmas about CommandLine, for arguments of any length: if the flags     *)
(* parse, what stands behind the agent's own separator is what it looks    *)
(* for its command in.                                                     *)
(***************************************************************************)
EXTENDS CommandLine, SequenceTheorems, WellFoundedInduction, TLAPS

-----------------------------------------------------------------------------
(* The least element of a set of indexes.                                  *)

\* A set of numbers that is not empty has a least element.
LEMMA MinExists ==
    ASSUME NEW T \in SUBSET Nat, T # {}
    PROVE  Min(T) \in T /\ \A i \in T : Min(T) <= i
<1> DEFINE R == OpToRel(<, Nat)
<1>1. IsWellFoundedOn(R, Nat)
  BY NatLessThanWellFounded
<1>2. \A x, y \in Nat : <<y, x>> \in R <=> y < x
  BY DEF OpToRel
<1> HIDE DEF R
<1>3. PICK x \in T : \A y \in T : ~(<<y, x>> \in R)
  BY <1>1, WFMin
<1>4. \A y \in T : x <= y
  <2> TAKE y \in T
  <2>1. x \in Nat /\ y \in Nat /\ ~(y < x)
    BY <1>2, <1>3
  <2> QED BY <2>1
<1> QED BY <1>4 DEF Min

\* The first index: everything before it is outside.
LEMMA MinIs ==
    ASSUME NEW T \in SUBSET Nat, NEW x \in T, \A i \in T : x <= i
    PROVE  Min(T) = x
<1>1. Min(T) \in T /\ \A i \in T : Min(T) <= i
  BY MinExists
<1>2. Min(T) <= x /\ x <= Min(T) /\ Min(T) \in Nat /\ x \in Nat
  BY <1>1
<1> QED BY <1>2

-----------------------------------------------------------------------------
(* Arguments as a head without a separator, the separator, and a rest.     *)

\* x is u, the separator, and v.
Splits(x, S, u, v) ==
    /\ x \in Seq(S) /\ Len(x) = Len(u) + 1 + Len(v)
    /\ \A i \in 1..Len(u) : x[i] = u[i]
    /\ x[Len(u) + 1] = Separator
    /\ \A i \in 1..Len(v) : x[Len(u) + 1 + i] = v[i]
    /\ After(x, Len(u) + 1) = v

\* A separator between two sequences splits them.
LEMMA Around ==
    ASSUME NEW S, Separator \in S, NEW u \in Seq(S), NEW v \in Seq(S)
    PROVE  Splits(u \o <<Separator>> \o v, S, u, v)
<1> DEFINE s == <<Separator>>
           h == u \o s
           a == h \o v
<1>1. /\ Len(u) \in Nat /\ Len(v) \in Nat
      /\ s \in Seq(S) /\ Len(s) = 1 /\ s[1] = Separator
  BY LenProperties
<1> HIDE DEF s
<1>2. /\ h \in Seq(S) /\ Len(h) = Len(u) + 1
      /\ \A i \in 1..Len(u) : h[i] = u[i]
      /\ h[Len(u) + 1] = Separator
  <2>1. /\ h \in Seq(S) /\ Len(h) = Len(u) + Len(s)
        /\ \A i \in 1..(Len(u) + Len(s)) :
             h[i] = IF i <= Len(u) THEN u[i] ELSE s[i - Len(u)]
    BY <1>1, ConcatProperties
  <2> QED BY <1>1, <2>1
<1> HIDE DEF h
<1>3. /\ a \in Seq(S) /\ Len(a) = Len(u) + 1 + Len(v)
      /\ \A i \in 1..Len(a) : a[i] = IF i <= Len(u) + 1 THEN h[i] ELSE v[i - (Len(u) + 1)]
  <2>1. /\ a \in Seq(S) /\ Len(a) = Len(h) + Len(v)
        /\ \A i \in 1..(Len(h) + Len(v)) : a[i] = IF i <= Len(h) THEN h[i] ELSE v[i - Len(h)]
    BY <1>2, ConcatProperties
  <2> QED BY <1>2, <2>1
<1> HIDE DEF a
<1>4. \A i \in 1..Len(u) : a[i] = u[i]
  BY <1>1, <1>2, <1>3
<1>5. a[Len(u) + 1] = Separator
  BY <1>1, <1>2, <1>3
<1>6. \A i \in 1..Len(v) : a[Len(u) + 1 + i] = v[i]
  <2> TAKE i \in 1..Len(v)
  <2>1. /\ Len(u) + 1 + i \in 1..Len(a) /\ ~(Len(u) + 1 + i <= Len(u) + 1)
        /\ Len(u) + 1 + i - (Len(u) + 1) = i
    BY <1>1, <1>3
  <2> QED BY <1>3, <2>1
<1>7. After(a, Len(u) + 1) = v
  <2> DEFINE w == SubSeq(a, Len(u) + 2, Len(a))
  <2>1. \A i \in (Len(u) + 2)..Len(a) : a[i] \in S
    BY <1>1, <1>3, ElementOfSeq
  <2>2. /\ w \in Seq(S)
        /\ Len(w) = IF Len(u) + 2 <= Len(a) THEN Len(a) - (Len(u) + 2) + 1 ELSE 0
        /\ \A i \in 1..(Len(a) - (Len(u) + 2) + 1) : w[i] = a[Len(u) + 2 + i - 1]
    BY <1>1, <1>3, <2>1, SubSeqProperties
  <2> HIDE DEF w
  <2>3. Len(w) = Len(v)
    BY <1>1, <1>3, <2>2
  <2>4. \A i \in 1..Len(w) : w[i] = v[i]
    <3> TAKE i \in 1..Len(w)
    <3>1. /\ i \in 1..(Len(a) - (Len(u) + 2) + 1) /\ i \in 1..Len(v)
          /\ Len(u) + 2 + i - 1 = Len(u) + 1 + i
      BY <1>1, <1>3, <2>3
    <3> QED BY <1>6, <2>2, <3>1
  <2>5. w = v
    BY <2>2, <2>3, <2>4, SeqEqual
  <2>6. After(a, Len(u) + 1) = w
    BY <1>1, <1>3 DEF After, w
  <2> QED BY <2>5, <2>6
<1> QED BY <1>3, <1>4, <1>5, <1>6, <1>7 DEF a, h, s, Splits

Without(a, x) == \A i \in 1..Len(a) : a[i] # x

\* What is in neither part is not in the whole.
LEMMA ConcatWithout ==
    ASSUME NEW S, NEW a \in Seq(S), NEW b \in Seq(S), NEW x, Without(a, x), Without(b, x)
    PROVE  a \o b \in Seq(S) /\ Without(a \o b, x)
<1> DEFINE ab == a \o b
<1>1. /\ ab \in Seq(S) /\ Len(ab) = Len(a) + Len(b)
      /\ \A i \in 1..Len(a) + Len(b) : ab[i] = IF i <= Len(a) THEN a[i] ELSE b[i - Len(a)]
  BY ConcatProperties
<1>2. Len(a) \in Nat /\ Len(b) \in Nat
  BY LenProperties
<1> HIDE DEF ab
<1>3. ASSUME NEW i \in 1..(Len(a) + Len(b)) PROVE ab[i] # x
  <2>1. i \in Int
    OBVIOUS
  <2>2. CASE i <= Len(a)
    BY <1>1, <1>2, <2>2 DEF Without
  <2>3. CASE i > Len(a)
    <3>1. i - Len(a) \in 1..Len(b) /\ ~(i <= Len(a))
      BY <1>2, <2>3
    <3> QED BY <1>1, <3>1 DEF Without
  <2> QED BY <1>2, <2>1, <2>2, <2>3
<1> QED BY <1>1, <1>3 DEF Without, ab

\* What has a separator is split by its first.
LEMMA FirstSeparator ==
    ASSUME NEW S, Separator \in S, NEW a \in Seq(S), ~Without(a, Separator)
    PROVE  \E u, v \in Seq(S) : Without(u, Separator) /\ a = u \o <<Separator>> \o v
<1> DEFINE I == {i \in 1..Len(a) : a[i] = Separator}
           k == Min(I)
           u == SubSeq(a, 1, k - 1)
           v == SubSeq(a, k + 1, Len(a))
           b == u \o <<Separator>> \o v
<1>1. Len(a) \in Nat /\ \A i \in 1..Len(a) : a[i] \in S
  BY LenProperties, ElementOfSeq
<1>2. k \in I /\ \A i \in I : k <= i
  <2>1. I \in SUBSET Nat /\ I # {}
    BY <1>1 DEF Without
  <2> HIDE DEF I
  <2> QED BY <2>1, MinExists
<1> HIDE DEF k
<1>3. /\ k \in 1..Len(a) /\ a[k] = Separator
      /\ \A i \in 1..(k - 1) : a[i] # Separator
  <2>1. ASSUME NEW i \in 1..(k - 1) PROVE a[i] # Separator
    <3>1. k \in 1..Len(a)
      BY <1>2
    <3>2. i \in 1..Len(a) /\ ~(k <= i)
      BY <1>1, <3>1
    <3> QED BY <1>2, <3>2
  <2> QED BY <1>2, <2>1
<1> HIDE DEF I
<1>4. /\ u \in Seq(S) /\ Len(u) = k - 1
      /\ \A i \in 1..(k - 1) : u[i] = a[i]
  <2>1. \A i \in 1..(k - 1) : a[i] \in S
    BY <1>1, <1>3
  <2> QED BY <1>1, <1>3, <2>1, SubSeqProperties
<1>5. /\ v \in Seq(S) /\ Len(v) = Len(a) - k
      /\ \A i \in 1..(Len(a) - k) : v[i] = a[k + i]
  <2>1. \A i \in (k + 1)..Len(a) : a[i] \in S
    BY <1>1, <1>3
  <2>2. /\ v \in Seq(S)
        /\ Len(v) = IF k + 1 <= Len(a) THEN Len(a) - (k + 1) + 1 ELSE 0
        /\ \A i \in 1..(Len(a) - (k + 1) + 1) : v[i] = a[k + 1 + i - 1]
    BY <1>1, <1>3, <2>1, SubSeqProperties
  <2> HIDE DEF v
  <2>3. Len(v) = Len(a) - k
    BY <1>1, <1>3, <2>2
  <2>4. ASSUME NEW i \in 1..(Len(a) - k) PROVE v[i] = a[k + i]
    <3>1. i \in 1..(Len(a) - (k + 1) + 1) /\ k + 1 + i - 1 = k + i
      BY <1>1, <1>3
    <3> QED BY <2>2, <3>1
  <2> QED BY <2>2, <2>3, <2>4
<1> HIDE DEF u, v
<1>6. Splits(b, S, u, v)
  BY <1>4, <1>5, Around
<1> HIDE DEF b
<1>7. Len(b) = Len(a)
  BY <1>1, <1>3, <1>4, <1>5, <1>6 DEF Splits
<1>8. ASSUME NEW i \in 1..Len(b) PROVE b[i] = a[i]
  <2>1. i \in 1..(k - 1) \/ i = k \/ i - k \in 1..(Len(a) - k)
    BY <1>1, <1>3, <1>7
  <2>2. CASE i \in 1..(k - 1)
    BY <1>3, <1>4, <1>6, <2>2 DEF Splits
  <2>3. CASE i = k
    <3>1. Len(u) + 1 = k
      BY <1>3, <1>4
    <3> QED BY <1>3, <1>6, <2>3, <3>1 DEF Splits
  <2>4. CASE i - k \in 1..(Len(a) - k)
    <3>1. /\ i - k \in 1..Len(v) /\ Len(u) + 1 + (i - k) = i /\ k + (i - k) = i
      BY <1>1, <1>3, <1>4, <1>5, <2>4
    <3> QED BY <1>5, <1>6, <2>4, <3>1 DEF Splits
  <2> QED BY <2>1, <2>2, <2>3, <2>4
<1>9. b = a
  BY <1>6, <1>7, <1>8, SeqEqual DEF Splits
<1>10. Without(u, Separator)
  BY <1>3, <1>4 DEF Without
<1> QED BY <1>4, <1>5, <1>9, <1>10 DEF b

\* findCommandArgs with a separator.
LEMMA FindBehind ==
    ASSUME NEW S, Separator \in S, NEW u \in Seq(S), NEW v \in Seq(S), Without(u, Separator)
    PROVE  FindCommandArgs(u \o <<Separator>> \o v) = v
<1> DEFINE a == u \o <<Separator>> \o v
           I == {i \in 1..Len(a) : a[i] = Separator}
<1>1. /\ a \in Seq(S) /\ Len(a) = Len(u) + 1 + Len(v)
      /\ \A i \in 1..Len(u) : a[i] = u[i]
      /\ a[Len(u) + 1] = Separator /\ After(a, Len(u) + 1) = v
      /\ Len(u) \in Nat /\ Len(v) \in Nat
  BY Around, LenProperties DEF Splits
<1>2. FindCommandArgs(a) = IF (IF I # {} THEN Min(I) ELSE 0) = 0 THEN a
                           ELSE After(a, IF I # {} THEN Min(I) ELSE 0)
  BY DEF FindCommandArgs, SelectInSeq
<1> HIDE DEF a
<1>3. I \in SUBSET Nat /\ Len(u) + 1 \in I
  BY <1>1
<1>4. \A i \in I : Len(u) + 1 <= i
  BY <1>1 DEF Without
<1>5. I # {} /\ Min(I) = Len(u) + 1
  BY <1>3, <1>4, MinIs
<1> HIDE DEF I
<1>6. FindCommandArgs(a) = v
  BY <1>1, <1>2, <1>5
<1> QED BY <1>6 DEF a

\* findCommandArgs without one.
LEMMA FindNone ==
    ASSUME NEW S, NEW a \in Seq(S), Without(a, Separator)
    PROVE  FindCommandArgs(a) = a
BY DEF FindCommandArgs, SelectInSeq, Without

\* The FlagSet takes flags from the front; what is left has the same command
\* behind its first separator.
LEMMA FlagsOff ==
    ASSUME NEW S, Separator \in S, NEW u \in Seq(S), NEW v \in Seq(S),
           Without(u, Separator), Without(v, Separator)
    PROVE  FindCommandArgs(FlagArgs(u \o <<Separator>> \o v)) = v
<1> DEFINE a == u \o <<Separator>> \o v
           I == {i \in 1..Len(a) : a[i] \notin Flags}
           first == Min(I)
<1>1. /\ a \in Seq(S) /\ Len(a) = Len(u) + 1 + Len(v)
      /\ \A i \in 1..Len(u) : a[i] = u[i]
      /\ \A i \in 1..Len(v) : a[Len(u) + 1 + i] = v[i]
      /\ a[Len(u) + 1] = Separator /\ After(a, Len(u) + 1) = v
      /\ Len(u) \in Nat /\ Len(v) \in Nat
  BY Around, LenProperties DEF Splits
<1>2. Separator \notin Flags
  BY DEF Separator, Flags
<1> HIDE DEF a
<1>3. I # {} /\ first # 0 =>
        FlagArgs(a) = IF a[first] = Separator THEN After(a, first)
                      ELSE After(a, first - 1)
  <2>1. CASE a[first] = Separator
    BY <2>1 DEF FlagArgs, SelectInSeq
  <2>2. CASE a[first] # Separator
    BY <2>2 DEF FlagArgs, SelectInSeq
  <2> QED BY <2>1, <2>2
<1>4. I \in SUBSET Nat /\ Len(u) + 1 \in I
  BY <1>1, <1>2
<1>5. first \in I /\ first <= Len(u) + 1
  BY <1>4, MinExists
<1>6. first \in 1..(Len(u) + 1) /\ (a[first] = Separator => first = Len(u) + 1)
  <2>1. first \in 1..(Len(u) + 1)
    BY <1>1, <1>5
  <2>2. CASE first \in 1..Len(u)
    BY <1>1, <2>1, <2>2 DEF Without
  <2>3. CASE first = Len(u) + 1
    BY <2>1, <2>3
  <2> QED BY <1>1, <2>1, <2>2, <2>3
<1> HIDE DEF first, I
<1>7. CASE a[first] = Separator
  <2>1. FlagArgs(a) = v
    BY <1>1, <1>3, <1>4, <1>6, <1>7
  <2> QED BY <2>1, FindNone DEF a
<1>8. CASE a[first] # Separator
  <2> DEFINE w == SubSeq(u, first, Len(u))
  <2>1. first \in 1..Len(u) /\ FlagArgs(a) = After(a, first - 1)
    <3>1. first # Len(u) + 1
      BY <1>1, <1>8
    <3>2. first \in 1..Len(u) /\ first # 0
      BY <1>1, <1>6, <3>1
    <3> QED BY <1>3, <1>4, <1>8, <3>2
  <2>2. /\ w \in Seq(S) /\ Len(w) = Len(u) - first + 1
        /\ \A i \in 1..(Len(u) - first + 1) : w[i] = u[first + i - 1]
    <3>1. \A i \in first..Len(u) : u[i] \in S
      BY <1>1, <2>1, ElementOfSeq
    <3> QED BY <1>1, <2>1, <3>1, SubSeqProperties
  <2> HIDE DEF w
  <2>3. Without(w, Separator)
    <3> SUFFICES ASSUME NEW i \in 1..Len(w) PROVE w[i] # Separator
      BY DEF Without
    <3>1. i \in 1..(Len(u) - first + 1) /\ first + i - 1 \in 1..Len(u)
      BY <1>1, <2>1, <2>2
    <3> QED BY <2>2, <3>1 DEF Without
  <2>4. After(a, first - 1) = w \o <<Separator>> \o v
    <3> DEFINE t == SubSeq(a, first, Len(a))
               x == w \o <<Separator>> \o v
    <3>1. Splits(x, S, w, v)
      BY <2>2, Around
    <3> HIDE DEF x
    <3>2. /\ t \in Seq(S) /\ Len(t) = Len(a) - first + 1
          /\ \A i \in 1..(Len(a) - first + 1) : t[i] = a[first + i - 1]
      <4>1. \A i \in first..Len(a) : a[i] \in S
        BY <1>1, <2>1, ElementOfSeq
      <4> QED BY <1>1, <2>1, <4>1, SubSeqProperties
    <3> HIDE DEF t
    <3>3. Len(t) = Len(x)
      BY <1>1, <2>1, <2>2, <3>1, <3>2 DEF Splits
    <3>4. ASSUME NEW i \in 1..Len(x) PROVE t[i] = x[i]
      <4>1. t[i] = a[first + i - 1]
        BY <3>1, <3>2, <3>3 DEF Splits
      <4>2. CASE i \in 1..Len(w)
        <5>1. i \in 1..(Len(u) - first + 1) /\ first + i - 1 \in 1..Len(u)
          BY <1>1, <2>1, <2>2, <4>2
        <5> QED BY <1>1, <2>2, <3>1, <4>1, <4>2, <5>1 DEF Splits
      <4>3. CASE i = Len(w) + 1
        <5>1. first + i - 1 = Len(u) + 1
          BY <1>1, <2>1, <2>2, <4>3
        <5> QED BY <1>1, <3>1, <4>1, <4>3, <5>1 DEF Splits
      <4>4. CASE i > Len(w) + 1
        <5> DEFINE k == i - (Len(w) + 1)
        <5>1. /\ k \in 1..Len(v) /\ i = Len(w) + 1 + k
              /\ first + i - 1 = Len(u) + 1 + k
          BY <1>1, <2>1, <2>2, <3>1, <4>4 DEF Splits
        <5> QED BY <1>1, <3>1, <4>1, <5>1 DEF Splits
      <4>5. i \in 1..Len(w) \/ i = Len(w) + 1 \/ i > Len(w) + 1
        <5>1. Len(w) \in Nat /\ Len(v) \in Nat /\ Len(x) = Len(w) + 1 + Len(v)
          BY <1>1, <2>1, <2>2, <3>1 DEF Splits
        <5> QED BY <5>1
      <4> QED BY <4>2, <4>3, <4>4, <4>5
    <3>5. t = x
      BY <3>1, <3>2, <3>3, <3>4, SeqEqual DEF Splits
    <3>6. After(a, first - 1) = t
      BY <1>1, <2>1 DEF After, t
    <3> QED BY <3>5, <3>6 DEF x
  <2> QED BY <2>1, <2>2, <2>3, <2>4, FindBehind DEF a
<1> QED BY <1>7, <1>8

\* If all that stands before the separator are exec's flags, they parse, and
\* what is left is what follows it.
LEMMA OnlyFlags ==
    ASSUME NEW S, Separator \in S, NEW u \in Seq(S), NEW v \in Seq(S),
           \A i \in 1..Len(u) : u[i] \in Flags
    PROVE  /\ Parses(u \o <<Separator>> \o v)
           /\ FlagArgs(u \o <<Separator>> \o v) = v
<1> DEFINE a == u \o <<Separator>> \o v
           I == {i \in 1..Len(a) : a[i] \notin Flags}
           first == IF I # {} THEN Min(I) ELSE 0
<1>1. /\ a \in Seq(S) /\ Len(a) = Len(u) + 1 + Len(v)
      /\ \A i \in 1..Len(u) : a[i] = u[i]
      /\ a[Len(u) + 1] = Separator /\ After(a, Len(u) + 1) = v
      /\ Len(u) \in Nat /\ Len(v) \in Nat
  BY Around, LenProperties DEF Splits
<1>2. Separator \notin Flags
  BY DEF Separator, Flags
<1> HIDE DEF a
<1>3. I \in SUBSET Nat /\ Len(u) + 1 \in I /\ \A i \in I : Len(u) + 1 <= i
  BY <1>1, <1>2
<1>4. I # {} /\ Min(I) = Len(u) + 1
  BY <1>3, MinIs
<1>5. first = Len(u) + 1 /\ first # 0
  BY <1>1, <1>4
<1>6. /\ Parses(a) <=> first = 0 \/ a[first] = Separator \/ a[first] \notin Dashed
      /\ FlagArgs(a) = CASE first = 0 -> <<>>
                         [] a[first] = Separator -> After(a, first)
                         [] OTHER -> After(a, first - 1)
  BY DEF Parses, FlagArgs, SelectInSeq
<1> HIDE DEF first, I
<1>7. Parses(a) /\ FlagArgs(a) = After(a, first)
  BY <1>1, <1>5, <1>6
<1> QED BY <1>1, <1>5, <1>7 DEF a

\* With the subcommand in front, extractConfigFlag takes nothing away.  If the
\* words before the separator do not parse, the agent ends in package flag and
\* runs nothing; if they do, it runs what follows the separator, so that a flag
\* that the command has in common with the agent is the command's.  Behind
\* nothing but exec's flags, it runs what findCommandArgs makes of what follows.
THEOREM RunsTheCommand ==
    ASSUME NEW S, {Separator, "exec"} \subseteq S, NEW u \in Seq(S), NEW v \in Seq(S)
    PROVE  LET rest    == u \o <<Separator>> \o v
               command == AgentCommand(<<"exec">> \o rest)
           IN  /\ Without(u, Separator) /\ Without(v, Separator) =>
                    command = IF Parses(rest) THEN v ELSE <<>>
               /\ (\A i \in 1..Len(u) : u[i] \in Flags) => command = FindCommandArgs(v)
<1> DEFINE r == u \o <<Separator>> \o v
           a == <<"exec">> \o r
           J == {i \in 1..Len(a) : a[i] \in Subcommands \cup {Separator, "--config", "--config="}}
<1>1. r \in Seq(S) /\ Len(r) \in Nat
  BY Around, LenProperties DEF Splits
<1> HIDE DEF r
<1>2. /\ a \in Seq(S) /\ Len(a) = 1 + Len(r) /\ a[1] = "exec"
      /\ a # <<>> /\ Tail(a) = r
  BY <1>1
<1> HIDE DEF a
<1>3. J \in SUBSET Nat /\ 1 \in J /\ \A i \in J : 1 <= i
  BY <1>1, <1>2 DEF Subcommands
<1>4. J # {} /\ Min(J) = 1
  BY <1>3, MinIs
<1>5. ExtractConfigFlag(a) = a
  BY <1>2, <1>4 DEF ExtractConfigFlag, SelectInSeq
<1>6. AgentCommand(a) = IF Parses(r) THEN FindCommandArgs(FlagArgs(r)) ELSE <<>>
  BY <1>2, <1>5 DEF AgentCommand
<1>7. Without(u, Separator) /\ Without(v, Separator) => FindCommandArgs(FlagArgs(r)) = v
  BY FlagsOff DEF r
<1>8. (\A i \in 1..Len(u) : u[i] \in Flags) => Parses(r) /\ FlagArgs(r) = v
  BY OnlyFlags DEF r
<1>9. /\ Without(u, Separator) /\ Without(v, Separator) =>
            AgentCommand(a) = IF Parses(r) THEN v ELSE <<>>
      /\ (\A i \in 1..Len(u) : u[i] \in Flags) => AgentCommand(a) = FindCommandArgs(v)
  BY <1>6, <1>7, <1>8
<1> QED BY <1>9 DEF r, a

\* A --config in front of the subcommand is the agent's, with its value: what
\* is left is what runs, also when the value is the name of a subcommand.
THEOREM ConfigInFront ==
    ASSUME NEW S, {"exec", "--config"} \subseteq S, NEW file \in S, NEW r \in Seq(S)
    PROVE  AgentCommand(<<"--config", file, "exec">> \o r) = AgentCommand(<<"exec">> \o r)
<1> DEFINE p == <<"--config", file, "exec">>
           a == p \o r
           b == <<"exec">> \o r
           J(s) == {i \in 1..Len(s) : s[i] \in Subcommands \cup {Separator, "--config", "--config="}}
<1>1. p \in Seq(S) /\ Len(p) = 3 /\ p[1] = "--config" /\ p[3] = "exec" /\ Len(r) \in Nat
  BY LenProperties
<1> HIDE DEF p
<1>2. /\ a \in Seq(S) /\ Len(a) = 3 + Len(r) /\ a[1] = "--config" /\ a[3] = "exec"
      /\ \A i \in 1..Len(r) : a[3 + i] = r[i]
  <2>1. /\ a \in Seq(S) /\ Len(a) = Len(p) + Len(r)
        /\ \A i \in 1..(Len(p) + Len(r)) : a[i] = IF i <= Len(p) THEN p[i] ELSE r[i - Len(p)]
    BY <1>1, ConcatProperties
  <2> HIDE DEF a
  <2>2. ASSUME NEW i \in 1..Len(r) PROVE a[3 + i] = r[i]
    <3>1. 3 + i \in 1..(Len(p) + Len(r)) /\ ~(3 + i <= Len(p)) /\ 3 + i - Len(p) = i
      BY <1>1
    <3> QED BY <2>1, <3>1
  <2> QED BY <1>1, <2>1, <2>2
<1>3. /\ b \in Seq(S) /\ Len(b) = 1 + Len(r) /\ b[1] = "exec"
      /\ \A i \in 1..Len(r) : b[1 + i] = r[i]
  BY <1>1
<1> HIDE DEF a, b
<1>4. Min(J(a)) = 1 /\ J(a) # {} /\ Min(J(b)) = 1 /\ J(b) # {}
  <2>1. J(a) \in SUBSET Nat /\ 1 \in J(a) /\ \A i \in J(a) : 1 <= i
    BY <1>1, <1>2
  <2>2. J(b) \in SUBSET Nat /\ 1 \in J(b) /\ \A i \in J(b) : 1 <= i
    BY <1>1, <1>3 DEF Subcommands
  <2> HIDE DEF J
  <2> QED BY <2>1, <2>2, MinIs
<1>5. ExtractConfigFlag(a) = SubSeq(a, 1, 0) \o After(a, 2)
  <2> DEFINE i == IF J(a) # {} THEN Min(J(a)) ELSE 0
             x == SubSeq(a, 1, i - 1) \o After(a, i)
             y == SubSeq(a, 1, i - 1) \o After(a, i + 1)
  <2>1. ExtractConfigFlag(a) =
          CASE i > 0 /\ a[i] = "--config=" -> x
            [] i \in 1..(Len(a) - 1) /\ a[i] = "--config" -> y
            [] OTHER -> a
    BY DEF ExtractConfigFlag, SelectInSeq
  <2>2. i = 1 /\ a[i] = "--config" /\ i \in 1..(Len(a) - 1)
    BY <1>1, <1>2, <1>4
  <2> HIDE DEF i, x, y
  <2>3. ExtractConfigFlag(a) = y
    BY <2>1, <2>2
  <2>4. y = SubSeq(a, 1, 0) \o After(a, 2)
    BY <2>2 DEF y
  <2> QED BY <2>3, <2>4
<1>6. ExtractConfigFlag(b) = b
  BY <1>3, <1>4 DEF ExtractConfigFlag, SelectInSeq
<1>7. SubSeq(a, 1, 0) \o After(a, 2) = b
  <2> DEFINE w == SubSeq(a, 3, Len(a))
  <2>1. \A i \in 3..Len(a) : a[i] \in S
    BY <1>1, <1>2, ElementOfSeq
  <2>2. /\ w \in Seq(S)
        /\ Len(w) = IF 3 <= Len(a) THEN Len(a) - 3 + 1 ELSE 0
        /\ \A i \in 1..(Len(a) - 3 + 1) : w[i] = a[3 + i - 1]
    BY <1>1, <1>2, <2>1, SubSeqProperties
  <2> HIDE DEF w
  <2>3. Len(w) = Len(b)
    BY <1>1, <1>2, <1>3, <2>2
  <2>4. \A i \in 1..Len(w) : w[i] = b[i]
    <3> TAKE i \in 1..Len(w)
    <3>1. i \in 1..(Len(a) - 3 + 1) /\ i \in Int
      BY <1>1, <1>2, <1>3, <2>3
    <3>2. w[i] = a[3 + i - 1]
      BY <2>2, <3>1
    <3>3. CASE i = 1
      BY <1>2, <1>3, <3>2, <3>3
    <3>4. CASE i # 1
      <4>1. i - 1 \in 1..Len(r) /\ 3 + i - 1 = 3 + (i - 1) /\ i = 1 + (i - 1)
        BY <1>1, <1>2, <3>1, <3>4
      <4>2. a[3 + (i - 1)] = r[i - 1] /\ b[1 + (i - 1)] = r[i - 1]
        BY <1>2, <1>3, <4>1
      <4> QED BY <3>2, <4>1, <4>2
    <3> QED BY <3>3, <3>4
  <2>5. w = b
    BY <1>3, <2>2, <2>3, <2>4, SeqEqual
  <2>6. After(a, 2) = w
    BY DEF After, w
  <2>7. SubSeq(a, 1, 0) = <<>>
    <3>1. \A i \in 1..0 : a[i] \in S
      OBVIOUS
    <3>2. SubSeq(a, 1, 0) \in Seq(S) /\ Len(SubSeq(a, 1, 0)) = 0
      BY <1>2, <3>1, SubSeqProperties
    <3> QED BY <3>2, EmptySeq
  <2>8. <<>> \o b = b
    BY <1>3
  <2> QED BY <2>5, <2>6, <2>7, <2>8
<1>8. AgentCommand(a) = AgentCommand(b)
  BY <1>5, <1>6, <1>7, Zenon DEF AgentCommand
<1> QED BY <1>8 DEF a, b, p

=============================================================================
