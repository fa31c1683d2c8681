-------------------------- MODULE InjectionProofs ---------------------------
(***************************************************************************)
(* Theorems about Injection, for any set of well-written manifests and any *)
(* configuration of the webhook.  First what a patch does, whatever its    *)
(* length; then what the webhook's patch does to an object; then what      *)
(* holds of every object that applies, replacements, edits and reviews can *)
(* lead to.                                                                *)
(***************************************************************************)
EXTENDS Injection, CommandLineProofs

-----------------------------------------------------------------------------
(* The stages of a patch.                                                  *)

\* Induction over an interval, on the set of the indexes where a fact holds.
LEMMA UpTo ==
    ASSUME NEW n \in Nat, NEW T \in SUBSET (0..n), 0 \in T,
           \A i \in 0..(n - 1) : i \in T => i + 1 \in T
    PROVE  \A i \in 0..n : i \in T
<1> DEFINE U == (0..n) \ T
<1>1. SUFFICES ASSUME U # {} PROVE FALSE
  BY DEF U
<1>2. U \in SUBSET Nat
  OBVIOUS
<1>3. Min(U) \in U /\ \A i \in U : Min(U) <= i
  BY <1>1, <1>2, MinExists
<1> HIDE DEF U
<1>4. Min(U) \in 0..n /\ Min(U) \notin T
  BY <1>3 DEF U
<1>5. Min(U) # 0
  BY <1>4
<1>6. Min(U) - 1 \in 0..(n - 1) /\ Min(U) - 1 \in 0..n /\ ~(Min(U) <= Min(U) - 1)
  BY <1>4, <1>5
<1>7. Min(U) - 1 \notin U
  BY <1>3, <1>6
<1>8. Min(U) - 1 \in T
  BY <1>6, <1>7 DEF U
<1>9. Min(U) - 1 + 1 \in T /\ Min(U) - 1 + 1 = Min(U)
  BY <1>4, <1>6, <1>8
<1> QED BY <1>4, <1>9

\* The recursion is well-founded, so that Stages is what its equation says.
LEMMA StagesDef ==
    ASSUME NEW o, NEW patch, Len(patch) \in Nat
    PROVE  /\ Stages(o, patch)[0] = o
           /\ \A i \in 1..Len(patch) :
                Stages(o, patch)[i] = ApplyOp(Stages(o, patch)[i - 1], patch[i])
<1> DEFINE n == Len(patch)
           Body(f, m) == [i \in 0..m |-> IF i = 0 THEN o ELSE ApplyOp(f[i - 1], patch[i])]
           T == {m \in 0..n : \E f : f = Body(f, m)}
<1>1. 0 \in T
  <2> DEFINE f == [i \in 0..0 |-> o]
  <2>1. f = Body(f, 0)
    OBVIOUS
  <2>2. 0 \in 0..n
    OBVIOUS
  <2> HIDE DEF f
  <2> QED BY <2>1, <2>2
<1>2. ASSUME NEW m \in 0..(n - 1), m \in T PROVE m + 1 \in T
  <2>1. PICK f : f = Body(f, m)
    BY <1>2
  <2> DEFINE g == [i \in 0..(m + 1) |->
                     IF i = m + 1 THEN ApplyOp(f[m], patch[m + 1]) ELSE f[i]]
  <2>2. ASSUME NEW i \in 0..(m + 1)
        PROVE  g[i] = IF i = 0 THEN o ELSE ApplyOp(g[i - 1], patch[i])
    <3>1. CASE i = m + 1
      BY <3>1
    <3>2. CASE i = 0
      BY <2>1, <3>2
    <3>3. CASE i \in 1..m
      <4>1. g[i] = f[i] /\ g[i - 1] = f[i - 1]
        BY <3>3
      <4>2. f[i] = ApplyOp(f[i - 1], patch[i])
        BY <2>1, <3>3
      <4> QED BY <3>3, <4>1, <4>2
    <3> QED BY <3>1, <3>2, <3>3
  <2>3. g = Body(g, m + 1)
    BY <2>2
  <2>4. m + 1 \in 0..n
    OBVIOUS
  <2> HIDE DEF g
  <2> QED BY <2>3, <2>4
<1>3. n \in T
  <2>1. T \in SUBSET (0..n)
    OBVIOUS
  <2>2. n \in Nat
    OBVIOUS
  <2> HIDE DEF T, n
  <2>3. \A m \in 0..n : m \in T
    BY <1>1, <1>2, <2>1, <2>2, UpTo
  <2> QED BY <2>2, <2>3
<1>4. Stages(o, patch) = CHOOSE f : f = Body(f, n)
  BY DEF Stages
<1>5. Stages(o, patch) = Body(Stages(o, patch), n)
  BY <1>3, <1>4
<1> QED BY <1>5

\* The operations of patches, of which Len(patch) is a number.
Kinds  == {"append", "create", "replace", "remove", "stamp"}
Fields == {"volumes", "inits", "command", "args", "env", "mounts", "injected"}
Ops ==
    [op : Kinds, where : {"pod", "metadata"} \cup ToSet(Names), field : Fields,
     value : (SUBSET Words) \cup Seq(Words)]

\* The empty patch, which a review that skips leaves (ApplyPatch).
LEMMA NoOperation ==
    ASSUME NEW o
    PROVE  ApplyPatch(o, <<>>) = o /\ Fits(o, <<>>)
<1>1. Len(<<>>) = 0
  OBVIOUS
<1>2. Stages(o, <<>>)[0] = o
  BY <1>1, StagesDef
<1> QED BY <1>1, <1>2 DEF ApplyPatch, Fits

\* A patch in two parts: the first is applied as if it were alone, and the
\* second to what the first made of the object.
LEMMA InTwoParts ==
    ASSUME NEW o, NEW a \in Seq(Ops), NEW b \in Seq(Ops)
    PROVE  /\ \A i \in 0..Len(a) : Stages(o, a \o b)[i] = Stages(o, a)[i]
           /\ \A i \in 0..Len(b) :
                Stages(o, a \o b)[Len(a) + i] = Stages(ApplyPatch(o, a), b)[i]
<1> DEFINE ab == a \o b
           S(i) == Stages(o, ab)[i]
           x == ApplyPatch(o, a)
<1>1. /\ Len(a) \in Nat /\ Len(b) \in Nat /\ Len(ab) = Len(a) + Len(b)
      /\ \A i \in 1..Len(a) : ab[i] = a[i]
      /\ \A i \in 1..Len(b) : ab[Len(a) + i] = b[i]
  <2>1. Len(a) \in Nat /\ Len(b) \in Nat
    BY LenProperties
  <2>2. /\ Len(ab) = Len(a) + Len(b)
        /\ \A i \in 1..Len(a) + Len(b) : ab[i] = IF i <= Len(a) THEN a[i] ELSE b[i - Len(a)]
    BY ConcatProperties
  <2> HIDE DEF ab
  <2>3. ASSUME NEW i \in 1..Len(b) PROVE ab[Len(a) + i] = b[i]
    <3>1. Len(a) + i \in 1..(Len(a) + Len(b)) /\ ~(Len(a) + i <= Len(a)) /\ Len(a) + i - Len(a) = i
      BY <2>1
    <3> QED BY <2>2, <3>1
  <2> QED BY <2>1, <2>2, <2>3
<1> HIDE DEF ab
<1>2. S(0) = o /\ \A i \in 1..Len(ab) : S(i) = ApplyOp(S(i - 1), ab[i])
  BY <1>1, StagesDef
<1>3. /\ Stages(o, a)[0] = o
      /\ \A i \in 1..Len(a) : Stages(o, a)[i] = ApplyOp(Stages(o, a)[i - 1], a[i])
  BY <1>1, StagesDef
<1>4. /\ Stages(x, b)[0] = x
      /\ \A i \in 1..Len(b) : Stages(x, b)[i] = ApplyOp(Stages(x, b)[i - 1], b[i])
  BY <1>1, StagesDef
<1> HIDE DEF S
<1>5. \A i \in 0..Len(a) : S(i) = Stages(o, a)[i]
  <2> DEFINE T == {i \in 0..Len(a) : S(i) = Stages(o, a)[i]}
  <2>1. T \in SUBSET (0..Len(a)) /\ 0 \in T
    BY <1>1, <1>2, <1>3
  <2>2. ASSUME NEW i \in 0..(Len(a) - 1), i \in T PROVE i + 1 \in T
    <3>1. i + 1 \in 1..Len(a) /\ i + 1 \in 1..Len(ab) /\ i + 1 - 1 = i /\ i + 1 \in 0..Len(a)
      BY <1>1
    <3>2. S(i + 1) = ApplyOp(S(i), a[i + 1])
      BY <1>1, <1>2, <3>1
    <3>3. Stages(o, a)[i + 1] = ApplyOp(Stages(o, a)[i], a[i + 1])
      BY <1>3, <3>1
    <3>4. S(i) = Stages(o, a)[i]
      BY <2>2
    <3> QED BY <3>1, <3>2, <3>3, <3>4
  <2> HIDE DEF T
  <2>3. \A i \in 0..Len(a) : i \in T
    BY <1>1, <2>1, <2>2, UpTo
  <2> QED BY <2>3 DEF T
<1>6. \A i \in 0..Len(b) : S(Len(a) + i) = Stages(x, b)[i]
  <2> DEFINE T == {i \in 0..Len(b) : S(Len(a) + i) = Stages(x, b)[i]}
  <2>1. S(Len(a) + 0) = x
    BY <1>1, <1>5 DEF ApplyPatch
  <2>2. T \in SUBSET (0..Len(b)) /\ 0 \in T
    BY <1>1, <1>4, <2>1
  <2>3. ASSUME NEW i \in 0..(Len(b) - 1), i \in T PROVE i + 1 \in T
    <3>1. /\ i + 1 \in 1..Len(b) /\ Len(a) + (i + 1) \in 1..Len(ab)
          /\ Len(a) + (i + 1) - 1 = Len(a) + i /\ i + 1 - 1 = i /\ i + 1 \in 0..Len(b)
      BY <1>1
    <3>2. S(Len(a) + (i + 1)) = ApplyOp(S(Len(a) + i), b[i + 1])
      BY <1>1, <1>2, <3>1
    <3>3. Stages(x, b)[i + 1] = ApplyOp(Stages(x, b)[i], b[i + 1])
      BY <1>4, <3>1
    <3>4. S(Len(a) + i) = Stages(x, b)[i]
      BY <2>3
    <3> QED BY <3>1, <3>2, <3>3, <3>4
  <2> HIDE DEF T
  <2>4. \A i \in 0..Len(b) : i \in T
    BY <1>1, <2>2, <2>3, UpTo
  <2> QED BY <2>4 DEF T
<1> QED BY <1>5, <1>6 DEF S, ab

\* A patch in two parts is applied part after part, and fits if each part fits
\* what it is applied to: BuildInjection appends to one list of operations.
THEOREM PatchConcat ==
    ASSUME NEW o, NEW a \in Seq(Ops), NEW b \in Seq(Ops)
    PROVE  /\ ApplyPatch(o, a \o b) = ApplyPatch(ApplyPatch(o, a), b)
           /\ Fits(o, a) /\ Fits(ApplyPatch(o, a), b) => Fits(o, a \o b)
<1> DEFINE ab == a \o b
           x == ApplyPatch(o, a)
<1>1. Len(a) \in Nat /\ Len(b) \in Nat /\ DOMAIN a = 1..Len(a) /\ DOMAIN b = 1..Len(b)
  BY LenProperties
<1>2. /\ ab \in Seq(Ops) /\ Len(ab) = Len(a) + Len(b)
      /\ \A i \in 1..Len(a) + Len(b) : ab[i] = IF i <= Len(a) THEN a[i] ELSE b[i - Len(a)]
  BY ConcatProperties
<1>3. DOMAIN ab = 1..(Len(a) + Len(b))
  BY <1>2, LenProperties
<1>4. /\ \A i \in 0..Len(a) : Stages(o, ab)[i] = Stages(o, a)[i]
      /\ \A i \in 0..Len(b) : Stages(o, ab)[Len(a) + i] = Stages(x, b)[i]
  BY InTwoParts
<1> HIDE DEF ab, x
<1>5. ApplyPatch(o, ab) = ApplyPatch(x, b)
  BY <1>1, <1>2, <1>4 DEF ApplyPatch
<1>6. ASSUME Fits(o, a), Fits(x, b), NEW i \in DOMAIN ab
      PROVE  Applicable(Stages(o, ab)[i - 1], ab[i]) /\ ~Duplicates(Stages(o, ab)[i - 1], ab[i])
  <2>1. CASE i <= Len(a)
    <3>1. i \in DOMAIN a /\ i - 1 \in 0..Len(a) /\ ab[i] = a[i]
      BY <1>1, <1>2, <1>3, <2>1
    <3>2. Stages(o, ab)[i - 1] = Stages(o, a)[i - 1]
      BY <1>4, <3>1
    <3> QED BY <1>6, <3>1, <3>2 DEF Fits
  <2>2. CASE ~(i <= Len(a))
    <3> DEFINE j == i - Len(a)
    <3>1. /\ j \in DOMAIN b /\ j - 1 \in 0..Len(b) /\ ab[i] = b[j]
          /\ Len(a) + (j - 1) = i - 1
      <4>1. i \in 1..(Len(a) + Len(b))
        BY <1>3
      <4>2. j \in 1..Len(b) /\ j - 1 \in 0..Len(b) /\ Len(a) + (j - 1) = i - 1
        BY <1>1, <2>2, <4>1
      <4>3. ab[i] = b[j]
        BY <1>2, <2>2, <4>1
      <4> QED BY <1>1, <4>2, <4>3
    <3> HIDE DEF j
    <3>2. Stages(o, ab)[i - 1] = Stages(x, b)[j - 1]
      BY <1>4, <3>1
    <3> QED BY <1>6, <3>1, <3>2 DEF Fits
  <2> QED BY <2>1, <2>2
<1>7. Fits(o, a) /\ Fits(x, b) => Fits(o, ab)
  BY <1>6 DEF Fits
<1> QED BY <1>5, <1>7 DEF ab, x

Accepts(o, p) == Applicable(o, p) /\ ~Duplicates(o, p)

\* Patches of one and of three operations.
LEMMA OneOperation ==
    ASSUME NEW o, NEW p
    PROVE  /\ ApplyPatch(o, <<p>>) = ApplyOp(o, p)
           /\ Accepts(o, p) => Fits(o, <<p>>)
<1> DEFINE s == <<p>>
<1>1. Len(s) = 1 /\ DOMAIN s = 1..1 /\ s[1] = p
  OBVIOUS
<1> HIDE DEF s
<1>2. Stages(o, s)[0] = o /\ Stages(o, s)[1] = ApplyOp(Stages(o, s)[0], s[1])
  <2>1. /\ Stages(o, s)[0] = o
        /\ \A i \in 1..Len(s) : Stages(o, s)[i] = ApplyOp(Stages(o, s)[i - 1], s[i])
    <3>1. Len(s) \in Nat
      BY <1>1
    <3> QED BY <3>1, StagesDef
  <2> QED BY <1>1, <2>1
<1>3. ApplyPatch(o, s) = ApplyOp(o, p)
  BY <1>1, <1>2 DEF ApplyPatch
<1>4. Accepts(o, p) => Fits(o, s)
  BY <1>1, <1>2 DEF Fits, Accepts
<1> QED BY <1>3, <1>4 DEF s

LEMMA ThreeOperations ==
    ASSUME NEW o, NEW p, NEW q, NEW r
    PROVE  LET x == ApplyOp(o, p)
               y == ApplyOp(x, q)
           IN  /\ ApplyPatch(o, <<p, q, r>>) = ApplyOp(y, r)
               /\ Accepts(o, p) /\ Accepts(x, q) /\ Accepts(y, r) => Fits(o, <<p, q, r>>)
<1> DEFINE s == <<p, q, r>>
           x == ApplyOp(o, p)
           y == ApplyOp(x, q)
<1>1. Len(s) = 3 /\ DOMAIN s = 1..3 /\ s[1] = p /\ s[2] = q /\ s[3] = r
  OBVIOUS
<1> HIDE DEF s
<1>2. /\ Stages(o, s)[0] = o
      /\ \A i \in 1..3 : Stages(o, s)[i] = ApplyOp(Stages(o, s)[i - 1], s[i])
  BY <1>1, StagesDef
<1>3. Stages(o, s)[1] = x /\ Stages(o, s)[2] = y /\ Stages(o, s)[3] = ApplyOp(y, r)
  <2>1. Stages(o, s)[1] = ApplyOp(Stages(o, s)[0], s[1])
    BY <1>2
  <2>2. Stages(o, s)[2] = ApplyOp(Stages(o, s)[1], s[2])
    BY <1>2
  <2>3. Stages(o, s)[3] = ApplyOp(Stages(o, s)[2], s[3])
    BY <1>2
  <2> QED BY <1>1, <1>2, <2>1, <2>2, <2>3
<1>4. ApplyPatch(o, s) = ApplyOp(y, r)
  BY <1>1, <1>3 DEF ApplyPatch
<1> HIDE DEF x, y
<1>5. ASSUME Accepts(o, p), Accepts(x, q), Accepts(y, r), NEW i \in DOMAIN s
      PROVE  Accepts(Stages(o, s)[i - 1], s[i])
  <2>1. i = 1 \/ i = 2 \/ i = 3
    BY <1>1
  <2>2. CASE i = 1
    BY <1>1, <1>2, <1>5, <2>2
  <2>3. CASE i = 2
    BY <1>1, <1>3, <1>5, <2>3
  <2>4. CASE i = 3
    BY <1>1, <1>3, <1>5, <2>4
  <2> QED BY <2>1, <2>2, <2>3, <2>4
<1>6. Accepts(o, p) /\ Accepts(x, q) /\ Accepts(y, r) => Fits(o, s)
  BY <1>5 DEF Fits, Accepts
<1> QED BY <1>4, <1>6 DEF s, x, y

-----------------------------------------------------------------------------
(* One operation on an object.                                             *)

LEMMA TheNames == ToSet(Names) = {"job", "side"}
BY DEF ToSet, Names

PodAppends(o, f, w) ==
    LET p == AddToArray("pod", f, o.pod[f], w)
        x == ApplyOp(o, p)
    IN  /\ p \in Ops
        /\ w \notin o.pod[f] => Accepts(o, p)
        /\ x = [o EXCEPT !.pod[f] = @ \cup {w}] /\ x \in Objects

BoxAppends(o, c, f, ws) ==
    LET p == Op(IF o.containers[c][f] = {} THEN "create" ELSE "append", c, f, ws)
        x == ApplyOp(o, p)
    IN  /\ p \in Ops
        /\ f = "env" \/ ws \cap o.containers[c][f] = {} => Accepts(o, p)
        /\ x = [o EXCEPT !.containers[c][f] = @ \cup ws] /\ x \in Objects

BoxTakes(o, c, f, kind, ws) ==
    LET p == Op(kind, c, f, ws)
        x == ApplyOp(o, p)
    IN  /\ p \in Ops
        /\ o.containers[c][f] # <<>> => Accepts(o, p)
        /\ x = [o EXCEPT !.containers[c][f] = ws] /\ x \in Objects

\* addToArray on a list of the pod, and on one of a container.
LEMMA PodAppend ==
    ASSUME NEW o \in Objects, NEW f \in {"volumes", "inits"}, NEW w \in Words
    PROVE  PodAppends(o, f, w)
BY TheNames DEF PodAppends, AddToArray, Op, Ops, Kinds, Fields, Accepts, Applicable, Duplicates,
     ApplyOp, At, Put, Objects

LEMMA BoxAppend ==
    ASSUME NEW o \in Objects, NEW c \in ToSet(Names), NEW f \in {"env", "mounts"},
           NEW ws \in SUBSET Words
    PROVE  BoxAppends(o, c, f, ws)
<1> DEFINE old == o.containers[c][f]
           p == Op(IF old = {} THEN "create" ELSE "append", c, f, ws)
           x == ApplyOp(o, p)
<1>1. c # "pod" /\ o.containers[c] \in Boxes /\ old \in SUBSET Words
  BY TheNames DEF Objects, Boxes
<1>2. /\ p.op \in {"create", "append"} /\ p.where = c /\ p.field = f /\ p.value = ws
      /\ p.op = "create" <=> old = {}
  BY DEF Op
<1>3. p \in Ops
  BY DEF Op, Ops, Kinds, Fields
<1> HIDE DEF p
<1>4. At(o, p) = old
  BY <1>1, <1>2 DEF At
<1>5. f = "env" \/ ws \cap old = {} => Accepts(o, p)
  BY <1>2, <1>4 DEF Accepts, Applicable, Duplicates
<1>6. x = [o EXCEPT !.containers[c][f] = old \cup ws]
  <2>1. CASE old = {}
    BY <1>1, <1>2, <2>1 DEF ApplyOp, Put
  <2>2. CASE old # {}
    BY <1>1, <1>2, <1>4, <2>2 DEF ApplyOp, Put
  <2> QED BY <2>1, <2>2
<1>7. [o.containers[c] EXCEPT ![f] = old \cup ws] \in Boxes
  BY <1>1 DEF Boxes
<1>8. x \in Objects
  BY <1>6, <1>7 DEF Objects
<1> QED BY <1>3, <1>5, <1>6, <1>8 DEF p, BoxAppends

\* Replacing or removing a container's command or arguments.
LEMMA BoxSet ==
    ASSUME NEW o \in Objects, NEW c \in ToSet(Names), NEW f \in {"command", "args"},
           NEW kind \in {"replace", "remove"}, NEW ws \in Seq(Words)
    PROVE  BoxTakes(o, c, f, kind, ws)
<1> DEFINE p == Op(kind, c, f, ws)
           x == ApplyOp(o, p)
<1>1. c # "pod" /\ o.containers[c] \in Boxes
  BY TheNames DEF Objects, Boxes
<1>2. p.op = kind /\ p.where = c /\ p.field = f /\ p.value = ws
  BY DEF Op
<1>3. p \in Ops
  <2>1. kind \in Kinds /\ c \in {"pod", "metadata"} \cup ToSet(Names) /\ f \in Fields
    BY DEF Kinds, Fields
  <2>2. ws \in (SUBSET Words) \cup Seq(Words)
    OBVIOUS
  <2> QED BY <2>1, <2>2 DEF Op, Ops
<1> HIDE DEF p
<1>4. At(o, p) = o.containers[c][f]
  BY <1>1, <1>2 DEF At
<1>5. o.containers[c][f] # <<>> => Accepts(o, p)
  BY <1>2, <1>4 DEF Accepts, Applicable, Duplicates
<1>6. x = [o EXCEPT !.containers[c][f] = ws]
  BY <1>1, <1>2 DEF ApplyOp, Put
<1>7. [o.containers[c] EXCEPT ![f] = ws] \in Boxes
  BY <1>1 DEF Boxes
<1>8. x \in Objects
  BY <1>6, <1>7 DEF Objects
<1> QED BY <1>3, <1>5, <1>6, <1>8 DEF p, BoxTakes

LEMMA Stamp ==
    ASSUME NEW o \in Objects
    PROVE  LET p == Op("stamp", "metadata", "injected", {})
               x == ApplyOp(o, p)
           IN  p \in Ops /\ Accepts(o, p) /\ x = [o EXCEPT !.injected = TRUE] /\ x \in Objects
BY DEF Op, Ops, Kinds, Fields, Accepts, Applicable, Duplicates, ApplyOp, Objects

-----------------------------------------------------------------------------
(* The wrapped command.                                                    *)

\* What the webhook writes is made of words.
LEMMA TheWords ==
    /\ {Binary, OnPath, "exec", "--key", "--api-url", Separator} \subseteq Words
    /\ {SharedVolume, SharedMount, Installer, PingKey} \subseteq Words
    /\ PrivacyEnv \in SUBSET Words
BY InjectionAssumption DEF AgentWords

LEMMA TheExtraArgs ==
    ExtraArgs \in Seq(Words) /\ Without(ExtraArgs, Separator)
<1>1. ExtraArgs \in Seq(Words \ {Separator})
  BY InjectionAssumption
<1>2. ExtraArgs \in Seq(Words)
  BY <1>1, SeqMonotonic
<1>3. Without(ExtraArgs, Separator)
  BY <1>1, ElementOfSeq DEF Without
<1> QED BY <1>2, <1>3

\* The flags that the webhook gives to exec.
ExecFlags == <<"--key", "--api-url">> \o ExtraArgs

LEMMA TheExecFlags ==
    ExecFlags \in Seq(Words) /\ Without(ExecFlags, Separator)
<1> DEFINE u == <<"--key", "--api-url">>
<1>1. u \in Seq(Words) /\ Without(u, Separator)
  BY TheWords DEF Separator, Without
<1> HIDE DEF u
<1>2. u \o ExtraArgs \in Seq(Words) /\ Without(u \o ExtraArgs, Separator)
  BY <1>1, TheExtraArgs, ConcatWithout
<1> QED BY <1>2 DEF ExecFlags, u

\* Concatenation under a name of its own, which the provers leave as it is.
Cat(p, q) == p \o q

\* Concatenation is closed and associative.
LEMMA CatTypes == ASSUME NEW S PROVE \A p, q \in Seq(S) : Cat(p, q) \in Seq(S)
BY ConcatProperties DEF Cat

LEMMA CatAssociative == \A S : \A p, q, t \in Seq(S) : Cat(Cat(p, q), t) = Cat(p, Cat(q, t))
BY ConcatAssociative, Zenon DEF Cat

Regroups(a, e, k, x, s, c, r) ==
    Cat(Cat(Cat(Cat(Cat(a, Cat(e, k)), x), s), c), r)
      = Cat(a, Cat(e, Cat(Cat(Cat(k, x), s), Cat(c, r))))

LEMMA Regroup ==
    ASSUME NEW S, NEW a \in Seq(S), NEW e \in Seq(S), NEW k \in Seq(S), NEW x \in Seq(S),
           NEW s \in Seq(S), NEW c \in Seq(S), NEW r \in Seq(S)
    PROVE  Regroups(a, e, k, x, s, c, r)
<1> DEFINE f == Cat(Cat(k, x), s)
<1>1. \A p, q \in Seq(S) : Cat(p, q) \in Seq(S)
  BY CatTypes
<1>2. \A p, q, t \in Seq(S) : Cat(Cat(p, q), t) = Cat(p, Cat(q, t))
  BY CatAssociative
<1>3. Cat(Cat(a, Cat(e, k)), x) = Cat(a, Cat(e, Cat(k, x)))
  BY <1>1, <1>2
<1>4. Cat(Cat(a, Cat(e, Cat(k, x))), s) = Cat(a, Cat(e, f))
  BY <1>1, <1>2
<1>5. f \in Seq(S)
  BY <1>1
<1> HIDE DEF f
<1>6. Cat(a, Cat(e, f)) \in Seq(S)
  BY <1>1, <1>5
<1>7. Cat(Cat(Cat(a, Cat(e, f)), c), r) = Cat(Cat(a, Cat(e, f)), Cat(c, r))
  BY <1>2, <1>6, Zenon
<1>8. Cat(Cat(a, Cat(e, f)), Cat(c, r)) = Cat(a, Cat(e, Cat(f, Cat(c, r))))
  BY <1>1, <1>2, <1>5
<1> QED BY <1>3, <1>4, <1>7, <1>8 DEF f, Regroups

LEMMA Ungroup ==
    ASSUME NEW S, NEW a \in Seq(S), NEW e \in Seq(S), NEW x \in Seq(S),
           NEW s \in Seq(S), NEW v \in Seq(S)
    PROVE  Cat(a, Cat(e, Cat(Cat(x, s), v))) = Cat(Cat(Cat(Cat(a, e), x), s), v)
<1>1. \A p, q \in Seq(S) : Cat(p, q) \in Seq(S)
  BY CatTypes
<1>2. \A p, q, t \in Seq(S) : Cat(Cat(p, q), t) = Cat(p, Cat(q, t))
  BY CatAssociative
<1> QED BY <1>1, <1>2

\* More behind a separator.
Shifts(u, v, w) == (u \o <<Separator>> \o v) \o w = u \o <<Separator>> \o (v \o w)

LEMMA Shift ==
    ASSUME NEW S, Separator \in S, NEW u \in Seq(S), NEW v \in Seq(S), NEW w \in Seq(S)
    PROVE  Shifts(u, v, w)
<1> DEFINE s == <<Separator>>
<1>1. s \in Seq(S)
  OBVIOUS
<1> HIDE DEF s
<1>2. \A p, q \in Seq(S) : Cat(p, q) \in Seq(S)
  BY CatTypes
<1>3. \A p, q, t \in Seq(S) : Cat(Cat(p, q), t) = Cat(p, Cat(q, t))
  BY CatAssociative
<1>4. Cat(Cat(Cat(u, s), v), w) = Cat(Cat(u, s), Cat(v, w))
  BY <1>1, <1>2, <1>3
<1> QED BY <1>4 DEF Cat, s, Shifts

\* A wrapped command is the agent, exec, its flags, the separator, and the
\* words of the container.
LEMMA WrappedCommandIs ==
    ASSUME NEW prebaked \in BOOLEAN, NEW command \in Seq(Words), NEW args \in Seq(Words)
    PROVE  LET agent == IF prebaked THEN OnPath ELSE Binary
               behind == ExecFlags \o <<Separator>> \o (command \o args)
           IN  /\ behind \in Seq(Words)
               /\ WrappedCommand(prebaked, command, args) = <<agent>> \o (<<"exec">> \o behind)
<1> DEFINE agent == IF prebaked THEN OnPath ELSE Binary
           ka == <<"--key", "--api-url">>
           sep == <<Separator>>
           behind == ExecFlags \o <<Separator>> \o (command \o args)
<1>1. /\ ka \in Seq(Words) /\ sep \in Seq(Words) /\ <<agent>> \in Seq(Words)
      /\ <<"exec">> \in Seq(Words)
  BY TheWords
<1>2. <<agent, "exec", "--key", "--api-url">> = <<agent>> \o (<<"exec">> \o ka)
  OBVIOUS
<1>3. ka \o ExtraArgs = ExecFlags /\ ExecFlags \in Seq(Words)
  BY TheExecFlags DEF ExecFlags
<1>4. WrappedCommand(prebaked, command, args)
        = (((<<agent>> \o (<<"exec">> \o ka)) \o ExtraArgs) \o sep) \o command \o args
  BY <1>2 DEF WrappedCommand
<1>5. command \o args \in Seq(Words) /\ ExecFlags \o sep \in Seq(Words)
  BY <1>1, <1>3, ConcatProperties
<1>6. behind \in Seq(Words)
  BY <1>5, ConcatProperties
<1>7. WrappedCommand(prebaked, command, args)
        = <<agent>> \o (<<"exec">> \o (((ka \o ExtraArgs) \o sep) \o (command \o args)))
  <2> DEFINE ag == <<agent>>
             ex == <<"exec">>
  <2>2. ag \in Seq(Words) /\ ex \in Seq(Words)
    BY <1>1
  <2> HIDE DEF ka, sep, agent, ag, ex
  <2>1. Cat(Cat(Cat(Cat(Cat(ag, Cat(ex, ka)), ExtraArgs), sep), command), args)
          = Cat(ag, Cat(ex, Cat(Cat(Cat(ka, ExtraArgs), sep), Cat(command, args))))
    <3>1. /\ ag \in Seq(Words) /\ ex \in Seq(Words) /\ ka \in Seq(Words)
          /\ ExtraArgs \in Seq(Words) /\ sep \in Seq(Words)
      BY <1>1, <2>2, TheExtraArgs
    <3>2. Regroups(ag, ex, ka, ExtraArgs, sep, command, args)
      BY <3>1, Regroup
    <3> QED BY <3>2 DEF Regroups
  <2> QED BY <1>4, <2>1 DEF Cat, ag, ex
<1> QED BY <1>3, <1>6, <1>7

\* If the webhook's flags are exec's, so are all the flags of a wrapper.
LEMMA ExecFlagsAreFlags ==
    ExtraArgs \in Seq(Flags) => \A i \in 1..Len(ExecFlags) : ExecFlags[i] \in Flags
<1> DEFINE u == <<"--key", "--api-url">>
<1>1. u \in Seq(Flags)
  BY DEF Flags
<1> HIDE DEF u
<1>2. ExtraArgs \in Seq(Flags) => u \o ExtraArgs \in Seq(Flags)
  BY <1>1, ConcatProperties
<1>3. ExtraArgs \in Seq(Flags) => ExecFlags \in Seq(Flags)
  BY <1>2 DEF ExecFlags, u
<1> QED BY <1>3, ElementOfSeq

\* The wrapper is the agent's, and it finds the container's command and
\* arguments in it.  If they have no separator and the configured flags parse,
\* that is what it runs, and nothing if they do not; if the configured flags
\* are exec's, it runs what findCommandArgs makes of them.
THEOREM WrapperRunsTheCommand ==
    ASSUME NEW prebaked \in BOOLEAN, NEW command \in Seq(Words), NEW args \in Seq(Words)
    PROVE  LET words == WrappedCommand(prebaked, command, args)
           IN  /\ words \in Seq(Words) /\ words # <<>>
               /\ Head(words) = IF prebaked THEN OnPath ELSE Binary
               /\ FindCommandArgs(words) = command \o args
               /\ Without(command \o args, Separator) =>
                    AgentCommand(Tail(words)) =
                      IF Parses(ExecFlags \o <<Separator>> \o (command \o args))
                      THEN command \o args ELSE <<>>
               /\ ExtraArgs \in Seq(Flags) =>
                    AgentCommand(Tail(words)) = FindCommandArgs(command \o args)
<1> DEFINE agent == IF prebaked THEN OnPath ELSE Binary
           behind == ExecFlags \o <<Separator>> \o (command \o args)
           words == WrappedCommand(prebaked, command, args)
           inner == <<"exec">> \o behind
<1>1. behind \in Seq(Words) /\ words = <<agent>> \o inner
  BY WrappedCommandIs
<1>2. command \o args \in Seq(Words)
  BY ConcatProperties
<1>3. agent \in Words /\ "exec" \in Words /\ Separator \in Words
  BY TheWords
<1>4. agent # Separator /\ "exec" # Separator
  BY DEF OnPath, Binary, Separator
<1> HIDE DEF behind, words, agent
<1>5. inner \in Seq(Words)
  BY <1>1, <1>3
<1> HIDE DEF inner
<1>6. words \in Seq(Words) /\ words # <<>> /\ Head(words) = agent /\ Tail(words) = inner
  BY <1>1, <1>3, <1>5
<1>7. FindCommandArgs(words) = command \o args
  <2> DEFINE u == (<<agent>> \o <<"exec">>) \o ExecFlags
           a == <<agent>>
           e == <<"exec">>
           s == <<Separator>>
           v == command \o args
  <2>1. a \in Seq(Words) /\ e \in Seq(Words) /\ s \in Seq(Words)
    BY <1>3
  <2>2. Without(a, Separator) /\ Without(e, Separator)
    BY <1>4 DEF Without
  <2> HIDE DEF a, e
  <2>3. a \o e \in Seq(Words) /\ Without(a \o e, Separator)
    BY <2>1, <2>2, ConcatWithout
  <2>4. u \in Seq(Words) /\ Without(u, Separator)
    BY <2>3, TheExecFlags, ConcatWithout DEF a, e
  <2>5. words = u \o <<Separator>> \o (command \o args)
    <3> HIDE DEF s, v
    <3>1. words = a \o (e \o ((ExecFlags \o s) \o v))
      BY <1>1 DEF inner, behind, a, e, s, v
    <3>2. v \in Seq(Words)
      BY <1>2 DEF v
    <3>3. Cat(a, Cat(e, Cat(Cat(ExecFlags, s), v))) = Cat(Cat(Cat(Cat(a, e), ExecFlags), s), v)
      BY <2>1, <3>2, TheExecFlags, Ungroup
    <3>4. words = (((a \o e) \o ExecFlags) \o s) \o v
      BY <3>1, <3>3 DEF Cat
    <3> QED BY <3>4 DEF a, e, s, v
  <2> QED BY <1>2, <1>3, <2>4, <2>5, FindBehind
<1> DEFINE v == command \o args
           ran == AgentCommand(Tail(words))
<1>8. /\ Without(ExecFlags, Separator) /\ Without(v, Separator) =>
           ran = IF Parses(ExecFlags \o <<Separator>> \o v) THEN v ELSE <<>>
      /\ (\A i \in 1..Len(ExecFlags) : ExecFlags[i] \in Flags) => ran = FindCommandArgs(v)
  <2>1. v \in Seq(Words) /\ {Separator, "exec"} \subseteq Words /\ ExecFlags \in Seq(Words)
    BY <1>2, <1>3, TheExecFlags
  <2>2. ran = AgentCommand(<<"exec">> \o (ExecFlags \o <<Separator>> \o v))
    BY <1>6 DEF inner, behind
  <2> HIDE DEF v, ran
  <2> QED BY <2>1, <2>2, RunsTheCommand
<1>9. /\ Without(v, Separator) =>
           ran = IF Parses(ExecFlags \o <<Separator>> \o v) THEN v ELSE <<>>
      /\ ExtraArgs \in Seq(Flags) => ran = FindCommandArgs(v)
  BY <1>8, TheExecFlags, ExecFlagsAreFlags
<1> QED BY <1>6, <1>7, <1>9 DEF words, agent

\* A sequence that begins with another begins with its head.
LEMMA FrontHead ==
    ASSUME NEW S, NEW p \in Seq(S), NEW q \in Seq(S), p # <<>>
    PROVE  p \o q # <<>> /\ Head(p \o q) = Head(p)
OBVIOUS

\* An agent with its separator in the command wraps a job whatever its
\* arguments are.
LEMMA WrapsMore ==
    ASSUME NEW command \in Seq(Words), NEW args \in Seq(Words),
           Agent(command), WrapsJob(command)
    PROVE  WrapsJob(command \o args)
<1>1. ~Without(command, Separator)
  BY FindNone DEF WrapsJob
<1>2. PICK u, v \in Seq(Words) :
        Without(u, Separator) /\ command = u \o <<Separator>> \o v
  BY <1>1, TheWords, FirstSeparator
<1>3. FindCommandArgs(command) = v
  BY <1>2, TheWords, FindBehind
<1>4. v # <<>> /\ ~Agent(v)
  BY <1>3 DEF WrapsJob
<1> DEFINE w == v \o args
<1>5. command \o args = u \o <<Separator>> \o w
  <2>1. Shifts(u, v, args)
    BY <1>2, TheWords, Shift
  <2> QED BY <1>2, <2>1 DEF Shifts
<1>6. FindCommandArgs(command \o args) = w
  <2>1. w \in Seq(Words)
    BY <1>2, ConcatProperties
  <2> HIDE DEF w
  <2> QED BY <1>2, <1>5, <2>1, TheWords, FindBehind
<1>7. w # <<>> /\ Head(w) = Head(v)
  BY <1>2, <1>4, FrontHead
<1> HIDE DEF w
<1> QED BY <1>4, <1>6, <1>7 DEF WrapsJob, Agent

-----------------------------------------------------------------------------
(* What the webhook's operations make of an object.                        *)

Installed(o, c) ==
    [o EXCEPT !.pod.volumes = @ \cup {SharedVolume},
              !.pod.inits = @ \cup {Installer},
              !.containers[c].mounts = @ \cup {SharedMount}]

Commanded(o, c) ==
    [o EXCEPT !.containers[c].command =
                 WrappedCommand(o.prebaked, o.containers[c].command, o.containers[c].args),
              !.containers[c].args = <<>>]

Informed(o, c) == [o EXCEPT !.containers[c].env = @ \cup ({PingKey} \cup PrivacyEnv)]

Stamped(o) == [o EXCEPT !.injected = TRUE]

\* The volume, the installer and the mount are new to the object.
Uninstalled(o, c) ==
    /\ SharedVolume \notin o.pod.volumes
    /\ Installer \notin o.pod.inits
    /\ SharedMount \notin o.containers[c].mounts

\* The operations that bring the volume, the init container and the mount.
LEMMA Installing ==
    ASSUME NEW o \in Objects, NEW c \in ToSet(Names)
    PROVE  /\ InstallOps(o, c) \in Seq(Ops)
           /\ ApplyPatch(o, InstallOps(o, c)) = Installed(o, c)
           /\ Installed(o, c) \in Objects
           /\ Uninstalled(o, c) => Fits(o, InstallOps(o, c))
<1> DEFINE p == AddToArray("pod", "volumes", o.pod.volumes, SharedVolume)
           q == AddToArray("pod", "inits", o.pod.inits, Installer)
           r == AddToArray(c, "mounts", o.containers[c].mounts, SharedMount)
           x == ApplyOp(o, p)
           y == ApplyOp(x, q)
           z == ApplyOp(y, r)
<1>1. /\ p \in Ops /\ (SharedVolume \notin o.pod.volumes => Accepts(o, p))
      /\ x = [o EXCEPT !.pod.volumes = @ \cup {SharedVolume}] /\ x \in Objects
  <2>1. PodAppends(o, "volumes", SharedVolume)
    BY PodAppend, TheWords
  <2> QED BY <2>1 DEF PodAppends
<1>2. /\ x.pod.inits = o.pod.inits /\ x.containers = o.containers
      /\ q = AddToArray("pod", "inits", x.pod.inits, Installer)
  BY <1>1 DEF Objects
<1> HIDE DEF x, p
<1>3. /\ q \in Ops /\ (Installer \notin x.pod.inits => Accepts(x, q))
      /\ y = [x EXCEPT !.pod.inits = @ \cup {Installer}] /\ y \in Objects
  <2>1. PodAppends(x, "inits", Installer)
    BY <1>1, PodAppend, TheWords
  <2> QED BY <1>2, <2>1 DEF PodAppends
<1>4. y.containers = o.containers
  BY <1>1, <1>2, <1>3 DEF Objects
<1> HIDE DEF y, q
<1>5. r = Op(IF y.containers[c].mounts = {} THEN "create" ELSE "append", c, "mounts", {SharedMount})
  BY <1>4 DEF AddToArray
<1> HIDE DEF r
<1>6. /\ r \in Ops /\ ({SharedMount} \cap y.containers[c].mounts = {} => Accepts(y, r))
      /\ z = [y EXCEPT !.containers[c].mounts = @ \cup {SharedMount}] /\ z \in Objects
  <2>1. BoxAppends(y, c, "mounts", {SharedMount})
    BY <1>3, BoxAppend, TheWords
  <2> QED BY <1>5, <2>1 DEF BoxAppends
<1>7. InstallOps(o, c) = <<p, q, r>> /\ <<p, q, r>> \in Seq(Ops)
  BY <1>1, <1>3, <1>6 DEF InstallOps, p, q, r
<1>8. /\ ApplyPatch(o, <<p, q, r>>) = z
      /\ Accepts(o, p) /\ Accepts(x, q) /\ Accepts(y, r) => Fits(o, <<p, q, r>>)
  BY ThreeOperations DEF x, y, z
<1> HIDE DEF z
<1>9. z = Installed(o, c)
  BY <1>1, <1>3, <1>6 DEF Installed, Objects
<1>10. Uninstalled(o, c) => Accepts(o, p) /\ Accepts(x, q) /\ Accepts(y, r)
  BY <1>1, <1>2, <1>3, <1>4, <1>6 DEF Uninstalled
<1> QED BY <1>6, <1>7, <1>8, <1>9, <1>10

\* The operations that rewrite the command and remove the arguments.
LEMMA Commanding ==
    ASSUME NEW o \in Objects, NEW c \in ToSet(Names)
    PROVE  /\ CommandOps(o, c) \in Seq(Ops)
           /\ ApplyPatch(o, CommandOps(o, c)) = Commanded(o, c)
           /\ Commanded(o, c) \in Objects
           /\ o.containers[c].command # <<>> => Fits(o, CommandOps(o, c))
<1> DEFINE box == o.containers[c]
           w == WrappedCommand(o.prebaked, box.command, box.args)
           p == Op("replace", c, "command", w)
           q == Op("remove", c, "args", <<>>)
           x == ApplyOp(o, p)
           y == ApplyOp(x, q)
           e == IF box.args # <<>> THEN <<q>> ELSE <<>>
<1>1. box.command \in Seq(Words) /\ box.args \in Seq(Words) /\ o.prebaked \in BOOLEAN
  BY DEF Objects, Boxes
<1>2. w \in Seq(Words)
  BY <1>1, WrapperRunsTheCommand
<1>3. CommandOps(o, c) = <<p>> \o e
  BY DEF CommandOps
<1> HIDE DEF w
<1>4. /\ p \in Ops /\ (box.command # <<>> => Accepts(o, p))
      /\ x = [o EXCEPT !.containers[c].command = w] /\ x \in Objects
  <2>1. BoxTakes(o, c, "command", "replace", w)
    BY <1>2, BoxSet
  <2> QED BY <2>1 DEF BoxTakes
<1>5. x.containers[c].args = box.args
  <2>1. o.containers[c] \in Boxes
    BY DEF Objects
  <2>2. x.containers[c] = [o.containers[c] EXCEPT !.command = w]
    BY <1>4 DEF Objects
  <2> QED BY <2>1, <2>2 DEF Boxes
<1> HIDE DEF x, p
<1>6. /\ q \in Ops /\ (box.args # <<>> => Accepts(x, q))
      /\ y = [x EXCEPT !.containers[c].args = <<>>] /\ y \in Objects
  <2>1. BoxTakes(x, c, "args", "remove", <<>>)
    <3>1. <<>> \in Seq(Words)
      OBVIOUS
    <3> QED BY <1>4, <3>1, BoxSet
  <2> QED BY <1>5, <2>1 DEF BoxTakes
<1>7. y = Commanded(o, c)
  BY <1>4, <1>6 DEF Commanded, Objects, Boxes, w
<1> HIDE DEF y, q
<1>8. /\ <<p>> \in Seq(Ops) /\ e \in Seq(Ops)
      /\ ApplyPatch(o, <<p>>) = x /\ (box.command # <<>> => Fits(o, <<p>>))
  BY <1>4, <1>6, OneOperation DEF x
<1>9. ApplyPatch(x, e) = y /\ Fits(x, e)
  <2>1. CASE box.args # <<>>
    BY <1>6, <2>1, OneOperation DEF y
  <2>2. CASE box.args = <<>>
    <3>1. y = x
      <4>1. x.containers[c] \in Boxes /\ x.containers[c].args = <<>>
        BY <1>4, <1>5, <2>2 DEF Objects
      <4>2. [x.containers[c] EXCEPT !.args = <<>>] = x.containers[c]
        BY <4>1 DEF Boxes
      <4>3. y = [x EXCEPT !.containers[c] = x.containers[c]]
        BY <1>6, <4>2
      <4> QED BY <1>4, <4>3 DEF Objects
    <3> QED BY <2>2, <3>1, NoOperation
  <2> QED BY <2>1, <2>2
<1> HIDE DEF e, box
<1> DEFINE first == <<p>>
<1> HIDE DEF first
<1>10. /\ first \in Seq(Ops) /\ e \in Seq(Ops)
       /\ ApplyPatch(o, first) = x /\ (box.command # <<>> => Fits(o, first))
  BY <1>8 DEF first
<1>11. ApplyPatch(o, first \o e) = y /\ (box.command # <<>> => Fits(o, first \o e))
  BY <1>9, <1>10, PatchConcat
<1>12. first \o e \in Seq(Ops)
  BY <1>10, ConcatProperties
<1> QED BY <1>3, <1>6, <1>7, <1>11, <1>12 DEF first, box

\* The operations that add the variables.
LEMMA Informing ==
    ASSUME NEW o \in Objects, NEW c \in ToSet(Names)
    PROVE  /\ EnvOps(o, c) \in Seq(Ops)
           /\ ApplyPatch(o, EnvOps(o, c)) = Informed(o, c)
           /\ Informed(o, c) \in Objects
           /\ Fits(o, EnvOps(o, c))
<1> DEFINE envs == {PingKey} \cup PrivacyEnv
           p == Op(IF o.containers[c].env = {} THEN "create" ELSE "append", c, "env", envs)
<1>1. envs \in SUBSET Words
  BY TheWords
<1>2. EnvOps(o, c) = <<p>>
  BY DEF EnvOps
<1>3. Informed(o, c) = [o EXCEPT !.containers[c].env = @ \cup envs]
  BY DEF Informed
<1> HIDE DEF envs
<1>4. /\ p \in Ops /\ Accepts(o, p)
      /\ ApplyOp(o, p) = [o EXCEPT !.containers[c].env = @ \cup envs]
      /\ ApplyOp(o, p) \in Objects
  <2>1. BoxAppends(o, c, "env", envs)
    BY <1>1, BoxAppend
  <2> QED BY <2>1 DEF BoxAppends
<1> HIDE DEF p
<1>5. <<p>> \in Seq(Ops)
  BY <1>4
<1>6. ApplyPatch(o, <<p>>) = ApplyOp(o, p) /\ Fits(o, <<p>>)
  BY <1>4, OneOperation
<1> QED BY <1>2, <1>3, <1>4, <1>5, <1>6

\* The marker.
LEMMA Stamping ==
    ASSUME NEW o \in Objects
    PROVE  LET stamp == <<Op("stamp", "metadata", "injected", {})>>
           IN  /\ stamp \in Seq(Ops) /\ ApplyPatch(o, stamp) = Stamped(o)
               /\ Stamped(o) \in Objects /\ Fits(o, stamp)
<1> DEFINE p == Op("stamp", "metadata", "injected", {})
<1>1. p \in Ops /\ Accepts(o, p) /\ ApplyOp(o, p) = Stamped(o) /\ Stamped(o) \in Objects
  BY Stamp DEF Stamped
<1> HIDE DEF p
<1>2. <<p>> \in Seq(Ops)
  BY <1>1
<1>3. ApplyPatch(o, <<p>>) = ApplyOp(o, p) /\ Fits(o, <<p>>)
  BY <1>1, OneOperation
<1> QED BY <1>1, <1>2, <1>3 DEF p

\* x is o, wrapped in c: the lists have grown, the command runs through the
\* agent, and everything else is as it was.
Becomes(o, c, x) ==
    /\ x \in Objects /\ x.injected
    /\ x.inject = o.inject /\ x.keyEnv = o.keyEnv
    /\ x.target = o.target /\ x.prebaked = o.prebaked
    /\ x.pod.volumes = o.pod.volumes \cup (IF o.prebaked THEN {} ELSE {SharedVolume})
    /\ x.pod.inits = o.pod.inits \cup (IF o.prebaked THEN {} ELSE {Installer})
    /\ \A d \in ToSet(Names) \ {c} : x.containers[d] = o.containers[d]
    /\ x.containers[c].command =
         WrappedCommand(o.prebaked, o.containers[c].command, o.containers[c].args)
    /\ x.containers[c].args = <<>>
    /\ x.containers[c].env = o.containers[c].env \cup ({PingKey} \cup PrivacyEnv)
    /\ x.containers[c].mounts =
         o.containers[c].mounts \cup (IF o.prebaked THEN {} ELSE {SharedMount})

Wrap(o, c) ==
    Stamped(Informed(Commanded(IF o.prebaked THEN o ELSE Installed(o, c), c), c))

\* The four parts after each other, field by field.
LEMMA WrapIs ==
    ASSUME NEW o \in Objects, NEW c \in ToSet(Names)
    PROVE  Becomes(o, c, Wrap(o, c))
<1> DEFINE x == IF o.prebaked THEN o ELSE Installed(o, c)
           y == Commanded(x, c)
           z == Informed(y, c)
<1>1. x \in Objects /\ y \in Objects /\ z \in Objects /\ Stamped(z) \in Objects
  BY Installing, Commanding, Informing, Stamping
<1>2. /\ x.inject = o.inject /\ x.keyEnv = o.keyEnv
      /\ x.target = o.target /\ x.prebaked = o.prebaked
      /\ x.pod.volumes = o.pod.volumes \cup (IF o.prebaked THEN {} ELSE {SharedVolume})
      /\ x.pod.inits = o.pod.inits \cup (IF o.prebaked THEN {} ELSE {Installer})
  BY DEF Installed, Objects
<1>3. /\ \A d \in ToSet(Names) \ {c} : x.containers[d] = o.containers[d]
      /\ x.containers[c] = [o.containers[c] EXCEPT
             !.mounts = @ \cup (IF o.prebaked THEN {} ELSE {SharedMount})]
  <2>1. CASE o.prebaked
    BY <2>1 DEF Objects, Boxes
  <2>2. CASE ~o.prebaked
    BY <2>2 DEF Installed, Objects, Boxes
  <2> QED BY <2>1, <2>2
<1>4. /\ x.containers[c].command = o.containers[c].command
      /\ x.containers[c].args = o.containers[c].args
      /\ x.containers[c].env = o.containers[c].env
      /\ x.containers[c].mounts =
           o.containers[c].mounts \cup (IF o.prebaked THEN {} ELSE {SharedMount})
  BY <1>3 DEF Objects, Boxes
<1> HIDE DEF x
<1>5. /\ y.inject = x.inject /\ y.keyEnv = x.keyEnv
      /\ y.target = x.target /\ y.prebaked = x.prebaked /\ y.pod = x.pod
      /\ \A d \in ToSet(Names) \ {c} : y.containers[d] = x.containers[d]
      /\ y.containers[c] = [x.containers[c] EXCEPT
             !.command = WrappedCommand(x.prebaked, x.containers[c].command, x.containers[c].args),
             !.args = <<>>]
  BY <1>1 DEF Commanded, Objects
<1>6. /\ y.containers[c].command =
           WrappedCommand(x.prebaked, x.containers[c].command, x.containers[c].args)
      /\ y.containers[c].args = <<>>
      /\ y.containers[c].env = x.containers[c].env
      /\ y.containers[c].mounts = x.containers[c].mounts
  BY <1>1, <1>5 DEF Objects, Boxes
<1> HIDE DEF y
<1>7. /\ z.inject = y.inject /\ z.keyEnv = y.keyEnv
      /\ z.target = y.target /\ z.prebaked = y.prebaked /\ z.pod = y.pod
      /\ \A d \in ToSet(Names) \ {c} : z.containers[d] = y.containers[d]
      /\ z.containers[c] = [y.containers[c] EXCEPT !.env = @ \cup ({PingKey} \cup PrivacyEnv)]
  BY <1>1 DEF Informed, Objects
<1>8. /\ z.containers[c].command = y.containers[c].command
      /\ z.containers[c].args = y.containers[c].args
      /\ z.containers[c].env = y.containers[c].env \cup ({PingKey} \cup PrivacyEnv)
      /\ z.containers[c].mounts = y.containers[c].mounts
  BY <1>1, <1>7 DEF Objects, Boxes
<1> HIDE DEF z
<1> DEFINE w == Stamped(z)
<1>9. /\ w.injected
      /\ w.inject = z.inject /\ w.keyEnv = z.keyEnv /\ w.target = z.target
      /\ w.prebaked = z.prebaked /\ w.pod = z.pod /\ w.containers = z.containers
  BY <1>1 DEF Stamped, Objects
<1>10. w = Wrap(o, c) /\ w \in Objects
  BY <1>1 DEF Wrap, x, y, z
<1> HIDE DEF w
<1>11. /\ w.injected /\ w.inject = o.inject /\ w.keyEnv = o.keyEnv
       /\ w.target = o.target /\ w.prebaked = o.prebaked /\ w.pod = x.pod
  BY <1>2, <1>5, <1>7, <1>9
<1>12. \A d \in ToSet(Names) \ {c} : w.containers[d] = o.containers[d]
  BY <1>3, <1>5, <1>7, <1>9
<1>13. /\ w.containers[c].command =
            WrappedCommand(o.prebaked, o.containers[c].command, o.containers[c].args)
       /\ w.containers[c].args = <<>>
  BY <1>2, <1>4, <1>6, <1>8, <1>9
<1>14. /\ w.containers[c].env = o.containers[c].env \cup ({PingKey} \cup PrivacyEnv)
       /\ w.containers[c].mounts =
            o.containers[c].mounts \cup (IF o.prebaked THEN {} ELSE {SharedMount})
  BY <1>4, <1>6, <1>8, <1>9
<1> QED BY <1>2, <1>10, <1>11, <1>12, <1>13, <1>14, Zenon DEF Becomes

\* A patch of parts, each of them computed from the unpatched object.
LEMMA TheParts ==
    ASSUME NEW o \in Objects, NEW c \in ToSet(Names)
    PROVE  LET a == IF o.prebaked THEN <<>> ELSE InstallOps(o, c)
               stamp == <<Op("stamp", "metadata", "injected", {})>>
               patch == a \o CommandOps(o, c) \o EnvOps(o, c) \o stamp
           IN  /\ ApplyPatch(o, patch) = Wrap(o, c)
               /\ o.containers[c].command # <<>> /\ (o.prebaked \/ Uninstalled(o, c))
                    => Fits(o, patch)
<1> DEFINE a == IF o.prebaked THEN <<>> ELSE InstallOps(o, c)
           b == CommandOps(o, c)
           e == EnvOps(o, c)
           s == <<Op("stamp", "metadata", "injected", {})>>
           x == IF o.prebaked THEN o ELSE Installed(o, c)
           y == Commanded(x, c)
           z == Informed(y, c)
           Can == o.containers[c].command # <<>> /\ (o.prebaked \/ Uninstalled(o, c))
<1>1. x \in Objects /\ y \in Objects /\ z \in Objects
  BY Installing, Commanding, Informing
<1>2. /\ a \in Seq(Ops) /\ ApplyPatch(o, a) = x /\ (Can => Fits(o, a))
  BY Installing, NoOperation
<1>3. /\ x.prebaked = o.prebaked /\ x.containers[c].command = o.containers[c].command
      /\ x.containers[c].args = o.containers[c].args
      /\ x.containers[c].env = o.containers[c].env
  <2>1. CASE o.prebaked
    BY <2>1
  <2>2. CASE ~o.prebaked
    BY <2>2 DEF Installed, Objects, Boxes
  <2> QED BY <2>1, <2>2
<1> HIDE DEF x, a
<1>4. b = CommandOps(x, c)
  BY <1>3 DEF CommandOps
<1>5. b \in Seq(Ops) /\ ApplyPatch(x, b) = y /\ (Can => Fits(x, b))
  BY <1>1, <1>3, <1>4, Commanding
<1>6. y.containers[c].env = x.containers[c].env
  <2>1. x.containers[c] \in Boxes
    BY <1>1 DEF Objects
  <2>2. y.containers[c].env = [x.containers[c] EXCEPT
           !.command = WrappedCommand(x.prebaked, x.containers[c].command, x.containers[c].args),
           !.args = <<>>].env
    BY <1>1 DEF Commanded, Objects
  <2> QED BY <2>1, <2>2 DEF Boxes
<1> HIDE DEF y, b
<1>7. e = EnvOps(y, c)
  BY <1>3, <1>6 DEF EnvOps
<1>8. e \in Seq(Ops) /\ ApplyPatch(y, e) = z /\ Fits(y, e)
  BY <1>1, <1>7, Informing
<1> HIDE DEF z, e
<1>9. s \in Seq(Ops) /\ ApplyPatch(z, s) = Stamped(z) /\ Fits(z, s)
  BY <1>1, Stamping
<1> HIDE DEF s, Can
<1>10. a \o b \in Seq(Ops) /\ ApplyPatch(o, a \o b) = y /\ (Can => Fits(o, a \o b))
  BY <1>2, <1>5, PatchConcat, ConcatProperties
<1> DEFINE ab == a \o b
<1> HIDE DEF ab
<1>11. ab \o e \in Seq(Ops) /\ ApplyPatch(o, ab \o e) = z /\ (Can => Fits(o, ab \o e))
  <2>1. ab \in Seq(Ops) /\ ApplyPatch(o, ab) = y /\ (Can => Fits(o, ab))
    BY <1>10 DEF ab
  <2> QED BY <1>8, <2>1, PatchConcat, ConcatProperties
<1> DEFINE abe == ab \o e
<1> HIDE DEF abe
<1>12. ApplyPatch(o, abe \o s) = Stamped(z) /\ (Can => Fits(o, abe \o s))
  <2>1. abe \in Seq(Ops) /\ ApplyPatch(o, abe) = z /\ (Can => Fits(o, abe))
    BY <1>11 DEF abe
  <2> QED BY <1>9, <2>1, PatchConcat
<1>13. Stamped(z) = Wrap(o, c)
  BY DEF Wrap, x, y, z
<1> QED BY <1>12, <1>13 DEF a, b, e, s, ab, abe, Can

\* targetContainerIndex names one container, which has a command.
LEMMA TheTarget ==
    ASSUME NEW o \in Objects, ~Skipped(o)
    PROVE  \E c \in ToSet(Names) :
             /\ Target(o) = {c} /\ (CHOOSE n \in Target(o) : TRUE) = c
             /\ o.containers[c].command # <<>>
<1>1. PICK c \in Target(o) : o.containers[c].command # <<>>
  BY DEF Skipped
<1>2. Target(o) = {c} /\ c \in ToSet(Names)
  <2>1. CASE o.target = ""
    BY <1>1, <2>1, TheNames DEF Target, Names
  <2>2. CASE o.target # ""
    BY <1>1, <2>2 DEF Target
  <2> QED BY <2>1, <2>2
<1>3. (CHOOSE n \in Target(o) : TRUE) = c
  BY <1>2
<1> QED BY <1>1, <1>2, <1>3

\* What a review does to an object: nothing, or it is wrapped in its target;
\* and the patch fits unless something of the installation is there already.
Reviews(o, x) ==
    \/ Skipped(o) /\ x = o /\ Fits(o, BuildInjection(o))
    \/ /\ ~Skipped(o)
       /\ \E c \in ToSet(Names) :
            /\ Target(o) = {c} /\ o.containers[c].command # <<>>
            /\ Becomes(o, c, x)
            /\ o.prebaked \/ Uninstalled(o, c) => Fits(o, BuildInjection(o))

\* A review of any object leaves it as it is or wraps it in its target, and its
\* patch fits unless a part of the installation is there already.
THEOREM ReviewIs ==
    ASSUME NEW o \in Objects
    PROVE  Reviews(o, ApplyPatch(o, BuildInjection(o)))
<1> DEFINE patch == BuildInjection(o)
           x == ApplyPatch(o, patch)
<1>1. CASE Skipped(o)
  <2>1. patch = <<>>
    BY <1>1 DEF BuildInjection
  <2> QED BY <1>1, <2>1, NoOperation DEF Reviews
<1>2. CASE ~Skipped(o)
  <2>1. PICK c \in ToSet(Names) :
          /\ Target(o) = {c} /\ (CHOOSE n \in Target(o) : TRUE) = c
          /\ o.containers[c].command # <<>>
    BY <1>2, TheTarget
  <2>2. patch = (IF o.prebaked THEN <<>> ELSE InstallOps(o, c))
                  \o CommandOps(o, c) \o EnvOps(o, c)
                  \o <<Op("stamp", "metadata", "injected", {})>>
    BY <1>2, <2>1, Zenon DEF BuildInjection
  <2>3. /\ x = Wrap(o, c)
        /\ o.containers[c].command # <<>> /\ (o.prebaked \/ Uninstalled(o, c)) => Fits(o, patch)
    BY <2>2, TheParts
  <2>4. Becomes(o, c, x)
    BY <2>3, WrapIs
  <2> HIDE DEF x, patch
  <2>5. Reviews(o, x)
    BY <1>2, <2>1, <2>3, <2>4 DEF Reviews, patch
  <2> QED BY <2>5 DEF x, patch
<1> QED BY <1>1, <1>2

\* A review of what was reviewed changes nothing: the marker of the first
\* stops the second (the API server may invoke a webhook again, and a stored
\* object is reviewed with every update).
THEOREM Idempotent ==
    ASSUME NEW o \in Objects
    PROVE  LET x == ApplyPatch(o, BuildInjection(o))
           IN  ApplyPatch(x, BuildInjection(x)) = x
<1> DEFINE x == ApplyPatch(o, BuildInjection(o))
<1>1. x \in Objects /\ Skipped(x)
  <2>1. Reviews(o, x)
    BY ReviewIs
  <2> HIDE DEF x
  <2>2. CASE Skipped(o)
    BY <2>1, <2>2 DEF Reviews
  <2>3. CASE ~Skipped(o)
    BY <2>1, <2>3 DEF Reviews, Becomes, Skipped
  <2> QED BY <2>2, <2>3
<1> HIDE DEF x
<1>2. ApplyPatch(x, BuildInjection(x)) = x
  BY <1>1, NoOperation DEF BuildInjection
<1> QED BY <1>2 DEF x

\* The marker and the installer are the only reasons to pass over a CronJob
\* that opted in, names its key and says what to run: without them its target
\* is wrapped.  AdmittedIsMonitored fails by the marker (InjectionReapply.cfg).
THEOREM UnmarkedIsWrapped ==
    ASSUME NEW o \in Objects, o.inject, o.keyEnv, ~o.injected, Installer \notin o.pod.inits,
           NEW c \in Target(o), o.containers[c].command # <<>>
    PROVE  Wrapped(ApplyPatch(o, BuildInjection(o)).containers[c])
<1> DEFINE x == ApplyPatch(o, BuildInjection(o))
<1>1. ~Skipped(o)
  BY DEF Skipped
<1>2. Reviews(o, x)
  BY ReviewIs
<1> HIDE DEF x
<1>3. c \in ToSet(Names) /\ Becomes(o, c, x)
  BY <1>1, <1>2 DEF Reviews
<1>4. /\ o.containers[c].command \in Seq(Words) /\ o.containers[c].args \in Seq(Words)
      /\ o.prebaked \in BOOLEAN
  BY <1>3 DEF Objects, Boxes
<1> DEFINE words == WrappedCommand(o.prebaked, o.containers[c].command, o.containers[c].args)
<1>5. words # <<>> /\ Head(words) \in Agents
  BY <1>4, WrapperRunsTheCommand, InjectionAssumption
<1> HIDE DEF words
<1>6. x.containers[c].command = words
  BY <1>3 DEF Becomes, words
<1>7. Wrapped(x.containers[c])
  BY <1>5, <1>6 DEF Wrapped, Agent
<1> QED BY <1>7 DEF x

-----------------------------------------------------------------------------
(* What holds of every stored object and of every submission.              *)

\* Every wrapped container is one that a manifest or the webhook may wrap, and
\* has what it needs.
Covered(o) ==
    \A c \in ToSet(Names) : Wrapped(o.containers[c]) =>
        c \in AgentContainers /\ Complete(o, c)

\* What an agent runs: a job, or an agent of the manifest's own that runs one.
Layers(c, command) ==
    LET job == FindCommandArgs(command)
    IN  job # <<>> /\ (Agent(job) => c \in OwnAgents /\ WrapsJob(job))

Layered(o) ==
    \A c \in ToSet(Names) :
        Wrapped(o.containers[c]) => Layers(c, o.containers[c].command)

\* A container is the target because a manifest made it the target.
Aimed(o) ==
    o.keyEnv \/ o.target # "" => \E m \in Manifests : m.target = o.target

\* What is mounted was mounted by a manifest.
Mountable(o) ==
    \A c \in ToSet(Names) : SharedMount \in o.containers[c].mounts =>
        \E m \in Manifests : SharedMount \in m.containers[c].mounts

\* Nothing of an installation is in it, and what is wrapped has an agent of the
\* manifest's own.
Unwrapped(o) ==
    /\ Plain(o)
    /\ \A c \in ToSet(Names) : Wrapped(o.containers[c]) =>
         c \in OwnAgents /\ WrapsJob(o.containers[c].command)

Sound(o) ==
    /\ Covered(o) /\ Layered(o) /\ Aimed(o)
    /\ ~o.injected => Mountable(o) /\ (Installer \notin o.pod.inits => Unwrapped(o))

\* Before the first submission, and after a deletion.
LEMMA TheBlank ==
    Blank \in Objects /\ MadeOfNames(Blank) /\ Sound(Blank)
<1>1. /\ ~Blank.injected /\ ~Blank.keyEnv /\ Blank.target = "" /\ Blank.pod.volumes = {} /\ Blank.pod.inits = {}
      /\ \A c \in ToSet(Names) : Blank.containers[c] = Container(<<>>, <<>>, {}, {})
  BY DEF Blank
<1>2. Blank \in Objects
  <2>1. Container(<<>>, <<>>, {}, {}) \in Boxes
    BY DEF Container, Boxes
  <2>2. "" \in Targets
    BY DEF Targets
  <2> QED BY <2>1, <2>2 DEF Blank, Objects
<1>3. \A c \in ToSet(Names) :
        LET box == Blank.containers[c]
        IN  box.command = <<>> /\ box.args = <<>> /\ box.env = {} /\ box.mounts = {}
  <2>1. \A c \in ToSet(Names) : Blank.containers[c] = Container(<<>>, <<>>, {}, {})
    BY <1>1
  <2> QED BY <2>1 DEF Container
<1>4. MadeOfNames(Blank)
  <2>1. \A f \in {"volumes", "inits"} : Blank.pod[f] = {}
    BY <1>1 DEF Blank
  <2>2. \A c \in ToSet(Names), f \in {"env", "mounts"} : Blank.containers[c][f] = {}
    BY <1>3
  <2> QED BY <2>1, <2>2 DEF MadeOfNames
<1>5. \A c \in ToSet(Names) : ~Wrapped(Blank.containers[c])
  BY <1>3 DEF Wrapped, Agent
<1>6. Sound(Blank)
  BY <1>1, <1>3, <1>5 DEF Sound, Covered, Layered, Aimed, Mountable, Unwrapped, Plain
<1> QED BY <1>2, <1>4, <1>6

\* What a user submits for the first time, or replaces the object with.
LEMMA TheManifests ==
    ASSUME NEW m \in Manifests
    PROVE  m \in Objects /\ MadeOfNames(m) /\ Sound(m) /\ WellWritten(m)
<1>1. m \in Objects /\ WellWritten(m)
  BY InjectionAssumption
<1>2. MadeOfNames(m)
  BY DEF MadeOfNames, PodNames, BoxNames
<1>3. Covered(m)
  BY <1>1 DEF Covered, WellWritten, AgentContainers
<1>4. Layered(m)
  BY <1>1 DEF Layered, Layers, WellWritten, WrapsJob
<1>5. Aimed(m) /\ Mountable(m)
  BY DEF Aimed, Mountable
<1>6. Installer \notin m.pod.inits => Unwrapped(m)
  BY <1>1 DEF Unwrapped, WellWritten, OwnAgents
<1> QED BY <1>1, <1>2, <1>3, <1>4, <1>5, <1>6 DEF Sound

\* With the opt-in changed, the same holds of an object.
LEMMA TheTouched ==
    ASSUME NEW o \in Objects, MadeOfNames(o), Sound(o), NEW b \in BOOLEAN
    PROVE  LET x == [o EXCEPT !.inject = b]
           IN  x \in Objects /\ MadeOfNames(x) /\ Sound(x)
<1> DEFINE x == [o EXCEPT !.inject = b]
<1>1. /\ x \in Objects /\ x.injected = o.injected /\ x.keyEnv = o.keyEnv
      /\ x.target = o.target /\ x.pod = o.pod /\ x.containers = o.containers
  BY DEF Objects
<1> HIDE DEF x
<1>2. MadeOfNames(x)
  BY <1>1 DEF MadeOfNames
<1>3. /\ Covered(x) /\ Layered(x) /\ Aimed(x)
      /\ (Mountable(o) => Mountable(x)) /\ (Unwrapped(o) => Unwrapped(x))
  BY <1>1 DEF Sound, Covered, Layered, Aimed, Complete, Mountable, Unwrapped, Plain
<1> QED BY <1>1, <1>2, <1>3 DEF Sound, x

\* A list merged by key, and a list taken whole.
Keyed(x, n, l, cur) == x = (cur \ (l \ n)) \cup n

Whole(x, n, l, cur, none) ==
    \/ n # none /\ x = n
    \/ n = none /\ l # none /\ x = none
    \/ n = none /\ l = none /\ x = cur

\* What is there or not: stated now, or before and not dropped.
Stated(x, n, l, cur) == x = (n \/ (cur /\ ~l))

\* Field by field, what kubectl apply submits.
MergesBox(x, n, l, cur) ==
    /\ x \in Boxes
    /\ Whole(x.command, n.command, l.command, cur.command, <<>>)
    /\ Whole(x.args, n.args, l.args, cur.args, <<>>)
    /\ Keyed(x.env, n.env, l.env, cur.env)
    /\ Keyed(x.mounts, n.mounts, l.mounts, cur.mounts)

Merges(x, n, l, cur) ==
    /\ x \in Objects
    /\ Stated(x.injected, n.injected, l.injected, cur.injected)
    /\ Stated(x.keyEnv, n.keyEnv, l.keyEnv, cur.keyEnv)
    /\ Whole(x.target, n.target, l.target, cur.target, "")
    /\ Keyed(x.pod.volumes, n.pod.volumes, l.pod.volumes, cur.pod.volumes)
    /\ Keyed(x.pod.inits, n.pod.inits, l.pod.inits, cur.pod.inits)
    /\ \A c \in ToSet(Names) :
         MergesBox(x.containers[c], n.containers[c], l.containers[c], cur.containers[c])

\* The three-way merge, field by field.
LEMMA MergeIs ==
    ASSUME NEW n \in Objects, NEW l \in Objects, NEW cur \in Objects
    PROVE  Merges(Merge(n, l, cur), n, l, cur)
<1> DEFINE keyed(p, q, r) == (r \ (q \ p)) \cup p
           stated(p, q, r) == p \/ (r /\ ~q)
           whole(p, q, r, none) == IF p # none THEN p ELSE IF q # none THEN none ELSE r
           box(p, q, r) == Container(whole(p.command, q.command, r.command, <<>>),
                                     whole(p.args, q.args, r.args, <<>>),
                                     keyed(p.env, q.env, r.env),
                                     keyed(p.mounts, q.mounts, r.mounts))
           pod == [f \in DOMAIN n.pod |-> keyed(n.pod[f], l.pod[f], cur.pod[f])]
           boxes == [c \in ToSet(Names) |->
                       box(n.containers[c], l.containers[c], cur.containers[c])]
           inject   == stated(n.inject, l.inject, cur.inject)
           injected == stated(n.injected, l.injected, cur.injected)
           keyEnv   == stated(n.keyEnv, l.keyEnv, cur.keyEnv)
           prebaked == stated(n.prebaked, l.prebaked, cur.prebaked)
           target   == whole(n.target, l.target, cur.target, "")
           x == [inject |-> inject, injected |-> injected, keyEnv |-> keyEnv,
                 prebaked |-> prebaked, target |-> target, pod |-> pod, containers |-> boxes]
<1>1. x = Merge(n, l, cur)
  BY Zenon DEF Merge
<1>2. ASSUME NEW p \in Boxes, NEW q \in Boxes, NEW r \in Boxes
      PROVE  MergesBox(box(p, q, r), p, q, r)
  <2>1. /\ p.command \in Seq(Words) /\ q.command \in Seq(Words) /\ r.command \in Seq(Words)
        /\ p.args \in Seq(Words) /\ q.args \in Seq(Words) /\ r.args \in Seq(Words)
        /\ p.env \subseteq Words /\ r.env \subseteq Words
        /\ p.mounts \subseteq Words /\ r.mounts \subseteq Words
    BY DEF Boxes
  <2>2. \A t, u, v \in Seq(Words) :
          /\ whole(t, u, v, <<>>) \in Seq(Words)
          /\ Whole(whole(t, u, v, <<>>), t, u, v, <<>>)
    BY DEF Whole
  <2>3. \A t, u, v : Keyed(keyed(t, u, v), t, u, v)
    BY DEF Keyed
  <2>4. \A t, u, v : t \subseteq Words /\ v \subseteq Words => keyed(t, u, v) \subseteq Words
    OBVIOUS
  <2> HIDE DEF whole, keyed
  <2> DEFINE b == box(p, q, r)
  <2>5. /\ b.command = whole(p.command, q.command, r.command, <<>>)
        /\ b.args = whole(p.args, q.args, r.args, <<>>)
        /\ b.env = keyed(p.env, q.env, r.env)
        /\ b.mounts = keyed(p.mounts, q.mounts, r.mounts)
    BY DEF Container
  <2>6. b \in Boxes
    BY <2>1, <2>2, <2>4 DEF Container, Boxes
  <2> HIDE DEF b
  <2>7. MergesBox(b, p, q, r)
    <3>1. /\ Whole(b.command, p.command, q.command, r.command, <<>>)
          /\ Whole(b.args, p.args, q.args, r.args, <<>>)
      <4>1. /\ Whole(whole(p.command, q.command, r.command, <<>>),
                     p.command, q.command, r.command, <<>>)
            /\ Whole(whole(p.args, q.args, r.args, <<>>), p.args, q.args, r.args, <<>>)
        BY <2>1, <2>2
      <4> QED BY <2>5, <4>1
    <3>2. /\ Keyed(b.env, p.env, q.env, r.env)
          /\ Keyed(b.mounts, p.mounts, q.mounts, r.mounts)
      BY <2>3, <2>5
    <3> QED BY <2>6, <3>1, <3>2 DEF MergesBox
  <2> QED BY <2>7 DEF b
<1> HIDE DEF box
<1>3. \A c \in ToSet(Names) :
        MergesBox(boxes[c], n.containers[c], l.containers[c], cur.containers[c])
  BY <1>2 DEF Objects
<1>4. boxes \in [ToSet(Names) -> Boxes]
  BY <1>3 DEF MergesBox
<1>5. /\ Keyed(pod.volumes, n.pod.volumes, l.pod.volumes, cur.pod.volumes)
      /\ Keyed(pod.inits, n.pod.inits, l.pod.inits, cur.pod.inits)
      /\ pod \in [volumes : SUBSET Words, inits : SUBSET Words]
  BY DEF Keyed, Objects
<1>6. /\ inject \in BOOLEAN /\ injected \in BOOLEAN
      /\ keyEnv \in BOOLEAN /\ prebaked \in BOOLEAN
  OBVIOUS
<1>7. /\ Stated(injected, n.injected, l.injected, cur.injected)
      /\ Stated(keyEnv, n.keyEnv, l.keyEnv, cur.keyEnv)
  BY Zenon DEF Stated
<1>8. target \in Targets /\ Whole(target, n.target, l.target, cur.target, "")
  <2>1. n.target \in Targets /\ l.target \in Targets /\ cur.target \in Targets /\ "" \in Targets
    BY DEF Objects, Targets
  <2> QED BY <2>1 DEF Whole
<1> HIDE DEF boxes, pod, inject, injected, keyEnv, prebaked, target
<1>9. /\ x \in Objects /\ x.injected = injected /\ x.keyEnv = keyEnv /\ x.target = target
      /\ x.pod = pod /\ x.containers = boxes
  BY <1>4, <1>5, <1>6, <1>8 DEF Objects
<1> HIDE DEF x
<1>10. Merges(x, n, l, cur)
  BY <1>3, <1>5, <1>7, <1>8, <1>9 DEF Merges
<1> QED BY <1>1, <1>10

\* A manifest that says nothing of what an agent's container runs has nothing
\* for an agent in it.
Silent(l, c) ==
    l.containers[c].command = <<>> =>
        /\ Installer \notin l.pod.inits /\ SharedVolume \notin l.pod.volumes
        /\ SharedMount \notin l.containers[c].mounts /\ PingKey \notin l.containers[c].env

LEMMA AreNames == AgentContainers \subseteq ToSet(Names)
BY DEF AgentContainers

\* What was applied last, if anything.
LEMMA TheLast ==
    ASSUME NEW l \in Manifests \cup {Blank}
    PROVE  /\ l \in Objects /\ ~l.injected
           /\ \A c \in AgentContainers : Silent(l, c)
           /\ Installer \in l.pod.inits =>
                /\ SharedVolume \in l.pod.volumes
                /\ \A c \in ToSet(Names), m \in Manifests :
                     SharedMount \in m.containers[c].mounts => SharedMount \in l.containers[c].mounts
<1>1. CASE l \in Manifests
  BY <1>1, TheManifests DEF WellWritten, Equips, Silent
<1>2. CASE l = Blank
  BY <1>2, TheBlank, AreNames DEF Blank, Container, Silent
<1> QED BY <1>1, <1>2

\* A submission takes over from the stored object only what the last manifest
\* did not state, so that what was wrapped stays wrapped and equipped, and
\* what loses its wrapper loses all of it.
LEMMA TheMerged ==
    ASSUME NEW n \in Manifests, NEW l \in Manifests \cup {Blank},
           NEW cur \in Objects, MadeOfNames(cur), Sound(cur)
    PROVE  LET x == Merge(n, l, cur)
           IN  x \in Objects /\ MadeOfNames(x) /\ Sound(x)
<1> DEFINE x == Merge(n, l, cur)
<1>1. n \in Objects /\ MadeOfNames(n) /\ Sound(n) /\ WellWritten(n)
  BY TheManifests
<1>2. Merges(x, n, l, cur)
  BY <1>1, TheLast, MergeIs
<1> HIDE DEF x
<1>3. /\ x \in Objects /\ x.injected = cur.injected
      /\ x.keyEnv => n.keyEnv \/ cur.keyEnv
      /\ Whole(x.target, n.target, l.target, cur.target, "")
  <2>1. ~n.injected /\ ~l.injected /\ cur.injected \in BOOLEAN
    BY <1>1, TheLast DEF WellWritten, Objects
  <2> QED BY <1>2, <2>1 DEF Merges, Stated
<1>4. /\ Keyed(x.pod.volumes, n.pod.volumes, l.pod.volumes, cur.pod.volumes)
      /\ Keyed(x.pod.inits, n.pod.inits, l.pod.inits, cur.pod.inits)
  BY <1>2 DEF Merges
<1>5. ASSUME NEW c \in ToSet(Names)
      PROVE  /\ Whole(x.containers[c].command, n.containers[c].command,
                      l.containers[c].command, cur.containers[c].command, <<>>)
             /\ Keyed(x.containers[c].env, n.containers[c].env,
                      l.containers[c].env, cur.containers[c].env)
             /\ Keyed(x.containers[c].mounts, n.containers[c].mounts,
                      l.containers[c].mounts, cur.containers[c].mounts)
  BY <1>2 DEF Merges, MergesBox
<1>6. MadeOfNames(x)
  <2>1. \A f \in {"volumes", "inits"} : x.pod[f] \subseteq PodNames(f)
    BY <1>1, <1>4 DEF MadeOfNames, Keyed
  <2>2. \A c \in ToSet(Names), f \in {"env", "mounts"} :
          x.containers[c][f] \subseteq BoxNames(f)
    BY <1>1, <1>5 DEF MadeOfNames, Keyed
  <2> QED BY <2>1, <2>2 DEF MadeOfNames
<1>7. \* A wrapped container was wrapped by the manifest or before.
      ASSUME NEW c \in ToSet(Names), Wrapped(x.containers[c])
      PROVE  \/ /\ Wrapped(n.containers[c])
                /\ x.containers[c].command = n.containers[c].command
             \/ /\ Wrapped(cur.containers[c]) /\ l.containers[c].command = <<>>
                /\ x.containers[c].command = cur.containers[c].command
  BY <1>5, <1>7 DEF Whole, Wrapped, Agent
<1>8. Covered(x)
  <2> SUFFICES ASSUME NEW c \in ToSet(Names), Wrapped(x.containers[c])
               PROVE  c \in AgentContainers /\ Complete(x, c)
    BY DEF Covered
  <2>1. CASE /\ Wrapped(n.containers[c])
             /\ x.containers[c].command = n.containers[c].command
    <3>1. c \in AgentContainers /\ Complete(n, c)
      BY <1>1, <2>1 DEF Sound, Covered
    <3>2. Complete(x, c)
      BY <1>4, <1>5, <2>1, <3>1 DEF Complete, Keyed
    <3> QED BY <3>1, <3>2
  <2>2. CASE /\ Wrapped(cur.containers[c]) /\ l.containers[c].command = <<>>
             /\ x.containers[c].command = cur.containers[c].command
    <3>1. c \in AgentContainers /\ Complete(cur, c)
      BY <2>2 DEF Sound, Covered
    <3>2. Silent(l, c)
      BY <3>1, TheLast
    <3>3. Complete(x, c)
      BY <1>4, <1>5, <2>2, <3>1, <3>2 DEF Complete, Keyed, Silent
    <3> QED BY <3>1, <3>3
  <2> QED BY <1>7, <2>1, <2>2
<1>9. Layered(x)
  <2>1. Layered(n) /\ Layered(cur)
    BY <1>1 DEF Sound
  <2> QED BY <1>7, <2>1 DEF Layered
<1>10. Aimed(x)
  <2> SUFFICES ASSUME x.keyEnv \/ x.target # ""
               PROVE  \E m \in Manifests : m.target = x.target
    BY DEF Aimed
  <2>1. CASE x.target = n.target
    BY <2>1
  <2>2. CASE x.target # n.target
    <3>1. n.target = "" /\ x.target = cur.target /\ x.target # ""
      BY <1>3, <2>2 DEF Whole
    <3> QED BY <1>1, <3>1 DEF Sound, Aimed
  <2> QED BY <2>1, <2>2
<1>11. ASSUME ~x.injected PROVE Mountable(x)
  <2>1. Mountable(cur)
    BY <1>3, <1>11 DEF Sound
  <2> QED BY <1>5, <2>1 DEF Mountable, Keyed
<1>12. ASSUME ~x.injected, Installer \notin x.pod.inits PROVE Unwrapped(x)
  <2>1. /\ Installer \notin n.pod.inits
        /\ Installer \notin cur.pod.inits \/ Installer \in l.pod.inits
    BY <1>4, <1>12 DEF Keyed
  <2>2. Unwrapped(n)
    BY <2>1, TheManifests DEF Sound, WellWritten
  <2>3. /\ Covered(cur) /\ Mountable(cur)
        /\ Installer \notin cur.pod.inits => Unwrapped(cur)
    BY <1>3, <1>12 DEF Sound
  <2>4. SharedVolume \notin x.pod.volumes
    BY <1>4, <2>1, <2>2, <2>3, TheLast DEF Keyed, Unwrapped, Plain
  <2>5. ASSUME NEW c \in ToSet(Names) PROVE SharedMount \notin x.containers[c].mounts
    <3>1. CASE Installer \notin cur.pod.inits
      BY <1>5, <2>2, <2>3, <3>1 DEF Keyed, Unwrapped, Plain
    <3>2. CASE Installer \in l.pod.inits
      BY <1>5, <2>2, <2>3, <3>2, TheLast DEF Keyed, Unwrapped, Plain, Mountable
    <3> QED BY <2>1, <3>1, <3>2
  <2>6. ASSUME NEW c \in ToSet(Names), Wrapped(x.containers[c])
        PROVE  c \in OwnAgents /\ WrapsJob(x.containers[c].command)
    <3>1. CASE /\ Wrapped(n.containers[c])
               /\ x.containers[c].command = n.containers[c].command
      BY <2>2, <3>1 DEF Unwrapped
    <3>2. CASE /\ Wrapped(cur.containers[c]) /\ l.containers[c].command = <<>>
               /\ x.containers[c].command = cur.containers[c].command
      <4>1. Installer \notin l.pod.inits
        BY <2>3, <3>2, TheLast DEF Covered, Silent
      <4> QED BY <2>1, <2>3, <3>2, <4>1 DEF Unwrapped
    <3> QED BY <1>7, <2>6, <3>1, <3>2
  <2> QED BY <2>4, <2>5, <2>6 DEF Unwrapped, Plain
<1> QED BY <1>3, <1>6, <1>8, <1>9, <1>10, <1>11, <1>12 DEF Sound, x

Good(o) == o \in Objects /\ MadeOfNames(o) /\ Sound(o)

\* What the webhook changes was nothing of an installation, so its patch fits;
\* all that the wrapper needs comes with it; and behind it there is a command,
\* or an agent of the manifest's own with one.
LEMMA TheReviewed ==
    ASSUME NEW o, Good(o)
    PROVE  Fits(o, BuildInjection(o)) /\ Good(ApplyPatch(o, BuildInjection(o)))
<1> DEFINE patch == BuildInjection(o)
           x == ApplyPatch(o, patch)
<1>1. o \in Objects /\ MadeOfNames(o) /\ Sound(o)
  BY DEF Good
<1>2. Reviews(o, x)
  BY <1>1, ReviewIs
<1> HIDE DEF x, patch
<1>3. CASE Skipped(o)
  BY <1>2, <1>3 DEF Reviews, Good, x, patch
<1>4. CASE ~Skipped(o)
  <2>1. PICK c \in ToSet(Names) :
          /\ Target(o) = {c} /\ o.containers[c].command # <<>>
          /\ Becomes(o, c, x)
          /\ o.prebaked \/ Uninstalled(o, c) => Fits(o, patch)
    BY <1>2, <1>4 DEF Reviews, patch
  <2>2. ~o.injected /\ Installer \notin o.pod.inits /\ o.keyEnv
    BY <1>4 DEF Skipped
  <2>3. Unwrapped(o) /\ c \in AgentContainers
    <3>1. PICK m \in Manifests : m.target = o.target
      BY <1>1, <2>2 DEF Sound, Aimed
    <3>2. c \in Target(m)
      BY <2>1, <3>1 DEF Target
    <3> QED BY <1>1, <2>2, <3>2 DEF Sound, AgentContainers
  <2>4. Fits(o, patch)
    BY <2>1, <2>2, <2>3 DEF Uninstalled, Unwrapped, Plain
  <2>5. MadeOfNames(x)
    <3>1. \A f \in {"volumes", "inits"} : x.pod[f] \subseteq PodNames(f)
      <4>1. SharedVolume \in PodNames("volumes") /\ Installer \in PodNames("inits")
        BY Zenon DEF PodNames
      <4>2. /\ o.pod.volumes \subseteq PodNames("volumes") /\ o.pod.inits \subseteq PodNames("inits")
        BY <1>1 DEF MadeOfNames
      <4>3. /\ x.pod.volumes \subseteq o.pod.volumes \cup {SharedVolume}
            /\ x.pod.inits \subseteq o.pod.inits \cup {Installer}
        BY <2>1 DEF Becomes
      <4>4. x.pod.volumes \subseteq PodNames("volumes") /\ x.pod.inits \subseteq PodNames("inits")
        BY <4>1, <4>2, <4>3
      <4> QED BY <4>4
    <3>2. ASSUME NEW d \in ToSet(Names), NEW f \in {"env", "mounts"}
          PROVE  x.containers[d][f] \subseteq BoxNames(f)
      <4>1. o.containers[d][f] \subseteq BoxNames(f)
        BY <1>1 DEF MadeOfNames
      <4>2. {SharedMount, PingKey} \cup PrivacyEnv \subseteq BoxNames(f)
        BY DEF BoxNames
      <4>3. CASE d = c
        BY <2>1, <4>1, <4>2, <4>3 DEF Becomes
      <4>4. CASE d # c
        BY <2>1, <4>1, <4>4 DEF Becomes
      <4> QED BY <4>3, <4>4
    <3> QED BY <3>1, <3>2 DEF MadeOfNames
  <2> DEFINE box == o.containers[c]
             words == WrappedCommand(o.prebaked, box.command, box.args)
  <2>6. /\ box.command \in Seq(Words) /\ box.args \in Seq(Words) /\ o.prebaked \in BOOLEAN
        /\ box.command # <<>>
    BY <1>1, <2>1 DEF Objects, Boxes
  <2>7. /\ Head(words) = IF o.prebaked THEN OnPath ELSE Binary
        /\ FindCommandArgs(words) = box.command \o box.args
    BY <2>6, WrapperRunsTheCommand
  <2>8. x.containers[c].command = words /\ \A d \in ToSet(Names) \ {c} : x.containers[d] = o.containers[d]
    BY <2>1 DEF Becomes
  <2>9. Complete(x, c)
    <3> HIDE DEF words
    <3> QED BY <2>1, <2>7, <2>8 DEF Complete, Becomes, Binary, OnPath
  <2>10. Layers(c, words)
    <3> DEFINE p == box.command
               q == box.args
    <3>1. p \in Seq(Words) /\ q \in Seq(Words) /\ p # <<>>
      BY <2>6
    <3>2. Agent(p) => c \in OwnAgents /\ WrapsJob(p)
      BY <2>3 DEF Unwrapped, Wrapped
    <3>3. FindCommandArgs(words) = p \o q
      BY <2>7
    <3> HIDE DEF p, q, words
    <3>4. p \o q # <<>> /\ Head(p \o q) = Head(p)
      BY <3>1, FrontHead
    <3>5. Agent(p \o q) => c \in OwnAgents /\ WrapsJob(p \o q)
      BY <3>1, <3>2, <3>4, WrapsMore DEF Agent
    <3> QED BY <3>3, <3>4, <3>5 DEF Layers
  <2> HIDE DEF words, box
  <2>11. ASSUME NEW d \in ToSet(Names), Wrapped(x.containers[d])
        PROVE  /\ d \in AgentContainers /\ Complete(x, d)
               /\ Layers(d, x.containers[d].command)
    <3>1. CASE d = c
      BY <2>3, <2>8, <2>9, <2>10, <3>1
    <3>2. CASE d # c
      <4>1. x.containers[d] = o.containers[d] /\ Wrapped(o.containers[d])
        BY <2>8, <2>11, <3>2
      <4>2. /\ d \in AgentContainers /\ Complete(o, d)
            /\ Layers(d, o.containers[d].command)
        BY <1>1, <4>1 DEF Sound, Covered, Layered
      <4>3. o.pod.volumes \subseteq x.pod.volumes /\ o.pod.inits \subseteq x.pod.inits
        BY <2>1 DEF Becomes
      <4> QED BY <4>1, <4>2, <4>3 DEF Complete
    <3> QED BY <3>1, <3>2
  <2>12. Sound(x)
    <3>1. Aimed(x) /\ x.injected
      BY <1>1, <2>1 DEF Sound, Aimed, Becomes
    <3> QED BY <2>11, <3>1 DEF Sound, Covered, Layered
  <2> QED BY <2>1, <2>4, <2>5, <2>12 DEF Good, Becomes, x, patch
<1> QED BY <1>3, <1>4

\* Whatever is submitted next, its patch fits.
LEMMA TheSubmissions ==
    ASSUME NEW n \in Manifests, NEW l \in Manifests \cup {Blank}, NEW cur, Good(cur)
    PROVE  /\ Good(n) /\ Good(Merge(n, l, cur))
           /\ \A b \in BOOLEAN : Good([cur EXCEPT !.inject = b])
BY TheManifests, TheMerged, TheTouched DEF Good

-----------------------------------------------------------------------------
(* The specification.                                                      *)

\* Beyond its type, the stored object is sound.
IInv == TypeOK /\ Sound(live)

\* The stored object is good, and the one it came from of the same type.
LEMMA AdmitIs ==
    ASSUME NEW o, Good(o), Good(live), meant \in Objects, MadeOfNames(meant),
           up \in BOOLEAN, reviewed \in BOOLEAN, Admit(o)
    PROVE  Good(live') /\ meant' \in Objects /\ MadeOfNames(meant') /\ reviewed' \in BOOLEAN
<1>1. CASE up
  BY <1>1, TheReviewed DEF Admit, Review, Good
<1>2. CASE ~up
  BY <1>2, NoOperation DEF Admit, Review, Good
<1> QED BY <1>1, <1>2

\* The invariant holds of no object, and every action leads to a good one.
LEMMA InitIInv == Init => IInv
BY TheBlank DEF Init, IInv, TypeOK

LEMMA NextIInv == IInv /\ [Next]_vars => IInv'
<1> SUFFICES ASSUME IInv, [Next]_vars PROVE IInv'
  OBVIOUS
<1> USE DEF IInv, TypeOK
<1>1. Good(live) /\ manifest \in Manifests /\ last \in Manifests \cup {Blank}
  BY DEF Good
<1>2. CASE Apply
  <2>1. Good(Merge(manifest, last, live))
    BY <1>1, TheSubmissions
  <2> QED BY <1>1, <1>2, <2>1, AdmitIs DEF Apply, Good
<1>3. CASE Replace
  <2>1. Good(manifest)
    BY <1>1, TheSubmissions
  <2> QED BY <1>1, <1>3, <2>1, AdmitIs DEF Replace, Good
<1>4. CASE Touch
  <2>1. PICK b \in BOOLEAN : Admit([live EXCEPT !.inject = b])
    BY <1>4 DEF Touch
  <2>2. Good([live EXCEPT !.inject = b])
    BY <1>1, TheSubmissions
  <2> QED BY <1>1, <1>4, <2>1, <2>2, AdmitIs DEF Touch, Good
<1>5. CASE Delete
  BY <1>5, TheBlank DEF Delete
<1>6. CASE Edit
  BY <1>6 DEF Edit
<1>7. CASE Flip
  BY <1>7 DEF Flip
<1>8. CASE UNCHANGED vars
  BY <1>8 DEF vars
<1> QED BY <1>2, <1>3, <1>4, <1>5, <1>6, <1>7, <1>8 DEF Next

\* Whatever is applied, replaced, edited and deleted, with the webhook up or
\* down, the stored object is sound.
THEOREM Invariance == Spec => []IInv
<1> QED BY InitIInv, NextIInv, PTL DEF Spec

\* The variables have their types: an object never holds a name that no
\* manifest and no injection puts there.
THEOREM TypeCorrect == Spec => []TypeOK
<1>1. IInv => TypeOK
  BY DEF IInv
<1> QED BY <1>1, Invariance, PTL

\* So is every object that may be submitted next.
LEMMA GoodSubmissions == IInv => \A o \in Submissions : Good(o)
<1> SUFFICES ASSUME IInv, NEW o \in Submissions PROVE Good(o)
  OBVIOUS
<1>1. Good(live) /\ manifest \in Manifests /\ last \in Manifests \cup {Blank}
  BY DEF IInv, TypeOK, Good
<1> QED BY <1>1, TheSubmissions DEF Submissions

\* The webhook does no harm: after any applies, replacements, edits, deletions
\* and outages, its patch fits whatever is submitted next, so that the API
\* server never refuses a CronJob because of it.
THEOREM DoesNoHarm == Spec => []NeverBlocks
<1>1. IInv => NeverBlocks
  BY GoodSubmissions, TheReviewed DEF NeverBlocks
<1> QED BY <1>1, Invariance, PTL

\* The webhook adds one agent at most: the agent of a stored CronJob runs a
\* command, and another agent only in a container for which a manifest has one
\* of its own, which runs no third.
THEOREM WrapsOnce == Spec => []WrappedOnce
<1>1. IInv => WrappedOnce
  BY DEF IInv, Sound, Layered, Layers, WrappedOnce
<1> QED BY <1>1, Invariance, PTL

\* No CronJob is stored with half a wrapper: a container that runs through the
\* agent has the ping key, and the volume, mount and init container that its
\* binary comes from.
THEOREM WrapsCompletely == Spec => []WrapperComplete
<1>1. IInv => WrapperComplete
  BY DEF IInv, Sound, Covered, WrapperComplete
<1> QED BY <1>1, Invariance, PTL

-----------------------------------------------------------------------------
(* The job is preserved.                                                   *)

\* Manifests, and what comes of them before the webhook wraps it, have no
\* separator but that of an agent of their own.
Tidy(o) == \A c \in ToSet(Names) : SeparatorFree(o.containers[c])

LEMMA FreeIsWithout ==
    ASSUME NEW s \in Seq(Words), Separator \notin ToSet(s)
    PROVE  Without(s, Separator)
BY LenProperties DEF ToSet, Without

\* Associativity, for a head of two words.
LEMMA Behead ==
    ASSUME NEW S, NEW h \in S, NEW e \in S, NEW p \in Seq(S)
    PROVE  /\ Tail(<<h, e>> \o p) = <<e>> \o p
           /\ <<h, e>> \o p \in Seq(S) /\ <<h, e>> \o p # <<>>
           /\ Head(<<h, e>> \o p) = h
OBVIOUS

\* The command of an agent as an agent's manifest has it: what the agent runs
\* is what stands behind the separator, with the arguments behind that, and
\* another agent in front finds the same.
LEMMA OwnAgent ==
    ASSUME NEW command \in Seq(Words), NEW args \in Seq(Words),
           Agent(command), ExecShaped(command), Without(args, Separator)
    PROVE  AgentCommand(Tail(command \o args)) = FindCommandArgs(command \o args)
<1>1. PICK i \in DOMAIN command :
        LET flags == SubSeq(command, 3, i - 1)
        IN  /\ command = <<Head(command), "exec">> \o flags \o <<Separator>> \o After(command, i)
            /\ ToSet(flags) \subseteq Flags
            /\ Separator \notin ToSet(After(command, i))
  BY DEF ExecShaped
<1> DEFINE f == SubSeq(command, 3, i - 1)
           j == After(command, i)
           h == Head(command)
           s == <<Separator>>
           he == <<h, "exec">>
           w == j \o args
           rest == f \o s \o w
<1>2. Len(command) \in Nat /\ i \in 1..Len(command) /\ \A k \in 1..Len(command) : command[k] \in Words
  BY LenProperties, ElementOfSeq
<1>3. f \in Seq(Words)
  <2>1. \A k \in 3..(i - 1) : command[k] \in Words
    BY <1>2
  <2> QED BY <1>2, <2>1, SubSeqProperties
<1>4. j \in Seq(Words)
  <2>1. \A k \in (i + 1)..Len(command) : command[k] \in Words
    BY <1>2
  <2>2. SubSeq(command, i + 1, Len(command)) \in Seq(Words)
    BY <1>2, <2>1, SubSeqProperties
  <2> QED BY <2>2 DEF After
<1>5. /\ h \in Words /\ h # Separator /\ "exec" \in Words /\ "exec" # Separator
      /\ Separator \in Words
  BY TheWords, InjectionAssumption DEF Agent, Separator
<1>6. command = he \o f \o s \o j
  BY <1>1
<1>7. \A k \in 1..Len(f) : f[k] \in Flags
  BY <1>1, <1>3, LenProperties DEF ToSet
<1>8. Without(j, Separator)
  BY <1>1, <1>4, FreeIsWithout
<1>9. he \in Seq(Words) /\ Without(he, Separator) /\ s \in Seq(Words)
  BY <1>5 DEF Without
<1> HIDE DEF f, j, h
<1>10. w \in Seq(Words) /\ FindCommandArgs(w) = w
  BY <1>4, <1>8, ConcatWithout, FindNone
<1>11. Without(f, Separator)
  <2>1. Separator \notin Flags
    BY DEF Separator, Flags
  <2> QED BY <1>7, <2>1 DEF Without
<1>12. he \o f \in Seq(Words) /\ Without(he \o f, Separator)
  <2> HIDE DEF he
  <2> QED BY <1>3, <1>9, <1>11, ConcatWithout
<1>13. command \o args = (he \o f) \o s \o w
  <2> DEFINE u == he \o f
  <2>1. u \in Seq(Words)
    BY <1>12
  <2>2. command = u \o s \o j
    BY <1>6
  <2> HIDE DEF u
  <2>3. Shifts(u, j, args)
    BY <1>4, <1>5, <2>1, Shift
  <2> QED BY <2>2, <2>3 DEF u, Shifts
<1>14. (he \o f) \o s \o w = he \o rest
  <2> HIDE DEF he, s, w
  <2>1. \A p, q, t \in Seq(Words) : Cat(Cat(p, q), t) = Cat(p, Cat(q, t))
    BY CatAssociative
  <2>2. \A p, q \in Seq(Words) : Cat(p, q) \in Seq(Words)
    BY CatTypes
  <2>3. Cat(Cat(Cat(he, f), s), w) = Cat(he, Cat(Cat(f, s), w))
    BY <1>3, <1>9, <1>10, <2>1, <2>2
  <2> QED BY <2>3 DEF Cat
<1>15. rest \in Seq(Words)
  BY <1>3, <1>5, <1>10, Around DEF Splits
<1>16. FindCommandArgs(command \o args) = w
  <2> DEFINE u == he \o f
  <2> HIDE DEF u, w
  <2>1. FindCommandArgs(u \o <<Separator>> \o w) = w
    BY <1>5, <1>10, <1>12, FindBehind DEF u
  <2> QED BY <1>13, <2>1 DEF u
<1>17. AgentCommand(Tail(command \o args)) = w
  <2>1. Tail(he \o rest) = <<"exec">> \o rest
    <3> HIDE DEF rest
    <3> QED BY <1>5, <1>15, Behead
  <2>2. AgentCommand(<<"exec">> \o rest) = w
    <3> HIDE DEF w
    <3>1. {Separator, "exec"} \subseteq Words
      BY <1>5
    <3>2. (\A k \in 1..Len(f) : f[k] \in Flags) =>
            AgentCommand(<<"exec">> \o (f \o <<Separator>> \o w)) = FindCommandArgs(w)
      BY <1>3, <1>10, <3>1, RunsTheCommand
    <3> QED BY <1>7, <1>10, <3>2
  <2> QED BY <1>13, <1>14, <2>1, <2>2
<1> QED BY <1>16, <1>17

LEMMA BlankTidy == Tidy(Blank)
<1>1. \A c \in ToSet(Names) :
        Blank.containers[c].args = <<>> /\ Blank.containers[c].command = <<>>
  BY DEF Blank, Container
<1>2. ToSet(<<>>) = {}
  BY DEF ToSet
<1> QED BY <1>1, <1>2 DEF Tidy, SeparatorFree

\* A review leaves alone all that it does not wrap, and the agent of what it
\* wraps runs what the container ran.
LEMMA ReviewPreserves ==
    ASSUME NEW o, Good(o), ~o.injected => Tidy(o), ExtraArgs \in Seq(Flags)
    PROVE  LET x == ApplyPatch(o, BuildInjection(o))
           IN  Preserves(o, x) /\ (~x.injected => Tidy(x))
<1> DEFINE x == ApplyPatch(o, BuildInjection(o))
<1>1. o \in Objects /\ Sound(o)
  BY DEF Good
<1>2. Reviews(o, x)
  BY <1>1, ReviewIs
<1> HIDE DEF x
<1>3. CASE Skipped(o)
  BY <1>2, <1>3 DEF Reviews, Preserves, x
<1>4. CASE ~Skipped(o)
  <2>1. PICK c \in ToSet(Names) :
          /\ Target(o) = {c} /\ o.containers[c].command # <<>>
          /\ Becomes(o, c, x)
    BY <1>2, <1>4 DEF Reviews
  <2> DEFINE box == o.containers[c]
             words == WrappedCommand(o.prebaked, box.command, box.args)
             all == box.command \o box.args
  <2>2. Tidy(o) /\ (Wrapped(box) => WrapsJob(box.command))
    BY <1>1, <1>4, <2>1 DEF Skipped, Sound, Unwrapped
  <2>3. box.command \in Seq(Words) /\ box.args \in Seq(Words) /\ o.prebaked \in BOOLEAN
    BY <1>1 DEF Objects, Boxes
  <2>4. SeparatorFree(box) /\ Without(box.args, Separator)
    BY <2>2, <2>3, FreeIsWithout DEF Tidy, SeparatorFree
  <2>5. /\ words \in Seq(Words) /\ words # <<>> /\ Head(words) \in Agents
        /\ AgentCommand(Tail(words)) = FindCommandArgs(all)
    BY <2>3, WrapperRunsTheCommand, InjectionAssumption
  <2>6. x.containers[c].command = words /\ x.containers[c].args = <<>>
    BY <2>1 DEF Becomes
  <2> HIDE DEF words
  <2>7. Executed(x.containers[c]) = FindCommandArgs(all)
    <3>1. words \o <<>> = words
      BY <2>5
    <3>2. Wrapped(x.containers[c])
      BY <2>5, <2>6 DEF Wrapped, Agent
    <3>3. Executed(x.containers[c]) = AgentCommand(Tail(words))
      BY <2>6, <3>1, <3>2, Zenon DEF Executed
    <3> QED BY <2>5, <3>3, Zenon
  <2>8. Executed(box) = FindCommandArgs(all)
    <3>1. CASE Wrapped(box)
      <4>1. Agent(box.command) /\ ExecShaped(box.command)
        <5>1. ~Without(box.command, Separator)
          BY <2>2, <2>3, <3>1, FindNone DEF WrapsJob, Wrapped
        <5>2. Separator \in ToSet(box.command)
          BY <2>3, <5>1, FreeIsWithout
        <5> QED BY <2>4, <3>1, <5>2 DEF SeparatorFree, Wrapped
      <4>2. AgentCommand(Tail(all)) = FindCommandArgs(all)
        BY <2>3, <2>4, <4>1, OwnAgent
      <4> HIDE DEF all
      <4>3. Executed(box) = AgentCommand(Tail(all))
        BY <3>1, Zenon DEF Executed, all
      <4> QED BY <4>2, <4>3
    <3>2. CASE ~Wrapped(box)
      <4>1. Without(box.command, Separator)
        BY <2>3, <2>4, <3>2, FreeIsWithout DEF SeparatorFree
      <4>2. FindCommandArgs(all) = all
        BY <2>3, <2>4, <4>1, ConcatWithout, FindNone
      <4>3. Executed(box) = all
        BY <3>2, Zenon DEF Executed
      <4> QED BY <4>2, <4>3
    <3> QED BY <3>1, <3>2
  <2> HIDE DEF all
  <2>9. \A d \in ToSet(Names) : Executed(x.containers[d]) = Executed(o.containers[d])
    <3>1. \A d \in ToSet(Names) \ {c} : x.containers[d] = o.containers[d]
      BY <2>1 DEF Becomes
    <3> QED BY <2>7, <2>8, <3>1
  <2>10. /\ o.pod.volumes \subseteq x.pod.volumes /\ o.pod.inits \subseteq x.pod.inits
         /\ \A d \in ToSet(Names) :
              /\ o.containers[d].env \subseteq x.containers[d].env
              /\ o.containers[d].mounts \subseteq x.containers[d].mounts
    BY <2>1 DEF Becomes
  <2>11. Preserves(o, x) /\ x.injected
    BY <2>1, <2>9, <2>10 DEF Preserves, Becomes
  <2> QED BY <2>11 DEF x
<1> QED BY <1>3, <1>4 DEF x

\* A merged command or list of arguments is one that was there whole.
LEMMA MergeTidy ==
    ASSUME NEW n \in Objects, NEW l \in Objects, NEW cur \in Objects, Tidy(n), Tidy(cur)
    PROVE  Tidy(Merge(n, l, cur))
<1> DEFINE x == Merge(n, l, cur)
<1>1. Merges(x, n, l, cur)
  BY MergeIs
<1> HIDE DEF x
<1>2. ASSUME NEW c \in ToSet(Names) PROVE SeparatorFree(x.containers[c])
  <2>1. /\ Whole(x.containers[c].command, n.containers[c].command,
                 l.containers[c].command, cur.containers[c].command, <<>>)
        /\ Whole(x.containers[c].args, n.containers[c].args,
                 l.containers[c].args, cur.containers[c].args, <<>>)
    BY <1>1 DEF Merges, MergesBox
  <2>2. Separator \notin ToSet(<<>>)
    BY DEF ToSet
  <2>3. Separator \notin ToSet(x.containers[c].args)
    BY <2>1, <2>2 DEF Whole, Tidy, SeparatorFree
  <2>4. Separator \in ToSet(x.containers[c].command) =>
          Wrapped(x.containers[c]) /\ ExecShaped(x.containers[c].command)
    BY <2>1, <2>2 DEF Whole, Tidy, SeparatorFree, Wrapped
  <2> QED BY <2>3, <2>4 DEF SeparatorFree
<1> QED BY <1>2 DEF Tidy, x

\* What is admitted runs what was submitted, reviewed or not.
LEMMA AdmitPreserves ==
    ASSUME NEW o, Good(o), ~o.injected => Tidy(o), ~live.injected => Tidy(live),
           JobPreserved, Admit(o), up \in BOOLEAN, ExtraArgs \in Seq(Flags)
    PROVE  (~live'.injected => Tidy(live')) /\ JobPreserved'
<1> DEFINE x == ApplyPatch(o, Review(o))
<1>1. Fits(o, Review(o)) /\ Preserves(o, x) /\ (~x.injected => Tidy(x))
  <2>1. CASE up
    BY <2>1, TheReviewed, ReviewPreserves DEF Review
  <2>2. CASE ~up
    <3>1. Preserves(o, o)
      BY DEF Preserves
    <3> QED BY <2>2, <3>1, NoOperation DEF Review
  <2> QED BY <2>1, <2>2
<1> QED BY <1>1 DEF Admit, JobPreserved

\* If the webhook's configured flags are exec's, and no manifest has a
\* separator in a command or in arguments but that of an agent of its own, the
\* stored CronJob runs the commands it was submitted with and keeps all its
\* lists, whatever the webhook made of it.  With a separator it does not: the
\* agent runs what follows the first one (InjectionNested.cfg).
THEOREM KeepsTheJob ==
    ASSUME ExtraArgs \in Seq(Flags), \A m \in Manifests : Tidy(m)
    PROVE  Spec => []JobPreserved
<1> DEFINE J == (~live.injected => Tidy(live)) /\ JobPreserved
<1>1. Init => J
  <2> SUFFICES ASSUME Init PROVE J
    OBVIOUS
  <2>1. live = Blank /\ meant = Blank
    BY DEF Init
  <2>2. Preserves(Blank, Blank)
    BY DEF Preserves
  <2> QED BY <2>1, <2>2, BlankTidy DEF JobPreserved
<1>2. IInv /\ J /\ [Next]_vars => J'
  <2> SUFFICES ASSUME IInv, J, [Next]_vars PROVE J'
    OBVIOUS
  <2>1. /\ Good(live) /\ manifest \in Manifests /\ last \in Manifests \cup {Blank}
        /\ up \in BOOLEAN
    BY DEF IInv, TypeOK, Good
  <2>2. \A m \in Manifests : m \in Objects /\ Tidy(m)
    BY TheManifests
  <2>3. CASE Apply
    <3>1. Good(Merge(manifest, last, live))
      BY <2>1, TheSubmissions
    <3> DEFINE o == Merge(manifest, last, live)
    <3>2. ~o.injected => Tidy(o)
      <4>1. manifest \in Objects /\ last \in Objects /\ live \in Objects /\ live.injected \in BOOLEAN
        BY <2>1, <2>2, TheBlank DEF Good, Objects
      <4>2. o.injected = live.injected
        <5>1. Merges(o, manifest, last, live)
          BY <4>1, MergeIs
        <5>2. ~manifest.injected /\ ~last.injected
          BY <2>1, TheManifests, TheLast DEF WellWritten
        <5> HIDE DEF o
        <5>3. o.injected = (manifest.injected \/ (live.injected /\ ~last.injected))
          BY <5>1 DEF Merges, Stated
        <5> QED BY <4>1, <5>2, <5>3
      <4> QED BY <2>1, <2>2, <4>1, <4>2, MergeTidy
    <3> QED BY <2>1, <2>3, <3>1, <3>2, AdmitPreserves DEF Apply
  <2>4. CASE Replace
    <3>1. Good(manifest) /\ Tidy(manifest)
      BY <2>1, <2>2, TheSubmissions
    <3> QED BY <2>1, <2>4, <3>1, AdmitPreserves DEF Replace
  <2>5. CASE Touch
    <3>1. PICK b \in BOOLEAN : Admit([live EXCEPT !.inject = b])
      BY <2>5 DEF Touch
    <3> DEFINE o == [live EXCEPT !.inject = b]
    <3>2. Good(o)
      BY <2>1, TheSubmissions
    <3>3. ~o.injected => Tidy(o)
      BY <2>1 DEF Tidy, Good, Objects
    <3> HIDE DEF o
    <3>4. Admit(o)
      BY <3>1 DEF o
    <3> QED BY <2>1, <3>2, <3>3, <3>4, AdmitPreserves
  <2>6. CASE Delete
    <3>1. live' = Blank /\ meant' = Blank
      BY <2>6 DEF Delete
    <3>2. Preserves(Blank, Blank)
      BY DEF Preserves
    <3> QED BY <3>1, <3>2, BlankTidy DEF JobPreserved
  <2>7. CASE Edit \/ Flip
    BY <2>7 DEF Edit, Flip, JobPreserved
  <2>8. CASE UNCHANGED vars
    BY <2>8 DEF vars, JobPreserved
  <2> QED BY <2>3, <2>4, <2>5, <2>6, <2>7, <2>8 DEF Next
<1>3. J => JobPreserved
  OBVIOUS
<1> HIDE DEF J
<1> QED BY <1>1, <1>2, <1>3, Invariance, PTL DEF Spec

=============================================================================
