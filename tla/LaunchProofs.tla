---------------------------- MODULE LaunchProofs ----------------------------
(***************************************************************************)
(* Proofs about Launch, for any files, environments and flags.  The        *)
(* invariant has a part for each property: that the fields come from the   *)
(* strongest source holds after every overlay, not only at the end; the    *)
(* candidates found throughout are among those the search has yet to look  *)
(* at, which are the weakest; and the kubelet's view of the volume is true *)
(* between any two attempts.                                               *)
(***************************************************************************)
EXTENDS Launch, TLAPS

Early == {"off", "search", "read"}

\* What a process knows of its sources so far.
KnownSoFar ==
    /\ at \in Early => given["file"] = Nothing
    /\ at \in Early \cup {"env"} => given["env"] = Nothing
    /\ at \notin {"revalidate", "run", "send"} => given["flags"] = Nothing

Merged == \A f \in Fields : config[f].from = Decides(f)

Queues ==
    {<<"system", "user", "local">>, <<"user", "local">>, <<"system", "local">>,
     <<"local">>, <<>>}

\* What the search has passed over could not be found all along, and what it
\* has decided for is as strong as any candidate that could.
Searching ==
    /\ at = "search" =>
         /\ path = "none" /\ queue \in Queues
         /\ \A p \in steady : files[p] = "open" => p \in ToSet(queue)
    /\ at \in {"read", "env"} =>
         \A p \in steady : IF files[p] = "open" THEN path \in AsStrong(p) ELSE path # p
    /\ at \notin {"search", "read", "env"} => steady = {}
    /\ at = "off" => path = "none"

\* Who is at work on the volume.
Installing ==
    /\ installed => pod
    /\ at # "off" /\ command = "install" => pod /\ ~installed
    /\ at # "off" /\ command # "install" => (pod => installed)
    /\ at \in {"open", "copy", "close", "closeFailed"} => command = "install"
    /\ at \in {"flags", "revalidate", "run", "send"} => command \in {"exec", "ping"}
    /\ at = "close" => target = "whole"

IInv ==
    /\ TypeOK /\ KnownSoFar /\ Merged /\ Searching /\ Installing
    /\ ValidAtUse /\ WholeBinary

\* The end of a process.
LEMMA GoneIInv ==
    ASSUME IInv, Gone,
           UNCHANGED <<files, pod>>,
           target' \in {"absent", "partial", "whole"},
           installed' \in BOOLEAN, installed' => pod,
           installed' => target' = "whole"
    PROVE  IInv'
  <1> USE DEF Gone, IInv
  <1>1. TypeOK'
    <2>1. given' \in [Sources -> [Fields -> Tokens]]
      BY Zenon DEF Nothing, Tokens
    <2>2. config' = DefaultConfig
      BY Zenon
    <2>3. /\ DefaultConfig \in [Fields -> [from : Sources, is : Tokens]]
          /\ \A f \in Fields : DefaultConfig[f].is \in
               (Values[f] \ {"junk"}) \cup (IF f = "ping_key" THEN {"unset"} ELSE {})
      BY DEF DefaultConfig, Tokens, Sources, Fields, Values
    <2>4. /\ config' \in [Fields -> [from : Sources, is : Tokens]]
          /\ \A f \in Fields : config'[f].is \in
               (Values[f] \ {"junk"}) \cup (IF f = "ping_key" THEN {"unset"} ELSE {})
      BY <2>2, <2>3, Zenon
    <2>5. queue' \in Seq(Searched)
      OBVIOUS
    <2> QED
      BY <2>1, <2>4, <2>5 DEF TypeOK, Commands
  <1>2. KnownSoFar'
    BY DEF KnownSoFar, Sources, Early
  <1>3. Merged'
    BY DEF Merged, Decides, Usable, Nothing, DefaultConfig, Sources
  <1>4. Searching' /\ Installing' /\ ValidAtUse' /\ WholeBinary'
    BY DEF Searching, Installing, ValidAtUse, WholeBinary, Working
  <1> QED
    BY <1>1, <1>2, <1>3, <1>4

LEMMA InitIInv == Init => IInv
  <1> SUFFICES ASSUME Init PROVE IInv
    OBVIOUS
  <1> USE DEF Init, Idle, IInv
  <1>1. TypeOK
    <2>1. given \in [Sources -> [Fields -> Tokens]]
      BY DEF Nothing, Tokens
    <2>2. /\ config \in [Fields -> [from : Sources, is : Tokens]]
          /\ \A f \in Fields : config[f].is \in
               (Values[f] \ {"junk"}) \cup (IF f = "ping_key" THEN {"unset"} ELSE {})
      BY DEF DefaultConfig, Tokens, Sources, Fields, Values
    <2>3. queue \in Seq(Searched)
      OBVIOUS
    <2> QED
      BY <2>1, <2>2, <2>3 DEF TypeOK, Commands
  <1>2. KnownSoFar /\ Searching /\ Installing /\ ValidAtUse /\ WholeBinary
    BY DEF KnownSoFar, Searching, Installing, ValidAtUse, WholeBinary, Working, Sources, Early
  <1>3. Merged
    BY DEF Merged, Decides, Usable, Nothing, DefaultConfig, Sources
  <1> QED
    BY <1>1, <1>2, <1>3

\* Overlaying a source keeps the fields typed.
LEMMA OverlayTypes ==
    ASSUME TypeOK, NEW source \in Sources, NEW s, s \in [Fields -> Tokens],
           \A f \in Fields : s[f] \in (Values[f] \ {"junk"}) \cup {"unset"},
           Overlay(source, s)
    PROVE  /\ config' \in [Fields -> [from : Sources, is : Tokens]]
           /\ \A f \in Fields :
                /\ config'[f].is \in (Values[f] \ {"junk"}) \cup (IF f = "ping_key" THEN {"unset"} ELSE {})
                /\ config'[f].from = IF s[f] = "unset" THEN config[f].from ELSE source
  BY DEF TypeOK, Overlay

LEMMA ParsedTypes ==
    ASSUME NEW env \in Envs
    PROVE  /\ Parsed(env) \in [Fields -> Tokens]
           /\ \A f \in Fields :
                /\ Parsed(env)[f] \in (Values[f] \ {"junk"}) \cup {"unset"}
                /\ Parsed(env)[f] = "unset" <=>
                     env[f] = "unset" \/ (env[f] = "junk" /\ f # "tls")
  <1>1. env \in [Fields -> Tokens] /\ \A f \in Fields : env[f] \in Values[f] \cup {"unset"}
    BY LaunchAssumption
  <1>2. "off" \in Values["tls"]
    BY DEF Values
  <1> QED
    BY <1>1, <1>2 DEF Parsed, Tokens

\* What is left of a search, and its elements.
LEMMA QueuesAre ==
    /\ \A q \in Queues : q \in Seq(Searched) /\ (q # <<>> => Tail(q) \in Queues)
    /\ ToSet(<<"system", "user", "local">>) = {"system", "user", "local"}
    /\ ToSet(<<"user", "local">>) = {"user", "local"}
    /\ ToSet(<<"system", "local">>) = {"system", "local"}
    /\ ToSet(<<"local">>) = {"local"}
    /\ ToSet(<<>>) = {}
  <1>1. /\ <<"system", "user", "local">> \in Seq(Searched) /\ <<"user", "local">> \in Seq(Searched)
        /\ <<"system", "local">> \in Seq(Searched) /\ <<"local">> \in Seq(Searched)
        /\ <<>> \in Seq(Searched)
    BY DEF Searched
  <1>2. /\ Tail(<<"system", "user", "local">>) = <<"user", "local">>
        /\ Tail(<<"user", "local">>) = <<"local">>
        /\ Tail(<<"system", "local">>) = <<"local">>
        /\ Tail(<<"local">>) = <<>>
    OBVIOUS
  <1>3. \A q \in Queues : q \in Seq(Searched) /\ (q # <<>> => Tail(q) \in Queues)
    BY <1>1, <1>2 DEF Queues
  <1>4. /\ ToSet(<<"system", "user", "local">>) = {"system", "user", "local"}
        /\ ToSet(<<"user", "local">>) = {"user", "local"}
        /\ ToSet(<<"system", "local">>) = {"system", "local"}
        /\ ToSet(<<"local">>) = {"local"}
        /\ ToSet(<<>>) = {}
    BY DEF ToSet
  <1> QED
    BY <1>3, <1>4

\* The next candidate is as strong as every one that is left.
LEMMA HeadIsStrongest ==
    ASSUME NEW q \in Queues, q # <<>>
    PROVE  /\ Head(q) \in Searched
           /\ ToSet(q) = {Head(q)} \cup ToSet(Tail(q))
           /\ \A p \in ToSet(q) : Head(q) \in AsStrong(p)
  <1> USE QueuesAre DEF Searched, AsStrong
  <1>1. CASE q = <<"system", "user", "local">>
    <2>1. Head(q) = "system" /\ Tail(q) = <<"user", "local">>
      BY <1>1
    <2> QED
      BY <1>1, <2>1
  <1>2. CASE q = <<"user", "local">>
    <2>1. Head(q) = "user" /\ Tail(q) = <<"local">>
      BY <1>2
    <2> QED
      BY <1>2, <2>1
  <1>3. CASE q = <<"system", "local">>
    <2>1. Head(q) = "system" /\ Tail(q) = <<"local">>
      BY <1>3
    <2> QED
      BY <1>3, <2>1
  <1>4. CASE q = <<"local">>
    <2>1. Head(q) = "local" /\ Tail(q) = <<>>
      BY <1>4
    <2> QED
      BY <1>4, <2>1
  <1> QED
    BY <1>1, <1>2, <1>3, <1>4 DEF Queues

LEMMA StartStep == ASSUME IInv, NEW c \in Commands, Start(c) PROVE IInv'
  <1> USE DEF IInv, Start, host
  <1>a. /\ UNCHANGED <<files, pod, target, installed, given, config>>
        /\ command' = c /\ at = "off" /\ path = "none" /\ steady = {}
    BY DEF Searching
  <1>b. \/ at' = "read" /\ path' = "given" /\ queue' = queue /\ steady' = {}
        \/ /\ at' = "search" /\ path' = "none" /\ steady' = ToSet(queue')
           /\ queue' \in {<<"system", "user", "local">>, <<"system", "local">>}
           /\ steady' \subseteq Searched
    BY <1>a, QueuesAre DEF Candidates, Searched
  <1>1. TypeOK'
    <2>1. queue' \in Seq(Searched)
      BY <1>b, QueuesAre DEF Queues, TypeOK
    <2> QED
      BY <1>a, <1>b, <2>1 DEF TypeOK
  <1>2. KnownSoFar' /\ Merged'
    BY <1>a, <1>b DEF KnownSoFar, Early, Merged, Decides, Usable
  <1>3. Searching'
    BY <1>a, <1>b DEF Searching, Queues
  <1>4. Installing' /\ ValidAtUse' /\ WholeBinary'
    BY <1>a, <1>b DEF Installing, ValidAtUse, WholeBinary, Working
  <1> QED
    BY <1>1, <1>2, <1>3, <1>4

LEMMA SearchSteps == ASSUME IInv, Look \/ NotFound PROVE IInv'
  <1> USE DEF IInv, host
  <1>a. /\ UNCHANGED <<files, pod, target, installed, command, steady, given, config>>
        /\ at = "search" /\ path = "none" /\ queue \in Queues
    BY DEF Look, NotFound, Searching
  <1>b. \/ /\ at' = "search" /\ path' = "none" /\ queue # <<>>
           /\ files[Head(queue)] # "open" /\ queue' = Tail(queue)
        \/ /\ at' = "read" /\ queue # <<>> /\ queue' = Tail(queue)
           /\ path' = Head(queue) /\ files[Head(queue)] = "open"
        \/ at' = "env" /\ queue = <<>> /\ queue' = queue /\ path' = path
    BY <1>a DEF Look, NotFound
  <1>c. queue # <<>> =>
          /\ Tail(queue) \in Queues /\ Head(queue) \in Searched
          /\ ToSet(queue) = {Head(queue)} \cup ToSet(Tail(queue))
          /\ \A p \in ToSet(queue) : Head(queue) \in AsStrong(p)
    BY <1>a, QueuesAre, HeadIsStrongest
  <1>1. TypeOK'
    <2>1. queue' \in Seq(Searched)
      BY <1>a, <1>b, <1>c, QueuesAre
    <2> QED
      BY <1>a, <1>b, <1>c, <2>1 DEF TypeOK
  <1>2. KnownSoFar' /\ Merged'
    BY <1>a, <1>b DEF KnownSoFar, Early, Merged, Decides, Usable
  <1>3. Searching'
    <2>1. /\ steady \subseteq Searched /\ "none" \notin Searched /\ queue' \in Queues
          /\ \A p \in steady : files[p] = "open" => p \in ToSet(queue)
      BY <1>a, <1>b, <1>c DEF TypeOK, Searching, Searched
    <2>2. ToSet(<<>>) = {}
      BY QueuesAre
    <2> QED
      BY <1>a, <1>b, <1>c, <2>1, <2>2 DEF Searching
  <1>4. Installing' /\ ValidAtUse' /\ WholeBinary'
    BY <1>a, <1>b DEF Installing, ValidAtUse, WholeBinary, Working
  <1> QED
    BY <1>1, <1>2, <1>3, <1>4

LEMMA ReadStep == ASSUME IInv, ReadFile PROVE IInv'
  <1> USE DEF IInv, host
  <1>1. PICK file \in Files :
          /\ \A f \in Fields : file[f] # "junk"
          /\ given' = [given EXCEPT !["file"] = file]
          /\ Overlay("file", file)
    BY DEF ReadFile
  <1>a. /\ at = "read" /\ at' = "env"
        /\ UNCHANGED <<files, pod, target, installed, command, queue, path, steady>>
    BY DEF ReadFile
  <1>b. /\ file \in [Fields -> Tokens]
        /\ \A f \in Fields : file[f] \in (Values[f] \ {"junk"}) \cup {"unset"}
    BY <1>1, LaunchAssumption
  <1>c. /\ config' \in [Fields -> [from : Sources, is : Tokens]]
        /\ \A f \in Fields :
             /\ config'[f].is \in (Values[f] \ {"junk"}) \cup (IF f = "ping_key" THEN {"unset"} ELSE {})
             /\ config'[f].from = IF file[f] = "unset" THEN config[f].from ELSE "file"
    <2>1. "file" \in Sources
      BY DEF Sources
    <2> QED
      BY <1>1, <1>b, <2>1, OverlayTypes
  <1>d. /\ given' \in [Sources -> [Fields -> Tokens]]
        /\ given'["file"] = file /\ given'["env"] = given["env"] /\ given'["flags"] = given["flags"]
    BY <1>1, <1>b DEF TypeOK, Sources
  <1>2. TypeOK'
    BY <1>a, <1>c, <1>d DEF TypeOK
  <1>3. KnownSoFar'
    BY <1>a, <1>d DEF KnownSoFar, Early
  <1>4. Merged'
    <2> SUFFICES ASSUME NEW f \in Fields PROVE config'[f].from = Decides(f)'
      BY DEF Merged
    <2>1. given["file"][f] = "unset" /\ given["env"][f] = "unset" /\ given["flags"][f] = "unset"
      BY <1>a DEF KnownSoFar, Early, Nothing
    <2>2. config[f].from = "default"
      BY <2>1 DEF Merged, Decides, Usable
    <2> QED
      BY <1>1, <1>c, <1>d, <2>1, <2>2 DEF Decides, Usable
  <1>5. Searching' /\ Installing' /\ ValidAtUse' /\ WholeBinary'
    BY <1>a DEF Searching, Installing, ValidAtUse, WholeBinary, Working
  <1> QED
    BY <1>2, <1>3, <1>4, <1>5

LEMMA EnvStep == ASSUME IInv, ApplyEnv PROVE IInv'
  <1> USE DEF IInv, host
  <1>1. PICK env \in Envs :
          given' = [given EXCEPT !["env"] = env] /\ Overlay("env", Parsed(env))
    BY DEF ApplyEnv
  <1>a. /\ at = "env" /\ at' = "validate" /\ steady' = {}
        /\ UNCHANGED <<files, pod, target, installed, command, queue, path>>
    BY DEF ApplyEnv
  <1>b. /\ Parsed(env) \in [Fields -> Tokens]
        /\ \A f \in Fields : Parsed(env)[f] \in (Values[f] \ {"junk"}) \cup {"unset"}
        /\ \A f \in Fields : Parsed(env)[f] = "unset" <=>
                     env[f] = "unset" \/ (env[f] = "junk" /\ f # "tls")
        /\ env \in [Fields -> Tokens]
    BY ParsedTypes, LaunchAssumption
  <1>c. /\ config' \in [Fields -> [from : Sources, is : Tokens]]
        /\ \A f \in Fields :
             /\ config'[f].is \in (Values[f] \ {"junk"}) \cup (IF f = "ping_key" THEN {"unset"} ELSE {})
             /\ config'[f].from = IF Parsed(env)[f] = "unset" THEN config[f].from ELSE "env"
    <2>1. "env" \in Sources
      BY DEF Sources
    <2> QED
      BY <1>1, <1>b, <2>1, OverlayTypes
  <1>d. /\ given' \in [Sources -> [Fields -> Tokens]]
        /\ given'["file"] = given["file"] /\ given'["env"] = env /\ given'["flags"] = given["flags"]
    BY <1>1, <1>b DEF TypeOK, Sources
  <1>2. TypeOK'
    BY <1>a, <1>c, <1>d DEF TypeOK
  <1>3. KnownSoFar'
    BY <1>a, <1>d DEF KnownSoFar, Early
  <1>4. Merged'
    <2> SUFFICES ASSUME NEW f \in Fields PROVE config'[f].from = Decides(f)'
      BY DEF Merged
    <2>1. given["env"][f] = "unset" /\ given["flags"][f] = "unset"
      BY <1>a DEF KnownSoFar, Early, Nothing
    <2>2. config[f].from = IF Usable("file", f) THEN "file" ELSE "default"
      BY <2>1 DEF Merged, Decides, Usable
    <2> QED
      BY <1>b, <1>c, <1>d, <2>1, <2>2 DEF Decides, Usable
  <1>5. Searching' /\ Installing' /\ ValidAtUse' /\ WholeBinary'
    BY <1>a DEF Searching, Installing, ValidAtUse, WholeBinary, Working
  <1> QED
    BY <1>2, <1>3, <1>4, <1>5

LEMMA FlagsStep == ASSUME IInv, ParseFlags PROVE IInv'
  <1> USE DEF IInv, host
  <1> DEFINE Set(s) == [f \in Fields |-> IF s[f] = "zero" THEN "unset" ELSE s[f]]
  <1>1. PICK flags \in Flags :
          /\ \A f \in Fields : flags[f] # "junk"
          /\ given' = [given EXCEPT !["flags"] = flags]
          /\ Overlay("flags", Set(flags))
    BY DEF ParseFlags
  <1>a. /\ at = "flags" /\ at' = "revalidate"
        /\ UNCHANGED <<files, pod, target, installed, command, queue, path, steady>>
    BY DEF ParseFlags
  <1>b. /\ flags \in [Fields -> Tokens]
        /\ Set(flags) \in [Fields -> Tokens]
        /\ \A f \in Fields : Set(flags)[f] \in (Values[f] \ {"junk"}) \cup {"unset"}
        /\ \A f \in Fields : Set(flags)[f] = "unset" <=> flags[f] \in {"unset", "zero"}
    BY <1>1, LaunchAssumption DEF Tokens
  <1> HIDE DEF Set
  <1>c. /\ config' \in [Fields -> [from : Sources, is : Tokens]]
        /\ \A f \in Fields :
             /\ config'[f].is \in (Values[f] \ {"junk"}) \cup (IF f = "ping_key" THEN {"unset"} ELSE {})
             /\ config'[f].from = IF Set(flags)[f] = "unset" THEN config[f].from ELSE "flags"
    <2>1. "flags" \in Sources
      BY DEF Sources
    <2> QED
      BY <1>1, <1>b, <2>1, OverlayTypes
  <1>d. /\ given' \in [Sources -> [Fields -> Tokens]]
        /\ given'["file"] = given["file"] /\ given'["env"] = given["env"] /\ given'["flags"] = flags
    BY <1>1, <1>b DEF TypeOK, Sources
  <1>2. TypeOK'
    BY <1>a, <1>c, <1>d DEF TypeOK
  <1>3. KnownSoFar'
    BY <1>a, <1>d DEF KnownSoFar, Early
  <1>4. Merged'
    <2> SUFFICES ASSUME NEW f \in Fields PROVE config'[f].from = Decides(f)'
      BY DEF Merged
    <2>1. given["flags"][f] = "unset"
      BY <1>a DEF KnownSoFar, Nothing
    <2>2. config[f].from = IF Usable("env", f) THEN "env"
                           ELSE IF Usable("file", f) THEN "file" ELSE "default"
      BY <2>1 DEF Merged, Decides, Usable
    <2> QED
      BY <1>1, <1>b, <1>c, <1>d, <2>2 DEF Decides, Usable
  <1>5. Searching' /\ Installing' /\ ValidAtUse' /\ WholeBinary'
    BY <1>a DEF Searching, Installing, ValidAtUse, WholeBinary, Working
  <1> QED
    BY <1>2, <1>3, <1>4, <1>5

\* The steps that change neither the configuration nor the search.
LEMMA PlainSteps ==
    ASSUME IInv,
           UNCHANGED <<files, pod, installed, command, queue, path, steady, given, config>>,
           \/ at = "validate" /\ at' = "dispatch" /\ target' = target
           \/ at = "dispatch" /\ at' = "flags" /\ command \in {"exec", "ping"} /\ target' = target
           \/ at = "dispatch" /\ at' = "open" /\ command = "install" /\ target' = target
           \/ /\ at = "revalidate" /\ at' \in {"run", "send"} /\ target' = target
              /\ Valid /\ config["ping_key"].is # "unset"
           \/ at = "open" /\ at' = "copy" /\ target' = "partial"
           \/ at = "copy" /\ at' = "close" /\ target' = "whole"
           \/ at = "copy" /\ at' = "closeFailed" /\ target' = target
    PROVE  IInv'
  <1> USE DEF IInv
  <1>1. TypeOK'
    BY DEF TypeOK
  <1>2. KnownSoFar' /\ Merged'
    BY DEF KnownSoFar, Early, Merged, Decides, Usable
  <1>3. Searching' /\ Installing'
    BY DEF Searching, Installing
  <1>4. ValidAtUse'
    BY DEF ValidAtUse, Valid, Working
  <1>5. WholeBinary'
    BY DEF WholeBinary, Installing
  <1> QED
    BY <1>1, <1>2, <1>3, <1>4, <1>5

LEMMA ExitStep ==
    ASSUME IInv, NEW code, Exit(code),
           command = "install" /\ at # "off" /\ code = 0 => at = "close",
           at # "off"
    PROVE  IInv'
  <1>1. /\ Gone /\ files' = files /\ pod' = pod /\ target' = target
        /\ installed' = (installed \/ (pod /\ command = "install" /\ code = 0))
    BY DEF Exit
  <1>2. target \in {"absent", "partial", "whole"} /\ pod \in BOOLEAN /\ installed \in BOOLEAN
    BY DEF IInv, TypeOK
  <1>3. installed' \in BOOLEAN
    BY <1>1, <1>2, Zenon
  <1>4. installed' => pod /\ target = "whole"
    BY <1>1 DEF IInv, Installing, WholeBinary
  <1> QED
    BY <1>1, <1>2, <1>3, <1>4, GoneIInv

LEMMA AdministerStep == ASSUME IInv, NEW p \in Searched, Administer(p) PROVE IInv'
  <1> USE DEF IInv, Administer
  <1>1. TypeOK'
    BY DEF TypeOK
  <1>2. KnownSoFar' /\ Merged'
    BY DEF KnownSoFar, Early, Merged, Decides, Usable
  <1>3. Searching' /\ Installing' /\ ValidAtUse' /\ WholeBinary'
    BY DEF Searching, Installing, ValidAtUse, WholeBinary, Working, Valid
  <1> QED
    BY <1>1, <1>2, <1>3

LEMMA NewPodStep == ASSUME IInv, NewPod PROVE IInv'
  <1> USE DEF IInv, NewPod, process
  <1>1. TypeOK'
    BY DEF TypeOK
  <1>2. KnownSoFar' /\ Merged'
    BY DEF KnownSoFar, Early, Merged, Decides, Usable
  <1>3. Searching' /\ Installing' /\ ValidAtUse' /\ WholeBinary'
    BY DEF Searching, Installing, ValidAtUse, WholeBinary, Working
  <1> QED
    BY <1>1, <1>2, <1>3

LEMMA NextIInv == IInv /\ [Next]_vars => IInv'
  <1> SUFFICES ASSUME IInv, [Next]_vars PROVE IInv'
    OBVIOUS
  <1>1. ASSUME NEW c \in Commands, Start(c) PROVE IInv'
    BY <1>1, StartStep
  <1>2. CASE Look \/ NotFound
    BY <1>2, SearchSteps
  <1>3. CASE ReadFile
    BY <1>3, ReadStep
  <1>4. CASE ReadFails
    BY <1>4, ExitStep DEF ReadFails
  <1>5. CASE ApplyEnv
    BY <1>5, EnvStep
  <1>6. CASE Validate
    BY <1>6, ExitStep, PlainSteps DEF Validate, host
  <1>7. CASE Dispatch
    BY <1>7, PlainSteps DEF Dispatch, host
  <1>8. CASE ShowConfig \/ PrintUsage
    BY <1>8, ExitStep DEF ShowConfig, PrintUsage
  <1>9. CASE ParseFlags
    BY <1>9, FlagsStep
  <1>10. CASE Misused \/ Refused \/ Done
    <2>1. command # "install"
      BY <1>10 DEF Misused, Refused, Done, IInv, Installing
    <2> QED
      BY <1>10, <2>1, ExitStep DEF Misused, Refused, Done
  <1>11. CASE Revalidate
    BY <1>11, PlainSteps DEF Revalidate, Proceed, host
  <1>12. CASE OpenTarget
    BY <1>12, ExitStep, PlainSteps DEF OpenTarget
  <1>13. CASE Copy
    BY <1>13, PlainSteps DEF Copy
  <1>14. CASE CloseTarget
    <2>1. CASE at = "close" /\ target' = "partial" /\ Gone /\ UNCHANGED <<files, pod, installed>>
      <3>1. installed = FALSE
        BY <2>1 DEF IInv, Installing, TypeOK
      <3> QED
        BY <2>1, <3>1, GoneIInv
    <2> QED
      BY <1>14, <2>1, ExitStep DEF CloseTarget
  <1>15. ASSUME NEW p \in Searched, Administer(p) PROVE IInv'
    BY <1>15, AdministerStep
  <1>16. CASE Kill
    BY <1>16, GoneIInv DEF Kill, Die, host, IInv, TypeOK, Installing, WholeBinary
  <1>17. CASE NewPod
    BY <1>17, NewPodStep
  <1>18. CASE UNCHANGED vars
    <2> USE <1>18 DEF vars, host, process, IInv
    <2>1. TypeOK' /\ KnownSoFar' /\ Merged'
      BY DEF TypeOK, KnownSoFar, Early, Merged, Decides, Usable
    <2>2. Searching' /\ Installing' /\ ValidAtUse' /\ WholeBinary'
      BY DEF Searching, Installing, ValidAtUse, WholeBinary, Working, Valid
    <2> QED
      BY <2>1, <2>2
  <1> QED
    BY <1>1, <1>2, <1>3, <1>4, <1>5, <1>6, <1>7, <1>8, <1>9, <1>10, <1>11,
       <1>12, <1>13, <1>14, <1>15, <1>16, <1>17, <1>18 DEF Next

\* The inductive invariant: merge, search and installation, step by step.
THEOREM Invariance == Spec => []IInv
  <1>1. Init /\ [][Next]_vars => []IInv
    BY InitIInv, NextIInv, PTL
  <1> QED
    BY <1>1, PTL DEF Spec

\* The types of the variables; no field but the key is ever emptied by a
\* source that does not set it.
THEOREM TypeCorrect == Spec => []TypeOK
  BY Invariance, PTL DEF IInv

\* exec and ping work with a configuration that Validate has accepted with
\* the flags in it, whatever the sources hold.
THEOREM Validated == Spec => []ValidAtUse
  BY Invariance, PTL DEF IInv

\* Every field comes from the strongest source with a usable value.
THEOREM Precedence == Spec => []StrongestSourceWins
  <1>1. IInv => StrongestSourceWins
    BY DEF IInv, Merged, StrongestSourceWins
  <1> QED
    BY <1>1, Invariance, PTL

\* Whatever is created, removed, opened or closed during the search: no
\* candidate that could be found throughout is passed over for a weaker one
\* or for none, whichever of the three it is; and a candidate that os.Stat
\* could not find throughout, be it there or not, is not the one in use.
THEOREM Search == Spec => []SystemConfigWins
  <1>1. IInv => SystemConfigWins
    BY DEF IInv, Searching, SystemConfigWins, Throughout
  <1> QED
    BY <1>1, Invariance, PTL

\* A job container never meets a binary that install did not finish.
THEOREM Whole == Spec => []WholeBinary
  BY Invariance, PTL DEF IInv

=============================================================================
