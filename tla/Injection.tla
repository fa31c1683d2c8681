----------------------------- MODULE Injection ------------------------------
(***************************************************************************)
(* The admission webhook (internal/webhook) in the life of one CronJob: a  *)
(* user applies, replaces, edits and deletes it, the webhook rewrites each *)
(* submission or is down (failurePolicy: Ignore), and the pod runs what is *)
(* stored, through the agent if it was wrapped.                            *)
(*                                                                         *)
(* An object is the part of a CronJob that injection reads.  Lists that    *)
(* Kubernetes merges by key are sets of keys, an absent one being empty;   *)
(* command and args are sequences of tokens.  Definitions named            *)
(* X_Something are faults.                                                 *)
(***************************************************************************)
EXTENDS CommandLine

CONSTANTS
    Words,          \* the strings in an object
    Agents,         \* those that name the agent's binary, by any path
    Manifests,      \* the objects a user may submit
    ExtraArgs,      \* cfg.ExtraArgs: further flags for exec
    PrivacyEnv      \* the variables privacyEnv adds

Names == <<"job", "side">>      \* the containers of the pod, in order
SharedVolume == "crond-agent-shared"
SharedMount  == "/shared"
Installer    == "crond-agent-installer"
PingKey      == "PING_KEY"
Binary       == "/shared/crond-agent"
OnPath       == "crond-agent"

Container(command, args, env, mounts) ==
    [command |-> command, args |-> args, env |-> env, mounts |-> mounts]

\* An object with nothing in it, and the absence of one.
Blank ==
    [inject |-> FALSE, injected |-> FALSE, keyEnv |-> FALSE, target |-> "",
     prebaked |-> FALSE,
     pod |-> [volumes |-> {}, inits |-> {}],
     containers |-> [c \in ToSet(Names) |-> Container(<<>>, <<>>, {}, {})]]

\* The types of an object.
Targets == Words \cup {""}

Boxes ==
    [command : Seq(Words), args : Seq(Words),
     env : SUBSET Words, mounts : SUBSET Words]

Objects ==
    [inject : BOOLEAN, injected : BOOLEAN, keyEnv : BOOLEAN,
     target : Targets, prebaked : BOOLEAN,
     pod : [volumes : SUBSET Words, inits : SUBSET Words],
     containers : [ToSet(Names) -> Boxes]]

\* A container that runs through the agent.
Agent(command) == command # <<>> /\ Head(command) \in Agents

Wrapped(box) == Agent(box.command)

\* What stands behind the agent's separator, which is not the agent again.
WrapsJob(command) ==
    LET job == FindCommandArgs(command)
    IN  job # <<>> /\ ~Agent(job)

\* It finds the ping key, and the binary that the init container installs
\* where it is mounted.
Complete(o, c) ==
    LET box == o.containers[c]
    IN  /\ PingKey \in box.env
        /\ Head(box.command) = Binary =>
             /\ Installer \in o.pod.inits
             /\ SharedVolume \in o.pod.volumes
             /\ SharedMount \in box.mounts

\* targetContainerIndex; the set is empty for -1.
Target(o) ==
    IF o.target = "" THEN {Names[1]} ELSE {o.target} \cap ToSet(Names)

\* The containers that a manifest or the webhook may wrap.
AgentContainers ==
    {c \in ToSet(Names) : \E m \in Manifests : Wrapped(m.containers[c]) \/ c \in Target(m)}

\* Those that a manifest runs through an agent of their image (the chart's
\* pre-baked pattern), which the webhook takes for any command.
OwnAgents ==
    {c \in ToSet(Names) : \E m \in Manifests :
        Installer \notin m.pod.inits /\ Wrapped(m.containers[c])}

\* Nothing of an installation is in it.
Plain(o) ==
    /\ SharedVolume \notin o.pod.volumes
    /\ \A c \in ToSet(Names) : SharedMount \notin o.containers[c].mounts

\* It has something for an agent in the container.
Equips(o, c) ==
    \/ Installer \in o.pod.inits \/ SharedVolume \in o.pod.volumes
    \/ SharedMount \in o.containers[c].mounts \/ PingKey \in o.containers[c].env

\* Every manifest is plain or has all that the macro renders; macros put the
\* volume into the same containers; a manifest that runs a container through
\* the agent writes the whole command, as the macro and the chart's pre-baked
\* example do; and one that has something for an agent in a container says
\* what the container runs.
WellWritten(m) ==
    /\ ~m.injected
    /\ Installer \in m.pod.inits \/ Plain(m)
    /\ Installer \in m.pod.inits =>
         /\ SharedVolume \in m.pod.volumes
         /\ \A c \in ToSet(Names), n \in Manifests :
              SharedMount \in n.containers[c].mounts => SharedMount \in m.containers[c].mounts
    /\ \A c \in ToSet(Names) :
         Wrapped(m.containers[c]) => WrapsJob(m.containers[c].command) /\ Complete(m, c)
    /\ \A c \in AgentContainers : Equips(m, c) => m.containers[c].command # <<>>

\* The strings that the macro and the webhook add.
AgentWords ==
    {Binary, OnPath, "exec", "--key", "--api-url", Separator,
     SharedVolume, SharedMount, Installer, PingKey} \cup PrivacyEnv

\* No further flag, and no binary, is the separator.
ASSUME InjectionAssumption ==
    /\ AgentWords \subseteq Words
    /\ {Binary, OnPath} \subseteq Agents /\ Agents \subseteq Words \ {Separator}
    /\ Manifests \subseteq Objects
    /\ \A m \in Manifests : WellWritten(m)
    /\ ExtraArgs \in Seq(Words \ {Separator})

VARIABLES
    manifest,       \* the user's file
    live,           \* the stored object, or Blank
    last,           \* the manifest last applied to it, or Blank
    up,             \* the webhook answers
    meant,          \* history: the submission live came from
    reviewed        \* history: the webhook was up for it

vars == <<manifest, live, last, up, meant, reviewed>>

-----------------------------------------------------------------------------
\* BuildInjection.

WrappedCommand(prebaked, command, args) ==
    <<IF prebaked THEN OnPath ELSE Binary, "exec", "--key", "--api-url">>
        \o ExtraArgs \o <<Separator>> \o command \o args

Op(op, where, field, value) ==
    [op |-> op, where |-> where, field |-> field, value |-> value]

\* Appending to a list that may not exist.
AddToArray_AlwaysAppends(where, field, present, value) ==
    Op("append", where, field, {value})

\* Creating the list, over the one that exists.
AddToArray_AlwaysCreates(where, field, present, value) ==
    Op("create", where, field, {value})

AddToArray(where, field, present, value) ==
    IF present = {} THEN Op("create", where, field, {value})
    ELSE Op("append", where, field, {value})

\* Mounting the volume into the first container instead of the target.
InstallOps_FirstContainer(o, c) ==
    <<AddToArray("pod", "volumes", o.pod.volumes, SharedVolume),
      AddToArray("pod", "inits", o.pod.inits, Installer),
      AddToArray(Names[1], "mounts", o.containers[Names[1]].mounts, SharedMount)>>

InstallOps(o, c) ==
    <<AddToArray("pod", "volumes", o.pod.volumes, SharedVolume),
      AddToArray("pod", "inits", o.pod.inits, Installer),
      AddToArray(c, "mounts", o.containers[c].mounts, SharedMount)>>

CommandOps(o, c) ==
    LET box == o.containers[c]
    IN  <<Op("replace", c, "command", WrappedCommand(o.prebaked, box.command, box.args))>>
        \o IF box.args # <<>> THEN <<Op("remove", c, "args", <<>>)>> ELSE <<>>

\* Naming the variable after the secret instead of its key.
EnvOps_Secret(o, c) ==
    LET envs == {"crond-ping-keys"} \cup PrivacyEnv
    IN  <<Op(IF o.containers[c].env = {} THEN "create" ELSE "append", c, "env", envs)>>

\* An append of the variables stands for one of each.
EnvOps(o, c) ==
    LET envs == {PingKey} \cup PrivacyEnv
    IN  <<Op(IF o.containers[c].env = {} THEN "create" ELSE "append", c, "env", envs)>>

\* Without the marker as a guard.
Skipped_IgnoresMarker(o) ==
    \/ ~o.inject
    \/ Installer \in o.pod.inits
    \/ ~o.keyEnv
    \/ \A c \in Target(o) : o.containers[c].command = <<>>

\* Without the installer as a guard.
Skipped_IgnoresInstaller(o) ==
    \/ ~o.inject \/ o.injected
    \/ ~o.keyEnv
    \/ \A c \in Target(o) : o.containers[c].command = <<>>

\* Not opted in, already wrapped, or not wrappable.
Skipped(o) ==
    \/ ~o.inject \/ o.injected
    \/ Installer \in o.pod.inits
    \/ ~o.keyEnv
    \/ \A c \in Target(o) : o.containers[c].command = <<>>

BuildInjection(o) ==
    IF Skipped(o) THEN <<>>
    ELSE LET c == CHOOSE n \in Target(o) : TRUE
         IN  (IF o.prebaked THEN <<>> ELSE InstallOps(o, c))
             \o CommandOps(o, c) \o EnvOps(o, c)
             \o <<Op("stamp", "metadata", "injected", {})>>

-----------------------------------------------------------------------------
\* The API server.

At(o, p) == IF p.where = "pod" THEN o.pod[p.field] ELSE o.containers[p.where][p.field]

Put(o, p, v) ==
    IF p.where = "pod" THEN [o EXCEPT !.pod[p.field] = v]
    ELSE [o EXCEPT !.containers[p.where][p.field] = v]

\* RFC 6902: append is "add" at "/-", create and stamp are "add" at a member.
ApplyOp(o, p) ==
    CASE p.op = "append" -> Put(o, p, At(o, p) \cup p.value)
      [] p.op = "stamp"  -> [o EXCEPT !.injected = TRUE]
      [] OTHER           -> Put(o, p, p.value)

\* The object after each operation of a patch.
Stages(o, patch) ==
    LET stage[i \in 0..Len(patch)] ==
          IF i = 0 THEN o ELSE ApplyOp(stage[i - 1], patch[i])
    IN  stage

ApplyPatch(o, patch) == Stages(o, patch)[Len(patch)]

Applicable(o, p) ==
    CASE p.op = "append"                -> At(o, p) # {}
      [] p.op \in {"replace", "remove"} -> At(o, p) # <<>>
      [] OTHER                          -> TRUE

\* A volume, init container or mount twice does not pass validation.
Duplicates(o, p) == p.op = "append" /\ p.field # "env" /\ p.value \cap At(o, p) # {}

Fits(o, patch) ==
    \A i \in DOMAIN patch :
        LET before == Stages(o, patch)[i - 1]
        IN  Applicable(before, patch[i]) /\ ~Duplicates(before, patch[i])

\* What kubectl apply submits: what the user dropped is dropped, what the
\* user states is restored, and the rest, annotations included, is kept.
Merge(new, old, cur) ==
    LET keyed(n, o, c)  == (c \ (o \ n)) \cup n
        stated(n, o, c) == n \/ (c /\ ~o)
        whole(n, o, c, none) == IF n # none THEN n ELSE IF o # none THEN none ELSE c
    IN  [inject   |-> stated(new.inject, old.inject, cur.inject),
         injected |-> stated(new.injected, old.injected, cur.injected),
         keyEnv   |-> stated(new.keyEnv, old.keyEnv, cur.keyEnv),
         prebaked |-> stated(new.prebaked, old.prebaked, cur.prebaked),
         target   |-> whole(new.target, old.target, cur.target, ""),
         pod |-> [f \in DOMAIN new.pod |-> keyed(new.pod[f], old.pod[f], cur.pod[f])],
         containers |-> [c \in ToSet(Names) |->
             LET n == new.containers[c]
                 o == old.containers[c]
                 k == cur.containers[c]
             IN  Container(whole(n.command, o.command, k.command, <<>>),
                           whole(n.args, o.args, k.args, <<>>),
                           keyed(n.env, o.env, k.env),
                           keyed(n.mounts, o.mounts, k.mounts))]]

\* A submission is reviewed if the webhook is up, then stored or refused.
Review(o) == IF up THEN BuildInjection(o) ELSE <<>>

Admit(o) ==
    IF Fits(o, Review(o))
    THEN live' = ApplyPatch(o, Review(o)) /\ meant' = o /\ reviewed' = up
    ELSE UNCHANGED <<live, meant, reviewed>>

-----------------------------------------------------------------------------

Init ==
    /\ manifest \in Manifests
    /\ live = Blank /\ last = Blank /\ meant = Blank
    /\ up \in BOOLEAN /\ reviewed = FALSE

\* The first kubectl apply creates the object.
Apply ==
    /\ Admit(Merge(manifest, last, live))
    /\ last' = manifest
    /\ UNCHANGED <<manifest, up>>

\* kubectl create or replace, or a controller that puts the whole object.
Replace ==
    /\ Admit(manifest)
    /\ last' = Blank
    /\ UNCHANGED <<manifest, up>>

\* The stored object with some other change: a label, suspend, the opt-in.
Touch ==
    /\ live # Blank
    /\ \E b \in BOOLEAN : Admit([live EXCEPT !.inject = b])
    /\ UNCHANGED <<manifest, last, up>>

Delete ==
    /\ live # Blank
    /\ live' = Blank /\ last' = Blank /\ meant' = Blank /\ reviewed' = FALSE
    /\ UNCHANGED <<manifest, up>>

Edit ==
    /\ manifest' \in Manifests
    /\ UNCHANGED <<live, last, up, meant, reviewed>>

Flip == up' = ~up /\ UNCHANGED <<manifest, live, last, meant, reviewed>>

Next == Apply \/ Replace \/ Touch \/ Delete \/ Edit \/ Flip

Spec == Init /\ [][Next]_vars

-----------------------------------------------------------------------------
\* Properties.

\* What manifests and injection may put in a pod's and a container's lists.
PodNames(f) == (UNION {m.pod[f] : m \in Manifests}) \cup {SharedVolume, Installer}

BoxNames(f) ==
    (UNION {m.containers[c][f] : m \in Manifests, c \in ToSet(Names)})
        \cup {SharedMount, PingKey} \cup PrivacyEnv

MadeOfNames(o) ==
    /\ \A f \in {"volumes", "inits"} : o.pod[f] \subseteq PodNames(f)
    /\ \A c \in ToSet(Names), f \in {"env", "mounts"} :
         o.containers[c][f] \subseteq BoxNames(f)

\* The types of the variables: an object is made of what manifests and
\* injection put in it.
TypeOK ==
    /\ manifest \in Manifests /\ last \in Manifests \cup {Blank}
    /\ \A o \in {live, meant} : o \in Objects /\ MadeOfNames(o)
    /\ up \in BOOLEAN /\ reviewed \in BOOLEAN

Submissions ==
    {manifest, Merge(manifest, last, live)}
        \cup {[live EXCEPT !.inject = b] : b \in BOOLEAN}

\* The webhook does no harm: whatever was applied, replaced or edited before
\* and whichever of it was reviewed, its patch fits the next submission, and
\* the API server does not refuse because of it what it would have stored.
NeverBlocks == \A o \in Submissions : Fits(o, BuildInjection(o))

\* What a container runs: the agent runs what it finds in its arguments, and
\* a container without a command has its image's.
Executed(box) ==
    IF Wrapped(box) THEN AgentCommand(Tail(box.command \o box.args))
    ELSE box.command \o box.args

\* The agent, exec, its flags, the separator, and a command without one.
ExecShaped(command) ==
    \E i \in DOMAIN command :
        LET flags == SubSeq(command, 3, i - 1)
        IN  /\ command = <<Head(command), "exec">> \o flags \o <<Separator>> \o After(command, i)
            /\ ToSet(flags) \subseteq Flags
            /\ Separator \notin ToSet(After(command, i))

\* No command or argument in a manifest is a separator, but the one in the
\* command of an agent.
SeparatorFree(box) ==
    /\ Separator \notin ToSet(box.args)
    /\ Separator \in ToSet(box.command) => Wrapped(box) /\ ExecShaped(box.command)

Preserves(o, x) ==
    /\ o.pod.volumes \subseteq x.pod.volumes /\ o.pod.inits \subseteq x.pod.inits
    /\ \A c \in ToSet(Names) :
         LET b == o.containers[c]
             d == x.containers[c]
         IN  /\ Executed(d) = Executed(b)
             /\ b.env \subseteq d.env /\ b.mounts \subseteq d.mounts

\* The stored job is the submitted one: every container runs the command it
\* was given, through the agent or not, with all the volumes, init
\* containers, variables and mounts it asked for.
JobPreserved == Preserves(meant, live)

\* The webhook adds one agent at most: what stands behind the first separator
\* of a wrapped container is a command, and the agent only where a manifest
\* wrote one of its own there, which wraps no further.
WrappedOnce ==
    \A c \in ToSet(Names) : Wrapped(live.containers[c]) =>
        LET job == FindCommandArgs(live.containers[c].command)
        IN  /\ job # <<>>
            /\ Agent(job) => c \in OwnAgents /\ WrapsJob(job)

\* A wrapped container finds what it needs: the ping key, and the binary
\* that the init container installs where it is mounted.
WrapperComplete ==
    \A c \in ToSet(Names) : Wrapped(live.containers[c]) => Complete(live, c)

\* What scripts/e2e-injector.sh says of applying again: a CronJob that opted
\* in, can be wrapped and passed the webhook is wrapped.
AdmittedIsMonitored ==
    reviewed /\ live.inject /\ live.keyEnv =>
        \A c \in Target(live) :
            live.containers[c].command # <<>> => Wrapped(live.containers[c])

=============================================================================
