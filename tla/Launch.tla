------------------------------- MODULE Launch -------------------------------
(***************************************************************************)
(* The life of an agent process up to the point where it does its job:     *)
(* main() finds and merges its configuration (config.Load), validates it   *)
(* and dispatches; exec and ping overlay their flags and validate again;   *)
(* install copies the binary into the volume that a pod's job container    *)
(* runs it from.  Around it: an administrator who creates, removes, opens  *)
(* and closes configuration files at any time, cron, and the kubelet,      *)
(* which starts the job container once the init container (install) has    *)
(* exited with 0.                                                          *)
(* A setting is what its source makes of it, not its text.  Definitions    *)
(* named X_Something are faults.                                           *)
(***************************************************************************)
EXTENDS Integers, SequencesExt

CONSTANTS
    Files, Envs, Flags  \* the settings a file, the environment and a
                        \* command line may hold

\* "retries" stands for max_output_bytes as well, "tls" is
\* tls_insecure_skip_verify, "redact" the patterns.
Fields == {"api_url", "ping_key", "timeout", "retries", "tls", "redact"}

\* What a setting may be: "bad" parses and is refused by Validate, "junk"
\* does not parse, "zero" is a duration of zero, "off" a false, "empty" a list
\* without patterns (a variable of blanks, [] in a file).
Values ==
    [api_url |-> {"good", "bad"}, ping_key |-> {"good"},
     timeout |-> {"good", "zero", "junk"}, retries |-> {"good", "bad", "junk"},
     tls     |-> {"good", "off", "junk"}, redact |-> {"good", "bad", "empty"}]

Tokens == {"unset", "good", "bad", "junk", "zero", "off", "empty"}

ASSUME LaunchAssumption ==
    \A s \in Files \cup Envs \cup Flags :
        s \in [Fields -> Tokens] /\ \A f \in Fields : s[f] \in Values[f] \cup {"unset"}

Sources  == {"default", "file", "env", "flags"}
Commands == {"exec", "ping", "config", "install", "version", "unknown", "none"}

\* The configuration files in the order of precedence; the one given with
\* --config is not searched for.
Searched == {"system", "user", "local"}

\* What os.Stat makes of a file for the user the agent runs as: it is not
\* there, is behind a directory that user may not search (or another error),
\* or is found.
Status == {"absent", "closed", "open"}

VARIABLES
    files,      \* files[p]: the status of each file of Searched
    pod,        \* the process is a container's, not one of cron's
    target,     \* the binary in the shared volume: "absent", "partial" or
                \* "whole"
    installed,  \* the kubelet has seen the init container succeed
    at,         \* where main() is, "off" when there is no process
    command,    \* the subcommand
    queue,      \* the candidates findConfigFile has yet to look at
    path,       \* the file it reads: one of Searched, "given" or "none"
    steady,     \* the candidates whose status has not changed since the
                \* search for them began
    given,      \* what each source holds, once it is read
    config      \* what Config holds: of which source, and what it is

host    == <<files, pod, target, installed>>
process == <<at, command, queue, path, steady, given, config>>
vars    == <<host, process>>

Nothing == [f \in Fields |-> "unset"]
DefaultConfig ==
    [f \in Fields |-> [from |-> "default",
                       is |-> CASE f = "ping_key" -> "unset"
                                [] f = "redact" -> "empty"
                                [] OTHER -> "good"]]

Idle ==
    /\ at = "off" /\ command = "none" /\ queue = <<>> /\ path = "none"
    /\ steady = {} /\ given = [s \in Sources |-> Nothing]
    /\ config = DefaultConfig

Init ==
    /\ files \in [Searched -> Status] /\ pod \in BOOLEAN
    /\ target = "absent" /\ installed = FALSE
    /\ Idle

\* The process is gone, and with it what it knew.
Gone ==
    /\ at' = "off" /\ command' = "none" /\ queue' = <<>> /\ path' = "none"
    /\ steady' = {} /\ given' = [s \in Sources |-> Nothing]
    /\ config' = DefaultConfig

\* os.Exit: the kubelet goes by the exit code of the init container.
Exit(code) ==
    /\ Gone
    /\ installed' = (installed \/ (pod /\ command = "install" /\ code = 0))
    /\ UNCHANGED <<files, pod, target>>

\* The process is killed: the init container has not succeeded.
Die == Gone /\ UNCHANGED host

-----------------------------------------------------------------------------
\* main() and config.Load.

\* The order in which the candidates are written down.
Candidates_AsWritten(home) ==
    IF home THEN <<"local", "user", "system">> ELSE <<"local", "system">>

\* Each is put in front of the ones before it; without a home directory
\* there is no file of the user.
Candidates(home) ==
    IF home THEN <<"system", "user", "local">> ELSE <<"system", "local">>

\* extractConfigFlag and the start of Load; without a subcommand the agent
\* prints its usage.  The job container runs what the volume holds.
Start(c) ==
    /\ at = "off" /\ c # "none"
    /\ c = "install" => pod /\ ~installed
    /\ pod /\ c # "install" => installed
    /\ command' = c
    /\ \/ at' = "read" /\ path' = "given" /\ UNCHANGED <<queue, steady>>
       \/ /\ at' = "search" /\ path' = path
          /\ \E home \in BOOLEAN : queue' = Candidates(home)
          /\ steady' = ToSet(queue')
    /\ UNCHANGED <<host, given, config>>

\* os.Stat of the next candidate: any error passes over it.
Look ==
    /\ at = "search" /\ queue # <<>>
    /\ IF files[Head(queue)] = "open"
       THEN path' = Head(queue) /\ at' = "read"
       ELSE path' = path /\ at' = at
    /\ queue' = Tail(queue)
    /\ UNCHANGED <<host, command, steady, given, config>>

NotFound ==
    /\ at = "search" /\ queue = <<>>
    /\ at' = "env"
    /\ UNCHANGED <<host, command, queue, path, steady, given, config>>

Overlay(source, settings) ==
    config' = [f \in Fields |->
                 IF settings[f] = "unset" THEN config[f]
                 ELSE [from |-> source, is |-> settings[f]]]

\* yaml.Unmarshal over the defaults: a value of the wrong type is an error.
ReadFile ==
    /\ at = "read"
    /\ path # "given" => files[path] = "open"
    /\ \E file \in Files :
         /\ \A f \in Fields : file[f] # "junk"
         /\ given' = [given EXCEPT !["file"] = file]
         /\ Overlay("file", file)
    /\ at' = "env"
    /\ UNCHANGED <<host, command, queue, path, steady>>

\* The file is unreadable, is no YAML, or is gone or closed since the search.
ReadFails == at = "read" /\ Exit(1)

\* Taking what does not parse for the zero value of its type everywhere.
Parsed_Zeroes(env) ==
    [f \in Fields |->
       CASE env[f] # "junk" -> env[f]
         [] env[f] = "junk" /\ f = "tls" -> "off"
         [] env[f] = "junk" /\ f = "timeout" -> "zero"
         [] OTHER -> "bad"]

\* What the environment says once parsed: a malformed variable is ignored,
\* except CROND_TLS_INSECURE_SKIP_VERIFY, which it turns off.
Parsed(env) ==
    [f \in Fields |->
       IF env[f] # "junk" THEN env[f] ELSE IF f = "tls" THEN "off" ELSE "unset"]

ApplyEnv ==
    /\ at = "env"
    /\ \E env \in Envs :
         /\ given' = [given EXCEPT !["env"] = env]
         /\ Overlay("env", Parsed(env))
    /\ at' = "validate" /\ steady' = {}
    /\ UNCHANGED <<host, command, queue, path>>

Valid == \A f \in Fields : config[f].is # "bad"

Validate ==
    /\ at = "validate"
    /\ IF Valid
       THEN at' = "dispatch" /\ UNCHANGED <<host, command, queue, path, steady, given, config>>
       ELSE Exit(1)

Dispatch ==
    /\ at = "dispatch"
    /\ \/ command \in {"exec", "ping"} /\ at' = "flags"
       \/ command = "install" /\ at' = "open"
    /\ UNCHANGED <<host, command, queue, path, steady, given, config>>

\* It prints the configuration, or fails to marshal it.
ShowConfig ==
    /\ at = "dispatch" /\ command = "config"
    /\ \E code \in {0, 1} : Exit(code)

\* version and help, or an unknown command.
PrintUsage ==
    /\ at = "dispatch"
    /\ \/ command = "version" /\ Exit(0)
       \/ command = "unknown" /\ Exit(1)

-----------------------------------------------------------------------------
\* runExec and runPing before they do anything.

\* Overriding also with the flags that were not given.
ParseFlags_Blind ==
    /\ at = "flags"
    /\ \E flags \in Flags :
         /\ \A f \in Fields : flags[f] # "junk"
         /\ given' = [given EXCEPT !["flags"] = flags]
         /\ config' = [f \in Fields |->
                         IF f \in {"api_url", "ping_key"}
                           THEN [from |-> "flags", is |-> flags[f]] ELSE config[f]]
    /\ at' = "revalidate"
    /\ UNCHANGED <<host, command, queue, path, steady>>

\* Flags override; a zero timeout is no timeout given, and one that does not
\* parse ends the process (flag.ExitOnError).
ParseFlags ==
    /\ at = "flags"
    /\ \E flags \in Flags :
         /\ \A f \in Fields : flags[f] # "junk"
         /\ command = "ping" => flags["timeout"] = "unset"
         /\ given' = [given EXCEPT !["flags"] = flags]
         /\ Overlay("flags", [f \in Fields |->
                                IF flags[f] = "zero" THEN "unset" ELSE flags[f]])
    /\ at' = "revalidate"
    /\ UNCHANGED <<host, command, queue, path, steady>>

Misused == at = "flags" /\ \E code \in {0, 2} : Exit(code)

Proceed ==
    /\ at' = IF command = "exec" THEN "run" ELSE "send"
    /\ UNCHANGED <<host, command, queue, path, steady, given, config>>

\* Trusting the validation in main().
Revalidate_Once == at = "revalidate" /\ config["ping_key"].is # "unset" /\ Proceed

Revalidate ==
    /\ at = "revalidate"
    /\ Valid /\ config["ping_key"].is # "unset"
    /\ Proceed

\* Refused by Validate, no key, no command, or no client (its CA file).
Refused == at = "revalidate" /\ Exit(1)

\* The command is run, or the ping sent: ExecAgent and PingClient.
Done == at \in {"run", "send"} /\ \E code \in {0, 1} : Exit(code)

-----------------------------------------------------------------------------
\* runInstall, whose arguments come from the chart, and installSelf.

\* The target is truncated at once if it can be opened at all.
OpenTarget ==
    /\ at = "open"
    /\ \/ Exit(1)
       \/ /\ target' = "partial" /\ at' = "copy"
          /\ UNCHANGED <<files, pod, installed, command, queue, path, steady, given, config>>

\* io.Copy; an error is kept until the file is closed.
Copy ==
    /\ at = "copy"
    /\ \/ target' = "whole" /\ at' = "close"
       \/ target' = target /\ at' = "closeFailed"
    /\ UNCHANGED <<files, pod, installed, command, queue, path, steady, given, config>>

\* An error of Close is one of writing, too.
CloseTarget_Unchecked ==
    \/ at \in {"close", "closeFailed"} /\ Exit(0)
    \/ at = "close" /\ target' = "partial" /\ Gone
         /\ installed' = pod /\ UNCHANGED <<files, pod>>

CloseTarget ==
    \/ at = "close" /\ Exit(0)
    \/ at = "closeFailed" /\ Exit(1)
    \/ at = "close" /\ target' = "partial" /\ Gone /\ UNCHANGED <<files, pod, installed>>

-----------------------------------------------------------------------------
\* The surroundings.

Administer(p) ==
    /\ \E status \in Status \ {files[p]} : files' = [files EXCEPT ![p] = status]
    /\ steady' = steady \ {p}
    /\ UNCHANGED <<pod, target, installed, at, command, queue, path, given, config>>

Kill == at # "off" /\ Die

\* A new pod has an empty volume; a new sandbox for the same pod keeps it and
\* runs the init container again.
NewPod ==
    /\ pod /\ at = "off"
    /\ target' \in {"absent", target} /\ installed' = FALSE
    /\ UNCHANGED <<files, pod, process>>

Next ==
    \/ \E c \in Commands : Start(c)
    \/ Look \/ NotFound \/ ReadFile \/ ReadFails \/ ApplyEnv \/ Validate
    \/ Dispatch \/ ShowConfig \/ PrintUsage
    \/ ParseFlags \/ Misused \/ Revalidate \/ Refused \/ Done
    \/ OpenTarget \/ Copy \/ CloseTarget
    \/ \E p \in Searched : Administer(p)
    \/ Kill \/ NewPod

Spec == Init /\ [][Next]_vars

-----------------------------------------------------------------------------
\* Properties.

\* The types of the variables: no field of Config but the key is ever without
\* a value because a source has nothing to say about it.
TypeOK ==
    /\ files \in [Searched -> Status] /\ pod \in BOOLEAN /\ installed \in BOOLEAN
    /\ target \in {"absent", "partial", "whole"}
    /\ at \in {"off", "search", "read", "env", "validate", "dispatch",
               "flags", "revalidate", "run", "send", "open", "copy", "close", "closeFailed"}
    /\ command \in Commands
    /\ queue \in Seq(Searched) /\ path \in Searched \cup {"given", "none"}
    /\ steady \subseteq Searched
    /\ given \in [Sources -> [Fields -> Tokens]]
    /\ config \in [Fields -> [from : Sources, is : Tokens]]
    /\ \A f \in Fields :
         config[f].is \in (Values[f] \ {"junk"}) \cup (IF f = "ping_key" THEN {"unset"} ELSE {})

Working == at \in {"run", "send"}

\* What exec and ping work with has been validated with every flag in it:
\* patterns that compile (CompileRedactPatterns panics on others), no
\* negative retry count, a cap of at least a kilobyte, a URL and a key.
ValidAtUse == Working => Valid /\ config["ping_key"].is # "unset"

\* The source that decides a field, looked for from the strongest down: the
\* first that holds a usable value.  A zero --timeout is none.
Usable(s, f) ==
    /\ given[s][f] # "unset"
    /\ given[s][f] = "junk" => s = "env" /\ f = "tls"
    /\ s = "flags" => given[s][f] # "zero"

Decides(f) ==
    IF Usable("flags", f) THEN "flags"
    ELSE IF Usable("env", f) THEN "env"
    ELSE IF Usable("file", f) THEN "file" ELSE "default"

\* Defaults, file, environment, flags: every field comes from the strongest
\* source with a usable value, whatever the others hold.
StrongestSourceWins == Working => \A f \in Fields : config[f].from = Decides(f)

\* The candidate had this status all through the search.
Throughout(p, status) == p \in steady /\ files[p] = status

AsStrong(p) ==
    CASE p = "system" -> {"system"}
      [] p = "user" -> {"system", "user"}
      [] OTHER -> Searched

\* Whatever happens to files during the search, a candidate that could be
\* found throughout is passed over for none but a stronger one, and never for
\* no file at all.  One that could not be is not the file in use, there or
\* not: the system's file counts only for a job whose user can reach it.
SystemConfigWins ==
    at \in {"read", "env"} =>
        \A p \in Searched :
            /\ Throughout(p, "open") => path \in AsStrong(p)
            /\ Throughout(p, "closed") \/ Throughout(p, "absent") => path # p

\* A job container never has a binary that is missing or cut short, while it
\* runs or when the kubelet may start it: install exits with 0 only after all
\* of it is written and closed, however often it failed, was killed or ran in
\* the same volume before.
WholeBinary ==
    pod /\ (installed \/ (at # "off" /\ command # "install")) => target = "whole"

=============================================================================
