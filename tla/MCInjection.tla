---------------------------- MODULE MCInjection -----------------------------
(* Instances of Injection for TLC: the manifests a user may write.          *)
EXTENDS Injection, TLC

Sidecar == Container(<<"proxy">>, <<>>, {}, {})

\* A manifest: its annotations, the job's command and arguments, and whether
\* it has volumes, init containers, mounts and variables of its own.
Manifest(inject, keyEnv, target, prebaked, command, args, rich) ==
    [inject |-> inject, injected |-> FALSE, keyEnv |-> keyEnv,
     target |-> target, prebaked |-> prebaked,
     pod |-> IF rich THEN [volumes |-> {"data"}, inits |-> {"setup"}]
             ELSE [volumes |-> {}, inits |-> {}],
     containers |->
       [c \in ToSet(Names) |->
          IF c = "side" THEN Sidecar
          ELSE IF rich THEN Container(command, args, {"HOME"}, {"/data"})
          ELSE Container(command, args, {}, {})]]

\* A CronJob written with the crond-agent.wrap macro.
MacroManifest(inject, command) ==
    [Manifest(inject, TRUE, "", FALSE, <<>>, <<>>, FALSE) EXCEPT
       !.pod = [volumes |-> {SharedVolume}, inits |-> {Installer}],
       !.containers["job"] =
         Container(WrappedCommand(FALSE, command, <<>>), <<>>, {PingKey}, {SharedMount})]

\* One whose image has the agent, as the chart's example is written; opted in
\* for the webhook as well, or not.
PrebakedManifest(inject, prebaked) ==
    LET m == Manifest(inject, TRUE, "", prebaked, <<>>, <<>>, FALSE)
    IN  [m EXCEPT !.containers["job"] =
           Container(<<"/usr/local/bin/crond-agent", "exec", "--key", Separator, "sh">>, <<"arg">>,
                     {PingKey}, {})]

\* Opted in and wrappable, unless there is no command.
OptedIn(commands, targets) ==
    {Manifest(TRUE, TRUE, t, p, ca[1], ca[2], r) :
        t \in targets, p \in BOOLEAN, ca \in commands, r \in BOOLEAN}

\* No command, one of its own arguments like the agent's.
Commands == {<< <<>>, <<>> >>, << <<"sh">>, <<>> >>, << <<"sh">>, <<"--config", "arg">> >>}

AllManifests ==
    OptedIn(Commands, {""})
        \cup {Manifest(TRUE, TRUE, "side", FALSE, <<"sh">>, <<>>, FALSE),
               Manifest(FALSE, TRUE, "", FALSE, <<"sh">>, <<"arg">>, TRUE),
               Manifest(TRUE, FALSE, "", FALSE, <<"sh">>, <<>>, FALSE),
               Manifest(TRUE, TRUE, "ghost", FALSE, <<"sh">>, <<>>, FALSE)}
        \cup {MacroManifest(i, <<"sh">>) : i \in BOOLEAN}
        \cup {PrebakedManifest(TRUE, p) : p \in BOOLEAN}
        \cup {PrebakedManifest(FALSE, FALSE)}

\* What the theorem on JobPreserved asks of them and of the configuration.
ASSUME SeparatorAssumption ==
    /\ \A m \in AllManifests, c \in ToSet(Names) : SeparatorFree(m.containers[c])
    /\ ExtraArgs \in Seq(Flags)

\* A command with a separator of its own.
NestedManifests == OptedIn({<< <<"git">>, <<"log", "--", "path">> >>}, {""})

PlainManifests == OptedIn(Commands, {""})

AllWords == STRING

Binaries == {"/shared/crond-agent", "crond-agent", "/usr/local/bin/crond-agent"}

DashedWords == {"--key", "--api-url", "--timeout", "--passthrough-stdout", "--",
                "--config", "--config="}

TimeoutFlag == <<"--timeout">>
Redaction == {"CROND_REDACT_PATTERNS"}
=============================================================================
