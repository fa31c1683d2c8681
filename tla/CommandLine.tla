---------------------------- MODULE CommandLine -----------------------------
(***************************************************************************)
(* How the agent finds its subcommand, and exec the command, in the        *)
(* arguments.  A token is a string; a flag with its value is one token,    *)
(* --name=value, of which the value is left out, and --config may also     *)
(* have its value as the next token.                                       *)
(***************************************************************************)
EXTENDS Integers, Sequences, SequencesExt

CONSTANT Dashed     \* the tokens that package flag takes for flags: a dash
                    \* and more

\* The flags of exec with a value that parses; any other dashed token is an
\* unknown flag, a malformed value, or -h.
Separator == "--"
Flags     == {"--key", "--api-url", "--timeout", "--passthrough-stdout"}

ASSUME DashedAssumption == Flags \cup {Separator, "--config", "--config="} \subseteq Dashed

After(args, i) == SubSeq(args, i + 1, Len(args))

\* flag.FlagSet's Parse and Args: the flags at the front are taken off, and
\* a separator that ends them with them.
FlagArgs(args) ==
    LET i == SelectInSeq(args, LAMBDA a : a \notin Flags)
    IN  CASE i = 0               -> <<>>
          [] args[i] = Separator -> After(args, i)
          [] OTHER               -> After(args, i - 1)

\* flag.ExitOnError: what is neither a flag of exec nor the end of the flags
\* ends the process, with 2, or with 0 after -h.
Parses(args) ==
    LET i == SelectInSeq(args, LAMBDA a : a \notin Flags)
    IN  i = 0 \/ args[i] = Separator \/ args[i] \notin Dashed

\* Taking the separator as part of the command.
FindCommandArgs_OffByOne(args) ==
    LET i == SelectInSeq(args, LAMBDA a : a = Separator)
    IN  IF i = 0 THEN Tail(args) ELSE After(args, i)

FindCommandArgs(args) ==
    LET i == SelectInSeq(args, LAMBDA a : a = Separator)
    IN  IF i = 0 THEN args ELSE After(args, i)

Subcommands == {"exec", "ping", "config", "install", "version", "help"}

\* Removing --config wherever it is.
ExtractConfigFlag_Anywhere(args) ==
    LET i == SelectInSeq(args, LAMBDA a : a \in {"--config", "--config="})
    IN  CASE i = 0                   -> args
          [] args[i] = "--config="   -> SubSeq(args, 1, i - 1) \o After(args, i)
          [] OTHER                   -> SubSeq(args, 1, i - 1) \o After(args, i + 1)

\* extractConfigFlag: --config is the agent's up to the subcommand or the
\* separator; as the last token it has no value and is left alone.
ExtractConfigFlag(args) ==
    LET i == SelectInSeq(args, LAMBDA a :
                 a \in Subcommands \cup {Separator, "--config", "--config="})
    IN  CASE i > 0 /\ args[i] = "--config=" ->
               SubSeq(args, 1, i - 1) \o After(args, i)
          [] i \in 1..(Len(args) - 1) /\ args[i] = "--config" ->
               SubSeq(args, 1, i - 1) \o After(args, i + 1)
          [] OTHER -> args

\* The command that an agent with these arguments runs, if any.
AgentCommand(args) ==
    LET rest == ExtractConfigFlag(args)
    IN  IF rest # <<>> /\ rest[1] = "exec" /\ Parses(Tail(rest))
        THEN FindCommandArgs(FlagArgs(Tail(rest))) ELSE <<>>

=============================================================================
