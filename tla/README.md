# crond-agent in TLA+

This directory is a verification project for crond-agent: TLA+ modules that
model its code, TLC configurations that check them on small instances, and
theorems with proofs that TLAPS checks for every value of the constants. Paths
below are relative to the repository (`src/`); `PROJECT.json` maps every
definition to the lines it models.

## Inventory

crond-agent wraps a cron job: `crond-agent exec -- cmd` sends a *start* ping,
runs the command, and sends *success* or *fail* with the exit code, the
duration and the captured output. A Kubernetes admission webhook
(`crond-agent-injector`) rewrites CronJobs so that their container runs through
the agent.

| Component | State | Operations | Talks to | Hard behaviour | What makes it correct |
|---|---|---|---|---|---|
| Command runner, `internal/exec/runner.go` | select loop, signal channel, timers, two goroutines, the child's process group | start, forward a signal, time out, escalate, wait, report | kernel, host, exec subcommand | three goroutines and the kernel interleave; signals before, during and after the fork; timer against exit; pgid reuse; helpers that outlive the leader | no orphan; SIGTERM, grace period, SIGKILL; no storm of signals; truthful result; the run ends; capture is read when nobody writes |
| Output capture, `internal/exec/redact.go`, `cappedWriter` | held partial line, capped buffer, truncated flag | write a chunk, force-flush, close | runner (copying goroutines) | chunk boundaries, cap boundary, lines longer than the cap | redaction independent of chunks; bounded memory; nothing lost silently |
| Ping client, `internal/ping/client.go` | attempt, context, timers | send, retry, back off, give up | API over HTTP | lost, late and duplicated requests; deadline against retry | ends by its deadline; retries exactly what a retry can cure; truthful outcome |
| exec subcommand, `cmd/crond-agent/commands.go` | phase, pending pings, exit code | start ping, run, final ping, exit | runner, ping client | API down; agent killed between two steps; late pings | the final ping says what happened; the API cannot hold up or change the job |
| Command line, `cmd/crond-agent/main.go`, `commands.go` | arguments; the binary in a pod's shared volume | extract `--config`, dispatch, overlay flags, find the command; `config`, `ping`, `install` | configuration, kubelet | nested `--`, a job's own `--config`; `install` fails or is killed half way and runs again | the command reaches the runner unchanged; a job container never meets an unfinished binary |
| Configuration, `internal/config` | merged settings, files on disk | find the file, defaults, file, environment, flags, validate | everything | precedence, malformed, empty and zero values; files that come and go during the search; validation before the flags | the strongest usable source wins; what is used was validated; the system's file is not passed over |
| Webhook injection, `internal/webhook/injection.go` | CronJob object | build a JSON patch | Kubernetes API | applied again to its own output; updates that reset a part of it | idempotent; never breaks the job |
| Admission handler and injector server, `internal/webhook/handler.go`, `cmd/crond-agent-injector/main.go` | two goroutines, a listener, a handler per client | start, review, subscribe, shut down | API server, kubelet | signal before, during and after start-up; three timeouts side by side; clients that stall | never denies; in-flight reviews finish; the stop ends |
| Logging, `internal/logging` | - | choose level and format | - | - | - |
| Install script, `install.sh` | downloaded files, target binary | download, verify, install | GitHub, file system | failure between steps | nothing unverified is installed |
| Helm chart, `charts/crond-agent` | certificate, ConfigMap | render | Kubernetes | certificate kept over upgrades | webhook and server agree on the CA |

## Modules

| Module | Models | Extends / instantiates | Proofs |
|---|---|---|---|
| `Runner` | `RunWithOptions`, `waitWithGracefulTermination` and the processes they run | instantiates `CommandRun` | `RunnerProofs` |
| `CommandRun` | what a run promises its caller (abstract) | | |
| `PingClient` | `Send`, `sendWithRetry` and the network | instantiates `PingCall` | `PingProofs` |
| `PingCall` | what a call of `Send` promises its caller (abstract) | | |
| `ExecAgent` | `runExec`: two pings around one run | instantiates `CommandRun` once, `PingCall` twice | `ExecProofs` |
| `Capture` | `streamingRedactWriter` and `cappedWriter` on one stream | | `CaptureProofs` |
| `Launch` | `main()`, `config.Load`, `Validate`, the flags of `exec` and `ping`, `config`, `install`, and the host around them | | `LaunchProofs` |
| `CommandLine` | `extractConfigFlag`, `findCommandArgs`: from `os.Args` to the command | | `CommandLineProofs` |
| `Injection` | `BuildInjection` in the life of a CronJob | extends `CommandLine` | `InjectionProofs`, which extends `CommandLineProofs` |
| `InjectorServer` | the injector's `main()` and `ServeHTTP`: start, reviews, shutdown | | `InjectorProofs` |

`MCx` extends `x` with the values its configurations need.

The composition runs through the two abstract specifications. `Runner`
implements `CommandRun` and `PingClient` implements `PingCall`; both facts are
proved. `ExecAgent` is built from any behaviour the abstract specifications
allow, so what is shown of it holds for the real runner and the real client
without their product having to be explored.

The other modules meet at assumptions. `Launch!ValidAtUse` is what
`PingAssumption` (no negative retry count) and `CaptureAssumption` (a positive cap)
ask of the configuration, and why `CompileRedactPatterns` cannot panic;
`Launch!WholeBinary` is why the wrapper that `Injection!WrapperComplete` speaks of
can run. `InjectorServer` decides which calls get a patch; `Injection`, in which
the webhook may be down for any submission, shows what a CronJob looks like after
any sequence of such decisions.

### Runner

*State.* `pc` is the line of `RunWithOptions`, `waiter` the goroutine around
`cmd.Wait`, `killer` the goroutine that sends SIGKILL after the grace period.
`sigs` is the channel `signal.Notify` fills (capacity 1), `ctxDone` and
`timeoutCh` say whether the select still watches a channel (the code sets it to
nil once used), `timeoutLeft` and `graceLeft` are the two timers. `proc`,
`trait`, `pending` and `status` are the kernel's view of the wrapped command and
its helpers. `recycled` says that the group id was given to somebody else.
`received`, `forwarded`, `sinceFirst` and `strays` are history variables.

*Actions.* `Refuse` .. `Finish` follow `RunWithOptions`; the four `Select...`
actions are the four cases of the select, of which any ready one may be taken,
as in Go; `Reap`, `CopyEnds`, `StoreExited` and `SendWaitErr` are the steps of the
waiting goroutine (wait4 returns, the copying goroutines see EOF or fail, the
atomic store, the send on the channel); `GraceFires`, `SendKill` and `KillerQuits`
those of the escalation, with a gap between the check of `childExited` and
`syscall.Kill`, because the code has no lock there. The environment forks, exits
and delivers signals, sends signals to the agent, cancels the context, lets time
pass and recycles the group id.

*Abstractions.* A process has fixed traits: whether it stays in the group,
whether it holds the captured pipes, and what SIGTERM does to it. SIGHUP, SIGQUIT
and SIGKILL sent to the agent are left out: the code does not subscribe to them,
so they end the agent and the model would end with it. stdin, the environment
and the working directory of the command are left out.

### PingClient

One call under the deadline of its context. Each attempt has a request, known to
the server as unsent, flying, handled or lost, and an answer; what the client saw of
it is a history variable. `Send`, `Answered`, `DoFails`, `BackoffEnds` and
`BackoffCancelled` are the steps of `sendWithRetry`; `Verdict` is its switch on the
status code and `Delay` its capped exponential backoff. The server may handle a
request at any time after it was posted, also after the client gave it up. HTTP,
TLS and JSON are left out.

### ExecAgent

`at` is the line of `runExec`, `start` and `final` the two calls, `log` what the
server accepted in its order. `Judge` chooses success or fail, `Exit` the exit
code. `Killed` is a signal that finds no subscriber: during a ping, or in the
run where `CommandRun!Abort` allows it.

### Capture

`buf` is the partial line the redactor holds, `cap` the capped buffer and its
flag, `said` all that the command wrote, `patterns` the configured list. `Copy` is
one read of the copying goroutine of any length, `Close` is `flushRedactor`. What
the regular expressions do to a text is the constant operator `Redact`, of which
`CaptureAssumption` asks only that it does not make a text empty: patterns may
grow or shrink a line, overlap each other's placeholders, span lines or be
anchored. Which lists are independent of a cut at the end of a line is a property
of the list (`Separable`), and only those make the capture independent of the reads.

### Launch

*State.* `files` is what `os.Stat` makes of each of the three searched files for the
user the agent runs as: absent, behind a directory that user may not search (closed, which
stands for any other error) or open. `target` is the binary in a pod's volume, `installed` what the kubelet knows of the init container, `at`
the line of the process. `config` holds, for each field, the source it comes from
and what it is: usable, refused by `Validate` (`bad`), a zero duration, an explicit
false, a list without patterns (`empty`: a `CROND_REDACT_PATTERNS` of blanks, or `[]`
in the file). `given` is what the sources hold, malformed values (`junk`) included, and
`steady` the candidates whose status has not changed since the search began: both
are history variables.

*Actions.* `Start` .. `Dispatch` follow `main()` and `Load`. The search is one step per
`os.Stat`, because the administrator may create, remove, open or close a file between two
of them and before the file is read. `Look` passes over a candidate on any error of
`os.Stat`, as the code does; `ReadFails` is a file that is gone, closed, unreadable or
no YAML by the time it is read. `ParseFlags`, `Revalidate` and `Refused` are the part of `runExec` and
`runPing` before they act; what comes then is `ExecAgent` and `PingClient`.
`OpenTarget`, `Copy` and `CloseTarget` are `installSelf`, with an error at each step.
Cron starts a process at any time, the kubelet `install` until it succeeds and
the job after it; a process may be killed anywhere, a pod be replaced and a
sandbox be made again with the old volume.

*Abstractions.* `retries` stands for `max_output_bytes`, which is treated alike;
`capture_output`, `log_level` and the others follow the rules of the fields that are
modelled. A file's content is whatever it is when it is read. The arguments of
`install` come from the chart and parse.

### InjectorServer

`main` and `stopper` are the lines of the two goroutines, `queued` the slot of the
signal channel, `drained` the time since `Shutdown` began. Each client makes one
request: `handler` is where the server is with it, `call` how it looks to the
client, `age` how long ago it was made. `Bind`, `LoadKeys` and `ServerClosed` are
`ListenAndServeTLS`, which returns as soon as `Shutdown` begins; `Return` waits for
`idleClosed`. A signal before `Notify` ends the process, as does a failure of the
listener; whatever ends it cuts the calls that wait. `GiveUp` is the API server
after `timeoutSeconds`; other clients never give up and need send neither header
nor body. Several requests on one connection, HTTP/2 frames and TLS are left out:
`Shutdown` treats an idle connection as none.

### CommandLine and Injection

`CommandLine!FlagArgs` is what Go's `flag` package leaves of the arguments, and
`Parses` says whether it leaves any: with `flag.ExitOnError` a dashed token that is
neither a flag of `exec` nor the separator (an unknown flag, a malformed value, `-h`)
ends the process, and `AgentCommand` is then empty. `Dashed` are the tokens the package
takes for flags. `FindCommandArgs` is the code's search for the separator,
`ExtractConfigFlag` the global flag in front of the subcommand.

`Injection` has the user's manifest, the stored object, the
manifest last applied (which `kubectl apply` keeps in an annotation) and whether
the webhook answers. `Skipped`, `InstallOps`, `CommandOps` and `EnvOps` are the parts
of `BuildInjection` in the order of the code, `Review` is the handler. A patch is a
sequence of operations, `Stages` the object after each of them, and `Fits` that the
API server takes every one. The variables that the webhook adds are one operation
with a set of names, where the code appends them one by one. JSON Patch,
validation and the three-way merge of `kubectl apply` are external and modelled as
Kubernetes documents them: lists with a merge key are merged by key, `command` and
`args` are replaced as a whole, and annotations are dropped only if the user dropped
them. An annotation that is written but says no (`crond.io/inject: "false"`) is
taken for an absent one.
`Executed` reads the stored container back through `CommandLine`, so that the two
programs of the repository, the injector that writes a command line and the agent
that reads it, are checked against each other.

*Agents.* An agent is whatever names its binary, by any path (`Agents`): the binary in
the volume, the one on the path of an image in prebaked mode, and one at a path the user
chose. A manifest may run a container through an agent of its image, as the chart's
pre-baked example does (`examples/cronjob-prebaked.yaml`, `OwnAgents`), with or
without opting in. The code does not recognise such an agent: `Skipped` looks for the marker and
the installer only, and wraps the container again if it opts in. `WrappedOnce` states what
then holds (see [Findings](#findings)).

*Well-written manifests.* `InjectionAssumption` says what of a user's YAML the
properties rely on, because the webhook cannot repair it. A manifest is either
plain (no volume or mount of the chart's name) or has what the chart's macros render
together; it does not state the webhook's marker; an agent in it, the macro's or its
own, has its separator and its job in the command and not in the arguments, as the macro and the
example write them, runs no second agent, and has its key; the macros mount the volume into the same containers in every version of the file; and where an agent
may run, a manifest that brings something for it (key, mount, volume, installer) says what the
container runs. Without the last, applying a manifest that drops the key but leaves
the command to the image would keep the wrapper and take its key. Everything else
is free: any commands, lists, annotations, switches between webhook, macro and
neither. TLC evaluates the assumption on the manifests of each run.

### Faults

Definitions named `X_Something` are faulty variants of `X`. No specification uses
them. They are the mutants of `PROJECT.json`: with `X` replaced by the variant,
the property named there is violated, which shows that it depends on the code's
choice.

## Runs

| Run | Configuration | Shows |
|---|---|---|
| `runner_safety` | `RunnerSafety.cfg` | types, no orphan, grace period, no storm, truthful result, SIGKILL reaches the group, quiet capture, escalation never postponed, `Runner` implements `CommandRun` |
| `runner_ends` | `RunnerEnds.cfg` | a run with a timeout ends; a run the agent was signalled in ends |
| `runner_stray` | `RunnerStray.cfg` | **violated**: SIGKILL can reach a recycled group |
| `runner_detached` | `RunnerDetached.cfg` | **violated**: a detached helper that keeps stdout open defeats the timeout |
| `ping_retry` | `PingRetry.cfg` | deadline, retry policy, exhaustion, `PingClient` implements `PingCall` |
| `exec_agent` | `ExecAgent.cfg` | true verdicts, the command's exit code, no silent run; the API holds up neither job nor agent |
| `capture` | `Capture.cfg` | chunks and cap do not change redaction; bounded memory; no silent loss |
| `launch` | `Launch.cfg` | validated with the flags, merged by precedence, the strongest file that can be found, no unfinished binary |
| `injector_server` | `InjectorServer.cfg` | never a denial; a graceful stop finishes the admissions, uses its deadline, and ends |
| `injection` | `Injection.cfg` | the patch always fits, the job stays what it was, the webhook adds one agent at most, the wrapper is complete |
| `injection_nested` | `InjectionNested.cfg` | **violated**: a command with its own `--` is cut |
| `injection_reapply` | `InjectionReapply.cfg` | **violated**: applying a wrapped CronJob again unwraps it for good |

### Findings

`PROJECT.json`, "findings", quotes a sentence of the repository and says what the
code does instead. The violated runs each check one such sentence. Three more
sentences are contradicted by a property that holds:

- `config.example.yaml:38` says that redaction runs after truncation, so that the head
  of a secret at the cap may ship; the code redacts first (`runner.go:110`), and
  `RedactedThenCut` holds.
- `loader.go:55` says that the system's configuration wins; with any error of
  `os.Stat` (`loader.go:75`), such as a directory the job's user may not search, it is passed
  over for a weaker file. `SystemConfigWins` says which file does win.
- The chart's README (line 145) and `injection.go:121` call the injection idempotent on what is
  already wrapped; a CronJob with an agent of its own image is wrapped again
  (`injection.go:120`). `WrappedOnce` allows that second agent and no other, and
  `JobPreserved` shows that the job still runs once; the flags of its own
  agent are lost, because `findCommandArgs` cuts at the inner separator.

### Bounds, and why they are enough

- *Runner.* One helper with any traits, exit codes 0 and 7, two host signals, a
  timeout of one tick below a grace period of two: the timeout, the context and
  both signals fall in every order before, in and after the grace period, and a
  helper may be forked between any two steps. Further helpers, signals and
  longer timers are covered by the theorems. `runner_ends` takes a grace period of
  one and adds runs without a timeout.
- *PingClient.* Four attempts, as by default, on a clock scaled so that the
  deadline (10) falls into every attempt (3 each) and every backoff (1, 2, 2).
- *ExecAgent.* Two requests for each ping, commands that exit with 0, exit with 1
  or are killed, and budgets of 1 and 2.
- *Capture.* All outputs of up to seven bytes over four, in chunks of up to three,
  against a cap of four: lines shorter than, as long as and longer than the cap,
  patterns that make a line longer and shorter, two that meet, one across a
  newline and one anchored, each possibly cut by a chunk or by the cap. The code
  requires a cap of at least 1024 (`config.Validate`); only its relation to the
  line and the match matters.
- *Launch.* A file, an environment and a command line with at most one setting
  each besides the key, of every kind, and each searched file absent, closed or open. The code never reads one field to decide
  another, so one setting per source gives every way in which sources meet in a
  field. The number of processes, edits, kills and pods is not bounded.
- *InjectorServer.* One call of the API server and one client that may stall for
  ever, with the timeouts in their real proportion (5 s, 5 s and 10 s in ticks of
  2.5 s): a call begins, is read and times out on either side of every step of the
  shutdown. Handlers do not interact except through the server. One signal or
  many: the channel keeps one.
- *Injection.* Two containers and twenty-one manifests: wrapped in place or prebaked,
  with and without arguments and lists of their own, not opted in, without a
  key, without a command, with a missing container, written with the Helm
  macro, and with an agent of their own image, opted in or not. They are edited into each other at will, and the state space is finite
  without a bound on the number of steps. Other manifests, words and settings of
  the webhook are covered by the theorems.

### Fairness

- *Runner.* Weak fairness of the goroutines' steps (the Go scheduler runs every
  goroutine), of each select case (a case that stays ready is picked in the end,
  because select picks at random), of `Tick`, and of the delivery of a pending
  signal by the kernel. None for the wrapped command, which need not exit, nor
  for the host.
- *ExecAgent.* Weak fairness of the agent's own steps. A call of `Send` is such a
  step sequence because it makes boundedly many attempts and never outlasts its
  deadline (`PingProofs!Deadline`). None for the command, the server or the host:
  `JobNotHeldUp` and `AgentLeaves` say what the API cannot delay.

- *InjectorServer.* Weak fairness of the two goroutines, of each handler's own
  steps, of the API server's timeout and of the clock. None for clients, signals
  and failures, so `StopEnds` holds although a client never finishes its body.

`Launch` and `Capture` have no liveness property. `runner_detached` is checked under the same fairness as `runner_ends`; only the
helper's traits differ.

## Proofs

Every theorem holds for all values of the constants that satisfy the named
assumption of its module: `RunnerAssumption`, `PingAssumption` (retries are natural
numbers, as `config.Validate` demands; the base delay is any integer),
`ExecAssumption`, `CaptureAssumption`, `LaunchAssumption` (what a setting may be), `DashedAssumption`
(`exec`'s flags, `--config` and the separator look like flags), `InjectionAssumption` (well-written
manifests, see above; neither an extra flag for `exec` nor the name of a binary is the
separator) and
`ServerAssumption` (the API server's timeout is below the deadline of `Shutdown`;
Kubernetes allows up to 30 s, and with `injector.timeoutSeconds` at 10 or more
`AdmissionsFinish` would not hold).

**`RunnerProofs`.** None of the safety properties is inductive, because each
is about one goroutine and another could be anywhere. `IInv` adds:
`Stages`, how far the waiting goroutine and the leader are at each line of the
caller; `Outcomes`, how the leader's end, `cmd.Wait`'s error and the result follow
from one another; `Quiet`, that no process holds a pipe once `cmd.Wait` saw EOF
(only a process that holds one can fork one that does); `Escalation`, that the
clock of the escalation is the time since the first signal; `Reach`, that SIGKILL
is pending for the whole group (a process with a signal pending does not fork:
the kernel delivers the signal first and restarts the call); and `Budget`, that every signal sent was
paid for. From it follow `NeverOrphans`, `Grace`, `NotPostponed`, `NoStorm`,
`Faithful`, `Quiescent`, `Subtree` and the refinement of `CommandRun`.

**`PingProofs`.** `Clock` ties the context's deadline to elapsed time, `Progress`
says what the client saw of the attempts before the current one, `Answering` that
answers come from handled requests. From it follow `Deadline`, `Stops`, `Exhausted`
and the refinement of `PingCall`.

**`ExecProofs`.** The invariant follows the truth through `runExec`: `Reported` (the
report is the command's end), `Stages`, `Judged` (the ping's kind follows from the
report), `Recorded` (the server knows of that kind only), `Left` (the exit code).
From it follow `Truthful`, `ExitFaithful` and `NeverSilent`.

**`CaptureProofs`.** The properties compare what was done chunk by chunk with the
whole output, which looks like an induction over the chunks; instead the
invariant relates the state to `said` as it stands: `said` is some `d` that was
passed on, followed by what is held (`Ahead`). While no line reaches the limit and
the writer is open, a redacted `d` ends at a newline, and what was captured is the
cut of `d` redacted as a whole. A write passes on a longer `d`, and `Separable`
says that redaction distributes over text that is split at a newline
(`PassRedacted`). For output that no pattern changes (`Untouched`) the captured
text is the cut of `d` wherever the flushes fell. From it follow `Bounded`,
`Redacts` and `Complete`.

**`LaunchProofs`.** That every field comes from the strongest source (`Merged`) is
inductive with `KnownSoFar`, because it holds after each overlay of what was read
until then. `Searching` says that a candidate that is still to be looked at is not
passed over, that one that could be found throughout would have been, and that one
that could not was not taken;
`Installing` who may write the volume. From it follow `Validated`, `Precedence`,
`Search` and `Whole`.

**`InjectorProofs`.** Two clocks run side by side: no call begins once `Shutdown`
has closed the listener, so a call that waits is at least as old as the drain
(`DrainIsYounger`), and the API server gives up (`CallsBounded`) before the deadline.
`ClosedMeansDone` carries this over `idleClosed` to `main`. From it follow `Finish` and
`Deadline`.

**`CommandLineProofs`.** A search is for the least index with a property. That a
set of indexes has a least element comes from the library's theorem on
well-founded relations (`MinExists`); `FlagsOff` then says that, whatever the flag
package takes off the front, the command behind the first separator stays the
same, and `FirstSeparator` that it is the first separator where the arguments before it
have none. `RunsTheCommand` is the result for a whole `exec` command line of any length,
also for a job with a `--config` of its own: the command behind the separator if
the arguments before it parse, and nothing if they do not (`flag.ExitOnError`);
behind nothing but `exec`'s flags (`OnlyFlags`) it also says what becomes of a command with
separators. `ConfigInFront` adds the agent's own `--config`.

**`InjectionProofs`.** In three layers.

1. *Patches of any length.* `Stages` is a recursive function over the operations.
   `UpTo` is induction over an interval, put as a fact about a set of indexes: the
   least index outside the set gives a contradiction. With it `StagesDef` shows that
   `Stages` is what its equation says and `PatchConcat` that a patch in two parts
   works part after part.
2. *The webhook's patch.* `Installing`, `Commanding`, `Informing` and `Stamping` are the
   effects of its parts; although each part was computed from the unpatched
   object, the parts before it do not touch what it was computed from
   (`TheParts`). `ReviewIs` sums up what a review does to an object and when its
   patch fits. `WrapperRunsTheCommand` takes the command that the injector writes
   through the agent's parser, for extra flags that parse and for those that do not. `Idempotent` and `UnmarkedIsWrapped` follow.
3. *The life of a CronJob.* None of the properties is inductive: an object may lose
   half of its wrapper to a merge that looks only at keys. `Sound` adds what a
   three-way merge can count on: a wrapped container is one that a manifest or
   the webhook may wrap, and complete (`Covered`), so that no manifest takes away its key
   without saying what it runs; what its agent runs is a job, or an agent of a manifest's
   own that runs one (`Layered`); the target is one that a manifest
   names (`Aimed`); and without the marker, everything of the agent's
   is what a manifest put there, so that dropping the installer drops it all but
   the manifest's own agents (`Mountable`, `Unwrapped`). `TheMerged` and `TheReviewed` are the two halves of the
   step. From `IInv` follow `DoesNoHarm`, `WrapsOnce` and `WrapsCompletely`.

`KeepsTheJob` has two hypotheses of its own: the configured extra flags are flags of
`exec` with values that parse, because with any other the agent ends in package `flag`
and the job does not run; and no manifest has a separator in a command or among
arguments but the one of an agent in it. The second is needed: `InjectionNested.cfg` is
the counterexample without it. `MCInjection!SeparatorAssumption` checks both for
`Injection.cfg`.

**Only model-checked.** The liveness properties (`TimeoutEndsRun`, `SignalEndsRun`,
`JobNotHeldUp`, `AgentLeaves`, `StopEnds`): liveness under fairness needs ENABLED,
which the prover does not handle. Every safety property that a passing run checks
is also a theorem. The violated runs are counterexamples, and need no proof.

## What the checks do not promise

Facts met while modelling that are the design's, or that no sentence of the
repository denies:

- The deadline of the final ping (90 s, `commands.go:141`) cuts the third attempt of
  four at 27 s when the API hangs: 30 + 1 + 30 + 2 leave no more. The comment above
  it counts on about three.
- A pattern that spans lines or is anchored sees where the reads fall
  (`redact.go:47`), and a line longer than the cap is redacted in pieces
  (`redact.go:66`).
- A helper that ignores SIGTERM and does not hold the pipes survives a run whose
  leader exits in the grace period (`runner.go:263`).
- A negative timeout passes `Validate` and means no timeout, without the warning
  (`commands.go:44`); a zero `--timeout` cannot clear one that is configured.
- `main()` validates before the flags are applied: a flag cannot rescue a bad value,
  and `version`, `config` and `install` fail with the rest. A malformed variable is
  ignored without a word, `CROND_TLS_INSECURE_SKIP_VERIFY` excepted
  (`loader.go:120`). A `CROND_REDACT_PATTERNS` of blanks is a list without patterns and
  replaces the configured one (`loader.go:134`).
- The injector's listener closes as soon as the signal arrives; a call that is
  routed to it after that is refused and the CronJob admitted as it is, like one
  that meets the scheduling gap before `Notify` (`main.go:66`).
- The usage text calls `CROND_REDACT_PATTERNS` comma-separated (`main.go:120`); the
  code splits at newlines (`loader.go:134`).
- A volume in the user's pod with the configured name, or a mount of the user's at
  the configured path, makes the patched object invalid (`injection.go:152`), and the API server then
  refuses a CronJob that it would have stored, though the chart's README (line 140) says
  that the add-on must never block workloads. The chart has a value for each
  (`sharedVolumeName`, `sharedMountPath`). Manifests that collide with them are not well written (`Plain`).
- `Shutdown` counts a connection whose next request's header is not read yet as idle and
  may close it under a client that reuses it. `InjectorServer` has one request for each
  connection.

## Not modelled

- *`install.sh`*: sequential, `set -e`, run by hand; nothing it leaves behind is read
  by a later run but the installed binary.
- *Helm chart*: templates, evaluated once; the certificate kept over upgrades is
  Helm's `lookup`. What the models need of the chart (timeouts, `failurePolicy`, the
  init container, the macro's output) is in them as constants and actions.
- *Logging, packaging, CI, end-to-end script*: no state of the program.
- *`buildTLSConfig`, `redactArgsForLog`, `RedactedPingKey`, `escapeJSONPointer`*: pure
  conversions that no property here depends on. Health and readiness endpoints
  answer `ok` whatever the state.

## Plan

Done, in this order, the most important behaviour first: `Runner` with
`CommandRun`; `PingClient` with `PingCall`; `ExecAgent`, which composes them; `Capture`;
`CommandLine` and `Injection`; `InjectorServer`; `Launch`; proofs of the safety
properties of all of them.

Next:

1. The composition as theorems: that what `Launch` hands over satisfies the
   assumptions of `PingClient` and `Capture`, in one statement across the modules.
2. Manifests exported from the cluster, which state the webhook's marker: what
   `kubectl apply` makes of them, and what well-written means for them.
3. Several injector replicas behind one service during a rolling update: which
   admissions meet none of them.
4. `install.sh` as steps over a file system that may fail or stop after each.
