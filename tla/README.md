# A TLA+ model of otters (`oj`)

`oj` runs development pipelines: a daemon (`ojd`) takes requests from a command
line client (`oj`), moves pipelines through the phases of a runbook, runs shell
phases itself and agent phases in tmux sessions, and records every change in a
write-ahead log from which the next daemon rebuilds its state. These modules
model that system from the source under `src/crates`, check the models with TLC
and prove the central facts with TLAPS.

## 1. The system

| Part | State it keeps | Operations | Talks to |
|---|---|---|---|
| core (`core/src`) | none: `Pipeline`, `Operation`, `Event`, `Effect` are values | constructors, `Pipeline::transition` | used by all |
| runbook (`runbook/src`) | the loaded runbook | phase lookup, next phase, on_fail, error actions | read by the runtime |
| materialized state (`storage/src/state.rs`) | pipelines, sessions, workspaces | `apply` of one operation, lookups | changed by the executor, read by all |
| write-ahead log (`storage/src/wal.rs`) | the file, a sequence number | `open`, `append`, `replay` | executor, startup |
| runtime (`engine/src/runtime.rs`, `phases.rs`, `spawn.rs`, `events.rs`, `monitor.rs`) | runbook, a scheduler of its own | one handler per event | executor |
| executor (`engine/src/executor.rs`) | none | one effect after another; `Shell` gives an event back | log, state, adapters, scheduler |
| scheduler (`engine/src/scheduler.rs`) | timers with deadlines | set, cancel, take the fired ones | runtime; polled by the daemon |
| daemon loop (`daemon/src/main.rs`, `lifecycle.rs`, `server.rs`) | stack of pending events, shutdown flag | serve a connection, heartbeat, session check, signals | everything |
| daemon start and stop (`daemon/src/lifecycle.rs`) | lock, pid, socket and version files | startup, cleanup after a failed one, shutdown | client, other daemons, through files |
| client (`cli/src`) | none between commands | connect or start, send, `oj daemon start/stop` | daemon, through socket, files and signals |
| adapters (`adapters/src`) | tmux sessions, git worktrees and branches | spawn, send, kill, is-alive, worktree add and remove | the outside world |
| session log reader (`engine/src/session_log.rs`) | none | what claude is doing, from its log | session monitor |
| arguments and templates (`runbook/src/command.rs`, `template.rs`, `cli/src/commands/run.rs`) | the args spec of a command | parse the spec, split the line, validate, bind, interpolate | client, then runtime |
| runbook parser (`runbook/src/parser.rs`) | none | the files of a project to a runbook | client, daemon startup |
| protocol (`daemon/src/protocol.rs`) | none | length-prefixed frames with time limits | client, server |

One request goes this way: `oj` writes a frame to the socket; the loop accepts
it and calls `process_event`, which pops one event at a time off a stack, runs
its handler, carries out its effects one by one (each `Persist` first to the log,
synced, then in memory), pushes the events shell effects produced, and answers
when the stack is empty. Agents answer later by running `oj done`, which is a
request like any other. Every second the loop polls a scheduler, and about every
ten seconds looks at the tmux sessions.

### What is hard in it

* A request is many steps, any of which may fail or be the last before a crash:
  what the log, the disk, tmux and the client then have must fit together.
* Signals of agents name a pipeline and no phase; they can be late or repeated.
* The log must be ahead of memory, and a log file that was cut short or that a
  failed append left half a line in is read back by the next daemon.
* Daemons and clients of one project are ordered by nothing but files: a lock on
  a file that others may unlink, paths that are tested and then removed, a
  socket file that outlives its daemon.
* The daemon serves one connection at a time on the thread that also looks after
  timers and sessions; what a slow client costs the others is a matter of time limits.
* What a user types is split by clap, checked by one function, bound by a second and
  put into text by a third, in two processes.
* Two schedulers, three names of one session, and links (`session_id`,
  `workspace_path`) that are never made.

What makes each part correct: the log reproduces memory; the records follow the
runbook; what exists outside (workspace, session) is recorded first and never
shared; an answer means what it says and comes; a readable log is complete; at
most one daemon passes the lock and the one that serves can be found; a request is
carried out at most once and no client holds the loop for long; what was typed is
what a phase gets.
`PROJECT.json` lists the hazards at their lines with the properties that cover them.

## 2. The modules

| Module | Models | How it corresponds to the code |
|---|---|---|
| `Core` | `core/src` | pipelines, operations, events, effects as records; names, prompts, times left out |
| `Runbook` | `runbook/src/pipeline.rs`, `agent.rs` | phase lookup, `NextPhaseName`, `OnFail`, `ActionFor`; recursion-free |
| `MaterializedState` | `storage/src/state.rs` | `Apply(state, operation)`, branch by branch |
| `Handlers` | `engine/src` handlers | each handler is the sequence of effects it asks for; `return Err` is an `Abort` at its place in the sequence |
| `Engine` | loop, executor, scheduler, adapters, startup, shutdown | one step per request, handler, effect; `Persist` is two; crash between any two, and within an append |
| `EngineProperties` | what `Engine` must do | invariants, action and liveness properties, refinement |
| `EnginePlans` | why `Engine` does it | the inductive invariants: what the effects still to come say of the state |
| `PipelineLifecycle` | abstract specification | the life of a pipeline as a runbook allows it: no events, effects, crashes |
| `Wal` | `storage/src/wal.rs` | the file line by line; an append is begin, text, newline, sync, apply; kill, power loss, failed write |
| `DaemonLifecycle` | `lifecycle.rs` startup, cleanup and shutdown; `client.rs`; `commands/daemon.rs` | one step per access to a file, for several daemons and clients |
| `LifecycleInvariants` | why `DaemonLifecycle` keeps its promises | the inductive invariants `LockInv`, `QuietInv` and `HarmInv` |
| `SessionLog` | `engine/src/session_log.rs` | what the last line of a session log says; any line may be the last |
| `RunbookParser` | `runbook/src/parser.rs`, `load_runbook` | a project is a sequence of files, a file a function from its tables to their contents; `LoadRunbook` gives the `Runbook`, `Parses` says when there is one |
| `ServerLoop` | the `select!` loop, `server.rs`, `protocol.rs`, `send_with_timeout` | one step per branch of the loop, read, handling, write, and per step of a client; time passes in units |
| `RequestReply` | abstract specification | what a client may rely on: carried out at most once, answered only if carried out, silence means nothing |
| `CommandArgs` | `runbook/src/command.rs`, `template.rs`, `cli/src/commands/run.rs` | one step per token of the args string, then load, type, run, render; a value is the places in the line its words come from |
| `HandlersProofs`, `EngineProofs`, `PlanProofs`, `EngineInvariants`, `WalProofs`, `LifecycleProofs`, `ServerLoopProofs`, `ArgsProofs` | theorems | see section 5 |
| `MCEngine`, `MCWal`, `MCDaemon`, `MCLoop`, `MCArgs` | instances for TLC | projects, lines, symmetry |

How the pieces fit. `Engine` EXTENDS `Handlers`, which EXTENDS `Runbook`,
`MaterializedState`, `SessionLog` and through them `Core`. A handler is a function because one
handler runs at a time and does not look again at what its own effects change.
`Engine` keeps the log as two values: `durable`, the state that its entries give in
their order, and `log`, how its last line stands: ended, left open without its newline,
or unreadable, there or earlier. `Replay` is `durable` unless the log is unreadable; then
there is none, and no daemon starts. `Wal` looks at the same log as a file, with an
operation an opaque value. Two of its properties are why the shortcut is a fair one:
with no failed append the memory of a daemon is the replay of the file (`MemoryIsLog`),
and with failed appends a file that can be read at all has every acknowledged entry
(`ReadableLogIsComplete`). Which appends make it unreadable is the same in both: one
that writes a part of its entry, and one that writes anything after a line left open.
What `Engine` leaves to `Wal` is the power loss, which may cut what was not synced, and
the sequence numbers.
`PipelineLifecycle` is instantiated in `EngineProperties` with
`pipelines <- durable.pipelines`, and its specification is a PROPERTY of a run.
`DaemonLifecycle` stands alone: it is about processes and files, and a serving
daemon is one step of it. Its paths name the process that made what is there, and
a pid file that is removed while open goes on without a name, lock included,
which is what makes `flock` on an unlinked file interesting.

`ServerLoop` is the daemon seen from its sockets: what `Engine` does with a request is
one step of it, and what a client sees of the frames, limits and broken connections is
`RequestReply`, instantiated there with a refinement mapping. `RunbookParser` supplies
`Engine` with its runbooks: the instances in `MCEngine` are written as the files of a
project, in either of the two forms the parser takes, and a project whose files do not
parse has no daemon. `CommandArgs` follows one command from the args string in the
runbook over the line that was typed to the text of a phase; what happens to the
command in between is `Engine`'s `CommandInvoked`.

Operators whose comment begins with "Mutant" are plausible bugs, each beside the
definition it would replace; `PROJECT.json` names the property that catches it.

## 3. What is checked

Runs that pass:

| Run | What it shows | States, bounds |
|---|---|---|
| `MCEngine` | `LogAheadOfMemory`, `WorkspaceBeforePipeline`, `OneWorkspacePerPipeline`, `SessionRecorded`, `ShellResultIsFresh`, `WaitingIsServed`, the action properties `OkMeansSettled` and `RecordsFollowRunbook`, the type invariant, and the inductive invariants `EngineInv`, `SettleInv` and `LifeInv` | 2 pipelines and 2 names in contention, every kind of request, 3 requests, 1 fault, 1 crash or shutdown, 8 projects of which 3 do not parse and 4 cannot run to their end; 0.8 million |
| `MCEngineLife` | `PhaseFollowsRunbook`: the records of the log refine `PipelineLifecycle`; `EveryRequestAnswered` under fairness | 3 requests, 1 fault, 1 stop, a runbook that changes at a restart, runbooks without a cycle of shell phases; 0.5 million |
| `MCWal` | `ReadableLogIsComplete`, `SequenceCountsLines`, `MemoryIsLog` | 5 appends, 2 faults, 3 kills or power losses; 0.2 million |
| `MCDaemon` | `LockExcludes`, `ServingIsFindable` with its inductive invariant `QuietInv`, `NobodyHarmed`, and `NoTimeLimitNeeded` under fairness | 1 user, 3 commands of any kind, 4 daemons, of which one may be of another release, 1 startup fault, 1 crash, 1 signal, 1 time limit |
| `MCArgs` | `ParserIsExact`, `RequiredAreBound`, `RefusedForCause`, `EveryWordOnce`, `TextIsWhatWasTyped` | 3 names, every args string of 3 tokens, up to 2 assignments and 3 words on the line, or a line that clap refuses; 0.6 million |
| `MCLoop` | `HeldBounded`, `RequestsAreCalls` (refinement of `RequestReply`), and under fairness `ConnectionsEnd` and `QuietMeansChecked` | 2 clients, each again and again, a time limit of 3 units, a sleep of 2, a check every 3; 0.1 million |

Why the bounds are enough. A conflict needs two pipelines that want one name and a
third request to follow them; every crash property is about one interruption
between two steps and what the next daemon finds, and the same holds of a fault.
For the life of a pipeline three requests take one through start, done, and a
duplicate or a failure. In the log two faults and three crashes cover damage, restart,
damage to what the restart wrote, and another restart. Of daemons, one serves, a
second is started beside it, a third after it, and a fourth is of the old release.
Three tokens are the least in which order, a duplicate and a variadic with something
before and after it meet, and three words the least that leave a variadic more than
one. Two clients are one that is served and one that waits; because each comes again
and again there is no bound on the number of connections, and time is bounded only
through the limits, which the loop acts on when they are over. The numbers differ from
the program's (5 s, 1 s, 10 s) and keep what matters: a sleep is shorter than a time
limit and than the interval of the session checks.

An append may fail in three ways in `Engine` (`AppendFails`): with nothing written, with
a part of its entry written, and with the whole entry in the file and only the newline
or the sync missing. After the second the log cannot be read, and after the third, if
the newline is missing, the next append makes it so; the daemon notices neither and goes
on answering Ok. The properties that are about what a replay finds therefore have the
premise that there is one (`Replay # Nothing`, in `LogAheadOfMemory` and
`OkMeansSettled`): where it fails, so does the promise, which is the finding of
`MCWalLost`. The others speak of the entries of the log and hold regardless.

The third way is on in `MCEngine` and off in `MCEngineLife` (`SyncFaults`): after it the
log has a record memory does not have, handlers go on from memory, and the records need
not follow one another until the next start. `LogAheadOfMemory` names that case
with the history variable `diverged`, and `RecordsFollowRunbook` is the part of
`PhaseFollowsRunbook` that holds with such failures: every record up to and with
the one whose append failed, and again from the next start. A kill between the entry
and its newline (`KilledInAppend`) is a crash as any other, and in both runs.

A client may send any event (`ClientEvents`), shell results included, which no part of
the program sends: one of those may be stale, and the guard of
`handle_shell_completed` drops it. `ShellResultIsFresh` is about the results of the
commands that the daemon ran, which are never dropped, whatever clients send.

An effect that fails may leave a part behind (`EffectFails`): the old session killed and
no new one, the branch without its worktree, a directory made or removed. A later command
of that name is then refused, as the code refuses it.

`LockExcludes` carries the premise `~stolen` (nobody removed a pid file another
daemon had open): the code does remove such files, see `MCDaemonTwo` below.
`ServingIsFindable`, `NobodyHarmed` and `NoTimeLimitNeeded` carry `~disturbed`: commands
follow one another, and no signal, time limit or start by hand beside a live daemon
interferes; crashes and failed starts may. Without it they fail, as the lock's
finding lets one expect. With one user a command never overlaps another, so that
the concurrency in `MCDaemon` is between the command, the daemon it starts, the
one it asked to stop, and those of earlier commands that are still on their way
up or down. `LifecycleProofs` has no such limit.

Fairness. `Engine`: weak fairness of the loop's work, its tick and of a start: a
single thread that has work goes on with it, its sleep ends, and clients start a
daemon when there is none and the log can be read. Nothing is assumed of clients,
agents, faults, crashes.
`DaemonLifecycle`: weak fairness of each process's own steps; none of users, time
limits, signals, faults and crashes. `ServerLoop`: weak fairness of each branch of the
loop, of reading, handling and writing, and of time: a handler returns, and clocks go
on; and strong fairness of the heartbeat, because `select!` picks at random among the
branches that are ready, so that a sleep which is over again and again when it picks is
picked in the end. The finding of `MCLoopStarved` holds with it: there the sleep is
never over, because each turn begins a new one. Nothing is assumed of clients, signals and
crashes, least of all that a client writes or reads.

Symmetry is used where only safety is checked. Daemons are drawn in a fixed order
(`CHOOSE`), which serves the same purpose where liveness is. Deadlock is not
reported because every model ends where its bounds are reached, and a log or a
project whose daemon cannot start is meant to stay so.

## 4. Where documents and code disagree

Each of these runs has TLC find a behaviour that contradicts a comment or a document
quoted in `PROJECT.json`:

| Run | Property | What happens |
|---|---|---|
| `MCEngineDead` | `DeadSessionNoticed` | pipelines are never linked to their session, so the session check passes over them; and the monitor's timer is set in a scheduler nobody polls |
| `MCWalLost` | `AckedIsReadable` | the append after a failed one continues its line and returns Ok |
| `MCDaemonTwo` | `OneDaemonServes` | a start that fails at the lock removes the running daemon's files, and a second daemon serves |
| `MCDaemonRefused` | `RefusedMeansStarted` | the socket of a crashed daemon keeps every command from starting a new one |
| `MCArgsFlags` | `GivenOptionIsUsed` | an option typed as in the document's example becomes a word of the variadic, and its default stays |
| `MCLoopStarved` | `ChecksRecur` | the sleep of the loop is made anew at each turn, and clients that come more often than it lasts keep timers and session checks from being looked at |

Met while modelling, visible in the definitions, without a run of their own:

* `oj session send` passes the id of the session record to tmux, whose session is
  called `oj-<id>`, so the request is refused (`ServeSessionSend`, `MustFail`).
* A phase that runs a strategy, or an agent that is not defined, is recorded as
  Running and then refused: the client is told, the pipeline stays (`StartPhase`).
* The session of a completed pipeline is not killed, for want of the link
  (`CompletionEffects`).
* A signal after the end moves a pipeline from done to failed (`AgentError`), or
  marks one in phase failed Completed (`AgentDone`). `PipelineLifecycle` admits both.
* After a failed append and a restart two entries may carry one sequence number,
  where `04-storage.md` says that numbers "never decrease or repeat";
  `SequenceCountsLines` therefore asks for no failed append.
* A torn last line makes `Wal::replay` fail, and every later daemon with it (`Open`,
  guarded by `Readable`), where `04-storage.md:104` says "Truncate at last valid entry".
* A pipeline that a crash interrupted in a shell phase stays Running: `reconcile_state`
  only warns, where `01-daemon.md:196` says "Resume or fail stale pipelines".
* A phase whose definition does not parse is passed over without a word (`ParsePipeline`),
  where `01-daemon.md:174` says that parse errors "are visible to the user".
* Words beyond what the spec declares are dropped without a word (`EveryWordOnce` says
  which), and the values that the older format of args gives its options too (`LoadStruct`).
* A request is carried out although its client has given up (`ReadRequest` does not ask
  whether anyone waits), as `RequestReply` says of every request without an answer.
* `connect_or_start` calls `block_on` within the runtime on a version mismatch,
  which panics: the old daemon is never stopped (`CheckVersion`).
* `ActionEffects`, the session check's handlers and most of `HandleTimer` cannot be
  reached in a running system, because of the first two rows above. A client of its
  own may send a Timer event, which then stops at the missing workspace link.

## 5. What is proved

For every value of the constants that satisfies the ASSUMEs:

| Theorem | Statement |
|---|---|
| `EngineProofs!EngineTypeOK` | `Spec => []TypeOK` of `Engine` |
| `EngineProofs!EngineLogAhead` | `Spec => []LogAheadOfMemory` |
| `EngineInvariants!EngineInvariant` | `Spec => []EngineInv`, the inductive invariant of the next four |
| `EngineInvariants!EngineWorkspaceFirst` | `Spec => []WorkspaceBeforePipeline` |
| `EngineInvariants!EngineOneWorkspace` | `Spec => []OneWorkspacePerPipeline` |
| `EngineInvariants!EngineSessionRecorded` | `Spec => []SessionRecorded` |
| `EngineInvariants!EngineShellResultFresh` | `Spec => []ShellResultIsFresh` |
| `EngineInvariants!EngineLifeInv` | `Spec => []LifeInv`, the invariant of the next two |
| `EngineInvariants!EngineRecordsFollow` | `Spec => RecordsFollowRunbook`: the steps of `PipelineLifecycle`, until an entry is in the log whose append failed |
| `EngineInvariants!EngineFollowsRunbook` | `Spec => PhaseFollowsRunbook`, the refinement of `PipelineLifecycle`, if `~SyncFaults` |
| `EngineInvariants!EngineSettleInv` | `Spec => []SettleInv`, the invariant of the next |
| `EngineInvariants!EngineOkMeansSettled` | `Spec => OkMeansSettled`, an action property |
| `EngineInvariants!EngineWaitingIsServed` | `Spec => []WaitingIsServed` |
| `WalProofs!WalTypeOK` | `Spec => []TypeOK` of `Wal` |
| `WalProofs!WalReadableComplete` | `Spec => []ReadableLogIsComplete` |
| `WalProofs!WalSequenceCounts` | `Spec => []SequenceCountsLines` |
| `WalProofs!WalMemoryIsLog` | `Spec => []MemoryIsLog` |
| `LifecycleProofs!LifecycleTypeOK` | `Spec => []TypeOK` of `DaemonLifecycle` |
| `LifecycleProofs!LifecycleLockExcludes` | `Spec => []LockExcludes` |
| `LifecycleProofs!LifecycleQuiet` | `Spec => []QuietInv`, the invariant of the next |
| `LifecycleProofs!LifecycleServingIsFindable` | `Spec => []ServingIsFindable` |
| `LifecycleProofs!LifecycleNobodyHarmed` | `Spec => []NobodyHarmed` |
| `ServerLoopProofs!LoopTypeOK` | `Spec => []TypeOK` of `ServerLoop` |
| `ServerLoopProofs!LoopHeldBounded` | `Spec => []HeldBounded` |
| `ServerLoopProofs!LoopRequestsAreCalls` | `Spec => RequestsAreCalls`, the refinement of `RequestReply` |
| `ArgsProofs!ArgsTypeOK` | `Spec => []TypeOK` of `CommandArgs` |
| `ArgsProofs!ArgsParserIsExact` | `Spec => []ParserIsExact` |
| `ArgsProofs!ArgsRequiredAreBound` | `Spec => []RequiredAreBound` |
| `ArgsProofs!ArgsRefusedForCause` | `Spec => []RefusedForCause` |
| `ArgsProofs!ArgsEveryWordOnce` | `Spec => []EveryWordOnce` |
| `ArgsProofs!ArgsTextIsTyped` | `Spec => []TextIsWhatWasTyped` |

Assumptions: `Engine` needs that the runbooks are well-formed values and the
bounds natural numbers; `Wal` that garbage is no entry and `None` no operation;
`DaemonLifecycle` that `Nobody` is no daemon and `Old` is one; `ServerLoop` that
`Nobody` is no client, the limits are natural numbers and the sleep is not 0;
`CommandArgs` that its bounds are natural numbers, defaults are sets of names and
lines are sequences of words. One theorem has a hypothesis of its own:
`EngineFollowsRunbook` assumes `~SyncFaults`, because after an append that fails once
its entry is in the file the handlers go on from a memory without it, and what they
record next may not follow what the log says; `EngineRecordsFollow` needs no such
hypothesis and says how far the property goes with such failures.

*Types of the engine.* The work is in the handlers: `HandlersProofs` shows, for each
one, that from a typed state and event it gives a sequence of effects of the
vocabulary, which is what the executor relies on. `NextPhaseName` and the phase
lookup rest on the existence of a least index (`LeastElement`).

*The log is ahead.* `LogInv` says of the entries of the log, readable or not, what
`LogAheadOfMemory` says of a replay, because an entry appended to a log that cannot be
read changes both alike; and that a daemon that is down has no handler at work and
nothing in flight: without it a start could find an operation in flight that its memory
already has.

*The engine between two effects.* None of the engine's properties is inductive alone:
in the middle of a handler a pipeline may have no workspace yet, a phase may not be
marked Running, and only the effects still to be carried out say that it will be.
Every handler asks for its effects in one order (`Place`: workspace, worktree,
pipeline, move, status, session, spawn, timer, shell), so that whatever the rest of
the plan no longer mentions has happened. `PlanInv` says this of memory, by the
effects to be carried out, and of the log, by those to be appended
(`Justified`), and that the name of a pipeline still to be created belongs to it once
its worktree is made (`Claimed`: git refuses a second worktree of one name, and a
branch is never given up). `PlanProofs` shows that every handler's effects are such a
plan and that carrying out the head of one leaves a plan; `EngineInvariants` goes
through the steps of the engine. `Good` has what makes it true that no effect
kills, removes or deletes: no pipeline is ever linked to its session or workspace.

*Records follow the runbook.* `LifeInv`: as long as log and memory agree, the plan's
moves go where the runbook leads from the phase the log has the pipeline in, one
after another (`FollowsRunbook`), and it is completed only where it ends. A step
that appends is then a `Create`, `Move`, `Run` or `Complete` of `PipelineLifecycle`, a start a
`Reload`, and every other step a stutter.

*Ok means settled.* `SettleInv`: while a client waits, everything queued is about its
pipeline, and the plan at work ends where the pipeline is at rest, in an error, which
is not answered Ok, or in a shell command, whose result keeps the answer back. This is
so of the entries of the log in any case, and of its replay if there is one.
`WaitingIsServed`, which says that an answer is due only as long as somebody is at
work on it, is inductive as it stands: every way out of a handler (`Return`,
`Unwind`, a crash) either leaves something on the stack or answers.

*A readable log is complete.* `CompleteInv` needs four facts beside types. Every
line of file and disk but the last has its newline (`EndedUpToLast`), so that an
append changes the last line only; the disk is below the file, and what is not
synced can be cut (`DiskBelowFile`); every acknowledged line is on the disk as it is
in the file (`AckedOnDisk`), which a power loss keeps; and the operation of the
append at work is the one in the last line once its text is written
(`LastIsCurrent`). Garbage needs no clause of its own: a log with garbage is not
readable.

*Numbers and memory of the log.* `NumberInv`: with no failed append the i-th line of
file and disk has the number i if it and those before it can be read; and of a file
that can be read the process knows, at each step of an append, how many lines it has
and which operations they are (`KnowsFile`). Files that cannot be read have to be in
the invariant, because a power loss may cut them back to ones that can.

*The lock excludes.* `LockInv`: a daemon has the pid file open exactly from the step
that opens it to its end, and holds the lock exactly from the step that takes it; a
file is locked once at a time; and as long as nothing was stolen every open pid file
is the one at the path, but for that of a daemon that has removed it itself, as
the last step but one of its shutdown. Two daemons between lock and shutdown would
then have locked the same file. The exception is why a new daemon may start while
the old one still has its version file to remove.

*A daemon that serves is findable.* `QuietInv`: undisturbed, of all daemons that could
have a hand on the socket or the pid file there is one (`OneAtATime`), and there is a
reason for it (`Accounted`): one that starts has a command that watches it and found
no socket, one that stops has a command that waits for the process in the pid file,
and one that serves has no command that is past talking to it. Its files are its own
(`HasFiles`). A daemon that has only its version file left to remove is not counted,
because it takes nothing that others need; that `daemon_stop` waits for the exit and
not for the answer, and `start_daemon_background` watches its child, is what closes
the argument.

*Nobody is harmed.* `HarmInv` adds to `LockInv` and `QuietInv` what they leave open, the
daemon with only its version file to remove: by then the pid file it had open is gone
from the path, and a pid file made later is neither the one it had open nor has its pid
in it (`TraceGone`; a pid file is made by a daemon that has started, `MadeByStarted`,
and a daemon starts once). A command comes to remove the pid file, or to kill without
having asked, only when no daemon is active (`NoneActive`), and one that has asked only
when the process is gone.

*The loop.* `WaitInv` adds to `HeldBounded` what of the time limit is left: while the
loop reads, what it has waited and what it may wait make one limit; while it writes,
two. `CallInv`, for the refinement, ties the two sides of a connection together: a
client that has not written all of its request has none that was handled, what is
handled was written whole, and an answer in the socket, or about to be, is of a handled
request. Each action is then a step of `RequestReply` for the client it is about and
leaves the others alone; the loop's own steps are stutters but for the handling.

*Arguments.* `ExactInv` says what the parser carries from token to token: its names are
those of the tokens, its flag and its variadic are set exactly if the tokens so far have
one (`Tracks`); a token then makes a well-formed string ill formed exactly when it is
refused (`AppendWellFormed`). For `RequiredAreBound` every token must be in the spec
(`SpecComplete`); for `RefusedForCause` everything in the spec must come from a token,
and the i-th positional definition from the i-th positional token (`SpecSound`), which
takes a lemma on how the rank of a token grows with the string. Both together make the spec
the tokens (`SpecIsTokens`); with what was bound, step by step, being what the spec says
(`Delivered`) they give `EveryWordOnce` and `TextIsWhatWasTyped`.

Every safety property that a passing run checks, the two refinements included, is
a theorem. Only model-checked is liveness: `EveryRequestAnswered`, `NoTimeLimitNeeded`,
`ConnectionsEnd`, `QuietMeansChecked`. It rests on fairness and ENABLED, which TLAPS does
not reason about here. `RunbookParser` and `SessionLog` are used by `Engine` through what
they yield (a runbook of the right type, any state of a session), and have no theorem of
their own: that the parser yields such a runbook from any files is a fact about
`SelectSeq`, a recursive definition, and would take induction over data, which the
installed provers cannot instantiate. TLC evaluates it, as `EngineAssumption`, for the
projects of `MCEngine`.

## 6. What is not modelled

* Characters: an args string is read token by token, TOML table by table, a frame as
  whole, cut short or undecodable. Short aliases of switches, which nothing looks at once
  they are parsed, and the size limit of a message.
* Deadlines of timers: they are sets, and a timer of the polled scheduler may fire at
  any tick. `ServerLoop` has time, but no timers.
* Which session log is found: the monitor may see any state that a line can give. The
  watchers, which keep the first path they are given for the life of the daemon, are
  left out for the same reason. The monitor cannot be reached at present (section 4).
* The channel of internal events, into which the program puts nothing.
* That the client binds arguments by the runbook as it is now and the daemon runs the
  one it read at its start.
* The names `pipeline_id`, `name` and `workspace`, which the runtime sets in a phase's
  text itself, whatever the user gave for them.
* Lookup by a prefix of an id; Ping, Hello, Status and queries, which only read.
* Reuse of process ids by the operating system: a kill goes to the daemon whose pid
  was read, never to another program.
* Workers (`core/src/worker`): nothing in the daemon uses them.
* The adapters' doubles used by tests, and notifications, which do nothing.

## 7. Plan

Done: `Core`, `Runbook`, `MaterializedState`, `Handlers`, `Engine`,
`PipelineLifecycle`, `Wal`, `DaemonLifecycle` and their proofs, in that order: what moves
pipelines and what must survive a crash first, then the processes; after them
`ServerLoop` with `RequestReply`, `CommandArgs`, `RunbookParser` and `SessionLog`, and the
proofs about the first two; then the theorems for every safety property and both
refinements.

Next, in this order:

1. `DaemonLifecycle` with two users at once, for `LockExcludes` and a weaker
   `ServingIsFindable`.
2. An abstract log (append, acknowledge, crash, replay) that `Wal` refines, so that the
   shortcut `Engine` takes with `durable` is a refinement and not only an invariant.
3. The monitor and the session check once the program makes the links they need:
   `ActionEffects` is there, its properties would be about restart and recover, the
   watchers that keep an old path, and events thrown away by the session check.
