# TLA+ verification of gdb-mcp

gdb-mcp is a server that lets an MCP client drive GDB. A client starts debugger
sessions, runs and inspects programs in them through tool calls, and closes
them; a small daemon manager and command-line client keep one background server
per project. This directory models the parts of it that keep state or run
concurrently, model-checks them with TLC on small instances and proves with TLAPS,
for every instance, the safety of the session runtime, the execution service, the
inferiors, the registry, the inspection tools and capture bundles, the breakpoint
service, the batches and campaigns, and the daemon manager.

All source paths below are relative to `src/src/gdb_mcp/` in the repository.

## 1. Inventory

| Component | State | Operations | Why it is hard |
|---|---|---|---|
| Session runtime (`session/runtime.py`) | life-cycle state, controller flag, per-inferior execution records and a copy of the selected one, inventory count, thread/frame selection, bounded stop history | `begin_startup`, `mark_*`, `ensure_inferior`, `update_inferior_inventory`, `remove_inferior`, `record_stop_event` | the top-level execution fields are a *copy* of one record of a map that nine methods change; three sources feed the inferior count |
| Execution service (`session/execution.py`) | none of its own; reads and writes the runtime | run, continue, step/next/finish, wait, interrupt, call, add/remove/select inferior, attach, fork settings | decisions taken from a runtime that lags behind GDB; timeouts after which the command is still executed |
| Command runner (`session/command_runner.py`) | command transcript | sends a command, classifies the outcome, turns notifications into runtime updates | several stops in one batch, a stop beside an error, a dead GDB in mid-command |
| MI transport (`transport/mi_client.py`, `mi_parser.py`, `mi_models.py`) | command token, controller | tokenised send, read loop, wait for a stop, interrupt, liveness, exit | asynchronous records interleave with answers and outlive the command that caused them |
| Session registry (`session/registry.py`, `session/locking.py`) | `_sessions`, `_closing_sessions`, next id, a workflow lock per session | start, resolve, list, close, shutdown with worker threads | check-then-act outside the locks, locks that are not fair, a hung GDB |
| Session lifecycle (`session/lifecycle.py`) | the runtime and the controller | start with its seven phases, stop, status | each phase may find GDB dead; some failures are only warnings |
| Tool dispatch (`mcp/handlers/dispatch.py`) | none | resolve a session, take its workflow lock, run the tool | the session may be closed between the two |
| Inferiors (`session/execution.py`, `session/inferiors.py`, `session/inspection/inferior_state.py`) | GDB's inferiors and fork settings, and the runtime's note of them | add, remove, select, list, follow-fork, detach-on-fork | five commands for one create; commands that are given up and executed later; text without a token |
| Workflow batches, campaign, capture (`session/workflow.py`, `campaign.py`, `capture.py`) | iteration counters, untracked sessions, artifact files | run a list of tools, repeat a program until it fails, write a bundle | partial failure, clean-up on every path, sections that move the selection |
| Breakpoints (`session/breakpoints.py`) | GDB's own table | create a breakpoint, watchpoint or catchpoint, list, get, update, delete, enable, disable | the answer is pieced together from up to four commands, any of which may fail or be executed late |
| Inspection (`session/inspection/*`) | GDB's selected thread and frame | evaluate, list, disassemble, read memory | select, query, restore: any of the commands may fail, or time out and take effect late |
| External endpoints (`transport/external.py`) | a listening socket or pty | accept, read, write, close | a peer that comes late or leaves |
| Daemon manager and CLI (`client/daemon.py`, `client/cli.py`) | a cookie file, a lock file, a remembered session id | discover, start, stop, forward a call | several client processes; a busy server looks like a dead one |
| Schemas, contracts, step options (`mcp/schema_normalizer.py`, `contracts.py`, `client/input_parsers.py`) | none | flatten the published schemas, parse `--step` options, check what a step may do | recursive definitions, unions, options whose meaning depends on their position |
| HTTP application (`mcp/app.py`, `mcp/stdio_input.py`) | last-activity time, shutdown flag | serve, idle watchdog, `/shutdown` | the server decides to end while a request arrives |

How they interact: a tool call enters through the dispatcher, resolves its
session in the registry, holds the session's *workflow lock* for its whole
duration, and calls the session's services; these send commands through the
command runner and the transport (which holds the *command lock* while it reads)
and record what they learn in the runtime (every method under the leaf lock
`_state_lock`). GDB writes answers and asynchronous notifications into one
stream that only the current operation reads. The idle watchdog and `/shutdown`
read the registry's count of active sessions.

What makes each part correct is stated as the properties in section 3; the
hazards they are aimed at are listed, each at its source line, in
`PROJECT.json`.

## 2. Modules

| Module | Models | Kind |
|---|---|---|
| `RuntimeState` | the `SessionRuntime` dataclass as a record, each method as a function on records | operators |
| `SessionRuntime` | one runtime called by the startup service, the command runner and the execution service in any order their guards allow | state machine over `RuntimeState` |
| `Execution` | execution service + command runner + transport + GDB with one inferior | composition over `RuntimeState` |
| `Inferiors` | adding, removing, selecting and listing inferiors, and the fork settings, against a GDB that executes late | composition over `RuntimeState` |
| `Breakpoints` | the breakpoint service and GDB's table | state machine |
| `SessionDirectory` | what the registry promises, without threads and locks | abstract specification |
| `SessionRegistry` | registry, lifecycle and dispatch, called by several threads; `Directory` shows it to implement `SessionDirectory` | state machine |
| `Daemon` | the client invocations of one project, the three files they share, and the background servers they start, call and stop | state machine |
| `Inspection` | the inspection tools and GDB's selected thread and frame | state machine |
| `Capture` | capture bundles, each a sequence of `Inspection` calls | composition over `Inspection` |
| `Workflow` | batches and run-until-failure campaigns with their untracked sessions | composition over `RuntimeState` |
| `SchemaNormalizer`, `StepInputs`, `Listings` | the flattening of schemas; step options, the step contract and the split of the standard input; source, register, instruction and memory listings | pure operators |
| `Algorithms` | one computation per behaviour, with the reference definitions the operators are checked against | state machine over the three |
| `RuntimeStateProofs` | what each method of the runtime keeps of one runtime | lemmas |
| `SessionRuntimeProofs`, `ExecutionProofs`, `SessionRegistryProofs`, `InspectionProofs`, `BreakpointsProofs`, `WorkflowProofs`, `DaemonProofs` | the theorems about the module they are named after, `SessionRuntimeProofs` also those about `Inferiors`, `InspectionProofs` also those about `Capture` and `Listings` | proofs |
| `MC*` | constants for TLC | instances |

**RuntimeState and SessionRuntime.** The record has the dataclass's fields;
`inferior_states` is a function whose domain is the set of tracked inferiors.
Left out: the command transcript and the probed GDB capabilities, on which no
other field depends. In `SessionRuntime` a step is one call of a method (or the
group of calls that handle one notification or one command), which is the unit
the state lock makes atomic. The handler `_update_runtime_after_command` is thus
split into one action per notification, and the inventory refresh it may make in
the middle - a GDB command of its own, between two method calls - is the action
`InventoryRefreshed`; allowing them in any order includes the order of the
handler. The refresh may also find GDB dead and fail the session, and nothing in
the handler looks at the transport again: `StopOutlivesGdb` applies the stop to the
failed runtime, and `GoesOn` is the guard of what the handler, its command and its
caller may still do (a live transport, or a call that outlived it), until
`CallReturns`. `late` remembers it. `starting` is true while `start()` runs.

**Execution.** GDB is external: it executes commands in order, reads none while
its inferior runs (the default of the MI in all-stop mode), writes
`=thread-group-exited` before the `*stopped` of an exit, and may die. A run is
named by the token of the command that started it, and so is its stop. The
server's side follows the code: `ReadRecord` sorts a record as the read loop
does, `CommandReturns`/`CommandTimesOut` apply what was sorted (thread-group
notifications, which the handler applies one after the other, are collected in
the operation's `draft` of the runtime as they are read; the draft becomes the
runtime when the operation ends, and is dropped where the code drops it), `StopRead` throws
away the rest of its batch, `Interrupt` marks paused or running afterwards. The
constant `Usages` holds the ways in which a session is used, one of which each
behaviour follows: the operations the client calls, the documented guardrails
it ignores (`skills/debug-with-gdb-mcp/SKILL.md`), whether GDB may leave a
command it could answer until the command has timed out, whether the program
may exit, and how many commands are sent. `Calm` names the documented use.

**SessionRegistry.** Each critical section of the registry lock is a step, the
workflow lock is an owner per session, and each phase of `start()` is a step
that may find GDB dead. Shutdown workers are processes of their own, which a
join that times out abandons. The shipped HTTP server runs its tool calls one
after the other on an event loop; the threads stand for the registry's own
promise ("Thread-safe"), for the dispatcher used from worker threads and for the
shutdown path, which does run beside them.

`SessionDirectory` says the same to a client: an id is unused, starting, open
or closing, gone; ids are given in order and once, what is gone stays gone, a
start that fails takes its debugger along, and an open session goes only when
its debugger has ended or a shutdown has given it up. The refinement mapping
reads the phase of a session off the two tables and off the thread that starts
it, the debuggers off the controllers, and the given-up ones off `abandoned`.

**Inferiors.** GDB (external) has inferiors of one thread each, a current one
and two fork settings. A call is a sequence of commands (`add-inferior`,
`inferior N`, `file`, `inferior` back, `info inferiors`); each may be refused,
or given up and executed later (`queue`). Notifications and console text have
no token, so whoever waits next reads them, all at once. The unread ones are
therefore kept by what reading them will do: `heard` is the runtime as the
notifications will leave it (`news` tells whether there are any), `text` the
inferiors on the lines of the inventories printed and the number of these lines.
GDB accepts the removal of its current inferior and goes to another one of its own
choice (`Effect` is a set), the runtime takes the least of those left. `told` is
false while the runtime has not been told where GDB is: after a raw command, a
refused selection that had been given up, or such a removal. `strayed` says that the
thread of the note may have been left without a word that was read. `Usages` holds
the sets of tools a client uses. GDB numbers its inferiors from 1 on; a number that
has been removed is not given again, and the last inferior is not removed.

**Breakpoints.** GDB's table is external, the server keeps no copy. A call is
one to four commands; a command that is given up stays in the queue and is
executed before the next. GDB may refuse any change; to delete, enable or disable a
number it does not know it prints a message and answers `^done`, which the code
takes for success. Of console text only the catchpoint number the
regular expression finds is kept. `made` is the number GDB gave to the
breakpoint of the call, which the answer is compared with.

**Workflow.** A step of a batch is any session tool, modelled by its outcomes:
it fails, stops the program once, leaves it running, loses GDB, or
raises. A campaign's iteration starts an untracked session, runs the setup
steps and the program, judges the run, captures a bundle and cleans up, on every
path of the loop body; the status read before the judgement may be what finds GDB
dead, and an exception of the run or of the capture passes through the clean-up.
The stop history is `RuntimeState`'s, at its limit.

**Capture.** The plan of a bundle is a sequence of inspection calls; each is one
call of `Inspection`, command by command. An artifact that cannot be written
ends the call with an exception, which nothing catches. The manifest's thread
and frame are kept, file names and contents are not.

**Algorithms.** A schema is a record with one field per key the normaliser looks
at, arrays and their items included, and `Accepts` gives schemas their meaning; options are events, a path is a
sequence of names, a chunk is a sequence of bytes of which one is the newline; a
function is the set of its instruction addresses, a memory the set of its
readable bytes. `SchemaNormalizer` is recursive as the code is, so no theorem
is stated about it.

**Daemon.** A client is one invocation of the command line, which runs one
command and ends; what survives it are the cookie file, the start-up lock file
and the file with the default session. A client's step lies between two accesses
to a file or to the network, so two invocations meet in every order. A server
binds, writes nothing itself, answers one call at a time (its tool handlers run
on the event loop), and ends by `/shutdown`, by the idle watchdog or by a kill.
The HTTP library and the process table are external. `Slow` says whether a
server may be busy with a call for longer than the client's probe waits,
`Faults` which faults may happen (a client that is killed, a server that
crashes), `Commands` which commands the invocations give. A server that has decided
to end still takes calls until it closes its sockets. Each spawn makes up its own
token, so a probe of another server's ready file fails; the one token of
`GDB_MCP_AUTH_TOKEN` is left out.

**Inspection.** GDB's selection is a thread and a frame of it; `-thread-select`
of another thread goes to its innermost frame. A tool call is a sequence of
commands - capture the thread, capture the frame, select the thread, select the
frame, probe for a feature, query, restore the thread, restore the frame - of
which each may fail, or fail for the caller and still be executed. Which of
them a tool makes, and which failures are followed by a restore, is taken from
each tool's code (`Captures`, `AfterCapture`, `Restores`). Between two calls the
program may stop elsewhere or end, and the client may move the selection with a
raw command; `noted` tells whether the runtime has heard of the last such
change. A source listing may also raise while it reads the file (`SourceRaises`):
the exception passes by the restore. What the queries return, and locations given by function, address or
file, which need no selection, are left out. There is one inferior.

## 3. Runs

Every run finishes within three minutes on two cores.

| Run | Shows | Bounds and why they suffice |
|---|---|---|
| `runtime` | `SelectedMirror`, `DeadSessionIsBlank`, `HistoryIsRecent`, `CountKept`: what a client reads is the selected inferior's record; a dead session shows nothing, unless it failed under a call that was handling a stop; the history ends with the last stop; the count covers the tracked inferiors. `RuntimeTypeOK` | two inferiors (one selected, one in the background), a history of one entry and two events, so that it is trimmed; the theorems lift every bound |
| `execution` | however the session is used: a successful run reports its own stop (`ExecReportsOwnStop`), stops enter the history once and in order (`StopsInOrder`). In the documented use: the reported state is the actual one once the stream is drained (`CalmStateIsActual`), a wait never returns early (`WaitBlocksWhileRunning`), every stop is eventually reported (`StopIsReported`) | every departure with three commands: one that timed out, one whose answer is mixed with the first one's stop, one to read the rest; the documented use with five: two complete runs with a timeout each and a command between them |
| `registry` | no session closes for ever (`ClosingIsTemporary`), a server that counts no session has no debugger (`IdleMeansNoDebugger`), a tool call keeps its session (`WorkflowIsolation`), and every step is one of `SessionDirectory` (`ImplementsDirectory`) | two threads and two sessions: every pair of operations overlaps, on the same and on different sessions; threads are symmetric |
| `registry_live` | `ShutdownReturns` with hanging GDBs, `CloseReturns` against tool calls that keep coming | two threads, two sessions; listing, which takes the same locks as a tool call, is left out |
| `zombie_session` | the disagreement of section 5 | one thread and one session |
| `daemon_work` | with start and tool invocations against servers that answer probes in time, and server crashes: at most one live server (`OneServer`), and no server without a cookie or a starter (`NoOrphan`) | three clients: one that starts, one that waits for it, one that comes late; as many servers as clients plus one, since an invocation spawns at most once; from no server, an idle one and one with a session |
| `daemon_life` | with every other command, slow servers and killed clients: a server decides to end under live sessions only when forced or signalled (`DecidesToEndOnDemand`; sessions opened after the decision end with it), and every invocation ends (`InvocationEnds`) | two clients |
| `inspection` | reading leaves the selection where it was, whichever commands fail, but for two errors (`SelectionKept`); what is read, and what the answer says it is, is what was asked for, but for one case (`MostlyRightContext`); the runtime's note of the selection is right (`NoteIsRight`); a bundle is of one place and leaves the selection there (`BundleIsOfOnePlace`) | two threads with up to two frames: the smallest with another thread and another frame; every tool, every override, any number of calls in sequence; a bundle with every section, one without those that refresh the runtime's note, and one request for each reason to refuse |
| `breakpoints` | what a success shows or has changed is in GDB's table as asked and stays so (`SuccessIsFinal`), which for delete, enable and disable does not mean that there was such a breakpoint; but for two cases a create names the breakpoint it made (`MostlyNamesItsOwn`) | two breakpoints and one command given up: an old one and a new one, before, during and after the call |
| `inferiors` | once GDB has executed its commands the runtime's fork settings are GDB's, and so is its current inferior unless GDB has moved without a word (`RuntimeKnowsGdb`); a successful answer shows GDB's inferiors (`InventoryIsTrue`); a create leaves the selection where it was asked to (`CreateKeepsSelection`); the selected thread is one of the current inferior (`ThreadOfCurrent`), but for the cases its comment names | three inferiors, the fewest with which GDB and the runtime can disagree on who follows the one removed; one command given up; three clients, each with three tools, which between them have every tool and the pairs that interfere |
| `workflow` | a batch reports its own stops, and at the history limit at least no other's (`BatchReportsStopsEarly`); both kinds of report are coherent on every exit (`ReportIsCoherent`); a run is judged by its own stop (`JudgedByItsOwn`); no debugger is left (`NoDebuggerLeft`); every call returns (`JobEnds`) | two steps, three iterations, a history of two: it is at its limit within one batch, and an iteration has one before and one after it |
| `algorithms` | a flat schema accepts all that the models accept, of a heterogeneous union its first alternative, and its references resolve (`FlatAcceptsAll`); the notes tell what the flattening dropped (`NotesTellTheRest`); steps are those written and stay in their session (`StepsAsWritten`); messages survive any cut of the pipe (`LinesSurviveChunks`); listings have what was asked for (`ListingsAreExact`) | all unions of two and three alternatives over two fields, nested unions, the heterogeneous unions of the request models, and mutually recursive definitions; four step options; three chunks of two bytes; files, registers, functions and memories of up to five |

Deadlock checking is off where the bound on commands or session ids really ends
a behaviour (`Execution`, the liveness run of the registry, in which some
operations are left out), where every invocation has ended (`Daemon`) and where
a computation has its answer (`Algorithms`); the other runs check it.

Each state machine has a `TypeOK` that documents its variables. The run
`runtime` checks one (`RuntimeTypeOK`); the others hold in the instances of the table (add them to
the cfg to see it), and the runs leave them out in favour of the properties
above. It is proved for the state machines of section 4.

**Fairness.** `Execution!LiveSpec`: GDB executes a command it can read; the
server's read loops run on until completion or timeout, because they are plain
loops with a deadline (`transport/mi_client.py`); the client that sees a running
inferior goes on calling `wait_for_stop`, which the documentation asks of it.
Nothing forces the inferior to stop or GDB to live. `SessionRegistry!LiveSpec`:
a call under way takes its next step if that stays possible (threads are
scheduled, commands time out); only weak fairness, since `threading.RLock`
promises no fair hand-over; no fairness for clients and faults.
`Daemon!LiveSpec`: an invocation that is not killed goes on, a server handles
the call it accepted, and a spawned server binds or fails; processes are
scheduled and every wait of the code has a deadline. No fairness for the user,
for faults or for the idle watchdog. `Workflow!Spec`: a call that has begun
takes its next step; steps are tool calls, all of which have timeouts, and the
iterations are a counted loop. `Inferiors`, `Breakpoints`, `Inspection` and
`Algorithms` are checked for safety only.

## 4. Proofs

Eight modules hold the proofs. Each names its inductive invariant as a conjunction
of parts (`IInv` unless said otherwise) and has one lemma per action; the theorems
follow from the invariant. Nothing is assumed but the named assumptions of the modules. These say
that None is no member of the set it stands beside, that bounds are natural
numbers, that inferiors, threads or clients are finite sets where the code counts
or enumerates them, and that the sets of tools, commands and faults are subsets of
those the code has.

**`SessionRuntimeProofs`**, over the lemmas of `RuntimeStateProofs`, for every
finite set of inferiors, every set of reasons, exit codes and stop events and
every history limit: `RuntimeTypeCorrect`, `SelectedMirrorHolds`,
`DeadSessionIsBlankHolds`, `HistoryIsRecentHolds` and `CountKeptHolds`. The
invariant is the conjunction of the four state invariants, of "while `start()`
runs, the state is starting or failed", and of what `late` means: a session with a
controller has no call that outlived GDB, and such a call leaves the session failed
until a `start()` under way makes it ready. These are what makes it inductive:
`ControllerOpened` must not give a controller to a dead session, and the late
updates must meet no stopped session, which is blank without exception. That the
late updates and `mark_ready` keep the mirror although the runtime they meet is not
blank is `AfterStopSound` and the lemmas on single methods.
`RuntimeStateProofs` has one lemma per method (what it keeps of the type and of the
mirror), one for the copy (`SynchronizeSelectedState` restores the mirror whatever
was there before), one for the count and one for the trimmed history;
`ExecutionProofs` and `WorkflowProofs` use them too.

The same module, for every finite set of inferiors, every choice of tools and
every bound on the commands given up, proves of `Inferiors`: `RuntimeKnowsGdbHolds`,
`InventoryIsTrueHolds`, `CreateKeepsSelectionHolds`, `ThreadOfCurrentHolds` and
`InferiorsTypeCorrect`. `RuntimeKnowsGdb` speaks of the moments when nothing is
queued or unread, so the invariant has to say at every other moment what GDB *will*
be. `Settles` is that: commands are executed in the order in which they were sent,
so of those given up the last that sets a thing decides what GDB ends with, and if
there is none GDB stays as it is. `ForkInv` says it of the two fork settings, for
the runtime as it is and as the unread notifications will leave it (`heard`).
`KnownInv` says it of the current inferior, with one way out: the inferior that is
still to be selected, or that the runtime still shows, may have been removed
(`Gone`); numbers are not given again, so it stays gone and GDB will refuse to
select it. `ThreadInv` says
when the noted thread is one of the noted inferior, `CreateInv` where GDB is at each of the five commands
of a create, and `QueueInv` that only the last command is waited for, hence that a
success finds nothing queued behind it.

**`ExecutionProofs`**, for every set of usages, every number of commands, every set
of reasons and every history limit: `StopsAreInOrder` and `ExecsReportTheirStop`,
whatever the client does and however slow GDB is, and `CalmStatesAreActual` and
`WaitsBlock` for calm usage. Four invariants, each resting on those before it.
`TypeInv` has the types and says that the runtime waits while an operation is in
progress. `OrderInv`: the stop history, the stops the operation has read, the
unread ones and the run under way are one ascending line of tokens, so whatever
is recorded next is newer. `OwnInv`: answers are written in the order of the
commands, and behind a `^running` the next stop is that of its own run, which is
why the loop may take the first stop after its acknowledgement. `CalmInv` says,
for every point of every operation, where the stop is that put the inferior into
its present state: shown already, read by the operation, or ahead in the stream
with nothing before it that could end the operation too early. It is the part that
needs the guardrails: a failing command sent while the inferior runs reads that
stop and drops it, and a resuming command that times out unanswered leaves no
trace of the run it starts later.

**`SessionRegistryProofs`**, for every set of threads and every number of
sessions: `FlagsAreTemporary`, `IdleServerHasNoDebugger`, the action property
`ToolsAreIsolated`, and the refinement `RegistryImplementsDirectory`. The
invariant says who owns which workflow lock (`LockInv`: exactly the process inside
its section), which ids are known (`KnownInv`), that a session is started by one
thread that will publish or drop it (`StartInv`, `ResultInv`), what a stop has seen
when it goes on without a controller (`GoneInv`), that a shutdown runs once and
its workers each serve their session (`OneShutdown`, `ShutdownInv`, `WorkerInv`),
who will lift each closing flag (`FlagInv`) and who will end each debugger
(`DebuggerInv`). The last two are the properties themselves, made inductive by
naming the thread in charge; the refinement needs all of them, since the phase of a
session is read off the tables and the thread that starts it.

**`InspectionProofs`**, for every set of threads, every depth of their stacks,
every choice of tools, features and late commands: `ReadingKeepsSelection` (with the
late switch of a backtrace and the raising source listing as its exceptions),
`ToolsReadWhereAsked` and `NoteStaysRight`. The invariant follows a call: up to the
first selection nothing has moved and what was captured is GDB's selection
(`CaptureInv`); between selection and query GDB is where the overrides ask, but for
the borrowed frame number (`PlaceInv`); the answer is of that place (`ReadInv`); a
restore leads back to what was captured, and a call that returns without one has
changed nothing or is one of the exceptions. For bundles, over a finite set of threads:
`BundlesAreOfOnePlace` and `CapturesReadAsTools`. The plan of a bundle is a
sequence of any length, so its invariant (`BInv`) speaks of the entries that are
still due: which sections may still come, in which order, and what has been learnt
about the place by then (`PlanInv`, `StartInv`, `LearnInv`, `SeenInv`).

For the listings, for files of every length and memories of any readable bytes:
`WindowsAreExact` (the source lines shown are those asked for) and
`ShortReadsAreTold` (a read warns just when a byte is missing), by cases on the
request and by counting; `Algorithms` checks the same two definitions in
`ListingsAreExact`.

**`BreakpointsProofs`**, for every number of breakpoints and of commands given up,
and all locations, expressions and events: `SuccessesAreFinal` and
`CreatesNameTheirOwn`. The argument is about the queue. The command a call waits
for is the last one (`QueueInv`), so its reply finds the queue empty, and whatever
was given up before has been executed. From the reply to the main command on the
program is stopped and nothing but the call's own inventory is queued, so the
breakpoint made keeps the highest number and is as asked (`MadeInv`, `NumberInv`);
hence the largest catchpoint that was not there before is the one that was made,
whether or not the first inventory came. `CallInv` carries what the call knows from
one of its commands to the next.

**`WorkflowProofs`**, for every number of steps and iterations, every set of
failure predicates and every history limit: `StopsAreTheSteps`,
`IterationsLeaveNoDebugger`, `ReportsAreCoherent` and `RunsAreJudgedByTheirOwn`.
The invariant ties the event a job looks at to the history it came from
(`EventInv`), the debugger of an iteration to its controller (`DebuggerInv`) and
the counters of a report to the loop variables (`CampaignInv`, `BatchInv`).

**`DaemonProofs`**, for every finite set of clients and every mix of commands and
faults: `LockIsExclusive` and the action property `ServerDecidesOnDemand` (about the
decision to end, not about sessions opened after it), from
`ProjectInv` (types, the lock and its holder, the calls servers execute, who may
stop a server). That the ids a server gives out never run out is part of the type;
it is shown by counting the clients that have used their one call (`AllocInv`).
`OneServerAtATime` and `NoServerIsLost` are proved under `Undisturbed`, which is the
setting of the run `daemon_work`: servers answer within their timeouts, no client is
killed, and nobody gives `status` or `stop`, the commands that remove the cookie
without the lock. Outside it they are false, as section 5 says. `CookieInv` says
that what the holder of the lock has read is still in the cookie, that the one who
spawns has removed it, and that every live server is named by the cookie or is its
starter's. Server crashes are allowed.

Left to TLC:

* liveness (`StopIsReported`, `ShutdownReturns`, `CloseReturns`, `InvocationEnds`,
  `JobEnds`): the prover has no rules for fairness;
* the properties of `Algorithms`: what the recursive operators of
  `SchemaNormalizer`, the folds of `StepInputs` and the selections and runs of
  registers and instructions in `Listings` compute for inputs of every length needs
  induction over data. Of `ListingsAreExact` the source windows and the warnings of
  memory reads are proved.

## 5. Where the code and its documentation disagree

`zombie_session` states the documented behaviour and TLC finds it violated; the
quote is under `findings` in `PROJECT.json`. A GDB that dies between two start-up
commands whose failure is only a warning yields a published, running session
without a controller, which no close can remove (`session/lifecycle.py:365`).

The models also show the following. The properties of the passing runs name them
as their exceptions, or the run leaves out the use or the fault that leads there.

* The exit of the inferior read together with an error is dropped, and the
  failure reports it as running (`session/command_runner.py:193`).
* An interrupt that meets the exit of the inferior reports it as paused
  (`session/execution.py:553`).
* A server busy with a call for longer than the probe waits is taken for dead, and
  a second one is started beside it (`client/daemon.py:224`).
* An override with another thread and the frame number of the present selection
  reads the innermost frame of that thread instead
  (`session/inspection/base.py:168`).
* Once the stop history is full, a batch's answer lacks the stops of its steps
  (`session/workflow.py:138`).
* A create whose insert failed may name another breakpoint at the same location,
  and a catchpoint may get the number in the text of an earlier catch that was
  given up (`session/breakpoints.py:386`, `:554`).
* The text of an inventory that was given up is parsed together with the next one
  (`session/inspection/inferior_state.py:98`).
* The records that follow a stop in its batch are thrown away by the wait for it
  (`transport/mi_client.py:435`).
* The flattening narrows a field that is an enum in one alternative only, keeps
  `additionalProperties: false` of the left alternative when the right one has no
  such key, loses the notes of a node that has a description of its own, and does
  not tell which top-level fields belong to which alternative
  (`mcp/schema_normalizer.py:254`, `:362`). The request models have no such enum
  and close every object.
* Heterogeneous unions are published as their first alternative
  (`mcp/schema_normalizer.py:19`, `:189`): the schema refuses a register number
  given as text (`mcp/schemas/inspect.py:53`), arguments given as one text
  (`execution.py:36`, `dedicated.py:82`, `workflow.py:185`) and shorthand memory
  ranges (`workflow.py:79`), which the server accepts. The docstring says so.
* The current instruction of a listing at the current context is never marked:
  the address looked for is the text `$pc` (`session/inspection/disassembly.py`).
* The refresh inside the handling of a stop may find GDB dead; the handler goes on
  and writes thread, stop and event into the failed session
  (`session/command_runner.py:302`).
* After the removal of the current inferior the runtime names the least of those
  left, GDB may be in another; if the refresh fails they stay apart until GDB says
  where it is (`session/runtime.py:242`). A refresh that changes the current
  inferior keeps the thread of the one removed (`session/runtime.py:213`).
* A source listing with an override that raises on the file leaves GDB in the
  override (`session/inspection/source.py:157`).
* Deleting, enabling or disabling a breakpoint that does not exist succeeds
  (`session/breakpoints.py:275`).
* A session opened between a server's decision to end and the closing of its sockets
  ends with it (`mcp/app.py:294`).
* With `GDB_MCP_AUTH_TOKEN` set all servers have one token, and the probe of another
  server's ready file succeeds (`client/daemon.py:266`; not in the model).
* `mark_transport_terminated` forgets the controller and sets the state in two writes,
  of which only the second is under the lock (`session/runtime.py:162`; one step in
  the model).
* An interrupt of an inferior that does not run records it as running
  (`session/execution.py:531`).
* After a command that timed out before its acknowledgement, `wait_for_stop` may
  answer from the old state while the inferior runs (`session/execution.py:314`).
* `stop` and `status` remove the cookie without the start-up lock, and may remove
  the one of a server just started (`client/daemon.py:478`).
* `stop` without force signals a server that does not answer its shutdown
  request in time, live sessions included (`client/daemon.py:468`).
* The default session is compared and dropped in two steps, and is kept beside
  whichever server the cookie names by then (`client/daemon.py:403`).
* A backtrace whose thread switch takes effect after its timeout leaves the user
  in the other thread (`session/inspection/threads.py:96`).
* `disassemble` with a thread and no frame names the frame number of the thread
  it came from (`session/inspection/disassembly.py:94`).

## 6. Plan

1. Session runtime, execution, registry, daemon, inspection - done; theorems about
   the runtime - done.
2. Inferiors, breakpoints, batches and campaigns, capture bundles, the abstract
   directory and its refinement, the pure algorithms - done.
3. Proofs about execution, the registry and its refinement, inspection and
   capture, breakpoints, workflow and daemon - done.
4. Proofs about the inferiors, source windows and memory warnings - done.
5. Open: an abstract specification of "each command gets its own answer" that
   `Execution` implements; its safety is in the invariant of `ExecutionProofs`
   (`OwnInv`).

Runs stay few: a new part joins an existing run where it shares its state.

## 7. Not modelled

* External endpoints (`transport/external.py`): sockets and ptys behind the
  controller's interface; how they are opened is a sequence of system calls, and
  once open they behave like the controller of `Execution`.
* The session facade (`session/service.py`): every method calls one service.
* The request and result models (`mcp/schemas/*`, `domain/models.py`), rendering,
  logging and the other command-line options: data definitions and one-to-one
  conversions without state.
* Console text analysis at start-up, authorization of HTTP requests, and GDB's own
  behaviour beyond what the code in the repository relies on.
