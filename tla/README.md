# rupi: a verification of the durable core, the turn loop and what surrounds them

This directory holds TLA+ specifications of pi-rs (the program is called
`rupi`), the configurations that model-check them with TLC, and proofs that
TLAPS checks. Paths below are relative to the repository's root; `store.rs`
without a path is `crates/rupi-store/src/store.rs`, `turn.rs` is
`crates/rupi-runtime/src/turn.rs`, and the files of other crates are named so
that there is only one they can be.

To run a check: `tlc -config StoreWrites.cfg SessionStore` (the module of each
run is in section 3). To check the proofs of a module: `tlapm TurnLoopProofs.tla`.

1. [Inventory](#1-inventory)
2. [The modules](#2-the-modules)
3. [The runs](#3-the-runs)
4. [Fairness](#4-fairness)
5. [What the checks found](#5-what-the-checks-found)
6. [The proofs](#6-the-proofs)
7. [What is not modelled](#7-what-is-not-modelled)

## 1. Inventory

rupi is a coding agent that runs in a terminal. One process works on one
session at a time; several processes may share a state directory.

| component | code | state | operations | what is hard | what makes it correct | module |
|---|---|---|---|---|---|---|
| session store | `store.rs`, `journal.rs`, `session_log.rs`, `projection.rs`, `jsonl.rs`, `store_trace.rs` | per session: the canonical trace, the semantic log, the projection WAL, a write buffer | begin, resume, emit, emit_transaction, emit_message, checkpoint, flush | a crash between any two writes, recovery included; held intents; ranges and epochs that recovery compares | nothing canonical is lost or projected twice; the log never runs ahead of the trace; a resume restores the window the runtime had | SessionStore, SessionRestore, DurableWindow |
| tool and request lifecycles in recovery | `store.rs` (the passes of `resume`), `turn.rs` (`execute_calls`, `reconcile_interrupted_tools`) | the trace and the log of a batch; the files tools change | a batch event by event, recovery, reconciliation | death between any two events, ids a model gives twice, a file somebody else changed | one result per call; nothing run twice; what is told is what happened | ToolCalls |
| payloads, blobs, capsules | `payload.rs`, `blob.rs`, `journal.rs`, `redact.rs`, `store.rs` | lines, content-addressed files, capsule files | spill, archive, checkpoint, the checks of a resume | syncs that fail or are not made, power loss, credentials split over lines | no line dangles, but for a directory that power loss took; no credential is written; limits hold over crashes | SessionPayloads, CheckpointFiles |
| leases and retention | `lease.rs`, `retention.rs`, `layout.rs`, `src/run.rs` | one kernel lock per session and one for the pass; the files | acquire, probe, begin, resume, plan, apply | several processes, plans that are stale when applied, death at any point | no file removed from under an open session; the newest sessions stay; nobody waits | SessionRetention |
| turn loop | `turn.rs`, `failover.rs`, `failure.rs` | requests, attempts, one-shot recoveries, the progress boundary, the batch at hand, the token | run_turn, run_finalization, manual failover | nested loops under one budget, a cancel anywhere, failures after output was seen | one budget; no replay of what was let out; every call settled once; a turn ends | TurnLoop |
| context budget and capsules | `context.rs`, `bounded.rs`, `turn.rs` | the model-visible history, the start of the running turn | evict, reduce, compact, checkpoint, recover, take over, read and write a capsule | indexes that move with every cut, cuts inside a batch, capsules of capsules | results never without their calls; the running turn and unknown calls stay; no claim of work that is not done | ContextWindow |
| provider adapter | `openai.rs`, `relay.rs`, `deferred.rs` | a worker thread, a bounded channel, quarantine, a relay per request | stream | timeouts and cancels that race the last message | an ambiguous request is not repeated; events in order and whole; nothing left behind | ProviderAdapter, HttpRelay |
| provider decoding and mapping | `decode.rs`, `sse.rs`, `mapping.rs` | partial frames and calls | feed, finish, strict schemas | fragments of several calls interleaved, with and without their keys | calls whole or refused; the same frames for every split | ProviderDecoder |
| workspace tools | `exec.rs`, `process.rs`, `edit.rs`, `write.rs`, `append.rs`, `grep.rs` | child processes, files | execute | descendants that hold pipes, deadlines, limits met midway | every command ends and leaves nothing at work; a search says what it has not looked at | ToolExec, ToolCalls, GrepSearch |
| tool registry | `registry.rs`, `tool.rs` | registered tools, policy, approvals | dispatch, register, unregister | a call cancelled while it runs; names that collide | a change that may have happened is never reported as one that did not | TurnLoop, ToolCalls, McpCatalog |
| MCP worker service | `worker.rs` | sessions behind a mutex, run threads, cancel tokens | start, continue, cancel, branch, compact, status, serve_stdio, resources | the mutex is released while the engine works; pages read while runs append | one run per session; branches share exactly the past; runs end; a follower misses nothing that is numbered | McpWorker, WorkerServer |
| MCP transports | `transport.rs`, `rupi-mcp/src/relay.rs` | pending map, child, stdin mutex, liveness flag; a thread and a relay per HTTP call | call, notify, close | callers, a reader thread and a server that may do anything | an answer reaches its caller; a call that is over acts no more | McpStdio, McpHttp, HttpRelay |
| MCP client, manager, tools | `manager.rs`, `client.rs`, `tool.rs` | clients and admitted tools per server, the registry | enable, disable, dispatch | servers that die, limits over all of them, names joined by `__` | admitted tools are within the limits; other servers' tools stay | McpCatalog |
| extension host | `rupi-extension`, `bootstrap.mjs` | the process, its reader thread and channel, the host's lock, the start lock, the request lock | load, call, stop, shutdown | stop beside load, answers out of step, writes and joins that wait | own answers; no process outlives; calls end | ExtensionHost |
| trust | `trust.rs` (core and store) | one file of decisions | grant, deny, clear, gate | concurrent commands, power loss, a damaged file | a denial is undone by a decision only | TrustDecisions |
| packages, prompts, skills | `package.rs`, `skill.rs`, `prompt.rs`, `scan.rs`, `frontmatter.rs`, `compat.rs` | directories | install, remove, scan, inspect | half-copied directories, two readers of one format | not overwritten; the first of a name wins; compat says what activation does | PackageInstall, SurfaceScan, PackageInspection |
| import and export | `pi_import.rs`, `import_pi.rs`, `export_pi.rs` | a session being written | plan, write, export | a kill at any record, entries off the path, replies cut off | one conversation, nothing lost silently, a result that resumes | PiEntries, PiImport, PiExport |
| replay | `rupi-replay`, `replay.rs` | none | views, continuations | two files of a session that is live; rules of its own around barriers | what a settled session had | ReplayViews, SessionStore |
| interactive session | `interactive.rs`, `run.rs`, `editor.rs`, `complete.rs`, `live.rs`, `transcript.rs`, `cli.rs` | the terminal, the draft, the transcript | keys, interrupts, a turn | the terminal changes hands between reader, turn and signal handler | terminal restored; frames counted; an interrupt stops what it was meant for; a flag means what it says | InteractiveLoop, LineEditor, LiveSurface, CommandLine |
| configuration, shared types | `config.rs`, `event.rs`, `message.rs` | none | parse | | | vocabulary in SessionRestore |
| rkb bridge, experiments | | | | | | not modelled |

How they interact. The command line opens a session (lease, files, recovery),
gives the turn loop a trace sink over the store, and hands it one prompt after
another. The turn loop calls a provider, whose adapter posts from a thread of
its own through a relay of its own and calls back into a collector with the
events, and the registry, which runs tools; MCP tools call through the stdio or
the http transport into another process. Every event of a turn goes through the
sink first, as a function call that returns when the line is on disk; an error
of the sink ends the session (`TurnError::session_recoverable`), so the store
never sees an operation after a failed one. The person at the terminal sets the
token of the turn from another thread. The MCP worker turns rupi itself into a
server: clients call a service whose runs are threads of their own.

The hazards this code has, at their lines and with the properties that watch
over them, are listed in `PROJECT.json`.

## 2. The modules

A module per component; every action names the function it models in
`PROJECT.json` ("map", with its lines). The MC modules compose components that
do not share state: a variable `part` says, in every initial state, which of
them moves, so that one run checks each on its own. The properties of such a
run are conjunctions of the parts' own properties, which are stated and
explained in their modules.

### SessionRestore, SessionStore, DurableWindow

`SessionRestore` is the vocabulary and the pure part. An *event* is a line of the
canonical trace, a *record* a line of the semantic log; of their fields those are
kept that some part of recovery compares: id, sequence, turn, parent, epoch,
range, counts and the summary's text. `ProjectionOf` is what `StoreTrace::emit`
derives from an event; `Restore` folds a log into the window a resume starts with
(`restore_from_report`); the validators of `store.rs` are predicates over a trace
and a log. The fold and the searches are recursive functions, never RECURSIVE
operators, so that SessionStore can be proved about.

`SessionStore` is the machine: the three files (`journal`, `log`, `wal`), the line
buffer, the counters, and for the process what it is doing (`proc`, `stage`), the
transaction in flight (`tx`), the compaction or checkpoint in progress (`script`)
and the window of the runtime (`live`, `capsule`, `context`).

| code | actions |
|---|---|
| `emit` of a delta, `flush` | `EmitDelta`, `FlushBuffer` |
| `emit_message` | `PrepareMessage`, then `JournalEvent`, `AppendLog`, `CommitTransaction` |
| `emit_transaction` | `PrepareReduction`, `PrepareCompleted`, ..., then `JournalEvent`, `AttachRecord`, `AppendLog`, `CommitTransaction` |
| held intents | `PrepareLimited` and `ReleaseLimited`; `StartCompaction` and `ReleaseStart` |
| `compact_range` | `StartCompaction`, `PrepareSummary`, `EmitEpoch`, `PrepareCompleted`, `Return`/`Finish` |
| `checkpoint`, `checkpoint_turn_prefix` | `StartCheckpoint`, `PrepareCheckpointCompleted` |
| `Store::resume` | `Open`, the passes of recovery (barriers, compactions, checkpoints, pending intents), `Resume` or `Refuse` |
| death of the process | `Crash`: the buffered lines survive as some prefix; `GiveUp` for a session nobody reopens |

Each action is one durable write, so a crash may fall between any two.
`BranchContext` is the context `rupi replay --context-at` rebuilds
(`plan_historical_branch`), compared with `WindowAt`, what the model saw then.

`DurableWindow` is what the store promises with no file in sight: one committed
window that an operation changes in one step, a process that sees it, and a
crash after which the next process starts from exactly that window. The
refinement (`DurableWindowSpec`) maps the committed window to what the trace
alone says and the view to the runtime's window.

### ToolCalls

The trace as the sequence of lifecycle events of calls, one transaction per step
(SessionStore justifies that granularity); `execute_calls` and `dispatch` as
`Turn`, the passes of recovery as `Recovery`, `reconcile_interrupted_tools` as
part of it, `Crash` anywhere, `Meddle` for somebody else who writes the file. The
file is the set of texts it contains; `effect` remembers what the code of each
request really did to it, and the properties compare with that what the model, a
resume and a replay are told. `tool_replay_states_from_entries` of rupi-replay is
an operator over the same trace.

### SessionPayloads, CheckpointFiles

What a line points at. `SessionPayloads` spills large fields into blobs
(`WriteBlob`, `SyncBlob`), redacts each line on its own, writes recovery copies,
and makes the checks of a resume; writes fail, processes die, power goes.
`CheckpointFiles` has the capsule's file, its barrier (a WAL transaction of its
own), the count and byte limits and the recovery that finishes a barrier. In both
a power loss may undo every rename whose directory was not synced, and with it
the directories the code makes and whose own entries it never syncs: a shard of
the blobs, the directory of the checkpoints.

### SessionRetention

Processes that share a state directory: `StartNew` and its steps for
`Store::begin`, `ReadHeader` and its steps for `Store::resume`, `List` to
`ReleaseVictim` for `apply` and `plan`, `Crash` for a dying process or a failed
command. `files` says which of the four parts of a session exist; `remove_session`
takes them away one by one. `lease` and `pass` are the kernel locks; a lock held
goes with its process.

### TurnLoop, ContextWindow

`TurnLoop` is one session of turns. `at` is the place in the code:

| place | code | actions |
|---|---|---|
| `round` | head of the loop of `run_turn_with_external_context`, and its end | `Round` |
| `build` | `build_request` | `StartRequest`, `BuildRefused` |
| `stream` | the provider at work, the collector | `Answered`, `StreamFails` |
| `recover` | the end of `attempt`, the arms of its caller | `Recover` |
| `policy`, `backoff` | `recover`, `FailoverPolicy::decide`, `sleep_with_cancel` | `Policy`, `BackoffEnds` |
| `calls`, `running` | `execute_calls`, `ToolRegistry::dispatch` | `RefuseCall`, `StartTool`, `ToolReturns`, `AbandonTail`, `BatchDone` |

The environment is the provider (any response or failure an adapter of the
repository can produce, `Outcomes`), the tools, and a person who may cancel at
any moment. `batch` carries for each call of the last response its lifecycle
state, how many results the history has for it and how often it ran; `late` and
`spill` are history variables: requests begun after the token was set, and what
the last failed request let out.

`ContextWindow` is the same loop seen from the messages it sends: their sizes,
the calls and results among them, the index at which the running turn begins,
and every way in which the runtime shortens the list (the ladder of pressures,
eviction, structural and summarized compaction, checkpoint of a prefix,
overflow, truncation and takeover recoveries, compaction by hand). A second
machine in it (`history`, `events`, `folds`) writes capsules and reads them back
line by line: the output of a tool may have a second line, which looks like
nothing, like one more item, like a heading or like the state of the capsule
(`Tails`), and the reader takes it for what it looks like. `straight` and `clear`
remember whether that has happened, or a list has been lost by it.

### ProviderAdapter, HttpRelay, ProviderDecoder

`ProviderAdapter` is `OpenAiCompat::stream`: the caller's loop over the channel
(`ReceiveEvent`, `ReceiveDone`, `ReceiveNothing`, `Return`), the worker
(`SendFails`, `Respond`, `Stream`, `OneShot`, `Panic`, `Push`, `Report`), its
relay as far as the caller sees it, the timeouts (`ClockRunsOut`), the quarantine,
and `Deferred`, which may refuse the first request. Events are numbers; `posted`,
`answered` and `doubt` remember what the provider may have taken.

`HttpRelay` is the relay itself, in both its copies (`Crate` chooses): the accept
window, the one resolver thread with its queue of one, proxy tunnels, the two
copy directions, and the rewriting of the request line.

`ProviderDecoder` has the correlation of tool call fragments, which arrive in any
order and leave out the keys the endpoint leaves out, and the verdict of `finish`, the framing of server-sent events byte by byte, and the strict form of
schemas, each against a reference said without an order.

### McpWorker, WorkerServer, McpStdio, McpHttp, McpCatalog

`McpWorker` is the service behind its mutex. A step is one critical section, so a
call that releases the mutex in between is several steps: `ReadForCompact`, the
engine, `ApplyCompaction`. A run thread is a member of `jobs`: `EngineReturns`
samples the token, `FinishRun` takes the lock. `WorkerServer` is `serve_stdio`
and the resources a client pages through while runs end; the numbers of the items
are the engine's, which counts them or gives any (`engine`): the same one twice,
or none.

`McpStdio` has callers, the reader thread and a server process around the pending
map, the one-place channels, the stdin mutex and two pipes of bounded room. The
server reads, answers, answers twice, writes an overlong line or dies whenever it
likes. `McpHttp` has a worker thread and a relay per call, and the shared
liveness flag. `McpCatalog` has enabling (handshake, listing in pages, admission)
and disabling of servers and the registry they fill.

### ToolExec, GrepSearch, ExtensionHost

`ToolExec` is `run_command`: the child, one descendant that may leave the group
and keep a pipe, two readers, the bounded channel, the capture, the deadlines,
the kill, the join and the reaping. `GrepSearch` walks a tree the environment
unfolds node by node, and matches globs. `ExtensionHost` has the host's lock,
the start lock, the request lock of each process, the thread that reads a
process's answers with its bounded channel, and callers that start, ask, stop and
lose it. A request is written before it is waited for (`write`), and the last to
let go of a process waits for its reader (`LetGo`, `join`), who may be waiting
for room in the channel (`Blocked`).

### TrustDecisions, PackageInstall, SurfaceScan, PackageInspection

Files a user or a project adds: commands on the trust file under kills and power
loss; installers, a scan and a user who removes packages; which of several files
a name stands for; and what `rupi compat` says of a package beside what the scans
activate from it, with the manifest reader, which keeps what it read before an
error, and the front matter.

### PiEntries, PiImport, PiExport, ReplayViews

The entries of a foreign session file and what each becomes (`PiEntries`, pure);
an import that may be killed before any record, and two commands that import one
directory; the export of a trace that grows; and what `rupi replay` shows of two
files read one after the other.

### InteractiveLoop, LineEditor, LiveSurface, CommandLine

The read loop with a user who types and interrupts anywhere, raw mode, the signal
handler, panics and the end; the buffer with rows, recall and completion; the
streamed transcript; and the parsers of every command against what the line says
when read without an order.

## 3. The runs

| run | module | distinct states | time | question |
|---|---|---|---|---|
| `store_writes` | SessionStore | 130,752 | 20 s | are trace, log and WAL consistent whatever a crash cuts off, and does recovery come to a verdict |
| `store_windows` | SessionStore | 394,720 | 1.5 min | does a resume restore the window, and does the store implement `DurableWindow` |
| `turns` | MCTurns | 773,701 | 4 min | budget, replay, lifecycles, boundary, cancel, termination; the history a model sees and the texts that replace it |
| `tool_calls` | ToolCalls | 1,088,678 | 4 min | is what is told of a call true after any death |
| `worker` | MCMcpWorker | 634,484 | 1.5 min | runs, branches, resources |
| `mcp` | MCMcp | 327,572 | 3 min | stdio calls, HTTP calls, catalogs |
| `outside` | MCOutside | 480,181 | 3 min | adapter, decoder, framing, schemas, exec, extension host, relay |
| `files` | MCFiles | 822,367 | 3 min | payloads, checkpoints, retention, packages, trust, declarations |
| `frontend` | MCFrontend | 1,163,617 | 3 min | loop, editor, surface, command line, import, export, replay, search |
| `staged_shadow`, `limited_answer`, `mcp_request_line` | SessionStore, SessionStore, HttpRelay | | | violations, section 5 |

Deadlock is not checked: every one of these systems may stop. A session is
refused or never reopened, quotas are used up, a person has nothing more to
say, a command is over. What must not stop has a liveness property instead.

**Why the bounds are enough for the question.**

- *Store.* Three boots are a crash, a recovery that crashes, and a recovery that
  ends. The quotas (`MaxDeltas`, `MaxPrompts`, ...) are per event kind, so every
  order of the kinds occurs. `store_writes` has two deltas, because a crash may
  keep one of two buffered lines, and one prompt, one answer and one
  output-limited answer. In `store_windows` two compactions are the least number with
  which ranges, epochs and summaries of different attempts can be confused; with
  two prompts, a reduction and a checkpoint they cut each other's prefixes. One
  summary text is enough there; `staged_shadow` needs two.
- *Turns.* Three requests in a turn leave two before the reserve, so a retry or a
  takeover and a second round fit and the reserved request still exists; two
  attempts allow one retry; two turns show that the counters of a turn are reset.
  The three configurations (`Sessions`) differ in a takeover, a backup with a
  hard gap, no backup; the boundary at one, at two and off; approval needed or
  not; output that can and cannot be taken back; one is a resumed session that
  begins on its backup.
- *Context.* Five messages of sizes 1 and 5 (a summary has 3) against windows of
  20 and 12 tokens reach each of the three pressures, a batch of two calls may be cut in
  the middle, and a crash leaves one of them unanswered. Three events through two
  folds are a capsule made of a capsule with something new behind it, and each
  output has each kind of second line.
- *Tool calls.* Two responses with two calls and two ids reuse an id within a
  batch and across batches; two deaths are one in the turn and one in recovery;
  one change by somebody else between a call and its reconciliation.
- *Worker.* Two clients and two runs are the least for a run that follows another
  within a call of somebody else; two sessions are one branch; two compactions
  may overlap. Pages of two items and traces of up to three give a full page, a
  part of one and a page that was cut by an append; numbers from one to three, or
  none, come in every order.
- *MCP.* Two callers with two ids each, pipes of one line: a write blocks, an
  answer comes late to a slot used anew. Two servers with up to three tools on
  two pages, limits of two per server and three in all: each limit bites alone.
  The servers are `a` and `a__b`, and a tool of the first may be called `b__t`, so
  that a name may be under the prefixes of both.
- *Outside.* A channel of one place under a response of three events is full
  while more come; three requests are one that is doubtful, one refused for it
  and one of the next turn. Seven bytes hold an event of two fields and a line
  beyond the limit. Two calls in two parts each, with every consistent choice of
  keys. The command writes two chunks against a capture of one and pipes of one.
  The channel of the extension host's reader has one place instead of eight, and
  its processes write one line of their own between them: with an answer behind
  it that fills the channel and blocks the reader.
- *Files.* For retention two processes are needed for a race, and four sessions
  exceed what a pass keeps (one) by enough that it can choose wrongly: one
  session that it may take (an imported one, whose id tells no age), one it must
  keep and two that appear meanwhile. Two spills and two stops: a write that
  failed and one crash. Each blob is in a directory of its own, and a power loss
  takes at most one of those that are needed. Packages come from a whole, an equal and a bad source.
- *Frontend.* Four sayings with any parents make a branch, an orphan and a
  reply to one; one of them may be out of the ordinary, by what it is or by where
  it is, which meets every kind of entry and block in every place; a line may have up to two words too many; the editor starts from
  each of a set of drafts that has wide, clinging and white characters.

### Properties by run

`store_writes`: `CanonicalFirst` (a line of the log has its line in the trace,
under the same sequence), `NothingLost` (an event that owes a projection has
it, or the intent to make it, or was publicly discarded), `ContiguousTrace`
(sequences that a crash gave back are used again without a gap or a double),
`RecoveryIsExact` (`ProjectedOnce`: nothing is projected twice;
`RefusedOnlyKnown`: a session is refused only through one of four known
defects, which are named predicates - `InvertedRange`, `ShadowedSummary`,
`AmbiguousSummary`, `UnansweredLimit`), `RecoveryEnds`. The last is checked here
only: TLC evaluates what enables a recovery step anew in each state of a cycle
search, and with the window's bounds that is the restore fold many times over.

`store_windows`: `WindowHolds` (what the log restores to is what the runtime works
with, without what was discarded, and a flush is never blocked),
`RecoveryIsExact` again, `HistoryIsRebuilt` (replay rebuilds each settled past),
`DurableWindowSpec` (refinement).

`turns`: `RequestsBounded`, `CallsSettled`, `NothingReplayed`, `BoundaryHolds`,
`CancelIsPrompt`, `TurnEnds`; `HistoryHolds` (results stay with their calls, the
running turn and calls of unknown outcome stay, a request is refused only where
nothing is left to leave out); `CapsuleHolds` (a capsule never says of work that
it is done, as long as no line of an output was taken for one of the capsule's
own, `straight`, and never nothing of it, as long as no list was lost, `clear`).

`tool_calls`: `CallsAnswered` (each call has one result before the next request),
`RunsOnce` (no call runs twice), `ResultsAreTrue` (what model, resume and replay
are told is what happened to the file), `ComesBack`.

`worker`: `OneRunPerSession`, `BranchSharesHistory`, `ResourcesAreFollowed` (what an
engine counts is read as a whole, each item once; under any other numbering what
is numbered above all before it, unless a message without a number ends the
reading, `CutOff`), `RunsEnd`.

`mcp`: `AnswersAreMatched` (pending ids, channels and waiting calls fit
together, so the reader never blocks), `ExchangesHold` (an HTTP outcome is the
server's for that request, and a call that is over has left nothing that acts or
closes), `CatalogHolds` (admitted tools within the limits and registered, and a
command for one server leaves another's tools, but for a name that may be
either's: `Contested`, `Takes`), `CallsReturn`.

`outside`: `AnswersAreWhole` (of the decoder: but for the calls in `misled`),
`EffectsAreOver`, `RefusalIsSafe` (a failure before dispatch had no byte of the
request go out), `EverythingEnds` (but for `WriteStuck` and `Jammed`).

`files`: `OpenSessionIntact`, `FilesHold` (a state invariant of every kind of
file and, of every step, that the newest sessions stay, packages are not
overwritten and a denial wins; three defects are named in it: `Uprooted` and
`unnamed`, files that a power loss takes with their directory, and `raced`, two
trust commands at once), `DeclarationsAreRead` (but for a manifest that cannot be
read, `CalledReadable`), `RetentionEnds`.

`frontend`: `SessionHolds` (the command line but for `Misread`), `RecordsHold`
(nothing of an import is silent but `DroppedEntry`, `DroppedCut` and
`DroppedBlocks`, nothing of a search but `PassedSilently`), `ClaimsStand`.

A named exception is a predicate over the state, no broader than the defect of
section 5 it stands for: outside of it the property is checked, and the states
inside are reached.

Each property has a mutant: an operator of the module with a plausible mistake
in it, marked `(mutant)`, that makes the run fail when it takes the place of the
right one. Properties that join an invariant and a step condition are written
`[][Inv' /\ Step]_v`, with the typing among the conjuncts of `Inv`.

## 4. Fairness

- *Store.* `WF(Transaction)` and `WF(Recovery)`: the writes of one operation
  and the passes of recovery are straight-line code of one thread, which goes
  on unless the process dies. That a person starts an operation or reopens a
  session is never assumed.
- *Tool calls.* `WF(Recovery)` and `WF(Resume)`: recovery goes on, and somebody
  starts rupi again, which is what `ComesBack` is about.
- *Retention.* `WF(Work(p))` for each process: once a command is begun it is
  straight-line code, and its locks are try-locks. Closing an open session is
  not fair.
- *Turn loop.* `WF(Step)`: the loop is one thread; a provider returns because
  the adapter has an idle timeout (`EverythingEnds` of the adapter), a tool
  because it has a deadline. That somebody cancels is not assumed, and `Die` is
  not fair.
- *Worker.* `WF(RunThread)`: threads are scheduled and the engine returns. A
  panic of the engine is outside of this.
- *mcp.* Strong fairness for a stdio caller, because the stdin mutex may be free
  only now and then when callers compete for it; weak fairness for the reader and
  for a server that goes on reading its input, because a write to a full pipe is
  under no timeout (section 5). The HTTP threads share one weak condition: their
  calls are bounded, so no thread can go on for ever while another starves. The
  servers promise nothing else.
- *outside.* One weak condition per thread: the caller of the adapter, its clock,
  the relay's and the worker's own steps; the exec loop, its two deadlines, its
  two readers; each caller of the extension host; the relay's polling and its
  deadline. Endpoint, child, descendant and the extension's process are not fair.
  `CommandEnds` therefore excepts a descendant that has left the group and keeps a
  pipe, and the extension host's `CallsEnd` a request the process does not read
  (`WriteStuck`) and the join of a reader that is blocked (`Jammed`).

The other properties are safety and need none.

## 5. What the checks found

Three runs are expected to fail; each shows the code doing something a comment or
a test of the repository says it does not.

1. **`staged_shadow`** (`store.rs:3307`). A compaction that a crash interrupted
   after its epoch event is discarded; compacting the same prefix again, with
   another summary, leaves two epoch events of the same number and range, and
   validation compares the summary with the first of them. The session is
   refused for good.
2. **`limited_answer`** (`store.rs:3062`). A session whose first streamed answer
   is cut off at the output limit and that is not answered afterwards ends in
   good order and is refused by each later resume.
3. **`mcp_request_line`** (`rupi-mcp/src/relay.rs:454`). The MCP copy of
   `origin_form` runs the request line into the first header; the provider's copy
   says in a comment what that does, and has a test against it.

Seen while modelling and reachable in the models (or left out of them, where it
says so), without a run of their own, because no text of the repository promises
otherwise, or because one run per question is enough:

*Store and recovery*
- `turn.rs:2473`: the range of a compaction takes its bounds from the first and
  the last sequence of the prefix; behind an earlier summary they are in the
  wrong order, and `event.rs:593` refuses that (`InvertedRange`).
- `store.rs:4365`: a summary written and evicted earlier in the same turn lies
  behind the range of a later compaction; recovery finds two and refuses
  (`AmbiguousSummary`).
- `turn.rs:1990`: calls decoded from a response that failed are closed with
  results in the history, without the assistant message they answer.
- `layout.rs:213`: a removal that dies after the log leaves files that no listing
  shows. `lease.rs:115`: a probe makes a concurrent resume fail as "active
  elsewhere".
- `store.rs:2955` looks calls up by id in the whole trace where `store.rs:1425`
  goes by parent: an id that a model gives again can make a resume refuse.
- Reconciling an interrupted edit reports it committed when the replacement was
  there before. Replay keeps the state of a call by its id (rupi-replay
  `lib.rs:945`).
- `blob.rs:100` makes the directory of a blob's shard, and `blob.rs:124` (`:332`)
  syncs that directory but never `blobs/` above it: a power loss may take a shard
  with synced blobs from under durable lines (`Uprooted`). Likewise nobody syncs
  the entry of the checkpoints directory that `store.rs:1046` makes, and
  `store.rs:1097` ignores a failed sync in it: a published capsule may be gone
  (`unnamed`).
- `payload.rs:72` tells `externalized` after measuring; `store.rs:1037` counts
  capsule files without a barrier; `jsonl.rs:408`: a write that fails midway keeps
  its buffer.
- `store.rs:3446` compares text redacted as a whole with deltas redacted one by
  one (`redact.rs:13`): a credential split over two deltas is not redacted in
  them, and a resume may refuse the difference.

*Turn loop and context*
- `turn.rs:3900`: a response beyond the collector's limits cancels the turn's
  own token and is reported as cancelled. `turn.rs:1149`: retries may spend the
  request reserved for the finalization. `turn.rs:736` accepts a resumed backup
  that `failover.rs:112` would refuse.
- Evicting the oldest may drop the summary of the running turn; a request that is
  refused for its size has evicted already; `turn.rs:4378` and `turn.rs:4717` can
  lose the objective between capsules.
- `context.rs:627` writes items into a capsule as they are, outputs of tools among
  them, and `turn.rs:4380` reads it back line by line. A second line that begins
  with "- " becomes an item, "completed:" a heading and what follows done, although
  `turn.rs:4353` keeps capsules from claiming work that was never answered; any other line ends the section, and with it
  the items behind (`straight`, `clear`).

*Provider and tools*
- A failure by HTTP status says "retry after 0" whatever the server said. A
  fragment without a key goes to the one builder that has none either; without an
  id it goes to the one keyed builder that is not in error (`decode.rs:621`), also
  when it belongs to the one that is (`misled`).
- A descendant that has left its group and holds the pipe blocks the join of the
  readers for ever. grep is silent about its depth limit and about directories it
  cannot read (`grep.rs:325`), though `grep.rs:12` says that a capped result states
  what was skipped (`PassedSilently`); `{a,ab}` takes the first alternative that fits.

*MCP*
- `worker.rs:558`: `compact` overwrites the messages of a run that began and
  ended while the engine was compacting. `worker.rs:691`: a cancel between the
  look at the token and `finish_run` is acknowledged without effect.
  `worker.rs:521`: a branch with an empty prompt is an error that leaves the
  branch. `worker.rs:708`: a handle that is waited for may report a later run.
  `worker.rs:1067` takes a message without a
  `seq` for number zero and a page that ends with one for the last, so what follows
  is never read (`CutOff`); numbers that repeat or go back are passed over or read twice.
  The diff pages by index while runs change it; an overlong line ends
  `serve_stdio` with requests unanswered; `wait_ms` blocks its loop.
- `transport.rs:181`: a call that passed the liveness check registers after the
  reader's last drain (`:260`) and waits for its whole timeout.
  `transport.rs:299`: a server that stops reading blocks the writer under the
  lock, and with it every caller, beyond every timeout. `transport.rs:604`: the
  cancel of one HTTP call marks the transport alive again.
- `manager.rs:319`: a server that is rejected keeps its old catalog; tools of dead
  servers count against the limits; `/mcp disable a` also removes the tools of a
  server called `a__b`, and enabling it takes a name they share (`Takes`); the other
  is then listed without being callable (`Contested`).
- The relay's resolver has a queue of one; a proxy tunnel has no deadline; bytes
  behind the proxy's header are dropped; the MCP copy gives no 502.
- `rupi-extension/src/lib.rs:341`: `stop` does not take the lock a load is awaited
  under, so a host can be left holding a stopped process; a stray line shifts the
  answers of the calls behind it. `:641` writes a request without a look at the
  token or the deadline: a process that does not read keeps the caller for ever
  (`WriteStuck`). `:234` joins the reader, which `:570` may have blocked on a full
  channel nobody receives from any more, with the start lock or the host's lock
  held (`Jammed`); a descendant outside the process group that keeps the pipe would
  do the same, and is not modelled.

*Surfaces and files*
- Half-copied `.tmp-` directories are reported by a scan; two trust commands at
  once overwrite each other's change (`trust.rs:124`, `raced`); `compat.rs:202` calls a
  `package.json` that cannot be read supported where `package.rs:830` leaves the
  package out (`CalledReadable`), and `package.rs:1050` refuses escapes of surrogate
  pairs; compat traverses a package by rules of its
  own, and `frontmatter.rs:91` removes a block by a rule that is not the one it is
  extracted by.
- `transcript.rs:92`: the filter "none" still prints budget milestones;
  `run.rs:908`: reasoning may be written beside an open answer line; a failed
  write drops what the reasoning block held.
- Between leaving raw mode and installing the handler a SIGINT ends rupi with the
  session open; errors end the loop without closing it; a note may be
  erased by the frame drawn under it (`interactive.rs:838`), and a caret may stick
  in vertical motion (`editor.rs:622`).
- rupi-replay `lib.rs:383` filters around barriers by another rule than `:264`, so
  the tail kept by a checkpoint of a turn's prefix is lost; abort markers are
  ignored (`HistoryIsRebuilt` names both as exceptions); two continuations are
  sorted before they are compared.
- `export_pi.rs:296` gets the 29th of February wrong; a killed import
  leaves a session that looks whole. Of a Pi file, `pi_import.rs:9` says that what is
  left out is reported, and yet without a word go a session or `more` entry within
  the file (`:1137`), a reply that is a bare string and the mark of what Pi cut
  from it (`:852`), a thought without text (`:909`), thoughts and calls in entries
  of the user and in results (`:687`) and the images of a result (`DroppedEntry`,
  `DroppedCut`, `DroppedBlocks`); a change of model without a name is one to
  "unknown" (`:1089`). Of the command line, `--prompt "--color=x"` is split, `-h` is
  taken as a value, the last of two flags wins.

## 6. The proofs

TLC checks small instances; the theorems hold for every value of the constants.

| module | theorem | property |
|---|---|---|
| SessionStoreProofs | `TypeCorrect` | `TypeOK` |
| | `CanonicalFirstHolds` | `CanonicalFirst` |
| | `ContiguousTraceHolds` | `ContiguousTrace` |
| | `NothingLostHolds` | `NothingLost` |
| ToolCallsProofs | `CallsAnsweredHolds`, `RunsOnceHolds`, `ResultsAreTrueHolds` | the three safety properties of `tool_calls` |
| TurnLoopProofs | `TurnTypeCorrect`, `RequestsBoundedHolds`, `CallsSettledHolds`, `NothingReplayedHolds`, `BoundaryHoldsAlways`, `CancelIsPromptHolds` | typing and the five invariants of the loop in `turns` |
| SessionRetentionProofs | `RetentionTypeCorrect`, `LeaseMatchesWorkHolds`, `OpenSessionIntactHolds`, `NewestKeptHolds` | typing, `LeaseMatchesWork`, `OpenSessionIntact`, the step condition `NewestKept` |
| McpWorkerProofs | `WorkerTypeCorrect`, `OneRunPerSessionHolds`, `BranchSharesHistoryHolds` | typing and the two invariants of the service |
| McpStdioProofs | `AnswersAreMatchedHolds` | `AnswersAreMatched` |
| HttpRelayProofs | `RefusalIsSafeHolds` | `RefusalIsSafe` |
| ProviderAdapterProofs | `RequestsAreOverHolds` | `NoBlindRepost`, `SafeIsSafe`, `NothingBehind`: the adapter's part of `EffectsAreOver` |
| | `ResponsesAreWholeHolds` | `InOrder`, `PartialIsHonest`: the adapter's part of `AnswersAreWhole` |

**Assumptions.** Those of the modules: `TextsAssumption` (the absent text is not a
text), `BoundsAssumption` (quotas are numbers, at least one boot), and the like
for the worker, retention, turns, calls and relays. They say what kind of value a
constant is and nothing more; ProviderAdapter has none.

**Store.** `TypeOK` is not inductive alone: that what a transaction appends is
an event needs the shape of the transaction and of the script that follows it
(together `TypeInv`). The recovery passes choose events and records out of the
trace; lemmas show that what they choose is there.
`CanonicalFirst` is strengthened to `TracedInv`: the event in flight is in the
trace from `journaled` on, every record attached to the WAL has its line in the
trace, and so has every record of the log. The trace only grows, so a step that
leaves the log and the WAL alone keeps it; a step that appends to the log takes
the record from the transaction, from the WAL or from the trace itself. A crash
drops buffered lines only.
`ContiguousTrace` needs `TraceInv`: sequences and ids of what is on disk and in the
buffer, their parents before them, and that the counters lie behind all of them;
a crash takes a suffix away and the next open counts from what is left.
`NothingLost` needs two more. `KindInv` says which kinds of event the steps in
flight and the scripts carry; `LostInv`, by its shapes `Asks`, `Writes` and
`Rests`, says at each step of a transaction which of the three files accounts for
the event: before the trace has it the WAL does, and the intent is removed only
when the log has the record or the attempt is aborted.

**Tool calls.** `IInv` is `Typed` and three parts. `TraceInv` is about the trace
alone, as it was written: an event's parent comes before it and is of the right
kind (`Shape`), a call is requested, started and ended once (`Unique`), an id is used
again only after its last use has ended (`InOrder`), and what is open belongs to
one response, with one call started at most (`OneBatch`). `PhaseInv` ties the place of the process to the batch and the
open calls of the trace, `EffectInv` ties `effect` to the events: what ran had
started, what is reported committed is in the file or has been meddled with.
Every step appends at most one event, and each of the parts is shown for an
append by a lemma of its own.

**Turn loop.** One small invariant per property over the shared `TypeInv`.
`BudgetInv`: where a request may be built, fewer were begun than the budget
allows. `LateInv`: every way back to a request looks at the token, so at most
the one being built is late. `SpillInv`: only a failure remembers what its
request let out, until the decision about it; whoever leads to another request
has found that nothing was, or has spent the truncation recovery. `BoundaryInv`:
the boundary is active as soon as the count reaches the limit, and an active one
completes nothing. `CallsInv`: behind `next` every call is settled, from it on
none has a result or ran, except the one that is running.

**Retention.** `IInv` adds to the typing and `LeaseMatchesWork` what makes a
session safe from a stale plan: every process works on a session there is; an id
not minted yet means nothing to anyone; a session whose log is not there yet is
known to its process alone; the directory is made before the log and removed
after it, and a removal takes the log first; what a process has not created yet
is still on its list. `Check`, under the lease, looks for the log again; hence an
open session is complete. For `NewestKept`, `PassInv` keeps for each pass what its
plan knew: the newest sessions it spares are still there or newer ones came,
because only the pass itself, which holds the lock of the pass, removes sessions.

**Worker.** `IInv` adds that the run ids in use lie below the next one; then
`begin_run`, which looks at the status under the lock, is the only way to a new
thread. `HistoryInv` adds that threads have runs of their own, that a trace lists
only runs that have ended, and that a copy a branching call holds while the lock
is free still begins the trace of its source.

**stdio.** `CallsInv` (a call that waits has an id of its own that is pending or
answered; what is pending has a caller) and `PipesInv` (ids on their way in the
pipes are ones that were given out).

**Relay.** `RelayInv` says for each relay on its own that before its headers are
through nothing was sent and nobody was told, and that whoever was told of a
refusal has had no byte go out.

**Adapter.** `IInv` ties the parties of a request together: at rest there is no
worker, relay, claim or channel (`Resting`), a call that closes knows why
(`Closing`), what the worker will report fits what happened at the endpoint
(`Judged`), the channel holds the next events in order with `Done` behind them
(`Line`), events emitted are in the sink, the channel, the worker's hand or were
dropped after a stop (`Count`), and what was returned was told truly (`Told`).

**Only model-checked.** Liveness (`RecoveryEnds`, `ComesBack`, `RetentionEnds`,
`TurnEnds`, `RunsEnd`, `CallsReturn`, `EverythingEnds`) is out of reach of the
prover. `DurableWindowSpec`, `WindowHolds`, `HistoryIsRebuilt` and
`RecoveryIsExact` rest on what the restore fold and the searches over the trace
compute, an induction over data the installed provers cannot do. GrepSearch, LiveSurface,
PackageInspection, McpCatalog, ProviderDecoder and SurfaceScan use RECURSIVE
operators, under which the prover has no arithmetic. The other components of the
`files`, `frontend`, `mcp` and `outside` runs, ContextWindow and WorkerServer have
no proofs yet.

## 7. What is not modelled

- *Data.* Text, formats, hashes, token estimates and timings, except where a
  property is about them. Malformed lines other than a torn tail. The size limits
  of the WAL, which bound encoded lines. A failed write of the store is a crash,
  which is what its callers make of it (SessionPayloads has writes that fail).
- *Records nothing compares.* The header of the log and the events and records
  that announce a model epoch are left out of SessionStore; the start of a request
  is taken at the end of what came before it in its turn.
- *Inside the components.* `Store::remove`, which the program does not use; schema
  validation of arguments and the digests of approvals; the stderr thread of the
  stdio transport; the protocol's initialisation; read, path containment and
  output reduction of the tools; key decoding, colours and the status line;
  configuration parsing. `PROJECT.json` has a note for each component.
- *Whole components.* The rkb bridge runs an external command and parses what it
  prints; experiments are harnesses and not part of the program.
