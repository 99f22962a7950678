# aide-mcp: TLA+ specifications

aide-mcp is an MCP server that gives a coding agent IDE services: language
servers (LSP), debug adapters (DAP), per-commit SCIP indexes built in the
background, background jobs, project memory, git and GitHub access. It is one
tokio process; everything it persists lives under `~/.aide`. These modules
specify the parts whose correctness depends on the order of events, and TLC and
TLAPS check them.

Sources are cited relative to `crates/`.

## 1. Inventory

| part | source | state | operations | what is hard | what makes it correct |
|---|---|---|---|---|---|
| commit-state store | `aide-mcp/src/indexer/state.rs` | per repository: `last_sha`, commits with state and timestamps; files awaiting deletion; the same on disk | enqueue, mark_in_progress, mark_ready + retention, mark_failed, take_recoverable_jobs, load | flush errors, crashes, shared stash, one-second timestamps | nothing stuck, files of Ready commits exist, retention keeps the newest |
| indexer tasks | `aide-mcp/src/indexer/{mod,worker}.rs` | bounded channel, the commit being built | enqueue, worker loop, recovery | tool calls, worker and recovery interleave; full channel; restart anywhere | each queued commit is in some task's hands and gets resolved, once |
| SCIP cache | `aide-mcp/src/server.rs` | up to 8 decoded indexes by path and mtime | load | stat, decode and insert are not atomic | never serves another version than the file's |
| DAP client | `aide-dap/src/client.rs` | pending requests, stopped/initialized/terminated flags, output | request, wait_for_stopped, continue/step, disconnect; reader task | events race responses and waiters; timeouts; adapter exit | `stopped` mirrors the debuggee; a waiter learns of a stop or a close |
| DAP sessions | `aide-mcp/src/server.rs` | name -> client | launch, terminate, step tools | check-then-insert around slow awaits; a lock held through a disconnect; adapters that exit | one session per name, no adapter leaked |
| LSP client | `aide-lsp/src/client.rs` | pending requests, opened documents, reader task | request, notify, shutdown | replies race timeouts and the reader's exit | each request is answered once, none waits on a dead server |
| LSP documents and edits | `aide-lsp/src/ops.rs` | opened set with versions and text | ensure current, close oldest, safe_edit, workspace edits | disk is read outside the lock; several files are written one by one | the server sees the text on disk; a failed edit restores the file |
| LSP pool | `aide-lsp/src/pool.rs` | key -> client, last use | get_or_spawn, idle reaper | spawn outside the lock; reaping in use | one live client per key, none reaped in use |
| jobs and exec | `aide-mcp/src/{exec,jobs}.rs` | registry of running commands, output rings | run, list, kill, deregister | exit races kill | listed means running; kill hits only its own process |
| installer | `aide-install/src/{install,manifest}.rs` | manifest, binaries | install, record | concurrent read-modify-write, crash in the middle | the manifest lists what is installed |
| configuration | `aide-core/src/config.rs`, `server.rs` | live config, retention | poll and swap | change between load and first poll | the file's content is eventually live |
| memory | `aide-mcp/src/memory.rs` | notes on disk | write, edit, rename, delete | check-then-act on files; an open file that is renamed | file and `name:` field agree |
| paths | `aide-core/src/paths.rs` | none | slugify_repo_root | not injective | one directory per repository |
| framing | `aide-proto/src/framing.rs` | none | read/write a frame | end of stream anywhere | - |
| SCIP queries | `aide-scip/src/lib.rs`, `aide-mcp/src/server.rs` | none | enclosing definition, references, callers, definitions in a path, tests of a change | lines counted from zero or one, files deleted or renamed | answers agree with the index |
| text edits | `aide-lsp/src/ops.rs` | none | apply edits, splice, innermost symbol, edit report | UTF-16 columns, order and overlap of edits | edits apply as if at once; other lines stay |
| language plugins | `aide-lang/src/` | none | detection, tools, classification, parsers of build output | several languages in one root share tools; hand-written parsers | setup tells what is missing; diagnostics are read as printed |
| git, GitHub, search, processes, dogfood, main | the other crates | none | wrappers, I/O | - | - |

Interaction: tool methods of `server.rs` call the parts above on tokio tasks.
The indexer worker and recovery task share the store with them; the reader task
of each LSP or DAP client shares the client's state with callers; the reaper and
the configuration reloader run on timers. `PROJECT.json` lists each hazard of
these interactions at its line.

## 2. Modules and plan

The most important behaviour came first.

| module | composes | runs |
|---|---|---|
| `IndexStore`, `Indexer`, `MCIndexer`, `IndexerProofs` | `Indexer` extends the store with its tasks, files, queries and restarts | `Indexer...` |
| `IndexService`, `IndexerRefinement`, `IndexerProofs` | what the indexer promises; `Indexer` implements it | `IndexerSettled` |
| `DapClient`, `MCDapClient`, `DapProofs` | a client, its reader task, tool calls and an adapter | `Dap...` |
| `LspPool`, `MCLspPool`, `LspPoolProofs` | the pool, its clients and their reader tasks, tool calls, the reaper, servers | `LspPool...` |
| `LspDocs`, `MCLspDocs`, `LspDocsProofs` | the open documents of a server, the disk, the tools that query and edit | `LspDocs`, `LspStaleAnswer` |
| `DapSessions`, `ScipCache`, `ConfigReload`, `Jobs`, `Installer`, `Memory`, `MCServices`, `ServicesProofs` | services of the tool server that keep state of their own; `MCServices` runs one at a time | `Services` |
| `ScipQueries`, `TextEdits`, `Languages`, `BuildOutput`, `Inputs`, `MCFunctions`, `SequenceProofs`, `FunctionProofs`, `OutputProofs` | functions without state over small inputs | `Functions` |
| `Common` | the constant `None` | |

Every safety property a passing run checks is also a theorem. Next: two server
processes over one state file; message framing.

## 3. Indexer

`IndexStore` is `state.rs`. Each operation holds the one mutex from its first
read to the end of its flush, so it is one step, with two endings: `Flushed`
copies memory to `disk`, `FlushError` leaves the file as it was (write to a
temporary file and rename) while memory keeps the change. `mark_ready` evicts
beyond `retention` by enqueue time (`Newest`; equal timestamps in any order) and
swaps the stash `pendingUnlink`, shared by all repositories.

`Indexer` has one action per critical section or await:

| action | code |
|---|---|
| `Enqueue`, `TrySend`, `TrySendFull`, `MarkDropped`, `ReadBack` | `enqueue_inner` and `enqueue` of `mod.rs` |
| `Recv`, `Claim`, `BuildSucceeds`, `BuildFails`, `MarkReady`, `Unlink`, `MarkFailed` | `worker::run` and `process` |
| `TakeRecoverable`, `Resume` | the task spawned by `Indexer::start` |
| `Resolve`, `Load` | `resolve_scip_path` and the load that follows (`server.rs`) |
| `SetRetention`, `Tick` | the configuration reloader; the wall clock |
| `Crash` | the process ends anywhere and `Indexer::start` runs again |

Abstractions. A commit is `<<repository, sha>>` with one spelling per
repository (what `repo_key` makes of it); the index path is `File(k)`, a slug
and a sha. The slug function is a constant, collisions allowed. A build is one
step that succeeds with its file present, or fails having left a file or not.
Failing flushes and deletions are counted by `faults` (bound `MaxFaults`),
restarts by `crashes`. Two history variables serve the properties: `doomed`
(commits recorded Ready although their file is on the way to deletion) and the
queries' `rounds` (mark_ready rounds since the path was resolved).

### Runs

| run | instance | shows |
|---|---|---|
| `IndexerSafety` | 1 repository, 2 commits, channel of 1, 1 caller, 1 query, retention 1 or 2, 1 clock value (all enqueued within a second), 1 restart, 1 failing file operation | `TypeOK`, `NoGhost`, `ReadyHasFile`, `GraceHolds` |
| `IndexerSettled` | 2 repositories with 2 commits each, channel of 1, 1 caller, retention 1, 2 clock values, no restart | `SingleFlight`, `NoOrphanFile`, `ImplementsService` |
| `IndexerLiveness` | 1 repository, 2 commits, channel of 1, 1 caller, retention 1, 2 clock values, 1 restart, fairness | `QueuedIsResolved`, `NewestSurvives` |
| `IndexerStaleUnlink` | 2 commits, 2 clock values, no restart | `ReadyAlwaysHasFile` is violated, see below |

Two commits are enough for an eviction and a re-enqueue of the evicted commit;
two repositories for an eviction of the one to ripen in a round of the other,
since they share the stash; two clock values for one commit to be newer than another;
a channel of one is full as soon as one job waits,
and one caller and the recovery task are enough to fill it from two sides.
`SettledSpec` starts when the recovery task has found nothing to do, the usual
start; what happens before that is in the runs under `Spec`.

`NewestSurvives` is about builds that finish in another order than their commits were
enqueued: when an older commit becomes Ready after a newer one, the newer index stays
and the older goes, if one has to. The worker takes jobs in order, so this needs the
restart of `IndexerLiveness`: the recovery task resumes the older commit while a tool
call's newer one is already in the channel. The mutant, a `mark_ready` that always keeps the
commit just built, fails there and nowhere else. The run has one retention count; that
the property survives changes of it is what `NewestAlwaysSurvives` adds. Commits
and repositories are symmetric (`KeySymmetry`), except in the liveness run.

### Fairness

Weak fairness of the worker, of `TakeRecoverable` and of a tool call's steps:
tokio polls runnable tasks and the mutex is held only across a file write. The
indexer subprocess is assumed to terminate (`worker.rs` awaits it without a
timeout). `Resume` is strongly fair: `Sender::send` queues on the channel's fair
semaphore. No fairness is assumed of new tool calls, restarts or faults.

### What it promises: IndexService

`IndexService` has four variables: commits that wait, the one that is indexed,
those indexed, those failed. A commit is taken on only if it is neither waiting,
nor running, nor indexed (`Ask`); it may be dropped for lack of room (`Drop`), or
is indexed by one build at a time (`Start`, `Finish`, `Fail`); `Finish` keeps at
least one and at most `MaxRetention` indexes of the repository and touches no
other. So retention bounds the indexes of each repository, a repository that has an
index keeps one, and an index leaves only by eviction, never to be built again or
replaced by an error. Channel, callers, timestamps, files and the state file are hidden.

`IndexerRefinement` maps them to the store's entries: the running commit is the
one the worker has claimed and not yet recorded; a queued commit is waiting
wherever it is: with a caller, in the channel, or received and not claimed.
`ImplementsService` holds under `SettledSpec` without restarts: a tool call that
precedes the recovery task's first step may have its commit indexed twice, and a
restart takes a running commit back.

### Where code and comments disagree

- `IndexerStaleUnlink` / `ReadyAlwaysHasFile`: the deferred deletion can hit
  the rebuilt index of a commit that is Ready again.
- `NoGhostEver` (stated, not run): a failing flush leaves a queued entry nobody
  holds, so later enqueues dedupe against it until a restart.

Seen while modelling and not checked by a run of their own: a restart between
the flush of `mark_ready` and the deletion leaks the files; the
read-back of an enqueue can find nothing; a HEAD that returns to a Ready commit
is ranked by its first enqueue; a tool call before the recovery task's first
step is indexed twice; `/a/b` and `/a_b` share a slug.

### Proofs

`IndexerProofs` holds for every finite or infinite `Repos` and `Shas`, every
`SlugOf`, every number of callers and queries and all bounds, from
`StoreAssumption` and `IndexerAssumption`.

- `TypeCorrect`: `Spec => []TypeOK`, by one lemma per task.
- `GhostFree`: `Spec => []NoGhost`. Inductive together with `TypeOK`: each
  lemma follows one task's hand-over of a commit (tool call to channel, channel
  to worker, recovery task to channel) and shows that a commit that stays queued
  has a new holder before it loses the old one.
- `FilesSafe`, `ReadyHasFileAlways`, `GraceHoldsAlways`: `ReadyHasFile` is not
  inductive. `FileInv` adds that a harmless Ready commit's file is in neither
  deletion list, that the same holds of the commits the state file would bring
  back, and that a build about to be recorded has produced its file. `GraceInv`
  adds, per query, which list its path may be on after how many rounds.

Its second part is about `SettledSpec` without restarts (`MaxCrashes = 0`).

- `SingleFlightAlways`: `SettledSpec => []SingleFlight`. `FlightInv` adds the
  states: a commit that a caller, the channel or an unclaimed worker holds is
  Pending, the claimed one InProgress. A commit `enqueue` takes on is neither, so
  nobody holds it yet. `SingleFlight` counts what `FlightInv` says pairwise.
- `IndexerImplementsService`: `SettledSpec => ImplementsService`, for finitely
  many commits (`Finish` counts the indexes that stay). `Enqueue`
  is `Ask` or nothing, `MarkDropped` is `Drop`, a flushed `Claim` is `Start`,
  `MarkReady` is `Finish` and `MarkFailed` is `Fail`, whether or not their flush
  succeeds; everything else changes nothing the service shows. `FlightInv` is
  needed for `Ask` (the commit is not the running one) and `Start` (it waits).
- `NoFileIsLeaked`: `SettledSpec => [](faults = 0 => NoOrphanFile)`, without
  restarts and until a file operation fails. `OrphanInv` adds that the worker holds
  files to delete only while it deletes; with `FlightInv` the commit whose file a
  build leaves behind is still tracked.
- `NewestAlwaysSurvives`: with restarts or with failing file operations, but not
  both (`MaxFaults = 0 \/ MaxCrashes = 0`), under `Spec` and `SettledSpec`.
  `FileFollows` says that memory and the state file agree as long as no write has
  failed; with both, a restart brings back an older list, in which the newest
  index may be one that has been deleted since.

Model-checked only: `QueuedIsResolved`, since liveness is beyond the prover.

## 4. DapClient

One debug session, from `dap_launch` to the death of its adapter. The state of
`client.rs` is `chan` (the oneshot of each request; `pending` is where it is
open), `nextSeq`, `stopped`, `initialized`, `terminated`, `closed` and `reader`;
`session` is the entry of the session map; each tool call has a program counter
in `call`. Stops are named by their number, so that a stale stop differs from a
fresh one.

| action | code |
|---|---|
| `Launch`, `Begin`, `Terminate` | `dap_launch`; continue, the steps, pause and the inspection tools; `dap_terminate` (`server.rs`) |
| `Submit`, `Write`, `WriteError`, `Receive`, `RequestTimeout` | `request_rx`, `request`, `await_response` |
| `Proceed` (in `Receive`), `GiveUp`, `Fail` | what a tool does with a response or without one, the launch dance included |
| `Clear` | `continue_thread` and the steps, after their response |
| `Check`, `CheckClosed`, `Arm`, `WaitTimeout` | `wait_for_stopped`, `wait_for_initialized`: the look at the state and the registration with `Notify` are separate steps |
| `Kill` | the end of `disconnect` |
| `HandleResponse`, `HandleEvent`, `Notify` | the reader task and its handlers; the wake-up is a step after the state change |
| `ReaderEnds`, `DrainPending`, `LastNotify` | the end of the reader task |
| `Act`, `Respond`, `Stop`, `Exit`, `AdapterExits`, `Garble` | the adapter (external) |

Abstractions. The adapter acts on requests in order, answers in any order, may
hold back the launch response until `configurationDone`, stops and ends the
debuggee on its own. A timeout may fire whenever a call waits. Output events and
reverse requests change no state. Writes to the adapter's pipe do not block.
`base` (what was over when the adapter had acted on a request), `lost` (a
resuming request has timed out) and `sawClosed` are history variables.

| run | instance | shows |
|---|---|---|
| `DapSafety` | 2 calls, 6 requests, 2 stops, timeouts, exit | `TypeOK`, `FreshStop`, `NoFalseStop`, `NoWaitOnDeadAdapter` |
| `DapLiveness` | 1 call, also unreadable frames, fairness | `CallReturns`, `TerminateKills` |

Three things the code does not have are stated in the module, without a run:

- `StopIsRecorded`: the reset of `stopped` comes after the response
  (`client.rs:296`), so it erases a stop announced in between; the call then
  waits for its whole timeout, as if the debuggee were running.
- `NoLostWakeup`: a stop announced between the look at the state and the
  registration with `Notify` (`client.rs:438` and `449`) wakes nobody, since
  `notify_waiters` stores no permit.
- `WaitSeesClose`: the wait for a stop does not look at `closed`; when the
  adapter dies, the call waits for its whole timeout.

Six requests are a launch (three), two commands that race, and a disconnect; the
guard `HasSeq` keeps one number for every call about to send. Two stops are
enough to tell an old one from a new one. Calls are symmetric in `DapSafety`.
The runs do not check deadlock, since a session ends.

Fairness: weak fairness of the reader task and of the steps of a call that has
begun, its timeout included: tokio polls runnable tasks and its timers fire.
Nothing is assumed of the adapter, nor of the agent that makes the calls.

### Proofs

`DapProofs` holds for any number of calls, requests and stops, from
`DapAssumption`.

- `TypeCorrect`: by parts (calls, client, adapter), one lemma per group of
  actions.
- `DeadAdapterFailsRequests`: `NoWaitOnDeadAdapter` says nothing before the
  reader is gone. `DeadInv` adds that the reader only stops when the adapter has
  exited (or garbled its output) and that, once `pending` has been drained, no
  awaiting call has an open request, the launch request to which a launch
  returns included.
- `StopsAreFresh`: `FreshInv` adds that a request the adapter has not acted on
  is answered nowhere (`RequestsOK`), that in the stream every stop behind the
  success of a request, or behind one already read, is later than that request
  (`StreamOK`), and what a resuming call knows at each of its points
  (`CallFresh`): after its reset, a recorded stop is later than its request.
- `RecordIsTrue`: `NoFalseStop` speaks of the moments when nothing is on its way.
  `TruthInv` says what holds before: the message that will decide over the record
  (`Decides`: the last one in the stream that changes it, or the record itself)
  names the current stop, or a call will still reset it (`WillClear`): the request
  that ended the stop has succeeded, and its caller awaits the success or is about
  to reset. Two facts carry it: the caller of a resuming request that is in the
  adapter's stdin awaits it (`ResumesAwaited`), so a stop never ends unnoticed; and
  the debuggee is started once, before any stop (`StartsOnce`), since starting it
  resets no record.

Model-checked only, since they are liveness: `CallReturns`, `TerminateKills`.

## 5. LspPool

The pool of language servers, its clients and the calls that use them. `pool`
maps a workspace to a client and whether `IDLE_TTL` has passed; `client` has the
server process, its reader task and `pending`; `actor` is what each tool call
and the reaper are doing; `evicted` is the list the reaper works through.

| action | code |
|---|---|
| `GetCached`, `GetMissing`, `Spawn`, `SpawnFails`, `Initialized`, `Insert` | `get_or_spawn` (`pool.rs`), `LspClient::spawn` and `initialize`; the lock is not held between `GetMissing` and `Insert` |
| `Submit`, `Write`, `WriteError`, `Receive`, `RequestTimeout`, `ToolReturns` | `LspClient::request`, for the handshake, a tool and the reaper's shutdown |
| `GoesIdle`, `TakeIdle`, `ShutdownNext`, `Kill` | `IDLE_TTL`, `take_idle`, `spawn_idle_reaper`, `LspClient::shutdown` |
| `Respond`, `ServerRequest`, `ReaderEnds`, `DrainPending` | `spawn_reader` and `dispatch` |
| `Garble`, `ServerExits`, and the choice of answers | the language server (external) |

Abstractions. Ids come from an atomic counter, so a request is named by its
caller, who has at most one open. A client nobody holds has been dropped, its
process killed (`kill_on_drop`); its reader task can no longer be observed, and
`DropUnheld` makes it `Gone` in the step that drops the last handle, so a name
can be reused. `GoesIdle` may happen while a call holds the client: a call may
last longer than `IDLE_TTL` because `settle_ms` has no bound.
`MaxRequests` bounds the requests of one tool call. `ServerRequest` is a request
of the server whose id equals that of an open request, which `dispatch` takes
for its response. Notifications and diagnostics are left out.

| run | instance | shows |
|---|---|---|
| `LspPoolSafety` | 1 workspace, 2 calls and the reaper, 2 clients, 1 request per tool call | `TypeOK`, `NoWaitOnDead`, `EvictedIsForgotten`, `NoStrayServer` |
| `LspPoolLiveness` | 1 workspace, 1 call and the reaper, 2 clients, fairness | `CallReturns`, `EvictedServerEnds` |

Two calls are enough to spawn two servers for one workspace, and for one call to
hold a client the reaper shuts down while the other gets a new one. Workspaces
meet only in the reaper, which takes its clients one after another; the
proofs cover any number of them. Calls and clients are symmetric in
`LspPoolSafety`.

Fairness: weak fairness of each call's own steps, of the reaper and of each
reader task. Nothing is assumed of the servers, of new calls or of idleness.

### Proofs

`LspPoolProofs` holds for any sets of workspaces, calls and clients and any
`MaxRequests`, from `LspAssumption`.

- `TypeCorrect`, one lemma per action; its last conjunct, that nothing is left
  of a client nobody holds, gives `NoStrays` directly.
- `DeadServerFailsRequests`: `WaitInv` adds that the sender of a waiting caller
  is in `pending` until the reader drains it, and that a reader that is done
  implies a process that has ended, so that nobody starts to wait afterwards.
- `EvictedStaysForgotten`: `OwnInv` adds that a call about to insert its client
  is alone with it, that no client is in the pool twice, and which actor may do
  what.

Model-checked only: `CallReturns`, `EvictedServerEnds`.

## 6. LspDocs

`ensure_document_current` and the tools of `ops.rs` around it, on one language
server. `disk` is the text of each file, named by its place in the order of the
writes (`Partial` while a write has truncated it or after one failed); `docs` is
`client.opened`; `server` is what the server has been told; `lock` is the mutex of
`docs`, held across the awaits of notifications and writes.

| action | code |
|---|---|
| `EnsureRead`, `Sync`, `Send` | the read of the file, without the lock; the look at the open documents, with the closing of the one used least recently; the notification |
| `Query`, `QueryHierarchy`, `AskSymbol`, `AskRename`, `AskActions`, `Resolve`, `RunCommand` | the requests of the tools |
| `Read`, `WriteEdit`, `WriteAnswer`, `Written`, `WriteFails` | the text an edit starts from; `apply_and_snapshot`; `apply_edits_to_file` |
| `Fail` | every early return |
| `Outside` | another process writes a file |

The run has two calls of any kind on two files, one write by another process, and
a cap of one open document, so that each opening closes the other document.
Calls and files are symmetric. `start`, `floor` and `alone` are history variables.
Two calls suffice for one to send the other's stale text, and for a lost edit.
No write blocks: the model has neither fairness nor liveness.

`LspDocs` shows that notifications reach the server in order and whole
(`ServerFollows`), the cap holds (`OpenBound`), an answer is at
most as old as the oldest call in progress (`AnswerNotOlder`), and a call alone is
exact (`AloneIsExact`). `LspStaleAnswer` refutes the stronger `QuerySeesPresent`: the
file is read before the lock is taken, so a slow call puts an old text back after
another has sent the new one, and a query that began later is answered about it.
Concurrent edits of one file may overwrite one another (`safe_edit` computes the
new text outside the lock).

### Proofs

`LspDocsProofs` holds for any calls, any finite set of files and any cap, from
`DocsAssumption`, however often others write. `DocsInv` is one invariant of five
parts, each with its theorem.

- `TypeInv` (`TypeCorrect`) adds what a call's program counter says of its other fields.
- `FollowInv` (`ServerFollowsAlways`): while a notification is under way, the server
  lags behind `client.opened` by that notification only; the lock admits one.
- `BoundInv` (`OpenBoundAlways`): the cap holds in `client.opened` and in what the
  server has been told of it.
- `AnswerInv` (`AnswersNotOlder`): for each call, no text that another call on the file has
  read and not sent, and none that is open once the call has synchronised, is older than
  the start of the oldest call that was in progress when it began (`floor`).
- `AloneInv` (`AloneIsExactAlways`): what a call by itself has read, told the server and
  been answered is still the text on disk.

## 7. Services

`MCServices` extends six modules that share no variable; `part` says which of them
a behaviour is about, and only that one moves.

| module | code | what interleaves | properties |
|---|---|---|---|
| `DapSessions` | `dap_launch`, the session tools, `dap_terminate` | two launches of one name, a user, two terminates; adapters that exit by themselves; the lock held through `disconnect`, and the calls that wait for it | `SessionsMatchAdapters`, `ToolReturns` |
| `ScipCache` | `cached_scip_load` | two loads, two files, builds and deletions between stat, lookup, decode and insertion | `NoStaleIndex` |
| `ConfigReload` | `Config::load`, `spawn_config_reloader` | edits, deletions and unreadable files between stat, load and swap | `ConfigBecomesLive` |
| `Jobs` | `exec::run`, `Registry`, `job_kill` | two commands, a kill, other processes that take over a freed number, grandchildren that hold the output | `RegistryIsTrue`, `ExecReturns` |
| `Installer` | `install_tool`, `Manifest` | two installs at a time, failing or ending at any step, a file and an archive | `ReportsAreTrue` |
| `Memory` | `write`, `delete`, `edit`, `rename` | three calls on two notes, each file operation a step, `fs::write` two (open and truncate, then write through the descriptor); failures and the end of the process anywhere | `NamesAgree` |

`TypeOK` is the conjunction of the six. Two names or files suffice where one takes
the other's place (cache, notes, tools), and one session name, since names do not
meet. `CacheCap` is 1 (8 in the code), so every second insertion evicts. Edits,
writes and calls are bounded by `MaxEdits`, `MaxWrites`, `MaxCalls`: three of each,
one more than the two that overlap. The run does not check deadlock: all calls may
be over.

`DapSessions` names a client by the launch that spawned it. An adapter runs, has exited
by itself, or was ended (a disconnect, or `kill_on_drop` of a client nobody reaches). A
client whose adapter has exited stays in the map until `dap_terminate`: the tools get its
errors, and `dap_launch` refuses the name (`server.rs:2962`).

`Memory` has directory entries (`note`), files (`inside` is the name in the frontmatter)
and descriptors: who has a file open writes into it wherever a rename has moved it.

Fairness: strong fairness of the session tools' steps, from their request for the lock of
the map on (tokio's mutex serves its waiters in order), weak fairness of the reloader (it sleeps and is never blocked)
and of a command's steps. `PipeCloses` is fair because what the command has left
behind ends some day; while it does not, `exec::run` does not return, its timeout
notwithstanding: the timeout ends the child, not the reading of its output.

What the properties except is what the code does not do: a configuration changed
between the load and the first stat, or back to the same time, is not seen
(`slipped`); the number of a reaped child stays in the registry until its output
closes, so that a signal may hit another process (`jobs.rs:29` calls that window
sub-millisecond); installs that overlap lose one another's records (`together`,
`disturbed`); notes changed by overlapping calls lose texts (`NamesAgree` promises
only that names and files agree).

`NamesAgree` excepts two ways in which the name in a file and the name of the file do
part (`exposed`), against the comment of `render` ("callers can't drift the filename and
the `name:` field apart", `memory.rs:187`): a rename that comes between the truncation
and the write of another call, which then writes the old name into the renamed file; and
a rename that fails or is cut off after `fs::rename` (`memory.rs:151`), before it has written the file
under its new name.

### Proofs

`ServicesProofs` holds for any names, calls, paths, tools, notes and versions,
 from the modules' assumptions: finitely many commands (the registry's
counter is bounded by their number), and the three kinds of session calls disjoint.
`EachServiceAlone` says that a behaviour of `MCServices` is one of each service by
itself, so each theorem is about the service's own specification and carries over to
the run.

- `RegistryAlwaysTrue`: `JobsInv` relates a command, its child, the process table and the
  registry: an entry is made with a fresh number and removed by its own run, so nobody
  removes another's; a child that has not been waited for keeps its number.
- `SessionsAlwaysMatch`: `SessionsFit` follows each client from the hands of its launch
  to the map and to the hands of the call that terminates it, whether or not its adapter
  has exited in the meantime: one that runs is in the map or with a call, one in the map
  has not been ended, and no two calls would end the same.
- `IndexNeverStale`: `ScipInv` says that an entry, and what a load carries to its
  insertion, is at least as new as its modification time; the time is read first.
- `ReportsAlwaysTrue`: an action property; `InstallsFit` says how far each install has
  got on disk when nothing has overlapped with it.
- `NamesAlwaysAgree`: `MemoryInv` says, of each file that is not exposed, that the name in
  it is that of its entry, or that it is empty, or that a rename has moved it and has yet
  to open it; and that the file a call is about to write is under the name the call
  writes into it, or under none.
- `TypeCorrect` for all six.

Model-checked only, since they are liveness: `ToolReturns`, `ConfigBecomesLive`,
`ExecReturns`.

## 8. Functions

Every input of a bounded set is an initial state (`input`, of `Inputs`), and
nothing happens to it: 104,337 inputs in all. What is checked is a relation
to a reference definition, or between functions that must agree.

| module | code | properties |
|---|---|---|
| `ScipQueries` | `aide-scip/src/lib.rs`, and in `server.rs` the tests of a change, safe delete, annotations | `AnswersAreExact`: `CallersExact`, `TestsExact`, `DeletedIsUncalled`, `AnnotationFits` |
| `TextEdits` | positions, splices, edit lists, innermost symbol, edit report of `ops.rs` | `EditsAreExact`: `EditsAllAtOnce`, `SpliceKeepsOtherLines`, `InnermostIsFound`, `ReportHidesNothing` |
| `Languages` | the plugins' tables, their tools and wrappers, `project_setup`, the classification of paths and tests | `SetupHolds`: `SetupIsHonest`, `SetupIdempotent`; `NestingKeepsClass` |
| `BuildOutput` | the parsers of cargo, Maven, javac, tsc, mypy, Python, Go and C output; `run_project`, `run_tests` | `OutputIsRead`: `DiagnosticsAreRead`, `TracebackPairs` |

Texts are sequences of characters, one of them two UTF-16 units wide, and line
ends; lines of tools are sequences of words, numbers and marks; indexes have up to
two documents with up to four occurrences; outlines nest three deep (an outline lists
its symbols with the place of their parent); build output
has up to two lines per stream, each a diagnostic or noise that resembles one;
tracebacks have up to five lines.

Met while modelling these:

- `safe_delete_symbol` looks up the callers of the last definition that starts at
  or before the line, while the language server deletes the innermost symbol
  around it: `DeletedIsUncalled` is stated for definitions that do not nest.
- `enclosing_definition` returns the raw id of a symbol that nothing describes, as the
  first half of its comment says (`aide-scip/src/lib.rs:91`); the second half promises
  `None` "if the occurrence refers to an unknown symbol" (`lib.rs:99`).
  `AnnotationFits` is about described symbols only.
- `tests_for_symbol` says "transitively" (`server.rs:2392`) and is direct.
- `byte_offset` (`ops.rs:1072`) walks past the end of a line when the column does;
  inserts at one place are applied in the reverse of their order.
- gopls (`README.md:86`, `go.rs:8`), scip-java (`README.md:74`, `java.rs:20`) and
  scip-clang (`cpp.rs`) are documented to be found when installed in the system;
  the servers and indexers are looked for in `~/.aide/bin` only
  (`server.rs:1138`, `worker.rs:111`). `dap_launch` alone falls back to the search
  path.
- `install_tool` removes the directory of an earlier unpacking of the same version before
  it unpacks (`install.rs:211`, `225`); a program in it that the manifest does not list is
  then gone if the archive is bad. `Languages` leaves this out: there an error changes
  nothing.
- `src/main.rs` of a nested Rust package is classified as library code
  (`rust.rs:131`), unlike its `src/bin`.

### Proofs

`FunctionProofs` proves for every input what the run checks on small ones, with
the lemmas of `SequenceProofs` on flattened, filtered and searched sequences,
each of which says what stands at which place. A fold or a function that calls
itself gets its value from a lemma that such a function exists (`DescentExists`,
`EditFoldExists`). The inductions are over sets of numbers, with the well-founded
order of `Nat`: the library's rule for them has an operator for a parameter.

`NestingAlwaysKeepsClass` is about every path: file names and directories of any
length, made of any set of pieces. A plugin asks of the directories whether the path lies `Under` some (the pieces
of them, in lower case, anywhere in the path) or right in `src` at the top.
`UnderByPlace` says so place by place; `UnderNested` moves every place by two, and
at the two new places nothing can begin, since no directory a plugin looks for
is called like the added ones. What `IsTop` asks is true of no deeper path, which
is where the exception for `src/main.rs` comes from: without it the proof
fails, as does the property.

`AnswersAlwaysExact` is about indexes over any set of words, of any size. It
assumes what a well-formed input is: the documents of an index have different
paths, and where a symbol is to be deleted the index is that of the text, in which
the symbols' ranges are disjoint. Its core is that the definition a line belongs to is the one at the
greatest place at or before it (`EnclosingFacts`, `EnclosingIsLast`): with it,
`CallersExact` and `TestsExact` say in terms of occurrences and lines alone what the
queries compute by nested searches. `NoTestIsMissed` and `NoTestIsExtra` are the two
directions of the second.

`SetupAlwaysHolds` is about every repository root, bin directory, manifest and set of
downloads that fail. The setup is read as a trace of states, one per tool.
Invariant: after some of the tools, each of them is there iff it was before or
nothing hindered it, and the others are untouched. That needs a fact about the tables of the
plugins, that no two tools share a name or a program. The second setup finds
everything it would install or is hindered as before.

`EditsAlwaysExact` is about any text, edits, outline and diagnostics:

- `EditsAllAtOnce`: positions stand in the text in their own order (`StandInOrder`),
  so the sort by position is one by offset (`EditPlaces`), and a sorted order exists
  (`OrderExists`). Invariant: after m edits the text is what those m make of it
  at once. The step (`FirstEditLast`) compares two texts that grow piece by piece, with and
  without the edit in front, and go on alike behind it (`Alike`).
- `SpliceKeepsOtherLines`: a splice read place by place (`SplicedPlaces`), and
  offsets that stay on their line (`OffsetOnLine`).
- `InnermostIsFound`: where a descent ends nothing is around the position one level down
  (`DescentEnds`), and what lies elsewhere in the outline is apart (`OthersApart`).
- `ReportHidesNothing`: diagnostics correspond to their keys one to one.

The texts have any characters, so wide ones are covered wherever they stand.

`OutputAlwaysRead` (`OutputProofs`) is about any root that a plugin claims, any
filter and arguments, and any number of lines on both streams. A line is a
diagnostic as the tool prints it, with any message that begins and ends with a
word, or a text in which the parsers find nothing when it stands alone (and, for
Python, which is no frame of a traceback; `NoiseBy`); what the proof adds is that no line changes what is read from
another. The steps:

- Each parser but that of Python is its `Reader` on one line after the other
  (`PlainReader`); that of Python filters twice, which is one filter
  (`PassingTwice`), and appends the tracebacks (`PythonReader`).
- The head of each format is read back word by word, whatever the message after it
  holds (`CargoRead`, `MavenRead`, `TscRead`, `ColonRead`, `GoRead`): every mark the parser
  looks for comes first in the head. What is excepted is ambiguous in the format
  itself: a message of go with a level in it (`NoLevel`), one of tsc without a code
  that begins with one (`NoCode`), one of mypy that begins with `in `, as
  pytest prints a frame.
- cargo is asked for the machine format before the arguments of the caller, whatever
  these are (`CargoIsAsked`).
- `TracebackFacts`: the fold over the lines keeps the last frame since the last
  exception (`TracedTo`), by induction on the lines.

Its hypotheses hold of every input of the run: `None` is no word and no record of words, and
the words the formats are made of (`Marks`) are words.

## 9. Hazards outside the list

`PROJECT.json` lists the main hazards. Smaller ones met on the way:

- timestamps of the store have one-second resolution, so commits enqueued within
  a second are ranked arbitrarily (`state.rs:224`; the model allows any order);
- a rebuild rewrites an index file that a query may be reading (`worker.rs:149`);
- a resuming request that times out and is answered later leaves the old stop
  on record (`aide-dap/src/client.rs:438`; `NoFalseStop` excludes it); a pause on
  a session with a stop on record returns the old stop (`server.rs:3106`);
- `write_message` has no timeout (`aide-dap/src/client.rs:199`);
- `shutdown` sends `didClose` for documents a call may be opening again
  (`aide-lsp/src/client.rs:258`); a workspace edit that fails at one file leaves
  the earlier files changed (`ops.rs:902`, documented at `ops.rs:858`);
- a configuration that fails to load is not read again until its modification
  time changes (`server.rs:3827`);
- a tool call dropped while its child runs leaves the job registered
  (`exec.rs:135`).

## 10. Not modelled

The content of index files, the indexer programs and git; two server processes
that share `~/.aide` (the state file has no lock across processes); spellings of
one repository root that `repo_key` maps together but `index_file_path` does
not see as equal (a slug may also be shared: `/a/b` and `/a_b`, although the comment
of `slugify_repo_root` says that collisions are avoided); blocked writes to an
adapter or a language server; published diagnostics; message framing; the wording
of reports. Git access, the GitHub client, project search and process inspection
are calls to libraries and services whose results are formatted: no state, and
nothing that depends on an order of events. Model-checked only: liveness, which is
beyond the prover. The components
listed as `not_modelled` or `partly` in `PROJECT.json` carry the reason there.
