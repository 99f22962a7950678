------------------------------ MODULE Indexer ------------------------------
(***************************************************************************)
(* The background SCIP indexer of aide-mcp: the store of IndexStore, the   *)
(* bounded worker channel, the single worker task, the start-up recovery   *)
(* task, the tool calls that enqueue commits, and the SCIP queries that    *)
(* resolve an index file and then read it                                  *)
(* (crates/aide-mcp/src/indexer/{mod,worker}.rs and the query path of      *)
(* crates/aide-mcp/src/server.rs).                                         *)
(*                                                                         *)
(* Every task runs concurrently on the tokio runtime, so each mutex-       *)
(* protected store operation, channel operation and file operation is a    *)
(* step of its own.  Crash kills the process and starts it again.          *)
(***************************************************************************)
EXTENDS IndexStore, Sequences

CONSTANTS
  Callers,     \* concurrent tool calls that enqueue
  Queries,     \* concurrent SCIP-backed tool calls
  QueueCap,    \* worker::QUEUE_CAP
  MaxCrashes,  \* bound on the number of restarts
  NoJob        \* no commit in hand

ASSUME IndexerAssumption ==
  /\ QueueCap \in Nat \ {0}
  /\ MaxCrashes \in Nat
  /\ NoJob \notin Keys

VARIABLES
  queue,     \* the mpsc channel, head first
  worker,    \* the task running worker::run
  recovery,  \* the task spawned by Indexer::start
  callers,   \* tool calls inside enqueue / enqueue_head
  queries,   \* tool calls between resolve_scip_path and cached_scip_load
  files,     \* the .scip files that exist
  crashes,   \* restarts so far
  doomed     \* history: commits recorded Ready although their file was, or
             \* has since been, put on the list of files to delete

procVars == <<queue, worker, recovery, callers, queries>>
vars     == <<storeVars, procVars, files, crashes, doomed>>

Idle       == [pc |-> "idle", job |-> NoJob]
IdleWorker == [pc |-> "recv", job |-> NoJob, ripe |-> {}]
IdleQuery  == [pc |-> "idle", file |-> NoJob, rounds |-> 0]

Sends(pc, job) == [pc |-> pc, job |-> job]

InQueue(k) == \E i \in 1..Len(queue) : queue[i] = k

\* Mutant: the channel holds one job more than its capacity.
HasRoomForOneMore == Len(queue) <= QueueCap

HasRoom == Len(queue) < QueueCap

\* Ready commits whose file is on the list p of files to delete.
Endangered(c, p) == {k \in Keys : c[k].state = "Ready" /\ File(k) \in p}

-----------------------------------------------------------------------------
(* Tool calls: enqueue, enqueue_head and enqueue_inner *)

\* What follows a successful enqueue_inner: enqueue reads the status back,
\* enqueue_head returns.
AfterEnqueue(k) == {Sends("status", k), Idle}

\* A repository root and commit arrive; the store dedupes.  A flush error
\* returns at once, before anything is sent to the worker.
Enqueue(c, k) ==
  /\ callers[c].pc = "idle"
  /\ StoreEnqueue(k)
  /\ \/ /\ Flushed
        /\ \E next \in IF NeedsIndexing(k) THEN {Sends("send", k)}
                                           ELSE AfterEnqueue(k) :
             callers' = [callers EXCEPT ![c] = next]
     \/ /\ FlushError
        /\ UNCHANGED callers
  /\ UNCHANGED <<retention, now, queue, worker, recovery, queries, files,
                 crashes, doomed>>

TrySend(c) ==
  /\ callers[c].pc = "send"
  /\ HasRoom
  /\ queue' = Append(queue, callers[c].job)
  /\ \E next \in AfterEnqueue(callers[c].job) :
       callers' = [callers EXCEPT ![c] = next]
  /\ UNCHANGED <<storeVars, worker, recovery, queries, files, crashes, doomed>>

TrySendFull(c) ==
  /\ callers[c].pc = "send"
  /\ ~HasRoom
  /\ callers' = [callers EXCEPT ![c].pc = "full"]
  /\ UNCHANGED <<storeVars, queue, worker, recovery, queries, files, crashes,
                 doomed>>

\* Mutant: the caller of a full queue returns without touching the entry.
MarkDroppedLeavesPending(c) ==
  /\ callers[c].pc = "full"
  /\ callers' = [callers EXCEPT ![c] = Idle]
  /\ UNCHANGED <<storeVars, queue, worker, recovery, queries, files, crashes,
                 doomed>>

\* The channel was full: flip the entry to Failed and report the error.
MarkDropped(c) ==
  /\ callers[c].pc = "full"
  /\ StoreMarkFailed(callers[c].job)
  /\ Flushed \/ FlushError
  /\ callers' = [callers EXCEPT ![c] = Idle]
  /\ UNCHANGED <<retention, now, queue, worker, recovery, queries, files,
                 crashes, doomed>>

\* store.status of the commit that was just enqueued.
ReadBack(c) ==
  /\ callers[c].pc = "status"
  /\ callers' = [callers EXCEPT ![c] = Idle]
  /\ UNCHANGED <<storeVars, queue, worker, recovery, queries, files, crashes,
                 doomed>>

-----------------------------------------------------------------------------
(* The worker task *)

Recv ==
  /\ worker.pc = "recv"
  /\ queue # <<>>
  /\ worker' = [worker EXCEPT !.pc = "claim", !.job = Head(queue)]
  /\ queue' = Tail(queue)
  /\ UNCHANGED <<storeVars, recovery, callers, queries, files, crashes, doomed>>

\* mark_in_progress; a flush error abandons the job.
Claim ==
  /\ worker.pc = "claim"
  /\ StoreMarkInProgress(worker.job)
  /\ \/ /\ Flushed
        /\ worker' = [worker EXCEPT !.pc = "build"]
     \/ /\ FlushError
        /\ worker' = IdleWorker
  /\ UNCHANGED <<retention, now, queue, recovery, callers, queries, files,
                 crashes, doomed>>

\* Mutant: the indexer's exit status is trusted, its output is not looked for.
BuildSucceedsUnchecked ==
  /\ worker.pc = "build"
  /\ files' \in {files, files \cup {File(worker.job)}}
  /\ worker' = [worker EXCEPT !.pc = "ready"]
  /\ UNCHANGED <<storeVars, queue, recovery, callers, queries, crashes, doomed>>

\* The indexer exited successfully and its output exists.
BuildSucceeds ==
  /\ worker.pc = "build"
  /\ files' = files \cup {File(worker.job)}
  /\ worker' = [worker EXCEPT !.pc = "ready"]
  /\ UNCHANGED <<storeVars, queue, recovery, callers, queries, crashes, doomed>>

\* No plugin, no binary, export or indexer failure: the indexer may or may
\* not have created its output before it failed.
BuildFails ==
  /\ worker.pc = "build"
  /\ files' \in {files, files \cup {File(worker.job)}}
  /\ worker' = [worker EXCEPT !.pc = "failed"]
  /\ UNCHANGED <<storeVars, queue, recovery, callers, queries, crashes, doomed>>

\* Mutant: this round's evictions are deleted at once, without the grace
\* round.
RipeIsEvictedNow == pendingUnlink'

\* What mark_ready returns: the paths evicted on the previous round.
Ripe == pendingUnlink

MarkReady ==
  /\ worker.pc = "ready"
  /\ StoreMarkReady(worker.job)
  /\ \/ /\ Flushed
        /\ worker' = IF Ripe = {} THEN IdleWorker
                     ELSE [pc |-> "unlink", job |-> NoJob, ripe |-> Ripe]
     \/ /\ FlushError
        /\ worker' = IdleWorker
  /\ queries' = [q \in Queries |->
                   IF queries[q].pc = "read" /\ queries[q].rounds < 2
                   THEN [queries[q] EXCEPT !.rounds = @ + 1]
                   ELSE queries[q]]
  /\ doomed' = (doomed \ {worker.job})
               \cup {k \in {worker.job} : File(k) \in pendingUnlink}
               \cup Endangered(commits', pendingUnlink')
  /\ UNCHANGED <<retention, now, queue, recovery, callers, files, crashes>>

\* remove_file of one ripe path; a failure is only logged.
Unlink(f) ==
  /\ worker.pc = "unlink"
  /\ f \in worker.ripe
  /\ \/ files' = files \ {f} /\ UNCHANGED faults
     \/ UNCHANGED files /\ Fault
  /\ worker' = IF worker.ripe = {f} THEN IdleWorker
               ELSE [worker EXCEPT !.ripe = @ \ {f}]
  /\ UNCHANGED <<commits, lastSha, pendingUnlink, disk, retention, now, queue,
                 recovery, callers, queries, crashes, doomed>>

MarkFailed ==
  /\ worker.pc = "failed"
  /\ StoreMarkFailed(worker.job)
  /\ Flushed \/ FlushError
  /\ worker' = IdleWorker
  /\ UNCHANGED <<retention, now, queue, recovery, callers, queries, files,
                 crashes, doomed>>

-----------------------------------------------------------------------------
(* The recovery task *)

TakeRecoverable ==
  /\ recovery.pc = "take"
  /\ \E kept \in Newest(Recoverable, QueueCap, commits) :
       /\ StoreTakeRecoverable(kept)
       /\ recovery' =
            [pc |-> "send",
             todo |-> {[key |-> k, at |-> commits[k].enqueuedAt] : k \in kept}]
  /\ UNCHANGED <<retention, now, queue, worker, callers, queries, files,
                 crashes, doomed>>

\* send().await, most recently enqueued first, waits for room.
Resume ==
  /\ recovery.pc = "send"
  /\ HasRoom
  /\ \E t \in recovery.todo :
       /\ \A u \in recovery.todo : t.at >= u.at
       /\ queue' = Append(queue, t.key)
       /\ recovery' = [recovery EXCEPT !.todo = @ \ {t}]
  /\ UNCHANGED <<storeVars, worker, callers, queries, files, crashes, doomed>>

-----------------------------------------------------------------------------
(* SCIP queries: resolve_scip_path, then cached_scip_load *)

\* An explicit sha must be Ready; without one last_ready picks a Ready commit.
Resolve(q, k) ==
  /\ queries[q].pc = "idle"
  /\ Ready(k)
  /\ queries' = [queries EXCEPT ![q] =
                   [pc |-> "read", file |-> File(k), rounds |-> 0]]
  /\ UNCHANGED <<storeVars, queue, worker, recovery, callers, files, crashes,
                 doomed>>

\* The query stats and decodes the file, or reports that it is gone.
Load(q) ==
  /\ queries[q].pc = "read"
  /\ queries' = [queries EXCEPT ![q] = IdleQuery]
  /\ UNCHANGED <<storeVars, queue, worker, recovery, callers, files, crashes,
                 doomed>>

-----------------------------------------------------------------------------
(* The process ends at any point and is started again: memory is lost, the *)
(* state file and the index files stay.  Clients reconnect.                *)
Crash ==
  /\ crashes < MaxCrashes
  /\ crashes' = crashes + 1
  /\ StoreReload
  /\ retention' \in 1..MaxRetention
  /\ queue' = <<>>
  /\ worker' = IdleWorker
  /\ recovery' = [pc |-> "take", todo |-> {}]
  /\ callers' = [c \in Callers |-> Idle]
  /\ queries' = [q \in Queries |-> IdleQuery]
  /\ doomed' = doomed \cup Endangered(disk.commits, disk.pendingUnlink)
  /\ UNCHANGED <<now, faults, files>>

Environment == /\ SetRetention \/ Tick
               /\ UNCHANGED <<procVars, files, crashes, doomed>>

InitWith(recoveryPc) ==
  /\ StoreInit
  /\ queue = <<>>
  /\ worker = IdleWorker
  /\ recovery = [pc |-> recoveryPc, todo |-> {}]
  /\ callers = [c \in Callers |-> Idle]
  /\ queries = [q \in Queries |-> IdleQuery]
  /\ files = {}
  /\ crashes = 0
  /\ doomed = {}

\* First start on an empty home directory.
Init == InitWith("take")

\* The same, once the recovery task has found nothing to do.
SettledInit == InitWith("send")

CallerStep(c) == \/ \E k \in Keys : Enqueue(c, k)
                 \/ TrySend(c) \/ TrySendFull(c) \/ MarkDropped(c) \/ ReadBack(c)

WorkerStep == \/ Recv \/ Claim \/ BuildSucceeds \/ BuildFails \/ MarkReady
              \/ MarkFailed
              \/ \E f \in worker.ripe : Unlink(f)

QueryStep(q) == (\E k \in Keys : Resolve(q, k)) \/ Load(q)

Next == \/ \E c \in Callers : CallerStep(c)
        \/ WorkerStep
        \/ TakeRecoverable
        \/ Resume
        \/ \E q \in Queries : QueryStep(q)
        \/ Crash
        \/ Environment

Spec        == Init /\ [][Next]_vars
SettledSpec == SettledInit /\ [][Next]_vars

(***************************************************************************)
(* Fairness.  Tokio polls every runnable task and the store's mutex is     *)
(* held only across a file write, so a task that can step eventually does. *)
(* The indexer process is assumed to terminate: worker.rs waits for it     *)
(* without a timeout.  send().await queues on the channel's fair           *)
(* semaphore, so it is not starved by later try_sends: strong fairness.    *)
(***************************************************************************)
Fairness ==
  /\ WF_vars(WorkerStep)
  /\ WF_vars(TakeRecoverable)
  /\ SF_vars(Resume)
  /\ \A c \in Callers :
       WF_vars(TrySend(c) \/ TrySendFull(c) \/ MarkDropped(c) \/ ReadBack(c))

FairSpec == Spec /\ Fairness

-----------------------------------------------------------------------------
(* Properties *)

JobOrNone == Keys \cup {NoJob}

\* Every variable stays in its domain, and a task that is past its first
\* step has a commit in hand.
TypeOK ==
  /\ StoreTypeOK
  /\ queue \in Seq(Keys)
  /\ Len(queue) <= QueueCap
  /\ worker \in [pc : {"recv", "claim", "build", "ready", "failed", "unlink"},
                 job : JobOrNone, ripe : SUBSET Files]
  /\ worker.pc \in {"claim", "build", "ready", "failed"} => worker.job \in Keys
  /\ recovery \in [pc : {"take", "send"}, todo : SUBSET [key : Keys, at : Nat]]
  /\ callers \in [Callers -> [pc : {"idle", "send", "full", "status"},
                              job : JobOrNone]]
  /\ \A c \in Callers : callers[c].pc # "idle" => callers[c].job \in Keys
  /\ queries \in [Queries -> [pc : {"idle", "read"},
                              file : Files \cup {NoJob}, rounds : 0..2]]
  /\ files \in SUBSET Files
  /\ crashes \in 0..MaxCrashes
  /\ doomed \in SUBSET Keys

\* Some task will still bring k to a terminal state: the recovery task, the
\* channel, the worker, or the tool call that has not sent it yet.
InHand(k) ==
  \/ recovery.pc = "take"
  \/ \E t \in recovery.todo : t.key = k
  \/ InQueue(k)
  \/ worker.pc \in {"claim", "build", "ready", "failed"} /\ worker.job = k
  \/ \E c \in Callers : callers[c].pc \in {"send", "full"} /\ callers[c].job = k

\* As long as no write of the state file has failed, a commit that later
\* enqueues treat as queued is in some task's hands: enqueue never dedupes
\* against a ghost, whatever the interleaving of tool calls, worker, recovery
\* and restarts, and however often the channel is full.
NoGhost == faults = 0 => \A k \in Keys : Queued(k) => InHand(k)

\* The same without the proviso, as the comment in enqueue_inner has it: an
\* entry that never reached the channel does not stay Pending.  The code does not
\* have it: a failing write of the state file leaves one behind.
NoGhostEver == \A k \in Keys : Queued(k) => InHand(k)

\* What keeps files safe: a Ready commit, in memory or in the state file, that
\* is not doomed has its file, and nobody is about to delete it; and a build
\* about to be recorded has produced its file.
FileInv ==
  /\ \A k \in Keys \ doomed :
       Ready(k) => /\ File(k) \in files
                   /\ File(k) \notin pendingUnlink
                   /\ File(k) \notin worker.ripe
  /\ \A k \in Keys \ doomed :
       disk.commits[k].state = "Ready" => /\ File(k) \in files
                                          /\ File(k) \notin worker.ripe
  /\ worker.pc = "ready" => File(worker.job) \in files
  /\ worker.pc # "unlink" => worker.ripe = {}

\* A Ready commit's index file exists, unless deletion of that very path was
\* already pending when the commit was recorded Ready.
ReadyHasFile == \A k \in Keys \ doomed : Ready(k) => File(k) \in files

\* mark_ready hands out paths that are safe to delete: a Ready commit always
\* has its file.
ReadyAlwaysHasFile == \A k \in Keys : Ready(k) => File(k) \in files

\* The grace period: a query that resolved a path can read the file as long
\* as at most one mark_ready round has passed since, unless that path was
\* already on its way to deletion when it was resolved or rebuilt.
GraceHolds ==
  \A q \in Queries :
    /\ queries[q].pc = "read"
    /\ queries[q].rounds < 2
    /\ \A k \in doomed : File(k) # queries[q].file
    => queries[q].file \in files

\* Eviction takes the commits that were enqueued first: whatever order their
\* builds finish in, no evicted commit was enqueued after one that is Ready in the
\* end, the one just indexed included ("so latest HEAD wins even when a slow older
\* build finishes after a newer one").
NewestSurvives ==
  [][\A j, k \in Keys :
       /\ j[1] = k[1]
       /\ Tracked(j) /\ commits'[j].state = "Absent"
       /\ commits'[k].state = "Ready"
       => commits'[k].enqueuedAt >= commits[j].enqueuedAt]_vars

\* Already queued commits produce no extra work: no commit is in the hands of
\* two tasks, or twice in the channel.
SingleFlight ==
  \A k \in Keys :
    Cardinality({c \in Callers : /\ callers[c].pc \in {"send", "full"}
                                 /\ callers[c].job = k})
    + Cardinality({i \in 1..Len(queue) : queue[i] = k})
    + Cardinality({t \in recovery.todo : t.key = k})
    + (IF worker.job = k THEN 1 ELSE 0) <= 1

\* Every index file on disk belongs to a tracked commit or is on the list of
\* files to delete: none is leaked.
NoOrphanFile ==
  \A f \in files : \/ f \in pendingUnlink \cup worker.ripe
                   \/ \E k \in Keys : File(k) = f /\ Tracked(k)

\* Every commit that is queued eventually stops being queued: it becomes
\* Ready or Failed, or is evicted, across restarts.
QueuedIsResolved == \A k \in Keys : Queued(k) ~> ~Queued(k)
=============================================================================
