--------------------------- MODULE IndexerProofs ---------------------------
(***************************************************************************)
(* Proofs about Indexer for every number of repositories, commits, tool    *)
(* calls, queries, failures and restarts, and every channel capacity;      *)
(* then, without restarts, that it implements IndexService.                *)
(***************************************************************************)
EXTENDS IndexerRefinement, FiniteSetTheorems, TLAPS

-----------------------------------------------------------------------------
(* The store's operations preserve the types of its variables. *)

\* The parts of a key, and the file of a key, are where they should be.
LEMMA KeyParts ==
  ASSUME NEW k \in Keys
  PROVE  k[1] \in Repos /\ k[2] \in Shas /\ File(k) \in Files
  BY DEF Keys, Files

MemTypeOK == /\ commits \in [Keys -> Entry]
             /\ lastSha \in [Repos -> Shas \cup {NoSha}]
             /\ pendingUnlink \in SUBSET Files

\* Whether the flush succeeds or fails, the state file stays well formed.
LEMMA FlushType ==
  ASSUME StoreTypeOK, MemTypeOK', UNCHANGED <<retention, now>>,
         Flushed \/ FlushError
  PROVE  StoreTypeOK'
  <1>1. disk' \in StateImage
    BY DEF Flushed, FlushError, StoreTypeOK, MemTypeOK, StateImage, Image
  <1>2. faults' \in 0..MaxFaults
    BY StoreAssumption DEF Flushed, FlushError, Fault, StoreTypeOK
  <1> QED
    BY <1>1, <1>2 DEF StoreTypeOK, MemTypeOK

\* enqueue keeps the in-memory state well formed.
LEMMA EnqueueType ==
  ASSUME StoreTypeOK, NEW k \in Keys, StoreEnqueue(k)
  PROVE  MemTypeOK'
  <1>1. k[1] \in Repos /\ k[2] \in Shas
    BY KeyParts
  <1>2. lastSha' \in [Repos -> Shas \cup {NoSha}]
    BY <1>1 DEF StoreTypeOK, StoreEnqueue
  <1>3. commits' \in [Keys -> Entry]
    BY DEF StoreTypeOK, StoreEnqueue, Entry, States
  <1> QED
    BY <1>2, <1>3 DEF MemTypeOK, StoreTypeOK, StoreEnqueue

\* mark_in_progress and mark_failed keep the in-memory state well formed.
LEMMA MutateType ==
  ASSUME StoreTypeOK, NEW k \in Keys,
         StoreMarkInProgress(k) \/ StoreMarkFailed(k)
  PROVE  MemTypeOK'
  BY DEF StoreTypeOK, MemTypeOK, StoreMarkInProgress, StoreMarkFailed, Entry,
         States

\* mark_ready keeps the in-memory state well formed.
LEMMA MarkReadyType ==
  ASSUME StoreTypeOK, NEW k \in Keys, StoreMarkReady(k)
  PROVE  MemTypeOK'
  <1>1. Completed(k) \in [Keys -> Entry]
    BY DEF StoreTypeOK, Completed, Entry, States
  <1>2. NoEntry \in Entry
    BY DEF NoEntry, Entry, States
  <1>3. PICK kept \in SUBSET ReadyOf(k[1], Completed(k)) :
          /\ commits' = [j \in Keys |->
                           IF j \in ReadyOf(k[1], Completed(k)) \ kept
                           THEN NoEntry ELSE Completed(k)[j]]
          /\ pendingUnlink' = Stash(ReadyOf(k[1], Completed(k)) \ kept)
          /\ UNCHANGED lastSha
    BY DEF StoreMarkReady, Newest
  <1>4. commits' \in [Keys -> Entry]
    BY <1>1, <1>2, <1>3
  <1>5. pendingUnlink' \in SUBSET Files
    BY <1>3, KeyParts DEF Stash, ReadyOf
  <1> QED
    BY <1>3, <1>4, <1>5 DEF MemTypeOK, StoreTypeOK

\* take_recoverable_jobs keeps the store well formed.
LEMMA TakeRecoverableType ==
  ASSUME StoreTypeOK, NEW kept, StoreTakeRecoverable(kept),
         UNCHANGED <<retention, now>>
  PROVE  StoreTypeOK'
  <1>1. commits' \in [Keys -> Entry]
    BY DEF StoreTypeOK, StoreTakeRecoverable, Entry, States
  <1>2. MemTypeOK'
    BY <1>1 DEF MemTypeOK, StoreTypeOK, StoreTakeRecoverable
  <1> QED
    BY <1>2, FlushType DEF StoreTakeRecoverable

\* Restarting from a well-formed state file gives a well-formed store.
LEMMA ReloadType ==
  ASSUME StoreTypeOK, StoreReload, retention' \in 1..MaxRetention,
         UNCHANGED <<now, faults>>
  PROVE  StoreTypeOK'
  BY DEF StoreTypeOK, StoreReload, StateImage

-----------------------------------------------------------------------------
(* Type correctness of the whole indexer. *)

\* A tool call past its first step, and an idle one, are well formed.
LEMMA CallerStates ==
  ASSUME NEW k \in Keys
  PROVE  /\ Idle \in [pc : {"idle", "send", "full", "status"}, job : JobOrNone]
         /\ Sends("send", k) \in
              [pc : {"idle", "send", "full", "status"}, job : JobOrNone]
         /\ Sends("status", k) \in
              [pc : {"idle", "send", "full", "status"}, job : JobOrNone]
         /\ Idle.pc = "idle"
         /\ Sends("send", k).job = k /\ Sends("status", k).job = k
  BY DEF Idle, Sends, JobOrNone

CallersTypeOK ==
  /\ callers \in [Callers -> [pc : {"idle", "send", "full", "status"},
                              job : JobOrNone]]
  /\ \A c \in Callers : callers[c].pc # "idle" => callers[c].job \in Keys

WorkerTypeOK ==
  /\ worker \in [pc : {"recv", "claim", "build", "ready", "failed", "unlink"},
                 job : JobOrNone, ripe : SUBSET Files]
  /\ worker.pc \in {"claim", "build", "ready", "failed"} => worker.job \in Keys

QueriesTypeOK ==
  queries \in [Queries -> [pc : {"idle", "read"}, file : Files \cup {NoJob},
                           rounds : 0..2]]

\* One caller moving to a well-formed state keeps all callers well formed.
LEMMA CallerMoves ==
  ASSUME CallersTypeOK, NEW c \in Callers,
         NEW s \in [pc : {"idle", "send", "full", "status"}, job : JobOrNone],
         s.pc # "idle" => s.job \in Keys,
         callers' = [callers EXCEPT ![c] = s]
  PROVE  CallersTypeOK'
  BY DEF CallersTypeOK

\* The idle worker is well formed.
LEMMA IdleWorkerType ==
  /\ IdleWorker \in [pc : {"recv", "claim", "build", "ready", "failed",
                           "unlink"}, job : JobOrNone, ripe : SUBSET Files]
  /\ IdleWorker.pc = "recv" /\ IdleWorker.ripe = {}
  BY DEF IdleWorker, JobOrNone

\* A send into a channel with room respects the capacity.
LEMMA SendBounded ==
  ASSUME queue \in Seq(Keys), HasRoom, NEW j \in Keys,
         queue' = Append(queue, j)
  PROVE  queue' \in Seq(Keys) /\ Len(queue') <= QueueCap
  <1>1. Len(queue') = Len(queue) + 1 /\ Len(queue) \in Nat /\ queue' \in Seq(Keys)
    OBVIOUS
  <1> QED
    BY <1>1, IndexerAssumption DEF HasRoom

\* TypeOK, task by task.
TasksTypeOK ==
  /\ StoreTypeOK
  /\ queue \in Seq(Keys)
  /\ Len(queue) <= QueueCap
  /\ WorkerTypeOK
  /\ recovery \in [pc : {"take", "send"},
                   todo : SUBSET [key : Keys, at : Nat]]
  /\ CallersTypeOK
  /\ QueriesTypeOK
  /\ files \in SUBSET Files
  /\ crashes \in 0..MaxCrashes
  /\ doomed \in SUBSET Keys

\* The two ways to write the type invariant agree, now and after a step.
LEMMA TypeByTask ==
  (TypeOK <=> TasksTypeOK) /\ (TypeOK' <=> TasksTypeOK')
  BY DEF TypeOK, TasksTypeOK, WorkerTypeOK, CallersTypeOK, QueriesTypeOK

\* The tool calls' steps preserve TypeOK.
LEMMA CallerType ==
  ASSUME TypeOK, NEW c \in Callers, CallerStep(c)
  PROVE  TypeOK'
  <1>0. StoreTypeOK /\ CallersTypeOK /\ queue \in Seq(Keys)
    BY TypeByTask DEF TasksTypeOK
  <1>1. ASSUME NEW k \in Keys, Enqueue(c, k)
        PROVE  StoreTypeOK' /\ CallersTypeOK'
    <2>1. StoreTypeOK'
      BY <1>0, <1>1, EnqueueType, FlushType DEF Enqueue
    <2>2. CASE UNCHANGED callers
      BY <1>0, <2>1, <2>2 DEF CallersTypeOK
    <2>3. ASSUME NEW next \in {Sends("send", k), Sends("status", k), Idle},
                 callers' = [callers EXCEPT ![c] = next]
          PROVE  CallersTypeOK'
      <3>1. /\ next \in [pc : {"idle", "send", "full", "status"},
                         job : JobOrNone]
            /\ next.pc # "idle" => next.job \in Keys
        BY CallerStates, <2>3
      <3> QED
        BY <1>0, <2>3, <3>1, CallerMoves
    <2> QED
      BY <1>1, <2>1, <2>2, <2>3 DEF Enqueue, AfterEnqueue
  <1>2. ASSUME TrySend(c)
        PROVE  CallersTypeOK' /\ queue' \in Seq(Keys) /\ Len(queue') <= QueueCap
    <2>1. callers[c].job \in Keys
      BY <1>0, <1>2 DEF CallersTypeOK, TrySend
    <2>2. PICK next \in AfterEnqueue(callers[c].job) :
            callers' = [callers EXCEPT ![c] = next]
      BY <1>2 DEF TrySend
    <2>3. /\ next \in [pc : {"idle", "send", "full", "status"},
                       job : JobOrNone]
          /\ next.pc # "idle" => next.job \in Keys
      BY <2>1, <2>2, CallerStates DEF AfterEnqueue
    <2>4. CallersTypeOK'
      BY <1>0, <2>2, <2>3, CallerMoves
    <2> QED
      BY <1>0, <1>2, <2>1, <2>4, SendBounded DEF TrySend
  <1>3. ASSUME TrySendFull(c)
        PROVE  CallersTypeOK'
    BY <1>0, <1>3 DEF CallersTypeOK, TrySendFull
  <1>4. ASSUME MarkDropped(c)
        PROVE  StoreTypeOK' /\ CallersTypeOK'
    <2>1. callers[c].job \in Keys
      BY <1>0, <1>4 DEF CallersTypeOK, MarkDropped
    <2>2. StoreTypeOK'
      BY <1>0, <1>4, <2>1, MutateType, FlushType DEF MarkDropped
    <2>3. CallersTypeOK'
      BY <1>0, <1>4, <2>1, CallerStates, CallerMoves DEF MarkDropped
    <2> QED
      BY <2>2, <2>3
  <1>5. ASSUME ReadBack(c)
        PROVE  CallersTypeOK'
    <2>1. callers[c].job \in Keys
      BY <1>0, <1>5 DEF CallersTypeOK, ReadBack
    <2> QED
      BY <1>0, <1>5, <2>1, CallerStates, CallerMoves DEF ReadBack
  <1>6. UNCHANGED <<worker, recovery, queries, files, crashes, doomed>>
    BY DEF CallerStep, Enqueue, TrySend, TrySendFull, MarkDropped, ReadBack
  <1>7. CASE \E k \in Keys : Enqueue(c, k)
    BY <1>1, <1>6, <1>7, TypeByTask
      DEF TasksTypeOK, Enqueue, WorkerTypeOK, QueriesTypeOK
  <1>8. CASE MarkDropped(c)
    BY <1>4, <1>6, <1>8, TypeByTask
      DEF TasksTypeOK, MarkDropped, WorkerTypeOK, QueriesTypeOK
  <1>9. CASE TrySend(c) \/ TrySendFull(c) \/ ReadBack(c)
    <2>1. /\ StoreTypeOK' /\ CallersTypeOK'
          /\ queue' \in Seq(Keys) /\ Len(queue') <= QueueCap
      BY <1>0, <1>2, <1>3, <1>5, <1>9, TypeByTask
        DEF TasksTypeOK, TrySend, TrySendFull, ReadBack, storeVars, StoreTypeOK
    <2> QED
      BY <1>6, <2>1, TypeByTask DEF TasksTypeOK, WorkerTypeOK, QueriesTypeOK
  <1> QED
    BY <1>7, <1>8, <1>9 DEF CallerStep

\* The worker's steps preserve TypeOK.
LEMMA WorkerType ==
  ASSUME TypeOK, WorkerStep
  PROVE  TypeOK'
  <1>0. TasksTypeOK
    BY TypeByTask
  <1>1. CASE Recv
    <2>1. /\ Head(queue) \in Keys
          /\ queue' \in Seq(Keys) /\ Len(queue') <= QueueCap
      <3>1. /\ Head(queue) \in Keys /\ queue' \in Seq(Keys)
            /\ Len(queue') = Len(queue) - 1 /\ Len(queue) \in Nat
        BY <1>0, <1>1 DEF Recv, TasksTypeOK
      <3> QED
        BY <1>0, <3>1, IndexerAssumption DEF TasksTypeOK
    <2>2. WorkerTypeOK'
      BY <1>0, <1>1, <2>1 DEF Recv, TasksTypeOK, WorkerTypeOK, JobOrNone
    <2> QED
      BY <1>0, <1>1, <2>1, <2>2, TypeByTask
        DEF Recv, TasksTypeOK, CallersTypeOK, QueriesTypeOK, storeVars,
            StoreTypeOK
  <1>2. CASE Claim
    <2>1. StoreTypeOK'
      <3>1. worker.job \in Keys
        BY <1>0, <1>2 DEF Claim, TasksTypeOK, WorkerTypeOK
      <3> QED
        BY <1>0, <1>2, <3>1, MutateType, FlushType DEF Claim, TasksTypeOK
    <2>2. WorkerTypeOK'
      BY <1>0, <1>2, IdleWorkerType DEF Claim, TasksTypeOK, WorkerTypeOK
    <2> QED
      BY <1>0, <1>2, <2>1, <2>2, TypeByTask
        DEF Claim, TasksTypeOK, CallersTypeOK, QueriesTypeOK
  <1>3. CASE BuildSucceeds \/ BuildFails
    <2>1. worker.job \in Keys
      BY <1>0, <1>3 DEF BuildSucceeds, BuildFails, TasksTypeOK, WorkerTypeOK
    <2>2. files' \in SUBSET Files
      BY <1>0, <1>3, <2>1, KeyParts DEF BuildSucceeds, BuildFails, TasksTypeOK
    <2>3. WorkerTypeOK'
      BY <1>0, <1>3, <2>1
        DEF BuildSucceeds, BuildFails, TasksTypeOK, WorkerTypeOK
    <2> QED
      BY <1>0, <1>3, <2>2, <2>3, TypeByTask
        DEF BuildSucceeds, BuildFails, TasksTypeOK, CallersTypeOK,
            QueriesTypeOK, storeVars, StoreTypeOK
  <1>4. CASE MarkReady
    <2>1. worker.job \in Keys
      BY <1>0, <1>4 DEF MarkReady, TasksTypeOK, WorkerTypeOK
    <2>2. StoreTypeOK'
      BY <1>0, <1>4, <2>1, MarkReadyType, FlushType DEF MarkReady, TasksTypeOK
    <2>3. WorkerTypeOK'
      <3>1. Ripe \in SUBSET Files
        BY <1>0 DEF Ripe, TasksTypeOK, StoreTypeOK
      <3> QED
        BY <1>4, <3>1, IdleWorkerType DEF MarkReady, WorkerTypeOK, JobOrNone
    <2>4. QueriesTypeOK'
      BY <1>0, <1>4 DEF MarkReady, TasksTypeOK, QueriesTypeOK
    <2>5. doomed' \in SUBSET Keys
      BY <1>0, <1>4, <2>1 DEF MarkReady, TasksTypeOK, Endangered
    <2> QED
      BY <1>0, <1>4, <2>2, <2>3, <2>4, <2>5, TypeByTask
        DEF MarkReady, TasksTypeOK, CallersTypeOK
  <1>5. ASSUME NEW f \in worker.ripe, Unlink(f)
        PROVE  TypeOK'
    <2>1. WorkerTypeOK' /\ files' \in SUBSET Files
      BY <1>0, <1>5, IdleWorkerType DEF Unlink, TasksTypeOK, WorkerTypeOK
    <2>2. StoreTypeOK'
      BY <1>0, <1>5, StoreAssumption DEF Unlink, TasksTypeOK, StoreTypeOK, Fault
    <2> QED
      BY <1>0, <1>5, <2>1, <2>2, TypeByTask
        DEF Unlink, TasksTypeOK, CallersTypeOK, QueriesTypeOK
  <1>6. CASE MarkFailed
    <2>1. worker.job \in Keys
      BY <1>0, <1>6 DEF MarkFailed, TasksTypeOK, WorkerTypeOK
    <2>2. StoreTypeOK'
      BY <1>0, <1>6, <2>1, MutateType, FlushType DEF MarkFailed, TasksTypeOK
    <2>3. WorkerTypeOK'
      BY <1>6, IdleWorkerType DEF MarkFailed, WorkerTypeOK
    <2> QED
      BY <1>0, <1>6, <2>2, <2>3, TypeByTask
        DEF MarkFailed, TasksTypeOK, CallersTypeOK, QueriesTypeOK
  <1> QED
    BY <1>1, <1>2, <1>3, <1>4, <1>5, <1>6 DEF WorkerStep

\* The recovery task's steps preserve TypeOK.
LEMMA RecoveryType ==
  ASSUME TypeOK, TakeRecoverable \/ Resume
  PROVE  TypeOK'
  <1>0. TasksTypeOK
    BY TypeByTask
  <1>1. CASE TakeRecoverable
    <2>1. PICK kept \in SUBSET Recoverable :
            /\ StoreTakeRecoverable(kept)
            /\ recovery' = [pc |-> "send",
                            todo |-> {[key |-> k, at |-> commits[k].enqueuedAt]
                                        : k \in kept}]
      BY <1>1 DEF TakeRecoverable, Newest
    <2>2. StoreTypeOK'
      BY <1>0, <1>1, <2>1, TakeRecoverableType DEF TakeRecoverable, TasksTypeOK
    <2>3. \A k \in kept : k \in Keys /\ commits[k].enqueuedAt \in Nat
      BY <1>0 DEF TasksTypeOK, StoreTypeOK, Entry, Recoverable
    <2>4. recovery' \in [pc : {"take", "send"},
                         todo : SUBSET [key : Keys, at : Nat]]
      BY <2>1, <2>3
    <2> QED
      BY <1>0, <1>1, <2>2, <2>4, TypeByTask
        DEF TakeRecoverable, TasksTypeOK, WorkerTypeOK, CallersTypeOK,
            QueriesTypeOK
  <1>2. CASE Resume
    <2>1. PICK t \in recovery.todo :
            /\ queue' = Append(queue, t.key)
            /\ recovery' = [recovery EXCEPT !.todo = @ \ {t}]
      BY <1>2 DEF Resume
    <2>2. queue' \in Seq(Keys) /\ Len(queue') <= QueueCap
      BY <1>0, <1>2, <2>1, SendBounded DEF Resume, TasksTypeOK
    <2>3. recovery' \in [pc : {"take", "send"},
                         todo : SUBSET [key : Keys, at : Nat]]
      BY <1>0, <2>1 DEF TasksTypeOK
    <2> QED
      BY <1>0, <1>2, <2>2, <2>3, TypeByTask
        DEF Resume, TasksTypeOK, WorkerTypeOK, CallersTypeOK, QueriesTypeOK,
            storeVars, StoreTypeOK
  <1> QED
    BY <1>1, <1>2

\* A query's steps preserve TypeOK.
LEMMA QueryType ==
  ASSUME TypeOK, NEW q \in Queries, QueryStep(q)
  PROVE  TypeOK'
  <1>0. TasksTypeOK
    BY TypeByTask
  <1>1. QueriesTypeOK'
    BY <1>0, KeyParts
      DEF QueryStep, Resolve, Load, TasksTypeOK, QueriesTypeOK, IdleQuery
  <1> QED
    BY <1>0, <1>1, TypeByTask
      DEF QueryStep, Resolve, Load, TasksTypeOK, WorkerTypeOK, CallersTypeOK,
          storeVars, StoreTypeOK

\* A restart, the clock and the configuration reloader preserve TypeOK.
LEMMA OutsideType ==
  ASSUME TypeOK, Crash \/ Environment
  PROVE  TypeOK'
  <1>0. TasksTypeOK
    BY TypeByTask
  <1>1. CASE Crash
    <2>1. StoreTypeOK'
      BY <1>0, <1>1, ReloadType DEF Crash, TasksTypeOK
    <2>2. WorkerTypeOK'
      BY <1>1, IdleWorkerType DEF Crash, WorkerTypeOK
    <2>3. CallersTypeOK' /\ QueriesTypeOK'
      BY <1>1
        DEF Crash, CallersTypeOK, QueriesTypeOK, Idle, IdleQuery, JobOrNone
    <2>4. /\ queue' \in Seq(Keys) /\ Len(queue') <= QueueCap
          /\ files' \in SUBSET Files
      BY <1>0, <1>1, IndexerAssumption DEF Crash, TasksTypeOK
    <2>5. crashes' \in 0..MaxCrashes
      BY <1>0, <1>1, IndexerAssumption DEF Crash, TasksTypeOK
    <2>6. doomed' \in SUBSET Keys
      BY <1>0, <1>1 DEF Crash, TasksTypeOK, Endangered
    <2>7. recovery' \in [pc : {"take", "send"},
                         todo : SUBSET [key : Keys, at : Nat]]
      BY <1>1 DEF Crash
    <2> QED
      BY <2>1, <2>2, <2>3, <2>4, <2>5, <2>6, <2>7, TypeByTask DEF TasksTypeOK
  <1>2. CASE Environment
    <2>1. StoreTypeOK'
      BY <1>0, <1>2, StoreAssumption
        DEF Environment, SetRetention, Tick, TasksTypeOK, StoreTypeOK
    <2> QED
      BY <1>0, <1>2, <2>1, TypeByTask
        DEF Environment, procVars, TasksTypeOK, WorkerTypeOK, CallersTypeOK,
            QueriesTypeOK
  <1> QED
    BY <1>1, <1>2

\* Doing nothing preserves TypeOK.
LEMMA StutterType ==
  ASSUME TypeOK, UNCHANGED vars
  PROVE  TypeOK'
  BY DEF TypeOK, StoreTypeOK, vars, storeVars, procVars

\* Both initial states are well formed.
LEMMA InitType ==
  ASSUME NEW pc \in {"take", "send"}, InitWith(pc)
  PROVE  TypeOK
  <1>1. NoEntry \in Entry
    BY DEF NoEntry, Entry, States
  <1>2. StoreTypeOK
    BY <1>1, StoreAssumption
      DEF InitWith, StoreInit, StoreTypeOK, StateImage, Image
  <1>3. WorkerTypeOK /\ CallersTypeOK /\ QueriesTypeOK
    BY IdleWorkerType
      DEF InitWith, WorkerTypeOK, CallersTypeOK, QueriesTypeOK, Idle, IdleQuery,
          JobOrNone
  <1> QED
    BY <1>2, <1>3, TypeByTask, IndexerAssumption DEF InitWith, TasksTypeOK

\* Every step preserves TypeOK.
LEMMA StepType ==
  TypeOK /\ [Next]_vars => TypeOK'
  BY CallerType, WorkerType, RecoveryType, QueryType, OutsideType, StutterType
    DEF Next

\* In every reachable state every variable is in its domain and every busy
\* task has a commit in hand.
THEOREM TypeCorrect == Spec => []TypeOK
  <1>1. Init => TypeOK
    BY InitType DEF Init
  <1> QED
    BY <1>1, StepType, PTL DEF Spec

-----------------------------------------------------------------------------
(***************************************************************************)
(* No ghosts.  NoGhost is inductive given TypeOK: an entry becomes queued  *)
(* only in Enqueue, whose caller then holds it, and every task that lets   *)
(* go of a commit passes it on or leaves it in a terminal state.  A failed *)
(* flush is the only way out, and it is counted in faults.                 *)
(***************************************************************************)

\* The tasks a commit can be in the hands of.
WithCaller(k) == \E c \in Callers : /\ callers[c].pc \in {"send", "full"}
                                    /\ callers[c].job = k
WithWorker(k) == /\ worker.pc \in {"claim", "build", "ready", "failed"}
                 /\ worker.job = k
WithRecovery(k) == recovery.pc = "take" \/ \E t \in recovery.todo : t.key = k

\* InHand, task by task.
LEMMA InHandByTask ==
  ASSUME NEW k
  PROVE  /\ InHand(k) <=> \/ WithRecovery(k) \/ InQueue(k)
                          \/ WithWorker(k) \/ WithCaller(k)
         /\ InHand(k)' <=> \/ WithRecovery(k)' \/ InQueue(k)'
                           \/ WithWorker(k)' \/ WithCaller(k)'
  BY DEF InHand, WithRecovery, WithWorker, WithCaller

\* Sending a commit keeps everything that was in the channel there.
LEMMA SendKeeps ==
  ASSUME queue \in Seq(Keys), NEW j \in Keys, queue' = Append(queue, j),
         NEW k
  PROVE  InQueue(k)' <=> InQueue(k) \/ k = j
  <1>1. /\ Len(queue') = Len(queue) + 1
        /\ \A i \in 1..Len(queue) : queue'[i] = queue[i]
        /\ queue'[Len(queue) + 1] = j
        /\ Len(queue) \in Nat
    OBVIOUS
  <1>2. 1..Len(queue') = (1..Len(queue)) \cup {Len(queue) + 1}
    BY <1>1
  <1> QED
    BY <1>1, <1>2, Zenon DEF InQueue

\* Receiving takes the head and leaves the rest in the channel.
LEMMA RecvKeeps ==
  ASSUME queue \in Seq(Keys), queue # <<>>, queue' = Tail(queue), NEW k,
         InQueue(k)
  PROVE  InQueue(k)' \/ k = Head(queue)
  <1>1. /\ Len(queue) \in Nat /\ Len(queue) # 0
        /\ Len(queue') = Len(queue) - 1
        /\ \A i \in 1..Len(queue) - 1 : queue'[i] = queue[i + 1]
        /\ Head(queue) = queue[1]
    OBVIOUS
  <1>2. PICK i \in 1..Len(queue) : queue[i] = k
    BY DEF InQueue
  <1>3. CASE i = 1
    BY <1>1, <1>2, <1>3
  <1>4. CASE i # 1
    <2>1. i - 1 \in 1..Len(queue') /\ queue'[i - 1] = k
      BY <1>1, <1>2, <1>4
    <2> QED
      BY <2>1 DEF InQueue
  <1> QED
    BY <1>3, <1>4

\* A step that leaves no failure behind follows a state without failures.
LEMMA FaultsGrow ==
  ASSUME TypeOK, [Next]_vars, faults' = 0
  PROVE  faults = 0
  <1>1. faults \in Nat
    BY DEF TypeOK, StoreTypeOK
  <1>2. faults' = faults \/ faults' = faults + 1
    <2>1. ASSUME NEW c \in Callers, CallerStep(c)
          PROVE  faults' = faults \/ faults' = faults + 1
      BY <2>1
        DEF CallerStep, Enqueue, TrySend, TrySendFull, MarkDropped, ReadBack,
            Flushed, FlushError, Fault, storeVars
    <2>2. ASSUME WorkerStep
          PROVE  faults' = faults \/ faults' = faults + 1
      <3>1. ASSUME NEW f \in worker.ripe, Unlink(f)
            PROVE  faults' = faults \/ faults' = faults + 1
        BY <3>1 DEF Unlink, Fault
      <3> QED
        BY <2>2, <3>1
          DEF WorkerStep, Recv, Claim, BuildSucceeds, BuildFails, MarkReady,
              MarkFailed, Flushed, FlushError, Fault, storeVars
    <2>3. ASSUME TakeRecoverable \/ Resume
          PROVE  faults' = faults \/ faults' = faults + 1
      BY <2>3
        DEF TakeRecoverable, StoreTakeRecoverable, Resume, Flushed, FlushError,
            Fault, storeVars
    <2>4. ASSUME NEW q \in Queries, QueryStep(q)
          PROVE  faults' = faults
      BY <2>4 DEF QueryStep, Resolve, Load, storeVars
    <2>5. ASSUME Crash \/ Environment \/ UNCHANGED vars
          PROVE  faults' = faults
      BY <2>5 DEF Crash, Environment, SetRetention, Tick, vars, storeVars
    <2> QED
      BY <2>1, <2>2, <2>3, <2>4, <2>5 DEF Next
  <1> QED
    BY <1>1, <1>2

\* Tool calls hold what they have made Pending until it is sent or Failed.
LEMMA CallerGhost ==
  ASSUME TypeOK, faults = 0, faults' = 0,
         NEW c \in Callers, CallerStep(c),
         NEW k \in Keys, Queued(k) => InHand(k), Queued(k)'
  PROVE  InHand(k)'
  <1>0. TasksTypeOK
    BY TypeByTask
  <1>1. UNCHANGED <<worker, recovery>>
    BY DEF CallerStep, Enqueue, TrySend, TrySendFull, MarkDropped, ReadBack
  <1>2. ASSUME NEW j \in Keys, Enqueue(c, j)
        PROVE  InHand(k)'
    <2>1. Flushed /\ queue' = queue
      BY <1>2 DEF Enqueue, FlushError, Fault
    <2>2. CASE k = j /\ NeedsIndexing(j)
      <3>1. callers' = [callers EXCEPT ![c] = Sends("send", k)]
        BY <1>2, <2>2 DEF Enqueue, FlushError, Fault
      <3> QED
        BY <1>0, <3>1, InHandByTask
          DEF WithCaller, Sends, TasksTypeOK, CallersTypeOK
    <2>3. CASE ~(k = j /\ NeedsIndexing(j))
      <3>1. commits'[k].state = commits[k].state
        BY <1>0, <1>2, <2>3 DEF Enqueue, StoreEnqueue, TasksTypeOK, StoreTypeOK
      <3>2. InHand(k)
        BY <3>1 DEF Queued
      <3>3. WithCaller(k) => WithCaller(k)'
        BY <1>0, <1>2 DEF Enqueue, WithCaller, TasksTypeOK, CallersTypeOK
      <3> QED
        BY <1>1, <2>1, <3>2, <3>3, InHandByTask
          DEF WithRecovery, WithWorker, InQueue
    <2> QED
      BY <2>2, <2>3
  <1>3. ASSUME TrySend(c)
        PROVE  InHand(k)'
    <2>1. InHand(k)
      BY <1>3 DEF TrySend, storeVars, Queued
    <2>2. callers[c].job \in Keys /\ queue' = Append(queue, callers[c].job)
      BY <1>0, <1>3 DEF TrySend, TasksTypeOK, CallersTypeOK
    <2>3. InQueue(k)' <=> InQueue(k) \/ k = callers[c].job
      BY <1>0, <2>2, SendKeeps DEF TasksTypeOK
    <2>4. WithCaller(k) => k = callers[c].job \/ WithCaller(k)'
      BY <1>0, <1>3 DEF TrySend, WithCaller, TasksTypeOK, CallersTypeOK
    <2> QED
      BY <1>1, <2>1, <2>3, <2>4, InHandByTask DEF WithRecovery, WithWorker
  <1>4. ASSUME TrySendFull(c)
        PROVE  InHand(k)'
    <2>1. InHand(k)
      BY <1>4 DEF TrySendFull, storeVars, Queued
    <2>2. WithCaller(k) => WithCaller(k)'
      BY <1>0, <1>4 DEF TrySendFull, WithCaller, TasksTypeOK, CallersTypeOK
    <2> QED
      BY <1>1, <1>4, <2>1, <2>2, InHandByTask
        DEF TrySendFull, WithRecovery, WithWorker, InQueue
  <1>5. ASSUME MarkDropped(c)
        PROVE  InHand(k)'
    <2>1. k # callers[c].job /\ Queued(k)
      BY <1>0, <1>5
        DEF MarkDropped, StoreMarkFailed, Queued, Tracked, TasksTypeOK,
            StoreTypeOK, Entry
    <2>2. WithCaller(k) => WithCaller(k)'
      BY <1>0, <1>5, <2>1
        DEF MarkDropped, WithCaller, TasksTypeOK, CallersTypeOK
    <2> QED
      BY <1>1, <1>5, <2>1, <2>2, InHandByTask
        DEF MarkDropped, WithRecovery, WithWorker, InQueue
  <1>6. ASSUME ReadBack(c)
        PROVE  InHand(k)'
    <2>1. InHand(k)
      BY <1>6 DEF ReadBack, storeVars, Queued
    <2>2. WithCaller(k) => WithCaller(k)'
      BY <1>0, <1>6 DEF ReadBack, WithCaller, TasksTypeOK, CallersTypeOK
    <2> QED
      BY <1>1, <1>6, <2>1, <2>2, InHandByTask
        DEF ReadBack, WithRecovery, WithWorker, InQueue
  <1> QED
    BY <1>2, <1>3, <1>4, <1>5, <1>6 DEF CallerStep

\* The worker leaves each commit it lets go of in a terminal state.
LEMMA WorkerGhost ==
  ASSUME TypeOK, faults = 0, faults' = 0, WorkerStep,
         NEW k \in Keys, Queued(k) => InHand(k), Queued(k)'
  PROVE  InHand(k)'
  <1>0. TasksTypeOK
    BY TypeByTask
  <1>1. UNCHANGED <<recovery, callers>>
    BY DEF WorkerStep, Recv, Claim, BuildSucceeds, BuildFails, MarkReady, Unlink,
           MarkFailed
  <1>2. (WithRecovery(k) => WithRecovery(k)') /\ (WithCaller(k) => WithCaller(k)')
    BY <1>1 DEF WithRecovery, WithCaller
  <1>3. CASE Recv
    <2>1. InHand(k)
      BY <1>3 DEF Recv, storeVars, Queued
    <2>2. ~WithWorker(k) /\ (k = Head(queue) => WithWorker(k)')
      BY <1>0, <1>3 DEF Recv, WithWorker, TasksTypeOK, WorkerTypeOK
    <2>3. InQueue(k) => InQueue(k)' \/ k = Head(queue)
      BY <1>0, <1>3, RecvKeeps DEF Recv, TasksTypeOK
    <2> QED
      BY <1>2, <2>1, <2>2, <2>3, InHandByTask
  <1>4. CASE Claim
    <2>1. worker' = [worker EXCEPT !.pc = "build"] /\ queue' = queue
      BY <1>4 DEF Claim, FlushError, Fault
    <2>2. k # worker.job => commits'[k].state = commits[k].state
      BY <1>0, <1>4 DEF Claim, StoreMarkInProgress, TasksTypeOK, StoreTypeOK
    <2>3. k = worker.job => WithWorker(k)'
      BY <1>0, <2>1 DEF WithWorker, TasksTypeOK, WorkerTypeOK
    <2>4. k # worker.job => InHand(k) /\ ~WithWorker(k)
      BY <2>2 DEF Queued, WithWorker
    <2> QED
      BY <1>2, <2>1, <2>3, <2>4, InHandByTask DEF InQueue
  <1>5. CASE BuildSucceeds \/ BuildFails
    <2>1. InHand(k) /\ queue' = queue
      BY <1>5 DEF BuildSucceeds, BuildFails, storeVars, Queued
    <2>2. WithWorker(k) => WithWorker(k)'
      BY <1>0, <1>5
        DEF BuildSucceeds, BuildFails, WithWorker, TasksTypeOK, WorkerTypeOK
    <2> QED
      BY <1>2, <2>1, <2>2, InHandByTask DEF InQueue
  <1>6. CASE MarkReady
    <2>1. PICK kept \in SUBSET ReadyOf(worker.job[1], Completed(worker.job)) :
            commits' = [j \in Keys |->
              IF j \in ReadyOf(worker.job[1], Completed(worker.job)) \ kept
              THEN NoEntry ELSE Completed(worker.job)[j]]
      BY <1>6 DEF MarkReady, StoreMarkReady, Newest
    <2>2. k # worker.job /\ Queued(k)
      BY <1>0, <2>1
        DEF Queued, Completed, Tracked, NoEntry, TasksTypeOK, StoreTypeOK, Entry
    <2>3. queue' = queue /\ ~WithWorker(k)
      BY <1>6, <2>2 DEF MarkReady, WithWorker
    <2> QED
      BY <1>2, <2>2, <2>3, InHandByTask DEF InQueue
  <1>7. ASSUME NEW f \in worker.ripe, Unlink(f)
        PROVE  InHand(k)'
    <2>1. InHand(k) /\ queue' = queue /\ ~WithWorker(k)
      BY <1>7 DEF Unlink, Queued, WithWorker
    <2> QED
      BY <1>2, <2>1, InHandByTask DEF InQueue
  <1>8. CASE MarkFailed
    <2>1. k # worker.job /\ Queued(k)
      BY <1>0, <1>8
        DEF MarkFailed, StoreMarkFailed, Queued, Tracked, TasksTypeOK,
            StoreTypeOK, Entry
    <2>2. queue' = queue /\ ~WithWorker(k)
      BY <1>8, <2>1 DEF MarkFailed, WithWorker
    <2> QED
      BY <1>2, <2>1, <2>2, InHandByTask DEF InQueue
  <1> QED
    BY <1>3, <1>4, <1>5, <1>6, <1>7, <1>8 DEF WorkerStep

\* The recovery task takes every queued commit or marks it Failed, and holds
\* what it took until it is sent.
LEMMA RecoveryGhost ==
  ASSUME TypeOK, TakeRecoverable \/ Resume,
         NEW k \in Keys, Queued(k) => InHand(k), Queued(k)'
  PROVE  InHand(k)'
  <1>0. TasksTypeOK
    BY TypeByTask
  <1>1. CASE TakeRecoverable
    <2>1. PICK kept \in SUBSET Recoverable :
            /\ StoreTakeRecoverable(kept)
            /\ recovery' = [pc |-> "send",
                            todo |-> {[key |-> j, at |-> commits[j].enqueuedAt]
                                        : j \in kept}]
      BY <1>1 DEF TakeRecoverable, Newest
    <2>2. k \in kept
      BY <1>0, <2>1
        DEF StoreTakeRecoverable, Recoverable, Queued, TasksTypeOK, StoreTypeOK,
            Entry
    <2>3. [key |-> k, at |-> commits[k].enqueuedAt] \in recovery'.todo
      BY <2>1, <2>2
    <2> QED
      BY <2>3, InHandByTask DEF WithRecovery
  <1>2. CASE Resume
    <2>1. PICK t \in recovery.todo :
            /\ queue' = Append(queue, t.key)
            /\ recovery' = [recovery EXCEPT !.todo = @ \ {t}]
      BY <1>2 DEF Resume
    <2>2. InHand(k) /\ t.key \in Keys
      BY <1>0, <1>2, <2>1 DEF Resume, storeVars, Queued, TasksTypeOK
    <2>3. InQueue(k)' <=> InQueue(k) \/ k = t.key
      BY <1>0, <2>1, <2>2, SendKeeps DEF TasksTypeOK
    <2>4. WithRecovery(k) => WithRecovery(k)' \/ k = t.key
      BY <1>0, <1>2, <2>1 DEF Resume, WithRecovery, TasksTypeOK
    <2>5. (WithWorker(k) => WithWorker(k)') /\ (WithCaller(k) => WithCaller(k)')
      BY <1>2 DEF Resume, WithWorker, WithCaller
    <2> QED
      BY <2>2, <2>3, <2>4, <2>5, InHandByTask
  <1> QED
    BY <1>1, <1>2

\* Every step preserves NoGhost.
LEMMA StepGhost ==
  ASSUME TypeOK, NoGhost, [Next]_vars
  PROVE  NoGhost'
  <1> SUFFICES ASSUME faults' = 0, NEW k \in Keys, Queued(k)'
               PROVE  InHand(k)'
    BY DEF NoGhost
  <1>1. faults = 0
    BY FaultsGrow
  <1>2. Queued(k) => InHand(k)
    BY <1>1 DEF NoGhost
  <1>3. ASSUME NEW q \in Queries, QueryStep(q)
        PROVE  InHand(k)'
    BY <1>2, <1>3, InHandByTask
      DEF QueryStep, Resolve, Load, storeVars, Queued, WithRecovery, WithWorker,
          WithCaller, InQueue
  <1>4. CASE Crash
    BY <1>4, InHandByTask DEF Crash, WithRecovery
  <1>5. CASE Environment \/ UNCHANGED vars
    BY <1>2, <1>5, InHandByTask
      DEF Environment, SetRetention, Tick, vars, procVars, storeVars, Queued,
          WithRecovery, WithWorker, WithCaller, InQueue
  <1> QED
    BY <1>1, <1>2, <1>3, <1>4, <1>5, CallerGhost, WorkerGhost, RecoveryGhost
      DEF Next

\* Without failed writes of the state file, a commit that enqueue dedupes
\* against is always in the hands of a task that will finish it.
THEOREM GhostFree == Spec => []NoGhost
  <1>1. Init => NoGhost
    BY DEF Init, InitWith, StoreInit, NoGhost, Queued, NoEntry
  <1>2. TypeOK /\ NoGhost /\ [Next]_vars => NoGhost'
    BY StepGhost
  <1> QED
    BY <1>1, <1>2, TypeCorrect, PTL DEF Spec

-----------------------------------------------------------------------------
(***************************************************************************)
(* Index files.  FileInv is inductive given TypeOK.  Files disappear only  *)
(* in Unlink, which deletes what mark_ready returned as ripe; ripe paths   *)
(* are the previous stash, and a path in the stash belongs to no Ready     *)
(* commit but the doomed ones.  The state file is included because a       *)
(* restart makes it the memory again.                                      *)
(***************************************************************************)

\* What holds of the files a query relies on during the grace period.
GraceInv ==
  \A q \in Queries :
    /\ queries[q].pc = "read"
    /\ queries[q].rounds < 2
    /\ \A k \in doomed : File(k) # queries[q].file
    => /\ queries[q].file \in files
       /\ queries[q].file \notin worker.ripe
       /\ queries[q].rounds = 0 => queries[q].file \notin pendingUnlink

\* A step that makes no commit Ready and deletes, dooms or stashes no file.
Harmless ==
  /\ \A k \in Keys : Ready(k)' => Ready(k)
  /\ files \subseteq files'
  /\ worker'.ripe = worker.ripe
  /\ worker'.pc = "ready" => File(worker'.job) \in files'
  /\ worker'.pc # "unlink" => worker'.ripe = {}
  /\ pendingUnlink' = pendingUnlink
  /\ doomed' = doomed
  /\ disk' = disk \/ Flushed

\* Harmless steps preserve FileInv.
LEMMA HarmlessFiles ==
  ASSUME FileInv, Harmless
  PROVE  FileInv'
  <1>1. \A k \in Keys \ doomed' : Ready(k)' => /\ File(k)' \in files'
                                              /\ File(k)' \notin pendingUnlink'
                                              /\ File(k)' \notin worker'.ripe
    BY DEF FileInv, Harmless, File
  <1>2. \A k \in Keys \ doomed' :
           disk'.commits[k].state = "Ready" => /\ File(k)' \in files'
                                               /\ File(k)' \notin worker'.ripe
    <2>1. CASE disk' = disk
      BY <2>1 DEF FileInv, Harmless, File
    <2>2. CASE Flushed
      BY <1>1, <2>2 DEF Flushed, Image, Ready
    <2> QED
      BY <2>1, <2>2 DEF Harmless
  <1> QED
    BY <1>1, <1>2 DEF FileInv, Harmless, File

\* Harmless steps that move no query preserve GraceInv.
LEMMA HarmlessGrace ==
  ASSUME GraceInv, Harmless, UNCHANGED queries
  PROVE  GraceInv'
  BY DEF GraceInv, Harmless, File

\* Tool calls, the recovery task, the environment and stuttering are harmless.
LEMMA OthersHarmless ==
  ASSUME TypeOK, FileInv,
         \/ \E c \in Callers : CallerStep(c)
         \/ TakeRecoverable \/ Resume \/ Environment \/ UNCHANGED vars
  PROVE  Harmless /\ UNCHANGED queries
  <1>0. commits \in [Keys -> Entry]
    BY DEF TypeOK, StoreTypeOK
  <1>1. CASE \E c \in Callers : CallerStep(c)
    <2>1. PICK c \in Callers : CallerStep(c)
      BY <1>1
    <2>2. ASSUME NEW k \in Keys, Enqueue(c, k)
          PROVE  Harmless /\ UNCHANGED queries
      <3>1. \A j \in Keys : Ready(j)' => Ready(j)
        BY <1>0, <2>2 DEF Enqueue, StoreEnqueue, Ready
      <3> QED
        BY <2>2, <3>1
          DEF Enqueue, StoreEnqueue, FlushError, Harmless, FileInv
    <2>3. ASSUME MarkDropped(c)
          PROVE  Harmless /\ UNCHANGED queries
      <3>1. \A j \in Keys : Ready(j)' => Ready(j)
        BY <1>0, <2>3 DEF MarkDropped, StoreMarkFailed, Ready
      <3> QED
        BY <2>3, <3>1
          DEF MarkDropped, StoreMarkFailed, FlushError, Harmless, FileInv
    <2>4. ASSUME TrySend(c) \/ TrySendFull(c) \/ ReadBack(c)
          PROVE  Harmless /\ UNCHANGED queries
      BY <2>4
        DEF TrySend, TrySendFull, ReadBack, storeVars, Harmless, FileInv, Ready
    <2> QED
      BY <2>1, <2>2, <2>3, <2>4 DEF CallerStep
  <1>2. CASE TakeRecoverable
    <2>1. PICK kept : StoreTakeRecoverable(kept)
      BY <1>2 DEF TakeRecoverable
    <2>2. \A j \in Keys : Ready(j)' => Ready(j)
      BY <1>0, <2>1 DEF StoreTakeRecoverable, Ready
    <2> QED
      BY <1>2, <2>1, <2>2
        DEF TakeRecoverable, StoreTakeRecoverable, FlushError, Harmless, FileInv
  <1>3. CASE Resume \/ Environment \/ UNCHANGED vars
    BY <1>3
      DEF Resume, Environment, SetRetention, Tick, vars, procVars, storeVars,
          Harmless, FileInv, Ready
  <1> QED
    BY <1>1, <1>2, <1>3

\* The worker's steps other than mark_ready and the deletions are harmless.
LEMMA WorkerHarmless ==
  ASSUME TypeOK, FileInv,
         Recv \/ Claim \/ BuildSucceeds \/ BuildFails \/ MarkFailed
  PROVE  Harmless /\ UNCHANGED queries
  <1>0. TasksTypeOK /\ commits \in [Keys -> Entry]
    BY TypeByTask DEF TasksTypeOK, StoreTypeOK
  <1>1. CASE Recv
    BY <1>0, <1>1
      DEF Recv, storeVars, Harmless, FileInv, Ready, TasksTypeOK, WorkerTypeOK
  <1>2. CASE Claim
    <2>1. \A j \in Keys : Ready(j)' => Ready(j)
      BY <1>0, <1>2 DEF Claim, StoreMarkInProgress, Ready
    <2>2. worker'.ripe = {} /\ worker.ripe = {} /\ worker'.pc # "ready"
      BY <1>0, <1>2, IdleWorkerType
        DEF Claim, FileInv, TasksTypeOK, WorkerTypeOK
    <2> QED
      BY <1>2, <2>1, <2>2
        DEF Claim, StoreMarkInProgress, FlushError, Harmless
  <1>3. CASE BuildSucceeds \/ BuildFails
    BY <1>0, <1>3
      DEF BuildSucceeds, BuildFails, storeVars, Harmless, FileInv, Ready,
          TasksTypeOK, WorkerTypeOK, File
  <1>4. CASE MarkFailed
    <2>1. \A j \in Keys : Ready(j)' => Ready(j)
      BY <1>0, <1>4 DEF MarkFailed, StoreMarkFailed, Ready
    <2>2. worker'.ripe = {} /\ worker.ripe = {} /\ worker'.pc # "ready"
      BY <1>4, IdleWorkerType DEF MarkFailed, FileInv
    <2> QED
      BY <1>4, <2>1, <2>2 DEF MarkFailed, StoreMarkFailed, FlushError, Harmless
  <1> QED
    BY <1>1, <1>2, <1>3, <1>4

\* mark_ready: the commit has just been built, and the commits whose files
\* become ripe or are stashed are doomed or not Ready.
LEMMA MarkReadyFiles ==
  ASSUME TypeOK, FileInv, MarkReady
  PROVE  FileInv'
  <1>0. TasksTypeOK /\ commits \in [Keys -> Entry]
    BY TypeByTask DEF TasksTypeOK, StoreTypeOK
  <1>1. worker.pc = "ready" /\ worker.job \in Keys
    BY <1>0 DEF MarkReady, TasksTypeOK, WorkerTypeOK
  <1>2. \A k \in Keys : Ready(k)' => Ready(k) \/ k = worker.job
    <2>1. PICK kept \in SUBSET ReadyOf(worker.job[1], Completed(worker.job)) :
            commits' = [j \in Keys |->
              IF j \in ReadyOf(worker.job[1], Completed(worker.job)) \ kept
              THEN NoEntry ELSE Completed(worker.job)[j]]
      BY DEF MarkReady, StoreMarkReady, Newest
    <2> QED
      BY <1>0, <2>1 DEF Completed, NoEntry, Ready
  <1>3. File(worker.job) \in files /\ files' = files
    BY <1>1 DEF FileInv, MarkReady
  <1>4. ASSUME NEW k \in Keys \ doomed'
        PROVE  /\ k \in doomed => k = worker.job
               /\ k = worker.job => File(k) \notin pendingUnlink
               /\ Ready(k)' => File(k) \notin pendingUnlink'
    BY <1>4 DEF MarkReady, Endangered, Ready
  <1>5. /\ worker'.pc # "ready"
        /\ worker'.pc # "unlink" => worker'.ripe = {}
        /\ \/ Flushed /\ worker'.ripe \subseteq pendingUnlink
           \/ disk' = disk /\ worker'.ripe = {}
    BY IdleWorkerType DEF MarkReady, Ripe, FlushError
  <1>6. ASSUME NEW k \in Keys \ doomed', Ready(k)'
        PROVE  /\ File(k) \in files'
               /\ File(k) \notin pendingUnlink'
               /\ File(k) \notin worker'.ripe
    BY <1>2, <1>3, <1>4, <1>5, <1>6 DEF FileInv
  <1>7. ASSUME NEW k \in Keys \ doomed', disk'.commits[k].state = "Ready"
        PROVE  File(k) \in files' /\ File(k) \notin worker'.ripe
    <2>1. CASE Flushed
      BY <1>6, <1>7, <2>1 DEF Flushed, Image, Ready
    <2>2. CASE disk' = disk /\ worker'.ripe = {}
      BY <1>3, <1>4, <1>7, <2>2 DEF FileInv
    <2> QED
      BY <1>5, <2>1, <2>2
  <1> QED
    BY <1>5, <1>6, <1>7 DEF FileInv, File

\* mark_ready ages every query by a round; what becomes ripe was stashed a
\* round ago, before any query of age zero resolved its path.
LEMMA MarkReadyGrace ==
  ASSUME TypeOK, FileInv, GraceInv, MarkReady
  PROVE  GraceInv'
  <1>0. TasksTypeOK
    BY TypeByTask
  <1>1. File(worker.job) \in files /\ files' = files
    BY DEF FileInv, MarkReady
  <1>2. worker'.ripe \subseteq pendingUnlink
    BY IdleWorkerType DEF MarkReady, Ripe
  <1> SUFFICES ASSUME NEW q \in Queries,
                      queries'[q].pc = "read", queries'[q].rounds < 2,
                      \A k \in doomed' : File(k) # queries'[q].file
               PROVE  /\ queries'[q].file \in files'
                      /\ queries'[q].file \notin worker'.ripe
                      /\ queries'[q].rounds # 0
    BY DEF GraceInv, File
  <1>3. /\ queries[q].pc = "read" /\ queries[q].rounds = 0
        /\ queries'[q].rounds = 1
        /\ queries'[q].file = queries[q].file
    BY <1>0 DEF MarkReady, TasksTypeOK, QueriesTypeOK
  <1>4. CASE \A k \in doomed : File(k) # queries[q].file
    BY <1>1, <1>2, <1>3, <1>4 DEF GraceInv
  <1>5. CASE \E k \in doomed : File(k) = queries[q].file
    <2>1. /\ File(worker.job) = queries[q].file
          /\ worker.job \notin doomed'
      BY <1>3, <1>5 DEF MarkReady
    <2>2. File(worker.job) \notin pendingUnlink
      BY <2>1 DEF MarkReady
    <2> QED
      BY <1>1, <1>2, <1>3, <2>1, <2>2
  <1> QED
    BY <1>4, <1>5

\* A deletion takes a ripe path, which no safe commit and no query in its
\* grace period relies on.
LEMMA UnlinkFiles ==
  ASSUME TypeOK, FileInv, GraceInv, NEW f \in worker.ripe, Unlink(f)
  PROVE  FileInv' /\ GraceInv'
  <1>1. /\ worker'.ripe = worker.ripe \ {f}
        /\ worker'.pc # "unlink" => worker'.ripe = {}
        /\ worker'.pc # "ready"
    BY IdleWorkerType, TypeByTask DEF Unlink, TasksTypeOK, WorkerTypeOK
  <1>2. /\ files \ {f} \subseteq files'
        /\ UNCHANGED <<commits, pendingUnlink, disk, queries, doomed>>
    BY DEF Unlink
  <1>3. FileInv'
    BY <1>1, <1>2 DEF FileInv, File, Ready
  <1>4. GraceInv'
    BY <1>1, <1>2 DEF GraceInv, File
  <1> QED
    BY <1>3, <1>4

\* A query resolves a Ready commit, whose file is safe unless it is doomed.
LEMMA QueryFiles ==
  ASSUME TypeOK, FileInv, GraceInv, NEW q \in Queries, QueryStep(q)
  PROVE  FileInv' /\ GraceInv'
  <1>1. UNCHANGED <<commits, pendingUnlink, disk, worker, files, doomed>>
    BY DEF QueryStep, Resolve, Load, storeVars
  <1>2. FileInv'
    BY <1>1 DEF FileInv, File, Ready
  <1>3. queries \in [Queries -> [pc : {"idle", "read"}, file : Files \cup {NoJob},
                                 rounds : 0..2]]
    BY DEF TypeOK
  <1>4. CASE Load(q)
    BY <1>1, <1>2, <1>3, <1>4 DEF Load, IdleQuery, GraceInv, File
  <1>5. ASSUME NEW k \in Keys, Resolve(q, k)
        PROVE  GraceInv'
    <2>1. k \notin doomed => /\ File(k) \in files
                             /\ File(k) \notin pendingUnlink
                             /\ File(k) \notin worker.ripe
      BY <1>5 DEF Resolve, FileInv
    <2>2. queries' = [queries EXCEPT ![q] =
                        [pc |-> "read", file |-> File(k), rounds |-> 0]]
      BY <1>5 DEF Resolve
    <2> QED
      BY <1>1, <1>3, <2>1, <2>2 DEF GraceInv, File
  <1> QED
    BY <1>2, <1>4, <1>5 DEF QueryStep

\* A restart drops every query and every deletion under way, and loads a
\* state file whose Ready commits are safe.
LEMMA CrashFiles ==
  ASSUME FileInv, Crash
  PROVE  FileInv' /\ GraceInv'
  <1>1. FileInv'
    BY IdleWorkerType DEF Crash, StoreReload, FileInv, Endangered, File, Ready
  <1>2. GraceInv'
    BY DEF Crash, GraceInv, IdleQuery
  <1> QED
    BY <1>1, <1>2

\* Every step preserves the file invariants.
LEMMA StepFiles ==
  TypeOK /\ FileInv /\ GraceInv /\ [Next]_vars => FileInv' /\ GraceInv'
  BY OthersHarmless, WorkerHarmless, HarmlessFiles, HarmlessGrace,
     MarkReadyFiles, MarkReadyGrace, UnlinkFiles, QueryFiles, CrashFiles
    DEF Next, WorkerStep

\* The file invariants hold in every reachable state.
THEOREM FilesSafe == Spec => [](FileInv /\ GraceInv)
  <1>1. Init => FileInv /\ GraceInv
    BY IdleWorkerType
      DEF Init, InitWith, StoreInit, FileInv, GraceInv, Ready, NoEntry, Image,
          IdleQuery
  <1> QED
    BY <1>1, StepFiles, TypeCorrect, PTL DEF Spec

\* A Ready commit has its index file unless the file was awaiting deletion
\* when the commit was recorded Ready, through restarts, failed writes and
\* repositories that share a directory.
THEOREM ReadyHasFileAlways == Spec => []ReadyHasFile
  <1>1. FileInv => ReadyHasFile
    BY DEF FileInv, ReadyHasFile
  <1> QED
    BY <1>1, FilesSafe, PTL

\* A query can read the path it resolved during one further mark_ready round.
THEOREM GraceHoldsAlways == Spec => []GraceHolds
  <1>1. GraceInv => GraceHolds
    BY DEF GraceInv, GraceHolds
  <1> QED
    BY <1>1, FilesSafe, PTL

-----------------------------------------------------------------------------
(***************************************************************************)
(* Indexer implements IndexService, no commit is in the hands of two       *)
(* tasks, retention evicts the oldest commits and leaks no file, for every *)
(* number of repositories, commits, tool calls and failures, as long as    *)
(* the process is not restarted.                                           *)
(***************************************************************************)

(***************************************************************************)
(* The inductive invariant: a commit that a caller, the channel or the     *)
(* worker holds and that is not claimed is Pending, the claimed one is     *)
(* InProgress, and no two of them hold the same commit.                    *)
(***************************************************************************)

Sending(c) == callers[c].pc \in {"send", "full"}

NoRecovery == recovery.pc = "send" /\ recovery.todo = {}

CallersPending ==
  \A c \in Callers : Sending(c) => commits[callers[c].job].state = "Pending"
QueuePending ==
  \A i \in 1..Len(queue) : commits[queue[i]].state = "Pending"
WorkerKnows ==
  /\ worker.pc = "claim" => commits[worker.job].state = "Pending"
  /\ IsRunning => commits[worker.job].state = "InProgress"
  /\ worker.pc \in {"recv", "unlink"} => worker.job = NoJob

CallersApart ==
  \A c, d \in Callers : Sending(c) /\ Sending(d) /\ callers[c].job = callers[d].job => c = d
QueueApart ==
  \A i, j \in 1..Len(queue) : queue[i] = queue[j] => i = j
CallersNotInQueue ==
  \A c \in Callers, i \in 1..Len(queue) : Sending(c) => callers[c].job # queue[i]
WorkerApart ==
  worker.pc = "claim" =>
    /\ \A c \in Callers : Sending(c) => callers[c].job # worker.job
    /\ \A i \in 1..Len(queue) : queue[i] # worker.job

FlightInv ==
  /\ NoRecovery
  /\ CallersPending /\ QueuePending /\ WorkerKnows
  /\ CallersApart /\ QueueApart /\ CallersNotInQueue /\ WorkerApart

\* A step that moves no task and takes no queued commit out of its state keeps
\* the invariant.
LEMMA NobodyMoves ==
  ASSUME TypeOK, FlightInv, UNCHANGED <<queue, worker, recovery, callers>>,
         \A k \in Keys : Queued(k) => commits'[k].state = commits[k].state
  PROVE  FlightInv'
  <1>1. \A c \in Callers : Sending(c) => callers[c].job \in Keys
    BY DEF TypeOK, Sending
  <1>2. \A i \in 1..Len(queue) : queue[i] \in Keys
    BY DEF TypeOK
  <1>3. worker.pc = "claim" \/ IsRunning => worker.job \in Keys
    BY DEF TypeOK, IsRunning
  <1>4. CallersPending' /\ QueuePending' /\ WorkerKnows'
    BY <1>1, <1>2, <1>3
      DEF FlightInv, CallersPending, QueuePending, WorkerKnows, Sending, IsRunning, Queued
  <1> QED
    BY <1>4 DEF FlightInv, NoRecovery, CallersApart, QueueApart, CallersNotInQueue,
                WorkerApart, Sending

\* enqueue: what becomes Pending was in nobody's hands.
LEMMA EnqueueFlight ==
  ASSUME TypeOK, FlightInv, NEW c \in Callers, NEW k \in Keys, Enqueue(c, k)
  PROVE  FlightInv'
  <1>1. \A j \in Keys : Queued(j) => commits'[j].state = commits[j].state
    BY DEF Enqueue, StoreEnqueue, NeedsIndexing, Queued, TypeOK, StoreTypeOK
  <1>2. CASE UNCHANGED callers
    BY <1>1, <1>2, NobodyMoves DEF Enqueue
  <1>3. CASE ~NeedsIndexing(k) /\ \E s \in AfterEnqueue(k) : callers' = [callers EXCEPT ![c] = s]
    <2>1. \A d \in Callers : Sending(d)' => Sending(d) /\ callers'[d] = callers[d]
      BY <1>3 DEF AfterEnqueue, Sends, Idle, Sending, TypeOK
    <2>2. commits' = commits /\ UNCHANGED <<queue, worker, recovery>>
      BY <1>3 DEF Enqueue, StoreEnqueue
    <2> QED
      BY <2>1, <2>2 DEF FlightInv, NoRecovery, CallersPending, QueuePending, WorkerKnows,
        CallersApart, QueueApart, CallersNotInQueue, WorkerApart, IsRunning, Sending
  <1>4. CASE NeedsIndexing(k) /\ callers' = [callers EXCEPT ![c] = Sends("send", k)]
    <2>1. commits'[k].state = "Pending"
      BY <1>4 DEF Enqueue, StoreEnqueue, TypeOK, StoreTypeOK, Entry
    <2>2. ~Queued(k)
      BY <1>4 DEF NeedsIndexing, Queued
    <2>3. /\ callers'[c].job = k
          /\ \A d \in Callers \ {c} : callers'[d] = callers[d]
      BY <1>4 DEF Sends, TypeOK
    <2>4. UNCHANGED <<queue, worker, recovery>>
      BY DEF Enqueue
    <2>5. \A d \in Callers : Sending(d) => callers[d].job \in Keys /\ callers[d].job # k
      BY <2>2 DEF FlightInv, CallersPending, Queued, TypeOK, Sending
    <2>6. \A i \in 1..Len(queue) : queue[i] \in Keys /\ queue[i] # k
      BY <2>2 DEF FlightInv, QueuePending, Queued, TypeOK
    <2>7. worker.pc = "claim" \/ IsRunning => worker.job \in Keys /\ worker.job # k
      BY <2>2 DEF FlightInv, WorkerKnows, Queued, TypeOK, IsRunning
    <2>8. CallersPending'
      BY <1>1, <2>1, <2>3, <2>5 DEF FlightInv, CallersPending, Queued, Sending
    <2>9. QueuePending' /\ WorkerKnows'
      BY <1>1, <2>4, <2>6, <2>7 DEF FlightInv, QueuePending, WorkerKnows, Queued, IsRunning
    <2>10. CallersApart' /\ CallersNotInQueue' /\ WorkerApart'
      BY <2>3, <2>4, <2>5, <2>6, <2>7
        DEF FlightInv, CallersApart, CallersNotInQueue, WorkerApart, Sending
    <2> QED
      BY <2>4, <2>8, <2>9, <2>10 DEF FlightInv, NoRecovery, QueueApart
  <1> QED
    BY <1>2, <1>3, <1>4 DEF Enqueue

\* try_send: the caller's commit goes to the end of the channel.
LEMMA SendFlight ==
  ASSUME TypeOK, FlightInv, NEW c \in Callers, TrySend(c)
  PROVE  FlightInv'
  <1> DEFINE k == callers[c].job
  <1>1. k \in Keys /\ Sending(c) /\ queue \in Seq(Keys)
    BY DEF TypeOK, TrySend, Sending
  <1>2. /\ Len(queue') = Len(queue) + 1 /\ Len(queue) \in Nat
        /\ \A i \in 1..Len(queue) : queue'[i] = queue[i]
        /\ queue'[Len(queue) + 1] = k
    BY <1>1 DEF TrySend
  <1>3. 1..Len(queue') = (1..Len(queue)) \cup {Len(queue) + 1}
    BY <1>2
  <1>4. /\ commits' = commits /\ UNCHANGED <<worker, recovery>>
        /\ \A d \in Callers : Sending(d)' => d # c /\ Sending(d) /\ callers'[d] = callers[d]
    BY DEF TrySend, AfterEnqueue, Sends, Idle, Sending, TypeOK, storeVars
  <1>5. QueuePending'
    BY <1>1, <1>2, <1>3, <1>4 DEF FlightInv, QueuePending, CallersPending
  <1>6. QueueApart'
    BY <1>1, <1>2, <1>3 DEF FlightInv, QueueApart, CallersNotInQueue
  <1>7. CallersNotInQueue'
    BY <1>1, <1>2, <1>3, <1>4 DEF FlightInv, CallersNotInQueue, CallersApart
  <1>8. WorkerApart'
    BY <1>1, <1>2, <1>3, <1>4 DEF FlightInv, WorkerApart
  <1>9. NoRecovery' /\ CallersPending' /\ WorkerKnows' /\ CallersApart'
    BY <1>4 DEF FlightInv, NoRecovery, CallersPending, WorkerKnows, CallersApart, IsRunning
  <1> QED
    BY <1>5, <1>6, <1>7, <1>8, <1>9 DEF FlightInv

\* A caller that finds the channel full, gives up or returns.
LEMMA CallerFlight ==
  ASSUME TypeOK, FlightInv, NEW c \in Callers, CallerStep(c)
  PROVE  FlightInv'
  <1>1. CASE TrySendFull(c)
    <2>1. /\ commits' = commits /\ UNCHANGED <<queue, worker, recovery>>
          /\ \A d \in Callers : (Sending(d)' <=> Sending(d)) /\ callers'[d].job = callers[d].job
      BY <1>1 DEF TrySendFull, Sending, TypeOK, storeVars
    <2> QED
      BY <2>1 DEF FlightInv, NoRecovery, CallersPending, QueuePending, WorkerKnows,
        CallersApart, QueueApart, CallersNotInQueue, WorkerApart, IsRunning
  <1>2. CASE ReadBack(c)
    <2>1. /\ commits' = commits /\ UNCHANGED <<queue, worker, recovery>>
          /\ \A d \in Callers : Sending(d)' => Sending(d) /\ callers'[d] = callers[d]
      BY <1>2 DEF ReadBack, Sending, TypeOK, storeVars, Idle
    <2> QED
      BY <2>1 DEF FlightInv, NoRecovery, CallersPending, QueuePending, WorkerKnows,
        CallersApart, QueueApart, CallersNotInQueue, WorkerApart, IsRunning
  <1>3. CASE MarkDropped(c)
    <2> DEFINE k == callers[c].job
    <2>1. k \in Keys /\ Sending(c)
      BY <1>3 DEF TypeOK, MarkDropped, Sending
    <2>2. UNCHANGED <<queue, worker, recovery>>
      BY <1>3 DEF MarkDropped
    <2>3. \A j \in Keys \ {k} : commits'[j] = commits[j]
      BY <1>3, <2>1 DEF MarkDropped, StoreMarkFailed, TypeOK, StoreTypeOK
    <2>4. \A d \in Callers : Sending(d)' => d # c /\ Sending(d) /\ callers'[d] = callers[d]
      BY <1>3 DEF MarkDropped, Idle, Sending, TypeOK
    <2>5. \A d \in Callers : Sending(d)' => callers[d].job \in Keys \ {k}
      BY <2>1, <2>4 DEF FlightInv, CallersApart, TypeOK, Sending
    <2>6. \A i \in 1..Len(queue) : queue[i] \in Keys \ {k}
      BY <2>1 DEF FlightInv, CallersNotInQueue, TypeOK
    <2>7. worker.pc = "claim" \/ IsRunning => worker.job \in Keys \ {k}
      BY <2>1 DEF FlightInv, WorkerApart, WorkerKnows, CallersPending, TypeOK, IsRunning
    <2>8. CallersPending'
      BY <2>3, <2>4, <2>5 DEF FlightInv, CallersPending
    <2>9. QueuePending' /\ WorkerKnows'
      BY <2>2, <2>3, <2>6, <2>7 DEF FlightInv, QueuePending, WorkerKnows, IsRunning
    <2> QED
      BY <2>2, <2>4, <2>8, <2>9 DEF FlightInv, NoRecovery, CallersApart, QueueApart,
        CallersNotInQueue, WorkerApart
  <1> QED
    BY <1>1, <1>2, <1>3, EnqueueFlight, SendFlight DEF CallerStep

\* The worker takes the head of the channel.
LEMMA RecvFlight ==
  ASSUME TypeOK, FlightInv, Recv
  PROVE  FlightInv'
  <1>1. /\ queue \in Seq(Keys) /\ Len(queue) \in Nat /\ Len(queue) # 0
        /\ Len(queue') = Len(queue) - 1
        /\ \A i \in 1..Len(queue') : queue'[i] = queue[i + 1] /\ i + 1 \in 1..Len(queue)
        /\ Head(queue) = queue[1] /\ 1 \in 1..Len(queue)
    BY DEF TypeOK, Recv
  <1>2. /\ commits' = commits /\ UNCHANGED <<recovery, callers>>
        /\ worker'.pc = "claim" /\ worker'.job = queue[1]
    BY <1>1 DEF Recv, storeVars, TypeOK
  <1>3. QueuePending' /\ WorkerKnows'
    BY <1>1, <1>2 DEF FlightInv, QueuePending, WorkerKnows, IsRunning
  <1>4. QueueApart'
    <2> SUFFICES ASSUME NEW i \in 1..Len(queue'), NEW j \in 1..Len(queue'), queue'[i] = queue'[j]
                 PROVE  i = j
      BY DEF QueueApart
    <2>1. i + 1 = j + 1
      BY <1>1 DEF FlightInv, QueueApart
    <2> QED
      BY <2>1, <1>1
  <1>5. CallersNotInQueue'
    BY <1>1, <1>2 DEF FlightInv, CallersNotInQueue, Sending
  <1>6. WorkerApart'
    <2>1. \A i \in 1..Len(queue') : queue'[i] # queue[1]
      BY <1>1 DEF FlightInv, QueueApart
    <2> QED
      BY <2>1, <1>1, <1>2 DEF FlightInv, CallersNotInQueue, WorkerApart, Sending
  <1> QED
    BY <1>2, <1>3, <1>4, <1>5, <1>6
      DEF FlightInv, NoRecovery, CallersPending, CallersApart, Sending

\* The worker changes its own commit only, and nobody else holds it.
LEMMA WorkerMoves ==
  ASSUME TypeOK, FlightInv, UNCHANGED <<queue, recovery, callers>>,
         worker.pc \in {"claim", "build", "ready", "failed"},
         \A k \in Keys \ {worker.job} : Queued(k) => commits'[k].state = commits[k].state,
         worker'.pc # "claim", WorkerKnows'
  PROVE  FlightInv'
  <1>1. worker.job \in Keys
    BY DEF TypeOK
  <1>2. \A c \in Callers : Sending(c) =>
          callers[c].job \in Keys \ {worker.job} /\ Queued(callers[c].job)
    BY DEF FlightInv, WorkerApart, WorkerKnows, CallersPending, TypeOK, Sending, IsRunning, Queued
  <1>3. \A i \in 1..Len(queue) : queue[i] \in Keys \ {worker.job} /\ Queued(queue[i])
    BY DEF FlightInv, WorkerApart, WorkerKnows, QueuePending, TypeOK, IsRunning, Queued
  <1>4. CallersPending' /\ QueuePending'
    BY <1>2, <1>3 DEF FlightInv, CallersPending, QueuePending, Sending
  <1> QED
    BY <1>4 DEF FlightInv, NoRecovery, CallersApart, QueueApart, CallersNotInQueue,
                WorkerApart, Sending

\* After retention every commit that was queued and is not the worker's is as it
\* was, and the worker's is Ready or evicted.
LEMMA EvictsReady ==
  ASSUME TypeOK, NEW k \in Keys, StoreMarkReady(k)
  PROVE  \A j \in Keys \ {k} : Queued(j) => commits'[j].state = commits[j].state
  BY DEF StoreMarkReady, Completed, ReadyOf, Queued, TypeOK, StoreTypeOK

\* Every step of the worker task.
LEMMA WorkerFlight ==
  ASSUME TypeOK, FlightInv, WorkerStep
  PROVE  FlightInv'
  <1>0. IdleWorker.pc = "recv" /\ IdleWorker.job = NoJob
    BY DEF IdleWorker
  <1>1. CASE Claim
    <2>1. worker.pc = "claim" /\ worker.job \in Keys /\ UNCHANGED <<queue, recovery, callers>>
      BY <1>1 DEF Claim, TypeOK
    <2>2. commits[worker.job].state = "Pending"
      BY <2>1 DEF FlightInv, WorkerKnows
    <2>3. /\ commits'[worker.job].state = "InProgress"
          /\ \A j \in Keys \ {worker.job} : commits'[j] = commits[j]
      BY <1>1, <2>1, <2>2
        DEF Claim, StoreMarkInProgress, Tracked, TypeOK, StoreTypeOK, Entry
    <2>4. /\ worker'.pc = "build" /\ worker'.job = worker.job
          \/ worker' = IdleWorker
      BY <1>1 DEF Claim, TypeOK
    <2>5. WorkerKnows' /\ worker'.pc # "claim"
      BY <1>0, <2>3, <2>4 DEF WorkerKnows, IsRunning
    <2> QED
      BY <2>1, <2>3, <2>5, WorkerMoves
  <1>2. CASE BuildSucceeds \/ BuildFails
    <2>1. /\ worker.pc = "build" /\ UNCHANGED <<commits, queue, recovery, callers>>
          /\ worker'.job = worker.job /\ worker'.pc \in {"ready", "failed"}
      BY <1>2 DEF BuildSucceeds, BuildFails, storeVars, TypeOK
    <2>2. WorkerKnows'
      BY <2>1 DEF FlightInv, WorkerKnows, IsRunning
    <2> QED
      BY <2>1, <2>2, WorkerMoves
  <1>3. CASE MarkReady
    <2>1. /\ worker.pc = "ready" /\ worker.job \in Keys /\ StoreMarkReady(worker.job)
          /\ UNCHANGED <<queue, recovery, callers>>
      BY <1>3 DEF MarkReady, TypeOK
    <2>2. worker'.pc \in {"recv", "unlink"} /\ worker'.job = NoJob
      BY <1>0, <1>3 DEF MarkReady
    <2>3. WorkerKnows'
      BY <2>2 DEF WorkerKnows, IsRunning
    <2> QED
      BY <2>1, <2>2, <2>3, EvictsReady, WorkerMoves
  <1>4. CASE MarkFailed
    <2>1. /\ worker.pc = "failed" /\ worker.job \in Keys /\ worker' = IdleWorker
          /\ UNCHANGED <<queue, recovery, callers>>
      BY <1>4 DEF MarkFailed, TypeOK
    <2>2. \A j \in Keys \ {worker.job} : commits'[j] = commits[j]
      BY <1>4, <2>1 DEF MarkFailed, StoreMarkFailed, TypeOK, StoreTypeOK
    <2>3. WorkerKnows'
      BY <1>0, <2>1 DEF WorkerKnows, IsRunning
    <2> QED
      BY <1>0, <2>1, <2>2, <2>3, WorkerMoves
  <1>5. ASSUME NEW f \in worker.ripe, Unlink(f)
        PROVE  FlightInv'
    <2>1. worker.pc = "unlink" /\ UNCHANGED <<commits, queue, recovery, callers>>
      BY <1>5 DEF Unlink
    <2>2. worker'.pc \in {"recv", "unlink"} /\ worker'.job = NoJob
      BY <1>0, <1>5 DEF Unlink, FlightInv, WorkerKnows, TypeOK
    <2> QED
      BY <2>1, <2>2 DEF FlightInv, NoRecovery, CallersPending, QueuePending, WorkerKnows,
        CallersApart, QueueApart, CallersNotInQueue, WorkerApart, IsRunning, Sending
  <1> QED
    BY <1>1, <1>2, <1>3, <1>4, <1>5, RecvFlight DEF WorkerStep

\* Without restarts, every step keeps the invariant.
LEMMA StepFlight ==
  ASSUME MaxCrashes = 0, TypeOK, FlightInv, [Next]_vars
  PROVE  FlightInv'
  <1>1. ~TakeRecoverable /\ ~Resume
    BY DEF FlightInv, NoRecovery, TakeRecoverable, Resume
  <1>2. ~Crash
    BY DEF Crash, TypeOK
  <1>3. CASE (\E q \in Queries : QueryStep(q)) \/ Environment \/ UNCHANGED vars
    BY <1>3, NobodyMoves
      DEF QueryStep, Resolve, Load, Environment, SetRetention, Tick, storeVars, procVars, vars
  <1> QED
    BY <1>1, <1>2, <1>3, CallerFlight, WorkerFlight DEF Next

\* A first start whose recovery found nothing.
LEMMA InitFlight ==
  SettledInit => TypeOK /\ FlightInv
  <1> SUFFICES ASSUME SettledInit PROVE TypeOK /\ FlightInv
    OBVIOUS
  <1>1. TypeOK
    BY InitType DEF SettledInit
  <1>2. /\ queue = <<>> /\ worker = IdleWorker /\ recovery = [pc |-> "send", todo |-> {}]
        /\ callers = [c \in Callers |-> Idle]
    BY DEF SettledInit, InitWith
  <1>3. FlightInv
    BY <1>2 DEF FlightInv, NoRecovery, CallersPending, QueuePending, WorkerKnows, CallersApart,
      QueueApart, CallersNotInQueue, WorkerApart, IsRunning, Sending, Idle, IdleWorker
  <1> QED
    BY <1>1, <1>3

\* In every state reached without a restart, once recovery is over.
LEMMA FlightHolds ==
  ASSUME MaxCrashes = 0
  PROVE  SettledSpec => [](TypeOK /\ FlightInv)
  <1>1. TypeOK /\ FlightInv /\ [Next]_vars => (TypeOK /\ FlightInv)'
    BY StepType, StepFlight
  <1> QED
    BY <1>1, InitFlight, PTL DEF SettledSpec

-----------------------------------------------------------------------------
(* No commit is in the hands of two tasks. *)

\* A set in which any two members are equal has at most one.
LEMMA AtMostOne ==
  ASSUME NEW S, \A x, y \in S : x = y
  PROVE  Cardinality(S) \in {0, 1} /\ (S = {} => Cardinality(S) = 0)
  <1>1. CASE S = {}
    BY <1>1, FS_EmptySet
  <1>2. CASE S # {}
    <2>1. PICK x \in S : TRUE
      BY <1>2
    <2>2. S = {x}
      BY <2>1
    <2> QED
      BY <2>2, <1>2, FS_Singleton
  <1> QED
    BY <1>1, <1>2

\* What the invariant says, counted.
LEMMA FlightIsSingle ==
  ASSUME TypeOK, FlightInv
  PROVE  SingleFlight
  <1> SUFFICES ASSUME NEW k \in Keys
      PROVE Cardinality({c \in Callers : callers[c].pc \in {"send", "full"} /\ callers[c].job = k})
              + Cardinality({i \in 1..Len(queue) : queue[i] = k})
              + Cardinality({t \in recovery.todo : t.key = k})
              + (IF worker.job = k THEN 1 ELSE 0) <= 1
    BY DEF SingleFlight
  <1> DEFINE C == {c \in Callers : callers[c].pc \in {"send", "full"} /\ callers[c].job = k}
             Q == {i \in 1..Len(queue) : queue[i] = k}
             R == {t \in recovery.todo : t.key = k}
  <1>1. Cardinality(C) \in {0, 1} /\ (C = {} => Cardinality(C) = 0)
    <2>1. \A x, y \in C : x = y
      BY DEF FlightInv, CallersApart, Sending
    <2> QED
      BY <2>1, AtMostOne
  <1>2. Cardinality(Q) \in {0, 1} /\ (Q = {} => Cardinality(Q) = 0)
    <2>1. \A x, y \in Q : x = y
      BY DEF FlightInv, QueueApart
    <2> QED
      BY <2>1, AtMostOne
  <1>3. Cardinality(R) = 0
    <2>1. R = {}
      BY DEF FlightInv, NoRecovery
    <2> QED
      BY <2>1, FS_EmptySet
  <1>4. C = {} \/ Q = {}
    BY DEF FlightInv, CallersNotInQueue, Sending
  <1>5. worker.job = k => C = {} /\ Q = {}
    <2> SUFFICES ASSUME worker.job = k PROVE C = {} /\ Q = {}
      OBVIOUS
    <2>1. worker.pc \in {"claim", "build", "ready", "failed"}
      BY IndexerAssumption DEF FlightInv, WorkerKnows, TypeOK
    <2>2. CASE worker.pc = "claim"
      BY <2>2 DEF FlightInv, WorkerApart, Sending
    <2>3. CASE IsRunning
      BY <2>3 DEF FlightInv, WorkerKnows, CallersPending, QueuePending, Sending
    <2> QED
      BY <2>1, <2>2, <2>3 DEF IsRunning
  <1> HIDE DEF C, Q, R
  <1>6. Cardinality(C) + Cardinality(Q) + Cardinality(R) + (IF worker.job = k THEN 1 ELSE 0) <= 1
    BY <1>1, <1>2, <1>3, <1>4, <1>5
  <1> QED
    BY <1>6 DEF C, Q, R

\* After a quiet start and without restarts, no commit is twice in the channel or
\* in the hands of two tasks: already queued commits produce no extra work.
THEOREM SingleFlightAlways ==
  ASSUME MaxCrashes = 0
  PROVE  SettledSpec => []SingleFlight
  BY FlightHolds, FlightIsSingle, PTL

-----------------------------------------------------------------------------
(* The indexer implements the service: each step does what one of the       *)
(* service's steps does, or nothing the service tells apart.                *)

\* The service's Cardinality is that of FiniteSets.
LEMMA SameSize == \A S : Service!Cardinality(S) = Cardinality(S)
  BY DEF Service!Cardinality, Cardinality

\* What each of the service's steps is.
LEMMA IsServiceStep ==
  ASSUME NEW k \in Keys,
         Service!Ask(k) \/ Service!Drop(k) \/ Service!Start(k) \/ Service!Finish(k) \/ Service!Fail(k)
  PROVE  Service!ServiceNext
  BY DEF Service!ServiceNext, Service!Commits, Keys

\* Steps that change no commit's state and do not begin or end a build.
LEMMA Unseen ==
  ASSUME UNCHANGED RunningJob, \A k \in Keys : commits'[k].state = commits[k].state
  PROVE  UNCHANGED Service!serviceVars
  BY DEF Service!serviceVars, Waiting, Indexed, Failed, Queued, Ready

\* enqueue of a commit that is new or has failed is Ask, any other is unseen.
LEMMA EnqueueImplements ==
  ASSUME TypeOK, FlightInv, NEW c \in Callers, NEW k \in Keys, Enqueue(c, k)
  PROVE  Service!Ask(k) \/ UNCHANGED Service!serviceVars
  <1>1. UNCHANGED RunningJob
    BY DEF Enqueue, RunningJob, IsRunning
  <1>2. CASE ~NeedsIndexing(k)
    BY <1>1, <1>2, Unseen DEF Enqueue, StoreEnqueue
  <1>3. CASE NeedsIndexing(k)
    <2>1. /\ commits'[k].state = "Pending"
          /\ \A j \in Keys \ {k} : commits'[j] = commits[j]
      BY <1>3 DEF Enqueue, StoreEnqueue, TypeOK, StoreTypeOK, Entry
    <2>2. ~Queued(k) /\ ~Ready(k)
      BY <1>3 DEF NeedsIndexing, Queued, Ready
    <2>3. RunningJob # k
      BY <2>2, IndexerAssumption DEF RunningJob, IsRunning, FlightInv, WorkerKnows, Queued
    <2>4. Waiting' = Waiting \cup {k}
      BY <1>1, <2>1, <2>3 DEF Waiting, Queued
    <2>5. Failed' = Failed \ {k} /\ Indexed' = Indexed
      BY <2>1, <2>2 DEF Failed, Indexed, Ready
    <2> QED
      BY <1>1, <2>2, <2>3, <2>4, <2>5
        DEF Service!Ask, Waiting, Failed, Indexed
  <1> QED
    BY <1>2, <1>3

\* A full channel is Drop; the caller's other steps are unseen.
LEMMA CallerImplements ==
  ASSUME TypeOK, FlightInv, NEW c \in Callers, CallerStep(c)
  PROVE  Service!ServiceNext \/ UNCHANGED Service!serviceVars
  <1>1. CASE TrySend(c) \/ TrySendFull(c) \/ ReadBack(c)
    <2>1. UNCHANGED <<commits, worker>>
      BY <1>1 DEF TrySend, TrySendFull, ReadBack, storeVars
    <2> QED
      BY <2>1, Unseen DEF RunningJob, IsRunning
  <1>2. CASE MarkDropped(c)
    <2> DEFINE k == callers[c].job
    <2>1. k \in Keys /\ Sending(c) /\ UNCHANGED worker
      BY <1>2 DEF MarkDropped, TypeOK, Sending
    <2>2. commits[k].state = "Pending"
      BY <2>1 DEF FlightInv, CallersPending
    <2>3. /\ commits'[k].state = "Failed"
          /\ \A j \in Keys \ {k} : commits'[j] = commits[j]
      BY <1>2, <2>1, <2>2 DEF MarkDropped, StoreMarkFailed, Tracked, TypeOK, StoreTypeOK, Entry
    <2>4. RunningJob # k /\ UNCHANGED RunningJob
      BY <2>1, <2>2, IndexerAssumption DEF RunningJob, IsRunning, FlightInv, WorkerKnows
    <2>5. Waiting' = Waiting \ {k} /\ k \in Waiting
      BY <2>1, <2>2, <2>3, <2>4 DEF Waiting, Queued
    <2>6. Failed' = Failed \cup {k} /\ Indexed' = Indexed
      BY <2>1, <2>2, <2>3 DEF Failed, Indexed, Ready
    <2>7. PICK j \in Keys : j = k
      BY <2>1
    <2>8. Service!Drop(j)
      BY <2>4, <2>5, <2>6, <2>7 DEF Service!Drop, Waiting, Failed, Indexed
    <2> QED
      BY <2>8, IsServiceStep
  <1> QED
    BY <1>1, <1>2, EnqueueImplements, IsServiceStep DEF CallerStep

\* mark_in_progress is Start, unless its flush fails.
LEMMA ClaimImplements ==
  ASSUME TypeOK, FlightInv, Claim
  PROVE  Service!ServiceNext \/ UNCHANGED Service!serviceVars
  <1> DEFINE k == worker.job
  <1>1. k \in Keys /\ worker.pc = "claim" /\ commits[k].state = "Pending"
    BY DEF Claim, TypeOK, FlightInv, WorkerKnows
  <1>2. /\ commits'[k].state = "InProgress"
        /\ \A j \in Keys \ {k} : commits'[j] = commits[j]
    BY <1>1 DEF Claim, StoreMarkInProgress, Tracked, TypeOK, StoreTypeOK, Entry
  <1>3. RunningJob = NoJob /\ NoJob # k /\ NoJob \notin Keys
    BY <1>1, IndexerAssumption DEF RunningJob, IsRunning
  <1>4. Indexed' = Indexed /\ Failed' = Failed
    BY <1>1, <1>2 DEF Indexed, Failed, Ready
  <1>5. \A j \in Keys : Queued(j)' <=> Queued(j)
    BY <1>1, <1>2 DEF Queued
  <1>6. CASE worker' = IdleWorker
    <2>1. RunningJob' = NoJob
      BY <1>6 DEF RunningJob, IsRunning, IdleWorker
    <2> QED
      BY <1>3, <1>4, <1>5, <2>1 DEF Service!serviceVars, Waiting
  <1>7. CASE worker' = [worker EXCEPT !.pc = "build"]
    <2>1. RunningJob' = k
      BY <1>7 DEF RunningJob, IsRunning, TypeOK
    <2>2. k \in Waiting /\ Waiting' = Waiting \ {k}
      BY <1>1, <1>3, <1>5, <2>1 DEF Waiting, Queued
    <2>3. Service!Start(k)
      BY <1>3, <1>4, <2>1, <2>2
        DEF Service!Start, Waiting, Failed, Indexed
    <2> QED
      BY <1>1, <2>3, IsServiceStep
  <1> QED
    BY <1>6, <1>7 DEF Claim

\* Retention keeps at least one index of the repository and at most MaxRetention.
LEMMA RetentionKeepsSome ==
  ASSUME NEW S, IsFiniteSet(S), S # {}, NEW n \in 1..MaxRetention, NEW c,
         NEW T \in Newest(S, n, c)
  PROVE  T # {} /\ T \subseteq S /\ Cardinality(T) <= MaxRetention
  <1>1. T \subseteq S /\ ((T = S /\ Cardinality(S) <= n) \/ Cardinality(T) = n)
    BY DEF Newest
  <1>2. Cardinality(S) \in Nat /\ MaxRetention \in Nat
    BY FS_CardinalityType, StoreAssumption
  <1>3. CASE T = S /\ Cardinality(S) <= n
    BY <1>2, <1>3
  <1>4. CASE Cardinality(T) = n
    BY <1>1, <1>2, <1>4, FS_EmptySet
  <1> QED
    BY <1>1, <1>3, <1>4

\* mark_ready, retention included, is Finish, whether or not it is flushed.
LEMMA ReadyImplements ==
  ASSUME IsFiniteSet(Keys), TypeOK, FlightInv, MarkReady
  PROVE  Service!ServiceNext
  <1> DEFINE k == worker.job
             done == Completed(k)
             ready == ReadyOf(k[1], done)
  <1>1. k \in Keys /\ IsRunning /\ commits[k].state = "InProgress" /\ StoreMarkReady(k)
    BY DEF MarkReady, TypeOK, FlightInv, WorkerKnows, IsRunning
  <1>2. /\ done[k].state = "Ready"
        /\ \A j \in Keys \ {k} : done[j] = commits[j]
    BY <1>1 DEF Completed, Tracked, TypeOK, StoreTypeOK, Entry
  <1>3. ready = {j \in Indexed \cup {k} : j[1] = k[1]}
    BY <1>1, <1>2 DEF ReadyOf, Indexed, Ready
  <1>4. PICK kept \in Newest(ready, retention, done) :
          commits' = [j \in Keys |-> IF j \in ready \ kept THEN NoEntry ELSE done[j]]
    BY <1>1 DEF StoreMarkReady
  <1>5. kept # {} /\ kept \subseteq ready /\ Cardinality(kept) <= MaxRetention
    <2>1. IsFiniteSet(ready) /\ ready # {}
      BY <1>1, <1>2, FS_Subset DEF ReadyOf
    <2>2. retention \in 1..MaxRetention
      BY DEF TypeOK, StoreTypeOK
    <2> HIDE DEF ready, done
    <2> QED
      BY <1>4, <2>1, <2>2, RetentionKeepsSome
  <1>6. RunningJob = k /\ RunningJob' = NoJob /\ NoJob \notin Keys
    <2>1. worker'.pc \in {"recv", "unlink"}
      BY DEF MarkReady, IdleWorker
    <2> QED
      BY <1>1, <2>1, IndexerAssumption DEF RunningJob, IsRunning
  <1>7. \A j \in Keys : commits'[j].state =
          IF j \in ready \ kept THEN "Absent"
          ELSE IF j = k THEN "Ready" ELSE commits[j].state
    BY <1>2, <1>4 DEF NoEntry
  <1>8. \A j \in ready : j = k \/ commits[j].state = "Ready"
    BY <1>3 DEF Indexed, Ready
  <1> HIDE DEF done, ready
  <1>9. Waiting' = Waiting /\ Failed' = Failed
    BY <1>1, <1>6, <1>7, <1>8 DEF Waiting, Failed, Queued
  <1>10. Indexed' = kept \cup (Indexed \ {j \in Indexed : j[1] = k[1]})
    BY <1>1, <1>3, <1>5, <1>7 DEF Indexed, Ready
  <1>11. Service!Finish(k)
    BY <1>3, <1>5, <1>6, <1>9, <1>10, SameSize
      DEF Service!Finish, Service!Of, Waiting, Failed, Indexed
  <1> QED
    BY <1>1, <1>11, IsServiceStep

\* mark_failed is Fail.
LEMMA FailedImplements ==
  ASSUME TypeOK, FlightInv, MarkFailed
  PROVE  Service!ServiceNext
  <1> DEFINE k == worker.job
  <1>1. /\ k \in Keys /\ IsRunning /\ commits[k].state = "InProgress"
        /\ StoreMarkFailed(k) /\ worker' = IdleWorker
    BY DEF MarkFailed, TypeOK, FlightInv, WorkerKnows, IsRunning
  <1>2. /\ commits'[k].state = "Failed"
        /\ \A j \in Keys \ {k} : commits'[j] = commits[j]
    BY <1>1 DEF StoreMarkFailed, Tracked, TypeOK, StoreTypeOK, Entry
  <1>3. RunningJob = k /\ RunningJob' = NoJob /\ NoJob \notin Keys
    BY <1>1, IndexerAssumption DEF RunningJob, IsRunning, IdleWorker
  <1>4. Waiting' = Waiting /\ Indexed' = Indexed
    BY <1>1, <1>2, <1>3 DEF Waiting, Indexed, Queued, Ready
  <1>5. Failed' = Failed \cup {k}
    BY <1>1, <1>2 DEF Failed
  <1>6. PICK j \in Keys : j = k
    BY <1>1
  <1>7. Service!Fail(j)
    BY <1>3, <1>4, <1>5, <1>6
      DEF Service!Fail, Waiting, Failed, Indexed
  <1> QED
    BY <1>7, IsServiceStep

\* The worker's other steps are unseen.
LEMMA WorkerImplements ==
  ASSUME IsFiniteSet(Keys), TypeOK, FlightInv, WorkerStep
  PROVE  Service!ServiceNext \/ UNCHANGED Service!serviceVars
  <1>1. CASE Recv
    <2>1. UNCHANGED commits /\ worker.pc = "recv" /\ worker'.pc = "claim"
      BY <1>1 DEF Recv, storeVars, TypeOK
    <2> QED
      BY <2>1, Unseen DEF RunningJob, IsRunning
  <1>2. CASE BuildSucceeds \/ BuildFails
    <2>1. /\ UNCHANGED commits /\ worker.pc = "build" /\ worker'.job = worker.job
          /\ worker'.pc \in {"ready", "failed"}
      BY <1>2 DEF BuildSucceeds, BuildFails, storeVars, TypeOK
    <2> QED
      BY <2>1, Unseen DEF RunningJob, IsRunning
  <1>3. ASSUME NEW f \in worker.ripe, Unlink(f)
        PROVE  UNCHANGED Service!serviceVars
    <2>1. UNCHANGED commits /\ worker.pc = "unlink" /\ worker'.pc \in {"recv", "unlink"}
      BY <1>3 DEF Unlink, IdleWorker, TypeOK
    <2> QED
      BY <2>1, Unseen DEF RunningJob, IsRunning
  <1> QED
    BY <1>1, <1>2, <1>3, ClaimImplements, ReadyImplements, FailedImplements DEF WorkerStep

\* Every step of the indexer is a step of the service or leaves it as it is.
LEMMA StepImplements ==
  ASSUME IsFiniteSet(Keys), MaxCrashes = 0, TypeOK, FlightInv, [Next]_vars
  PROVE  [Service!ServiceNext]_Service!serviceVars
  <1>1. ~TakeRecoverable /\ ~Resume
    BY DEF FlightInv, NoRecovery, TakeRecoverable, Resume
  <1>2. ~Crash
    BY DEF Crash, TypeOK
  <1>3. CASE (\E q \in Queries : QueryStep(q)) \/ Environment \/ UNCHANGED vars
    <2>1. UNCHANGED <<commits, worker>>
      BY <1>3 DEF QueryStep, Resolve, Load, Environment, SetRetention, Tick, storeVars,
                  procVars, vars
    <2> QED
      BY <2>1, Unseen DEF RunningJob, IsRunning
  <1> QED
    BY <1>1, <1>2, <1>3, CallerImplements, WorkerImplements DEF Next

\* Nothing is asked for, running, indexed or failed at a first start.
LEMMA InitImplements ==
  SettledInit => Service!ServiceInit
  <1> SUFFICES ASSUME SettledInit PROVE Service!ServiceInit
    OBVIOUS
  <1>1. worker = IdleWorker /\ commits = [k \in Keys |-> NoEntry]
    BY DEF SettledInit, InitWith, StoreInit
  <1>2. RunningJob = NoJob
    BY <1>1 DEF RunningJob, IsRunning, IdleWorker
  <1> QED
    BY <1>1, <1>2 DEF Service!ServiceInit, Waiting, Indexed, Failed, Queued, Ready,
                         NoEntry

\* After a quiet start and without restarts, the indexer is the service it
\* promises: a commit is taken on once, built while nobody else's build runs, and
\* retention always leaves its repository an index.
THEOREM IndexerImplementsService ==
  ASSUME MaxCrashes = 0, IsFiniteSet(Keys)
  PROVE  SettledSpec => ImplementsService
  <1>1. TypeOK /\ FlightInv /\ [Next]_vars => [Service!ServiceNext]_Service!serviceVars
    BY StepImplements
  <1> QED
    BY <1>1, InitImplements, FlightHolds, PTL
      DEF SettledSpec, ImplementsService, Service!ServiceSpec

-----------------------------------------------------------------------------
(***************************************************************************)
(* What retention does.  NewestSurvives is about the step of mark_ready;   *)
(* a restart could bring an evicted commit's older entries back, or take   *)
(* one away, only where memory and state file differ, that is after a      *)
(* failing write.                                                          *)
(***************************************************************************)

\* The state file says what memory says, unless a write has failed.
FileFollows == faults = 0 => disk = Image(commits, lastSha, pendingUnlink)

\* No evicted commit was enqueued after one that is Ready in the end.
EvictsOldest ==
  \A j, k \in Keys :
    /\ j[1] = k[1]
    /\ Tracked(j) /\ commits'[j].state = "Absent"
    /\ commits'[k].state = "Ready"
    => commits'[k].enqueuedAt >= commits[j].enqueuedAt

\* A write that succeeds makes the file follow; one that fails is counted.
LEMMA FlushFollows ==
  ASSUME TypeOK, Flushed \/ FlushError
  PROVE  FileFollows'
  <1>1. CASE Flushed
    BY <1>1 DEF Flushed, FileFollows, Image
  <1>2. CASE FlushError
    <2>1. faults' # 0
      BY <1>2 DEF FlushError, Fault, TypeOK, StoreTypeOK
    <2> QED
      BY <2>1 DEF FileFollows
  <1> QED
    BY <1>1, <1>2

\* Every step keeps the file up to date.
LEMMA StepFollows ==
  ASSUME TypeOK, FileFollows, [Next]_vars
  PROVE  FileFollows'
  <1>1. ASSUME UNCHANGED stateVars
        PROVE  FileFollows'
    <2>1. faults' = 0 => faults = 0
      BY FaultsGrow
    <2> QED
      BY <1>1, <2>1 DEF FileFollows, stateVars, Image
  <1>2. ASSUME NEW c \in Callers, CallerStep(c)
        PROVE  FileFollows'
    BY <1>1, <1>2, FlushFollows
      DEF CallerStep, Enqueue, TrySend, TrySendFull, MarkDropped, ReadBack, storeVars, stateVars
  <1>3. ASSUME WorkerStep
        PROVE  FileFollows'
    <2>1. ASSUME NEW f \in worker.ripe, Unlink(f)
          PROVE  UNCHANGED stateVars
      BY <2>1 DEF Unlink, stateVars
    <2> QED
      BY <1>1, <1>3, <2>1, FlushFollows
        DEF WorkerStep, Recv, Claim, BuildSucceeds, BuildFails, MarkReady, MarkFailed, storeVars, stateVars
  <1>4. ASSUME TakeRecoverable \/ Resume
        PROVE  FileFollows'
    BY <1>1, <1>4, FlushFollows
      DEF TakeRecoverable, StoreTakeRecoverable, Resume, storeVars, stateVars
  <1>5. CASE Crash
    <2>1. /\ commits' = disk.commits /\ lastSha' = disk.lastSha
          /\ pendingUnlink' = disk.pendingUnlink /\ disk' = disk
      BY <1>5 DEF Crash, StoreReload
    <2>2. disk = Image(disk.commits, disk.lastSha, disk.pendingUnlink)
      BY DEF TypeOK, StoreTypeOK, StateImage, Image
    <2> QED
      BY <2>1, <2>2 DEF FileFollows, Image
  <1>6. CASE (\E q \in Queries : QueryStep(q)) \/ Environment \/ UNCHANGED vars
    BY <1>1, <1>6
      DEF QueryStep, Resolve, Load, Environment, SetRetention, Tick, storeVars, stateVars, vars
  <1> QED
    BY <1>2, <1>3, <1>4, <1>5, <1>6 DEF Next

\* mark_ready keeps the commits of the repository that were enqueued last.
LEMMA MarkReadyEvictsOldest ==
  ASSUME TypeOK, MarkReady
  PROVE  EvictsOldest
  <1> DEFINE w == worker.job
             done == Completed(w)
             ready == ReadyOf(w[1], done)
  <1>1. w \in Keys /\ commits \in [Keys -> Entry]
    BY DEF MarkReady, TypeOK, StoreTypeOK
  <1>2. PICK kept \in Newest(ready, retention, done) :
          commits' = [j \in Keys |-> IF j \in ready \ kept THEN NoEntry ELSE done[j]]
    BY DEF MarkReady, StoreMarkReady
  <1>3. \A j \in Keys : /\ done[j].enqueuedAt = commits[j].enqueuedAt
                        /\ done[j].state = "Absent" <=> ~Tracked(j)
    BY <1>1 DEF Completed, Tracked, Entry
  <1>4. \A t \in kept, u \in ready \ kept : done[t].enqueuedAt >= done[u].enqueuedAt
    BY <1>2 DEF Newest
  <1>5. ready \subseteq Keys /\ \A j \in Keys : j \in ready <=> j[1] = w[1] /\ done[j].state = "Ready"
    BY DEF ReadyOf
  <1> HIDE DEF done, ready
  <1>6. SUFFICES ASSUME NEW j \in Keys, NEW k \in Keys, j[1] = k[1],
                        Tracked(j), commits'[j].state = "Absent",
                        commits'[k].state = "Ready"
                 PROVE  commits'[k].enqueuedAt >= commits[j].enqueuedAt
    BY DEF EvictsOldest
  <1>7. j \in ready \ kept
    BY <1>2, <1>3, <1>6
  <1>8. commits'[k] = done[k] /\ done[k].state = "Ready"
    BY <1>2, <1>6 DEF NoEntry
  <1>9. k \in kept
    BY <1>2, <1>5, <1>6, <1>7, <1>8 DEF NoEntry
  <1> QED
    BY <1>3, <1>4, <1>7, <1>8, <1>9

\* Nothing but mark_ready takes a commit off the list.
LEMMA StepEvictsOldest ==
  ASSUME MaxFaults = 0 \/ MaxCrashes = 0, TypeOK, FileFollows, [Next]_vars
  PROVE  EvictsOldest
  <1>0. commits \in [Keys -> Entry]
    BY DEF TypeOK, StoreTypeOK
  <1>1. ASSUME \A j \in Keys : Tracked(j) => commits'[j].state # "Absent"
        PROVE  EvictsOldest
    BY <1>1 DEF EvictsOldest
  <1>2. ASSUME UNCHANGED commits
        PROVE  EvictsOldest
    BY <1>1, <1>2 DEF Tracked
  <1>3. ASSUME NEW c \in Callers, CallerStep(c)
        PROVE  EvictsOldest
    <2>1. CASE \E k \in Keys : Enqueue(c, k)
      BY <1>0, <1>1, <2>1 DEF Enqueue, StoreEnqueue, Tracked, Entry
    <2>2. CASE MarkDropped(c)
      BY <1>0, <1>1, <2>2 DEF MarkDropped, StoreMarkFailed, Tracked, Entry
    <2> QED
      BY <1>2, <1>3, <2>1, <2>2 DEF CallerStep, TrySend, TrySendFull, ReadBack, storeVars
  <1>4. ASSUME WorkerStep
        PROVE  EvictsOldest
    <2>1. CASE Claim
      BY <1>0, <1>1, <2>1 DEF Claim, StoreMarkInProgress, Tracked, Entry
    <2>2. CASE MarkFailed
      BY <1>0, <1>1, <2>2 DEF MarkFailed, StoreMarkFailed, Tracked, Entry
    <2>3. CASE \E f \in worker.ripe : Unlink(f)
      BY <1>2, <2>3 DEF Unlink
    <2> QED
      BY <1>2, <1>4, <2>1, <2>2, <2>3, MarkReadyEvictsOldest
        DEF WorkerStep, Recv, BuildSucceeds, BuildFails, storeVars
  <1>5. CASE TakeRecoverable
    <2>1. \A j \in Keys : Tracked(j) => commits'[j].state # "Absent"
      BY <1>0, <1>5 DEF TakeRecoverable, StoreTakeRecoverable, Tracked, Entry
    <2> QED
      BY <1>1, <2>1
  <1>6. CASE Crash
    <2>1. faults = 0
      BY <1>6 DEF Crash, TypeOK, StoreTypeOK
    <2>2. commits' = commits
      BY <1>6, <2>1 DEF FileFollows, Image, Crash, StoreReload
    <2> QED
      BY <1>2, <2>2
  <1>7. CASE Resume \/ (\E q \in Queries : QueryStep(q)) \/ Environment \/ UNCHANGED vars
    BY <1>2, <1>7
      DEF Resume, QueryStep, Resolve, Load, Environment, SetRetention, Tick, storeVars, vars
  <1> QED
    BY <1>3, <1>4, <1>5, <1>6, <1>7 DEF Next

\* However the builds finish, mark_ready never evicts a commit that was enqueued
\* after one it keeps; a restart evicts nothing either, unless a write has failed.
THEOREM NewestAlwaysSurvives ==
  ASSUME MaxFaults = 0 \/ MaxCrashes = 0
  PROVE  Spec \/ SettledSpec => NewestSurvives
  <1>1. Init \/ SettledInit => TypeOK /\ FileFollows
    <2>1. ASSUME Init \/ SettledInit
          PROVE  TypeOK /\ FileFollows
      BY <2>1, InitType DEF Init, SettledInit, InitWith, StoreInit, FileFollows
    <2> QED
      BY <2>1
  <1>2. TypeOK /\ FileFollows /\ [Next]_vars => (TypeOK /\ FileFollows)' /\ EvictsOldest
    BY StepType, StepFollows, StepEvictsOldest
  <1>3. EvictsOldest =>
          [\A j, k \in Keys :
             /\ j[1] = k[1]
             /\ Tracked(j) /\ commits'[j].state = "Absent"
             /\ commits'[k].state = "Ready"
             => commits'[k].enqueuedAt >= commits[j].enqueuedAt]_vars
    BY DEF EvictsOldest
  <1> QED
    BY <1>1, <1>2, <1>3, PTL DEF Spec, SettledSpec, NewestSurvives

-----------------------------------------------------------------------------
(***************************************************************************)
(* No file is leaked.  A file is in the worker's hands, stashed, or that   *)
(* of a tracked commit: a build is that of an InProgress commit            *)
(* (FlightInv), and an evicted commit's file goes to the stash, from there *)
(* to the worker, and is deleted.                                          *)
(***************************************************************************)

OrphanInv ==
  /\ worker.pc # "unlink" => worker.ripe = {}
  /\ faults = 0 => NoOrphanFile

\* A step of the worker.
LEMMA WorkerOrphans ==
  ASSUME TypeOK, FlightInv, OrphanInv, WorkerStep
  PROVE  OrphanInv'
  <1>0. commits \in [Keys -> Entry] /\ worker.ripe \subseteq Files
    BY DEF TypeOK, StoreTypeOK
  <1>1. ASSUME files' \subseteq files, pendingUnlink' = pendingUnlink, worker'.ripe = worker.ripe,
               \A k \in Keys : Tracked(k) => Tracked(k)', NoOrphanFile
        PROVE  NoOrphanFile'
    BY <1>1 DEF NoOrphanFile, File
  <1>2. faults' = 0 => faults = 0
    BY FaultsGrow DEF Next
  <1>3. CASE Recv
    <2>1. worker.pc # "unlink" /\ worker'.ripe = worker.ripe /\ UNCHANGED <<commits, pendingUnlink, files, faults>>
      BY <1>3 DEF Recv, storeVars, TypeOK
    <2> QED
      BY <1>1, <2>1 DEF OrphanInv, Tracked
  <1>4. CASE Claim \/ MarkFailed
    <2>1. /\ worker.pc # "unlink" /\ worker.ripe = {} /\ worker'.ripe = {}
          /\ UNCHANGED <<pendingUnlink, files>>
      BY <1>4 DEF Claim, MarkFailed, StoreMarkInProgress, StoreMarkFailed, OrphanInv, IdleWorker, TypeOK
    <2>2. \A k \in Keys : Tracked(k) => Tracked(k)'
      BY <1>0, <1>4 DEF Claim, MarkFailed, StoreMarkInProgress, StoreMarkFailed, Tracked, Entry
    <2> QED
      BY <1>1, <1>2, <2>1, <2>2 DEF OrphanInv
  <1>5. CASE BuildSucceeds \/ BuildFails
    <2>1. /\ worker.pc = "build" /\ worker.ripe = {} /\ worker'.ripe = {} /\ worker.job \in Keys
          /\ files' \subseteq files \cup {File(worker.job)}
          /\ UNCHANGED <<commits, pendingUnlink, faults>>
      BY <1>5 DEF BuildSucceeds, BuildFails, storeVars, OrphanInv, TypeOK
    <2>2. Tracked(worker.job)
      BY <2>1 DEF FlightInv, WorkerKnows, IsRunning, Tracked
    <2>3. NoOrphanFile => NoOrphanFile'
      BY <2>1, <2>2 DEF NoOrphanFile, Tracked, File
    <2> QED
      BY <2>1, <2>3 DEF OrphanInv
  <1>6. CASE MarkReady
    <2> DEFINE w == worker.job
               done == Completed(w)
               ready == ReadyOf(w[1], done)
    <2>1. /\ worker.pc = "ready" /\ worker.ripe = {} /\ files' = files
          /\ worker'.pc # "unlink" => worker'.ripe = {}
      BY <1>6 DEF MarkReady, IdleWorker, OrphanInv
    <2>2. PICK kept \in Newest(ready, retention, done) :
            /\ commits' = [j \in Keys |-> IF j \in ready \ kept THEN NoEntry ELSE done[j]]
            /\ pendingUnlink' = Stash(ready \ kept)
      BY <1>6 DEF MarkReady, StoreMarkReady
    <2>3. \A j \in Keys : Tracked(j) => done[j].state # "Absent"
      BY <1>0 DEF Completed, Tracked, Entry
    <2> HIDE DEF done, ready
    <2>4. \A j \in Keys : Tracked(j) => Tracked(j)' \/ File(j) \in pendingUnlink'
      BY <2>2, <2>3 DEF Tracked, Stash
    <2>5. faults' = 0 => pendingUnlink \subseteq worker'.ripe
      <3>1. CASE FlushError
        BY <3>1 DEF FlushError, Fault, TypeOK, StoreTypeOK
      <3>2. CASE ~FlushError
        BY <1>6, <3>2 DEF MarkReady, Ripe
      <3> QED
        BY <3>1, <3>2
    <2>6. faults' = 0 => NoOrphanFile'
      <3>1. SUFFICES ASSUME faults' = 0, NEW f \in files
                     PROVE  \/ f \in (pendingUnlink \cup worker.ripe)'
                            \/ \E k \in Keys : File(k) = f /\ Tracked(k)'
        BY <2>1 DEF NoOrphanFile, File
      <3>2. f \in pendingUnlink \/ \E k \in Keys : File(k) = f /\ Tracked(k)
        BY <1>2, <2>1, <3>1 DEF OrphanInv, NoOrphanFile
      <3> QED
        BY <2>4, <2>5, <3>1, <3>2
    <2> QED
      BY <2>1, <2>6 DEF OrphanInv
  <1>7. ASSUME NEW f \in worker.ripe, Unlink(f)
        PROVE  OrphanInv'
    <2>1. UNCHANGED <<commits, pendingUnlink>> /\ worker.pc = "unlink"
      BY <1>7 DEF Unlink
    <2>2. worker'.ripe = worker.ripe \ {f} /\ (worker'.pc # "unlink" => worker'.ripe = {})
      BY <1>7 DEF Unlink, IdleWorker, TypeOK
    <2>3. faults' = 0 => files' = files \ {f}
      BY <1>7 DEF Unlink, Fault, TypeOK, StoreTypeOK
    <2> QED
      BY <1>2, <2>1, <2>2, <2>3 DEF OrphanInv, NoOrphanFile, Tracked, File
  <1> QED
    BY <1>3, <1>4, <1>5, <1>6, <1>7 DEF WorkerStep

\* Without restarts, every step keeps the invariant.
LEMMA StepOrphans ==
  ASSUME MaxCrashes = 0, TypeOK, FlightInv, OrphanInv, [Next]_vars
  PROVE  OrphanInv'
  <1>0. commits \in [Keys -> Entry]
    BY DEF TypeOK, StoreTypeOK
  <1>1. ASSUME UNCHANGED <<pendingUnlink, worker, files>>, \A k \in Keys : Tracked(k) => Tracked(k)'
        PROVE  OrphanInv'
    <2>1. faults' = 0 => faults = 0
      BY FaultsGrow
    <2> QED
      BY <1>1, <2>1 DEF OrphanInv, NoOrphanFile, File
  <1>2. ~TakeRecoverable /\ ~Resume /\ ~Crash
    BY DEF FlightInv, NoRecovery, TakeRecoverable, Resume, Crash, TypeOK
  <1>3. ASSUME NEW c \in Callers, CallerStep(c)
        PROVE  OrphanInv'
    <2>1. UNCHANGED <<pendingUnlink, worker, files>>
      BY <1>3 DEF CallerStep, Enqueue, TrySend, TrySendFull, MarkDropped, ReadBack,
                  StoreEnqueue, StoreMarkFailed, storeVars
    <2>2. CASE \E k \in Keys : Enqueue(c, k)
      BY <1>0, <1>1, <2>1, <2>2 DEF Enqueue, StoreEnqueue, Tracked, Entry
    <2>3. CASE MarkDropped(c)
      BY <1>0, <1>1, <2>1, <2>3 DEF MarkDropped, StoreMarkFailed, Tracked, Entry
    <2>4. CASE UNCHANGED commits
      BY <1>1, <2>1, <2>4 DEF Tracked
    <2> QED
      BY <1>3, <2>2, <2>3, <2>4 DEF CallerStep, TrySend, TrySendFull, ReadBack, storeVars
  <1>4. CASE (\E q \in Queries : QueryStep(q)) \/ Environment \/ UNCHANGED vars
    BY <1>1, <1>4
      DEF QueryStep, Resolve, Load, Environment, SetRetention, Tick, storeVars, procVars, vars, Tracked
  <1> QED
    BY <1>2, <1>3, <1>4, WorkerOrphans DEF Next

\* After a quiet start and without restarts, every index file is that of a tracked
\* commit or will be deleted, as long as no file operation has failed.
THEOREM NoFileIsLeaked ==
  ASSUME MaxCrashes = 0
  PROVE  SettledSpec => [](faults = 0 => NoOrphanFile)
  <1>1. SettledInit => TypeOK /\ FlightInv /\ OrphanInv
    <2>1. SettledInit => OrphanInv
      BY DEF SettledInit, InitWith, IdleWorker, OrphanInv, NoOrphanFile
    <2> QED
      BY <2>1, InitFlight
  <1>2. TypeOK /\ FlightInv /\ OrphanInv /\ [Next]_vars => (TypeOK /\ FlightInv /\ OrphanInv)'
    BY StepType, StepFlight, StepOrphans
  <1>3. OrphanInv => (faults = 0 => NoOrphanFile)
    BY DEF OrphanInv
  <1> QED
    BY <1>1, <1>2, <1>3, PTL DEF SettledSpec
=============================================================================
