-------------------------------- MODULE Jobs --------------------------------
(***************************************************************************)
(* Commands run for tool calls (exec::run), the registry of those running, *)
(* and job_kill.  The operating system names processes by numbers that it  *)
(* reuses once a process has been waited for.  A child may leave a         *)
(* grandchild that keeps its output open.                                  *)
(***************************************************************************)
EXTENDS Naturals, FiniteSets, Common

CONSTANTS
  Execs,      \* calls of exec::run
  Killers,    \* calls of job_kill
  Pids,       \* process numbers
  Stranger    \* the owner of a process that is not a child of the server

ASSUME JobsAssumption ==
  /\ None \notin Execs \cup Pids \cup {Stranger} /\ Stranger \notin Execs
  /\ IsFiniteSet(Execs)

VARIABLES
  process,     \* per number: the run whose child has it, Stranger, or None
  exec,        \* per run: where it is, its child's number, its job's id
  child,       \* per run: none, running, exited, or reaped
  pipeOpen,    \* runs whose output some process still has open
  heartbeat,   \* runs whose heartbeat task is alive
  jobs,        \* the registry: number by id, None if not registered (0 is no id)
  counter,     \* the next id
  killer,      \* per job_kill: where it is, the id and number it is about
  struck       \* history: what signals have hit, and what they were meant for

jobsVars == <<process, exec, child, pipeOpen, heartbeat, jobs, counter, killer, struck>>

Ids == 1..Cardinality(Execs)
RunIs(r, pc) == exec[r].pc = pc
Advance(r, pc) == exec' = [exec EXCEPT ![r].pc = pc]

JobsInit ==
  /\ process = [p \in Pids |-> None]
  /\ exec = [r \in Execs |-> [pc |-> "new", pid |-> None, id |-> 0]]
  /\ child = [r \in Execs |-> "none"]
  /\ pipeOpen = {}
  /\ heartbeat = {}
  /\ jobs = [i \in Ids \cup {0} |-> None]
  /\ counter = 1
  /\ killer = [k \in Killers |-> [pc |-> "new", id |-> 0, pid |-> None]]
  /\ struck = {}

-----------------------------------------------------------------------------
(* exec::run *)

SpawnChild(r) ==
  /\ RunIs(r, "new")
  /\ \/ \E p \in Pids :
          /\ process[p] = None
          /\ process' = [process EXCEPT ![p] = r]
          /\ exec' = [exec EXCEPT ![r].pc = "register", ![r].pid = p]
          /\ child' = [child EXCEPT ![r] = "running"]
          /\ pipeOpen' = pipeOpen \cup {r}
     \/ /\ Advance(r, "done")
        /\ UNCHANGED <<process, child, pipeOpen>>
  /\ UNCHANGED <<heartbeat, jobs, counter, killer, struck>>

\* next_id
NextId == counter

\* build_job and register; a caller with a progress token gets a heartbeat.
RegisterJob(r) ==
  /\ RunIs(r, "register")
  /\ exec' = [exec EXCEPT ![r].pc = "wait", ![r].id = NextId]
  /\ jobs' = [jobs EXCEPT ![NextId] = exec[r].pid]
  /\ counter' = counter + 1
  /\ heartbeat' \in {heartbeat, heartbeat \cup {r}}
  /\ UNCHANGED <<process, child, pipeOpen, killer, struck>>

\* The child has exited and is waited for: its number is free.
ChildReaped(r) ==
  /\ RunIs(r, "wait") /\ child[r] = "exited"
  /\ child' = [child EXCEPT ![r] = "reaped"]
  /\ process' = [process EXCEPT ![exec[r].pid] = None]
  /\ heartbeat' = heartbeat \ {r}
  /\ Advance(r, "drain")
  /\ UNCHANGED <<pipeOpen, jobs, counter, killer, struck>>

\* Mutant: no timeout.
NeverTimesOutRun(r) == FALSE

\* The time is up: the child is killed, and waited for.
TimesOut(r) ==
  /\ RunIs(r, "wait") /\ child[r] = "running"
  /\ child' = [child EXCEPT ![r] = "reaped"]
  /\ process' = [process EXCEPT ![exec[r].pid] = None]
  /\ pipeOpen' \in {pipeOpen, pipeOpen \ {r}}
  /\ heartbeat' = heartbeat \ {r}
  /\ Advance(r, "drain")
  /\ UNCHANGED <<jobs, counter, killer, struck>>

\* Mutant: an error leaves the job registered.
WaitErrorKeepsJob(r) ==
  /\ RunIs(r, "wait")
  /\ heartbeat' = heartbeat \ {r}
  /\ Advance(r, "done")
  /\ UNCHANGED <<process, child, pipeOpen, jobs, counter, killer, struck>>

\* wait() fails: the call returns, the child is left alone.
WaitError(r) ==
  /\ RunIs(r, "wait")
  /\ heartbeat' = heartbeat \ {r}
  /\ jobs' = [jobs EXCEPT ![exec[r].id] = None]
  /\ Advance(r, "done")
  /\ UNCHANGED <<process, child, pipeOpen, counter, killer, struck>>

\* Both streams have ended.
Drained(r) == r \notin pipeOpen

Deregister(r) ==
  /\ RunIs(r, "drain") /\ Drained(r)
  /\ jobs' = [jobs EXCEPT ![exec[r].id] = None]
  /\ Advance(r, "done")
  /\ UNCHANGED <<process, child, pipeOpen, heartbeat, counter, killer, struck>>

ExecStep(r) == RegisterJob(r) \/ ChildReaped(r) \/ TimesOut(r) \/ Deregister(r)

-----------------------------------------------------------------------------
(* job_kill *)

GetJob(k, i) ==
  /\ killer[k].pc = "new"
  /\ killer' = [killer EXCEPT ![k] = [pc |-> IF jobs[i] = None THEN "done" ELSE "kill",
                                     id |-> i, pid |-> jobs[i]]]
  /\ UNCHANGED <<process, exec, child, pipeOpen, heartbeat, jobs, counter, struck>>

\* kill(2), without the lock: it hits whoever has the number now, and may end it.
SendSignal(k) ==
  LET hit == process[killer[k].pid] IN
  /\ killer[k].pc = "kill"
  /\ killer' = [killer EXCEPT ![k].pc = "done"]
  /\ struck' = struck \cup {[hit |-> hit, job |-> killer[k].id]}
  /\ child' \in {child} \cup {[child EXCEPT ![r] = "exited"] : r \in {hit} \cap Execs}
  /\ UNCHANGED <<process, exec, pipeOpen, heartbeat, jobs, counter>>

-----------------------------------------------------------------------------
(* The operating system *)

\* A child exits; what it has started may keep the output open.
ChildExits(r) ==
  /\ child[r] = "running"
  /\ child' = [child EXCEPT ![r] = "exited"]
  /\ pipeOpen' \in {pipeOpen, pipeOpen \ {r}}
  /\ UNCHANGED <<process, exec, heartbeat, jobs, counter, killer, struck>>

PipeCloses(r) ==
  /\ r \in pipeOpen /\ child[r] # "running"
  /\ pipeOpen' = pipeOpen \ {r}
  /\ UNCHANGED <<process, exec, child, heartbeat, jobs, counter, killer, struck>>

\* Another program starts.
StrangerStarts(p) ==
  /\ process[p] = None
  /\ process' = [process EXCEPT ![p] = Stranger]
  /\ UNCHANGED <<exec, child, pipeOpen, heartbeat, jobs, counter, killer, struck>>

JobsNext ==
  \/ \E r \in Execs : SpawnChild(r) \/ ExecStep(r) \/ WaitError(r) \/ ChildExits(r) \/ PipeCloses(r)
  \/ \E k \in Killers : SendSignal(k) \/ \E i \in Ids : GetJob(k, i)
  \/ \E p \in Pids : StrangerStarts(p)

\* tokio polls runnable tasks; every process that has the output ends some day.
JobsFairness == \A r \in Execs : WF_jobsVars(ExecStep(r)) /\ WF_jobsVars(PipeCloses(r))

-----------------------------------------------------------------------------
(* Properties *)

JobsTypeOK ==
  /\ process \in [Pids -> Execs \cup {Stranger, None}]
  /\ exec \in [Execs -> [pc : {"new", "register", "wait", "drain", "done"},
                         pid : Pids \cup {None}, id : Ids \cup {0}]]
  /\ child \in [Execs -> {"none", "running", "exited", "reaped"}]
  /\ pipeOpen \subseteq Execs /\ heartbeat \subseteq Execs
  /\ jobs \in [Ids \cup {0} -> Pids \cup {None}] /\ counter \in 1..(Cardinality(Execs) + 1)
  /\ killer \in [Killers -> [pc : {"new", "kill", "done"}, id : Ids \cup {0}, pid : Pids \cup {None}]]
  /\ struck \subseteq [hit : Execs \cup {Stranger, None}, job : Ids]

Owner(i) == {r \in Execs : exec[r].id = i}

\* The registry tells the truth: a job in it is that of a call in progress, a call
\* that has returned leaves neither job nor heartbeat behind, on any path, and a
\* signal hits the job it is meant for as long as that child has not been waited for.
RegistryIsTrue ==
  /\ \A i \in Ids : jobs[i] # None => \E r \in Owner(i) : exec[r].pid = jobs[i]
  /\ \A r \in Execs : RunIs(r, "done") => r \notin heartbeat /\ jobs[exec[r].id] = None
  /\ \A s \in struck : \A r \in Owner(s.job) : s.hit = r \/ child[r] = "reaped"

\* A call returns once the output of its command has closed, and by its timeout
\* if the command has left nothing behind.
ExecReturns == \A r \in Execs : RunIs(r, "wait") ~> RunIs(r, "done")
=============================================================================
