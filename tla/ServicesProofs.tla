--------------------------- MODULE ServicesProofs ---------------------------
(***************************************************************************)
(* What holds of the services of the tool server for any number of calls,  *)
(* names, paths, tools and notes.  Each of the services has a section:     *)
(* its inductive invariant, a lemma for every action, and what follows;    *)
(* the last section has the theorems.  The services share no variable, so  *)
(* what one does by itself is what it does in a behaviour of MCServices.   *)
(***************************************************************************)
EXTENDS MCServices, FiniteSetTheorems, TLAPS

-----------------------------------------------------------------------------
(* The background commands and their registry, for any number of runs,     *)
(* killers and process numbers                                             *)

ExecStates == [pc : {"new", "register", "wait", "drain", "done"}, pid : Pids \cup {None}, id : Ids \cup {0}]
KillStates == [pc : {"new", "kill", "done"}, id : Ids \cup {0}, pid : Pids \cup {None}]
Signals == [hit : Execs \cup {Stranger, None}, job : Ids]

\* A run, its child and the number its child has: a number is a run's only while the
\* run's child has not been waited for.
RunsFit(pr, ex, ch, hb) ==
  /\ \A r \in Execs : ex[r].pc \in {"new", "register"} => ex[r].id = 0 /\ r \notin hb
  /\ \A r \in Execs : ex[r].pc = "new" => ch[r] = "none"
  /\ \A r \in Execs : ex[r].pc \in {"drain", "done"} => r \notin hb
  /\ \A r \in Execs : ex[r].pc \in {"register", "wait", "drain"} => ex[r].pid \in Pids /\ ch[r] # "none"
  /\ \A r \in Execs : ex[r].pc \in {"wait", "drain"} => ex[r].id # 0
  /\ \A r \in Execs : ex[r].id # 0 => ch[r] # "none"
  /\ \A r \in Execs : ch[r] \in {"running", "exited"} => ex[r].pid \in Pids /\ pr[ex[r].pid] = r
  /\ \A p \in Pids : pr[p] \in Execs => ex[pr[p]].pid = p /\ ch[pr[p]] \in {"running", "exited"}

\* The registry and the counter: the ids given out are distinct and below the
\* counter, which has counted them; a job is that of a run that has not returned.
Numbered(ex) == {r \in Execs : ex[r].id # 0}
RegistryFits(ex, jb, ct) ==
  /\ jb[0] = None
  /\ ct = 1 + Cardinality(Numbered(ex))
  /\ \A r \in Execs : ex[r].id < ct
  /\ \A r, q \in Execs : ex[r].id = ex[q].id /\ ex[r].id # 0 => r = q
  /\ \A i \in Ids : jb[i] # None => \E r \in Execs : ex[r].id = i /\ ex[r].pid = jb[i]
  /\ \A r \in Execs : ex[r].pc = "done" => jb[ex[r].id] = None

\* The signals: one that is to be sent has the number of a run's child, and one that
\* has been sent has hit the child it was meant for, unless that was waited for.
SignalsFit(ex, ch, ct, kl, st) ==
  /\ \A k \in Killers : kl[k].pc = "kill" =>
       /\ kl[k].pid \in Pids
       /\ \E r \in Execs : ex[r].id = kl[k].id /\ ex[r].id # 0 /\ ex[r].pid = kl[k].pid
  /\ \A s \in st : s.job < ct
  /\ \A s \in st, r \in Execs : ex[r].id = s.job => s.hit = r \/ ch[r] = "reaped"

JobsInv ==
  /\ JobsTypeOK
  /\ RunsFit(process, exec, child, heartbeat)
  /\ RegistryFits(exec, jobs, counter)
  /\ SignalsFit(exec, child, counter, killer, struck)

\* The domains of the variables, named.
LEMMA JobsTypes ==
  JobsTypeOK <=>
    /\ process \in [Pids -> Execs \cup {Stranger, None}] /\ exec \in [Execs -> ExecStates]
    /\ child \in [Execs -> {"none", "running", "exited", "reaped"}]
    /\ pipeOpen \subseteq Execs /\ heartbeat \subseteq Execs
    /\ jobs \in [Ids \cup {0} -> Pids \cup {None}] /\ counter \in 1..(Cardinality(Execs) + 1)
    /\ killer \in [Killers -> KillStates] /\ struck \subseteq Signals
BY DEF JobsTypeOK, ExecStates, KillStates, Signals

\* The numbers of the runs, which the counter gives out.
LEMMA JobsNumbers ==
  /\ Cardinality(Execs) \in Nat /\ IsFiniteSet(Execs) /\ Ids \subseteq Nat /\ 0 \notin Ids
  /\ \A i \in Nat : i \in Ids <=> 1 <= i /\ i <= Cardinality(Execs)
  /\ None \notin Execs /\ None \notin Pids /\ Stranger \notin Execs
<1>1. Cardinality(Execs) \in Nat
  BY JobsAssumption, FS_CardinalityType
<1> QED
  BY <1>1, JobsAssumption DEF Ids

\* The parts of the invariant make it up.
LEMMA JobsJoin ==
  ASSUME process' \in [Pids -> Execs \cup {Stranger, None}], exec' \in [Execs -> ExecStates],
         child' \in [Execs -> {"none", "running", "exited", "reaped"}],
         pipeOpen' \subseteq Execs, heartbeat' \subseteq Execs,
         jobs' \in [Ids \cup {0} -> Pids \cup {None}], counter' \in 1..(Cardinality(Execs) + 1),
         killer' \in [Killers -> KillStates], struck' \subseteq Signals,
         RunsFit(process', exec', child', heartbeat'),
         RegistryFits(exec', jobs', counter'),
         SignalsFit(exec', child', counter', killer', struck')
  PROVE  JobsInv'
BY DEF JobsInv, JobsTypeOK, ExecStates, KillStates, Signals, Ids

\* The types and the conjuncts of the invariant, for use one by one.
LEMMA JobsFacts ==
  ASSUME JobsInv
  PROVE  /\ process \in [Pids -> Execs \cup {Stranger, None}] /\ exec \in [Execs -> ExecStates]
         /\ child \in [Execs -> {"none", "running", "exited", "reaped"}]
         /\ pipeOpen \subseteq Execs /\ heartbeat \subseteq Execs
         /\ jobs \in [Ids \cup {0} -> Pids \cup {None}] /\ counter \in 1..(Cardinality(Execs) + 1)
         /\ killer \in [Killers -> KillStates] /\ struck \subseteq Signals
         /\ RunsFit(process, exec, child, heartbeat)
         /\ RegistryFits(exec, jobs, counter)
         /\ SignalsFit(exec, child, counter, killer, struck)
BY JobsTypes DEF JobsInv

\* Nothing has been started.
LEMMA JobsStart == JobsInit => JobsInv
<1> SUFFICES ASSUME JobsInit PROVE JobsInv
  OBVIOUS
<1>1. exec \in [Execs -> ExecStates] /\ \A r \in Execs : exec[r].pc = "new" /\ exec[r].id = 0
  BY DEF JobsInit, ExecStates
<1>2. killer \in [Killers -> KillStates] /\ \A k \in Killers : killer[k].pc = "new"
  BY DEF JobsInit, KillStates
<1>3. process \in [Pids -> Execs \cup {Stranger, None}] /\ \A p \in Pids : process[p] = None
  BY DEF JobsInit
<1>4. child \in [Execs -> {"none", "running", "exited", "reaped"}] /\ \A r \in Execs : child[r] = "none"
  BY DEF JobsInit
<1>5. pipeOpen = {} /\ heartbeat = {} /\ struck = {} /\ counter = 1
  BY DEF JobsInit
<1>6. jobs \in [Ids \cup {0} -> Pids \cup {None}] /\ \A i \in Ids \cup {0} : jobs[i] = None
  BY DEF JobsInit
<1>7. Numbered(exec) = {} /\ Cardinality(Numbered(exec)) = 0
  <2>1. Numbered(exec) = {}
    BY <1>1 DEF Numbered
  <2> QED
    BY <2>1, FS_EmptySet
<1>8. counter \in 1..(Cardinality(Execs) + 1) /\ counter = 1 + Cardinality(Numbered(exec))
  BY <1>5, <1>7, JobsNumbers
<1>9. JobsTypeOK
  BY <1>1, <1>2, <1>3, <1>4, <1>5, <1>6, <1>8, JobsTypes
<1>10. RunsFit(process, exec, child, heartbeat)
  BY <1>1, <1>3, <1>4, <1>5, JobsNumbers DEF RunsFit
<1>11. RegistryFits(exec, jobs, counter)
  <2>1. \A r \in Execs : exec[r].id < counter
    BY <1>1, <1>5
  <2> QED
    BY <1>1, <1>6, <1>8, <2>1 DEF RegistryFits
<1>12. SignalsFit(exec, child, counter, killer, struck)
  BY <1>2, <1>5 DEF SignalsFit
<1> QED
  BY <1>9, <1>10, <1>11, <1>12 DEF JobsInv

\* The invariant says what the run checks.
LEMMA JobsTrue == JobsInv => RegistryIsTrue
<1> SUFFICES ASSUME JobsInv PROVE RegistryIsTrue
  OBVIOUS
<1>1. \A i \in Ids : jobs[i] # None => \E r \in Owner(i) : exec[r].pid = jobs[i]
  BY DEF JobsInv, RegistryFits, Owner
<1>2. \A r \in Execs : RunIs(r, "done") => r \notin heartbeat /\ jobs[exec[r].id] = None
  BY DEF JobsInv, RegistryFits, RunsFit, RunIs
<1>3. \A s \in struck : \A r \in Owner(s.job) : s.hit = r \/ child[r] = "reaped"
  BY DEF JobsInv, SignalsFit, Owner
<1> QED
  BY <1>1, <1>2, <1>3 DEF RegistryIsTrue

\* A run goes on without a new number or id: the registry and the signals see
\* nothing of it but that its child may have been waited for.
LEMMA JobsSame ==
  ASSUME NEW ex, NEW ex1, NEW ch, NEW ch1, NEW jb, NEW ct, NEW kl, NEW st,
         \A q \in Execs : ex1[q].id = ex[q].id,
         \A q \in Execs : ex[q].id # 0 => ex1[q].pid = ex[q].pid,
         \A q \in Execs : ex1[q].pc = "done" => ex[q].pc = "done" \/ jb[ex[q].id] = None,
         \A q \in Execs : ch[q] = "reaped" => ch1[q] = "reaped",
         0 \notin Ids
  PROVE  /\ RegistryFits(ex, jb, ct) => RegistryFits(ex1, jb, ct)
         /\ SignalsFit(ex, ch, ct, kl, st) => SignalsFit(ex1, ch1, ct, kl, st)
<1>1. Numbered(ex1) = Numbered(ex)
  BY DEF Numbered
<1>2. ASSUME RegistryFits(ex, jb, ct) PROVE RegistryFits(ex1, jb, ct)
  <2>1. jb[0] = None /\ ct = 1 + Cardinality(Numbered(ex1))
    BY <1>1, <1>2 DEF RegistryFits
  <2>2. \A r \in Execs : ex1[r].id < ct
    BY <1>2 DEF RegistryFits
  <2>3. \A r, q \in Execs : ex1[r].id = ex1[q].id /\ ex1[r].id # 0 => r = q
    BY <1>2 DEF RegistryFits
  <2>4. \A i \in Ids : jb[i] # None => \E r \in Execs : ex1[r].id = i /\ ex1[r].pid = jb[i]
    BY <1>2 DEF RegistryFits
  <2>5. \A r \in Execs : ex1[r].pc = "done" => jb[ex1[r].id] = None
    BY <1>2 DEF RegistryFits
  <2> QED
    BY <2>1, <2>2, <2>3, <2>4, <2>5 DEF RegistryFits
<1>3. ASSUME SignalsFit(ex, ch, ct, kl, st) PROVE SignalsFit(ex1, ch1, ct, kl, st)
  BY <1>3 DEF SignalsFit
<1> QED
  BY <1>2, <1>3

\* What Advance does.
LEMMA JobsAdvance ==
  ASSUME JobsInv, NEW r \in Execs, NEW pc \in {"register", "wait", "drain", "done"}, Advance(r, pc)
  PROVE  /\ exec' \in [Execs -> ExecStates]
         /\ exec'[r].pc = pc /\ exec'[r].id = exec[r].id /\ exec'[r].pid = exec[r].pid
         /\ \A q \in Execs : q # r => exec'[q] = exec[q]
<1> DEFINE s == [exec[r] EXCEPT !.pc = pc]
<1>1. exec \in [Execs -> ExecStates]
  BY JobsFacts
<1>2. exec' = [exec EXCEPT ![r] = s]
  BY <1>1 DEF Advance
<1>3. s \in ExecStates /\ s.pc = pc /\ s.id = exec[r].id /\ s.pid = exec[r].pid
  BY <1>1 DEF ExecStates
<1> HIDE DEF s
<1>4. exec' \in [Execs -> ExecStates] /\ exec'[r] = s /\ \A q \in Execs : q # r => exec'[q] = exec[q]
  BY <1>1, <1>2, <1>3
<1> QED
  BY <1>3, <1>4

\* A step of a run or of the operating system that leaves the registry alone.
LEMMA JobsRuns ==
  ASSUME JobsInv,
         process' \in [Pids -> Execs \cup {Stranger, None}], exec' \in [Execs -> ExecStates],
         child' \in [Execs -> {"none", "running", "exited", "reaped"}],
         pipeOpen' \subseteq Execs, heartbeat' \subseteq Execs,
         UNCHANGED <<jobs, counter, killer, struck>>,
         \A q \in Execs : exec'[q].id = exec[q].id,
         \A q \in Execs : exec[q].id # 0 => exec'[q].pid = exec[q].pid,
         \A q \in Execs : exec'[q].pc = "done" => exec[q].pc = "done" \/ exec[q].id = 0,
         \A q \in Execs : child[q] = "reaped" => child'[q] = "reaped",
         RunsFit(process', exec', child', heartbeat')
  PROVE  JobsInv'
<1>1. RegistryFits(exec, jobs, counter) /\ SignalsFit(exec, child, counter, killer, struck)
  BY JobsFacts
<1>2. \A q \in Execs : exec'[q].pc = "done" => exec[q].pc = "done" \/ jobs[exec[q].id] = None
  BY <1>1 DEF RegistryFits
<1>3. 0 \notin Ids
  BY JobsNumbers
<1>4. RegistryFits(exec', jobs, counter) /\ SignalsFit(exec', child', counter, killer, struck)
  BY <1>1, <1>2, <1>3, JobsSame
<1>5. RegistryFits(exec', jobs', counter') /\ SignalsFit(exec', child', counter', killer', struck')
  BY <1>4
<1>6. /\ jobs' \in [Ids \cup {0} -> Pids \cup {None}] /\ counter' \in 1..(Cardinality(Execs) + 1)
      /\ killer' \in [Killers -> KillStates] /\ struck' \subseteq Signals
  BY JobsFacts
<1> QED
  BY <1>5, <1>6, JobsJoin

\* A child gets a number no living process has.
LEMMA JobsSpawns ==
  ASSUME JobsInv, NEW r \in Execs, SpawnChild(r)
  PROVE  JobsInv'
<1>0. /\ process \in [Pids -> Execs \cup {Stranger, None}] /\ exec \in [Execs -> ExecStates]
      /\ child \in [Execs -> {"none", "running", "exited", "reaped"}]
      /\ pipeOpen \subseteq Execs /\ heartbeat \subseteq Execs /\ None \notin Execs
  BY JobsFacts, JobsNumbers
<1>1. exec[r].pc = "new" /\ UNCHANGED <<jobs, counter, killer, struck>> /\ heartbeat' = heartbeat
  BY DEF SpawnChild, RunIs
<1>2. RunsFit(process, exec, child, heartbeat)
  BY JobsFacts
<1>3. exec[r].id = 0 /\ child[r] = "none" /\ r \notin heartbeat
  BY <1>1, <1>2 DEF RunsFit
<1>4. CASE Advance(r, "done") /\ UNCHANGED <<process, child, pipeOpen>>
  <2>1. /\ exec' \in [Execs -> ExecStates]
        /\ exec'[r].pc = "done" /\ exec'[r].id = exec[r].id /\ exec'[r].pid = exec[r].pid
        /\ \A q \in Execs : q # r => exec'[q] = exec[q]
    BY <1>4, JobsAdvance
  <2>2. RunsFit(process, exec', child, heartbeat)
    BY <1>2, <1>3, <2>1 DEF RunsFit
  <2>3. RunsFit(process', exec', child', heartbeat')
    BY <1>1, <1>4, <2>2
  <2>4. \A q \in Execs : /\ exec'[q].id = exec[q].id /\ exec'[q].pid = exec[q].pid
                         /\ exec'[q].pc = "done" => exec[q].pc = "done" \/ exec[q].id = 0
    BY <1>3, <2>1
  <2>5. /\ process' \in [Pids -> Execs \cup {Stranger, None}] /\ exec' \in [Execs -> ExecStates]
        /\ child' \in [Execs -> {"none", "running", "exited", "reaped"}] /\ child' = child
        /\ pipeOpen' \subseteq Execs /\ heartbeat' \subseteq Execs
    BY <1>0, <1>1, <1>4, <2>1
  <2> QED
    BY <1>1, <2>3, <2>4, <2>5, JobsRuns
<1>5. ASSUME NEW p \in Pids, process[p] = None, process' = [process EXCEPT ![p] = r],
             exec' = [exec EXCEPT ![r].pc = "register", ![r].pid = p],
             child' = [child EXCEPT ![r] = "running"], pipeOpen' = pipeOpen \cup {r}
      PROVE  JobsInv'
  <2> DEFINE s == [[exec[r] EXCEPT !.pc = "register"] EXCEPT !.pid = p]
  <2>1. exec' = [exec EXCEPT ![r] = s]
    BY <1>0, <1>5
  <2>2. s \in ExecStates /\ s.pc = "register" /\ s.pid = p /\ s.id = exec[r].id
    BY <1>0 DEF ExecStates
  <2> HIDE DEF s
  <2>3. exec' \in [Execs -> ExecStates] /\ exec'[r] = s /\ \A q \in Execs : q # r => exec'[q] = exec[q]
    BY <1>0, <2>1, <2>2
  <2>4. /\ process' \in [Pids -> Execs \cup {Stranger, None}] /\ process'[p] = r
        /\ \A o \in Pids : o # p => process'[o] = process[o]
    BY <1>0, <1>5
  <2>5. /\ child' \in [Execs -> {"none", "running", "exited", "reaped"}] /\ child'[r] = "running"
        /\ \A q \in Execs : q # r => child'[q] = child[q]
    BY <1>0, <1>5
  <2>6. \A q \in Execs : /\ exec'[q].id = exec[q].id /\ (exec[q].id # 0 => exec'[q].pid = exec[q].pid)
                         /\ exec'[q].pc = "done" => exec[q].pc = "done" \/ exec[q].id = 0
    BY <1>3, <2>2, <2>3
  <2>7. RunsFit(process', exec', child', heartbeat)
    <3>1. \A q \in Execs : exec'[q].pc \in {"new", "register"} => exec'[q].id = 0 /\ q \notin heartbeat
      BY <1>2, <1>3, <2>2, <2>3 DEF RunsFit
    <3>2. \A q \in Execs : exec'[q].pc = "new" => child'[q] = "none"
      BY <1>2, <2>2, <2>3, <2>5 DEF RunsFit
    <3>3. \A q \in Execs : exec'[q].pc \in {"drain", "done"} => q \notin heartbeat
      BY <1>2, <2>2, <2>3 DEF RunsFit
    <3>4. \A q \in Execs : exec'[q].pc \in {"register", "wait", "drain"} => exec'[q].pid \in Pids /\ child'[q] # "none"
      BY <1>2, <2>2, <2>3, <2>5 DEF RunsFit
    <3>5. \A q \in Execs : exec'[q].pc \in {"wait", "drain"} => exec'[q].id # 0
      BY <1>2, <2>2, <2>3 DEF RunsFit
    <3>6. \A q \in Execs : exec'[q].id # 0 => child'[q] # "none"
      BY <1>2, <2>2, <2>3, <2>5 DEF RunsFit
    <3>7. ASSUME NEW q \in Execs, child'[q] \in {"running", "exited"}
          PROVE  exec'[q].pid \in Pids /\ process'[exec'[q].pid] = q
      <4>1. CASE q = r
        BY <2>2, <2>3, <2>4, <4>1
      <4>2. CASE q # r
        <5>1. exec'[q] = exec[q] /\ exec[q].pid \in Pids /\ process[exec[q].pid] = q
          BY <1>2, <2>3, <2>5, <3>7, <4>2 DEF RunsFit
        <5>2. exec[q].pid # p
          BY <1>0, <1>5, <5>1
        <5> QED
          BY <2>4, <5>1, <5>2
      <4> QED
        BY <4>1, <4>2
    <3>8. ASSUME NEW o \in Pids, process'[o] \in Execs
          PROVE  exec'[process'[o]].pid = o /\ child'[process'[o]] \in {"running", "exited"}
      <4>1. CASE o = p
        BY <2>2, <2>3, <2>4, <2>5, <4>1
      <4>2. CASE o # p
        <5>1. process'[o] = process[o] /\ exec[process[o]].pid = o /\ child[process[o]] \in {"running", "exited"}
          BY <1>2, <2>4, <3>8, <4>2 DEF RunsFit
        <5>2. process[o] # r
          BY <1>3, <5>1
        <5> QED
          BY <2>3, <2>5, <3>8, <5>1, <5>2
      <4> QED
        BY <4>1, <4>2
    <3> QED
      BY <3>1, <3>2, <3>3, <3>4, <3>5, <3>6, <3>7, <3>8 DEF RunsFit
  <2>8. RunsFit(process', exec', child', heartbeat')
    BY <1>1, <2>7
  <2>9. pipeOpen' \subseteq Execs /\ heartbeat' \subseteq Execs
    BY <1>0, <1>1, <1>5
  <2>10. \A q \in Execs : child[q] = "reaped" => child'[q] = "reaped"
    BY <1>3, <2>5
  <2> QED
    BY <1>1, <2>3, <2>4, <2>5, <2>6, <2>8, <2>9, <2>10, JobsRuns
<1> QED
  BY <1>4, <1>5 DEF SpawnChild

\* The child has been waited for: its number is free, and no other child has it.
LEMMA JobsReaps ==
  ASSUME JobsInv, NEW r \in Execs, ChildReaped(r) \/ TimesOut(r)
  PROVE  JobsInv'
<1>0. /\ process \in [Pids -> Execs \cup {Stranger, None}] /\ exec \in [Execs -> ExecStates]
      /\ child \in [Execs -> {"none", "running", "exited", "reaped"}]
      /\ pipeOpen \subseteq Execs /\ heartbeat \subseteq Execs /\ None \notin Execs
  BY JobsFacts, JobsNumbers
<1>1. /\ exec[r].pc = "wait" /\ child[r] \in {"running", "exited"}
      /\ UNCHANGED <<jobs, counter, killer, struck>> /\ heartbeat' = heartbeat \ {r}
      /\ Advance(r, "drain") /\ pipeOpen' \subseteq pipeOpen
      /\ child' = [child EXCEPT ![r] = "reaped"] /\ process' = [process EXCEPT ![exec[r].pid] = None]
  BY DEF ChildReaped, TimesOut, RunIs
<1>2. RunsFit(process, exec, child, heartbeat)
  BY JobsFacts
<1>3. exec[r].pid \in Pids /\ process[exec[r].pid] = r /\ exec[r].id # 0
  BY <1>1, <1>2 DEF RunsFit
<1>4. /\ exec' \in [Execs -> ExecStates]
      /\ exec'[r].pc = "drain" /\ exec'[r].id = exec[r].id /\ exec'[r].pid = exec[r].pid
      /\ \A q \in Execs : q # r => exec'[q] = exec[q]
  BY <1>1, JobsAdvance
<1>5. /\ process' \in [Pids -> Execs \cup {Stranger, None}] /\ process'[exec[r].pid] = None
      /\ \A o \in Pids : o # exec[r].pid => process'[o] = process[o]
  BY <1>0, <1>1, <1>3
<1>6. /\ child' \in [Execs -> {"none", "running", "exited", "reaped"}] /\ child'[r] = "reaped"
      /\ \A q \in Execs : q # r => child'[q] = child[q]
  BY <1>0, <1>1
<1>7. RunsFit(process', exec', child', heartbeat')
  <2>1. \A q \in Execs : exec'[q].pc \in {"new", "register"} => exec'[q].id = 0 /\ q \notin heartbeat'
    BY <1>1, <1>2, <1>4 DEF RunsFit
  <2>2. \A q \in Execs : exec'[q].pc = "new" => child'[q] = "none"
    BY <1>2, <1>4, <1>6 DEF RunsFit
  <2>3. \A q \in Execs : exec'[q].pc \in {"drain", "done"} => q \notin heartbeat'
    BY <1>1, <1>2, <1>4 DEF RunsFit
  <2>4. \A q \in Execs : exec'[q].pc \in {"register", "wait", "drain"} => exec'[q].pid \in Pids /\ child'[q] # "none"
    BY <1>2, <1>3, <1>4, <1>6 DEF RunsFit
  <2>5. \A q \in Execs : exec'[q].pc \in {"wait", "drain"} => exec'[q].id # 0
    BY <1>2, <1>3, <1>4 DEF RunsFit
  <2>6. \A q \in Execs : exec'[q].id # 0 => child'[q] # "none"
    BY <1>2, <1>4, <1>6 DEF RunsFit
  <2>7. ASSUME NEW q \in Execs, child'[q] \in {"running", "exited"}
        PROVE  exec'[q].pid \in Pids /\ process'[exec'[q].pid] = q
    <3>1. q # r /\ exec'[q] = exec[q] /\ child[q] \in {"running", "exited"}
      BY <1>4, <1>6, <2>7
    <3>2. exec[q].pid \in Pids /\ process[exec[q].pid] = q
      BY <1>2, <3>1 DEF RunsFit
    <3>3. exec[q].pid # exec[r].pid
      BY <1>3, <3>1, <3>2
    <3> QED
      BY <1>5, <3>1, <3>2, <3>3
  <2>8. ASSUME NEW o \in Pids, process'[o] \in Execs
        PROVE  exec'[process'[o]].pid = o /\ child'[process'[o]] \in {"running", "exited"}
    <3>1. o # exec[r].pid /\ process'[o] = process[o]
      BY <1>0, <1>5, <2>8
    <3>2. exec[process[o]].pid = o /\ child[process[o]] \in {"running", "exited"}
      BY <1>2, <2>8, <3>1 DEF RunsFit
    <3>3. process[o] # r
      BY <3>1, <3>2
    <3> QED
      BY <1>4, <1>6, <2>8, <3>1, <3>2, <3>3
  <2> QED
    BY <2>1, <2>2, <2>3, <2>4, <2>5, <2>6, <2>7, <2>8 DEF RunsFit
<1>8. pipeOpen' \subseteq Execs /\ heartbeat' \subseteq Execs
  BY <1>0, <1>1
<1>9. \A q \in Execs : /\ exec'[q].id = exec[q].id /\ exec'[q].pid = exec[q].pid
                       /\ exec'[q].pc = "done" => exec[q].pc = "done" \/ exec[q].id = 0
                       /\ child[q] = "reaped" => child'[q] = "reaped"
  BY <1>4, <1>6
<1> QED
  BY <1>1, <1>4, <1>5, <1>6, <1>7, <1>8, <1>9, JobsRuns

\* A child that runs exits, or an output closes, or another program starts.
LEMMA JobsSystem ==
  ASSUME JobsInv, (\E r \in Execs : ChildExits(r) \/ PipeCloses(r)) \/ (\E p \in Pids : StrangerStarts(p))
  PROVE  JobsInv'
<1>0. /\ process \in [Pids -> Execs \cup {Stranger, None}] /\ exec \in [Execs -> ExecStates]
      /\ child \in [Execs -> {"none", "running", "exited", "reaped"}]
      /\ pipeOpen \subseteq Execs /\ heartbeat \subseteq Execs /\ None \notin Execs /\ Stranger \notin Execs
  BY JobsFacts, JobsNumbers
<1>2. RunsFit(process, exec, child, heartbeat)
  BY JobsFacts
<1>3. ASSUME NEW r \in Execs, ChildExits(r) PROVE JobsInv'
  <2>1. /\ child[r] = "running" /\ child' = [child EXCEPT ![r] = "exited"] /\ pipeOpen' \subseteq pipeOpen
        /\ UNCHANGED <<process, exec, heartbeat, jobs, counter, killer, struck>>
    BY <1>3 DEF ChildExits
  <2>2. /\ child' \in [Execs -> {"none", "running", "exited", "reaped"}] /\ child'[r] = "exited"
        /\ \A q \in Execs : q # r => child'[q] = child[q]
    BY <1>0, <2>1
  <2>3. \A q \in Execs : /\ child'[q] = "none" <=> child[q] = "none"
                         /\ child'[q] \in {"running", "exited"} <=> child[q] \in {"running", "exited"}
                         /\ child[q] = "reaped" => child'[q] = "reaped"
    BY <2>1, <2>2
  <2>4. RunsFit(process, exec, child', heartbeat)
    BY <1>2, <2>3 DEF RunsFit
  <2>5. RunsFit(process', exec', child', heartbeat')
    BY <2>1, <2>4
  <2>6. /\ process' \in [Pids -> Execs \cup {Stranger, None}] /\ exec' \in [Execs -> ExecStates] /\ exec' = exec
        /\ pipeOpen' \subseteq Execs /\ heartbeat' \subseteq Execs
    BY <1>0, <2>1
  <2> QED
    BY <2>1, <2>2, <2>3, <2>5, <2>6, JobsRuns
<1>4. ASSUME NEW r \in Execs, PipeCloses(r) PROVE JobsInv'
  <2>1. /\ pipeOpen' = pipeOpen \ {r}
        /\ UNCHANGED <<process, exec, child, heartbeat, jobs, counter, killer, struck>>
    BY <1>4 DEF PipeCloses
  <2>2. RunsFit(process', exec', child', heartbeat')
    BY <1>2, <2>1
  <2>3. /\ process' \in [Pids -> Execs \cup {Stranger, None}] /\ exec' \in [Execs -> ExecStates] /\ exec' = exec
        /\ child' \in [Execs -> {"none", "running", "exited", "reaped"}] /\ child' = child
        /\ pipeOpen' \subseteq Execs /\ heartbeat' \subseteq Execs
    BY <1>0, <2>1
  <2> QED
    BY <2>1, <2>2, <2>3, JobsRuns
<1>5. ASSUME NEW p \in Pids, StrangerStarts(p) PROVE JobsInv'
  <2>1. /\ process[p] = None /\ process' = [process EXCEPT ![p] = Stranger]
        /\ UNCHANGED <<exec, child, pipeOpen, heartbeat, jobs, counter, killer, struck>>
    BY <1>5 DEF StrangerStarts
  <2>2. /\ process' \in [Pids -> Execs \cup {Stranger, None}] /\ process'[p] = Stranger
        /\ \A o \in Pids : o # p => process'[o] = process[o]
    BY <1>0, <2>1
  <2>3. \A o \in Pids, q \in Execs : process[o] = q <=> process'[o] = q
    BY <1>0, <2>1, <2>2
  <2>4. RunsFit(process', exec, child, heartbeat)
    BY <1>2, <2>3 DEF RunsFit
  <2>5. RunsFit(process', exec', child', heartbeat')
    BY <2>1, <2>4
  <2>6. /\ exec' \in [Execs -> ExecStates] /\ exec' = exec
        /\ child' \in [Execs -> {"none", "running", "exited", "reaped"}] /\ child' = child
        /\ pipeOpen' \subseteq Execs /\ heartbeat' \subseteq Execs
    BY <1>0, <2>1
  <2> QED
    BY <2>1, <2>2, <2>5, <2>6, JobsRuns
<1> QED
  BY <1>3, <1>4, <1>5

\* The id a job gets is new, and there is one for every run.
LEMMA JobsCount ==
  ASSUME JobsInv, NEW r \in Execs, exec[r].id = 0
  PROVE  /\ counter \in Ids /\ counter \in Nat /\ counter + 1 \in 1..(Cardinality(Execs) + 1)
         /\ Cardinality(Numbered(exec) \cup {r}) = Cardinality(Numbered(exec)) + 1
         /\ Cardinality(Numbered(exec)) \in Nat
<1>1. Numbered(exec) \subseteq Execs /\ r \notin Numbered(exec) /\ Numbered(exec) \cup {r} \subseteq Execs
  BY DEF Numbered
<1>2. IsFiniteSet(Execs) /\ Cardinality(Execs) \in Nat
  BY JobsNumbers
<1>3. IsFiniteSet(Numbered(exec)) /\ IsFiniteSet(Numbered(exec) \cup {r})
  BY <1>1, <1>2, FS_Subset
<1>4. Cardinality(Numbered(exec) \cup {r}) = Cardinality(Numbered(exec)) + 1
  BY <1>1, <1>3, FS_AddElement
<1>5. Cardinality(Numbered(exec) \cup {r}) <= Cardinality(Execs)
  BY <1>1, <1>2, FS_Subset
<1>6. Cardinality(Numbered(exec)) \in Nat
  BY <1>3, FS_CardinalityType
<1>7. counter = 1 + Cardinality(Numbered(exec))
  BY JobsFacts DEF RegistryFits
<1>8. counter \in Nat /\ 1 <= counter /\ counter <= Cardinality(Execs)
  BY <1>2, <1>4, <1>5, <1>6, <1>7
<1>9. counter \in Ids
  BY <1>8, JobsNumbers
<1> QED
  BY <1>2, <1>4, <1>6, <1>8, <1>9

\* Registry::register gives the run the counter's id, which no run has.
LEMMA JobsRegisters ==
  ASSUME JobsInv, NEW r \in Execs, RegisterJob(r)
  PROVE  JobsInv'
<1>0. /\ process \in [Pids -> Execs \cup {Stranger, None}] /\ exec \in [Execs -> ExecStates]
      /\ child \in [Execs -> {"none", "running", "exited", "reaped"}]
      /\ pipeOpen \subseteq Execs /\ heartbeat \subseteq Execs
      /\ jobs \in [Ids \cup {0} -> Pids \cup {None}]
      /\ killer \in [Killers -> KillStates] /\ struck \subseteq Signals
  BY JobsFacts
<1>1. /\ exec[r].pc = "register" /\ exec' = [exec EXCEPT ![r].pc = "wait", ![r].id = counter]
      /\ jobs' = [jobs EXCEPT ![counter] = exec[r].pid] /\ counter' = counter + 1
      /\ heartbeat' \subseteq heartbeat \cup {r} /\ UNCHANGED <<process, child, pipeOpen, killer, struck>>
  BY DEF RegisterJob, NextId, RunIs
<1>2. RunsFit(process, exec, child, heartbeat) /\ RegistryFits(exec, jobs, counter)
      /\ SignalsFit(exec, child, counter, killer, struck)
  BY JobsFacts
<1>3. exec[r].id = 0 /\ exec[r].pid \in Pids /\ child[r] # "none"
  BY <1>1, <1>2 DEF RunsFit
<1>4. /\ counter \in Ids /\ counter \in Nat /\ counter' \in 1..(Cardinality(Execs) + 1) /\ counter # 0
      /\ Cardinality(Numbered(exec) \cup {r}) = Cardinality(Numbered(exec)) + 1
      /\ Cardinality(Numbered(exec)) \in Nat
  BY <1>1, <1>3, JobsCount, JobsNumbers
<1> DEFINE s == [[exec[r] EXCEPT !.pc = "wait"] EXCEPT !.id = counter]
<1>5. exec' = [exec EXCEPT ![r] = s]
  BY <1>0, <1>1
<1>6. s \in ExecStates /\ s.pc = "wait" /\ s.pid = exec[r].pid /\ s.id = counter
  BY <1>0, <1>4 DEF ExecStates
<1> HIDE DEF s
<1>7. /\ exec' \in [Execs -> ExecStates] /\ exec'[r].pc = "wait" /\ exec'[r].pid = exec[r].pid
      /\ exec'[r].id = counter /\ \A q \in Execs : q # r => exec'[q] = exec[q]
  BY <1>0, <1>5, <1>6
<1>8. /\ jobs' \in [Ids \cup {0} -> Pids \cup {None}] /\ jobs'[counter] = exec[r].pid
      /\ \A i \in Ids \cup {0} : i # counter => jobs'[i] = jobs[i]
  BY <1>0, <1>1, <1>3, <1>4
<1>9. \A q \in Execs : exec[q].id \in Nat /\ exec[q].id < counter /\ exec[q].id \in Ids \cup {0}
  <2>1. \A q \in Execs : exec[q].id \in Ids \cup {0}
    BY <1>0 DEF ExecStates
  <2>2. Ids \subseteq Nat
    BY JobsNumbers
  <2>3. \A q \in Execs : exec[q].id < counter
    BY <1>2 DEF RegistryFits
  <2>4. Ids \cup {0} \subseteq Nat
    BY <2>2
  <2>5. \A q \in Execs : exec[q].id \in Nat
    BY <2>1, <2>4
  <2> QED
    BY <2>1, <2>3, <2>5
<1>10. RunsFit(process, exec', child, heartbeat')
  <2>1. \A q \in Execs : exec'[q].pc \in {"new", "register", "drain", "done"} =>
          q # r /\ exec'[q] = exec[q] /\ (q \in heartbeat' => q \in heartbeat)
    <3>1. heartbeat' \subseteq heartbeat \cup {r}
      BY <1>1
    <3>2. \A q \in Execs : exec'[q].pc \in {"new", "register", "drain", "done"} => q # r
      BY <1>7
    <3> QED
      BY <1>7, <3>1, <3>2
  <2>2. \A q \in Execs : exec'[q].pid = exec[q].pid
    BY <1>7
  <2>3. \A q \in Execs : exec'[q].pc \in {"new", "register"} => exec'[q].id = 0 /\ q \notin heartbeat'
    BY <1>2, <2>1 DEF RunsFit
  <2>4. \A q \in Execs : exec'[q].pc = "new" => child[q] = "none"
    BY <1>2, <2>1 DEF RunsFit
  <2>5. \A q \in Execs : exec'[q].pc \in {"drain", "done"} => q \notin heartbeat'
    BY <1>2, <2>1 DEF RunsFit
  <2>6. \A q \in Execs : exec'[q].pc \in {"register", "wait", "drain"} => exec'[q].pid \in Pids /\ child[q] # "none"
    BY <1>2, <1>3, <1>7 DEF RunsFit
  <2>7. \A q \in Execs : exec'[q].pc \in {"wait", "drain"} => exec'[q].id # 0
    BY <1>2, <1>4, <1>7 DEF RunsFit
  <2>8. \A q \in Execs : exec'[q].id # 0 => child[q] # "none"
    BY <1>2, <1>3, <1>7 DEF RunsFit
  <2>9. \A q \in Execs : child[q] \in {"running", "exited"} => exec'[q].pid \in Pids /\ process[exec'[q].pid] = q
    BY <1>2, <2>2 DEF RunsFit
  <2>10. \A p \in Pids : process[p] \in Execs => exec'[process[p]].pid = p /\ child[process[p]] \in {"running", "exited"}
    BY <1>2, <2>2 DEF RunsFit
  <2> QED
    BY <2>3, <2>4, <2>5, <2>6, <2>7, <2>8, <2>9, <2>10 DEF RunsFit
<1>11. RegistryFits(exec', jobs', counter')
  <2>1. Numbered(exec') = Numbered(exec) \cup {r}
    BY <1>4, <1>7 DEF Numbered
  <2>2. counter' = 1 + Cardinality(Numbered(exec'))
    <3>1. counter' = counter + 1 /\ counter = 1 + Cardinality(Numbered(exec))
      BY <1>1, <1>2 DEF RegistryFits
    <3>2. Cardinality(Numbered(exec')) = Cardinality(Numbered(exec)) + 1
      BY <1>4, <2>1
    <3> QED
      BY <1>4, <3>1, <3>2
  <2>3. jobs'[0] = None
    BY <1>2, <1>4, <1>8 DEF RegistryFits
  <2>4. \A q \in Execs : exec'[q].id < counter'
    BY <1>1, <1>4, <1>7, <1>9
  <2>5. \A q, o \in Execs : exec'[q].id = exec'[o].id /\ exec'[q].id # 0 => q = o
    BY <1>2, <1>4, <1>7, <1>9 DEF RegistryFits
  <2>6. ASSUME NEW i \in Ids, jobs'[i] # None PROVE \E q \in Execs : exec'[q].id = i /\ exec'[q].pid = jobs'[i]
    <3>1. CASE i = counter
      BY <1>7, <1>8, <3>1
    <3>2. CASE i # counter
      <4>1. PICK q \in Execs : exec[q].id = i /\ exec[q].pid = jobs[i]
        BY <1>2, <1>8, <2>6, <3>2 DEF RegistryFits
      <4>2. q # r
        BY <1>3, <4>1, JobsNumbers
      <4> QED
        BY <1>7, <1>8, <3>2, <4>1, <4>2
    <3> QED
      BY <3>1, <3>2
  <2>7. ASSUME NEW q \in Execs, exec'[q].pc = "done" PROVE jobs'[exec'[q].id] = None
    <3>1. q # r /\ exec'[q] = exec[q]
      BY <1>7, <2>7
    <3>2. jobs[exec[q].id] = None /\ exec[q].id # counter
      BY <1>2, <1>4, <1>9, <2>7, <3>1 DEF RegistryFits
    <3> QED
      BY <1>8, <1>9, <3>1, <3>2
  <2> QED
    BY <2>2, <2>3, <2>4, <2>5, <2>6, <2>7 DEF RegistryFits
<1>12. SignalsFit(exec', child, counter', killer, struck)
  <2>1. ASSUME NEW k \in Killers, killer[k].pc = "kill"
        PROVE  /\ killer[k].pid \in Pids
               /\ \E q \in Execs : exec'[q].id = killer[k].id /\ exec'[q].id # 0 /\ exec'[q].pid = killer[k].pid
    <3>1. killer[k].pid \in Pids
      BY <1>2, <2>1 DEF SignalsFit
    <3>2. PICK q \in Execs : exec[q].id = killer[k].id /\ exec[q].id # 0 /\ exec[q].pid = killer[k].pid
      BY <1>2, <2>1 DEF SignalsFit
    <3>3. exec'[q] = exec[q]
      BY <1>3, <1>7, <3>2
    <3> QED
      BY <3>1, <3>2, <3>3
  <2>2. \A x \in struck : x.job \in Nat /\ x.job < counter
    BY <1>0, <1>2, JobsNumbers DEF SignalsFit, Signals
  <2>3. \A x \in struck : x.job < counter'
    BY <1>1, <1>4, <2>2
  <2>4. ASSUME NEW x \in struck, NEW q \in Execs, exec'[q].id = x.job PROVE x.hit = q \/ child[q] = "reaped"
    <3>1. q # r
      BY <1>4, <1>7, <2>2, <2>4
    <3> QED
      BY <1>2, <1>7, <2>4, <3>1 DEF SignalsFit
  <2> QED
    BY <2>1, <2>3, <2>4 DEF SignalsFit
<1>13. RunsFit(process', exec', child', heartbeat') /\ SignalsFit(exec', child', counter', killer', struck')
  BY <1>1, <1>10, <1>12
<1>14. /\ process' \in [Pids -> Execs \cup {Stranger, None}]
       /\ child' \in [Execs -> {"none", "running", "exited", "reaped"}]
       /\ pipeOpen' \subseteq Execs /\ heartbeat' \subseteq Execs
       /\ killer' \in [Killers -> KillStates] /\ struck' \subseteq Signals
  BY <1>0, <1>1
<1> QED
  BY <1>4, <1>7, <1>8, <1>11, <1>13, <1>14, JobsJoin

\* A run returns: its job goes.
LEMMA JobsReturns ==
  ASSUME JobsInv, NEW r \in Execs, WaitError(r) \/ Deregister(r)
  PROVE  JobsInv'
<1>0. /\ process \in [Pids -> Execs \cup {Stranger, None}] /\ exec \in [Execs -> ExecStates]
      /\ child \in [Execs -> {"none", "running", "exited", "reaped"}]
      /\ pipeOpen \subseteq Execs /\ heartbeat \subseteq Execs
      /\ jobs \in [Ids \cup {0} -> Pids \cup {None}] /\ counter \in 1..(Cardinality(Execs) + 1)
      /\ killer \in [Killers -> KillStates] /\ struck \subseteq Signals
  BY JobsFacts
<1>2. RunsFit(process, exec, child, heartbeat) /\ RegistryFits(exec, jobs, counter)
      /\ SignalsFit(exec, child, counter, killer, struck)
  BY JobsFacts
<1>1. /\ exec[r].pc \in {"wait", "drain"} /\ Advance(r, "done") /\ jobs' = [jobs EXCEPT ![exec[r].id] = None]
      /\ heartbeat' \subseteq heartbeat /\ r \notin heartbeat'
      /\ UNCHANGED <<process, child, pipeOpen, counter, killer, struck>>
  BY <1>2 DEF WaitError, Deregister, RunIs, RunsFit
<1>3. /\ exec' \in [Execs -> ExecStates]
      /\ exec'[r].pc = "done" /\ exec'[r].id = exec[r].id /\ exec'[r].pid = exec[r].pid
      /\ \A q \in Execs : q # r => exec'[q] = exec[q]
  BY <1>1, JobsAdvance
<1>4. /\ jobs' \in [Ids \cup {0} -> Pids \cup {None}] /\ jobs'[exec[r].id] = None
      /\ \A i \in Ids \cup {0} : jobs'[i] = jobs[i] \/ jobs'[i] = None
  BY <1>0, <1>1 DEF ExecStates
<1>5. RunsFit(process, exec', child, heartbeat')
  BY <1>1, <1>2, <1>3 DEF RunsFit
<1>6. \A q \in Execs : exec[q].id \in Ids \cup {0}
  BY <1>0 DEF ExecStates
<1>7. RegistryFits(exec, jobs', counter)
  <2>1. jobs'[0] = None
    BY <1>2, <1>4 DEF RegistryFits
  <2>2. \A i \in Ids : jobs'[i] # None => \E q \in Execs : exec[q].id = i /\ exec[q].pid = jobs'[i]
    BY <1>2, <1>4 DEF RegistryFits
  <2>3. \A q \in Execs : exec[q].pc = "done" => jobs'[exec[q].id] = None
    BY <1>2, <1>4, <1>6 DEF RegistryFits
  <2> QED
    BY <1>2, <2>1, <2>2, <2>3 DEF RegistryFits
<1>8. \A q \in Execs : /\ exec'[q].id = exec[q].id /\ exec'[q].pid = exec[q].pid
                       /\ exec'[q].pc = "done" => exec[q].pc = "done" \/ jobs'[exec[q].id] = None
  BY <1>3, <1>4
<1>9. RegistryFits(exec', jobs', counter)
  BY <1>7, <1>8, JobsSame, JobsNumbers
<1>10. SignalsFit(exec', child, counter, killer, struck)
  BY <1>2, <1>8 DEF SignalsFit
<1>11. /\ RunsFit(process', exec', child', heartbeat') /\ RegistryFits(exec', jobs', counter')
       /\ SignalsFit(exec', child', counter', killer', struck')
  BY <1>1, <1>5, <1>9, <1>10
<1>12. /\ process' \in [Pids -> Execs \cup {Stranger, None}]
       /\ child' \in [Execs -> {"none", "running", "exited", "reaped"}]
       /\ pipeOpen' \subseteq Execs /\ heartbeat' \subseteq Execs /\ counter' \in 1..(Cardinality(Execs) + 1)
       /\ killer' \in [Killers -> KillStates] /\ struck' \subseteq Signals
  BY <1>0, <1>1
<1> QED
  BY <1>3, <1>4, <1>11, <1>12, JobsJoin

\* job_kill looks at the registry; the number it reads there is a run's.
LEMMA JobsGets ==
  ASSUME JobsInv, NEW k \in Killers, NEW i \in Ids, GetJob(k, i)
  PROVE  JobsInv'
<1>0. /\ jobs \in [Ids \cup {0} -> Pids \cup {None}] /\ killer \in [Killers -> KillStates]
  BY JobsFacts
<1>1. RunsFit(process, exec, child, heartbeat) /\ RegistryFits(exec, jobs, counter)
      /\ SignalsFit(exec, child, counter, killer, struck)
  BY JobsFacts
<1> DEFINE pc == IF jobs[i] = None THEN "done" ELSE "kill"
           s == [pc |-> pc, id |-> i, pid |-> jobs[i]]
<1>2. killer' = [killer EXCEPT ![k] = s]
      /\ UNCHANGED <<process, exec, child, pipeOpen, heartbeat, jobs, counter, struck>>
  BY DEF GetJob
<1>3. pc \in {"done", "kill"} /\ (pc = "kill" => jobs[i] # None)
  OBVIOUS
<1> HIDE DEF pc
<1>4. s \in KillStates /\ s.pc = pc /\ s.id = i /\ s.pid = jobs[i]
  BY <1>0, <1>3 DEF KillStates
<1> HIDE DEF s
<1>5. killer' \in [Killers -> KillStates] /\ killer'[k] = s /\ \A l \in Killers : l # k => killer'[l] = killer[l]
  BY <1>0, <1>2, <1>4
<1>6. SignalsFit(exec, child, counter, killer', struck)
  <2>1. ASSUME NEW l \in Killers, killer'[l].pc = "kill"
        PROVE  /\ killer'[l].pid \in Pids
               /\ \E r \in Execs : exec[r].id = killer'[l].id /\ exec[r].id # 0 /\ exec[r].pid = killer'[l].pid
    <3>1. CASE l = k
      <4>1. jobs[i] # None /\ jobs[i] \in Pids /\ i # 0
        BY <1>0, <1>3, <1>4, <1>5, <2>1, <3>1, JobsNumbers
      <4>2. \E r \in Execs : exec[r].id = i /\ exec[r].pid = jobs[i]
        BY <1>1, <4>1 DEF RegistryFits
      <4> QED
        BY <1>4, <1>5, <3>1, <4>1, <4>2
    <3>2. CASE l # k
      BY <1>1, <1>5, <2>1, <3>2 DEF SignalsFit
    <3> QED
      BY <3>1, <3>2
  <2> QED
    BY <1>1, <2>1 DEF SignalsFit
<1>7. /\ RunsFit(process', exec', child', heartbeat') /\ RegistryFits(exec', jobs', counter')
      /\ SignalsFit(exec', child', counter', killer', struck')
  BY <1>1, <1>2, <1>6
<1>8. /\ process' \in [Pids -> Execs \cup {Stranger, None}] /\ exec' \in [Execs -> ExecStates]
      /\ child' \in [Execs -> {"none", "running", "exited", "reaped"}]
      /\ pipeOpen' \subseteq Execs /\ heartbeat' \subseteq Execs
      /\ jobs' \in [Ids \cup {0} -> Pids \cup {None}] /\ counter' \in 1..(Cardinality(Execs) + 1)
      /\ struck' \subseteq Signals
  BY <1>2, JobsFacts
<1> QED
  BY <1>5, <1>7, <1>8, JobsJoin

\* The signal goes to whoever has the number: the child that was meant, or, if that
\* has been waited for, somebody else.
LEMMA JobsSignals ==
  ASSUME JobsInv, NEW k \in Killers, SendSignal(k)
  PROVE  JobsInv'
<1>0. /\ process \in [Pids -> Execs \cup {Stranger, None}] /\ exec \in [Execs -> ExecStates]
      /\ child \in [Execs -> {"none", "running", "exited", "reaped"}]
      /\ killer \in [Killers -> KillStates] /\ struck \subseteq Signals
  BY JobsFacts
<1>1. RunsFit(process, exec, child, heartbeat) /\ RegistryFits(exec, jobs, counter)
      /\ SignalsFit(exec, child, counter, killer, struck)
  BY JobsFacts
<1> DEFINE p == killer[k].pid
           hit == process[p]
           new == [hit |-> hit, job |-> killer[k].id]
<1>2. /\ killer[k].pc = "kill" /\ killer' = [killer EXCEPT ![k].pc = "done"] /\ struck' = struck \cup {new}
      /\ child' = child \/ (hit \in Execs /\ child' = [child EXCEPT ![hit] = "exited"])
      /\ UNCHANGED <<process, exec, pipeOpen, heartbeat, jobs, counter>>
  BY DEF SendSignal
<1>3. p \in Pids /\ \E r \in Execs : exec[r].id = killer[k].id /\ exec[r].id # 0 /\ exec[r].pid = p
  BY <1>1, <1>2 DEF SignalsFit
<1>4. PICK m \in Execs : exec[m].id = killer[k].id /\ exec[m].id # 0 /\ exec[m].pid = p
  BY <1>3
<1>5. hit \in Execs \cup {Stranger, None} /\ killer[k].id \in Ids /\ exec[m].id < counter
  BY <1>0, <1>1, <1>3, <1>4 DEF ExecStates, RegistryFits
<1>6. new \in Signals /\ new.hit = hit /\ new.job = exec[m].id
  BY <1>4, <1>5 DEF Signals
<1>7. struck' \subseteq Signals
  BY <1>0, <1>2, <1>6
<1>8. hit = m \/ child[m] = "reaped"
  <2>1. child[m] # "none" /\ (child[m] \in {"running", "exited"} => process[exec[m].pid] = m)
    BY <1>1, <1>4 DEF RunsFit
  <2> QED
    BY <1>0, <1>4, <2>1
<1>9. hit \in Execs => child[hit] \in {"running", "exited"}
  BY <1>1, <1>3 DEF RunsFit
<1> HIDE DEF hit, new, p
<1>10. child' \in [Execs -> {"none", "running", "exited", "reaped"}]
       /\ \A q \in Execs : /\ child'[q] = "none" <=> child[q] = "none"
                           /\ child'[q] \in {"running", "exited"} <=> child[q] \in {"running", "exited"}
                           /\ child[q] = "reaped" <=> child'[q] = "reaped"
  <2>1. CASE child' = child
    BY <1>0, <2>1
  <2>2. CASE hit \in Execs /\ child' = [child EXCEPT ![hit] = "exited"]
    BY <1>0, <1>9, <2>2
  <2> QED
    BY <1>2, <2>1, <2>2
<1>11. RunsFit(process, exec, child', heartbeat)
  BY <1>1, <1>10 DEF RunsFit
<1>12. killer' \in [Killers -> KillStates] /\ \A l \in Killers : killer'[l].pc = "kill" => killer'[l] = killer[l]
  <2> DEFINE t == [killer[k] EXCEPT !.pc = "done"]
  <2>1. killer' = [killer EXCEPT ![k] = t]
    BY <1>0, <1>2
  <2>2. t \in KillStates /\ t.pc = "done"
    BY <1>0 DEF KillStates
  <2> HIDE DEF t
  <2> QED
    BY <1>0, <2>1, <2>2
<1>13. SignalsFit(exec, child', counter, killer', struck')
  <2>1. \A l \in Killers : killer'[l].pc = "kill" =>
          /\ killer'[l].pid \in Pids
          /\ \E r \in Execs : exec[r].id = killer'[l].id /\ exec[r].id # 0 /\ exec[r].pid = killer'[l].pid
    BY <1>1, <1>12 DEF SignalsFit
  <2>2. \A x \in struck' : x.job < counter
    BY <1>1, <1>2, <1>5, <1>6 DEF SignalsFit
  <2>3. ASSUME NEW x \in struck', NEW r \in Execs, exec[r].id = x.job PROVE x.hit = r \/ child'[r] = "reaped"
    <3>1. CASE x \in struck
      BY <1>1, <1>10, <2>3, <3>1 DEF SignalsFit
    <3>2. CASE x = new
      <4>1. r = m
        BY <1>1, <1>4, <1>6, <2>3, <3>2 DEF RegistryFits
      <4> QED
        BY <1>6, <1>8, <1>10, <3>2, <4>1
    <3> QED
      BY <1>2, <2>3, <3>1, <3>2
  <2> QED
    BY <2>1, <2>2, <2>3 DEF SignalsFit
<1>14. /\ RunsFit(process', exec', child', heartbeat') /\ RegistryFits(exec', jobs', counter')
       /\ SignalsFit(exec', child', counter', killer', struck')
  BY <1>1, <1>2, <1>11, <1>13
<1>15. /\ process' \in [Pids -> Execs \cup {Stranger, None}] /\ exec' \in [Execs -> ExecStates]
       /\ pipeOpen' \subseteq Execs /\ heartbeat' \subseteq Execs
       /\ jobs' \in [Ids \cup {0} -> Pids \cup {None}] /\ counter' \in 1..(Cardinality(Execs) + 1)
  BY <1>2, JobsFacts
<1> QED
  BY <1>7, <1>10, <1>12, <1>14, <1>15, JobsJoin

\* Every step keeps the invariant.
LEMMA JobsStepKeeps == JobsInv /\ [JobsNext]_jobsVars => JobsInv'
<1> SUFFICES ASSUME JobsInv, [JobsNext]_jobsVars PROVE JobsInv'
  OBVIOUS
<1>1. CASE UNCHANGED jobsVars
  <2>1. JobsTypeOK'
    BY <1>1 DEF jobsVars, JobsInv, JobsTypeOK
  <2>2. RunsFit(process', exec', child', heartbeat') /\ RegistryFits(exec', jobs', counter')
        /\ SignalsFit(exec', child', counter', killer', struck')
    BY <1>1 DEF jobsVars, JobsInv
  <2> QED
    BY <2>1, <2>2 DEF JobsInv
<1>2. ASSUME NEW r \in Execs, SpawnChild(r) \/ ExecStep(r) \/ WaitError(r) \/ ChildExits(r) \/ PipeCloses(r)
      PROVE  JobsInv'
  BY <1>2, JobsSpawns, JobsRegisters, JobsReaps, JobsReturns, JobsSystem DEF ExecStep
<1>3. ASSUME NEW k \in Killers, SendSignal(k) \/ \E i \in Ids : GetJob(k, i) PROVE JobsInv'
  BY <1>3, JobsSignals, JobsGets
<1>4. ASSUME NEW p \in Pids, StrangerStarts(p) PROVE JobsInv'
  BY <1>4, JobsSystem
<1> QED
  BY <1>1, <1>2, <1>3, <1>4 DEF JobsNext

-----------------------------------------------------------------------------
(* The theorem *)

JobsSpec == JobsInit /\ [][JobsNext]_jobsVars

\* The invariant holds in every behaviour.
LEMMA JobsAlways == JobsSpec => []JobsInv
<1>1. JobsInit => JobsInv
  BY JobsStart
<1>2. JobsInv /\ [JobsNext]_jobsVars => JobsInv'
  BY JobsStepKeeps
<1> QED
  BY <1>1, <1>2, PTL DEF JobsSpec

\* The registry of commands tells the truth, and a signal of job_kill hits the
\* child it is meant for as long as that has not been waited for.
THEOREM RegistryAlwaysTrue == JobsSpec => []RegistryIsTrue
BY JobsAlways, JobsTrue, PTL

-----------------------------------------------------------------------------
(* The debug sessions *)

AdapterStates == {"none", "runs", "exited", "ended"}
ToolStates == [pc : {"new", "lock", "spawn", "launch", "insert", "disconnect", "use", "done"},
               name : Names \cup {None}, client : Launches \cup {None}]

\* An adapter that nobody has ended.
Up == {"runs", "exited"}

\* What a call may be doing, by its kind, and whether it has a client.
CallFits(c, s) ==
  /\ s.pc = "lock" => s.name \in Names
  /\ s.pc \in {"spawn", "launch", "insert"} => c \in Launches /\ s.name \in Names
  /\ s.pc = "use" => c \in Users
  /\ s.pc = "disconnect" => c \in Launches \cup Enders
  /\ s.pc \in {"new", "lock", "spawn", "done"} => s.client = None
  /\ s.pc \in {"launch", "insert", "disconnect"} => s.client \in Launches
  /\ c \in Launches /\ s.client # None => s.client = c

\* The map ss, the adapters ad and the calls tt fit together: a client has one name;
\* nobody has ended the adapter of a client in the map and no dap_terminate has it; one
\* that runs is in the map or in a call's hands; nobody has ended that of a launching or
\* terminating call, and it is in no other such call's hands; the client of a dap_launch that has not returned is
\* neither in the map nor in another call's hands.
SessionsFit(ss, ad, tt) ==
  /\ \A n, m \in Names : ss[n] = ss[m] /\ ss[n] # None => n = m
  /\ \A n \in Names : ss[n] # None => ad[ss[n]] \in Up
  /\ \A n \in Names, e \in Enders : ss[n] # None => tt[e].client # ss[n]
  /\ \A k \in Launches : ad[k] = "runs" => (\E n \in Names : ss[n] = k) \/ (\E c \in ToolCalls : tt[c].client = k)
  /\ \A c \in ToolCalls : CallFits(c, tt[c])
  /\ \A c \in Launches \cup Enders : tt[c].client # None => ad[tt[c].client] \in Up
  /\ \A k \in Launches : tt[k].pc # "done" =>
       (\A n \in Names : ss[n] # k) /\ (\A c \in ToolCalls : tt[c].client = k => c = k)
  /\ \A c, e \in Enders : tt[c].client = tt[e].client /\ tt[c].client # None => c = e

SessionsInv == SessionsTypeOK /\ SessionsFit(sessions, adapter, tool)

\* The domains of the variables, named.
LEMMA SessionsTypes ==
  SessionsTypeOK <=> /\ sessions \in [Names -> Launches \cup {None}]
                     /\ holder \in Enders \cup {None}
                     /\ adapter \in [Launches -> AdapterStates]
                     /\ tool \in [ToolCalls -> ToolStates]
BY DEF SessionsTypeOK, ToolStates, AdapterStates

\* No session and no adapter.
LEMMA SessionsStart == SessionsInit => SessionsInv
<1> SUFFICES ASSUME SessionsInit PROVE SessionsInv
  OBVIOUS
<1>1. Idle \in ToolStates /\ Idle.pc = "new" /\ Idle.client = None
  BY DEF Idle, ToolStates
<1>2. SessionsTypeOK
  BY <1>1, SessionsTypes DEF SessionsInit, AdapterStates
<1>3. \A c \in ToolCalls : tool[c].pc = "new" /\ tool[c].client = None
  BY <1>1 DEF SessionsInit
<1>4. (\A n \in Names : sessions[n] = None) /\ \A k \in Launches : adapter[k] = "none"
  BY DEF SessionsInit
<1>5. None \notin Launches /\ Launches \subseteq ToolCalls /\ Enders \subseteq ToolCalls
  BY SessionsAssumption DEF ToolCalls
<1>6. \A c \in ToolCalls : CallFits(c, tool[c])
  BY <1>3 DEF CallFits
<1> QED
  BY <1>2, <1>3, <1>4, <1>5, <1>6 DEF SessionsInv, SessionsFit

\* The invariant says what the run checks.
LEMMA SessionsAgree == SessionsInv => SessionsMatchAdapters
<1> SUFFICES ASSUME SessionsInv PROVE SessionsMatchAdapters
  OBVIOUS
<1>1. ASSUME NEW k \in Stored PROVE adapter[k] \in Up /\ \A c \in Enders : tool[c].client # k
  <2>1. PICK n \in Names : sessions[n] = k
    BY <1>1 DEF Stored
  <2>2. k # None
    BY <1>1 DEF Stored
  <2> QED
    BY <2>1, <2>2 DEF SessionsInv, SessionsFit
<1>2. ASSUME NEW k \in Launches, adapter[k] = "runs" PROVE k \in Reached(sessions, tool)
  <2>1. (\E n \in Names : sessions[n] = k) \/ (\E c \in ToolCalls : tool[c].client = k)
    BY <1>2 DEF SessionsInv, SessionsFit
  <2> QED
    BY <2>1 DEF Reached
<1> QED
  BY <1>1, <1>2 DEF SessionsMatchAdapters, Up

\* The facts of the invariant in a call's step.
LEMMA SessionsFacts ==
  ASSUME SessionsInv, NEW c \in ToolCalls
  PROVE  /\ tool[c] \in ToolStates /\ CallFits(c, tool[c])
         /\ sessions \in [Names -> Launches \cup {None}] /\ holder \in Enders \cup {None}
         /\ adapter \in [Launches -> AdapterStates] /\ tool \in [ToolCalls -> ToolStates]
         /\ Launches \subseteq ToolCalls /\ Enders \subseteq ToolCalls /\ None \notin Launches
         /\ \A e \in Enders : e \notin Launches /\ e \notin Users
         /\ \A u \in Users : u \notin Launches
<1>1. /\ sessions \in [Names -> Launches \cup {None}] /\ holder \in Enders \cup {None}
      /\ adapter \in [Launches -> AdapterStates] /\ tool \in [ToolCalls -> ToolStates]
  BY SessionsTypes DEF SessionsInv
<1>2. /\ Launches \subseteq ToolCalls /\ Enders \subseteq ToolCalls /\ None \notin Launches
      /\ \A e \in Enders : e \notin Launches /\ e \notin Users
      /\ \A u \in Users : u \notin Launches
  BY SessionsAssumption DEF ToolCalls
<1>3. tool[c] \in ToolStates /\ CallFits(c, tool[c])
  BY <1>1 DEF SessionsInv, SessionsFit
<1> QED
  BY <1>1, <1>2, <1>3

\* A call becomes s.
LEMMA SessionsTool ==
  ASSUME SessionsInv, NEW c \in ToolCalls, NEW s \in ToolStates, tool' = [tool EXCEPT ![c] = s]
  PROVE  /\ tool' \in [ToolCalls -> ToolStates] /\ tool'[c] = s
         /\ \A d \in ToolCalls : d # c => tool'[d] = tool[d]
BY SessionsTypes DEF SessionsInv

\* A step that leaves the map and the adapters alone, and hands no client around.
LEMMA SessionsRests ==
  ASSUME SessionsInv, NEW c \in ToolCalls, NEW s \in ToolStates, tool' = [tool EXCEPT ![c] = s],
         s.client = tool[c].client, CallFits(c, s), tool[c].pc # "done",
         UNCHANGED <<sessions, holder, adapter>>
  PROVE  SessionsInv'
<1>1. tool' \in [ToolCalls -> ToolStates] /\ tool'[c] = s /\ \A d \in ToolCalls : d # c => tool'[d] = tool[d]
  BY SessionsTool
<1>2. \A d \in ToolCalls : tool'[d].client = tool[d].client /\ (tool'[d].pc # "done" => tool[d].pc # "done")
                           /\ CallFits(d, tool'[d])
  BY <1>1 DEF SessionsInv, SessionsFit
<1>3. Launches \subseteq ToolCalls /\ Enders \subseteq ToolCalls
  BY DEF ToolCalls
<1>4. SessionsTypeOK'
  BY <1>1 DEF SessionsInv, SessionsTypeOK, ToolStates
<1>5. SessionsFit(sessions', adapter', tool')
  BY <1>2, <1>3 DEF SessionsInv, SessionsFit
<1> QED
  BY <1>4, <1>5 DEF SessionsInv

\* A call asks for the lock.
LEMMA SessionsArrives ==
  ASSUME SessionsInv, NEW c \in ToolCalls, StartTool(c)
  PROVE  SessionsInv'
<1>1. tool[c] \in ToolStates /\ CallFits(c, tool[c]) /\ tool \in [ToolCalls -> ToolStates]
  BY SessionsFacts
<1>2. PICK n \in Names : tool' = [tool EXCEPT ![c].pc = "lock", ![c].name = n]
  BY DEF StartTool
<1> DEFINE s == [[tool[c] EXCEPT !.pc = "lock"] EXCEPT !.name = n]
<1>3. tool[c].pc = "new" /\ tool' = [tool EXCEPT ![c] = s] /\ UNCHANGED <<sessions, holder, adapter>>
  BY <1>1, <1>2 DEF StartTool, Doing
<1>4. s \in ToolStates /\ s.pc = "lock" /\ s.name = n /\ s.client = tool[c].client
  BY <1>1 DEF ToolStates
<1>5. CallFits(c, s)
  BY <1>1, <1>3, <1>4 DEF CallFits
<1> HIDE DEF s
<1> QED
  BY <1>3, <1>4, <1>5, SessionsRests

\* dap_launch looks whether the name is free, and keeps nothing of it.
LEMMA SessionsCheck ==
  ASSUME SessionsInv, NEW c \in ToolCalls, CheckName(c)
  PROVE  SessionsInv'
<1> DEFINE pc == IF Found(c) = None THEN "spawn" ELSE "done"
           s == [tool[c] EXCEPT !.pc = pc]
<1>1. tool[c] \in ToolStates /\ CallFits(c, tool[c]) /\ tool \in [ToolCalls -> ToolStates]
  BY SessionsFacts
<1>2. c \in Launches /\ tool[c].pc = "lock" /\ tool' = [tool EXCEPT ![c] = s]
      /\ UNCHANGED <<sessions, holder, adapter>>
  BY <1>1 DEF CheckName, Enters, Doing
<1>3. pc \in {"spawn", "done"}
  OBVIOUS
<1> HIDE DEF pc
<1>4. s \in ToolStates /\ s.pc = pc /\ s.name = tool[c].name /\ s.client = tool[c].client
  BY <1>1, <1>3 DEF ToolStates
<1>5. CallFits(c, s)
  BY <1>1, <1>2, <1>3, <1>4 DEF CallFits
<1> HIDE DEF s
<1> QED
  BY <1>2, <1>4, <1>5, SessionsRests

\* The launch dance goes well or not; the client stays the launch's own.
LEMMA SessionsDance ==
  ASSUME SessionsInv, NEW c \in ToolCalls, LaunchDance(c)
  PROVE  SessionsInv'
<1>1. tool[c] \in ToolStates /\ CallFits(c, tool[c]) /\ tool \in [ToolCalls -> ToolStates]
  BY SessionsFacts
<1>2. PICK pc \in {"insert", "disconnect"} : tool' = [tool EXCEPT ![c].pc = pc]
  BY DEF LaunchDance
<1> DEFINE s == [tool[c] EXCEPT !.pc = pc]
<1>3. tool[c].pc = "launch" /\ tool' = [tool EXCEPT ![c] = s] /\ UNCHANGED <<sessions, holder, adapter>>
  BY <1>1, <1>2 DEF LaunchDance, Doing
<1>4. s \in ToolStates /\ s.pc = pc /\ s.name = tool[c].name /\ s.client = tool[c].client
  BY <1>1 DEF ToolStates
<1>5. CallFits(c, s)
  BY <1>1, <1>3, <1>4 DEF CallFits
<1> HIDE DEF s
<1> QED
  BY <1>3, <1>4, <1>5, SessionsRests

\* The parts of the invariant make it up.
LEMMA SessionsJoin ==
  ASSUME sessions' \in [Names -> Launches \cup {None}], holder' \in Enders \cup {None},
         adapter' \in [Launches -> AdapterStates], tool' \in [ToolCalls -> ToolStates],
         SessionsFit(sessions', adapter', tool')
  PROVE  SessionsInv'
BY DEF SessionsInv, SessionsTypeOK, ToolStates, AdapterStates

\* The adapter of a launch: a client nobody else has.
LEMMA SessionsSpawns ==
  ASSUME SessionsInv, NEW c \in ToolCalls, SpawnAdapter(c)
  PROVE  SessionsInv'
<1>0. /\ tool[c] \in ToolStates /\ CallFits(c, tool[c]) /\ tool \in [ToolCalls -> ToolStates]
      /\ adapter \in [Launches -> AdapterStates] /\ sessions \in [Names -> Launches \cup {None}]
      /\ holder \in Enders \cup {None} /\ None \notin Launches
      /\ Launches \subseteq ToolCalls /\ Enders \subseteq ToolCalls /\ \A e \in Enders : e \notin Launches
  BY SessionsFacts
<1>1. tool[c].pc = "spawn" /\ UNCHANGED <<sessions, holder>>
  BY DEF SpawnAdapter, Doing
<1>2. c \in Launches /\ tool[c].client = None /\ tool[c].name \in Names
  BY <1>0, <1>1 DEF CallFits
<1>3. CASE tool' = [tool EXCEPT ![c].pc = "done"] /\ adapter' = adapter
  <2> DEFINE s == [tool[c] EXCEPT !.pc = "done"]
  <2>1. tool' = [tool EXCEPT ![c] = s]
    BY <1>0, <1>3
  <2>2. s \in ToolStates /\ s.pc = "done" /\ s.client = tool[c].client
    BY <1>0 DEF ToolStates
  <2>3. CallFits(c, s)
    BY <1>2, <2>2 DEF CallFits
  <2> HIDE DEF s
  <2>4. tool[c].pc # "done"
    BY <1>1
  <2> QED
    BY <1>1, <1>3, <2>1, <2>2, <2>3, <2>4, SessionsRests
<1>4. CASE tool' = [tool EXCEPT ![c].pc = "launch", ![c].client = c] /\ adapter' = [adapter EXCEPT ![c] = "runs"]
  <2> DEFINE s == [[tool[c] EXCEPT !.pc = "launch"] EXCEPT !.client = c]
  <2>1. tool' = [tool EXCEPT ![c] = s]
    BY <1>0, <1>4
  <2>2. s \in ToolStates /\ s.pc = "launch" /\ s.client = c /\ s.name = tool[c].name
    BY <1>0, <1>2 DEF ToolStates
  <2> HIDE DEF s
  <2>3. tool' \in [ToolCalls -> ToolStates] /\ tool'[c] = s /\ \A d \in ToolCalls : d # c => tool'[d] = tool[d]
    BY <2>1, <2>2, SessionsTool
  <2>4. adapter' \in [Launches -> AdapterStates] /\ adapter'[c] = "runs" /\ adapter'[c] \in Up
        /\ \A k \in Launches : k # c => adapter'[k] = adapter[k]
    BY <1>0, <1>2, <1>4 DEF AdapterStates, Up
  <2>5. CallFits(c, s)
    BY <1>2, <2>2 DEF CallFits
  <2>6. (\A n \in Names : sessions[n] # c) /\ (\A d \in ToolCalls : tool[d].client = c => d = c)
    BY <1>1, <1>2 DEF SessionsInv, SessionsFit
  <2>7. SessionsFit(sessions', adapter', tool')
    <3>1. \A n \in Names : sessions[n] # None => adapter'[sessions[n]] \in Up
      BY <1>0, <2>4, <2>6 DEF SessionsInv, SessionsFit
    <3>2. \A n \in Names, e \in Enders : sessions[n] # None => tool'[e].client # sessions[n]
      BY <1>0, <1>2, <2>3 DEF SessionsInv, SessionsFit
    <3>3. ASSUME NEW k \in Launches, adapter'[k] = "runs"
          PROVE  (\E n \in Names : sessions[n] = k) \/ (\E d \in ToolCalls : tool'[d].client = k)
      <4>1. CASE k = c
        BY <2>2, <2>3, <4>1
      <4>2. CASE k # c
        <5>1. (\E n \in Names : sessions[n] = k) \/ (\E d \in ToolCalls : tool[d].client = k)
          BY <2>4, <3>3, <4>2 DEF SessionsInv, SessionsFit
        <5> QED
          BY <1>0, <1>2, <2>3, <5>1
      <4> QED
        BY <4>1, <4>2
    <3>4. \A d \in ToolCalls : CallFits(d, tool'[d])
      BY <2>3, <2>5 DEF SessionsInv, SessionsFit
    <3>5. \A d \in Launches \cup Enders : tool'[d].client # None => adapter'[tool'[d].client] \in Up
      <4> SUFFICES ASSUME NEW d \in Launches \cup Enders, tool'[d].client # None
                   PROVE  adapter'[tool'[d].client] \in Up
        OBVIOUS
      <4>1. CASE d = c
        BY <2>2, <2>3, <2>4, <4>1
      <4>2. CASE d # c
        <5>1. d \in ToolCalls /\ tool'[d] = tool[d] /\ tool[d] \in ToolStates
          BY <1>0, <2>3, <4>2
        <5>2. adapter[tool[d].client] \in Up /\ tool[d].client \in Launches
          BY <5>1 DEF SessionsInv, SessionsFit, ToolStates
        <5> QED
          BY <2>4, <5>1, <5>2
      <4> QED
        BY <4>1, <4>2
    <3>6. \A k \in Launches : tool'[k].pc # "done" =>
            (\A n \in Names : sessions[n] # k) /\ (\A d \in ToolCalls : tool'[d].client = k => d = k)
      <4> SUFFICES ASSUME NEW k \in Launches, tool'[k].pc # "done"
                   PROVE  (\A n \in Names : sessions[n] # k) /\ (\A d \in ToolCalls : tool'[d].client = k => d = k)
        OBVIOUS
      <4>1. tool[k].pc # "done"
        BY <1>0, <1>1, <2>3
      <4>2. (\A n \in Names : sessions[n] # k) /\ (\A d \in ToolCalls : tool[d].client = k => d = k)
        BY <4>1 DEF SessionsInv, SessionsFit
      <4> QED
        BY <2>2, <2>3, <4>2
    <3>7. \A d, e \in Enders : tool'[d].client = tool'[e].client /\ tool'[d].client # None => d = e
      BY <1>0, <1>2, <2>3 DEF SessionsInv, SessionsFit
    <3>8. sessions' = sessions /\ \A n, m \in Names : sessions[n] = sessions[m] /\ sessions[n] # None => n = m
      BY <1>1 DEF SessionsInv, SessionsFit
    <3> QED
      BY <3>1, <3>2, <3>3, <3>4, <3>5, <3>6, <3>7, <3>8 DEF SessionsFit
  <2>8. sessions' \in [Names -> Launches \cup {None}] /\ holder' \in Enders \cup {None}
    BY <1>0, <1>1
  <2> QED
    BY <2>3, <2>4, <2>7, <2>8, SessionsJoin
<1> QED
  BY <1>3, <1>4 DEF SpawnAdapter

\* A client nobody reaches any more is dropped, and no other.
LEMMA SessionsDrop ==
  ASSUME NEW a \in [Launches -> AdapterStates], NEW b, NEW reached,
         b = [k \in Launches |-> IF a[k] = "runs" /\ k \notin reached THEN "ended" ELSE a[k]]
  PROVE  /\ b \in [Launches -> AdapterStates]
         /\ \A k \in Launches : /\ b[k] = "runs" => a[k] = "runs" /\ k \in reached
                                /\ a[k] \in Up /\ k \in reached => b[k] \in Up
BY DEF AdapterStates, Up

\* The conjuncts of the invariant, for use one by one.
LEMMA SessionsParts ==
  ASSUME SessionsInv
  PROVE  /\ \A n, m \in Names : sessions[n] = sessions[m] /\ sessions[n] # None => n = m
         /\ \A n \in Names : sessions[n] # None => adapter[sessions[n]] \in Up
         /\ \A n \in Names, e \in Enders : sessions[n] # None => tool[e].client # sessions[n]
         /\ \A k \in Launches : adapter[k] = "runs" =>
              (\E n \in Names : sessions[n] = k) \/ (\E c \in ToolCalls : tool[c].client = k)
         /\ \A c \in ToolCalls : CallFits(c, tool[c])
         /\ \A c \in Launches \cup Enders : tool[c].client # None => adapter[tool[c].client] \in Up
         /\ \A k \in Launches : tool[k].pc # "done" =>
              (\A n \in Names : sessions[n] # k) /\ (\A c \in ToolCalls : tool[c].client = k => c = k)
         /\ \A c, e \in Enders : tool[c].client = tool[e].client /\ tool[c].client # None => c = e
BY DEF SessionsInv, SessionsFit

\* A call lets go of its client and is done.
LEMMA SessionsLeaves ==
  ASSUME SessionsInv, NEW c \in ToolCalls, tool' = [tool EXCEPT ![c].pc = "done", ![c].client = None]
  PROVE  /\ tool' \in [ToolCalls -> ToolStates]
         /\ tool'[c].pc = "done" /\ tool'[c].client = None
         /\ \A d \in ToolCalls : d # c => tool'[d] = tool[d]
         /\ \A d \in ToolCalls : CallFits(d, tool'[d])
         /\ \A d \in ToolCalls : tool'[d].client # None => d # c /\ tool'[d].client = tool[d].client
         /\ \A d \in ToolCalls : tool'[d].pc # "done" => d # c /\ tool[d].pc # "done"
<1> DEFINE s == [[tool[c] EXCEPT !.pc = "done"] EXCEPT !.client = None]
<1>1. tool[c] \in ToolStates /\ tool \in [ToolCalls -> ToolStates]
  BY SessionsFacts
<1>2. tool' = [tool EXCEPT ![c] = s]
  BY <1>1
<1>3. s \in ToolStates /\ s.pc = "done" /\ s.client = None
  BY <1>1 DEF ToolStates
<1>4. CallFits(c, s)
  BY <1>3 DEF CallFits
<1> HIDE DEF s
<1>5. tool' \in [ToolCalls -> ToolStates] /\ tool'[c] = s /\ \A d \in ToolCalls : d # c => tool'[d] = tool[d]
  BY <1>2, <1>3, SessionsTool
<1>6. \A d \in ToolCalls : CallFits(d, tool'[d])
  BY <1>4, <1>5, SessionsParts
<1> QED
  BY <1>3, <1>5, <1>6

\* dap_launch puts its client in the map; the one it replaces is dropped if nobody uses it.
LEMMA SessionsInsert ==
  ASSUME SessionsInv, NEW c \in ToolCalls, InsertSession(c)
  PROVE  SessionsInv'
<1>0. /\ tool[c] \in ToolStates /\ CallFits(c, tool[c]) /\ tool \in [ToolCalls -> ToolStates]
      /\ adapter \in [Launches -> AdapterStates] /\ sessions \in [Names -> Launches \cup {None}]
      /\ holder \in Enders \cup {None} /\ None \notin Launches
      /\ Launches \subseteq ToolCalls /\ Enders \subseteq ToolCalls /\ \A e \in Enders : e \notin Launches
  BY SessionsFacts
<1> DEFINE x == tool[c].name
<1>1. tool[c].pc = "insert" /\ holder' = holder /\ sessions' = [sessions EXCEPT ![x] = c]
      /\ tool' = [tool EXCEPT ![c].pc = "done", ![c].client = None] /\ adapter' = DropClients(sessions', tool')
  BY DEF InsertSession, Doing
<1>2. c \in Launches /\ x \in Names /\ tool[c].client = c
  BY <1>0, <1>1 DEF CallFits
<1> HIDE DEF x
<1>3. sessions' \in [Names -> Launches \cup {None}] /\ sessions'[x] = c
      /\ \A n \in Names : n # x => sessions'[n] = sessions[n]
  BY <1>0, <1>1, <1>2
<1>4. adapter' \in [Launches -> AdapterStates] /\ \A k \in Launches :
        /\ adapter'[k] = "runs" => /\ adapter[k] = "runs"
                                   /\ (\E n \in Names : sessions'[n] = k) \/ (\E d \in ToolCalls : tool'[d].client = k)
        /\ /\ adapter[k] \in Up
           /\ (\E n \in Names : sessions'[n] = k) \/ (\E d \in ToolCalls : tool'[d].client = k)
           => adapter'[k] \in Up
  <2> DEFINE reached == {sessions'[n] : n \in Names} \cup {tool'[d].client : d \in ToolCalls}
  <2>1. adapter' = [k \in Launches |-> IF adapter[k] = "runs" /\ k \notin reached THEN "ended" ELSE adapter[k]]
    BY <1>1 DEF DropClients, Reached
  <2>2. \A k \in Launches : k \in reached <=>
          (\E n \in Names : sessions'[n] = k) \/ (\E d \in ToolCalls : tool'[d].client = k)
    OBVIOUS
  <2> HIDE DEF reached
  <2>3. adapter' \in [Launches -> AdapterStates]
        /\ \A k \in Launches : /\ adapter'[k] = "runs" => adapter[k] = "runs" /\ k \in reached
                               /\ adapter[k] \in Up /\ k \in reached => adapter'[k] \in Up
    BY <1>0, <2>1, SessionsDrop
  <2> QED
    BY <2>2, <2>3
<1>5. /\ tool' \in [ToolCalls -> ToolStates]
      /\ tool'[c].pc = "done" /\ tool'[c].client = None
      /\ \A d \in ToolCalls : d # c => tool'[d] = tool[d]
      /\ \A d \in ToolCalls : CallFits(d, tool'[d])
      /\ \A d \in ToolCalls : tool'[d].client # None => d # c /\ tool'[d].client = tool[d].client
      /\ \A d \in ToolCalls : tool'[d].pc # "done" => d # c /\ tool[d].pc # "done"
  BY <1>1, SessionsLeaves
<1>6. (\A n \in Names : sessions[n] # c) /\ (\A d \in ToolCalls : tool[d].client = c => d = c) /\ adapter[c] \in Up
  BY <1>0, <1>1, <1>2, SessionsParts
<1>7. SessionsFit(sessions', adapter', tool')
  <2>1. \A n, m \in Names : sessions'[n] = sessions'[m] /\ sessions'[n] # None => n = m
    BY <1>3, <1>6, SessionsParts
  <2>2. ASSUME NEW n \in Names, sessions'[n] # None PROVE adapter'[sessions'[n]] \in Up
    <3>1. sessions'[n] \in Launches /\ adapter[sessions'[n]] \in Up
      BY <1>3, <1>6, <2>2, SessionsParts
    <3> QED
      BY <1>4, <3>1
  <2>3. ASSUME NEW n \in Names, NEW e \in Enders, sessions'[n] # None PROVE tool'[e].client # sessions'[n]
    <3>1. e # c /\ tool'[e] = tool[e] /\ tool[e].client # c
      BY <1>0, <1>2, <1>5, <1>6
    <3> QED
      BY <1>3, <2>3, <3>1, SessionsParts
  <2>4. ASSUME NEW d \in Launches \cup Enders, tool'[d].client # None PROVE adapter'[tool'[d].client] \in Up
    <3>1. d \in ToolCalls /\ tool'[d].client = tool[d].client /\ tool'[d].client \in Launches
      BY <1>0, <1>5, <2>4 DEF ToolStates
    <3>2. adapter[tool[d].client] \in Up
      BY <2>4, <3>1, SessionsParts
    <3> QED
      BY <1>4, <3>1, <3>2
  <2>5. ASSUME NEW k \in Launches, tool'[k].pc # "done"
        PROVE  (\A n \in Names : sessions'[n] # k) /\ (\A d \in ToolCalls : tool'[d].client = k => d = k)
    <3>1. k # c /\ tool[k].pc # "done" /\ k # None
      BY <1>0, <1>5, <2>5
    <3>2. (\A n \in Names : sessions[n] # k) /\ (\A d \in ToolCalls : tool[d].client = k => d = k)
      BY <3>1, SessionsParts
    <3> QED
      BY <1>3, <1>5, <3>1, <3>2
  <2>6. \A d, e \in Enders : tool'[d].client = tool'[e].client /\ tool'[d].client # None => d = e
    <3> SUFFICES ASSUME NEW d \in Enders, NEW e \in Enders, tool'[d].client = tool'[e].client, tool'[d].client # None
                 PROVE  d = e
      OBVIOUS
    <3>1. tool'[d].client = tool[d].client /\ tool'[e].client = tool[e].client
      BY <1>0, <1>5
    <3> QED
      BY <3>1, SessionsParts
  <2> QED
    BY <1>4, <1>5, <2>1, <2>2, <2>3, <2>4, <2>5, <2>6 DEF SessionsFit
<1>8. holder' \in Enders \cup {None}
  BY <1>0, <1>1
<1>9. /\ sessions' \in [Names -> Launches \cup {None}] /\ adapter' \in [Launches -> AdapterStates]
      /\ tool' \in [ToolCalls -> ToolStates]
  BY <1>3, <1>4, <1>5
<1> QED
  BY <1>7, <1>8, <1>9, SessionsJoin

\* A session tool is done with its client.
LEMMA SessionsUses ==
  ASSUME SessionsInv, NEW c \in ToolCalls, UseClient(c)
  PROVE  SessionsInv'
<1>0. /\ tool[c] \in ToolStates /\ CallFits(c, tool[c]) /\ tool \in [ToolCalls -> ToolStates]
      /\ adapter \in [Launches -> AdapterStates] /\ sessions \in [Names -> Launches \cup {None}]
      /\ holder \in Enders \cup {None} /\ None \notin Launches
      /\ Launches \subseteq ToolCalls /\ Enders \subseteq ToolCalls
      /\ (\A e \in Enders : e \notin Launches /\ e \notin Users) /\ \A u \in Users : u \notin Launches
  BY SessionsFacts
<1>1. tool[c].pc = "use" /\ holder' = holder /\ sessions' = sessions
      /\ tool' = [tool EXCEPT ![c].pc = "done", ![c].client = None] /\ adapter' = DropClients(sessions, tool')
  BY DEF UseClient, Doing
<1>2. c \in Users /\ c \notin Launches /\ c \notin Enders
  BY <1>0, <1>1 DEF CallFits
<1>4. adapter' \in [Launches -> AdapterStates] /\ \A k \in Launches :
        /\ adapter'[k] = "runs" => /\ adapter[k] = "runs"
                                   /\ (\E n \in Names : sessions[n] = k) \/ (\E d \in ToolCalls : tool'[d].client = k)
        /\ /\ adapter[k] \in Up
           /\ (\E n \in Names : sessions[n] = k) \/ (\E d \in ToolCalls : tool'[d].client = k)
           => adapter'[k] \in Up
  <2> DEFINE reached == {sessions[n] : n \in Names} \cup {tool'[d].client : d \in ToolCalls}
  <2>1. adapter' = [k \in Launches |-> IF adapter[k] = "runs" /\ k \notin reached THEN "ended" ELSE adapter[k]]
    BY <1>1 DEF DropClients, Reached
  <2>2. \A k \in Launches : k \in reached <=>
          (\E n \in Names : sessions[n] = k) \/ (\E d \in ToolCalls : tool'[d].client = k)
    OBVIOUS
  <2> HIDE DEF reached
  <2>3. adapter' \in [Launches -> AdapterStates]
        /\ \A k \in Launches : /\ adapter'[k] = "runs" => adapter[k] = "runs" /\ k \in reached
                               /\ adapter[k] \in Up /\ k \in reached => adapter'[k] \in Up
    BY <1>0, <2>1, SessionsDrop
  <2> QED
    BY <2>2, <2>3
<1>5. /\ tool' \in [ToolCalls -> ToolStates]
      /\ tool'[c].pc = "done" /\ tool'[c].client = None
      /\ \A d \in ToolCalls : d # c => tool'[d] = tool[d]
      /\ \A d \in ToolCalls : CallFits(d, tool'[d])
      /\ \A d \in ToolCalls : tool'[d].client # None => d # c /\ tool'[d].client = tool[d].client
      /\ \A d \in ToolCalls : tool'[d].pc # "done" => d # c /\ tool[d].pc # "done"
  BY <1>1, SessionsLeaves
<1>6. \A d \in Launches \cup Enders : d \in ToolCalls /\ tool'[d] = tool[d]
  BY <1>0, <1>2, <1>5
<1>7. SessionsFit(sessions', adapter', tool')
  <2>1. sessions' = sessions
    BY <1>1
  <2>2. ASSUME NEW n \in Names, sessions[n] # None PROVE adapter'[sessions[n]] \in Up
    <3>1. sessions[n] \in Launches /\ adapter[sessions[n]] \in Up
      BY <1>0, <2>2, SessionsParts
    <3> QED
      BY <1>4, <3>1
  <2>3. ASSUME NEW n \in Names, NEW e \in Enders, sessions[n] # None PROVE tool'[e].client # sessions[n]
    BY <1>6, <2>3, SessionsParts
  <2>4. ASSUME NEW d \in Launches \cup Enders, tool'[d].client # None PROVE adapter'[tool'[d].client] \in Up
    <3>1. d \in ToolCalls /\ tool'[d].client = tool[d].client /\ tool'[d].client \in Launches
      BY <1>5, <1>6, <2>4 DEF ToolStates
    <3>2. adapter[tool[d].client] \in Up
      BY <2>4, <3>1, SessionsParts
    <3> QED
      BY <1>4, <3>1, <3>2
  <2>5. ASSUME NEW k \in Launches, tool'[k].pc # "done"
        PROVE  (\A n \in Names : sessions[n] # k) /\ (\A d \in ToolCalls : tool'[d].client = k => d = k)
    <3>1. tool[k].pc # "done" /\ k # None
      BY <1>0, <1>5, <2>5
    <3>2. (\A n \in Names : sessions[n] # k) /\ (\A d \in ToolCalls : tool[d].client = k => d = k)
      BY <3>1, SessionsParts
    <3> QED
      BY <1>5, <3>1, <3>2
  <2>6. \A d, e \in Enders : tool'[d].client = tool'[e].client /\ tool'[d].client # None => d = e
    BY <1>6, SessionsParts
  <2>7. \A n, m \in Names : sessions[n] = sessions[m] /\ sessions[n] # None => n = m
    BY SessionsParts
  <2> QED
    BY <1>4, <1>5, <2>1, <2>2, <2>3, <2>4, <2>5, <2>6, <2>7 DEF SessionsFit
<1>8. holder' \in Enders \cup {None} /\ sessions' \in [Names -> Launches \cup {None}]
  BY <1>0, <1>1
<1>9. adapter' \in [Launches -> AdapterStates] /\ tool' \in [ToolCalls -> ToolStates]
  BY <1>4, <1>5
<1> QED
  BY <1>7, <1>8, <1>9, SessionsJoin

\* A call that has the lock takes the client its name has in the map, or is done at once.
LEMMA SessionsTakes ==
  ASSUME SessionsInv, NEW c \in Users \cup Enders, NEW busy \in {"use", "disconnect"},
         tool[c].pc = "lock",
         busy = "use" => c \in Users, busy = "disconnect" => c \in Enders,
         tool' = [tool EXCEPT ![c].pc = IF Found(c) = None THEN "done" ELSE busy, ![c].client = Found(c)]
  PROVE  /\ tool[c].name \in Names
         /\ tool' \in [ToolCalls -> ToolStates] /\ tool'[c].client = sessions[tool[c].name]
         /\ \A d \in ToolCalls : d # c => tool'[d] = tool[d]
         /\ \A d \in ToolCalls : CallFits(d, tool'[d])
         /\ c \in ToolCalls /\ c \notin Launches /\ tool[c].client = None
<1> DEFINE n == tool[c].name
           pc == IF sessions[n] = None THEN "done" ELSE busy
           s == [[tool[c] EXCEPT !.pc = pc] EXCEPT !.client = sessions[n]]
<1>0. c \in ToolCalls
  BY DEF ToolCalls
<1>1. /\ tool[c] \in ToolStates /\ CallFits(c, tool[c]) /\ tool \in [ToolCalls -> ToolStates]
      /\ sessions \in [Names -> Launches \cup {None}] /\ None \notin Launches
      /\ (\A e \in Enders : e \notin Launches /\ e \notin Users) /\ \A u \in Users : u \notin Launches
  BY <1>0, SessionsFacts
<1>2. pc \in {"done", busy} /\ (pc = "done" <=> sessions[n] = None)
  OBVIOUS
<1>3. n \in Names /\ tool' = [tool EXCEPT ![c] = s]
  BY <1>1 DEF CallFits, Found
<1>9. tool[c].name = n
  OBVIOUS
<1> HIDE DEF pc, n
<1>4. s \in ToolStates /\ s.pc = pc /\ s.name = n /\ s.client = sessions[n]
  BY <1>1, <1>2, <1>3, <1>9 DEF ToolStates
<1> HIDE DEF s
<1>5. c \notin Launches /\ tool[c].client = None
  BY <1>1 DEF CallFits
<1>6. CallFits(c, s)
  BY <1>1, <1>2, <1>3, <1>4, <1>5 DEF CallFits
<1>7. tool' \in [ToolCalls -> ToolStates] /\ tool'[c] = s /\ \A d \in ToolCalls : d # c => tool'[d] = tool[d]
  BY <1>0, <1>3, <1>4, SessionsTool
<1>8. \A d \in ToolCalls : CallFits(d, tool'[d])
  BY <1>6, <1>7, SessionsParts
<1> QED
  BY <1>0, <1>3, <1>4, <1>5, <1>7, <1>8, <1>9

\* A session tool or dap_terminate looks its name up under the lock.
LEMMA SessionsLooks ==
  ASSUME SessionsInv, NEW c \in ToolCalls, Lookup(c)
  PROVE  SessionsInv'
<1>0. /\ adapter \in [Launches -> AdapterStates] /\ sessions \in [Names -> Launches \cup {None}]
      /\ holder \in Enders \cup {None} /\ None \notin Launches
      /\ Launches \subseteq ToolCalls /\ Enders \subseteq ToolCalls
      /\ (\A e \in Enders : e \notin Launches /\ e \notin Users) /\ \A u \in Users : u \notin Launches
  BY SessionsFacts
<1> DEFINE x == tool[c].name
<1>1. c \in Users /\ tool[c].pc = "lock" /\ UNCHANGED <<sessions, holder, adapter>>
      /\ tool' = [tool EXCEPT ![c].pc = IF Found(c) = None THEN "done" ELSE "use", ![c].client = Found(c)]
  BY DEF Lookup, Enters, Doing
<1>2. c \notin Launches /\ c \notin Enders
  BY <1>0, <1>1
<1>3. /\ x \in Names /\ tool' \in [ToolCalls -> ToolStates] /\ tool'[c].client = sessions[x]
      /\ \A d \in ToolCalls : d # c => tool'[d] = tool[d]
      /\ \A d \in ToolCalls : CallFits(d, tool'[d])
      /\ tool[c].client = None
  BY <1>1, SessionsTakes
<1> HIDE DEF x
<1>4. \A d \in Launches \cup Enders : d \in ToolCalls /\ tool'[d] = tool[d]
  BY <1>0, <1>2, <1>3
<1>5. SessionsFit(sessions', adapter', tool')
  <2>1. sessions' = sessions /\ adapter' = adapter
    BY <1>1
  <2>2. \A n \in Names, e \in Enders : sessions[n] # None => tool'[e].client # sessions[n]
    BY <1>4, SessionsParts
  <2>3. ASSUME NEW k \in Launches, adapter[k] = "runs"
        PROVE  (\E n \in Names : sessions[n] = k) \/ (\E d \in ToolCalls : tool'[d].client = k)
    <3>1. (\E n \in Names : sessions[n] = k) \/ (\E d \in ToolCalls : tool[d].client = k)
      BY <2>3, SessionsParts
    <3>2. ASSUME NEW d \in ToolCalls, tool[d].client = k PROVE tool'[d].client = k
      BY <1>0, <1>3, <3>2
    <3> QED
      BY <3>1, <3>2
  <2>4. \A d \in Launches \cup Enders : tool'[d].client # None => adapter[tool'[d].client] \in Up
    BY <1>4, SessionsParts
  <2>5. ASSUME NEW k \in Launches, tool'[k].pc # "done"
        PROVE  (\A n \in Names : sessions[n] # k) /\ (\A d \in ToolCalls : tool'[d].client = k => d = k)
    <3>1. (\A n \in Names : sessions[n] # k) /\ (\A d \in ToolCalls : tool[d].client = k => d = k)
      BY <1>4, <2>5, SessionsParts
    <3> QED
      BY <1>3, <3>1
  <2>6. \A d, e \in Enders : tool'[d].client = tool'[e].client /\ tool'[d].client # None => d = e
    BY <1>4, SessionsParts
  <2>7. \A n, m \in Names : sessions[n] = sessions[m] /\ sessions[n] # None => n = m
    BY SessionsParts
  <2>8. \A n \in Names : sessions[n] # None => adapter[sessions[n]] \in Up
    BY SessionsParts
  <2> QED
    BY <1>3, <2>1, <2>2, <2>3, <2>4, <2>5, <2>6, <2>7, <2>8 DEF SessionsFit
<1>6. /\ sessions' \in [Names -> Launches \cup {None}] /\ holder' \in Enders \cup {None}
      /\ adapter' \in [Launches -> AdapterStates] /\ tool' \in [ToolCalls -> ToolStates]
  BY <1>0, <1>1, <1>3
<1> QED
  BY <1>5, <1>6, SessionsJoin

\* dap_terminate takes the entry, and with it the client, which runs and is nobody
\* else's to take down.
LEMMA SessionsRemove ==
  ASSUME SessionsInv, NEW c \in ToolCalls, RemoveSession(c)
  PROVE  SessionsInv'
<1>0. /\ adapter \in [Launches -> AdapterStates] /\ sessions \in [Names -> Launches \cup {None}]
      /\ holder \in Enders \cup {None} /\ None \notin Launches
      /\ Launches \subseteq ToolCalls /\ Enders \subseteq ToolCalls
      /\ (\A e \in Enders : e \notin Launches /\ e \notin Users) /\ \A u \in Users : u \notin Launches
  BY SessionsFacts
<1> DEFINE x == tool[c].name
<1>1. c \in Enders /\ tool[c].pc = "lock" /\ adapter' = adapter
      /\ holder' \in {None, c} /\ sessions' = [sessions EXCEPT ![x] = None]
      /\ tool' = [tool EXCEPT ![c].pc = IF Found(c) = None THEN "done" ELSE "disconnect", ![c].client = Found(c)]
  BY DEF RemoveSession, Enters, Doing
<1>2. c \notin Launches
  BY <1>0, <1>1
<1>3. /\ x \in Names /\ tool' \in [ToolCalls -> ToolStates] /\ tool'[c].client = sessions[x]
      /\ \A d \in ToolCalls : d # c => tool'[d] = tool[d]
      /\ \A d \in ToolCalls : CallFits(d, tool'[d])
      /\ tool[c].client = None
  BY <1>1, SessionsTakes
<1> HIDE DEF x
<1>4. sessions' \in [Names -> Launches \cup {None}] /\ sessions'[x] = None
      /\ \A n \in Names : n # x => sessions'[n] = sessions[n]
  BY <1>0, <1>1, <1>3
<1>5. SessionsFit(sessions', adapter', tool')
  <2>1. \A n, m \in Names : sessions'[n] = sessions'[m] /\ sessions'[n] # None => n = m
    BY <1>4, SessionsParts
  <2>2. \A n \in Names : sessions'[n] # None => adapter[sessions'[n]] \in Up
    BY <1>4, SessionsParts
  <2>3. ASSUME NEW n \in Names, NEW e \in Enders, sessions'[n] # None PROVE tool'[e].client # sessions'[n]
    <3>1. n # x /\ sessions'[n] = sessions[n] /\ sessions[n] # None
      BY <1>4, <2>3
    <3>2. CASE e = c
      <4>1. sessions[x] # sessions[n]
        BY <1>3, <3>1, SessionsParts
      <4> QED
        BY <1>3, <3>1, <3>2, <4>1
    <3>3. CASE e # c
      BY <1>0, <1>3, <3>1, <3>3, SessionsParts
    <3> QED
      BY <3>2, <3>3
  <2>4. ASSUME NEW k \in Launches, adapter[k] = "runs"
        PROVE  (\E n \in Names : sessions'[n] = k) \/ (\E d \in ToolCalls : tool'[d].client = k)
    <3>1. (\E n \in Names : sessions[n] = k) \/ (\E d \in ToolCalls : tool[d].client = k)
      BY <2>4, SessionsParts
    <3>2. ASSUME NEW d \in ToolCalls, tool[d].client = k PROVE tool'[d].client = k
      BY <1>0, <1>3, <3>2
    <3>3. ASSUME NEW n \in Names, sessions[n] = k PROVE n = x \/ sessions'[n] = k
      BY <1>4, <3>3
    <3>4. sessions[x] = k => tool'[c].client = k
      BY <1>3
    <3> QED
      BY <3>1, <3>2, <3>3, <3>4
  <2>5. ASSUME NEW d \in Launches \cup Enders, tool'[d].client # None PROVE adapter[tool'[d].client] \in Up
    <3>1. CASE d = c
      BY <1>3, <2>5, <3>1, SessionsParts
    <3>2. CASE d # c
      BY <1>0, <1>3, <2>5, <3>2, SessionsParts
    <3> QED
      BY <3>1, <3>2
  <2>6. ASSUME NEW k \in Launches, tool'[k].pc # "done"
        PROVE  (\A n \in Names : sessions'[n] # k) /\ (\A d \in ToolCalls : tool'[d].client = k => d = k)
    <3>1. k # c /\ tool'[k] = tool[k] /\ k # None
      BY <1>0, <1>2, <1>3
    <3>2. (\A n \in Names : sessions[n] # k) /\ (\A d \in ToolCalls : tool[d].client = k => d = k)
      BY <2>6, <3>1, SessionsParts
    <3> QED
      BY <1>3, <1>4, <3>1, <3>2
  <2>7. ASSUME NEW d \in Enders, NEW e \in Enders, tool'[d].client = tool'[e].client, tool'[d].client # None
        PROVE  d = e
    <3>1. sessions[x] # None => tool[d].client # sessions[x] /\ tool[e].client # sessions[x]
      BY <1>3, SessionsParts
    <3>2. tool[d].client = tool[e].client /\ tool[d].client # None => d = e
      BY SessionsParts
    <3>3. d \in ToolCalls /\ e \in ToolCalls
      BY <1>0
    <3> QED
      BY <1>3, <2>7, <3>1, <3>2, <3>3
  <2> QED
    BY <1>1, <1>3, <2>1, <2>2, <2>3, <2>4, <2>5, <2>6, <2>7 DEF SessionsFit
<1>6. holder' \in Enders \cup {None} /\ adapter' \in [Launches -> AdapterStates]
  BY <1>0, <1>1
<1> QED
  BY <1>3, <1>4, <1>5, <1>6, SessionsJoin

\* The adapter taken down is that of a client nobody else answers for.
LEMMA SessionsDisconnect ==
  ASSUME SessionsInv, NEW c \in ToolCalls, Disconnect(c)
  PROVE  SessionsInv'
<1>0. /\ tool[c] \in ToolStates /\ CallFits(c, tool[c]) /\ tool \in [ToolCalls -> ToolStates]
      /\ adapter \in [Launches -> AdapterStates] /\ sessions \in [Names -> Launches \cup {None}]
      /\ holder \in Enders \cup {None} /\ None \notin Launches
      /\ Launches \subseteq ToolCalls /\ Enders \subseteq ToolCalls
      /\ \A e \in Enders : e \notin Launches /\ e \notin Users
  BY SessionsFacts
<1> DEFINE x == tool[c].client
<1>1. tool[c].pc = "disconnect" /\ holder' \in {holder, None} /\ sessions' = sessions
      /\ tool' = [tool EXCEPT ![c].pc = "done", ![c].client = None] /\ adapter' = [adapter EXCEPT ![x] = "ended"]
  BY DEF Disconnect, Doing
<1>2. c \in Launches \cup Enders /\ x \in Launches /\ x # None /\ (c \in Launches => x = c)
  BY <1>0, <1>1 DEF CallFits
<1>3. \A d \in Launches \cup Enders : d # c => tool[d].client # x
  <2> SUFFICES ASSUME NEW d \in Launches \cup Enders, d # c, tool[d].client = x PROVE FALSE
    OBVIOUS
  <2>0. d \in ToolCalls
    BY <1>0
  <2>1. CASE c \in Launches
    BY <1>1, <1>2, <2>0, <2>1, SessionsParts
  <2>2. CASE c \in Enders /\ d \in Enders
    BY <1>2, <2>2, SessionsParts
  <2>3. CASE c \in Enders /\ d \in Launches
    <3>1. CallFits(d, tool[d])
      BY <2>0, SessionsParts
    <3>2. tool[d].pc # "done" /\ x = d
      BY <1>2, <2>3, <3>1 DEF CallFits
    <3> QED
      BY <2>3, <3>2, SessionsParts
  <2> QED
    BY <1>2, <2>1, <2>2, <2>3
<1>4. \A n \in Names : sessions[n] # x
  <2>1. CASE c \in Launches
    BY <1>1, <1>2, <2>1, SessionsParts
  <2>2. CASE c \in Enders
    BY <1>2, <2>2, SessionsParts
  <2> QED
    BY <1>2, <2>1, <2>2
<1>5. /\ tool' \in [ToolCalls -> ToolStates]
      /\ tool'[c].pc = "done" /\ tool'[c].client = None
      /\ \A d \in ToolCalls : d # c => tool'[d] = tool[d]
      /\ \A d \in ToolCalls : CallFits(d, tool'[d])
      /\ \A d \in ToolCalls : tool'[d].client # None => d # c /\ tool'[d].client = tool[d].client
      /\ \A d \in ToolCalls : tool'[d].pc # "done" => d # c /\ tool[d].pc # "done"
  BY <1>1, SessionsLeaves
<1>6. adapter' \in [Launches -> AdapterStates] /\ adapter'[x] = "ended"
      /\ \A k \in Launches : k # x => adapter'[k] = adapter[k]
  BY <1>0, <1>1, <1>2 DEF AdapterStates
<1>7. tool[c].client = x
  OBVIOUS
<1> HIDE DEF x
<1>8. SessionsFit(sessions', adapter', tool')
  <2>1. \A n, m \in Names : sessions[n] = sessions[m] /\ sessions[n] # None => n = m
    BY SessionsParts
  <2>2. ASSUME NEW n \in Names, sessions[n] # None PROVE adapter'[sessions[n]] \in Up
    <3>1. sessions[n] \in Launches /\ sessions[n] # x /\ adapter[sessions[n]] \in Up
      BY <1>0, <1>4, <2>2, SessionsParts
    <3> QED
      BY <1>6, <3>1
  <2>3. ASSUME NEW n \in Names, NEW e \in Enders, sessions[n] # None PROVE tool'[e].client # sessions[n]
    <3>1. tool[e].client # sessions[n] /\ e \in ToolCalls
      BY <1>0, <2>3, SessionsParts
    <3> QED
      BY <1>5, <2>3, <3>1
  <2>4. ASSUME NEW k \in Launches, adapter'[k] = "runs"
        PROVE  (\E n \in Names : sessions[n] = k) \/ (\E d \in ToolCalls : tool'[d].client = k)
    <3>1. k # x /\ adapter[k] = "runs"
      BY <1>6, <2>4
    <3>2. (\E n \in Names : sessions[n] = k) \/ (\E d \in ToolCalls : tool[d].client = k)
      BY <3>1, SessionsParts
    <3>3. ASSUME NEW d \in ToolCalls, tool[d].client = k PROVE tool'[d].client = k
      BY <1>5, <1>7, <3>1, <3>3
    <3> QED
      BY <3>2, <3>3
  <2>5. ASSUME NEW d \in Launches \cup Enders, tool'[d].client # None PROVE adapter'[tool'[d].client] \in Up
    <3>1. d \in ToolCalls /\ d # c /\ tool'[d].client = tool[d].client /\ tool'[d].client \in Launches
      BY <1>0, <1>5, <2>5 DEF ToolStates
    <3>2. adapter[tool[d].client] \in Up /\ tool[d].client # x
      BY <1>3, <2>5, <3>1, SessionsParts
    <3> QED
      BY <1>6, <3>1, <3>2
  <2>6. ASSUME NEW k \in Launches, tool'[k].pc # "done"
        PROVE  (\A n \in Names : sessions[n] # k) /\ (\A d \in ToolCalls : tool'[d].client = k => d = k)
    <3>1. tool[k].pc # "done" /\ k # None
      BY <1>0, <1>5, <2>6
    <3>2. (\A n \in Names : sessions[n] # k) /\ (\A d \in ToolCalls : tool[d].client = k => d = k)
      BY <3>1, SessionsParts
    <3> QED
      BY <1>5, <3>1, <3>2
  <2>7. ASSUME NEW d \in Enders, NEW e \in Enders, tool'[d].client = tool'[e].client, tool'[d].client # None
        PROVE  d = e
    <3>1. tool'[d].client = tool[d].client /\ tool'[e].client = tool[e].client
      BY <1>0, <1>5, <2>7
    <3> QED
      BY <2>7, <3>1, SessionsParts
  <2>8. sessions' = sessions
    BY <1>1
  <2> QED
    BY <1>5, <2>1, <2>2, <2>3, <2>4, <2>5, <2>6, <2>7, <2>8 DEF SessionsFit
<1>9. /\ sessions' \in [Names -> Launches \cup {None}] /\ holder' \in Enders \cup {None}
      /\ adapter' \in [Launches -> AdapterStates] /\ tool' \in [ToolCalls -> ToolStates]
  BY <1>0, <1>1, <1>5, <1>6
<1> QED
  BY <1>8, <1>9, SessionsJoin

\* An adapter that ran has exited; the map and the calls keep its client.
LEMMA SessionsExits ==
  ASSUME SessionsInv, NEW x \in Launches, AdapterExits(x)
  PROVE  SessionsInv'
<1>1. adapter \in [Launches -> AdapterStates] /\ tool \in [ToolCalls -> ToolStates]
      /\ sessions \in [Names -> Launches \cup {None}] /\ holder \in Enders \cup {None}
      /\ Launches \subseteq ToolCalls /\ Enders \subseteq ToolCalls
  BY SessionsTypes, SessionsAssumption DEF SessionsInv, ToolCalls
<1>2. adapter' = [adapter EXCEPT ![x] = "exited"] /\ UNCHANGED <<sessions, holder, tool>>
  BY DEF AdapterExits
<1>3. /\ adapter' \in [Launches -> AdapterStates]
      /\ \A k \in Launches : adapter'[k] = "runs" => adapter[k] = "runs"
      /\ \A k \in Launches : adapter[k] \in Up => adapter'[k] \in Up
  BY <1>1, <1>2 DEF AdapterStates, Up
<1>4. ASSUME NEW n \in Names, sessions[n] # None PROVE adapter'[sessions[n]] \in Up
  BY <1>1, <1>3, <1>4, SessionsParts
<1>5. ASSUME NEW d \in Launches \cup Enders, tool[d].client # None PROVE adapter'[tool[d].client] \in Up
  <2>1. d \in ToolCalls /\ tool[d].client \in Launches
    BY <1>1, <1>5 DEF ToolStates
  <2> QED
    BY <1>3, <1>5, <2>1, SessionsParts
<1>6. SessionsFit(sessions, adapter', tool)
  BY <1>3, <1>4, <1>5, SessionsParts DEF SessionsFit
<1> QED
  BY <1>1, <1>2, <1>3, <1>6, SessionsJoin

\* Every step keeps the invariant.
LEMMA SessionsStepKeeps == SessionsInv /\ [SessionsNext]_sessionsVars => SessionsInv'
<1> SUFFICES ASSUME SessionsInv, [SessionsNext]_sessionsVars PROVE SessionsInv'
  OBVIOUS
<1>1. CASE UNCHANGED sessionsVars
  <2>1. SessionsTypeOK' /\ SessionsFit(sessions', adapter', tool')
    BY <1>1 DEF sessionsVars, SessionsInv, SessionsTypeOK
  <2> QED
    BY <2>1 DEF SessionsInv
<1>2. ASSUME NEW c \in ToolCalls, StartTool(c) PROVE SessionsInv'
  BY <1>2, SessionsArrives
<1>3. ASSUME NEW c \in ToolCalls, ToolStep(c) PROVE SessionsInv'
  BY <1>3, SessionsCheck, SessionsLooks, SessionsRemove,
     SessionsSpawns, SessionsDance, SessionsInsert, SessionsDisconnect, SessionsUses DEF ToolStep
<1>4. ASSUME NEW k \in Launches, AdapterExits(k) PROVE SessionsInv'
  BY <1>4, SessionsExits
<1> QED
  BY <1>1, <1>2, <1>3, <1>4 DEF SessionsNext

-----------------------------------------------------------------------------
(* The cache of decoded indexes *)

\* What a load has read, and what the cache keeps, is at least as new as the time
\* it is kept under; and a time that is noted is not later than the clock.
ScipInv ==
  /\ ScipTypeOK
  /\ \A p \in Paths : index[p] <= writes
  /\ \A p \in Paths : cache[p].mtime > 0 => cache[p].content >= cache[p].mtime
  /\ \A l \in Loads : loading[l].pc # "new" => loading[l].path \in Paths
  /\ \A l \in Loads : loading[l].pc \in {"lookup", "decode"} =>
       /\ loading[l].mtime <= writes
       /\ index[loading[l].path] = 0 \/ index[loading[l].path] >= loading[l].mtime
  /\ \A l \in Loads : loading[l].pc \in {"insert", "done"} => loading[l].content >= loading[l].mtime

ScipLoads == [pc : {"new", "lookup", "decode", "insert", "done", "failed"},
              path : Paths \cup {None}, mtime : Times, content : Times]
ScipEntries == [mtime : Times, content : Times, used : Nat]

\* The times of the clock.
LEMMA ScipTimes == 0 \in Times /\ 1 \in Times /\ Times \subseteq Nat
BY CacheAssumption DEF Times

\* The cache is empty, and every file has been written at time 1.
LEMMA ScipStart == ScipInit => ScipInv
<1> SUFFICES ASSUME ScipInit PROVE ScipInv
  OBVIOUS
<1>1. ScipTypeOK
  BY ScipTimes DEF ScipInit, ScipTypeOK, NotCached
<1> QED
  BY <1>1 DEF ScipInit, ScipInv, NotCached

\* The indexer writes or deletes a file; what has been read of it stays what it was.
LEMMA ScipChange ==
  ASSUME ScipInv, NEW p \in Paths, ChangeIndex(p)
  PROVE  ScipInv'
<1>1. writes' = writes + 1 /\ writes' \in Times /\ writes \in Nat /\ writes' \in Nat
  BY CacheAssumption DEF ChangeIndex, ScipInv, ScipTypeOK, Times
<1>2. cache' = cache /\ loading' = loading /\ uses' = uses
  BY DEF ChangeIndex
<1>3. index \in [Paths -> Times]
  BY DEF ScipInv, ScipTypeOK
<1>4. \E v \in {0, writes'} : index' = [index EXCEPT ![p] = v]
  BY DEF ChangeIndex
<1>5. PICK v \in {0, writes'} : index' = [index EXCEPT ![p] = v]
  BY <1>4
<1>6. \A q \in Paths : index'[q] = IF q = p THEN v ELSE index[q]
  BY <1>3, <1>5
<1>7. index' \in [Paths -> Times]
  BY <1>1, <1>3, <1>5, ScipTimes
<1>8. ScipTypeOK'
  BY <1>1, <1>2, <1>7 DEF ScipInv, ScipTypeOK
<1>9. \A q \in Paths : index'[q] <= writes'
  <2> SUFFICES ASSUME NEW q \in Paths PROVE index'[q] <= writes'
    OBVIOUS
  <2>1. index[q] \in Nat /\ index[q] <= writes
    BY <1>3, ScipTimes DEF ScipInv
  <2>2. v \in Nat /\ v <= writes'
    BY <1>1
  <2> QED
    BY <1>1, <1>6, <2>1, <2>2
<1>10. ASSUME NEW l \in Loads, loading[l].pc \in {"lookup", "decode"}
       PROVE  /\ loading[l].mtime <= writes'
              /\ index'[loading[l].path] = 0 \/ index'[loading[l].path] >= loading[l].mtime
  <2>1. loading[l].mtime <= writes /\ loading[l].path \in Paths /\ loading[l].mtime \in Nat
        /\ (index[loading[l].path] = 0 \/ index[loading[l].path] >= loading[l].mtime)
    BY <1>10, ScipTimes DEF ScipInv, ScipTypeOK
  <2> QED
    BY <2>1, <1>1, <1>6
<1> QED
  BY <1>2, <1>8, <1>9, <1>10 DEF ScipInv

\* A load goes on: what it has noted stays what the invariant says.
LEMMA ScipLoading ==
  ASSUME ScipInv, NEW l \in Loads, NEW s \in ScipLoads, loading' = [loading EXCEPT ![l] = s],
         UNCHANGED <<index, writes>>,
         s.pc # "new", s.path \in Paths,
         s.pc \in {"lookup", "decode"} => s.mtime <= writes /\ (index[s.path] = 0 \/ index[s.path] >= s.mtime),
         s.pc \in {"insert", "done"} => s.content >= s.mtime,
         cache' \in [Paths -> ScipEntries], uses' \in Nat,
         \A p \in Paths : cache'[p].mtime > 0 => cache'[p].content >= cache'[p].mtime
  PROVE  ScipInv'
<1>1. loading' \in [Loads -> ScipLoads] /\ \A k \in Loads : loading'[k] = IF k = l THEN s ELSE loading[k]
  BY DEF ScipInv, ScipTypeOK, ScipLoads
<1>2. ScipTypeOK'
  BY <1>1 DEF ScipInv, ScipTypeOK, ScipLoads, ScipEntries
<1> QED
  BY <1>1, <1>2 DEF ScipInv

\* What Loaded gives.
LEMMA ScipLoaded ==
  ASSUME ScipTypeOK, NEW l \in Loads, NEW pc \in {"new", "lookup", "decode", "insert", "done", "failed"},
         NEW content \in Times
  PROVE  \E s \in ScipLoads :
           /\ Loaded(l, pc, content) = [loading EXCEPT ![l] = s]
           /\ s.pc = pc /\ s.content = content /\ s.path = loading[l].path /\ s.mtime = loading[l].mtime
<1> DEFINE s == [loading[l] EXCEPT !.pc = pc, !.content = content]
<1>1. loading[l] \in ScipLoads
  BY DEF ScipTypeOK, ScipLoads
<1>2. s \in ScipLoads /\ s.pc = pc /\ s.content = content /\ s.path = loading[l].path /\ s.mtime = loading[l].mtime
  BY <1>1 DEF ScipLoads
<1>3. Loaded(l, pc, content) = [loading EXCEPT ![l] = s]
  BY DEF Loaded, ScipTypeOK
<1> QED
  BY <1>2, <1>3

\* A load notes the time of the file as it is.
LEMMA ScipStat ==
  ASSUME ScipInv, NEW l \in Loads, NEW p \in Paths, StatIndex(l, p)
  PROVE  ScipInv'
<1> DEFINE s == [pc |-> IF index[p] = 0 THEN "failed" ELSE "lookup", path |-> p, mtime |-> index[p], content |-> 0]
<1>1. index[p] \in Times /\ index[p] \in Nat /\ index[p] <= writes
  BY ScipTimes DEF ScipInv, ScipTypeOK
<1>2. s \in ScipLoads
  BY <1>1, ScipTimes DEF ScipLoads
<1>3. loading' = [loading EXCEPT ![l] = s] /\ UNCHANGED <<index, writes, cache, uses>>
  BY DEF StatIndex
<1>4. cache \in [Paths -> ScipEntries] /\ uses \in Nat
      /\ \A q \in Paths : cache[q].mtime > 0 => cache[q].content >= cache[q].mtime
  BY DEF ScipInv, ScipTypeOK, ScipEntries
<1>5. s.pc \in {"failed", "lookup"} /\ s.path = p /\ s.mtime = index[p]
  OBVIOUS
<1> HIDE DEF s
<1>6. s.mtime <= writes /\ index[s.path] >= s.mtime
  BY <1>1, <1>5
<1>7. s.pc # "new" /\ s.pc \notin {"insert", "done"} /\ s.path \in Paths
  BY <1>5
<1>8. cache' \in [Paths -> ScipEntries] /\ uses' \in Nat
      /\ \A q \in Paths : cache'[q].mtime > 0 => cache'[q].content >= cache'[q].mtime
  BY <1>3, <1>4
<1> QED
  BY <1>2, <1>3, <1>6, <1>7, <1>8, ScipLoading

\* The lookup finds an entry of the noted time, or none.
LEMMA ScipLookup ==
  ASSUME ScipInv, NEW l \in Loads, LookupHit(l) \/ LookupMiss(l)
  PROVE  ScipInv'
<1>0. ScipTypeOK /\ loading[l].pc = "lookup" /\ loading[l].path \in Paths /\ UNCHANGED <<index, writes>>
      /\ loading[l].mtime \in Nat /\ loading[l].mtime <= writes
      /\ (index[loading[l].path] = 0 \/ index[loading[l].path] >= loading[l].mtime)
  BY ScipTimes DEF ScipInv, ScipTypeOK, LookupHit, LookupMiss
<1>4. cache \in [Paths -> ScipEntries] /\ uses \in Nat
      /\ \A q \in Paths : cache[q].mtime > 0 => cache[q].content >= cache[q].mtime
  BY DEF ScipInv, ScipTypeOK, ScipEntries
<1>1. CASE LookupMiss(l)
  <2>1. PICK s \in ScipLoads :
           /\ Loaded(l, "decode", 0) = [loading EXCEPT ![l] = s]
           /\ s.pc = "decode" /\ s.content = 0 /\ s.path = loading[l].path /\ s.mtime = loading[l].mtime
    BY <1>0, ScipLoaded, ScipTimes
  <2>2. loading' = [loading EXCEPT ![l] = s] /\ cache' = cache /\ uses' = uses
    BY <1>1, <2>1 DEF LookupMiss
  <2> QED
    BY <1>0, <1>4, <2>1, <2>2, ScipLoading
<1>2. CASE LookupHit(l)
  <2> DEFINE p == loading[l].path
  <2>0. p \in Paths /\ cache[p].mtime > 0 /\ cache[p].mtime = loading[l].mtime
    BY <1>0, <1>2 DEF LookupHit, Entries
  <2>1. cache[p] \in ScipEntries /\ cache[p].content \in Times
    BY <2>0, <1>4 DEF ScipEntries
  <2>2. PICK s \in ScipLoads :
           /\ Loaded(l, "done", cache[p].content) = [loading EXCEPT ![l] = s]
           /\ s.pc = "done" /\ s.content = cache[p].content /\ s.path = loading[l].path /\ s.mtime = loading[l].mtime
    <3> DEFINE content == cache[p].content
    <3>1. ScipTypeOK /\ content \in Times
      BY <1>0, <2>1
    <3> HIDE DEF content
    <3>2. \E s \in ScipLoads :
           /\ Loaded(l, "done", content) = [loading EXCEPT ![l] = s]
           /\ s.pc = "done" /\ s.content = content /\ s.path = loading[l].path /\ s.mtime = loading[l].mtime
      BY <3>1, ScipLoaded
    <3> QED
      BY <3>2 DEF content
  <2>3. loading' = Loaded(l, "done", cache[p].content) /\ uses' = uses + 1
        /\ cache' = [cache EXCEPT ![p].used = uses']
    BY <1>2 DEF LookupHit
  <2>4. uses' \in Nat
    BY <1>4, <2>3
  <2>5. \A q \in Paths : cache'[q] \in ScipEntries /\ cache'[q].mtime = cache[q].mtime /\ cache'[q].content = cache[q].content
    BY <1>4, <2>3, <2>4 DEF ScipEntries
  <2>6. cache' \in [Paths -> ScipEntries]
    BY <1>4, <2>3, <2>5
  <2>7. s.content >= s.mtime
    BY <2>0, <2>2, <1>4
  <2>8. s.pc # "new" /\ s.pc \notin {"lookup", "decode"} /\ s.path \in Paths
    BY <1>0, <2>2
  <2>9. \A q \in Paths : cache'[q].mtime > 0 => cache'[q].content >= cache'[q].mtime
    BY <1>4, <2>5
  <2>10. loading' = [loading EXCEPT ![l] = s]
    BY <2>2, <2>3
  <2> HIDE DEF p
  <2> QED
    BY <1>0, <2>2, <2>4, <2>6, <2>7, <2>8, <2>9, <2>10, ScipLoading
<1> QED
  BY <1>1, <1>2

\* The file is decoded: it is not older than the time noted before.
LEMMA ScipDecode ==
  ASSUME ScipInv, NEW l \in Loads, DecodeIndex(l)
  PROVE  ScipInv'
<1> DEFINE p == loading[l].path
<1>0. ScipTypeOK /\ loading[l].pc = "decode" /\ p \in Paths /\ UNCHANGED <<index, writes, cache, uses>>
      /\ loading[l].mtime \in Nat /\ index[p] \in Times /\ index[p] \in Nat
      /\ (index[p] = 0 \/ index[p] >= loading[l].mtime)
  BY ScipTimes DEF ScipInv, ScipTypeOK, DecodeIndex
<1>1. cache \in [Paths -> ScipEntries] /\ uses \in Nat
      /\ \A q \in Paths : cache[q].mtime > 0 => cache[q].content >= cache[q].mtime
  BY DEF ScipInv, ScipTypeOK, ScipEntries
<1> DEFINE to == IF index[p] = 0 THEN "failed" ELSE "insert"
<1>2. PICK s \in ScipLoads :
         /\ Loaded(l, to, index[p]) = [loading EXCEPT ![l] = s]
         /\ s.pc = to /\ s.content = index[p] /\ s.path = loading[l].path /\ s.mtime = loading[l].mtime
  <2>1. ScipTypeOK /\ index[p] \in Times /\ to \in {"failed", "insert"}
    BY <1>0
  <2> DEFINE content == index[p]
  <2>2. content \in Times
    BY <2>1
  <2> HIDE DEF to, p, content
  <2>3. \E s \in ScipLoads :
         /\ Loaded(l, to, content) = [loading EXCEPT ![l] = s]
         /\ s.pc = to /\ s.content = content /\ s.path = loading[l].path /\ s.mtime = loading[l].mtime
    BY <2>1, <2>2, ScipLoaded
  <2> QED
    BY <2>3 DEF content
<1>3. loading' = [loading EXCEPT ![l] = s]
  <2>1. loading' = Loaded(l, to, index[p])
    BY DEF DecodeIndex
  <2> HIDE DEF to, p
  <2> QED
    BY <1>2, <2>1
<1>4. s.pc \in {"failed", "insert"} /\ (s.pc = "insert" => s.content >= s.mtime)
  BY <1>0, <1>2
<1>5. s \in ScipLoads /\ s.pc # "new" /\ s.pc \notin {"lookup", "decode"} /\ s.path \in Paths
        /\ (s.pc \in {"insert", "done"} => s.content >= s.mtime)
  BY <1>0, <1>2, <1>4
<1>6. cache' \in [Paths -> ScipEntries] /\ uses' \in Nat
      /\ \A q \in Paths : cache'[q].mtime > 0 => cache'[q].content >= cache'[q].mtime
  BY <1>0, <1>1
<1>7. UNCHANGED <<index, writes>>
  BY <1>0
<1> HIDE DEF p, to
<1> QED
  BY <1>3, <1>5, <1>6, <1>7, ScipLoading

\* The decoded index is kept under the noted time, and the least recent entry dropped.
LEMMA ScipInsert ==
  ASSUME ScipInv, NEW l \in Loads, InsertEntry(l)
  PROVE  ScipInv'
<1> DEFINE p == loading[l].path
           e == [mtime |-> Stamp(l), content |-> loading[l].content, used |-> uses']
<1>0. ScipTypeOK /\ loading[l].pc = "insert" /\ p \in Paths /\ UNCHANGED <<index, writes>>
      /\ loading[l].mtime \in Times /\ loading[l].content \in Times /\ loading[l].content >= loading[l].mtime
  BY DEF ScipInv, ScipTypeOK, InsertEntry
<1>1. cache \in [Paths -> ScipEntries] /\ uses \in Nat
      /\ \A q \in Paths : cache[q].mtime > 0 => cache[q].content >= cache[q].mtime
  BY DEF ScipInv, ScipTypeOK, ScipEntries
<1>2. uses' = uses + 1 /\ uses' \in Nat
  BY <1>1 DEF InsertEntry
<1>3. e \in ScipEntries /\ e.mtime = loading[l].mtime /\ e.content = loading[l].content
  BY <1>0, <1>2 DEF ScipEntries, Stamp
<1>4. NotCached \in ScipEntries /\ NotCached.mtime = 0
  BY ScipTimes DEF NotCached, ScipEntries
<1>5. cache' = [q \in Paths |-> IF q = p THEN e ELSE IF q \in LeastUsed THEN NotCached ELSE cache[q]]
  BY DEF InsertEntry
<1> HIDE DEF e
<1>6. cache' \in [Paths -> ScipEntries]
  BY <1>1, <1>3, <1>4, <1>5
<1>7. \A q \in Paths : cache'[q].mtime > 0 => cache'[q].content >= cache'[q].mtime
  BY <1>0, <1>1, <1>3, <1>4, <1>5
<1>8. PICK s \in ScipLoads :
         /\ Loaded(l, "done", loading[l].content) = [loading EXCEPT ![l] = s]
         /\ s.pc = "done" /\ s.content = loading[l].content /\ s.path = loading[l].path /\ s.mtime = loading[l].mtime
  <2> DEFINE content == loading[l].content
  <2>1. ScipTypeOK /\ content \in Times
    BY <1>0
  <2> HIDE DEF content
  <2>2. \E s \in ScipLoads :
         /\ Loaded(l, "done", content) = [loading EXCEPT ![l] = s]
         /\ s.pc = "done" /\ s.content = content /\ s.path = loading[l].path /\ s.mtime = loading[l].mtime
    BY <2>1, ScipLoaded
  <2> QED
    BY <2>2 DEF content
<1>11. loading' = Loaded(l, "done", loading[l].content)
  BY DEF InsertEntry
<1>9. loading' = [loading EXCEPT ![l] = s]
  BY <1>8, <1>11
<1>10. s.pc # "new" /\ s.pc \notin {"lookup", "decode"} /\ s.path \in Paths /\ s.content >= s.mtime
  BY <1>0, <1>8
<1> HIDE DEF p
<1> QED
  BY <1>0, <1>2, <1>6, <1>7, <1>8, <1>9, <1>10, ScipLoading

\* Every step keeps the invariant.
LEMMA ScipStepKeeps == ScipInv /\ [ScipNext]_scipVars => ScipInv'
<1> SUFFICES ASSUME ScipInv, [ScipNext]_scipVars PROVE ScipInv'
  OBVIOUS
<1>1. CASE UNCHANGED scipVars
  BY <1>1 DEF scipVars, ScipInv, ScipTypeOK
<1>2. ASSUME NEW p \in Paths, ChangeIndex(p) PROVE ScipInv'
  BY <1>2, ScipChange
<1>3. ASSUME NEW l \in Loads, LoadStep(l) PROVE ScipInv'
  BY <1>3, ScipStat, ScipLookup, ScipDecode, ScipInsert DEF LoadStep
<1> QED
  BY <1>1, <1>2, <1>3 DEF ScipNext

\* A finished load has an index at least as new as the file was when it began.
LEMMA ScipFresh == ScipInv => NoStaleIndex
BY DEF ScipInv, NoStaleIndex

-----------------------------------------------------------------------------
(* The configuration *)

ConfigFiles == [mtime : 0..MaxEdits + 1, keep : 0..MaxKeep \cup {Unreadable}]


\* What a configuration file may hold, and the bound on what it says to keep.
LEMMA ConfigReads ==
  /\ MaxKeep \in Nat /\ MaxEdits \in Nat /\ MaxReadErrors \in Nat /\ MaxKeep >= 1
  /\ DefaultConfig \in ConfigFiles /\ AtLeastOne(MaxKeep) = MaxKeep
  /\ \A n \in 0..MaxKeep : AtLeastOne(n) \in 1..MaxKeep
<1>1. MaxKeep \in Nat /\ MaxEdits \in Nat /\ MaxReadErrors \in Nat /\ MaxKeep >= 1
  BY ReloadAssumption
<1> QED
  BY <1>1 DEF DefaultConfig, ConfigFiles, AtLeastOne

\* The configuration that has been loaded at the start.
LEMMA ConfigStart == ConfigInit => ConfigTypeOK
<1> SUFFICES ASSUME ConfigInit PROVE ConfigTypeOK
  OBVIOUS
<1>1. configFile \in ConfigFiles /\ configFile.keep \in 0..MaxKeep
  BY ConfigReads DEF ConfigInit, ConfigFiles, DefaultConfig
<1>2. keepReady \in 1..AtLeastOne(MaxKeep)
  BY <1>1, ConfigReads DEF ConfigInit
<1>3. liveConfig \in ConfigFiles /\ newConfig \in ConfigFiles
  BY <1>1, ConfigReads DEF ConfigInit
<1>4. 0 \in 0..MaxEdits + 1 /\ 0 \in 0..MaxEdits /\ 0 \in 0..MaxReadErrors
  BY ConfigReads
<1>5. edits = 0 /\ lastMtime = 0 /\ readErrors = 0 /\ reloader = "start" /\ slipped = FALSE
  BY DEF ConfigInit
<1> QED
  BY <1>1, <1>2, <1>3, <1>4, <1>5 DEF ConfigTypeOK, ConfigFiles

\* Somebody edits the file.
LEMMA ConfigEdits ==
  ASSUME ConfigTypeOK, EditConfig
  PROVE  ConfigTypeOK'
<1>1. edits \in 0..MaxEdits /\ edits < MaxEdits /\ edits' = edits + 1 /\ MaxEdits \in Nat /\ slipped \in BOOLEAN
  BY ConfigReads DEF ConfigTypeOK, EditConfig
<1>2. configFile' \in [mtime : {edits + 2}, keep : 0..MaxKeep \cup {Unreadable}] \cup {DefaultConfig}
  BY DEF EditConfig
<1>3. edits + 2 \in 0..MaxEdits + 1 /\ edits' \in 0..MaxEdits
  BY <1>1
<1>4. configFile' \in ConfigFiles
  BY <1>2, <1>3, ConfigReads DEF ConfigFiles
<1>5. slipped' \in BOOLEAN
  BY <1>1 DEF EditConfig
<1>6. UNCHANGED <<liveConfig, keepReady, reloader, lastMtime, newConfig, readErrors>>
  BY DEF EditConfig
<1> QED
  BY <1>3, <1>4, <1>5, <1>6 DEF ConfigTypeOK, ConfigFiles

\* Every step keeps the types; what goes live keeps at least one index.
LEMMA ConfigStepKeeps == ConfigTypeOK /\ [ConfigNext]_configVars => ConfigTypeOK'
<1> SUFFICES ASSUME ConfigTypeOK, [ConfigNext]_configVars PROVE ConfigTypeOK'
  OBVIOUS
<1>0. configFile.mtime \in 0..MaxEdits + 1 /\ configFile.keep \in 0..MaxKeep \cup {Unreadable}
  BY DEF ConfigTypeOK
<1>1. CASE UNCHANGED configVars
  BY <1>1 DEF configVars, ConfigTypeOK
<1>2. CASE FirstStat \/ Poll
  BY <1>0, <1>2 DEF FirstStat, Poll, ConfigTypeOK
<1>3. CASE LoadConfig
  <2>1. configFile.keep \in 0..MaxKeep
    BY <1>0, <1>3 DEF LoadConfig
  <2>2. AtLeastOne(configFile.keep) \in 1..AtLeastOne(MaxKeep)
    BY <2>1, ConfigReads
  <2> QED
    BY <1>3, <2>2 DEF LoadConfig, ConfigTypeOK
<1>4. CASE LoadRejected \/ SwapConfig
  BY <1>4 DEF LoadRejected, SwapConfig, ConfigTypeOK
<1>5. CASE LoadFails
  <2>1. readErrors + 1 \in 0..MaxReadErrors
    BY <1>5, ConfigReads DEF LoadFails, ConfigTypeOK
  <2> QED
    BY <1>5, <2>1 DEF LoadFails, ConfigTypeOK
<1>6. CASE EditConfig
  BY <1>6, ConfigEdits
<1> QED
  BY <1>1, <1>2, <1>3, <1>4, <1>5, <1>6 DEF ConfigNext, ReloaderStep

-----------------------------------------------------------------------------
(* The installer *)

InstallStates == [pc : {"new", "download", "extract", "extracting", "unlink", "place",
                        "record", "installed", "already"},
                  tool : Tools \cup {None}, version : 0..MaxVersion, loaded : [Tools -> 0..MaxVersion]]
AtWork(s) == s.pc \notin {"new", "already", "installed"}
Complete(bin, unp, t, v) == bin[t] = v /\ (t \in Archived => unp[t][v] = "whole")

\* What a call has come to, on a tool it has for itself.
Progress(s, man, bin, unp, ask) ==
  /\ s.version = ask[s.tool] /\ man[s.tool] # ask[s.tool]
  /\ s.pc = "record" => Complete(bin, unp, s.tool, s.version)
  /\ s.pc \in {"unlink", "place"} /\ s.tool \in Archived => unp[s.tool][s.version] = "whole"

\* Two calls at work are both known to be, and so is a tool they share; a call alone
\* has loaded the manifest as it is; the version recorded for an undisturbed tool is
\* there and complete, unless a newer one has been asked for since.
InstallsFit(man, bin, unp, ins, ask, dis, tog) ==
  /\ \A i \in Installs : AtWork(ins[i]) => ins[i].tool \in Tools /\ ins[i].version \in Versions
  /\ \A i, j \in Installs : AtWork(ins[i]) /\ AtWork(ins[j]) /\ i # j =>
       i \in tog /\ (ins[i].tool = ins[j].tool => ins[i].tool \in dis)
  /\ \A i \in Installs : AtWork(ins[i]) /\ i \notin tog => ins[i].loaded = man
  /\ \A t \in Tools \ dis :
       man[t] <= ask[t] /\ (man[t] = ask[t] /\ man[t] # 0 => Complete(bin, unp, t, man[t]))
  /\ \A i \in Installs : AtWork(ins[i]) /\ ins[i].tool \notin dis => Progress(ins[i], man, bin, unp, ask)

InstallerInv ==
  InstallerTypeOK /\ InstallsFit(manifest, binary, unpacked, install, asked, disturbed, together)

Stages == {"none", "part", "whole"}

\* The domains of the variables, named.
LEMMA InstallerTypes ==
  InstallerTypeOK <=>
    /\ manifest \in [Tools -> 0..MaxVersion] /\ binary \in [Tools -> 0..MaxVersion]
    /\ unpacked \in [Tools -> [Versions -> Stages]] /\ install \in [Installs -> InstallStates]
    /\ begun \in 0..MaxCalls /\ asked \in [Tools -> 0..MaxVersion]
    /\ disturbed \subseteq Tools /\ together \subseteq Installs
BY DEF InstallerTypeOK, InstallStates, Stages

\* The versions, and none.
LEMMA InstallerNumbers ==
  /\ MaxVersion \in Nat /\ 0 \in 0..MaxVersion /\ 0 \in 0..MaxCalls
  /\ \A v \in Versions : v \in 0..MaxVersion /\ v \in Nat /\ v # 0
  /\ \A v \in 0..MaxVersion : v \in Nat /\ (v # 0 => v \in Versions)
  /\ None \notin Tools
BY InstallerAssumption DEF Versions

\* Nothing is installed or recorded.
LEMMA InstallerStart == InstallerInit => InstallerInv
<1> SUFFICES ASSUME InstallerInit PROVE InstallerInv
  OBVIOUS
<1>1. NoRecords \in [Tools -> 0..MaxVersion] /\ \A t \in Tools : NoRecords[t] = 0
  BY InstallerNumbers DEF NoRecords
<1>2. Waiting \in InstallStates /\ Waiting.pc = "new"
  BY <1>1, InstallerNumbers DEF Waiting, InstallStates
<1>3. install \in [Installs -> InstallStates] /\ \A i \in Installs : ~AtWork(install[i])
  BY <1>2 DEF InstallerInit, AtWork
<1>4. unpacked \in [Tools -> [Versions -> Stages]] /\ begun \in 0..MaxCalls
  BY InstallerNumbers DEF InstallerInit, Stages
<1>5. InstallerTypeOK
  BY <1>1, <1>3, <1>4, InstallerTypes DEF InstallerInit
<1>6. \A t \in Tools : manifest[t] <= asked[t] /\ manifest[t] = 0
  BY <1>1 DEF InstallerInit
<1> QED
  BY <1>3, <1>5, <1>6 DEF InstallerInv, InstallsFit

\* The conjuncts of the invariant, for use one by one.
LEMMA InstallerParts ==
  ASSUME InstallerInv
  PROVE  /\ manifest \in [Tools -> 0..MaxVersion] /\ binary \in [Tools -> 0..MaxVersion]
         /\ unpacked \in [Tools -> [Versions -> Stages]] /\ install \in [Installs -> InstallStates]
         /\ begun \in 0..MaxCalls /\ asked \in [Tools -> 0..MaxVersion]
         /\ disturbed \subseteq Tools /\ together \subseteq Installs
         /\ \A i \in Installs : AtWork(install[i]) => install[i].tool \in Tools /\ install[i].version \in Versions
         /\ \A i, j \in Installs : AtWork(install[i]) /\ AtWork(install[j]) /\ i # j =>
              i \in together /\ (install[i].tool = install[j].tool => install[i].tool \in disturbed)
         /\ \A i \in Installs : AtWork(install[i]) /\ i \notin together => install[i].loaded = manifest
         /\ \A t \in Tools \ disturbed :
              manifest[t] <= asked[t] /\ (manifest[t] = asked[t] /\ manifest[t] # 0
                                            => Complete(binary, unpacked, t, manifest[t]))
         /\ \A i \in Installs : AtWork(install[i]) /\ install[i].tool \notin disturbed =>
              Progress(install[i], manifest, binary, unpacked, asked)
BY InstallerTypes DEF InstallerInv, InstallsFit

\* The parts of the invariant make it up.
LEMMA InstallerJoin ==
  ASSUME manifest' \in [Tools -> 0..MaxVersion], binary' \in [Tools -> 0..MaxVersion],
         unpacked' \in [Tools -> [Versions -> Stages]], install' \in [Installs -> InstallStates],
         begun' \in 0..MaxCalls, asked' \in [Tools -> 0..MaxVersion],
         disturbed' \subseteq Tools, together' \subseteq Installs,
         InstallsFit(manifest', binary', unpacked', install', asked', disturbed', together')
  PROVE  InstallerInv'
BY DEF InstallerInv, InstallerTypeOK, InstallStates, Stages

\* A call at work becomes s, which differs by how far it is.
LEMMA InstallerTo ==
  ASSUME InstallerInv, NEW i \in Installs,
         NEW pc \in {"download", "extract", "extracting", "unlink", "place", "record", "installed"},
         InstallTo(i, pc)
  PROVE  /\ install' \in [Installs -> InstallStates]
         /\ \A j \in Installs : j # i => install'[j] = install[j]
         /\ install'[i].pc = pc /\ install'[i].tool = install[i].tool
         /\ install'[i].version = install[i].version /\ install'[i].loaded = install[i].loaded
<1> DEFINE s == [install[i] EXCEPT !.pc = pc]
<1>1. install \in [Installs -> InstallStates] /\ install[i] \in InstallStates
  BY InstallerParts
<1>2. install' = [install EXCEPT ![i] = s]
  BY <1>1 DEF InstallTo
<1>3. s \in InstallStates /\ s.pc = pc /\ s.tool = install[i].tool /\ s.version = install[i].version
      /\ s.loaded = install[i].loaded
  BY <1>1 DEF InstallStates
<1> HIDE DEF s
<1>4. install' \in [Installs -> InstallStates] /\ install'[i] = s /\ \A j \in Installs : j # i => install'[j] = install[j]
  BY <1>1, <1>2, <1>3
<1> QED
  BY <1>3, <1>4

\* A call at work goes on with its tool; the manifest and the histories stay.
LEMMA InstallerGoes ==
  ASSUME InstallerInv, NEW i \in Installs,
         NEW pc \in {"download", "extract", "extracting", "unlink", "place", "record"},
         AtWork(install[i]), InstallTo(i, pc),
         UNCHANGED <<manifest, begun, asked, disturbed, together>>,
         binary' \in [Tools -> 0..MaxVersion], unpacked' \in [Tools -> [Versions -> Stages]],
         \A u \in Tools : u # install[i].tool => binary'[u] = binary[u] /\ unpacked'[u] = unpacked[u],
         install[i].tool \notin disturbed =>
           /\ pc = "record" => Complete(binary', unpacked', install[i].tool, install[i].version)
           /\ pc \in {"unlink", "place"} /\ install[i].tool \in Archived =>
                unpacked'[install[i].tool][install[i].version] = "whole"
  PROVE  InstallerInv'
<1> DEFINE t == install[i].tool
<1>1. /\ install' \in [Installs -> InstallStates]
      /\ \A j \in Installs : j # i => install'[j] = install[j]
      /\ install'[i].pc = pc /\ install'[i].tool = t
      /\ install'[i].version = install[i].version /\ install'[i].loaded = install[i].loaded
  BY InstallerTo
<1>2. t \in Tools /\ install[i].version \in Versions
  BY InstallerParts
<1>3. ASSUME NEW j \in Installs, AtWork(install'[j])
      PROVE  AtWork(install[j]) /\ install'[j].tool = install[j].tool
             /\ install'[j].version = install[j].version /\ install'[j].loaded = install[j].loaded
  BY <1>1, <1>3
<1>4. manifest' = manifest /\ asked' = asked /\ disturbed' = disturbed /\ together' = together /\ begun' = begun
  OBVIOUS
<1>5. \A j \in Installs : AtWork(install'[j]) => install'[j].tool \in Tools /\ install'[j].version \in Versions
  BY <1>3, InstallerParts
<1>6. \A j, k \in Installs : AtWork(install'[j]) /\ AtWork(install'[k]) /\ j # k =>
        j \in together /\ (install'[j].tool = install'[k].tool => install'[j].tool \in disturbed)
  <2> SUFFICES ASSUME NEW j \in Installs, NEW k \in Installs, AtWork(install'[j]), AtWork(install'[k]), j # k
               PROVE  j \in together /\ (install'[j].tool = install'[k].tool => install'[j].tool \in disturbed)
    OBVIOUS
  <2> QED
    BY <1>3, InstallerParts
<1>7. \A j \in Installs : AtWork(install'[j]) /\ j \notin together => install'[j].loaded = manifest
  BY <1>3, InstallerParts
<1>8. ASSUME NEW u \in Tools \ disturbed
      PROVE  manifest[u] <= asked[u]
             /\ (manifest[u] = asked[u] /\ manifest[u] # 0 => Complete(binary', unpacked', u, manifest[u]))
  <2>1. manifest[u] <= asked[u]
        /\ (manifest[u] = asked[u] /\ manifest[u] # 0 => Complete(binary, unpacked, u, manifest[u]))
    BY InstallerParts
  <2>2. u = t => manifest[u] # asked[u]
    <3>1. t \notin disturbed => Progress(install[i], manifest, binary, unpacked, asked)
      BY InstallerParts
    <3> QED
      BY <1>8, <3>1 DEF Progress
  <2>3. u # t => binary'[u] = binary[u] /\ unpacked'[u] = unpacked[u]
    OBVIOUS
  <2> HIDE DEF t
  <2> QED
    BY <2>1, <2>2, <2>3 DEF Complete
<1>9. ASSUME NEW j \in Installs, AtWork(install'[j]), install'[j].tool \notin disturbed
      PROVE  Progress(install'[j], manifest, binary', unpacked', asked)
  <2>1. CASE j = i
    <3>1. Progress(install[i], manifest, binary, unpacked, asked)
      BY <1>1, <1>9, <2>1, InstallerParts
    <3>2. install'[i].version = asked[t] /\ manifest[t] # asked[t]
      BY <1>1, <3>1 DEF Progress
    <3> QED
      BY <1>1, <1>9, <2>1, <3>2 DEF Progress
  <2>2. CASE j # i
    <3>1. install'[j] = install[j] /\ AtWork(install[j]) /\ install[j].tool \in Tools
      BY <1>1, <1>9, <2>2, InstallerParts
    <3>2. install[j].tool # t
      BY <1>9, <2>2, <3>1, InstallerParts
    <3>3. Progress(install[j], manifest, binary, unpacked, asked)
      BY <1>9, <3>1, InstallerParts
    <3>4. binary'[install[j].tool] = binary[install[j].tool] /\ unpacked'[install[j].tool] = unpacked[install[j].tool]
      BY <3>1, <3>2
    <3> QED
      BY <3>1, <3>3, <3>4 DEF Progress, Complete
  <2> QED
    BY <2>1, <2>2
<1>10. InstallsFit(manifest', binary', unpacked', install', asked', disturbed', together')
  BY <1>4, <1>5, <1>6, <1>7, <1>8, <1>9 DEF InstallsFit
<1>11. /\ manifest' \in [Tools -> 0..MaxVersion] /\ begun' \in 0..MaxCalls /\ asked' \in [Tools -> 0..MaxVersion]
       /\ disturbed' \subseteq Tools /\ together' \subseteq Installs
  BY <1>4, InstallerParts
<1> QED
  BY <1>1, <1>10, <1>11, InstallerJoin

\* What the steps of a call at work do to its tool's binary and directory.
LEMMA InstallerWorks ==
  ASSUME InstallerInv, NEW i \in Installs,
         Download(i) \/ ExtractPart(i) \/ ExtractRest(i) \/ RemoveLink(i) \/ Place(i)
  PROVE  InstallerInv'
<1> DEFINE t == install[i].tool
           v == install[i].version
<1>1. AtWork(install[i])
  BY DEF Download, ExtractPart, ExtractRest, RemoveLink, Place, InstallAt, AtWork
<1>2. t \in Tools /\ v \in Versions /\ v \in 0..MaxVersion /\ 0 \in 0..MaxVersion
  BY <1>1, InstallerParts, InstallerNumbers
<1>3. binary \in [Tools -> 0..MaxVersion] /\ unpacked \in [Tools -> [Versions -> Stages]]
  BY InstallerParts
<1>4. UNCHANGED <<manifest, begun, asked, disturbed, together>>
  BY DEF Download, ExtractPart, ExtractRest, RemoveLink, Place, historyOfInstalls
<1>5. t \notin disturbed => Progress(install[i], manifest, binary, unpacked, asked)
  BY <1>1, InstallerParts
<1>6. ASSUME NEW stage \in Stages, unpacked' = [unpacked EXCEPT ![t][v] = stage]
      PROVE  /\ unpacked' \in [Tools -> [Versions -> Stages]] /\ unpacked'[t][v] = stage
             /\ \A u \in Tools : u # t => unpacked'[u] = unpacked[u]
  BY <1>2, <1>3, <1>6
<1>7. ASSUME NEW w \in 0..MaxVersion, binary' = [binary EXCEPT ![t] = w]
      PROVE  /\ binary' \in [Tools -> 0..MaxVersion] /\ binary'[t] = w
             /\ \A u \in Tools : u # t => binary'[u] = binary[u]
  BY <1>2, <1>3, <1>7
<1>8. "none" \in Stages /\ "part" \in Stages /\ "whole" \in Stages
  BY DEF Stages
<1>9. CASE Download(i)
  <2> DEFINE pc == IF t \in Archived THEN "extract" ELSE "place"
  <2>1. InstallTo(i, pc) /\ binary' = binary
    BY <1>9 DEF Download
  <2>2. unpacked' \in [Tools -> [Versions -> Stages]] /\ \A u \in Tools : u # t => unpacked'[u] = unpacked[u]
    <3>1. CASE t \in Archived
      BY <1>6, <1>8, <1>9, <3>1 DEF Download
    <3>2. CASE t \notin Archived
      BY <1>3, <1>9, <3>2 DEF Download
    <3> QED
      BY <3>1, <3>2
  <2>3. pc \in {"extract", "place"} /\ (pc = "place" => t \notin Archived)
    OBVIOUS
  <2>4. binary' \in [Tools -> 0..MaxVersion] /\ \A u \in Tools : u # t => binary'[u] = binary[u]
    BY <1>3, <2>1
  <2> HIDE DEF pc
  <2> QED
    BY <1>1, <1>4, <2>1, <2>2, <2>3, <2>4, InstallerGoes
<1>10. CASE ExtractPart(i)
  <2>1. InstallTo(i, "extracting") /\ binary' = binary /\ unpacked' = [unpacked EXCEPT ![t][v] = "part"]
    BY <1>10 DEF ExtractPart
  <2>2. unpacked' \in [Tools -> [Versions -> Stages]] /\ \A u \in Tools : u # t => unpacked'[u] = unpacked[u]
    BY <1>6, <1>8, <2>1
  <2>3. binary' \in [Tools -> 0..MaxVersion] /\ \A u \in Tools : u # t => binary'[u] = binary[u]
    BY <1>3, <2>1
  <2> QED
    BY <1>1, <1>4, <2>1, <2>2, <2>3, InstallerGoes
<1>11. CASE ExtractRest(i)
  <2>1. InstallTo(i, "unlink") /\ binary' = binary /\ unpacked' = [unpacked EXCEPT ![t][v] = "whole"]
    BY <1>11 DEF ExtractRest
  <2>2. unpacked' \in [Tools -> [Versions -> Stages]] /\ unpacked'[t][v] = "whole"
        /\ \A u \in Tools : u # t => unpacked'[u] = unpacked[u]
    BY <1>6, <1>8, <2>1
  <2>3. binary' \in [Tools -> 0..MaxVersion] /\ \A u \in Tools : u # t => binary'[u] = binary[u]
    BY <1>3, <2>1
  <2> QED
    BY <1>1, <1>4, <2>1, <2>2, <2>3, InstallerGoes
<1>12. CASE RemoveLink(i)
  <2>1. InstallTo(i, "place") /\ unpacked' = unpacked /\ binary' = [binary EXCEPT ![t] = 0] /\ install[i].pc = "unlink"
    BY <1>12 DEF RemoveLink, InstallAt
  <2>2. unpacked' \in [Tools -> [Versions -> Stages]] /\ \A u \in Tools : u # t => unpacked'[u] = unpacked[u]
    BY <1>3, <2>1
  <2>3. binary' \in [Tools -> 0..MaxVersion] /\ \A u \in Tools : u # t => binary'[u] = binary[u]
    BY <1>2, <1>7, <2>1
  <2>4. t \notin disturbed /\ t \in Archived => unpacked'[t][v] = "whole"
    BY <1>5, <2>1 DEF Progress
  <2> QED
    BY <1>1, <1>4, <2>1, <2>2, <2>3, <2>4, InstallerGoes
<1>13. CASE Place(i)
  <2>1. InstallTo(i, "record") /\ unpacked' = unpacked /\ binary' = [binary EXCEPT ![t] = v] /\ install[i].pc = "place"
    BY <1>13 DEF Place, InstallAt
  <2>2. unpacked' \in [Tools -> [Versions -> Stages]] /\ \A u \in Tools : u # t => unpacked'[u] = unpacked[u]
    BY <1>3, <2>1
  <2>3. binary' \in [Tools -> 0..MaxVersion] /\ binary'[t] = v /\ \A u \in Tools : u # t => binary'[u] = binary[u]
    BY <1>2, <1>7, <2>1
  <2>4. t \notin disturbed => Complete(binary', unpacked', t, v)
    BY <1>5, <2>1, <2>3 DEF Progress, Complete
  <2> QED
    BY <1>1, <1>4, <2>1, <2>2, <2>3, <2>4, InstallerGoes
<1> QED
  BY <1>9, <1>10, <1>11, <1>12, <1>13

\* A call that fails leaves what it has done; it is at work no more.
LEMMA InstallerFails ==
  ASSUME InstallerInv, NEW i \in Installs, InstallFails(i)
  PROVE  InstallerInv'
<1>1. UNCHANGED <<manifest, binary, unpacked, begun, asked, disturbed, together>>
      /\ install' = [install EXCEPT ![i] = Waiting]
  BY DEF InstallFails, historyOfInstalls
<1>2. Waiting \in InstallStates /\ ~AtWork(Waiting)
  BY InstallerNumbers DEF Waiting, NoRecords, InstallStates, AtWork
<1>3. install' \in [Installs -> InstallStates]
      /\ \A j \in Installs : AtWork(install'[j]) => install'[j] = install[j]
  BY <1>1, <1>2, InstallerParts
<1>4. InstallsFit(manifest, binary, unpacked, install', asked, disturbed, together)
  <2>1. \A j \in Installs : AtWork(install'[j]) => install'[j].tool \in Tools /\ install'[j].version \in Versions
    BY <1>3, InstallerParts
  <2>2. ASSUME NEW j \in Installs, NEW k \in Installs, AtWork(install'[j]), AtWork(install'[k]), j # k
        PROVE  j \in together /\ (install'[j].tool = install'[k].tool => install'[j].tool \in disturbed)
    <3>1. install'[j] = install[j] /\ install'[k] = install[k] /\ AtWork(install[j]) /\ AtWork(install[k])
      BY <1>3, <2>2
    <3> QED
      BY <2>2, <3>1, InstallerParts
  <2>3. \A j \in Installs : AtWork(install'[j]) /\ j \notin together => install'[j].loaded = manifest
    BY <1>3, InstallerParts
  <2>4. \A j \in Installs : AtWork(install'[j]) /\ install'[j].tool \notin disturbed =>
          Progress(install'[j], manifest, binary, unpacked, asked)
    BY <1>3, InstallerParts
  <2> QED
    BY <2>1, <2>2, <2>3, <2>4, InstallerParts DEF InstallsFit
<1>5. InstallsFit(manifest', binary', unpacked', install', asked', disturbed', together')
  BY <1>1, <1>4
<1>6. /\ manifest' \in [Tools -> 0..MaxVersion] /\ binary' \in [Tools -> 0..MaxVersion]
      /\ unpacked' \in [Tools -> [Versions -> Stages]]
      /\ begun' \in 0..MaxCalls /\ asked' \in [Tools -> 0..MaxVersion]
      /\ disturbed' \subseteq Tools /\ together' \subseteq Installs
  BY <1>1, InstallerParts
<1> QED
  BY <1>3, <1>5, <1>6, InstallerJoin

\* The save: the record of the call's own tool is right, and the other records are
\* those it has loaded.
LEMMA InstallerSaves ==
  ASSUME InstallerInv, NEW i \in Installs, SaveManifest(i)
  PROVE  /\ InstallerInv'
         /\ install'[i].tool = install[i].tool /\ install'[i].version = install[i].version
         /\ \A j \in Installs : j # i => install'[j] = install[j]
         /\ install[i].tool \in Tools
         /\ install[i].tool \notin disturbed' => Complete(binary', unpacked', install[i].tool, install[i].version)
         /\ i \notin together => \A u \in Tools \ {install[i].tool} : manifest'[u] = manifest[u]
<1> DEFINE t == install[i].tool
           v == install[i].version
           lost == {u \in Tools \ {t} : manifest'[u] # manifest[u]}
<1>1. /\ install[i].pc = "record" /\ AtWork(install[i]) /\ InstallTo(i, "installed")
      /\ manifest' = [install[i].loaded EXCEPT ![t] = v] /\ disturbed' = disturbed \cup lost
      /\ UNCHANGED <<binary, unpacked, begun, asked, together>>
  BY DEF SaveManifest, InstallAt, AtWork, WithRecord
<1>2. t \in Tools /\ v \in Versions /\ v \in 0..MaxVersion /\ v # 0
  BY <1>1, InstallerParts, InstallerNumbers
<1>3. install[i].loaded \in [Tools -> 0..MaxVersion]
  BY InstallerParts DEF InstallStates
<1>4. /\ manifest' \in [Tools -> 0..MaxVersion] /\ manifest'[t] = v
      /\ \A u \in Tools : u # t => manifest'[u] = install[i].loaded[u]
  BY <1>1, <1>2, <1>3
<1>5. /\ install' \in [Installs -> InstallStates]
      /\ \A j \in Installs : j # i => install'[j] = install[j]
      /\ install'[i].pc = "installed" /\ install'[i].tool = t /\ install'[i].version = v
  BY <1>1, InstallerTo
<1>6. \A j \in Installs : AtWork(install'[j]) => j # i /\ install'[j] = install[j]
  BY <1>5 DEF AtWork
<1>7. \A u \in Tools \ {t} : u \notin disturbed' => u \notin disturbed /\ manifest'[u] = manifest[u]
  BY <1>1
<1>8. (t \in disturbed' <=> t \in disturbed) /\ disturbed \subseteq disturbed' /\ disturbed' \subseteq Tools
  BY <1>1, <1>2, InstallerParts
<1>9. t \notin disturbed => Progress(install[i], manifest, binary, unpacked, asked)
  BY <1>1, InstallerParts
<1>10. t \notin disturbed => v = asked[t] /\ Complete(binary, unpacked, t, v)
  BY <1>1, <1>9 DEF Progress
<1> HIDE DEF t, v, lost
<1>11. InstallsFit(manifest', binary, unpacked, install', asked, disturbed', together)
  <2>1. \A j \in Installs : AtWork(install'[j]) => install'[j].tool \in Tools /\ install'[j].version \in Versions
    BY <1>6, InstallerParts
  <2>2. ASSUME NEW j \in Installs, NEW k \in Installs, AtWork(install'[j]), AtWork(install'[k]), j # k
        PROVE  j \in together /\ (install'[j].tool = install'[k].tool => install'[j].tool \in disturbed')
    <3>1. install'[j] = install[j] /\ install'[k] = install[k] /\ AtWork(install[j]) /\ AtWork(install[k])
      BY <1>6, <2>2
    <3>2. j \in together /\ (install[j].tool = install[k].tool => install[j].tool \in disturbed)
      BY <2>2, <3>1, InstallerParts
    <3> QED
      BY <1>8, <3>1, <3>2
  <2>3. ASSUME NEW j \in Installs, AtWork(install'[j]) PROVE j \in together
    BY <1>1, <1>6, <2>3, InstallerParts
  <2>4. ASSUME NEW u \in Tools \ disturbed'
        PROVE  manifest'[u] <= asked[u]
               /\ (manifest'[u] = asked[u] /\ manifest'[u] # 0 => Complete(binary, unpacked, u, manifest'[u]))
    <3>1. CASE u = t
      <4>1. asked[t] = v /\ manifest'[t] = v /\ Complete(binary, unpacked, t, v) /\ v \in Nat
        BY <1>2, <1>4, <1>8, <1>10, <3>1, InstallerNumbers
      <4> QED
        BY <3>1, <4>1
    <3>2. CASE u # t
      <4>1. u \in Tools \ disturbed /\ manifest'[u] = manifest[u]
        BY <1>7, <3>2
      <4> QED
        BY <4>1, InstallerParts
    <3> QED
      BY <3>1, <3>2
  <2>5. ASSUME NEW j \in Installs, AtWork(install'[j]), install'[j].tool \notin disturbed'
        PROVE  Progress(install'[j], manifest', binary, unpacked, asked)
    <3>1. j # i /\ install'[j] = install[j] /\ AtWork(install[j]) /\ install[j].tool \in Tools
      BY <1>6, <2>5, InstallerParts
    <3>2. install[j].tool \notin disturbed
      BY <1>8, <2>5, <3>1
    <3>3. install[j].tool # t
      BY <1>1, <3>1, <3>2, InstallerParts DEF t
    <3>4. manifest'[install[j].tool] = manifest[install[j].tool]
      BY <1>7, <2>5, <3>1, <3>3
    <3>5. Progress(install[j], manifest, binary, unpacked, asked)
      BY <3>1, <3>2, InstallerParts
    <3> QED
      BY <3>1, <3>4, <3>5 DEF Progress
  <2> QED
    BY <2>1, <2>2, <2>3, <2>4, <2>5 DEF InstallsFit
<1>12. InstallsFit(manifest', binary', unpacked', install', asked', disturbed', together')
  BY <1>1, <1>11
<1>13. /\ binary' \in [Tools -> 0..MaxVersion] /\ unpacked' \in [Tools -> [Versions -> Stages]]
       /\ begun' \in 0..MaxCalls /\ asked' \in [Tools -> 0..MaxVersion] /\ together' \subseteq Installs
  BY <1>1, InstallerParts
<1>14. InstallerInv'
  BY <1>4, <1>5, <1>8, <1>12, <1>13, InstallerJoin
<1>15. t \notin disturbed' => Complete(binary', unpacked', t, v)
  BY <1>1, <1>8, <1>10
<1>16. i \notin together => \A u \in Tools \ {t} : manifest'[u] = manifest[u]
  BY <1>1, <1>4, InstallerParts
<1> QED
  BY <1>2, <1>5, <1>14, <1>15, <1>16 DEF t, v

\* A complete binary is found.
LEMMA InstallerFinds ==
  ASSUME InstallerInv, NEW t \in Tools, NEW v \in Versions, Complete(binary, unpacked, t, v)
  PROVE  Exists(t) = {TRUE}
<1>1. binary[t] = v /\ v # 0 /\ (t \in Archived => unpacked[t][binary[t]] = "whole")
  BY InstallerNumbers DEF Complete
<1> QED
  BY <1>1 DEF Exists

\* A call begins: others on its tool, or an older version, make the tool disturbed;
\* otherwise the tool is taken to be there only if it is.
LEMMA InstallerLoads ==
  ASSUME InstallerInv, NEW i \in Installs, NEW t \in Tools, NEW v \in Versions, LoadManifest(i, t, v)
  PROVE  /\ InstallerInv'
         /\ install'[i].tool = t /\ install'[i].version = v /\ manifest' = manifest
         /\ \A j \in Installs : j # i => install'[j] = install[j]
         /\ install'[i].pc = "already" /\ t \notin disturbed' => Complete(binary', unpacked', t, v)
<1> DEFINE others == {j \in Installs : Working(j)}
           lost == {u \in {t} : v < asked[t] \/ \E j \in others : install[j].tool = t}
<1>1. /\ ~AtWork(install[i]) /\ begun' = begun + 1 /\ begun < MaxCalls
      /\ UNCHANGED <<manifest, binary, unpacked>>
      /\ disturbed' = disturbed \cup lost
      /\ asked' = [asked EXCEPT ![t] = IF v > @ THEN v ELSE @]
      /\ together' = IF others = {} THEN together \ {i} ELSE together \cup others \cup {i}
  BY DEF LoadManifest, Working, AtWork
<1>2. PICK there \in Exists(t) :
        install' = [install EXCEPT ![i] =
          [pc |-> IF manifest[t] = v /\ there THEN "already" ELSE "download",
           tool |-> t, version |-> v, loaded |-> manifest]]
  BY DEF LoadManifest
<1>3. v \in Nat /\ v \in 0..MaxVersion /\ v # 0 /\ asked[t] \in Nat
  BY InstallerNumbers, InstallerParts
<1>4. install' \in [Installs -> InstallStates] /\ (\A j \in Installs : j # i => install'[j] = install[j])
      /\ install'[i].tool = t /\ install'[i].version = v /\ install'[i].loaded = manifest
      /\ install'[i].pc = IF manifest[t] = v /\ there THEN "already" ELSE "download"
  <2> DEFINE pc == IF manifest[t] = v /\ there THEN "already" ELSE "download"
             s == [pc |-> pc, tool |-> t, version |-> v, loaded |-> manifest]
  <2>1. pc \in {"already", "download"}
    OBVIOUS
  <2>2. install' = [install EXCEPT ![i] = s]
    BY <1>2
  <2> HIDE DEF pc
  <2>3. s \in InstallStates /\ s.pc = pc /\ s.tool = t /\ s.version = v /\ s.loaded = manifest
    BY <1>3, <2>1, InstallerParts DEF InstallStates
  <2> HIDE DEF s
  <2>4. install' \in [Installs -> InstallStates] /\ install'[i] = s /\ \A j \in Installs : j # i => install'[j] = install[j]
    BY <2>2, <2>3, InstallerParts
  <2> QED
    BY <2>3, <2>4 DEF pc
<1>5. \A j \in Installs : j \in others <=> AtWork(install[j])
  BY DEF Working, AtWork
<1>6. \A j \in Installs : AtWork(install'[j]) /\ j # i => install'[j] = install[j] /\ AtWork(install[j])
  BY <1>4
<1>7. \A j \in Installs : AtWork(install[j]) => together \subseteq together' /\ j \in together' /\ i \in together'
  BY <1>1, <1>5
<1>8. together' \subseteq Installs /\ disturbed' \subseteq Tools /\ disturbed \subseteq disturbed'
  BY <1>1, InstallerParts
<1>9. \A u \in Tools \ {t} : u \in disturbed' => u \in disturbed
  BY <1>1
<1>10. t \notin disturbed' => t \notin disturbed /\ v >= asked[t] /\ \A j \in Installs : AtWork(install[j]) => install[j].tool # t
  BY <1>1, <1>3, <1>5
<1>11. /\ asked' \in [Tools -> 0..MaxVersion] /\ \A u \in Tools : u # t => asked'[u] = asked[u]
       /\ t \notin disturbed' => asked'[t] = v
  <2>1. asked' = [asked EXCEPT ![t] = IF v > asked[t] THEN v ELSE asked[t]]
    BY <1>1, InstallerParts
  <2>2. asked \in [Tools -> 0..MaxVersion]
    BY InstallerParts
  <2>3. asked' \in [Tools -> 0..MaxVersion] /\ (\A u \in Tools : u # t => asked'[u] = asked[u])
        /\ asked'[t] = IF v > asked[t] THEN v ELSE asked[t]
    BY <1>3, <2>1, <2>2
  <2>4. t \notin disturbed' => asked'[t] = v
    BY <1>3, <1>10, <2>3
  <2> QED
    BY <2>3, <2>4
<1>12. t \notin disturbed' /\ manifest[t] = v => Complete(binary, unpacked, t, v) /\ Exists(t) = {TRUE}
  <2> SUFFICES ASSUME t \notin disturbed', manifest[t] = v
               PROVE  Complete(binary, unpacked, t, v) /\ Exists(t) = {TRUE}
    OBVIOUS
  <2>1. t \in Tools \ disturbed /\ v >= asked[t]
    BY <1>10
  <2>2. manifest[t] <= asked[t] /\ (manifest[t] = asked[t] /\ manifest[t] # 0 => Complete(binary, unpacked, t, manifest[t]))
    BY <2>1, InstallerParts
  <2>3. manifest[t] = asked[t]
    BY <1>3, <2>1, <2>2
  <2> QED
    BY <1>3, <2>2, <2>3, InstallerFinds
<1> HIDE DEF others, lost
<1>13. InstallsFit(manifest, binary, unpacked, install', asked', disturbed', together')
  <2>1. ASSUME NEW j \in Installs, AtWork(install'[j])
        PROVE  install'[j].tool \in Tools /\ install'[j].version \in Versions
    <3>1. CASE j = i
      BY <1>4, <3>1
    <3>2. CASE j # i
      BY <1>6, <2>1, <3>2, InstallerParts
    <3> QED
      BY <3>1, <3>2
  <2>2. ASSUME NEW j \in Installs, NEW k \in Installs, AtWork(install'[j]), AtWork(install'[k]), j # k
        PROVE  j \in together' /\ (install'[j].tool = install'[k].tool => install'[j].tool \in disturbed')
    <3>1. CASE j = i
      <4>1. install'[k] = install[k] /\ AtWork(install[k])
        BY <1>6, <2>2, <3>1
      <4> QED
        BY <1>4, <1>7, <1>10, <3>1, <4>1
    <3>2. CASE j # i /\ k = i
      <4>1. install'[j] = install[j] /\ AtWork(install[j])
        BY <1>6, <2>2, <3>2
      <4> QED
        BY <1>4, <1>7, <1>10, <3>2, <4>1
    <3>3. CASE j # i /\ k # i
      <4>1. install'[j] = install[j] /\ AtWork(install[j]) /\ install'[k] = install[k] /\ AtWork(install[k])
        BY <1>6, <2>2, <3>3
      <4>2. j \in together /\ (install[j].tool = install[k].tool => install[j].tool \in disturbed)
        BY <2>2, <4>1, InstallerParts
      <4> QED
        BY <1>7, <1>8, <4>1, <4>2
    <3> QED
      BY <3>1, <3>2, <3>3
  <2>3. ASSUME NEW j \in Installs, AtWork(install'[j]), j \notin together' PROVE install'[j].loaded = manifest
    <3>1. CASE j = i
      BY <1>4, <3>1
    <3>2. CASE j # i
      BY <1>6, <1>7, <2>3, <3>2
    <3> QED
      BY <3>1, <3>2
  <2>4. ASSUME NEW u \in Tools \ disturbed'
        PROVE  manifest[u] <= asked'[u]
               /\ (manifest[u] = asked'[u] /\ manifest[u] # 0 => Complete(binary, unpacked, u, manifest[u]))
    <3>1. CASE u = t
      <4>1. asked'[t] = v /\ v >= asked[t] /\ manifest[t] <= asked[t] /\ manifest[t] \in Nat
        BY <1>10, <1>11, <2>4, <3>1, InstallerParts, InstallerNumbers
      <4>2. manifest[t] <= v
        BY <1>3, <4>1
      <4> QED
        BY <1>12, <2>4, <3>1, <4>1, <4>2
    <3>2. CASE u # t
      <4>1. u \in Tools \ disturbed /\ asked'[u] = asked[u]
        BY <1>8, <1>11, <2>4, <3>2
      <4> QED
        BY <4>1, InstallerParts
    <3> QED
      BY <3>1, <3>2
  <2>5. ASSUME NEW j \in Installs, AtWork(install'[j]), install'[j].tool \notin disturbed'
        PROVE  Progress(install'[j], manifest, binary, unpacked, asked')
    <3>1. CASE j = i
      <4>1. t \notin disturbed' /\ asked'[t] = v
        BY <1>4, <1>11, <2>5, <3>1
      <4>2. manifest[t] # v
        <5> SUFFICES ASSUME manifest[t] = v PROVE FALSE
          OBVIOUS
        <5>1. there = TRUE
          BY <1>12, <4>1
        <5>2. install'[i].pc = "already"
          BY <1>4, <5>1
        <5> QED
          BY <2>5, <3>1, <5>2 DEF AtWork
      <4>3. install'[i].pc = "download"
        BY <1>4, <4>2
      <4> QED
        BY <1>4, <3>1, <4>1, <4>2, <4>3 DEF Progress
    <3>2. CASE j # i
      <4>1. install'[j] = install[j] /\ AtWork(install[j]) /\ install[j].tool \in Tools
        BY <1>6, <2>5, <3>2, InstallerParts
      <4>2. install[j].tool # t /\ install[j].tool \notin disturbed
        BY <1>8, <1>10, <2>5, <4>1
      <4>3. Progress(install[j], manifest, binary, unpacked, asked)
        BY <4>1, <4>2, InstallerParts
      <4> QED
        BY <1>11, <4>1, <4>2, <4>3 DEF Progress
    <3> QED
      BY <3>1, <3>2
  <2> QED
    BY <2>1, <2>2, <2>3, <2>4, <2>5 DEF InstallsFit
<1>14. InstallsFit(manifest', binary', unpacked', install', asked', disturbed', together')
  BY <1>1, <1>13
<1>15. begun' \in 0..MaxCalls
  BY <1>1, InstallerParts, InstallerAssumption
<1>16. /\ manifest' \in [Tools -> 0..MaxVersion] /\ binary' \in [Tools -> 0..MaxVersion]
       /\ unpacked' \in [Tools -> [Versions -> Stages]]
  BY <1>1, InstallerParts
<1>17. InstallerInv'
  BY <1>4, <1>8, <1>11, <1>14, <1>15, <1>16, InstallerJoin
<1>18. install'[i].pc = "already" /\ t \notin disturbed' => Complete(binary', unpacked', t, v)
  BY <1>1, <1>4, <1>12
<1> QED
  BY <1>1, <1>4, <1>17, <1>18

\* Every step keeps the invariant.
LEMMA InstallerStepKeeps == InstallerInv /\ [InstallerNext]_installVars => InstallerInv'
<1> SUFFICES ASSUME InstallerInv, [InstallerNext]_installVars PROVE InstallerInv'
  OBVIOUS
<1>1. CASE UNCHANGED installVars
  <2>1. InstallerTypeOK'
    BY <1>1 DEF installVars, InstallerInv, InstallerTypeOK
  <2>2. InstallsFit(manifest', binary', unpacked', install', asked', disturbed', together')
    BY <1>1 DEF installVars, InstallerInv
  <2> QED
    BY <2>1, <2>2 DEF InstallerInv
<1>2. ASSUME NEW i \in Installs, InstallStep(i) PROVE InstallerInv'
  BY <1>2, InstallerLoads, InstallerWorks, InstallerSaves, InstallerFails DEF InstallStep
<1> QED
  BY <1>1, <1>2 DEF InstallerNext

\* What a step's report is worth.
ReportIsTrue(i) ==
  LET t == install'[i].tool  v == install'[i].version IN
    Reports(i) =>
      /\ t \notin disturbed' => binary'[t] = v /\ (t \in Archived => unpacked'[t][v] = "whole")
      /\ i \notin together => \A u \in Tools \ {t} : manifest'[u] = manifest[u]

\* A report is made by the save, or at the start, where the tool is there already.
LEMMA InstallerReports ==
  ASSUME InstallerInv, NEW i \in Installs, InstallStep(i), NEW j \in Installs
  PROVE  ReportIsTrue(j)
<1>1. CASE \E t \in Tools, v \in Versions : LoadManifest(i, t, v)
  <2>1. PICK t \in Tools, v \in Versions : LoadManifest(i, t, v)
    BY <1>1
  <2>2. /\ install'[i].tool = t /\ install'[i].version = v /\ manifest' = manifest
        /\ \A k \in Installs : k # i => install'[k] = install[k]
        /\ install'[i].pc = "already" /\ t \notin disturbed' => Complete(binary', unpacked', t, v)
    BY <2>1, InstallerLoads
  <2>3. install'[i].pc # "installed"
    <3>1. install'[i].pc \in {"already", "download"}
      <4>1. PICK there \in Exists(t) :
              install' = [install EXCEPT ![i] =
                [pc |-> IF manifest[t] = v /\ there THEN "already" ELSE "download",
                 tool |-> t, version |-> v, loaded |-> manifest]]
        BY <2>1 DEF LoadManifest
      <4>2. install \in [Installs -> InstallStates]
        BY InstallerParts
      <4> QED
        BY <4>1, <4>2
    <3> QED
      BY <3>1
  <2> QED
    BY <2>2, <2>3 DEF ReportIsTrue, Reports, Complete
<1>2. CASE SaveManifest(i)
  <2>1. /\ install'[i].tool = install[i].tool /\ install'[i].version = install[i].version
        /\ \A k \in Installs : k # i => install'[k] = install[k]
        /\ install[i].tool \notin disturbed' => Complete(binary', unpacked', install[i].tool, install[i].version)
        /\ i \notin together => \A u \in Tools \ {install[i].tool} : manifest'[u] = manifest[u]
    BY <1>2, InstallerSaves
  <2> QED
    BY <2>1 DEF ReportIsTrue, Reports, Complete
<1>3. CASE Download(i) \/ ExtractPart(i) \/ ExtractRest(i) \/ RemoveLink(i) \/ Place(i)
  <2>1. \E pc \in {"extract", "extracting", "unlink", "place", "record"} : InstallTo(i, pc)
    BY <1>3 DEF Download, ExtractPart, ExtractRest, RemoveLink, Place
  <2>2. PICK pc \in {"extract", "extracting", "unlink", "place", "record"} : InstallTo(i, pc)
    BY <2>1
  <2>3. install'[i].pc = pc /\ \A k \in Installs : k # i => install'[k] = install[k]
    BY <2>2, InstallerTo
  <2> QED
    BY <2>2, <2>3 DEF ReportIsTrue, Reports
<1>4. CASE InstallFails(i)
  <2>1. install' = [install EXCEPT ![i] = Waiting] /\ Waiting.pc = "new" /\ install \in [Installs -> InstallStates]
    BY <1>4, InstallerParts DEF InstallFails, Waiting
  <2>2. install'[i].pc = "new" /\ \A k \in Installs : k # i => install'[k] = install[k]
    BY <2>1
  <2> QED
    BY <2>2 DEF ReportIsTrue, Reports
<1> QED
  BY <1>1, <1>2, <1>3, <1>4 DEF InstallStep

-----------------------------------------------------------------------------
(* The notes *)

NotePcs == {"new", "open", "write", "delete", "read", "source", "target", "move", "reread", "done", "failed"}
NoteCalls == [pc : NotePcs, from : Notes \cup {None}, to : Notes \cup {None}, file : MemoryCalls \cup {None}]

\* Where a call may be that has created a file; and one that has moved a file to n and
\* not opened it.
Opened == {"write", "done", "failed"}
MovedTo(s, n) == s.pc \in {"reread", "open"} /\ s.from # s.to /\ s.to = n

\* The directory nt, the files ins, the calls ed and the history ex fit together: a file
\* is that of a call that has opened one, and has one name; a call writes to a file
\* that has the call's name or none, unless it is exposed; a file has another name in it
\* than its own only between the move of a rename and its opening.
MemoryFits(nt, ins, ed, ex) ==
  /\ \A c \in MemoryCalls : ed[c].pc \notin {"new", "done", "failed"} => ed[c].from \in Notes /\ ed[c].to \in Notes
  /\ \A n \in Notes : nt[n] # None => ed[nt[n]].pc \in Opened
  /\ \A n, m \in Notes : nt[n] = nt[m] /\ nt[n] # None => n = m
  /\ \A c \in MemoryCalls : ed[c].pc = "write" =>
       /\ ed[c].file \in MemoryCalls /\ ed[ed[c].file].pc \in Opened
       /\ \A n \in Notes : nt[n] = ed[c].file /\ ed[c].file \notin ex => n = ed[c].to
  /\ \A n \in Notes : nt[n] # None /\ nt[n] \notin ex =>
       ins[nt[n]] \in {None, n} \/ \E c \in MemoryCalls : MovedTo(ed[c], n)

MemoryInv == MemoryTypeOK /\ MemoryFits(note, inside, edit, exposed)

\* The domains of the variables, named.
LEMMA MemoryTypes ==
  MemoryTypeOK <=> /\ note \in [Notes -> MemoryCalls \cup {None}]
                   /\ inside \in [MemoryCalls -> Notes \cup {None}]
                   /\ edit \in [MemoryCalls -> NoteCalls]
                   /\ exposed \in SUBSET MemoryCalls
BY DEF MemoryTypeOK, NoteCalls, NotePcs

\* The parts of the invariant make it up.
LEMMA MemoryJoin ==
  ASSUME note' \in [Notes -> MemoryCalls \cup {None}], inside' \in [MemoryCalls -> Notes \cup {None}],
         edit' \in [MemoryCalls -> NoteCalls], exposed' \in SUBSET MemoryCalls,
         MemoryFits(note', inside', edit', exposed')
  PROVE  MemoryInv'
BY DEF MemoryInv, MemoryTypeOK, NoteCalls, NotePcs

\* There are no notes.
LEMMA MemoryStart == MemoryInit => MemoryInv
<1> SUFFICES ASSUME MemoryInit PROVE MemoryInv
  OBVIOUS
<1>1. Unstarted \in NoteCalls /\ Unstarted.pc = "new"
  BY DEF Unstarted, NoteCalls, NotePcs
<1>2. MemoryTypeOK
  BY <1>1, MemoryTypes DEF MemoryInit
<1>3. (\A n \in Notes : note[n] = None) /\ \A c \in MemoryCalls : edit[c].pc = "new"
  BY <1>1 DEF MemoryInit
<1> QED
  BY <1>2, <1>3 DEF MemoryInv, MemoryFits

\* The conjuncts of the invariant, for use one by one.
LEMMA MemoryParts ==
  ASSUME MemoryInv
  PROVE  /\ note \in [Notes -> MemoryCalls \cup {None}] /\ inside \in [MemoryCalls -> Notes \cup {None}]
         /\ edit \in [MemoryCalls -> NoteCalls] /\ exposed \in SUBSET MemoryCalls
         /\ None \notin Notes /\ None \notin MemoryCalls
         /\ \A c \in MemoryCalls :
              edit[c].pc \notin {"new", "done", "failed"} => edit[c].from \in Notes /\ edit[c].to \in Notes
         /\ \A n \in Notes : note[n] # None => edit[note[n]].pc \in Opened
         /\ \A n, m \in Notes : note[n] = note[m] /\ note[n] # None => n = m
         /\ \A c \in MemoryCalls : edit[c].pc = "write" =>
              /\ edit[c].file \in MemoryCalls /\ edit[edit[c].file].pc \in Opened
              /\ \A n \in Notes : note[n] = edit[c].file /\ edit[c].file \notin exposed => n = edit[c].to
         /\ \A n \in Notes : note[n] # None /\ note[n] \notin exposed =>
              inside[note[n]] \in {None, n} \/ \E c \in MemoryCalls : MovedTo(edit[c], n)
BY MemoryTypes, MemoryAssumption DEF MemoryInv, MemoryFits

\* A call becomes s.
LEMMA MemoryCall ==
  ASSUME MemoryInv, NEW c \in MemoryCalls, NEW s \in NoteCalls, edit' = [edit EXCEPT ![c] = s]
  PROVE  /\ edit' \in [MemoryCalls -> NoteCalls] /\ edit'[c] = s
         /\ \A d \in MemoryCalls : d # c => edit'[d] = edit[d]
BY MemoryParts

\* A call goes on, on the same notes.
LEMMA MemoryBecomes ==
  ASSUME MemoryInv, NEW c \in MemoryCalls, NEW pc \in NotePcs, Becomes(c, pc)
  PROVE  \E s \in NoteCalls :
           /\ edit' = [edit EXCEPT ![c] = s]
           /\ s.pc = pc /\ s.from = edit[c].from /\ s.to = edit[c].to
<1> DEFINE s == [edit[c] EXCEPT !.pc = pc]
<1>1. edit \in [MemoryCalls -> NoteCalls] /\ edit[c] \in NoteCalls
  BY MemoryParts
<1>2. s \in NoteCalls /\ s.pc = pc /\ s.from = edit[c].from /\ s.to = edit[c].to
  BY <1>1 DEF NoteCalls
<1>3. edit' = [edit EXCEPT ![c] = s]
  BY <1>1 DEF Becomes
<1> QED
  BY <1>2, <1>3

\* A call is over.
LEMMA MemoryEnds ==
  ASSUME MemoryInv, NEW c \in MemoryCalls, NEW pc \in {"done", "failed"}, Ends(c, pc)
  PROVE  \E s \in NoteCalls : edit' = [edit EXCEPT ![c] = s] /\ s.pc = pc
<1> DEFINE s == [Unstarted EXCEPT !.pc = pc]
<1>1. s \in NoteCalls /\ s.pc = pc
  BY DEF Unstarted, NoteCalls, NotePcs
<1>2. edit' = [edit EXCEPT ![c] = s]
  BY DEF Ends
<1> QED
  BY <1>1, <1>2

\* A call that has opened no file becomes s, and leaves the files alone; if it had moved
\* one, and not opened it, it still has, or the note is gone.
LEMMA MemoryRests ==
  ASSUME MemoryInv, NEW c \in MemoryCalls, NEW s \in NoteCalls, edit' = [edit EXCEPT ![c] = s],
         s.pc \notin {"new", "done", "failed"} => s.from \in Notes /\ s.to \in Notes,
         edit[c].pc \notin Opened, s.pc # "write",
         \A n \in Notes : MovedTo(edit[c], n) => MovedTo(s, n) \/ note[n] = None,
         UNCHANGED <<note, inside, exposed>>
  PROVE  MemoryInv'
<1>1. /\ edit' \in [MemoryCalls -> NoteCalls] /\ edit'[c] = s
      /\ \A d \in MemoryCalls : d # c => edit'[d] = edit[d]
  BY MemoryCall
<1>2. note' = note /\ inside' = inside /\ exposed' = exposed
  OBVIOUS
<1>3. \A d \in MemoryCalls : edit[d].pc \in Opened => edit'[d] = edit[d]
  BY <1>1
<1>4. MemoryFits(note, inside, edit', exposed)
  <2>1. \A d \in MemoryCalls : edit'[d].pc \notin {"new", "done", "failed"} => edit'[d].from \in Notes /\ edit'[d].to \in Notes
    BY <1>1, MemoryParts
  <2>2. ASSUME NEW n \in Notes, note[n] # None PROVE edit'[note[n]].pc \in Opened
    <3>1. note[n] \in MemoryCalls /\ edit[note[n]].pc \in Opened
      BY <2>2, MemoryParts
    <3> QED
      BY <1>3, <3>1
  <2>3. ASSUME NEW d \in MemoryCalls, edit'[d].pc = "write"
        PROVE  /\ edit'[d].file \in MemoryCalls /\ edit'[edit'[d].file].pc \in Opened
               /\ \A n \in Notes : note[n] = edit'[d].file /\ edit'[d].file \notin exposed => n = edit'[d].to
    <3>1. edit'[d] = edit[d]
      BY <1>1, <2>3
    <3>2. edit[d].file \in MemoryCalls /\ edit[edit[d].file].pc \in Opened
      BY <2>3, <3>1, MemoryParts
    <3> QED
      BY <1>3, <2>3, <3>1, <3>2, MemoryParts
  <2>4. ASSUME NEW n \in Notes, note[n] # None, note[n] \notin exposed
        PROVE  inside[note[n]] \in {None, n} \/ \E d \in MemoryCalls : MovedTo(edit'[d], n)
    <3>1. inside[note[n]] \in {None, n} \/ \E d \in MemoryCalls : MovedTo(edit[d], n)
      BY <2>4, MemoryParts
    <3>2. ASSUME NEW d \in MemoryCalls, MovedTo(edit[d], n) PROVE MovedTo(edit'[d], n)
      BY <1>1, <2>4, <3>2
    <3> QED
      BY <3>1, <3>2
  <2> QED
    BY <2>1, <2>2, <2>3, <2>4, MemoryParts DEF MemoryFits
<1> QED
  BY <1>1, <1>2, <1>4, MemoryJoin, MemoryParts

\* A call begins.
LEMMA MemoryStarts ==
  ASSUME MemoryInv, NEW c \in MemoryCalls, StartCall(c)
  PROVE  MemoryInv'
<1>1. ASSUME NEW pc \in NotePcs, pc # "write", NEW from \in Notes, NEW to \in Notes, Call(c, pc, from, to)
      PROVE  MemoryInv'
  <2> DEFINE s == [pc |-> pc, from |-> from, to |-> to, file |-> None]
  <2>1. s \in NoteCalls /\ s.from \in Notes /\ s.to \in Notes /\ s.pc # "write"
    BY <1>1 DEF NoteCalls
  <2>2. edit' = [edit EXCEPT ![c] = s] /\ UNCHANGED <<note, inside, exposed>> /\ edit[c].pc = "new"
    BY <1>1 DEF Call, EditIs
  <2>3. edit[c].pc \notin Opened /\ \A n \in Notes : ~MovedTo(edit[c], n)
    BY <2>2 DEF Opened, MovedTo
  <2> HIDE DEF s
  <2> QED
    BY <2>1, <2>2, <2>3, MemoryRests
<1>2. /\ "open" \in NotePcs /\ "read" \in NotePcs /\ "delete" \in NotePcs /\ "source" \in NotePcs
      /\ "open" # "write" /\ "read" # "write" /\ "delete" # "write" /\ "source" # "write"
  BY DEF NotePcs
<1> QED
  BY <1>1, <1>2 DEF StartCall

\* The steps that leave the files alone.
LEMMA MemoryReads ==
  ASSUME MemoryInv, NEW c \in MemoryCalls,
         ReadNote(c) \/ CheckSource(c) \/ CheckTarget(c) \/ RereadNote(c)
  PROVE  MemoryInv'
<1>1. /\ edit[c].pc \in {"read", "source", "target", "reread"} /\ UNCHANGED <<note, inside, exposed>>
      /\ edit[c].from \in Notes /\ edit[c].to \in Notes
  BY MemoryParts DEF ReadNote, CheckSource, CheckTarget, RereadNote, EditIs
<1>2. edit[c].pc \notin Opened
  BY <1>1 DEF Opened
<1>3. CASE Ends(c, "failed") /\ (edit[c].pc = "reread" => note[edit[c].to] = None)
  <2>1. PICK s \in NoteCalls : edit' = [edit EXCEPT ![c] = s] /\ s.pc = "failed"
    BY <1>3, MemoryEnds
  <2>2. \A n \in Notes : MovedTo(edit[c], n) => note[n] = None
    BY <1>1, <1>3 DEF MovedTo
  <2> QED
    BY <1>1, <1>2, <2>1, <2>2, MemoryRests
<1>4. ASSUME NEW pc \in {"open", "target", "move"}, Becomes(c, pc), edit[c].pc = "reread" => pc = "open"
      PROVE  MemoryInv'
  <2>1. pc \in NotePcs
    BY DEF NotePcs
  <2>2. PICK s \in NoteCalls : /\ edit' = [edit EXCEPT ![c] = s]
                               /\ s.pc = pc /\ s.from = edit[c].from /\ s.to = edit[c].to
    BY <1>4, <2>1, MemoryBecomes
  <2>3. \A n \in Notes : MovedTo(edit[c], n) => MovedTo(s, n)
    BY <1>1, <1>4, <2>2 DEF MovedTo
  <2> QED
    BY <1>1, <1>2, <2>2, <2>3, MemoryRests
<1> QED
  BY <1>3, <1>4 DEF ReadNote, CheckSource, CheckTarget, RereadNote, EditIs, To

\* The file that is opened is empty, and has the call's name; a new one is in no other
\* call's hands.
LEMMA MemoryOpens ==
  ASSUME MemoryInv, NEW c \in MemoryCalls, OpenNote(c)
  PROVE  MemoryInv'
<1> DEFINE x == edit[c].to
           file == IF note[x] = None THEN c ELSE note[x]
           s == [[edit[c] EXCEPT !.pc = "write"] EXCEPT !.file = file]
<1>1. /\ edit[c].pc = "open" /\ exposed' = exposed
      /\ note' = [note EXCEPT ![x] = file] /\ inside' = [inside EXCEPT ![file] = None]
      /\ edit' = [edit EXCEPT ![c] = s]
  BY MemoryParts DEF OpenNote, EditIs, To
<1>2. /\ edit[c] \in NoteCalls /\ edit[c].from \in Notes /\ x \in Notes
      /\ note \in [Notes -> MemoryCalls \cup {None}] /\ inside \in [MemoryCalls -> Notes \cup {None}]
      /\ edit \in [MemoryCalls -> NoteCalls] /\ exposed \in SUBSET MemoryCalls /\ None \notin MemoryCalls
  BY <1>1, MemoryParts
<1>3. file \in MemoryCalls /\ (file = c \/ file = note[x]) /\ (note[x] # None => file = note[x])
  BY <1>2
<1> HIDE DEF file
<1>4. s \in NoteCalls /\ s.pc = "write" /\ s.file = file /\ s.to = x /\ s.from = edit[c].from
  BY <1>2, <1>3 DEF NoteCalls, NotePcs
<1> HIDE DEF s, x
<1>5. /\ edit' \in [MemoryCalls -> NoteCalls] /\ edit'[c] = s
      /\ \A d \in MemoryCalls : d # c => edit'[d] = edit[d]
  BY <1>1, <1>4, MemoryCall
<1>6. /\ note' \in [Notes -> MemoryCalls \cup {None}] /\ note'[x] = file
      /\ \A n \in Notes : n # x => note'[n] = note[n]
      /\ inside' \in [MemoryCalls -> Notes \cup {None}] /\ inside'[file] = None
      /\ \A f \in MemoryCalls : f # file => inside'[f] = inside[f]
  BY <1>1, <1>2, <1>3
<1>7. \A d \in MemoryCalls : edit[d].pc \in Opened \/ d = c => edit'[d].pc \in Opened
  BY <1>4, <1>5 DEF Opened
<1>8. edit[c].pc \notin Opened
  BY <1>1 DEF Opened
<1>9. \A n \in Notes : n # x => note[n] # file
  <2> SUFFICES ASSUME NEW n \in Notes, n # x, note[n] = file PROVE FALSE
    OBVIOUS
  <2>1. CASE file = c
    BY <1>2, <1>8, <2>1, MemoryParts
  <2>2. CASE file = note[x]
    BY <1>2, <1>3, <2>2, MemoryParts
  <2> QED
    BY <1>3, <2>1, <2>2
<1>10. MemoryFits(note', inside', edit', exposed')
  <2>1. \A d \in MemoryCalls : edit'[d].pc \notin {"new", "done", "failed"} => edit'[d].from \in Notes /\ edit'[d].to \in Notes
    BY <1>2, <1>4, <1>5, MemoryParts
  <2>2. ASSUME NEW n \in Notes, note'[n] # None PROVE edit'[note'[n]].pc \in Opened
    <3>1. note'[n] \in MemoryCalls /\ (note'[n] = c \/ edit[note'[n]].pc \in Opened)
      BY <1>2, <1>3, <1>6, <2>2, MemoryParts
    <3> QED
      BY <1>7, <3>1
  <2>3. \A n, m \in Notes : note'[n] = note'[m] /\ note'[n] # None => n = m
    BY <1>6, <1>9, MemoryParts
  <2>4. ASSUME NEW d \in MemoryCalls, edit'[d].pc = "write"
        PROVE  /\ edit'[d].file \in MemoryCalls /\ edit'[edit'[d].file].pc \in Opened
               /\ \A n \in Notes : note'[n] = edit'[d].file /\ edit'[d].file \notin exposed' => n = edit'[d].to
    <3>1. CASE d = c
      <4>1. edit'[file].pc \in Opened
        BY <1>2, <1>3, <1>7, MemoryParts
      <4> QED
        BY <1>3, <1>4, <1>5, <1>6, <1>9, <3>1, <4>1
    <3>2. CASE d # c
      <4>1. edit'[d] = edit[d] /\ edit[d].pc = "write"
        BY <1>5, <2>4, <3>2
      <4>2. /\ edit[d].file \in MemoryCalls /\ edit[edit[d].file].pc \in Opened
            /\ \A n \in Notes : note[n] = edit[d].file /\ edit[d].file \notin exposed => n = edit[d].to
        BY <4>1, MemoryParts
      <4>3. ASSUME NEW n \in Notes, note'[n] = edit[d].file PROVE note[n] = edit[d].file
        BY <1>3, <1>6, <1>8, <4>2, <4>3
      <4> QED
        BY <1>1, <1>7, <4>1, <4>2, <4>3
    <3> QED
      BY <3>1, <3>2
  <2>5. ASSUME NEW n \in Notes, note'[n] # None, note'[n] \notin exposed'
        PROVE  inside'[note'[n]] \in {None, n} \/ \E d \in MemoryCalls : MovedTo(edit'[d], n)
    <3>1. CASE n = x
      BY <1>6, <3>1
    <3>2. CASE n # x
      <4>1. note'[n] = note[n] /\ note[n] \in MemoryCalls /\ inside'[note[n]] = inside[note[n]]
        BY <1>2, <1>6, <1>9, <2>5, <3>2
      <4>2. inside[note[n]] \in {None, n} \/ \E d \in MemoryCalls : MovedTo(edit[d], n)
        BY <1>1, <2>5, <4>1, MemoryParts
      <4>3. ASSUME NEW d \in MemoryCalls, MovedTo(edit[d], n) PROVE edit'[d] = edit[d]
        BY <1>5, <3>2, <4>3 DEF MovedTo, x
      <4> QED
        BY <4>1, <4>2, <4>3
    <3> QED
      BY <3>1, <3>2
  <2> QED
    BY <2>1, <2>2, <2>3, <2>4, <2>5 DEF MemoryFits
<1> QED
  BY <1>1, <1>2, <1>5, <1>6, <1>10, MemoryJoin

\* The file that is written has the call's name, or none, or is exposed.
LEMMA MemoryWrites ==
  ASSUME MemoryInv, NEW c \in MemoryCalls, WriteNote(c)
  PROVE  MemoryInv'
<1> DEFINE x == edit[c].to
           file == edit[c].file
<1>1. /\ edit[c].pc = "write" /\ exposed' = exposed /\ note' = note
      /\ inside' = [inside EXCEPT ![file] = x] /\ Ends(c, "done")
  BY DEF WriteNote, EditIs
<1>2. /\ x \in Notes /\ file \in MemoryCalls /\ (\A n \in Notes : note[n] = file /\ file \notin exposed => n = x)
      /\ note \in [Notes -> MemoryCalls \cup {None}] /\ inside \in [MemoryCalls -> Notes \cup {None}]
      /\ exposed \in SUBSET MemoryCalls
  BY <1>1, MemoryParts
<1>3. PICK s \in NoteCalls : edit' = [edit EXCEPT ![c] = s] /\ s.pc = "done"
  BY <1>1, MemoryEnds
<1> HIDE DEF x, file
<1>4. /\ edit' \in [MemoryCalls -> NoteCalls] /\ edit'[c] = s
      /\ \A d \in MemoryCalls : d # c => edit'[d] = edit[d]
  BY <1>3, MemoryCall
<1>5. /\ inside' \in [MemoryCalls -> Notes \cup {None}] /\ inside'[file] = x
      /\ \A f \in MemoryCalls : f # file => inside'[f] = inside[f]
  BY <1>1, <1>2
<1>6. \A d \in MemoryCalls : edit[d].pc \in Opened => edit'[d].pc \in Opened
  BY <1>3, <1>4 DEF Opened
<1>7. \A d \in MemoryCalls : edit'[d].pc # "done" => edit'[d] = edit[d]
  BY <1>3, <1>4
<1>8. MemoryFits(note, inside', edit', exposed)
  <2>1. \A d \in MemoryCalls : edit'[d].pc \notin {"new", "done", "failed"} => edit'[d].from \in Notes /\ edit'[d].to \in Notes
    BY <1>7, MemoryParts
  <2>2. ASSUME NEW n \in Notes, note[n] # None PROVE edit'[note[n]].pc \in Opened
    BY <1>2, <1>6, <2>2, MemoryParts
  <2>3. ASSUME NEW d \in MemoryCalls, edit'[d].pc = "write"
        PROVE  /\ edit'[d].file \in MemoryCalls /\ edit'[edit'[d].file].pc \in Opened
               /\ \A n \in Notes : note[n] = edit'[d].file /\ edit'[d].file \notin exposed => n = edit'[d].to
    BY <1>6, <1>7, <2>3, MemoryParts
  <2>4. ASSUME NEW n \in Notes, note[n] # None, note[n] \notin exposed
        PROVE  inside'[note[n]] \in {None, n} \/ \E d \in MemoryCalls : MovedTo(edit'[d], n)
    <3>1. CASE note[n] = file
      BY <1>2, <1>5, <2>4, <3>1
    <3>2. CASE note[n] # file
      <4>1. inside'[note[n]] = inside[note[n]]
        BY <1>2, <1>5, <2>4, <3>2
      <4>2. ASSUME NEW d \in MemoryCalls, MovedTo(edit[d], n) PROVE edit'[d] = edit[d]
        BY <1>1, <1>4, <4>2 DEF MovedTo
      <4> QED
        BY <2>4, <4>1, <4>2, MemoryParts
    <3> QED
      BY <3>1, <3>2
  <2> QED
    BY <2>1, <2>2, <2>3, <2>4, MemoryParts DEF MemoryFits
<1> QED
  BY <1>1, <1>2, <1>4, <1>5, <1>8, MemoryJoin

\* A call is over and leaves no file under a name that is not its own.
LEMMA MemoryLeaves ==
  ASSUME MemoryInv, NEW c \in MemoryCalls, NEW pc \in {"done", "failed"}, Ends(c, pc), inside' = inside,
         note' \in [Notes -> MemoryCalls \cup {None}], \A n \in Notes : note'[n] = note[n] \/ note'[n] = None,
         exposed' \in SUBSET MemoryCalls, exposed \subseteq exposed',
         \A n \in Notes : MovedTo(edit[c], n) /\ note'[n] # None => note'[n] \in exposed'
  PROVE  MemoryInv'
<1>1. PICK s \in NoteCalls : edit' = [edit EXCEPT ![c] = s] /\ s.pc = pc
  BY MemoryEnds
<1>2. /\ edit' \in [MemoryCalls -> NoteCalls] /\ edit'[c] = s
      /\ \A d \in MemoryCalls : d # c => edit'[d] = edit[d]
  BY <1>1, MemoryCall
<1>3. \A d \in MemoryCalls : edit[d].pc \in Opened => edit'[d].pc \in Opened
  BY <1>1, <1>2 DEF Opened
<1>4. \A d \in MemoryCalls : edit'[d].pc \notin {"done", "failed"} => edit'[d] = edit[d]
  BY <1>1, <1>2
<1>5. note \in [Notes -> MemoryCalls \cup {None}]
  BY MemoryParts
<1>6. MemoryFits(note', inside, edit', exposed')
  <2>1. \A d \in MemoryCalls : edit'[d].pc \notin {"new", "done", "failed"} => edit'[d].from \in Notes /\ edit'[d].to \in Notes
    BY <1>4, MemoryParts
  <2>2. ASSUME NEW n \in Notes, note'[n] # None PROVE edit'[note'[n]].pc \in Opened
    <3>1. note'[n] = note[n] /\ note[n] \in MemoryCalls /\ edit[note[n]].pc \in Opened
      BY <1>5, <2>2, MemoryParts
    <3> QED
      BY <1>3, <3>1
  <2>3. \A n, m \in Notes : note'[n] = note'[m] /\ note'[n] # None => n = m
    BY MemoryParts
  <2>4. ASSUME NEW d \in MemoryCalls, edit'[d].pc = "write"
        PROVE  /\ edit'[d].file \in MemoryCalls /\ edit'[edit'[d].file].pc \in Opened
               /\ \A n \in Notes : note'[n] = edit'[d].file /\ edit'[d].file \notin exposed' => n = edit'[d].to
    <3>1. edit'[d] = edit[d] /\ edit[d].pc = "write"
      BY <1>4, <2>4
    <3>2. /\ edit[d].file \in MemoryCalls /\ edit[edit[d].file].pc \in Opened
          /\ \A n \in Notes : note[n] = edit[d].file /\ edit[d].file \notin exposed => n = edit[d].to
      BY <3>1, MemoryParts
    <3>3. edit[d].file # None
      BY <3>2, MemoryParts
    <3> QED
      BY <1>3, <3>1, <3>2, <3>3
  <2>5. ASSUME NEW n \in Notes, note'[n] # None, note'[n] \notin exposed'
        PROVE  inside[note'[n]] \in {None, n} \/ \E d \in MemoryCalls : MovedTo(edit'[d], n)
    <3>1. note'[n] = note[n] /\ note[n] # None /\ note[n] \notin exposed
      BY <2>5
    <3>2. inside[note[n]] \in {None, n} \/ \E d \in MemoryCalls : MovedTo(edit[d], n)
      BY <3>1, MemoryParts
    <3>3. ASSUME NEW d \in MemoryCalls, MovedTo(edit[d], n) PROVE edit'[d] = edit[d]
      BY <1>2, <2>5, <3>3
    <3> QED
      BY <3>1, <3>2, <3>3
  <2> QED
    BY <2>1, <2>2, <2>3, <2>4, <2>5 DEF MemoryFits
<1> QED
  BY <1>2, <1>6, MemoryJoin, MemoryParts

\* A note is deleted.
LEMMA MemoryDeletes ==
  ASSUME MemoryInv, NEW c \in MemoryCalls, DeleteNote(c)
  PROVE  MemoryInv'
<1>1. /\ edit[c].pc = "delete" /\ note' = [note EXCEPT ![edit[c].from] = None]
      /\ inside' = inside /\ exposed' = exposed
  BY DEF DeleteNote, EditIs
<1>2. note \in [Notes -> MemoryCalls \cup {None}] /\ exposed \in SUBSET MemoryCalls
  BY MemoryParts
<1>3. PICK pc \in {"done", "failed"} : Ends(c, pc)
  BY DEF DeleteNote
<1>4. /\ note' \in [Notes -> MemoryCalls \cup {None}]
      /\ \A n \in Notes : note'[n] = note[n] \/ note'[n] = None
  BY <1>1, <1>2
<1>5. \A n \in Notes : ~MovedTo(edit[c], n)
  BY <1>1 DEF MovedTo
<1> QED
  BY <1>1, <1>2, <1>3, <1>4, <1>5, MemoryLeaves

\* A call that is interrupted leaves the file it has moved exposed.
LEMMA MemoryStops ==
  ASSUME MemoryInv, NEW c \in MemoryCalls, Interrupted(c)
  PROVE  MemoryInv'
<1>1. Ends(c, "failed") /\ note' = note /\ inside' = inside
  BY DEF Interrupted
<1>2. /\ note \in [Notes -> MemoryCalls \cup {None}] /\ exposed \in SUBSET MemoryCalls
      /\ edit[c].from \in Notes /\ edit[c].to \in Notes
  BY MemoryParts DEF Interrupted, InProgress
<1>3. exposed' \in SUBSET MemoryCalls /\ exposed \subseteq exposed'
  BY <1>2 DEF Interrupted, To
<1>4. ASSUME NEW n \in Notes, MovedTo(edit[c], n), note[n] # None PROVE note[n] \in exposed'
  BY <1>4 DEF Interrupted, Moved, MovedTo, To
<1> QED
  BY <1>1, <1>2, <1>3, <1>4, MemoryLeaves

\* The moved file keeps its old name in it until it is opened; if a call has it open for
\* writing, it is exposed.
LEMMA MemoryMoves ==
  ASSUME MemoryInv, NEW c \in MemoryCalls, MoveNote(c)
  PROVE  MemoryInv'
<1> DEFINE x == edit[c].from
           y == edit[c].to
<1>1. edit[c].pc = "move" /\ inside' = inside
  BY DEF MoveNote, EditIs
<1>2. /\ note \in [Notes -> MemoryCalls \cup {None}] /\ exposed \in SUBSET MemoryCalls
      /\ inside \in [MemoryCalls -> Notes \cup {None}] /\ x \in Notes /\ y \in Notes
  BY <1>1, MemoryParts
<1>3. \A n \in Notes : ~MovedTo(edit[c], n)
  BY <1>1 DEF MovedTo
<1>4. CASE note[x] = None
  <2>1. Ends(c, "failed") /\ note' = note /\ exposed' = exposed
    BY <1>4 DEF MoveNote, From
  <2> QED
    BY <1>1, <1>2, <1>3, <2>1, MemoryLeaves
<1>5. CASE note[x] # None
  <2>1. /\ note' = [n \in Notes |-> IF n = y THEN note[x] ELSE IF n = x THEN None ELSE note[n]]
        /\ exposed' = exposed \cup {f \in {note[x]} : \E d \in MemoryCalls : EditIs(d, "write") /\ edit[d].file = f}
        /\ Becomes(c, "reread")
    BY <1>5 DEF MoveNote, From
  <2>2. "reread" \in NotePcs
    BY DEF NotePcs
  <2>3. PICK s \in NoteCalls : /\ edit' = [edit EXCEPT ![c] = s]
                               /\ s.pc = "reread" /\ s.from = x /\ s.to = y
    BY <2>1, <2>2, MemoryBecomes
  <2> HIDE DEF x, y
  <2>4. /\ edit' \in [MemoryCalls -> NoteCalls] /\ edit'[c] = s
        /\ \A d \in MemoryCalls : d # c => edit'[d] = edit[d]
    BY <2>3, MemoryCall
  <2>5. /\ note' \in [Notes -> MemoryCalls \cup {None}] /\ note'[y] = note[x]
        /\ \A n \in Notes : n # y => note'[n] = IF n = x THEN None ELSE note[n]
    BY <1>2, <2>1
  <2>6. /\ exposed' \in SUBSET MemoryCalls /\ exposed \subseteq exposed'
        /\ \A d \in MemoryCalls : edit[d].pc = "write" /\ edit[d].file = note[x] => note[x] \in exposed'
    BY <1>2, <1>5, <2>1 DEF EditIs
  <2>7. \A d \in MemoryCalls : edit[d].pc \in Opened => edit'[d] = edit[d]
    BY <1>1, <2>4 DEF Opened
  <2>8. MemoryFits(note', inside, edit', exposed')
    <3>1. \A d \in MemoryCalls : edit'[d].pc \notin {"new", "done", "failed"} => edit'[d].from \in Notes /\ edit'[d].to \in Notes
      BY <1>2, <2>3, <2>4, MemoryParts
    <3>2. ASSUME NEW n \in Notes, note'[n] # None PROVE edit'[note'[n]].pc \in Opened
      <4>1. PICK m \in Notes : note'[n] = note[m]
        BY <1>2, <2>5, <3>2
      <4>2. note[m] \in MemoryCalls /\ edit[note[m]].pc \in Opened
        BY <1>2, <3>2, <4>1, MemoryParts
      <4> QED
        BY <2>7, <4>1, <4>2
    <3>3. \A n, m \in Notes : note'[n] = note'[m] /\ note'[n] # None => n = m
      BY <1>2, <1>5, <2>5, MemoryParts
    <3>4. ASSUME NEW d \in MemoryCalls, edit'[d].pc = "write"
          PROVE  /\ edit'[d].file \in MemoryCalls /\ edit'[edit'[d].file].pc \in Opened
                 /\ \A n \in Notes : note'[n] = edit'[d].file /\ edit'[d].file \notin exposed' => n = edit'[d].to
      <4>1. edit'[d] = edit[d] /\ edit[d].pc = "write"
        BY <2>3, <2>4, <3>4
      <4>2. /\ edit[d].file \in MemoryCalls /\ edit[edit[d].file].pc \in Opened
            /\ \A n \in Notes : note[n] = edit[d].file /\ edit[d].file \notin exposed => n = edit[d].to
        BY <4>1, MemoryParts
      <4>3. edit[d].file # None
        BY <4>2, MemoryParts
      <4>4. ASSUME NEW n \in Notes, note'[n] = edit[d].file, edit[d].file \notin exposed' PROVE n = edit[d].to
        <5>1. note[x] # edit[d].file
          BY <2>6, <4>1, <4>4
        <5>2. note[n] = edit[d].file
          BY <2>5, <4>3, <4>4, <5>1
        <5> QED
          BY <2>6, <4>2, <4>4, <5>2
      <4> QED
        BY <2>7, <4>1, <4>2, <4>4
    <3>5. ASSUME NEW n \in Notes, note'[n] # None, note'[n] \notin exposed'
          PROVE  inside[note'[n]] \in {None, n} \/ \E d \in MemoryCalls : MovedTo(edit'[d], n)
      <4>1. CASE n = y /\ x # y
        BY <2>3, <2>4, <4>1 DEF MovedTo
      <4>2. CASE n # y \/ x = y
        <5>1. note'[n] = note[n] /\ note[n] # None /\ note[n] \notin exposed
          BY <2>5, <2>6, <3>5, <4>2
        <5>2. inside[note[n]] \in {None, n} \/ \E d \in MemoryCalls : MovedTo(edit[d], n)
          BY <5>1, MemoryParts
        <5>3. ASSUME NEW d \in MemoryCalls, MovedTo(edit[d], n) PROVE edit'[d] = edit[d]
          BY <1>3, <2>4, <5>3
        <5> QED
          BY <5>1, <5>2, <5>3
      <4> QED
        BY <4>1, <4>2
    <3> QED
      BY <3>1, <3>2, <3>3, <3>4, <3>5 DEF MemoryFits
  <2> QED
    BY <1>1, <1>2, <2>4, <2>5, <2>6, <2>8, MemoryJoin
<1> QED
  BY <1>4, <1>5

\* Every step keeps the invariant.
LEMMA MemoryStepKeeps == MemoryInv /\ [MemoryNext]_memoryVars => MemoryInv'
<1> SUFFICES ASSUME MemoryInv, [MemoryNext]_memoryVars PROVE MemoryInv'
  OBVIOUS
<1>1. CASE UNCHANGED memoryVars
  <2>1. note' = note /\ inside' = inside /\ edit' = edit /\ exposed' = exposed
    BY <1>1 DEF memoryVars
  <2>2. MemoryFits(note', inside', edit', exposed')
    BY <2>1 DEF MemoryInv
  <2> QED
    BY <2>1, <2>2, MemoryJoin, MemoryParts
<1>2. ASSUME NEW c \in MemoryCalls, StartCall(c) \/ MemoryStep(c) PROVE MemoryInv'
  BY <1>2, MemoryStarts, MemoryReads, MemoryOpens, MemoryWrites, MemoryDeletes, MemoryMoves, MemoryStops
     DEF MemoryStep
<1> QED
  BY <1>1, <1>2 DEF MemoryNext

\* With no call in progress no file is between a move and its opening.
LEMMA MemoryAgrees == MemoryInv => NamesAgree
<1> SUFFICES ASSUME MemoryInv, \A c \in MemoryCalls : ~InProgress(c),
                    NEW n \in Notes, note[n] \notin exposed \cup {None}
             PROVE  inside[note[n]] \in {n, None}
  BY DEF NamesAgree
<1>1. \A c \in MemoryCalls : ~MovedTo(edit[c], n)
  BY DEF InProgress, MovedTo
<1> QED
  BY <1>1, MemoryParts

-----------------------------------------------------------------------------
(* The theorems *)

SessionsSpec == SessionsInit /\ [][SessionsNext]_sessionsVars
ScipSpec == ScipInit /\ [][ScipNext]_scipVars
ConfigSpec == ConfigInit /\ [][ConfigNext]_configVars
InstallerSpec == InstallerInit /\ [][InstallerNext]_installVars
MemorySpec == MemoryInit /\ [][MemoryNext]_memoryVars

\* In every behaviour the runs check, each service behaves as it does by itself.
THEOREM EachServiceAlone ==
  Spec => /\ SessionsSpec /\ ScipSpec /\ ConfigSpec
          /\ JobsSpec /\ InstallerSpec /\ MemorySpec
<1>1. Init => /\ SessionsInit /\ ScipInit /\ ConfigInit
              /\ JobsInit /\ InstallerInit /\ MemoryInit
  BY DEF Init
<1>2. [Next]_vars => /\ [SessionsNext]_sessionsVars /\ [ScipNext]_scipVars /\ [ConfigNext]_configVars
                     /\ [JobsNext]_jobsVars /\ [InstallerNext]_installVars /\ [MemoryNext]_memoryVars
  BY DEF Next, vars
<1> QED
  BY <1>1, <1>2, PTL DEF Spec, SessionsSpec, ScipSpec, ConfigSpec, JobsSpec, InstallerSpec, MemorySpec

\* The invariants hold in every behaviour of their service.
LEMMA SessionsAlways == SessionsSpec => []SessionsInv
<1>1. SessionsInit => SessionsInv
  BY SessionsStart
<1>2. SessionsInv /\ [SessionsNext]_sessionsVars => SessionsInv'
  BY SessionsStepKeeps
<1> QED
  BY <1>1, <1>2, PTL DEF SessionsSpec

\* The same of the cache.
LEMMA ScipAlways == ScipSpec => []ScipInv
<1>1. ScipInit => ScipInv
  BY ScipStart
<1>2. ScipInv /\ [ScipNext]_scipVars => ScipInv'
  BY ScipStepKeeps
<1> QED
  BY <1>1, <1>2, PTL DEF ScipSpec

\* The same of the configuration.
LEMMA ConfigAlways == ConfigSpec => []ConfigTypeOK
<1>1. ConfigInit => ConfigTypeOK
  BY ConfigStart
<1>2. ConfigTypeOK /\ [ConfigNext]_configVars => ConfigTypeOK'
  BY ConfigStepKeeps
<1> QED
  BY <1>1, <1>2, PTL DEF ConfigSpec

\* The same of the installer.
LEMMA InstallerAlways == InstallerSpec => []InstallerInv
<1>1. InstallerInit => InstallerInv
  BY InstallerStart
<1>2. InstallerInv /\ [InstallerNext]_installVars => InstallerInv'
  BY InstallerStepKeeps
<1> QED
  BY <1>1, <1>2, PTL DEF InstallerSpec

\* The same of the notes.
LEMMA MemoryAlways == MemorySpec => []MemoryInv
<1>1. MemoryInit => MemoryInv
  BY MemoryStart
<1>2. MemoryInv /\ [MemoryNext]_memoryVars => MemoryInv'
  BY MemoryStepKeeps
<1> QED
  BY <1>1, <1>2, PTL DEF MemorySpec

\* Type correctness of all services; among other things the registry's counter
\* never passes the number of runs, and at least one index is always kept.
THEOREM TypeCorrect == Spec => []TypeOK
<1>1. SessionsInv /\ ScipInv /\ ConfigTypeOK /\ JobsInv /\ InstallerInv /\ MemoryInv => TypeOK
  BY DEF TypeOK, SessionsInv, ScipInv, JobsInv, InstallerInv, MemoryInv
<1> QED
  BY <1>1, EachServiceAlone, SessionsAlways, ScipAlways, ConfigAlways, JobsAlways, InstallerAlways,
     MemoryAlways, PTL

\* The map of debug sessions and the adapters agree (dap_launch, dap_terminate),
\* whatever launches of one name and terminations overlap.
THEOREM SessionsAlwaysMatch == SessionsSpec => []SessionsMatchAdapters
BY SessionsAlways, SessionsAgree, PTL

\* A load never returns an index older than the file was when it began
\* (cached_scip_load), for any number of loads, paths and entries.
THEOREM IndexNeverStale == ScipSpec => []NoStaleIndex
BY ScipAlways, ScipFresh, PTL

\* With no call in progress every note has the name of its file in it.
THEOREM NamesAlwaysAgree == MemorySpec => []NamesAgree
BY MemoryAlways, MemoryAgrees, PTL

\* What install_tool reports is so, however calls fail, crash and are made again.
THEOREM ReportsAlwaysTrue == InstallerSpec => ReportsAreTrue
<1>1. InstallerInv /\ [InstallerNext]_installVars =>
        [\A i \in Installs : LET t == install'[i].tool  v == install'[i].version IN
           Reports(i) =>
             /\ t \notin disturbed' => binary'[t] = v /\ (t \in Archived => unpacked'[t][v] = "whole")
             /\ i \notin together => \A u \in Tools \ {t} : manifest'[u] = manifest[u]]_installVars
  BY InstallerReports DEF InstallerNext, ReportIsTrue
<1> QED
  BY <1>1, InstallerAlways, PTL DEF InstallerSpec, ReportsAreTrue
=============================================================================
