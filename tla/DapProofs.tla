----------------------------- MODULE DapProofs -----------------------------
(* Proofs about DapClient. *)
EXTENDS DapClient, TLAPS

\* TypeOK, part by part.
CallsTypeOK ==
  /\ call \in [Calls -> CallStates]
  /\ chan \in [Seqs -> {"unsent", "open", "ok", "failed", "dropped"}]
  /\ nextSeq \in 1..MaxSeq + 1
  /\ \A s \in Seqs : s >= nextSeq => chan[s] = "unsent"
  /\ \A c \in Calls :
       /\ call[c].seq < nextSeq /\ call[c].launch < nextSeq
       /\ call[c].pc \in {"write", "await", "clear"} => call[c].seq # 0
       /\ call[c].goal = "initialized" \/ call[c].cmd = "configurationDone"
            => call[c].launch # 0
       /\ call[c].cmd = "none" => call[c].pc = "idle"
ClientTypeOK ==
  /\ stopped \in 0..MaxStops
  /\ initialized \in BOOLEAN /\ terminated \in BOOLEAN /\ closed \in BOOLEAN
  /\ reader \in {"read", "notify", "drain", "wake", "gone"}
  /\ session \in {"none", "launching", "open", "removed", "gone"}
AdapterTypeOK ==
  /\ inbox \in Seq([cmd : Commands, seq : Seqs])
  /\ wire \in Seq(Messages)
  /\ held \subseteq Seqs
  /\ owed \subseteq Messages
  /\ debuggee \in {"absent", "running", "stopped", "gone"}
  /\ stops \in 0..MaxStops
  /\ debuggee = "stopped" => stops > 0
  /\ exited \in BOOLEAN /\ garbled \in BOOLEAN /\ lost \in BOOLEAN
  /\ base \in [Seqs -> 0..MaxStops]
PartsOK == CallsTypeOK /\ ClientTypeOK /\ AdapterTypeOK

LEMMA TypeByParts ==
  (TypeOK <=> PartsOK) /\ (TypeOK' <=> PartsOK')
  BY DEF TypeOK, PartsOK, CallsTypeOK, ClientTypeOK, AdapterTypeOK

\* A call may move to any well-typed state that refers to no request beyond
\* those handed out.
CallOK(r, n) == /\ r \in CallStates
                /\ r.seq < n /\ r.launch < n
                /\ r.pc \in {"write", "await", "clear"} => r.seq # 0
                /\ r.goal = "initialized" \/ r.cmd = "configurationDone"
                     => r.launch # 0
                /\ r.cmd = "none" => r.pc = "idle"

LEMMA FreshOK == \A n \in 1..MaxSeq + 1 : CallOK(Fresh, n)
  BY DapAssumption DEF CallOK, Fresh, NoResult, CallStates, Results

LEMMA CallMoves ==
  ASSUME CallsTypeOK, NEW c \in Calls, NEW r, CallOK(r, nextSeq),
         call' = [call EXCEPT ![c] = r], UNCHANGED <<chan, nextSeq>>
  PROVE  CallsTypeOK'
  BY DEF CallsTypeOK, CallOK

\* Moving to pc keeps the rest of a call.
LEMMA GotoMoves ==
  ASSUME CallsTypeOK, NEW c \in Calls, call[c].pc # "idle", NEW pc, Goto(c, pc),
         pc \in {"idle", "submit", "kill", "check", "checkClosed", "arm",
                 "sleep"},
         UNCHANGED <<chan, nextSeq>>
  PROVE  CallsTypeOK'
  <1> DEFINE r == [call[c] EXCEPT !.pc = pc]
  <1>1. CallOK(call[c], nextSeq)
    BY DEF CallsTypeOK, CallOK
  <1>2. CallOK(r, nextSeq)
    BY <1>1 DEF CallOK, CallStates
  <1>3. call' = [call EXCEPT ![c] = r]
    BY DEF Goto, CallsTypeOK
  <1> QED
    BY <1>2, <1>3, CallMoves
LEMMA ReturnMoves ==
  ASSUME CallsTypeOK, NEW c \in Calls, NEW kind, NEW stop,
         kind \in {"none", "ok", "error", "timeout", "stop"},
         stop \in 0..MaxStops,
         Return(c, kind, stop), UNCHANGED <<chan, nextSeq>>
  PROVE  CallsTypeOK'
  <1> DEFINE result == [kind |-> kind, stop |-> stop,
                        sawClosed |-> call[c].sawClosed]
             r == [call[c] EXCEPT !.pc = "idle", !.result = result]
  <1>1. CallOK(call[c], nextSeq)
    BY DEF CallsTypeOK, CallOK
  <1>2. result \in Results
    BY <1>1 DEF Results, CallOK, CallStates
  <1> HIDE DEF result
  <1>3. CallOK(r, nextSeq)
    BY <1>1, <1>2 DEF CallOK, CallStates
  <1>4. call' = [call EXCEPT ![c] = r]
    BY DEF Return, CallsTypeOK, result
  <1> QED
    BY <1>3, <1>4, CallMoves

LEMMA FailMoves ==
  ASSUME CallsTypeOK, NEW c \in Calls, NEW kind \in {"error", "timeout"},
         Fail(c, kind), UNCHANGED <<chan, nextSeq>>
  PROVE  CallsTypeOK'
  <1>1. CASE Launching(c)
    <2> DEFINE r == [call[c] EXCEPT !.pc = "submit", !.cmd = "disconnect"]
    <2>1. CallOK(call[c], nextSeq)
      BY DEF CallsTypeOK, CallOK
    <2>2. CallOK(r, nextSeq)
      BY <2>1 DEF CallOK, CallStates, Commands
    <2>3. call' = [call EXCEPT ![c] = r]
      BY <1>1 DEF Fail, CallsTypeOK
    <2> QED
      BY <2>2, <2>3, CallMoves
  <1>2. CASE ~Launching(c)
    BY <1>2, ReturnMoves, DapAssumption DEF Fail
  <1> QED
    BY <1>1, <1>2

LEMMA GiveUpMoves ==
  ASSUME CallsTypeOK, NEW c \in Calls, call[c].pc # "idle",
         NEW kind \in {"error", "timeout"}, GiveUp(c, kind), UNCHANGED <<chan, nextSeq>>
  PROVE  CallsTypeOK'
  BY GotoMoves, FailMoves DEF GiveUp

LEMMA ProceedMoves ==
  ASSUME CallsTypeOK, NEW c \in Calls, call[c].pc = "await", Proceed(c),
         UNCHANGED <<chan, nextSeq>>
  PROVE  CallsTypeOK'
  <1> DEFINE to(pc, cmd, goal) ==
        [call[c] EXCEPT !.pc = pc, !.cmd = cmd, !.goal = goal]
  <1>0. CallOK(call[c], nextSeq) /\ call[c].seq # 0
    BY DEF CallsTypeOK, CallOK
  <1>1. ASSUME NEW pc \in {"submit", "check", "clear"},
               NEW cmd \in Commands, NEW goal \in {"none", "stopped"},
               cmd = "configurationDone" => call[c].launch # 0,
               call' = [call EXCEPT ![c].pc = pc, ![c].cmd = cmd,
                                    ![c].goal = goal]
        PROVE  CallsTypeOK'
    <2>1. CallOK(to(pc, cmd, goal), nextSeq)
      BY <1>0, <1>1 DEF CallOK, CallStates, Commands, Resumes
    <2>2. call' = [call EXCEPT ![c] = to(pc, cmd, goal)]
      BY <1>1 DEF CallsTypeOK
    <2> QED
      BY <2>1, <2>2, CallMoves
  <1>2. CASE /\ call[c].cmd = "configurationDone"
             /\ call' = [call EXCEPT ![c].seq = call[c].launch]
    <2> DEFINE r == [call[c] EXCEPT !.seq = call[c].launch]
    <2>1. call' = [call EXCEPT ![c] = r]
      BY <1>2 DEF CallsTypeOK
    <2>2. CallOK(r, nextSeq)
      BY <1>0, <1>2 DEF CallOK, CallStates
    <2> QED
      BY <2>1, <2>2, CallMoves
  <1>3. CASE Return(c, "ok", 0)
    BY <1>3, ReturnMoves, DapAssumption
  <1>4. CASE Goto(c, "kill")
    BY <1>4, GotoMoves
  <1> QED
    BY <1>0, <1>1, <1>2, <1>3, <1>4 DEF Proceed, CallOK, Commands
\* Tool calls keep the types.
LEMMA CallType ==
  ASSUME TypeOK, NEW c \in Calls, CallStep(c)
  PROVE  TypeOK'
  <1>0. CallsTypeOK /\ ClientTypeOK /\ AdapterTypeOK /\ CallOK(call[c], nextSeq)
    BY TypeByParts DEF PartsOK, CallsTypeOK, CallOK
  <1>a. nextSeq \in 1..MaxSeq + 1 /\ MaxSeq \in Nat /\ MaxStops \in Nat
    BY <1>0, DapAssumption DEF CallsTypeOK
  <1>b. SUFFICES CallsTypeOK' /\ ClientTypeOK' /\ AdapterTypeOK'
    BY TypeByParts DEF PartsOK
  <1>1. CASE Launch(c) \/ Terminate(c) \/ \E cmd \in Commands : Begin(c, cmd)
    <2>1. PICK cmd \in {"initialize", "disconnect", "pause", "inspect"}
                       \cup Resumes :
            call' = [call EXCEPT ![c] = [Fresh EXCEPT !.pc = "submit",
                                                      !.cmd = cmd]]
      <3>1. CASE Launch(c)
        BY <3>1 DEF Launch
      <3>2. CASE Terminate(c)
        BY <3>2 DEF Terminate
      <3>3. CASE \E cmd \in Commands : Begin(c, cmd)
        <4>1. PICK cmd \in Commands : Begin(c, cmd)
          BY <3>3
        <4> QED
          BY <4>1 DEF Begin
      <3> QED
        BY <1>1, <3>1, <3>2, <3>3
    <2>2. CallOK([Fresh EXCEPT !.pc = "submit", !.cmd = cmd], nextSeq)
      BY <1>a, <2>1, FreshOK DEF CallOK, CallStates, Fresh, Commands, Resumes
    <2>3. UNCHANGED <<clientVars, reader, adapterVars, lost>>
          /\ session' \in {session, "launching", "removed"}
      BY <1>1 DEF Launch, Terminate, Begin
    <2>4. CallsTypeOK'
      BY <1>0, <2>1, <2>2, <2>3, CallMoves DEF clientVars
    <2> QED
      BY <1>0, <2>3, <2>4
        DEF ClientTypeOK, AdapterTypeOK, clientVars, adapterVars
  <1>2. CASE Submit(c)
    <2> DEFINE r == [call[c] EXCEPT !.pc = "write", !.seq = nextSeq]
    <2>1. call' = [call EXCEPT ![c] = r] /\ nextSeq' = nextSeq + 1
          /\ nextSeq <= MaxSeq /\ chan' = [chan EXCEPT ![nextSeq] = "open"]
      BY <1>0, <1>2 DEF Submit, CallsTypeOK
    <2>2. CallOK(r, nextSeq')
      <3>a. call[c] \in CallStates /\ nextSeq \in 0..MaxSeq
        BY <1>0, <1>a, <2>1 DEF CallOK
      <3>1. r \in CallStates
        BY <3>a DEF CallStates
      <3>2. /\ r.seq = nextSeq /\ r.launch = call[c].launch
            /\ r.goal = call[c].goal /\ r.cmd = call[c].cmd
            /\ call[c].launch \in 0..MaxSeq
        BY <1>0 DEF CallOK, CallStates
      <3>3. call[c].cmd # "none"
        BY <1>0, <1>2 DEF CallOK, Submit
      <3> HIDE DEF r
      <3> QED
        BY <1>0, <1>a, <2>1, <3>1, <3>2, <3>3 DEF CallOK
    <2>3. chan' \in [Seqs -> {"unsent", "open", "ok", "failed", "dropped"}]
          /\ nextSeq' \in 1..MaxSeq + 1
          /\ \A s \in Seqs : s >= nextSeq' => chan'[s] = "unsent"
      BY <1>0, <1>a, <2>1 DEF CallsTypeOK, Seqs
    <2>4. \A d \in Calls : CallOK(call'[d], nextSeq')
      <3>1. \A d \in Calls : CallOK(call[d], nextSeq)
        BY <1>0 DEF CallsTypeOK, CallOK
      <3>2. \A d \in Calls : CallOK(call[d], nextSeq')
        BY <1>a, <2>1, <3>1 DEF CallOK, CallStates
      <3> HIDE DEF r
      <3> QED
        BY <1>0, <2>1, <2>2, <3>2 DEF CallsTypeOK
    <2>5. call' \in [Calls -> CallStates]
      BY <1>0, <2>1, <2>2 DEF CallsTypeOK, CallOK
    <2>6. CallsTypeOK'
      BY <2>3, <2>4, <2>5 DEF CallsTypeOK, CallOK
    <2> QED
      BY <1>0, <1>2, <2>6 DEF Submit, ClientTypeOK, AdapterTypeOK, adapterVars
  <1>3. CASE Write(c)
    <2>1. call[c].cmd \in Commands /\ call[c].seq \in Seqs
      BY <1>0, <1>3, <1>a DEF Write, CallOK, CallStates, Seqs
    <2>2. inbox' \in Seq([cmd : Commands, seq : Seqs])
      BY <1>0, <1>3, <2>1 DEF Write, AdapterTypeOK
    <2>3. CallsTypeOK'
      <3>1. CASE call[c].cmd = "launch"
        <4> DEFINE r == [call[c] EXCEPT !.pc = "check", !.goal = "initialized",
                                        !.launch = call[c].seq]
        <4>1. call' = [call EXCEPT ![c] = r]
          BY <1>0, <1>3, <3>1 DEF Write, CallsTypeOK
        <4>2. CallOK(r, nextSeq)
          BY <1>0, <1>3, <1>a, <2>1 DEF CallOK, CallStates, Seqs, Write
        <4> QED
          BY <1>0, <1>3, <4>1, <4>2, CallMoves DEF Write, clientVars
      <3>2. CASE call[c].cmd # "launch"
        <4> DEFINE r == [call[c] EXCEPT !.pc = "await"]
        <4>1. call' = [call EXCEPT ![c] = r]
          BY <1>0, <1>3, <3>2 DEF Write, CallsTypeOK
        <4>2. CallOK(r, nextSeq)
          BY <1>0, <1>3, <2>1 DEF CallOK, CallStates, Seqs, Write
        <4> QED
          BY <1>0, <1>3, <4>1, <4>2, CallMoves DEF Write, clientVars
      <3> QED
        BY <3>1, <3>2
    <2> QED
      BY <1>0, <1>3, <2>2, <2>3
        DEF Write, ClientTypeOK, AdapterTypeOK, clientVars
  <1>4. CASE WriteError(c) \/ Receive(c) \/ RequestTimeout(c) \/ WaitTimeout(c)
             \/ CheckClosed(c) \/ Arm(c)
    <2>1. UNCHANGED <<chan, nextSeq>>
      BY <1>4 DEF WriteError, Receive, RequestTimeout, WaitTimeout, CheckClosed,
                  Arm, clientVars
    <2>2. \/ \E kind \in {"error", "timeout"} : GiveUp(c, kind) \/ Fail(c, kind)
          \/ call[c].pc = "await" /\ Proceed(c)
          \/ Goto(c, "arm") \/ Goto(c, "sleep")
      BY <1>4 DEF WriteError, Receive, RequestTimeout, WaitTimeout, CheckClosed,
                  Arm
    <2>3. CallsTypeOK'
      <3>1. call[c].pc # "idle"
        BY <1>4 DEF WriteError, Receive, RequestTimeout, WaitTimeout,
                    CheckClosed, Arm
      <3> QED
        BY <1>0, <2>1, <2>2, <3>1, GiveUpMoves, FailMoves, ProceedMoves, GotoMoves
    <2>4. UNCHANGED <<clientVars, reader, session, adapterVars>>
          /\ lost' \in BOOLEAN
      BY <1>0, <1>4 DEF WriteError, Receive, RequestTimeout, WaitTimeout,
                        CheckClosed, Arm, AdapterTypeOK
    <2> QED
      BY <1>0, <2>3, <2>4
        DEF ClientTypeOK, AdapterTypeOK, clientVars, adapterVars
  <1>5. CASE Clear(c)
    <2>1. CallsTypeOK'
      BY <1>0, <1>5, GotoMoves DEF Clear
    <2> QED
      BY <1>0, <1>5, <1>a, <2>1
        DEF Clear, ClientTypeOK, AdapterTypeOK, adapterVars
  <1>6. CASE Kill(c)
    <2>1. CallsTypeOK'
      BY <1>0, <1>a, <1>6, ReturnMoves DEF Kill, clientVars
    <2> QED
      BY <1>0, <1>6, <2>1
        DEF Kill, ClientTypeOK, AdapterTypeOK, clientVars
  <1>7. CASE Check(c)
    <2>1. UNCHANGED <<chan, nextSeq, stopped, initialized, terminated, closed,
                      reader, adapterVars, lost>>
          /\ session' \in {session, "open"}
      BY <1>7 DEF Check, clientVars
    <2>2. CallsTypeOK'
      <3>1. CASE call' = [call EXCEPT ![c].pc = "submit",
                                      ![c].cmd = "configurationDone"]
                 /\ call[c].goal = "initialized"
        <4> DEFINE r == [call[c] EXCEPT !.pc = "submit",
                                        !.cmd = "configurationDone"]
        <4>1. call' = [call EXCEPT ![c] = r]
          BY <1>0, <3>1 DEF CallsTypeOK
        <4>2. CallOK(r, nextSeq)
          BY <1>0, <3>1 DEF CallOK, CallStates, Commands
        <4> QED
          BY <1>0, <2>1, <4>1, <4>2, CallMoves
      <3>2. CASE call' = [call EXCEPT ![c].pc = "arm", ![c].sawClosed = closed]
        <4> DEFINE r == [call[c] EXCEPT !.pc = "arm", !.sawClosed = closed]
        <4>1. call' = [call EXCEPT ![c] = r]
          BY <1>0, <3>2 DEF CallsTypeOK
        <4>2. CallOK(r, nextSeq)
          BY <1>0, <1>7 DEF CallOK, CallStates, ClientTypeOK, Check
        <4> QED
          BY <1>0, <2>1, <4>1, <4>2, CallMoves
      <3>3. CASE Goto(c, "checkClosed")
        BY <1>0, <1>7, <2>1, <3>3, GotoMoves DEF Check
      <3>4. CASE Return(c, "stop", stopped)
        BY <1>0, <2>1, <3>4, ReturnMoves DEF ClientTypeOK
      <3>5. CASE Fail(c, "error")
        BY <1>0, <2>1, <3>5, FailMoves
      <3> QED
        BY <1>7, <3>1, <3>2, <3>3, <3>4, <3>5 DEF Check
    <2> QED
      BY <1>0, <2>1, <2>2 DEF ClientTypeOK, AdapterTypeOK, adapterVars
  <1> QED
    BY <1>1, <1>2, <1>3, <1>4, <1>5, <1>6, <1>7 DEF CallStep

\* The reader task keeps the types.
LEMMA ReaderType ==
  ASSUME TypeOK, ReaderStep
  PROVE  TypeOK'
  <1>0. CallsTypeOK /\ ClientTypeOK /\ AdapterTypeOK
    BY TypeByParts DEF PartsOK
  <1>b. SUFFICES CallsTypeOK' /\ ClientTypeOK' /\ AdapterTypeOK'
    BY TypeByParts DEF PartsOK
  <1>1. CASE HandleResponse
    <2>1. Head(wire) \in Messages /\ wire' \in Seq(Messages)
      BY <1>0, <1>1 DEF HandleResponse, AdapterTypeOK
    <2>2. CallsTypeOK'
      BY <1>0, <1>1 DEF HandleResponse, CallsTypeOK, Pending
    <2> QED
      BY <1>0, <1>1, <2>1, <2>2
        DEF HandleResponse, ClientTypeOK, AdapterTypeOK
  <1>2. CASE HandleEvent
    <2>1. Head(wire) \in Messages /\ wire' \in Seq(Messages)
      BY <1>0, <1>2 DEF HandleEvent, AdapterTypeOK
    <2>2. stopped' \in 0..MaxStops
      BY <1>0, <1>2, <2>1, DapAssumption
        DEF HandleEvent, Messages, ClientTypeOK
    <2> QED
      BY <1>0, <1>2, <2>1, <2>2
        DEF HandleEvent, CallsTypeOK, ClientTypeOK, AdapterTypeOK
  <1>3. CASE Notify \/ LastNotify
    <2>1. ASSUME NEW d \in Calls
          PROVE  CallOK(call'[d], nextSeq)
      <3>1. CallOK(call[d], nextSeq)
        BY <1>0 DEF CallsTypeOK, CallOK
      <3>2. call[d].pc = "sleep" =>
              CallOK([call[d] EXCEPT !.pc = "check"], nextSeq)
        BY <3>1 DEF CallOK, CallStates
      <3> QED
        BY <1>0, <1>3, <3>1, <3>2 DEF Notify, LastNotify, Awaken
    <2>2. CallsTypeOK'
      BY <1>0, <1>3, <2>1
        DEF Notify, LastNotify, Awaken, CallsTypeOK, CallOK, clientVars
    <2> QED
      BY <1>0, <1>3, <2>2
        DEF Notify, LastNotify, ClientTypeOK, AdapterTypeOK, clientVars,
            adapterVars
  <1>4. CASE ReaderEnds
    BY <1>0, <1>4
      DEF ReaderEnds, CallsTypeOK, ClientTypeOK, AdapterTypeOK, adapterVars
  <1>5. CASE DrainPending
    BY <1>0, <1>5
      DEF DrainPending, CallsTypeOK, ClientTypeOK, AdapterTypeOK, Pending,
          adapterVars
  <1> QED
    BY <1>1, <1>2, <1>3, <1>4, <1>5 DEF ReaderStep

\* The adapter keeps the types.
LEMMA AdapterType ==
  ASSUME TypeOK, AdapterStep
  PROVE  TypeOK'
  <1>0. CallsTypeOK /\ ClientTypeOK /\ AdapterTypeOK
    BY TypeByParts DEF PartsOK
  <1>a. MaxSeq \in Nat /\ MaxStops \in Nat
    BY DapAssumption
  <1>b. SUFFICES CallsTypeOK' /\ ClientTypeOK' /\ AdapterTypeOK'
    BY TypeByParts DEF PartsOK
  <1>c. CallsTypeOK' /\ ClientTypeOK'
    <2>1. UNCHANGED <<call, clientVars, reader, session>>
      BY DEF AdapterStep, Act, Respond, Stop, Exit, AdapterExits, Garble
    <2> QED
      BY <1>0, <2>1 DEF CallsTypeOK, ClientTypeOK, clientVars
  <1>1. CASE Act
    <2>1. Head(inbox) \in [cmd : Commands, seq : Seqs]
          /\ inbox' \in Seq([cmd : Commands, seq : Seqs])
      <3> DEFINE Requests == [cmd : Commands, seq : Seqs]
      <3>1. inbox \in Seq(Requests) /\ inbox # <<>> /\ inbox' = Tail(inbox)
        BY <1>0, <1>1 DEF Act, AdapterTypeOK
      <3> HIDE DEF Requests
      <3>2. Head(inbox) \in Requests /\ inbox' \in Seq(Requests)
        BY <3>1
      <3> QED
        BY <3>2 DEF Requests
    <2>2. /\ Message("initialized", 0) \in Messages
          /\ Message("continued", 0) \in Messages
          /\ \A s \in Seqs, kind \in {"ok", "failed"} :
               Message(kind, s) \in Messages
      BY DEF Message, Messages
    <2>3. owed' \subseteq Messages /\ held' \subseteq Seqs
      BY <1>0, <1>1, <2>1, <2>2 DEF Act, Owe, AdapterTypeOK
    <2>4. wire' \in Seq(Messages)
      <3>1. \/ wire' = wire
            \/ \E kind \in {"initialized", "continued"} :
                 wire' = Append(wire, Message(kind, 0))
        BY <1>1 DEF Act, Sent
      <3>2. wire \in Seq(Messages)
        BY <1>0 DEF AdapterTypeOK
      <3> QED
        BY <2>2, <3>1, <3>2
    <2>5. debuggee' \in {"absent", "running", "stopped", "gone"}
      BY <1>0, <1>1 DEF Act, AdapterTypeOK
    <2>6. base' \in [Seqs -> 0..MaxStops]
      BY <1>0, <1>1, <1>a, <2>1 DEF Act, AdapterTypeOK
    <2> QED
      BY <1>0, <1>1, <1>c, <2>1, <2>3, <2>4, <2>5, <2>6 DEF Act, AdapterTypeOK
  <1>2. CASE Respond
    BY <1>0, <1>2, <1>c DEF Respond, AdapterTypeOK
  <1>3. CASE Stop
    <2>1. Message("stopped", stops + 1) \in Messages /\ stops + 1 \in 0..MaxStops
      BY <1>0, <1>3, <1>a DEF Stop, AdapterTypeOK, Message, Messages
    <2> QED
      BY <1>0, <1>3, <1>c, <2>1 DEF Stop, AdapterTypeOK
  <1>4. CASE Exit
    <2>1. Message("terminated", 0) \in Messages
      BY DEF Message, Messages
    <2> QED
      BY <1>0, <1>4, <1>c, <2>1 DEF Exit, AdapterTypeOK
  <1>5. CASE AdapterExits \/ Garble
    BY <1>0, <1>5, <1>c DEF AdapterExits, Garble, AdapterTypeOK
  <1> QED
    BY <1>1, <1>2, <1>3, <1>4, <1>5 DEF AdapterStep

LEMMA TypeInit == Init => TypeOK
  <1> SUFFICES ASSUME Init PROVE TypeOK
    OBVIOUS
  <1>a. MaxSeq \in Nat /\ MaxSeq >= 4 /\ MaxStops \in Nat
    BY DapAssumption
  <1>1. \A c \in Calls : CallOK(call[c], nextSeq)
    BY <1>a, FreshOK DEF Init
  <1>2. CallsTypeOK
    BY <1>a, <1>1 DEF Init, CallsTypeOK, CallOK
  <1>b. /\ initialized \in BOOLEAN /\ terminated \in BOOLEAN /\ closed \in BOOLEAN
        /\ exited \in BOOLEAN /\ garbled \in BOOLEAN /\ lost \in BOOLEAN
    BY Zenon DEF Init
  <1>c. stopped = 0 /\ stops = 0 /\ debuggee = "absent" /\ base = [s \in Seqs |-> 0]
        /\ reader = "read" /\ session = "none" /\ inbox = <<>> /\ wire = <<>>
        /\ held = {} /\ owed = {}
    BY Zenon DEF Init
  <1>3. ClientTypeOK
    BY <1>a, <1>b, <1>c DEF ClientTypeOK
  <1>4. AdapterTypeOK
    BY <1>a, <1>b, <1>c DEF AdapterTypeOK
  <1> QED
    BY <1>2, <1>3, <1>4, TypeByParts DEF PartsOK

LEMMA TypeNext == TypeOK /\ [Next]_vars => TypeOK'
  <1> SUFFICES ASSUME TypeOK, [Next]_vars PROVE TypeOK'
    OBVIOUS
  <1>1. CASE UNCHANGED vars
    BY <1>1 DEF vars, clientVars, adapterVars, TypeOK
  <1> QED
    BY <1>1, CallType, ReaderType, AdapterType DEF Next

\* Every variable of a session stays in its domain, for every number of tool
\* calls, requests and stops, and whatever the adapter may do.
THEOREM TypeCorrect == Spec => []TypeOK
  BY TypeInit, TypeNext, PTL DEF Spec

-----------------------------------------------------------------------------
(* Requests on a dead adapter.  Why NoWaitOnDeadAdapter is not inductive: it *)
(* says nothing before the reader is gone, and nothing of the launch request *)
(* a launch goes back to.                                                    *)

\* The reader stops for the end of the adapter or an unreadable frame.
EndsForAReason ==
  ~garbled /\ reader \notin {"read", "notify"} => exited

\* The pending requests have been failed, and nothing awaits a later one.
Drained ==
  ~garbled /\ reader \in {"wake", "gone"} =>
    \A c \in Calls : call[c].pc = "await" =>
      \A s \in Seqs : s \in {call[c].seq, call[c].launch} => chan[s] # "open"

DeadInv == TypeOK /\ EndsForAReason /\ Drained

-----------------------------------------------------------------------------
(* Fresh stops.  A response is put into the stream after the adapter has     *)
(* acted, so what follows it in the stream is later than the request.        *)

\* The adapter has not acted on request s.
Unacted(s) == \/ s >= nextSeq
              \/ \E c \in Calls : call[c].pc = "write" /\ call[c].seq = s
              \/ \E i \in DOMAIN inbox : inbox[i].seq = s

Answers == {"ok", "failed"}

\* A request is written once, and answered only after it has been acted on.
RequestsOK ==
  /\ \A i \in DOMAIN inbox : inbox[i].seq < nextSeq
  /\ \A i, j \in DOMAIN inbox : inbox[i].seq = inbox[j].seq => i = j
  /\ \A c \in Calls : call[c].pc = "write" =>
       /\ \A i \in DOMAIN inbox : inbox[i].seq # call[c].seq
       /\ \A d \in Calls : call[d].pc = "write" /\ call[d].seq = call[c].seq
                           => d = c
  /\ \A m \in owed : m.kind \in Answers
  /\ \A s \in Seqs : Unacted(s) =>
       /\ s \notin held
       /\ chan[s] \notin Answers
       /\ \A m \in owed : m.n # s
       /\ \A i \in DOMAIN wire : wire[i].kind \in Answers => wire[i].n # s

\* Stops in the stream behind a success, or behind one that has been read, are
\* later than the request it answers.
StreamOK ==
  /\ \A s \in Seqs : base[s] <= stops
  /\ \A s \in Seqs : chan[s] = "ok" =>
       \A j \in DOMAIN wire : wire[j].kind = "stopped" => wire[j].n > base[s]
  /\ \A i, j \in DOMAIN wire :
       i < j /\ wire[i].kind = "ok" /\ wire[j].kind = "stopped"
         => wire[j].n > base[wire[i].n]

\* What a resuming call knows at each point.
CallFresh(c) ==
  call[c].cmd \in Resumes =>
    /\ call[c].pc = "clear" => chan[call[c].seq] = "ok"
    /\ call[c].pc \in {"check", "checkClosed", "arm", "sleep"} =>
         /\ call[c].seq \in Seqs /\ chan[call[c].seq] = "ok"
         /\ stopped # 0 => stopped > base[call[c].seq]
    /\ call[c].pc = "idle" /\ call[c].result.kind = "stop" =>
         /\ call[c].seq \in Seqs /\ chan[call[c].seq] = "ok"
         /\ call[c].result.stop > base[call[c].seq]

FreshInv == TypeOK /\ RequestsOK /\ StreamOK /\ \A c \in Calls : CallFresh(c)

Waits == {"check", "checkClosed", "arm", "sleep"}

LEMMA RequestInSeqs ==
  ASSUME TypeOK, NEW d \in Calls, call[d].pc \in {"write", "await", "clear"}
  PROVE  call[d].seq \in Seqs
  <1>1. call[d] \in CallStates /\ call[d].seq # 0
    BY DEF TypeOK
  <1>2. call[d].seq \in 0..MaxSeq
    BY <1>1 DEF CallStates
  <1> QED
    BY <1>1, <1>2, DapAssumption DEF Seqs

\* What the ways a call moves leave of it.
Others(c) == \A d \in Calls \ {c} : call'[d] = call[d]
Same(c)   == /\ Others(c)
             /\ call'[c].cmd = call[c].cmd /\ call'[c].seq = call[c].seq
             /\ call'[c].launch = call[c].launch

LEMMA GotoEffect ==
  ASSUME TypeOK, NEW c \in Calls, NEW pc, Goto(c, pc)
  PROVE  Same(c) /\ call'[c].pc = pc
  <1>1. call \in [Calls -> CallStates] /\ call[c] \in CallStates
    BY DEF TypeOK
  <1> QED
    BY <1>1 DEF Goto, Same, Others, CallStates

LEMMA ReturnEffect ==
  ASSUME TypeOK, NEW c \in Calls, NEW kind, NEW stop, Return(c, kind, stop)
  PROVE  /\ Same(c) /\ call'[c].pc = "idle"
         /\ call'[c].result.kind = kind /\ call'[c].result.stop = stop
  <1> DEFINE result == [kind |-> kind, stop |-> stop,
                        sawClosed |-> call[c].sawClosed]
  <1>1. call \in [Calls -> CallStates] /\ call[c] \in CallStates
    BY DEF TypeOK
  <1>2. call' = [call EXCEPT ![c].pc = "idle", ![c].result = result]
    BY DEF Return
  <1>3. result.kind = kind /\ result.stop = stop
    OBVIOUS
  <1> HIDE DEF result
  <1> QED
    BY <1>1, <1>2, <1>3 DEF Same, Others, CallStates

LEMMA FailEffect ==
  ASSUME TypeOK, NEW c \in Calls, NEW kind \in {"error", "timeout"},
         Fail(c, kind)
  PROVE  /\ Others(c)
         /\ \/ call'[c].pc = "submit"
            \/ call'[c].pc = "idle" /\ call'[c].result.kind = kind
  <1>1. call \in [Calls -> CallStates] /\ call[c] \in CallStates
    BY DEF TypeOK
  <1>2. CASE Launching(c)
    BY <1>1, <1>2 DEF Fail, Others, CallStates
  <1>3. CASE ~Launching(c)
    BY <1>3, ReturnEffect DEF Fail, Same
  <1> QED
    BY <1>2, <1>3

LEMMA GiveUpEffect ==
  ASSUME TypeOK, NEW c \in Calls, NEW kind \in {"error", "timeout"},
         GiveUp(c, kind)
  PROVE  /\ Others(c)
         /\ \/ call'[c].pc \in {"submit", "kill"}
            \/ call'[c].pc = "idle" /\ call'[c].result.kind = kind
  BY GotoEffect, FailEffect DEF GiveUp, Same

\* What a step of call c tells of its new state: how it can come to write, to
\* await, to clear the stop, to wait for one and to return one.
Writes(c) == call'[c].pc = "write" => Submit(c)
Awaits(c) == call'[c].pc = "await" =>
               \/ Write(c)
               \/ /\ call[c].pc = "await"
                  /\ call'[c].launch = call[c].launch
                  /\ call'[c].seq = call[c].launch
Clears(c) == call'[c].pc = "clear" => /\ call'[c].seq = call[c].seq
                                      /\ call[c].seq \in Seqs
                                      /\ chan[call[c].seq] = "ok"
WaitsOn(c) == call'[c].pc \in Waits /\ call'[c].cmd \in Resumes =>
                /\ call'[c].seq = call[c].seq /\ call[c].cmd \in Resumes
                /\ \/ call[c].pc \in Waits /\ stopped' = stopped
                   \/ call[c].pc = "clear" /\ stopped' = 0
Returns(c) == call'[c].pc = "idle" /\ call'[c].result.kind = "stop"
              /\ call'[c].cmd \in Resumes =>
                /\ call'[c].seq = call[c].seq /\ call[c].cmd \in Resumes
                /\ call[c].pc = "check" /\ stopped # 0
                /\ call'[c].result.stop = stopped
Effect(c) == Others(c) /\ Writes(c) /\ Awaits(c) /\ Clears(c) /\ WaitsOn(c)
             /\ Returns(c)

\* A call that starts, submits or fails is none of these.
LEMMA QuietEffect ==
  ASSUME NEW c \in Calls, Others(c),
         \/ call'[c].pc \in {"submit", "kill"}
         \/ call'[c].pc = "idle" /\ call'[c].result.kind # "stop"
  PROVE  Effect(c)
  BY DEF Effect, Writes, Awaits, Clears, WaitsOn, Returns, Waits

LEMMA CallEffect ==
  ASSUME TypeOK, NEW c \in Calls, CallStep(c)
  PROVE  Effect(c)
  <1>0. /\ call \in [Calls -> CallStates] /\ call[c] \in CallStates
        /\ call[c].pc \in {"await", "clear"} => call[c].seq \in Seqs
    BY DapAssumption DEF TypeOK, CallStates, Seqs
  <1>a. \A cmd \in Resumes : cmd \notin {"initialize", "launch", "disconnect",
                                         "configurationDone", "pause", "inspect"}
    BY DEF Resumes
  <1>1. CASE Launch(c) \/ Terminate(c) \/ \E cmd \in Commands : Begin(c, cmd)
    <2>1. PICK cmd : call' = [call EXCEPT ![c] = [Fresh EXCEPT !.pc = "submit",
                                                              !.cmd = cmd]]
      BY <1>1 DEF Launch, Terminate, Begin
    <2> QED
      BY <1>0, <2>1, QuietEffect DEF Fresh, Others
  <1>2. CASE Submit(c)
    <2>1. Others(c) /\ call'[c].pc = "write"
      BY <1>0, <1>2 DEF Submit, Others, CallStates
    <2> QED
      BY <1>2, <2>1 DEF Effect, Writes, Awaits, Clears, WaitsOn, Returns, Waits
  <1>3. CASE Write(c)
    <2>1. CASE call[c].cmd = "launch"
      <3>1. Others(c) /\ call'[c].pc = "check" /\ call'[c].cmd = "launch"
        BY <1>0, <1>3, <2>1 DEF Write, Others, CallStates
      <3> QED
        BY <1>a, <3>1 DEF Effect, Writes, Awaits, Clears, WaitsOn, Returns, Waits
    <2>2. CASE call[c].cmd # "launch"
      <3>1. Others(c) /\ call'[c].pc = "await"
        BY <1>0, <1>3, <2>2 DEF Write, Others, CallStates
      <3> QED
        BY <1>3, <3>1 DEF Effect, Writes, Awaits, Clears, WaitsOn, Returns, Waits
    <2> QED
      BY <2>1, <2>2
  <1>4. CASE \E kind \in {"error", "timeout"} : GiveUp(c, kind) \/ Fail(c, kind)
    BY <1>4, GiveUpEffect, FailEffect, QuietEffect
  <1>5. CASE /\ call[c].pc = "await" /\ chan[call[c].seq] = "ok" /\ Proceed(c)
             /\ UNCHANGED stopped
    <2>1. ASSUME NEW pc \in {"submit", "check", "clear"}, NEW cmd, NEW goal,
                 pc = "check" => cmd \notin Resumes,
                 call' = [call EXCEPT ![c].pc = pc, ![c].cmd = cmd,
                                      ![c].goal = goal]
          PROVE  Effect(c)
      <3>1. /\ Others(c) /\ call'[c].pc = pc /\ call'[c].cmd = cmd
            /\ call'[c].seq = call[c].seq
        BY <1>0, <2>1 DEF Others, CallStates
      <3> QED
        BY <1>0, <1>5, <2>1, <3>1
          DEF Effect, Writes, Awaits, Clears, WaitsOn, Returns, Waits
    <2>2. CASE call' = [call EXCEPT ![c].seq = call[c].launch]
      <3>1. /\ Others(c) /\ call'[c].pc = "await"
            /\ call'[c].seq = call[c].launch /\ call'[c].launch = call[c].launch
        BY <1>0, <1>5, <2>2 DEF Others, CallStates
      <3> QED
        BY <1>5, <3>1 DEF Effect, Writes, Awaits, Clears, WaitsOn, Returns, Waits
    <2>3. CASE Return(c, "ok", 0)
      BY <2>3, ReturnEffect, QuietEffect DEF Same
    <2>4. CASE Goto(c, "kill")
      BY <2>4, GotoEffect, QuietEffect DEF Same
    <2> QED
      BY <1>5, <1>a, <2>1, <2>2, <2>3, <2>4 DEF Proceed
  <1>6. CASE Clear(c)
    <2>1. Same(c) /\ call'[c].pc = "check" /\ stopped' = 0 /\ call[c].pc = "clear"
      BY <1>6, GotoEffect DEF Clear
    <2> QED
      BY <2>1 DEF Same, Effect, Writes, Awaits, Clears, WaitsOn, Returns, Waits
  <1>7. CASE Kill(c)
    BY <1>7, ReturnEffect, QuietEffect DEF Kill, Same
  <1>8. ASSUME NEW pc \in Waits, Goto(c, pc), call[c].pc \in Waits,
               UNCHANGED stopped
        PROVE  Effect(c)
    <2>1. Same(c) /\ call'[c].pc = pc
      BY <1>8, GotoEffect
    <2> QED
      BY <1>8, <2>1
        DEF Same, Effect, Writes, Awaits, Clears, WaitsOn, Returns, Waits
  <1>9. CASE Check(c)
    <2>1. call[c].pc = "check" /\ UNCHANGED stopped
      BY <1>9 DEF Check, clientVars
    <2>2. CASE call' = [call EXCEPT ![c].pc = "submit",
                                    ![c].cmd = "configurationDone"]
      <3>1. Others(c) /\ call'[c].pc = "submit"
        BY <1>0, <2>2 DEF Others, CallStates
      <3> QED
        BY <3>1, QuietEffect
    <2>3. CASE call' = [call EXCEPT ![c].pc = "arm", ![c].sawClosed = closed]
      <3>1. Same(c) /\ call'[c].pc = "arm"
        BY <1>0, <2>3 DEF Same, Others, CallStates
      <3> QED
        BY <2>1, <3>1
          DEF Same, Effect, Writes, Awaits, Clears, WaitsOn, Returns, Waits
    <2>4. CASE Return(c, "stop", stopped) /\ stopped # 0
      <3>1. /\ Same(c) /\ call'[c].pc = "idle" /\ call'[c].result.stop = stopped
        BY <2>4, ReturnEffect
      <3> QED
        BY <2>1, <2>4, <3>1
          DEF Same, Effect, Writes, Awaits, Clears, WaitsOn, Returns, Waits
    <2> QED
      BY <1>4, <1>8, <1>9, <2>1, <2>2, <2>3, <2>4 DEF Check, Waits
  <1> QED
    BY <1>1, <1>2, <1>3, <1>4, <1>5, <1>6, <1>7, <1>8, <1>9
      DEF CallStep, WriteError, Receive, RequestTimeout, CheckClosed, Arm,
          WaitTimeout, Waits, clientVars

-----------------------------------------------------------------------------
LEMMA DeadInit == Init => DeadInv
  BY TypeInit DEF Init, DeadInv, EndsForAReason, Drained

LEMMA CallDead ==
  ASSUME DeadInv, TypeOK', NEW c \in Calls, CallStep(c)
  PROVE  DeadInv'
  <1>0. TypeOK /\ EndsForAReason /\ Drained /\ Effect(c)
    BY CallEffect DEF DeadInv
  <1>1. UNCHANGED <<reader, garbled>>
    BY DEF CallStep, Launch, Terminate, Begin, Submit, Write, WriteError,
           Receive, RequestTimeout, Clear, Kill, Check, CheckClosed, Arm,
           WaitTimeout, adapterVars
  <1>2. exited => exited'
    BY DEF CallStep, Launch, Terminate, Begin, Submit, Write, WriteError,
           Receive, RequestTimeout, Clear, Kill, Check, CheckClosed, Arm,
           WaitTimeout, adapterVars
  <1>3. EndsForAReason'
    BY <1>0, <1>1, <1>2 DEF EndsForAReason
  <1>4. \/ UNCHANGED chan /\ ~Submit(c)
        \/ Submit(c)
    BY DEF CallStep, Launch, Terminate, Begin, Submit, Write, WriteError,
           Receive, RequestTimeout, Clear, Kill, Check, CheckClosed, Arm,
           WaitTimeout, clientVars
  <1>5. Drained'
    <2> SUFFICES ASSUME ~garbled, reader \in {"wake", "gone"},
                        NEW d \in Calls, call'[d].pc = "await",
                        NEW s \in Seqs, s \in {call'[d].seq, call'[d].launch}
                 PROVE  chan'[s] # "open"
      BY <1>1 DEF Drained
    <2>1. exited
      BY <1>0 DEF EndsForAReason
    <2>2. ~Write(c)
      BY <2>1 DEF Write
    <2>3. call[d].pc = "await" /\ s \in {call[d].seq, call[d].launch}
      BY <1>0, <2>2 DEF Effect, Others, Awaits
    <2>4. chan[s] # "open"
      BY <1>0, <2>3 DEF Drained
    <2>5. CASE Submit(c)
      <3>1. s < nextSeq
        BY <1>0, <2>3 DEF TypeOK
      <3>2. nextSeq \in Nat /\ s \in Nat /\ s # nextSeq
        BY <1>0, <3>1, DapAssumption DEF TypeOK, Seqs
      <3> QED
        BY <1>0, <2>4, <2>5, <3>2 DEF Submit, TypeOK
    <2> QED
      BY <1>4, <2>4, <2>5
  <1> QED
    BY <1>3, <1>5 DEF DeadInv

LEMMA ReaderDead ==
  ASSUME DeadInv, TypeOK', ReaderStep
  PROVE  DeadInv'
  <1>0. TypeOK /\ EndsForAReason /\ Drained
    BY DEF DeadInv
  <1>1. CASE HandleResponse \/ HandleEvent \/ Notify
    BY <1>0, <1>1
      DEF HandleResponse, HandleEvent, Notify, DeadInv, EndsForAReason, Drained
  <1>2. CASE ReaderEnds
    BY <1>0, <1>2
      DEF ReaderEnds, DeadInv, EndsForAReason, Drained, adapterVars
  <1>3. CASE DrainPending
    <2>1. \A s \in Seqs : chan'[s] # "open"
      BY <1>0, <1>3 DEF DrainPending, Pending, TypeOK
    <2> QED
      BY <1>0, <1>3, <2>1
        DEF DrainPending, DeadInv, EndsForAReason, Drained, adapterVars
  <1>4. CASE LastNotify
    <2>1. UNCHANGED <<chan, garbled, exited>> /\ reader = "wake" /\ reader' = "gone"
      BY <1>4 DEF LastNotify, clientVars, adapterVars
    <2>2. \A c \in Calls : call'[c].pc = "await" => call'[c] = call[c]
      BY <1>0, <1>4 DEF LastNotify, Awaken, TypeOK, CallStates
    <2> QED
      BY <1>0, <2>1, <2>2 DEF DeadInv, EndsForAReason, Drained
  <1> QED
    BY <1>1, <1>2, <1>3, <1>4 DEF ReaderStep

LEMMA AdapterDead ==
  ASSUME DeadInv, TypeOK', AdapterStep
  PROVE  DeadInv'
  <1>1. /\ UNCHANGED <<call, chan, reader>>
        /\ exited => exited'
        /\ ~garbled' => ~garbled
    BY DEF AdapterStep, Act, Respond, Stop, Exit, AdapterExits, Garble,
           clientVars
  <1> QED
    BY <1>1 DEF DeadInv, EndsForAReason, Drained

LEMMA DeadNext == DeadInv /\ [Next]_vars => DeadInv'
  <1> SUFFICES ASSUME DeadInv, [Next]_vars PROVE DeadInv'
    OBVIOUS
  <1>0. TypeOK'
    BY TypeNext DEF DeadInv
  <1>1. CASE UNCHANGED vars
    BY <1>0, <1>1
      DEF vars, clientVars, adapterVars, DeadInv, EndsForAReason, Drained
  <1> QED
    BY <1>0, <1>1, CallDead, ReaderDead, AdapterDead DEF Next

\* Once the adapter is dead and the reader has cleaned up, no request sits out
\* its timeout, however many calls were under way.
THEOREM DeadAdapterFailsRequests == Spec => []NoWaitOnDeadAdapter
  <1>1. DeadInv => NoWaitOnDeadAdapter
    <2> SUFFICES ASSUME DeadInv, exited, ~garbled, reader = "gone",
                        NEW c \in Calls, call[c].pc = "await"
                 PROVE  chan[call[c].seq] # "open"
      BY DEF NoWaitOnDeadAdapter
    <2>1. call[c].seq \in Seqs
      BY DapAssumption DEF DeadInv, TypeOK, CallStates, Seqs
    <2> QED
      BY <2>1 DEF DeadInv, Drained
  <1> QED
    BY <1>1, DeadInit, DeadNext, PTL DEF Spec

-----------------------------------------------------------------------------
LEMMA AppendFacts ==
  ASSUME NEW S, NEW q \in Seq(S), NEW e \in S
  PROVE  /\ DOMAIN q = 1..Len(q) /\ Len(q) \in Nat
         /\ DOMAIN Append(q, e) = 1..Len(q) + 1
         /\ \A i \in DOMAIN q : Append(q, e)[i] = q[i]
         /\ Append(q, e)[Len(q) + 1] = e
  OBVIOUS

LEMMA TailFacts ==
  ASSUME NEW S, NEW q \in Seq(S), q # <<>>
  PROVE  /\ 1 \in DOMAIN q /\ Head(q) = q[1] /\ Head(q) \in S
         /\ DOMAIN q \subseteq Nat \ {0}
         /\ \A i \in DOMAIN Tail(q) :
              i \in Nat \ {0} /\ i + 1 \in DOMAIN q /\ Tail(q)[i] = q[i + 1]
  OBVIOUS

LEMMA InboxSeqs ==
  ASSUME TypeOK
  PROVE  \A i \in DOMAIN inbox : inbox[i].seq \in Seqs
  <1> DEFINE Requests == [cmd : Commands, seq : Seqs]
  <1>1. inbox \in Seq(Requests)
    BY DEF TypeOK
  <1> HIDE DEF Requests
  <1>2. \A i \in DOMAIN inbox : inbox[i] \in Requests
    BY <1>1
  <1> QED
    BY <1>2 DEF Requests

LEMMA FreshInit == Init => FreshInv
  <1> SUFFICES ASSUME Init PROVE FreshInv
    OBVIOUS
  <1>0. TypeOK
    BY TypeInit
  <1>1. /\ inbox = <<>> /\ wire = <<>> /\ held = {} /\ owed = {}
        /\ base = [s \in Seqs |-> 0] /\ chan = [s \in Seqs |-> "unsent"]
        /\ stops = 0 /\ nextSeq = 1
        /\ call = [c \in Calls |-> Fresh]
    BY DEF Init
  <1>2. \A c \in Calls : call[c].pc = "idle" /\ call[c].cmd = "none"
    BY <1>1 DEF Fresh
  <1>3. RequestsOK
    BY <1>1, <1>2 DEF RequestsOK, Answers, Seqs
  <1>4. StreamOK
    BY <1>1 DEF StreamOK, Seqs
  <1>5. \A c \in Calls : CallFresh(c)
    BY <1>2 DEF CallFresh, Resumes
  <1> QED
    BY <1>0, <1>3, <1>4, <1>5 DEF FreshInv

\* A tool call writes each request once.
LEMMA CallRequests ==
  ASSUME FreshInv, NEW c \in Calls, CallStep(c)
  PROVE  RequestsOK'
  <1>0. TypeOK /\ RequestsOK /\ Effect(c)
    BY CallEffect DEF FreshInv
  <1>a. /\ nextSeq \in Nat
        /\ \A s \in Seqs : s \in Nat
        /\ \A d \in Calls : call[d].seq < nextSeq
    BY <1>0, DapAssumption DEF TypeOK, Seqs
  <1>1. UNCHANGED <<held, owed, wire>>
    BY DEF CallStep, Launch, Terminate, Begin, Submit, Write, WriteError,
           Receive, RequestTimeout, Clear, Kill, Check, CheckClosed, Arm,
           WaitTimeout, adapterVars
  <1>2. CASE Submit(c)
    <2>1. /\ \A d \in Calls \ {c} : call'[d] = call[d]
          /\ call'[c].seq = nextSeq /\ nextSeq' = nextSeq + 1
          /\ UNCHANGED inbox /\ nextSeq \in Seqs
          /\ chan' = [chan EXCEPT ![nextSeq] = "open"]
      BY <1>0, <1>2, DapAssumption
        DEF Submit, TypeOK, CallStates, Seqs, adapterVars
    <2>2. \A s \in Seqs : Unacted(s)' => Unacted(s) /\ chan'[s] \in {chan[s], "open"}
      <3>1. chan \in [Seqs -> {"unsent", "open", "ok", "failed", "dropped"}]
        BY <1>0 DEF TypeOK
      <3>2. \A s \in Seqs : s >= nextSeq' => s >= nextSeq
        BY <1>a, <2>1
      <3>3. nextSeq >= nextSeq
        BY <1>a
      <3> QED
        BY <2>1, <3>1, <3>2, <3>3 DEF Unacted
    <2>3. \A i \in DOMAIN inbox : inbox[i].seq < nextSeq' /\ inbox[i].seq # nextSeq
      <3>1. \A i \in DOMAIN inbox : inbox[i].seq \in Nat
        BY <1>0, <1>a, InboxSeqs
      <3>2. \A i \in DOMAIN inbox : inbox[i].seq < nextSeq
        BY <1>0 DEF RequestsOK
      <3> QED
        BY <1>a, <2>1, <3>1, <3>2
    <2>4. \A d \in Calls : call'[d].pc = "write" =>
            /\ \A i \in DOMAIN inbox : inbox[i].seq # call'[d].seq
            /\ \A e \in Calls : call'[e].pc = "write" /\ call'[e].seq = call'[d].seq
                                => e = d
      BY <1>0, <1>a, <2>1, <2>3 DEF RequestsOK
    <2>5. \A s \in Seqs : Unacted(s)' => chan'[s] \notin Answers
      BY <1>0, <2>2 DEF RequestsOK, Answers
    <2> QED
      BY <1>0, <1>1, <2>1, <2>2, <2>3, <2>4, <2>5 DEF RequestsOK
  <1>3. CASE Write(c)
    <2> DEFINE r == [cmd |-> call[c].cmd, seq |-> call[c].seq]
               Requests == [cmd : Commands, seq : Seqs]
    <2>1. /\ inbox' = Append(inbox, r) /\ UNCHANGED <<chan, nextSeq>>
          /\ call[c].pc = "write" /\ r.seq = call[c].seq
      BY <1>3 DEF Write, clientVars
    <2>2. inbox \in Seq(Requests) /\ r \in Requests
      BY <1>0, <2>1, DapAssumption DEF TypeOK, CallStates, Seqs, Commands
    <2>3. ~Submit(c)
      BY <2>1 DEF Submit
    <2>4. \A d \in Calls : call'[d].pc = "write" => d # c /\ call'[d] = call[d]
      BY <1>0, <2>3 DEF Effect, Others, Writes
    <2> HIDE DEF r, Requests
    <2>5. /\ DOMAIN inbox = 1..Len(inbox) /\ Len(inbox) \in Nat
          /\ DOMAIN inbox' = 1..Len(inbox) + 1
          /\ \A i \in DOMAIN inbox : inbox'[i] = inbox[i]
          /\ inbox'[Len(inbox) + 1] = r
      BY <2>1, <2>2, AppendFacts
    <2>6. \A i \in DOMAIN inbox' : \/ i \in DOMAIN inbox /\ inbox'[i] = inbox[i]
                                   \/ i = Len(inbox) + 1 /\ inbox'[i].seq = call[c].seq
      BY <2>1, <2>5
    <2>7. \A s \in Seqs : Unacted(s)' => Unacted(s)
      BY <2>1, <2>4, <2>6 DEF Unacted
    <2>8. \A i \in DOMAIN inbox' : inbox'[i].seq < nextSeq'
      BY <1>0, <1>a, <2>1, <2>6 DEF RequestsOK
    <2>9. \A i, j \in DOMAIN inbox' : inbox'[i].seq = inbox'[j].seq => i = j
      BY <1>0, <2>1, <2>6 DEF RequestsOK
    <2>10. \A d \in Calls : call'[d].pc = "write" =>
             /\ \A i \in DOMAIN inbox' : inbox'[i].seq # call'[d].seq
             /\ \A e \in Calls : call'[e].pc = "write" /\ call'[e].seq = call'[d].seq
                                 => e = d
      BY <1>0, <2>1, <2>4, <2>6 DEF RequestsOK
    <2> QED
      BY <1>0, <1>1, <2>1, <2>7, <2>8, <2>9, <2>10 DEF RequestsOK
  <1>4. CASE ~Submit(c) /\ ~Write(c)
    <2>1. UNCHANGED <<chan, nextSeq, inbox>>
      BY <1>4 DEF CallStep, Launch, Terminate, Begin, WriteError, Receive,
                  RequestTimeout, Clear, Kill, Check, CheckClosed, Arm,
                  WaitTimeout, clientVars, adapterVars
    <2>2. \A d \in Calls : call'[d].pc = "write" => call'[d] = call[d]
      BY <1>0, <1>4 DEF Effect, Others, Writes
    <2>3. \A s \in Seqs : Unacted(s)' => Unacted(s)
      BY <2>1, <2>2 DEF Unacted
    <2> QED
      BY <1>0, <1>1, <2>1, <2>2, <2>3 DEF RequestsOK
  <1> QED
    BY <1>2, <1>3, <1>4

LEMMA CallFreshStep ==
  ASSUME FreshInv, TypeOK', NEW c \in Calls, CallStep(c)
  PROVE  FreshInv'
  <1>0. TypeOK /\ StreamOK /\ Effect(c) /\ \A d \in Calls : CallFresh(d)
    BY CallEffect DEF FreshInv
  <1>1. UNCHANGED <<wire, stops, base>> /\ stopped' \in {stopped, 0}
    BY DEF CallStep, Launch, Terminate, Begin, Submit, Write, WriteError,
           Receive, RequestTimeout, Clear, Kill, Check, CheckClosed, Arm,
           WaitTimeout, clientVars, adapterVars
  <1>2. \A s \in Seqs : chan'[s] = "ok" <=> chan[s] = "ok"
    <2>1. CASE Submit(c)
      BY <1>0, <2>1, DapAssumption DEF Submit, TypeOK, Seqs
    <2>2. CASE ~Submit(c)
      <3>1. UNCHANGED chan
        BY <2>2 DEF CallStep, Launch, Terminate, Begin, Write, WriteError,
                    Receive, RequestTimeout, Clear, Kill, Check, CheckClosed,
                    Arm, WaitTimeout, clientVars
      <3> QED
        BY <3>1
    <2> QED
      BY <2>1, <2>2
  <1>3. StreamOK'
    BY <1>0, <1>1, <1>2 DEF StreamOK
  <1>4. ASSUME NEW d \in Calls
        PROVE  CallFresh(d)'
    <2>1. CASE d # c
      <3>1. call'[d] = call[d]
        BY <1>0, <2>1 DEF Effect, Others
      <3>2. call[d].pc = "clear" => call[d].seq \in Seqs
        BY <1>0, RequestInSeqs
      <3> QED
        BY <1>0, <1>1, <1>2, <3>1, <3>2 DEF CallFresh, Waits
    <2>2. CASE d = c
      <3>1. call[c].pc = "clear" => call[c].seq \in Seqs
        BY <1>0, RequestInSeqs
      <3>2. call'[c].pc = "clear" => chan'[call'[c].seq] = "ok"
        BY <1>0, <1>2 DEF Effect, Clears
      <3>3. call'[c].cmd \in Resumes /\ call'[c].pc \in Waits =>
              /\ call'[c].seq \in Seqs /\ chan'[call'[c].seq] = "ok"
              /\ stopped' # 0 => stopped' > base'[call'[c].seq]
        BY <1>0, <1>1, <1>2, <3>1 DEF Effect, WaitsOn, CallFresh, Waits
      <3>4. call'[c].cmd \in Resumes /\ call'[c].pc = "idle"
            /\ call'[c].result.kind = "stop" =>
              /\ call'[c].seq \in Seqs /\ chan'[call'[c].seq] = "ok"
              /\ call'[c].result.stop > base'[call'[c].seq]
        BY <1>0, <1>1, <1>2 DEF Effect, Returns, CallFresh, Waits
      <3> QED
        BY <2>2, <3>2, <3>3, <3>4 DEF CallFresh, Waits
    <2> QED
      BY <2>1, <2>2
  <1> QED
    BY <1>3, <1>4, CallRequests DEF FreshInv

\* The reader hands a success to its caller before the stops behind it.
LEMMA ReaderFresh ==
  ASSUME FreshInv, TypeOK', ReaderStep
  PROVE  FreshInv'
  <1>0. TypeOK /\ RequestsOK /\ StreamOK /\ \A d \in Calls : CallFresh(d)
    BY DEF FreshInv
  <1>1. CASE HandleResponse
    <2>1. /\ wire \in Seq(Messages) /\ wire # <<>> /\ wire' = Tail(wire)
          /\ UNCHANGED <<call, nextSeq, stopped, inbox, held, owed, stops, base>>
          /\ Head(wire).kind \in Answers
      BY <1>0, <1>1 DEF HandleResponse, TypeOK, Answers
    <2>2. /\ 1 \in DOMAIN wire /\ Head(wire) = wire[1]
          /\ \A i \in DOMAIN wire' :
               i \in Nat \ {0} /\ i + 1 \in DOMAIN wire /\ wire'[i] = wire[i + 1]
      BY <2>1, TailFacts
    <2>3. \A s \in Seqs : \/ chan'[s] = chan[s]
                          \/ s = wire[1].n /\ chan'[s] = wire[1].kind
                             /\ chan[s] = "open"
      BY <1>0, <1>1, <2>2 DEF HandleResponse, TypeOK, Pending
    <2>4. \A s \in Seqs : Unacted(s)' <=> Unacted(s)
      BY <2>1 DEF Unacted
    <2>5. RequestsOK'
      <3>1. \A s \in Seqs : Unacted(s) =>
              /\ chan'[s] \notin Answers
              /\ \A i \in DOMAIN wire' : wire'[i].kind \in Answers => wire'[i].n # s
        BY <1>0, <2>1, <2>2, <2>3 DEF RequestsOK
      <3> QED
        BY <1>0, <2>1, <2>4, <3>1 DEF RequestsOK
    <2>6. StreamOK'
      <3>1. \A s \in Seqs : chan'[s] = "ok" =>
              \A j \in DOMAIN wire' :
                wire'[j].kind = "stopped" => wire'[j].n > base'[s]
        <4> SUFFICES ASSUME NEW s \in Seqs, chan'[s] = "ok",
                            NEW j \in DOMAIN wire', wire'[j].kind = "stopped"
                     PROVE  wire'[j].n > base'[s]
          OBVIOUS
        <4>1. j + 1 \in DOMAIN wire /\ wire'[j] = wire[j + 1] /\ 1 < j + 1
          BY <2>2
        <4>2. CASE chan[s] = "ok"
          BY <1>0, <2>1, <4>1, <4>2 DEF StreamOK
        <4>3. CASE chan[s] # "ok"
          <5>1. s = wire[1].n /\ wire[1].kind = "ok"
            BY <2>3, <4>3
          <5> QED
            BY <1>0, <2>1, <2>2, <4>1, <5>1 DEF StreamOK
        <4> QED
          BY <4>2, <4>3
      <3>2. \A i, j \in DOMAIN wire' :
              i < j /\ wire'[i].kind = "ok" /\ wire'[j].kind = "stopped"
                => wire'[j].n > base'[wire'[i].n]
        BY <1>0, <2>1, <2>2 DEF StreamOK
      <3> QED
        BY <1>0, <2>1, <3>1, <3>2 DEF StreamOK
    <2>7. \A s \in Seqs : chan[s] = "ok" => chan'[s] = "ok"
      BY <2>3
    <2>8. \A d \in Calls : CallFresh(d)'
      BY <1>0, <2>1, <2>7, RequestInSeqs DEF CallFresh
    <2> QED
      BY <2>5, <2>6, <2>8 DEF FreshInv
  <1>2. CASE HandleEvent
    <2>1. /\ wire \in Seq(Messages) /\ wire # <<>> /\ wire' = Tail(wire)
          /\ UNCHANGED <<call, chan, nextSeq, inbox, held, owed, stops, base>>
      BY <1>0, <1>2 DEF HandleEvent, TypeOK
    <2>2. /\ 1 \in DOMAIN wire /\ Head(wire) = wire[1]
          /\ \A i \in DOMAIN wire' :
               i \in Nat \ {0} /\ i + 1 \in DOMAIN wire /\ wire'[i] = wire[i + 1]
      BY <2>1, TailFacts
    <2>3. \/ stopped' \in {stopped, 0}
          \/ wire[1].kind = "stopped" /\ stopped' = wire[1].n
      BY <1>2, <2>2 DEF HandleEvent
    <2>4. \A s \in Seqs : Unacted(s)' <=> Unacted(s)
      BY <2>1 DEF Unacted
    <2>5. RequestsOK'
      BY <1>0, <2>1, <2>2, <2>4 DEF RequestsOK
    <2>6. StreamOK'
      BY <1>0, <2>1, <2>2 DEF StreamOK
    <2>7. \A s \in Seqs : chan[s] = "ok" /\ wire[1].kind = "stopped"
                          => wire[1].n > base[s]
      BY <1>0, <2>2 DEF StreamOK
    <2>8. \A d \in Calls : CallFresh(d)'
      BY <1>0, <2>1, <2>3, <2>7 DEF CallFresh
    <2> QED
      BY <2>5, <2>6, <2>8 DEF FreshInv
  <1>3. CASE Notify \/ LastNotify
    <2>1. /\ UNCHANGED <<chan, nextSeq, stopped, inbox, wire, held, owed, stops,
                         base>>
          /\ Awaken
      BY <1>3 DEF Notify, LastNotify, clientVars, adapterVars
    <2>2. ASSUME NEW d \in Calls
          PROVE  \/ call'[d] = call[d]
                 \/ /\ call[d].pc = "sleep" /\ call'[d].pc = "check"
                    /\ call'[d].cmd = call[d].cmd /\ call'[d].seq = call[d].seq
      <3>1. call[d] \in CallStates
        BY <1>0 DEF TypeOK
      <3> QED
        BY <2>1, <3>1 DEF Awaken, CallStates
    <2>3. \A s \in Seqs : Unacted(s)' <=> Unacted(s)
      BY <2>1, <2>2 DEF Unacted
    <2>4. \A d \in Calls : call'[d].pc = "write" => call'[d] = call[d]
      BY <2>2
    <2>5. RequestsOK'
      BY <1>0, <2>1, <2>3, <2>4 DEF RequestsOK
    <2>6. StreamOK'
      BY <1>0, <2>1 DEF StreamOK
    <2>7. \A d \in Calls : CallFresh(d)'
      BY <1>0, <2>1, <2>2 DEF CallFresh
    <2> QED
      BY <2>5, <2>6, <2>7 DEF FreshInv
  <1>4. CASE ReaderEnds
    <2>1. UNCHANGED <<call, chan, nextSeq, stopped, inbox, wire, held, owed,
                      stops, base>>
      BY <1>4 DEF ReaderEnds, adapterVars
    <2> QED
      BY <1>0, <2>1 DEF FreshInv, RequestsOK, StreamOK, CallFresh, Unacted
  <1>5. CASE DrainPending
    <2>1. UNCHANGED <<call, nextSeq, stopped, inbox, wire, held, owed, stops, base>>
      BY <1>5 DEF DrainPending, adapterVars
    <2>2. \A s \in Seqs : \/ chan'[s] = chan[s]
                          \/ chan[s] = "open" /\ chan'[s] = "dropped"
      BY <1>0, <1>5 DEF DrainPending, Pending, TypeOK
    <2>3. \A s \in Seqs : Unacted(s)' <=> Unacted(s)
      BY <2>1 DEF Unacted
    <2>4. RequestsOK'
      BY <1>0, <2>1, <2>2, <2>3 DEF RequestsOK, Answers
    <2>5. StreamOK'
      BY <1>0, <2>1, <2>2 DEF StreamOK
    <2>6. \A d \in Calls : CallFresh(d)'
      BY <1>0, <2>1, <2>2, RequestInSeqs DEF CallFresh
    <2> QED
      BY <2>4, <2>5, <2>6 DEF FreshInv
  <1> QED
    BY <1>1, <1>2, <1>3, <1>4, <1>5 DEF ReaderStep

\* The adapter answers what it has acted on, and a stop follows every answer
\* that is in the stream already.
LEMMA AdapterFresh ==
  ASSUME FreshInv, TypeOK', AdapterStep
  PROVE  FreshInv'
  <1>0. TypeOK /\ RequestsOK /\ StreamOK /\ \A d \in Calls : CallFresh(d)
    BY DEF FreshInv
  <1>a. UNCHANGED <<call, chan, nextSeq, stopped>>
    BY DEF AdapterStep, Act, Respond, Stop, Exit, AdapterExits, Garble,
           clientVars
  <1>b. stops \in Nat /\ \A s \in Seqs : base[s] \in Nat
    BY <1>0, DapAssumption DEF TypeOK
  <1>1. CASE Act
    <2> DEFINE r == Head(inbox)
               Requests == [cmd : Commands, seq : Seqs]
    <2>1. /\ inbox \in Seq(Requests) /\ inbox # <<>> /\ inbox' = Tail(inbox)
          /\ UNCHANGED stops
      BY <1>0, <1>1 DEF Act, TypeOK
    <2> HIDE DEF Requests
    <2>2. /\ 1 \in DOMAIN inbox /\ r = inbox[1] /\ r \in Requests
          /\ \A i \in DOMAIN inbox' :
               i \in Nat \ {0} /\ i + 1 \in DOMAIN inbox /\ inbox'[i] = inbox[i + 1]
      BY <2>1, TailFacts
    <2>3. r.seq \in Seqs /\ Unacted(r.seq)
      BY <2>2 DEF Requests, Unacted
    <2>4. \A s \in Seqs : s # r.seq => base'[s] = base[s]
      BY <1>0, <1>1 DEF Act, TypeOK
    <2>5. base'[r.seq] <= stops
      <3>1. base'[r.seq] \in {stops - 1, stops}
        BY <1>0, <1>1, <2>3 DEF Act, TypeOK
      <3> QED
        BY <1>b, <3>1
    <2>6. \A s \in held' : s \in held \/ s = r.seq
      BY <1>1 DEF Act
    <2>7. \A m \in owed' : \/ m \in owed
                           \/ m.kind \in Answers /\ m.n \in held \cup {r.seq}
      <3>1. \/ owed' = owed
            \/ \E kind \in Answers, seqs \in {{r.seq}, held \cup {r.seq}} :
                 owed' = owed \cup {Message(kind, s) : s \in seqs}
        BY <1>1 DEF Act, Owe, Answers
      <3>2. ASSUME NEW kind \in Answers, NEW seqs \in {{r.seq}, held \cup {r.seq}},
                   NEW m \in {Message(kind, s) : s \in seqs}
            PROVE  m.kind \in Answers /\ m.n \in held \cup {r.seq}
        <4>1. PICK s \in seqs : m = Message(kind, s)
          BY <3>2
        <4>2. m.kind = kind /\ m.n = s
          BY <4>1 DEF Message
        <4>3. s \in held \cup {r.seq}
          BY <4>1
        <4> QED
          BY <4>2, <4>3
      <3>3. CASE owed' = owed
        BY <3>3
      <3>4. CASE owed' # owed
        <4>1. PICK kind \in Answers, seqs \in {{r.seq}, held \cup {r.seq}} :
                owed' = owed \cup {Message(kind, s) : s \in seqs}
          BY <3>1, <3>4
        <4>2. \A m \in owed' :
                m \in owed \/ m \in {Message(kind, s) : s \in seqs}
          BY <4>1
        <4> QED
          BY <3>2, <4>2
      <3> QED
        BY <3>3, <3>4
    <2>8. \/ wire' = wire
          \/ \E kind \in {"initialized", "continued"} :
               wire' = Append(wire, Message(kind, 0))
      BY <1>1 DEF Act, Sent
    <2>9. \A i \in DOMAIN wire' :
            wire'[i].kind \in {"ok", "failed", "stopped"} =>
              i \in DOMAIN wire /\ wire'[i] = wire[i]
      <3>1. CASE wire' = wire
        BY <3>1
      <3>2. ASSUME NEW kind \in {"initialized", "continued"},
                   wire' = Append(wire, Message(kind, 0))
            PROVE  \A i \in DOMAIN wire' :
                     wire'[i].kind \in {"ok", "failed", "stopped"} =>
                       i \in DOMAIN wire /\ wire'[i] = wire[i]
        <4>1. wire \in Seq(Messages) /\ Message(kind, 0) \in Messages
              /\ Message(kind, 0).kind = kind
          BY <1>0 DEF TypeOK, Message, Messages
        <4>2. /\ DOMAIN wire = 1..Len(wire) /\ Len(wire) \in Nat
              /\ DOMAIN wire' = 1..Len(wire) + 1
              /\ \A i \in DOMAIN wire : wire'[i] = wire[i]
              /\ wire'[Len(wire) + 1] = Message(kind, 0)
          BY <3>2, <4>1, AppendFacts
        <4> QED
          BY <4>1, <4>2
      <3> QED
        BY <2>8, <3>1, <3>2
    <2>10. \A s \in Seqs : Unacted(s)' => Unacted(s) /\ s # r.seq
      <3>1. r.seq < nextSeq /\ r.seq \in Nat /\ nextSeq \in Nat
        <4>1. nextSeq \in Nat /\ r.seq \in Nat
          BY <1>0, <2>3, DapAssumption DEF Seqs, TypeOK
        <4>2. r.seq < nextSeq
          BY <1>0, <2>2 DEF RequestsOK
        <4> QED
          BY <4>1, <4>2
      <3>2. \A i \in DOMAIN inbox' : inbox'[i].seq # r.seq
        BY <1>0, <2>2 DEF RequestsOK
      <3>3. \A d \in Calls : call[d].pc = "write" => call[d].seq # r.seq
        BY <1>0, <2>2 DEF RequestsOK
      <3> QED
        BY <1>a, <2>2, <3>1, <3>2, <3>3 DEF Unacted
    <2> HIDE DEF r
    <2>11. RequestsOK'
      <3>1. \A i \in DOMAIN inbox' : inbox'[i].seq < nextSeq'
        BY <1>0, <1>a, <2>2 DEF RequestsOK
      <3>2. \A i, j \in DOMAIN inbox' : inbox'[i].seq = inbox'[j].seq => i = j
        <4> SUFFICES ASSUME NEW i \in DOMAIN inbox', NEW j \in DOMAIN inbox',
                            inbox'[i].seq = inbox'[j].seq
                     PROVE  i = j
          OBVIOUS
        <4>1. i + 1 = j + 1 /\ i \in Nat /\ j \in Nat
          BY <1>0, <2>2 DEF RequestsOK
        <4> QED
          BY <4>1
      <3>3. \A c \in Calls : call'[c].pc = "write" =>
              /\ \A i \in DOMAIN inbox' : inbox'[i].seq # call'[c].seq
              /\ \A d \in Calls : call'[d].pc = "write"
                                  /\ call'[d].seq = call'[c].seq => d = c
        BY <1>0, <1>a, <2>2 DEF RequestsOK
      <3>4. \A m \in owed' : m.kind \in Answers
        BY <1>0, <2>7 DEF RequestsOK
      <3>5. \A s \in Seqs : Unacted(s)' =>
              /\ s \notin held'
              /\ chan'[s] \notin Answers
              /\ \A m \in owed' : m.n # s
              /\ \A i \in DOMAIN wire' : wire'[i].kind \in Answers
                                         => wire'[i].n # s
        BY <1>0, <1>a, <2>6, <2>7, <2>9, <2>10 DEF RequestsOK, Answers
      <3> QED
        BY <3>1, <3>2, <3>3, <3>4, <3>5 DEF RequestsOK
    <2>12. \A s \in Seqs : chan[s] = "ok" => base'[s] = base[s]
      BY <1>0, <2>3, <2>4 DEF RequestsOK, Answers
    <2>13. \A i \in DOMAIN wire : wire[i].kind = "ok" =>
             wire[i].n \in Seqs /\ base'[wire[i].n] = base[wire[i].n]
      <3>1. wire \in Seq(Messages)
        BY <1>0 DEF TypeOK
      <3>2. \A i \in DOMAIN wire : wire[i] \in Messages
        BY <3>1
      <3>3. \A i \in DOMAIN wire : wire[i].kind = "ok" => wire[i].n \in Seqs
        BY <3>2 DEF Messages
      <3> QED
        BY <1>0, <2>3, <2>4, <3>3 DEF RequestsOK, Answers
    <2>14. StreamOK'
      BY <1>0, <1>a, <2>1, <2>4, <2>5, <2>9, <2>12, <2>13 DEF StreamOK
    <2>15. \A d \in Calls : CallFresh(d)'
      BY <1>0, <1>a, <2>12, RequestInSeqs DEF CallFresh
    <2> QED
      BY <2>11, <2>14, <2>15 DEF FreshInv
  <1>2. ASSUME UNCHANGED <<inbox, held, base>>, owed' \subseteq owed,
               stops' \in {stops, stops + 1},
               NEW m \in Messages, wire' = Append(wire, m),
               m.kind \in Answers => m \in owed,
               m.kind = "stopped" => m.n = stops + 1
        PROVE  FreshInv'
    <2>1. wire \in Seq(Messages)
      BY <1>0 DEF TypeOK
    <2>2. /\ DOMAIN wire = 1..Len(wire) /\ Len(wire) \in Nat
          /\ DOMAIN wire' = 1..Len(wire) + 1
          /\ \A i \in DOMAIN wire : wire'[i] = wire[i]
          /\ wire'[Len(wire) + 1] = m
      BY <1>2, <2>1, AppendFacts
    <2>3. \A s \in Seqs : Unacted(s)' <=> Unacted(s)
      BY <1>2, <1>a DEF Unacted
    <2>4. \A i \in DOMAIN wire' : \/ i \in DOMAIN wire /\ wire'[i] = wire[i]
                                  \/ i = Len(wire) + 1 /\ wire'[i] = m
      BY <2>2
    <2>5. \A s \in Seqs : Unacted(s) =>
            \A i \in DOMAIN wire' : wire'[i].kind \in Answers => wire'[i].n # s
      BY <1>0, <1>2, <2>4 DEF RequestsOK
    <2>6. RequestsOK'
      BY <1>0, <1>2, <1>a, <2>3, <2>5 DEF RequestsOK
    <2>7. \A s \in Seqs : base'[s] <= stops' /\ stops + 1 > base'[s]
      BY <1>0, <1>2, <1>b DEF StreamOK
    <2>8. \A i \in DOMAIN wire : wire[i].kind = "ok" => wire[i].n \in Seqs
      <3>1. \A i \in DOMAIN wire : wire[i] \in Messages
        BY <2>1
      <3> QED
        BY <3>1 DEF Messages
    <2>9. \A s \in Seqs : chan'[s] = "ok" =>
            \A j \in DOMAIN wire' : wire'[j].kind = "stopped"
                                    => wire'[j].n > base'[s]
      BY <1>0, <1>2, <1>a, <2>4, <2>7 DEF StreamOK
    <2>10. \A i, j \in DOMAIN wire' :
             i < j /\ wire'[i].kind = "ok" /\ wire'[j].kind = "stopped"
               => wire'[j].n > base'[wire'[i].n]
      <3> SUFFICES ASSUME NEW i \in DOMAIN wire', NEW j \in DOMAIN wire', i < j,
                          wire'[i].kind = "ok", wire'[j].kind = "stopped"
                   PROVE  wire'[j].n > base'[wire'[i].n]
        OBVIOUS
      <3>1. i \in DOMAIN wire /\ wire'[i] = wire[i] /\ wire[i].n \in Seqs
        BY <2>2, <2>4, <2>8
      <3>2. CASE j \in DOMAIN wire /\ wire'[j] = wire[j]
        BY <1>0, <1>2, <3>1, <3>2 DEF StreamOK
      <3>3. CASE wire'[j] = m
        BY <1>2, <2>7, <3>1, <3>3
      <3> QED
        BY <2>4, <3>2, <3>3
    <2>11. StreamOK'
      BY <2>7, <2>9, <2>10 DEF StreamOK
    <2>12. \A d \in Calls : CallFresh(d)'
      BY <1>0, <1>2, <1>a DEF CallFresh
    <2> QED
      BY <2>6, <2>11, <2>12 DEF FreshInv
  <1>3. CASE Respond
    <2>1. PICK m \in owed : wire' = Append(wire, m) /\ owed' = owed \ {m}
      BY <1>3 DEF Respond
    <2>2. m \in Messages /\ m.kind # "stopped"
      BY <1>0 DEF TypeOK, RequestsOK, Answers
    <2> QED
      BY <1>2, <1>3, <2>1, <2>2 DEF Respond
  <1>4. CASE Stop
    <2>1. /\ Message("stopped", stops + 1) \in Messages
          /\ Message("stopped", stops + 1).kind = "stopped"
          /\ Message("stopped", stops + 1).n = stops + 1
      BY <1>4, <1>b, DapAssumption DEF Stop, Message, Messages
    <2> QED
      BY <1>2, <1>4, <2>1 DEF Stop, Answers
  <1>5. CASE Exit
    <2>1. /\ Message("terminated", 0) \in Messages
          /\ Message("terminated", 0).kind = "terminated"
      BY DEF Message, Messages
    <2> QED
      BY <1>2, <1>5, <2>1 DEF Exit, Answers
  <1>6. CASE AdapterExits \/ Garble
    <2>1. UNCHANGED <<inbox, wire, held, owed, stops, base>>
      BY <1>6 DEF AdapterExits, Garble
    <2> QED
      BY <1>0, <1>a, <2>1 DEF FreshInv, RequestsOK, StreamOK, CallFresh, Unacted
  <1> QED
    BY <1>1, <1>3, <1>4, <1>5, <1>6 DEF AdapterStep

LEMMA FreshNext == FreshInv /\ [Next]_vars => FreshInv'
  <1> SUFFICES ASSUME FreshInv, [Next]_vars PROVE FreshInv'
    OBVIOUS
  <1>0. TypeOK'
    BY TypeNext DEF FreshInv
  <1>1. CASE UNCHANGED vars
    BY <1>0, <1>1
      DEF vars, clientVars, adapterVars, FreshInv, RequestsOK, StreamOK,
          CallFresh, Unacted
  <1> QED
    BY <1>0, <1>1, CallFreshStep, ReaderFresh, AdapterFresh DEF Next

\* A continue or step that returns a stop returns one the debuggee reached after
\* the adapter had acted on it, whatever other calls run on the session and in
\* whatever order the adapter answers.
THEOREM StopsAreFresh == Spec => []FreshStop
  <1>1. FreshInv => FreshStop
    BY DEF FreshInv, CallFresh, FreshStop
  <1> QED
    BY <1>1, FreshInit, FreshNext, PTL DEF Spec

-----------------------------------------------------------------------------
(* False stops.  Once a stop on record is over, the request that ended it    *)
(* has succeeded, its success has not reached its caller yet, and the caller *)
(* will reset the record: it waits for the success, or is about to reset.    *)

\* What NoFalseStop is about: no resuming request has been given up, and the
\* adapter can still be read.
Live == ~lost /\ ~exited /\ ~garbled

\* Call c may still ask the adapter to start the debuggee.
MayConfigure(c) ==
  \/ /\ call[c].pc \in {"submit", "write"}
     /\ call[c].cmd \in {"initialize", "launch", "configurationDone"}
  \/ call[c].pc = "await" /\ call[c].cmd = "initialize"
  \/ call[c].pc \in Waits \cup {"clear"} /\ call[c].goal = "initialized"

Configures(i) == inbox[i].cmd = "configurationDone"

Unstarted ==
  /\ debuggee \notin {"running", "stopped"} /\ stops = 0 /\ stopped = 0
  /\ \A i \in DOMAIN wire : wire[i].kind # "stopped"

\* The debuggee is started once: one call may ask for it, or one request is on
\* its way, and it has not run before.
StartsOnce ==
  /\ session = "none" => /\ Unstarted
                         /\ \A c \in Calls : ~MayConfigure(c)
                         /\ \A i \in DOMAIN inbox : ~Configures(i)
  /\ \A c \in Calls : MayConfigure(c) => Unstarted
  /\ \A i \in DOMAIN inbox : Configures(i) => Unstarted
  /\ \A c, d \in Calls : MayConfigure(c) /\ MayConfigure(d) => c = d
  /\ \A c \in Calls, i \in DOMAIN inbox : MayConfigure(c) => ~Configures(i)
  /\ \A i, j \in DOMAIN inbox : Configures(i) /\ Configures(j) => i = j

\* The caller of a resuming request that is in the adapter's stdin awaits it.
ResumesAwaited ==
  /\ \A s \in Seqs : s < nextSeq => chan[s] \in {"open", "ok", "failed"}
  /\ \A i \in DOMAIN inbox : inbox[i].cmd \in Resumes =>
       \E c \in Calls : /\ call[c].pc = "await" /\ call[c].cmd \in Resumes
                        /\ call[c].seq = inbox[i].seq

\* The success of request s is on its way or has been read, and no failure is.
Succeeds(s) ==
  /\ chan[s] \in {"open", "ok"}
  /\ \/ chan[s] = "ok"
     \/ \E m \in owed : m.kind = "ok" /\ m.n = s
     \/ \E i \in DOMAIN wire : wire[i].kind = "ok" /\ wire[i].n = s
  /\ \A m \in owed : m.n = s => m.kind = "ok"
  /\ \A i \in DOMAIN wire : wire[i].kind \in Answers /\ wire[i].n = s => wire[i].kind = "ok"

\* Call c will reset a record of stop n.
WillClear(c, n) ==
  /\ call[c].cmd \in Resumes /\ call[c].pc \in {"await", "clear"}
  /\ Succeeds(call[c].seq)
  /\ base[call[c].seq] >= n

\* Stop n is the current one, or a call will reset its record.
Accounted(n) == \/ debuggee = "stopped" /\ n = stops
                \/ \E c \in Calls : WillClear(c, n)

\* What decides over the record once the reader has seen all of the stream: the
\* last message that changes it, or the record as it is.
Changes(m) == m.kind \in {"stopped", "continued", "terminated"}
Decides(i) == Changes(wire[i]) /\ \A j \in DOMAIN wire : j > i => ~Changes(wire[j])

RecordOK ==
  /\ (\A j \in DOMAIN wire : ~Changes(wire[j])) /\ stopped # 0 => Accounted(stopped)
  /\ \A i \in DOMAIN wire : Decides(i) /\ wire[i].kind = "stopped" => Accounted(wire[i].n)

TruthInv ==
  /\ FreshInv /\ EndsForAReason /\ StartsOnce
  /\ Live => ResumesAwaited /\ RecordOK

\* At the start nothing is on its way.
LEMMA TruthInit == Init => TruthInv
  <1> SUFFICES ASSUME Init PROVE TruthInv
    OBVIOUS
  <1>1. /\ inbox = <<>> /\ wire = <<>> /\ call = [c \in Calls |-> Fresh] /\ nextSeq = 1
        /\ debuggee = "absent" /\ stops = 0 /\ stopped = 0 /\ reader = "read"
    BY DEF Init
  <1>2. \A c \in Calls : ~MayConfigure(c)
    BY <1>1 DEF MayConfigure, Fresh, Waits
  <1>3. StartsOnce
    BY <1>1, <1>2 DEF StartsOnce, Unstarted, Configures
  <1>4. ResumesAwaited
    <2>1. \A s \in Seqs : ~(s < nextSeq)
      BY <1>1, DapAssumption DEF Seqs
    <2> QED
      BY <1>1, <2>1 DEF ResumesAwaited
  <1>5. RecordOK
    BY <1>1 DEF RecordOK
  <1> QED
    BY <1>1, <1>3, <1>4, <1>5, FreshInit DEF TruthInv, EndsForAReason

\* Who is lost, dead or unreadable stays so.
LEMMA LiveBefore ==
  ASSUME TypeOK, [Next]_vars, Live'
  PROVE  Live
  <1>1. /\ lost \in BOOLEAN /\ exited \in BOOLEAN /\ garbled \in BOOLEAN
        /\ ~lost' /\ ~exited' /\ ~garbled'
    BY DEF TypeOK, Live
  <1>2. ASSUME NEW c \in Calls, CallStep(c)
        PROVE  (lost => lost') /\ (exited => exited') /\ (garbled => garbled')
    BY <1>1, <1>2
      DEF CallStep, Launch, Terminate, Begin, Submit, Write, WriteError,
          Receive, RequestTimeout, Clear, Kill, Check, CheckClosed, Arm,
          WaitTimeout, adapterVars
  <1>3. ReaderStep => UNCHANGED <<lost, exited, garbled>>
    BY DEF ReaderStep, HandleResponse, HandleEvent, Notify, ReaderEnds,
           DrainPending, LastNotify, adapterVars
  <1>4. AdapterStep => (lost => lost') /\ (exited => exited') /\ (garbled => garbled')
    BY DEF AdapterStep, Act, Respond, Stop, Exit, AdapterExits, Garble
  <1>5. UNCHANGED vars => UNCHANGED <<lost, exited, garbled>>
    BY DEF vars, adapterVars
  <1> QED
    BY <1>1, <1>2, <1>3, <1>4, <1>5 DEF Live, Next

\* While the session is live the reader has not stopped.
LEMMA ReaderLives ==
  ASSUME EndsForAReason, Live
  PROVE  reader \in {"read", "notify"}
  BY DEF EndsForAReason, Live

-----------------------------------------------------------------------------
(* Steps of a tool call. *)

\* A call that awaits a resuming request leaves it for its reset alone.
LEMMA ResumeEffect ==
  ASSUME TypeOK, NEW c \in Calls, CallStep(c), call[c].pc \in {"await", "clear"},
         call[c].cmd \in Resumes, chan[call[c].seq] \in {"open", "ok"}, ~lost'
  PROVE  \/ Clear(c)
         \/ /\ chan[call[c].seq] = "ok" /\ Receive(c)
            /\ call'[c].pc = "clear"
            /\ call'[c].cmd = call[c].cmd /\ call'[c].seq = call[c].seq
  <1>0. /\ call \in [Calls -> CallStates] /\ call[c] \in CallStates
        /\ \A cmd \in Resumes : cmd \notin {"initialize", "launch", "disconnect",
                                            "configurationDone", "pause", "inspect"}
    BY DEF TypeOK, Resumes
  <1>1. Clear(c) \/ Receive(c)
    BY <1>0 DEF CallStep, Launch, Terminate, Begin, Submit, Write, WriteError,
           RequestTimeout, Kill, Check, CheckClosed, Arm, WaitTimeout
  <1>2. CASE Receive(c)
    <2>1. chan[call[c].seq] = "ok" /\ Proceed(c)
      BY <1>2 DEF Receive
    <2>2. call' = [call EXCEPT ![c].pc = "clear", ![c].cmd = call[c].cmd, ![c].goal = "stopped"]
      BY <1>0, <2>1 DEF Proceed
    <2> QED
      BY <1>0, <1>2, <2>1, <2>2 DEF CallStates
  <1> QED
    BY <1>1, <1>2

\* Only dap_launch begins to configure, and its last request ends it.
LEMMA ConfigureEffect ==
  ASSUME TypeOK, NEW c \in Calls, CallStep(c), MayConfigure(c)'
  PROVE  Launch(c) \/ /\ MayConfigure(c)
                      /\ ~(Write(c) /\ call[c].cmd = "configurationDone")
  <1>0. call \in [Calls -> CallStates] /\ call[c] \in CallStates
    BY DEF TypeOK
  <1>a. \A cmd \in Resumes \cup {"pause", "inspect", "disconnect"} :
           cmd \notin {"initialize", "launch", "configurationDone"}
    BY DEF Resumes
  <1>1. ASSUME NEW cmd \in Resumes \cup {"pause", "inspect", "disconnect"},
               call' = [call EXCEPT ![c] = [Fresh EXCEPT !.pc = "submit", !.cmd = cmd]]
        PROVE  FALSE
    <2>1. call'[c].pc = "submit" /\ call'[c].cmd = cmd
      BY <1>0, <1>1 DEF Fresh
    <2> QED
      BY <1>a, <2>1 DEF MayConfigure, Waits
  <1>2. CASE Terminate(c) \/ \E cmd \in Commands : Begin(c, cmd)
    BY <1>1, <1>2 DEF Terminate, Begin
  <1>3. CASE Submit(c)
    <2>1. call[c].pc = "submit" /\ call'[c].pc = "write" /\ call'[c].cmd = call[c].cmd
      BY <1>0, <1>3 DEF Submit, CallStates
    <2> QED
      BY <1>3, <2>1 DEF MayConfigure, Waits, Write
  <1>4. CASE Write(c)
    <2>1. call[c].pc = "write"
      BY <1>4 DEF Write
    <2>2. CASE call[c].cmd = "launch"
      BY <2>1, <2>2 DEF MayConfigure
    <2>3. CASE call[c].cmd # "launch"
      <3>1. call'[c].pc = "await" /\ call'[c].cmd = call[c].cmd
        BY <1>0, <1>4, <2>3 DEF Write, CallStates
      <3> QED
        BY <2>1, <3>1 DEF MayConfigure, Waits
    <2> QED
      BY <2>2, <2>3
  <1>5. ASSUME NEW kind \in {"error", "timeout"}, Fail(c, kind)
        PROVE  FALSE
    <2>1. CASE Launching(c)
      <3>1. call'[c].pc = "submit" /\ call'[c].cmd = "disconnect"
        BY <1>0, <1>5, <2>1 DEF Fail, CallStates
      <3> QED
        BY <3>1 DEF MayConfigure, Waits
    <2>2. CASE ~Launching(c)
      <3>1. call'[c].pc = "idle"
        BY <1>5, <2>2, ReturnEffect DEF Fail
      <3> QED
        BY <3>1 DEF MayConfigure, Waits
    <2> QED
      BY <2>1, <2>2
  <1>6. ASSUME NEW kind \in {"error", "timeout"}, GiveUp(c, kind)
        PROVE  FALSE
    <2>1. CASE Goto(c, "kill")
      <3>1. call'[c].pc = "kill"
        BY <2>1, GotoEffect
      <3> QED
        BY <3>1 DEF MayConfigure, Waits
    <2> QED
      BY <1>5, <1>6, <2>1 DEF GiveUp
  <1>7. CASE call[c].pc = "await" /\ Proceed(c)
    <2>0. ~Write(c)
      BY <1>7 DEF Write
    <2>1. CASE call[c].cmd = "initialize"
      BY <1>7, <2>0, <2>1 DEF MayConfigure
    <2>2. CASE call[c].cmd # "initialize"
      <3>1. CASE call' = [call EXCEPT ![c].seq = call[c].launch]
        <4>1. call'[c].pc = "await" /\ call'[c].cmd = call[c].cmd
          BY <1>0, <1>7, <3>1 DEF CallStates
        <4> QED
          BY <2>2, <4>1 DEF MayConfigure, Waits
      <3>2. CASE \E pc \in {"check", "clear"} :
                   call' = [call EXCEPT ![c].pc = pc, ![c].cmd = call[c].cmd, ![c].goal = "stopped"]
        <4>1. call'[c].pc \in {"check", "clear"} /\ call'[c].goal = "stopped"
          BY <1>0, <3>2 DEF CallStates
        <4> QED
          BY <4>1 DEF MayConfigure, Waits
      <3>3. CASE Return(c, "ok", 0)
        <4>1. call'[c].pc = "idle"
          BY <3>3, ReturnEffect
        <4> QED
          BY <4>1 DEF MayConfigure, Waits
      <3>4. CASE Goto(c, "kill")
        <4>1. call'[c].pc = "kill"
          BY <3>4, GotoEffect
        <4> QED
          BY <4>1 DEF MayConfigure, Waits
      <3> QED
        BY <1>7, <2>2, <3>1, <3>2, <3>3, <3>4 DEF Proceed
    <2> QED
      BY <2>1, <2>2
  <1>8. CASE Clear(c)
    <2>1. call'[c].pc = "check" /\ call'[c].goal = call[c].goal /\ call[c].pc = "clear"
      BY <1>0, <1>8 DEF Clear, Goto, CallStates
    <2> QED
      BY <2>1, <1>8 DEF MayConfigure, Waits, Write
  <1>9. CASE Kill(c)
    <2>1. call'[c].pc = "idle"
      BY <1>9, ReturnEffect DEF Kill
    <2> QED
      BY <2>1 DEF MayConfigure, Waits
  <1>10. ASSUME NEW pc \in Waits, Goto(c, pc), call[c].pc \in Waits
         PROVE  MayConfigure(c) /\ ~Write(c)
    <2>1. call'[c].pc \in Waits /\ call'[c].goal = call[c].goal
      BY <1>0, <1>10 DEF Goto, CallStates
    <2> QED
      BY <1>10, <2>1 DEF MayConfigure, Waits, Write
  <1>11. CASE Check(c)
    <2>1. call[c].pc = "check"
      BY <1>11 DEF Check
    <2>2. CASE call[c].goal = "initialized"
      BY <2>1, <2>2 DEF MayConfigure, Waits, Write
    <2>3. CASE call[c].goal # "initialized" /\ call' = [call EXCEPT ![c].pc = "arm", ![c].sawClosed = closed]
      <3>1. call'[c].pc = "arm" /\ call'[c].goal = call[c].goal
        BY <1>0, <2>3 DEF CallStates
      <3> QED
        BY <2>3, <3>1 DEF MayConfigure, Waits
    <2>4. CASE Return(c, "stop", stopped)
      <3>1. call'[c].pc = "idle"
        BY <2>4, ReturnEffect
      <3> QED
        BY <3>1 DEF MayConfigure, Waits
    <2> QED
      BY <1>5, <1>11, <2>2, <2>3, <2>4 DEF Check
  <1> QED
    BY <1>2, <1>3, <1>4, <1>5, <1>6, <1>7, <1>8, <1>9, <1>10, <1>11
      DEF CallStep, WriteError, Receive, RequestTimeout, CheckClosed, Arm,
          WaitTimeout, Waits

\* What a step of a call leaves of the rest.
LEMMA CallFrame ==
  ASSUME TypeOK, NEW c \in Calls, CallStep(c)
  PROVE  /\ UNCHANGED <<reader, wire, owed, stops, base, garbled>>
         /\ debuggee' \in {debuggee, "gone"} /\ stopped' \in {stopped, 0}
         /\ ~exited' => debuggee' = debuggee
         /\ ~Clear(c) => stopped' = stopped
         /\ session' = "none" => session = "none" /\ ~Launch(c)
         /\ ~Write(c) => inbox' = inbox
         /\ ~Submit(c) => UNCHANGED <<chan, nextSeq>>
  <1>1. /\ UNCHANGED <<reader, wire, owed, stops, base, garbled>>
        /\ debuggee' \in {debuggee, "gone"} /\ stopped' \in {stopped, 0}
        /\ ~Clear(c) => stopped' = stopped
    BY DEF CallStep, Launch, Terminate, Begin, Submit, Write, WriteError,
           Receive, RequestTimeout, Clear, Kill, Check, CheckClosed, Arm,
           WaitTimeout, clientVars, adapterVars
  <1>2. session' = "none" => session = "none" /\ ~Launch(c)
    BY DEF CallStep, Launch, Terminate, Begin, Submit, Write, WriteError,
           Receive, RequestTimeout, Clear, Kill, Check, CheckClosed, Arm,
           WaitTimeout
  <1>3. /\ ~Write(c) => inbox' = inbox
        /\ ~Submit(c) => UNCHANGED <<chan, nextSeq>>
    BY DEF CallStep, Launch, Terminate, Begin, Submit, Write, WriteError,
           Receive, RequestTimeout, Clear, Kill, Check, CheckClosed, Arm,
           WaitTimeout, clientVars, adapterVars
  <1>4. ~exited' => debuggee' = debuggee
    BY DEF CallStep, Launch, Terminate, Begin, Submit, Write, WriteError,
           Receive, RequestTimeout, Clear, Kill, Check, CheckClosed, Arm,
           WaitTimeout, clientVars, adapterVars
  <1> QED
    BY <1>1, <1>2, <1>3, <1>4

\* A new request goes to the end of the adapter's stdin.
LEMMA WriteAppends ==
  ASSUME TypeOK, NEW c \in Calls, Write(c)
  PROVE  /\ call[c].pc = "write" /\ ~exited /\ Others(c)
         /\ \A i \in DOMAIN inbox' :
              \/ i \in DOMAIN inbox /\ inbox'[i] = inbox[i]
              \/ /\ i = Len(inbox) + 1
                 /\ inbox'[i].cmd = call[c].cmd /\ inbox'[i].seq = call[c].seq
         /\ call[c].cmd # "launch" => /\ call'[c].pc = "await" /\ call'[c].cmd = call[c].cmd
                                      /\ call'[c].seq = call[c].seq
         /\ UNCHANGED <<chan, nextSeq, lost, exited>>
  <1> DEFINE r == [cmd |-> call[c].cmd, seq |-> call[c].seq]
             Requests == [cmd : Commands, seq : Seqs]
  <1>1. /\ call[c].pc = "write" /\ ~exited /\ inbox' = Append(inbox, r)
        /\ UNCHANGED <<chan, nextSeq, lost, exited>>
    BY DEF Write, clientVars
  <1>2. call \in [Calls -> CallStates] /\ call[c] \in CallStates
    BY DEF TypeOK
  <1>3. inbox \in Seq(Requests) /\ r \in Requests /\ r.cmd = call[c].cmd /\ r.seq = call[c].seq
    BY <1>1, <1>2, RequestInSeqs DEF TypeOK, CallStates
  <1>4. Others(c) /\ (call[c].cmd # "launch" => /\ call'[c].pc = "await" /\ call'[c].cmd = call[c].cmd
                                               /\ call'[c].seq = call[c].seq)
    BY <1>2 DEF Write, Others, CallStates
  <1> HIDE DEF r, Requests
  <1>5. /\ DOMAIN inbox = 1..Len(inbox) /\ Len(inbox) \in Nat
        /\ DOMAIN inbox' = 1..Len(inbox) + 1
        /\ \A i \in DOMAIN inbox : inbox'[i] = inbox[i]
        /\ inbox'[Len(inbox) + 1] = r
    BY <1>1, <1>3, AppendFacts
  <1>6. \A i \in DOMAIN inbox' : i \in DOMAIN inbox \/ i = Len(inbox) + 1
    BY <1>5
  <1> QED
    BY <1>1, <1>3, <1>4, <1>5, <1>6

\* A call hands its leave to configure on, or uses it up with its last request.
LEMMA CallStarts ==
  ASSUME TypeOK, StartsOnce, NEW c \in Calls, CallStep(c)
  PROVE  StartsOnce'
  <1>1. /\ UNCHANGED <<wire, stops>>
        /\ debuggee' \in {debuggee, "gone"} /\ stopped' \in {stopped, 0}
        /\ session' = "none" => session = "none" /\ ~Launch(c)
        /\ ~Write(c) => inbox' = inbox
    BY CallFrame
  <1>2. Unstarted => Unstarted'
    BY <1>1 DEF Unstarted
  <1>3. Others(c)
    BY CallEffect DEF Effect
  <1>4. \A d \in Calls : d # c => (MayConfigure(d)' <=> MayConfigure(d))
    BY <1>3 DEF Others, MayConfigure
  <1>5. MayConfigure(c)' => \/ Launch(c)
                            \/ /\ MayConfigure(c)
                               /\ ~(Write(c) /\ call[c].cmd = "configurationDone")
    BY ConfigureEffect
  <1>6. Launch(c) => session = "none" /\ inbox' = inbox
    BY DEF Launch, adapterVars
  <1>7. \A i \in DOMAIN inbox' :
          \/ i \in DOMAIN inbox /\ inbox'[i] = inbox[i]
          \/ /\ Write(c) /\ i = Len(inbox) + 1 /\ inbox'[i].cmd = call[c].cmd
    BY <1>1, WriteAppends
  <1>8. \A i \in DOMAIN inbox' : Configures(i)' =>
          \/ i \in DOMAIN inbox /\ Configures(i)
          \/ /\ Write(c) /\ i = Len(inbox) + 1 /\ call[c].cmd = "configurationDone" /\ MayConfigure(c)
    <2>1. Write(c) /\ call[c].cmd = "configurationDone" => MayConfigure(c)
      BY DEF Write, MayConfigure
    <2> QED
      BY <1>7, <2>1 DEF Configures
  <1> HIDE DEF MayConfigure, Configures, Unstarted
  <1>9. session' = "none" => /\ Unstarted'
                             /\ \A d \in Calls : ~MayConfigure(d)'
                             /\ \A i \in DOMAIN inbox' : ~Configures(i)'
    BY <1>1, <1>2, <1>4, <1>5, <1>8 DEF StartsOnce
  <1>10. \A d \in Calls : MayConfigure(d)' => Unstarted'
    BY <1>2, <1>4, <1>5, <1>6 DEF StartsOnce
  <1>11. \A i \in DOMAIN inbox' : Configures(i)' => Unstarted'
    BY <1>2, <1>8 DEF StartsOnce
  <1>12. \A d, e \in Calls : MayConfigure(d)' /\ MayConfigure(e)' => d = e
    BY <1>4, <1>5, <1>6 DEF StartsOnce
  <1>13. \A d \in Calls, i \in DOMAIN inbox' : MayConfigure(d)' => ~Configures(i)'
    BY <1>4, <1>5, <1>6, <1>8 DEF StartsOnce
  <1>14. \A i, j \in DOMAIN inbox' : Configures(i)' /\ Configures(j)' => i = j
    BY <1>8 DEF StartsOnce
  <1> QED
    BY <1>9, <1>10, <1>11, <1>12, <1>13, <1>14 DEF StartsOnce

\* The channels of the requests made so far.
LEMMA CallChannels ==
  ASSUME TypeOK, NEW c \in Calls, CallStep(c)
  PROVE  /\ \A s \in Seqs : s < nextSeq => chan'[s] = chan[s] /\ s < nextSeq'
         /\ \A s \in Seqs : s < nextSeq' => s < nextSeq \/ chan'[s] = "open"
  <1>0. nextSeq \in Nat /\ \A s \in Seqs : s \in Nat
    BY DapAssumption DEF TypeOK, Seqs
  <1>1. CASE Submit(c)
    <2>1. nextSeq' = nextSeq + 1 /\ chan' = [chan EXCEPT ![nextSeq] = "open"] /\ nextSeq \in Seqs
      BY <1>0, <1>1, DapAssumption DEF Submit, TypeOK, Seqs
    <2>2. \A s \in Seqs : s # nextSeq => chan'[s] = chan[s]
      BY <2>1 DEF TypeOK
    <2>3. chan'[nextSeq] = "open"
      BY <2>1 DEF TypeOK
    <2> QED
      BY <1>0, <2>1, <2>2, <2>3
  <1>2. CASE ~Submit(c)
    <2>1. UNCHANGED <<chan, nextSeq>>
      BY <1>2, CallFrame
    <2> QED
      BY <2>1
  <1> QED
    BY <1>1, <1>2

\* A request in the adapter's stdin has been registered and not been answered.
LEMMA OpenIfUnacted ==
  ASSUME TypeOK, RequestsOK, ResumesAwaited, NEW s \in Seqs, Unacted(s), s < nextSeq
  PROVE  chan[s] = "open"
  <1>1. chan[s] \in {"open", "ok", "failed"}
    BY DEF ResumesAwaited
  <1>2. chan[s] \notin Answers
    BY DEF RequestsOK
  <1> QED
    BY <1>1, <1>2 DEF Answers

\* A call that awaits a resuming request does so until the answer is there.
LEMMA CallAwaits ==
  ASSUME TypeOK, RequestsOK, ResumesAwaited, NEW c \in Calls, CallStep(c), ~lost'
  PROVE  ResumesAwaited'
  <1>0. nextSeq \in Nat /\ nextSeq' \in Nat /\ \A s \in Seqs : s \in Nat
    <2>1. nextSeq' \in {nextSeq, nextSeq + 1}
      BY CallFrame DEF Submit
    <2> QED
      BY <2>1, DapAssumption DEF TypeOK, Seqs
  <1>1. \A s \in Seqs : s < nextSeq' => chan'[s] \in {"open", "ok", "failed"}
    BY CallChannels DEF ResumesAwaited
  <1>2. ASSUME NEW s \in Seqs, Unacted(s), s < nextSeq,
               NEW d \in Calls, call[d].pc = "await", call[d].cmd \in Resumes, call[d].seq = s
        PROVE  call'[d] = call[d]
    <2>1. chan[s] = "open"
      BY <1>2, OpenIfUnacted
    <2>2. CASE d = c
      <3>1. Clear(c) \/ chan[call[c].seq] = "ok"
        BY <1>2, <2>1, <2>2, ResumeEffect
      <3> QED
        BY <1>2, <2>1, <2>2, <3>1 DEF Clear
    <2>3. CASE d # c
      BY <2>3, CallEffect DEF Effect, Others
    <2> QED
      BY <2>2, <2>3
  <1>3. ASSUME NEW i \in DOMAIN inbox, inbox[i].cmd \in Resumes
        PROVE  \E d \in Calls : /\ call'[d].pc = "await" /\ call'[d].cmd \in Resumes
                                /\ call'[d].seq = inbox[i].seq
    <2>1. PICK d \in Calls : /\ call[d].pc = "await" /\ call[d].cmd \in Resumes
                             /\ call[d].seq = inbox[i].seq
      BY <1>3 DEF ResumesAwaited
    <2>2. inbox[i].seq \in Seqs /\ Unacted(inbox[i].seq) /\ inbox[i].seq < nextSeq
      BY <1>3, InboxSeqs DEF Unacted, RequestsOK
    <2>3. call'[d] = call[d]
      BY <1>2, <2>1, <2>2
    <2> QED
      BY <2>1, <2>3
  <1>4. CASE Write(c)
    <2>1. ASSUME NEW i \in DOMAIN inbox', inbox'[i].cmd \in Resumes
          PROVE  \E d \in Calls : /\ call'[d].pc = "await" /\ call'[d].cmd \in Resumes
                                  /\ call'[d].seq = inbox'[i].seq
      <3>1. CASE i \in DOMAIN inbox /\ inbox'[i] = inbox[i]
        BY <1>3, <2>1, <3>1
      <3>2. CASE inbox'[i].cmd = call[c].cmd /\ inbox'[i].seq = call[c].seq
        <4>1. call[c].cmd # "launch"
          BY <2>1, <3>2 DEF Resumes
        <4> QED
          BY <1>4, <2>1, <3>2, <4>1, WriteAppends
      <3> QED
        BY <1>4, <3>1, <3>2, WriteAppends
    <2> QED
      BY <1>1, <2>1 DEF ResumesAwaited
  <1>5. CASE ~Write(c)
    <2>1. inbox' = inbox
      BY <1>5, CallFrame
    <2> QED
      BY <1>1, <1>3, <2>1 DEF ResumesAwaited
  <1> QED
    BY <1>4, <1>5

\* The stops in the stream are numbered.
LEMMA StopNumbers ==
  ASSUME TypeOK, NEW i \in DOMAIN wire, wire[i].kind = "stopped"
  PROVE  wire[i].n \in Nat /\ wire[i].n # 0
  <1>1. wire \in Seq(Messages)
    BY DEF TypeOK
  <1>2. wire[i] \in Messages
    BY <1>1
  <1> QED
    BY <1>2, DapAssumption DEF Messages

\* RecordOK, told of the numbers of stops.
LEMMA RecordByNumber ==
  /\ RecordOK <=>
       /\ \A n : (\A j \in DOMAIN wire : ~Changes(wire[j])) /\ stopped # 0 /\ n = stopped
               => Accounted(n)
       /\ \A i \in DOMAIN wire : \A n : Decides(i) /\ wire[i].kind = "stopped" /\ n = wire[i].n
               => Accounted(n)
  /\ RecordOK' <=>
       /\ \A n : (\A j \in DOMAIN wire' : ~Changes(wire'[j])) /\ stopped' # 0 /\ n = stopped'
               => Accounted(n)'
       /\ \A i \in DOMAIN wire' : \A n : Decides(i)' /\ wire'[i].kind = "stopped" /\ n = wire'[i].n
               => Accounted(n)'
  BY DEF RecordOK, Changes, Decides, Accounted, WillClear, Succeeds

\* A record stays accounted for, unless it is reset.
LEMMA CallRecord ==
  ASSUME FreshInv, RecordOK, NEW c \in Calls, CallStep(c), Live'
  PROVE  RecordOK'
  <1>0. TypeOK /\ StreamOK /\ CallFresh(c) /\ ~lost' /\ ~exited'
    BY DEF FreshInv, Live
  <1>1. /\ UNCHANGED <<wire, owed, stops, base, debuggee>>
        /\ ~Clear(c) => stopped' = stopped
    BY <1>0, CallFrame
  <1>2. ASSUME NEW s \in Seqs, s < nextSeq, Succeeds(s)
        PROVE  Succeeds(s)'
    <2>1. chan'[s] = chan[s]
      BY <1>0, <1>2, CallChannels
    <2> QED
      BY <1>1, <1>2, <2>1 DEF Succeeds
  <1>3. ASSUME NEW n, NEW d \in Calls, WillClear(d, n), ~(d = c /\ Clear(c))
        PROVE  WillClear(d, n)'
    <2>1. call[d].pc \in {"await", "clear"} /\ call[d].cmd \in Resumes /\ Succeeds(call[d].seq)
          /\ base[call[d].seq] >= n
      BY <1>3 DEF WillClear
    <2>2. call'[d].pc \in {"await", "clear"} /\ call'[d].cmd = call[d].cmd /\ call'[d].seq = call[d].seq
      <3>1. CASE d = c
        <4>1. chan[call[c].seq] \in {"open", "ok"}
          BY <2>1, <3>1 DEF Succeeds
        <4> QED
          BY <1>0, <1>3, <2>1, <3>1, <4>1, ResumeEffect
      <3>2. CASE d # c
        BY <1>0, <2>1, <3>2, CallEffect DEF Effect, Others
      <3> QED
        BY <3>1, <3>2
    <2>3. call[d].seq \in Seqs /\ call[d].seq < nextSeq
      BY <1>0, <2>1, RequestInSeqs DEF TypeOK
    <2>4. PICK s \in Seqs : s = call[d].seq
      BY <2>3
    <2>5. Succeeds(s)' /\ base'[s] >= n
      BY <1>1, <1>2, <2>1, <2>3, <2>4
    <2>6. call'[d].seq = s
      BY <2>2, <2>4
    <2> QED
      BY <2>1, <2>2, <2>5, <2>6 DEF WillClear, Succeeds
  <1>4. ASSUME NEW n, Accounted(n), ~(Clear(c) /\ WillClear(c, n))
        PROVE  Accounted(n)'
    <2>1. CASE debuggee = "stopped" /\ n = stops
      BY <1>1, <2>1 DEF Accounted
    <2>2. CASE \E d \in Calls : WillClear(d, n)
      <3>1. PICK d \in Calls : WillClear(d, n)
        BY <2>2
      <3>2. WillClear(d, n)'
        BY <1>3, <1>4, <3>1
      <3> QED
        BY <3>2 DEF Accounted
    <2> QED
      BY <1>4, <2>1, <2>2 DEF Accounted
  <1>5. ASSUME NEW i \in DOMAIN wire, wire[i].kind = "stopped", Clear(c)
        PROVE  ~WillClear(c, wire[i].n)
    <2>1. call[c].pc = "clear" /\ call[c].seq \in Seqs
      BY <1>0, <1>5, RequestInSeqs DEF Clear
    <2>2. CASE call[c].cmd \in Resumes
      <3>1. chan[call[c].seq] = "ok"
        BY <1>0, <2>1, <2>2 DEF CallFresh
      <3>2. wire[i].n > base[call[c].seq]
        BY <1>0, <1>5, <2>1, <3>1 DEF StreamOK
      <3>3. wire[i].n \in Nat /\ base[call[c].seq] \in Nat
        BY <1>0, <1>5, <2>1, StopNumbers DEF TypeOK
      <3> QED
        BY <3>2, <3>3 DEF WillClear
    <2>3. CASE call[c].cmd \notin Resumes
      BY <2>3 DEF WillClear
    <2> QED
      BY <2>2, <2>3
  <1>6. ASSUME NEW i \in DOMAIN wire, NEW n, n = wire[i].n, Decides(i), wire[i].kind = "stopped"
        PROVE  Accounted(n)'
    <2>1. Accounted(n)
      BY <1>6 DEF RecordOK
    <2>2. ~(Clear(c) /\ WillClear(c, n))
      BY <1>5, <1>6
    <2> QED
      BY <1>4, <2>1, <2>2
  <1>7. ASSUME \A j \in DOMAIN wire : ~Changes(wire[j]), NEW n, n = stopped', n # 0
        PROVE  Accounted(n)'
    <2>1. ~Clear(c)
      BY <1>7 DEF Clear
    <2>2. Accounted(n)
      BY <1>1, <1>7, <2>1 DEF RecordOK
    <2> QED
      BY <1>4, <2>1, <2>2
  <1> QED
    BY <1>1, <1>6, <1>7, RecordByNumber DEF Decides

\* Steps of a tool call.
LEMMA CallTruth ==
  ASSUME TruthInv, FreshInv', NEW c \in Calls, CallStep(c)
  PROVE  TruthInv'
  <1>1. TypeOK /\ FreshInv /\ EndsForAReason /\ StartsOnce
    BY DEF TruthInv, FreshInv
  <1>2. UNCHANGED <<reader, garbled>> /\ (exited => exited')
    <2>1. exited => exited'
      BY DEF CallStep, Launch, Terminate, Begin, Submit, Write, WriteError,
             Receive, RequestTimeout, Clear, Kill, Check, CheckClosed, Arm,
             WaitTimeout, adapterVars
    <2> QED
      BY <1>1, <2>1, CallFrame
  <1>3. EndsForAReason'
    BY <1>1, <1>2 DEF EndsForAReason
  <1>4. Live' => ResumesAwaited' /\ RecordOK'
    <2> SUFFICES ASSUME Live' PROVE ResumesAwaited' /\ RecordOK'
      OBVIOUS
    <2>1. Live
      BY <1>1, LiveBefore DEF Next
    <2>2. RequestsOK /\ ResumesAwaited /\ RecordOK /\ ~lost'
      BY <2>1 DEF TruthInv, FreshInv, Live
    <2> QED
      BY <1>1, <2>2, CallAwaits, CallRecord
  <1> QED
    BY <1>1, <1>3, <1>4, CallStarts DEF TruthInv

-----------------------------------------------------------------------------
(* Steps of the reader. *)

\* What accounts for a record does so after any step that keeps the successes
\* and the calls that wait for them.
LEMMA AccountedKept ==
  ASSUME TypeOK, NEW n, Accounted(n),
         debuggee = "stopped" /\ n = stops => Accounted(n)',
         \A s \in Seqs : Succeeds(s) => Succeeds(s)' /\ base'[s] = base[s],
         \A d \in Calls : call[d].pc \in {"await", "clear"} => call'[d] = call[d]
  PROVE  Accounted(n)'
  <1>1. CASE debuggee = "stopped" /\ n = stops
    BY <1>1
  <1>2. CASE \E d \in Calls : WillClear(d, n)
    <2>1. PICK d \in Calls : WillClear(d, n)
      BY <1>2
    <2>2. /\ call[d].cmd \in Resumes /\ call[d].pc \in {"await", "clear"}
          /\ Succeeds(call[d].seq) /\ base[call[d].seq] >= n
      BY <2>1 DEF WillClear
    <2>3. call'[d] = call[d] /\ call[d].seq \in Seqs
      BY <2>2, RequestInSeqs
    <2>4. PICK s \in Seqs : s = call[d].seq
      BY <2>3
    <2>5. Succeeds(s) /\ base[s] >= n
      BY <2>2, <2>4
    <2>6. Succeeds(s)' /\ base'[s] >= n
      BY <2>5
    <2>7. call'[d].seq = s
      BY <2>3, <2>4
    <2> QED
      BY <2>2, <2>3, <2>6, <2>7 DEF Accounted, WillClear, Succeeds
  <1> QED
    BY <1>1, <1>2 DEF Accounted

\* A success that is read reaches its channel.
LEMMA SucceedsRead ==
  ASSUME TypeOK, wire # <<>>, wire' = Tail(wire), owed' = owed,
         chan' = IF Head(wire).kind \in Answers /\ Head(wire).n \in Pending
                 THEN [chan EXCEPT ![Head(wire).n] = Head(wire).kind]
                 ELSE chan,
         NEW s \in Seqs, Succeeds(s)
  PROVE  Succeeds(s)'
  <1>1. wire \in Seq(Messages) /\ chan \in [Seqs -> {"unsent", "open", "ok", "failed", "dropped"}]
    BY DEF TypeOK
  <1>2. /\ 1 \in DOMAIN wire /\ Head(wire) = wire[1]
        /\ \A i \in DOMAIN wire' :
             i \in Nat \ {0} /\ i + 1 \in DOMAIN wire /\ wire'[i] = wire[i + 1]
    BY <1>1, TailFacts
  <1>3. \A i \in DOMAIN wire : i # 1 => i - 1 \in DOMAIN wire' /\ wire'[i - 1] = wire[i]
    BY <1>1
  <1>4. /\ chan[s] \in {"open", "ok"}
        /\ wire[1].kind \in Answers /\ wire[1].n = s => wire[1].kind = "ok"
    BY <1>2 DEF Succeeds
  <1>5. chan'[s] = IF wire[1].kind \in Answers /\ wire[1].n = s THEN "ok" ELSE chan[s]
    BY <1>1, <1>2, <1>4 DEF Pending
  <1>6. \/ chan'[s] = "ok"
        \/ \E m \in owed : m.kind = "ok" /\ m.n = s
        \/ \E i \in DOMAIN wire' : wire'[i].kind = "ok" /\ wire'[i].n = s
    <2>1. CASE \E i \in DOMAIN wire : wire[i].kind = "ok" /\ wire[i].n = s
      <3>1. PICK i \in DOMAIN wire : wire[i].kind = "ok" /\ wire[i].n = s
        BY <2>1
      <3>2. CASE i = 1
        BY <1>5, <3>1, <3>2 DEF Answers
      <3>3. CASE i # 1
        BY <1>3, <3>1, <3>3
      <3> QED
        BY <3>2, <3>3
    <2> QED
      BY <1>4, <1>5, <2>1 DEF Succeeds
  <1>7. \A i \in DOMAIN wire' : wire'[i].kind \in Answers /\ wire'[i].n = s => wire'[i].kind = "ok"
    BY <1>2 DEF Succeeds
  <1> QED
    BY <1>4, <1>5, <1>6, <1>7 DEF Succeeds

\* Once the first message has been read, what decides is what decided before,
\* or the message itself.
LEMMA DecidesRead ==
  ASSUME TypeOK, wire # <<>>, wire' = Tail(wire)
  PROVE  /\ 1 \in DOMAIN wire /\ Head(wire) = wire[1]
         /\ \A i \in DOMAIN wire' : Decides(i)' =>
              i + 1 \in DOMAIN wire /\ Decides(i + 1) /\ wire'[i] = wire[i + 1]
         /\ (\A j \in DOMAIN wire' : ~Changes(wire'[j])) =>
              IF Changes(wire[1]) THEN Decides(1) ELSE \A j \in DOMAIN wire : ~Changes(wire[j])
  <1>1. wire \in Seq(Messages)
    BY DEF TypeOK
  <1>2. /\ 1 \in DOMAIN wire /\ Head(wire) = wire[1] /\ DOMAIN wire \subseteq Nat \ {0}
        /\ \A i \in DOMAIN wire' :
             i \in Nat \ {0} /\ i + 1 \in DOMAIN wire /\ wire'[i] = wire[i + 1]
    BY <1>1, TailFacts
  <1>3. \A i \in DOMAIN wire : i # 1 => i - 1 \in DOMAIN wire' /\ wire'[i - 1] = wire[i]
    BY <1>1
  <1>4. ASSUME NEW i \in DOMAIN wire', Decides(i)'
        PROVE  Decides(i + 1)
    <2>1. Changes(wire[i + 1])
      BY <1>2, <1>4 DEF Decides, Changes
    <2>2. ASSUME NEW j \in DOMAIN wire, j > i + 1
          PROVE  ~Changes(wire[j])
      <3>1. i \in Nat /\ j \in Nat /\ j # 1 /\ j - 1 > i
        BY <1>2, <2>2
      <3>2. j - 1 \in DOMAIN wire' /\ wire'[j - 1] = wire[j]
        BY <1>3, <3>1
      <3>3. ~Changes(wire'[j - 1])
        BY <1>4, <3>1, <3>2 DEF Decides, Changes
      <3> QED
        BY <3>2, <3>3 DEF Changes
    <2> QED
      BY <2>1, <2>2 DEF Decides
  <1>5. ASSUME \A j \in DOMAIN wire' : ~Changes(wire'[j])
        PROVE  \A j \in DOMAIN wire : j # 1 => ~Changes(wire[j])
    <2> SUFFICES ASSUME NEW j \in DOMAIN wire, j # 1 PROVE ~Changes(wire[j])
      OBVIOUS
    <2>1. j - 1 \in DOMAIN wire' /\ wire'[j - 1] = wire[j]
      BY <1>3
    <2> QED
      BY <1>5, <2>1
  <1>6. \A j \in DOMAIN wire : j > 1 => j # 1
    BY <1>2
  <1> QED
    BY <1>2, <1>4, <1>5, <1>6 DEF Decides

\* A response that is read moves from the stream to its channel.
LEMMA ResponseRecord ==
  ASSUME FreshInv, ResumesAwaited, RecordOK, HandleResponse
  PROVE  ResumesAwaited' /\ RecordOK'
  <1>0. TypeOK
    BY DEF FreshInv
  <1>1. /\ wire # <<>> /\ wire' = Tail(wire) /\ Head(wire).kind \in Answers
        /\ UNCHANGED <<call, nextSeq, stopped, inbox, owed, debuggee, stops, base>>
        /\ chan' = IF Head(wire).kind \in Answers /\ Head(wire).n \in Pending
                   THEN [chan EXCEPT ![Head(wire).n] = Head(wire).kind]
                   ELSE chan
    BY DEF HandleResponse, Answers
  <1>2. \A s \in Seqs : chan'[s] \in {chan[s], "ok", "failed"}
    BY <1>0, <1>1 DEF TypeOK, Answers, Pending
  <1>3. ResumesAwaited'
    BY <1>1, <1>2 DEF ResumesAwaited
  <1>4. \A s \in Seqs : Succeeds(s) => Succeeds(s)' /\ base'[s] = base[s]
    BY <1>0, <1>1, SucceedsRead
  <1>5. ASSUME NEW n, Accounted(n)
        PROVE  Accounted(n)'
    <2>1. debuggee = "stopped" /\ n = stops => Accounted(n)'
      BY <1>1 DEF Accounted
    <2> QED
      BY <1>0, <1>1, <1>4, <1>5, <2>1, AccountedKept
  <1>6. /\ 1 \in DOMAIN wire /\ Head(wire) = wire[1]
        /\ \A i \in DOMAIN wire' : Decides(i)' =>
             i + 1 \in DOMAIN wire /\ Decides(i + 1) /\ wire'[i] = wire[i + 1]
        /\ (\A j \in DOMAIN wire' : ~Changes(wire'[j])) =>
             IF Changes(wire[1]) THEN Decides(1) ELSE \A j \in DOMAIN wire : ~Changes(wire[j])
    BY <1>0, <1>1, DecidesRead
  <1>7. ~Changes(wire[1])
    BY <1>1, <1>6 DEF Changes, Answers
  <1>8. \A n : (\A j \in DOMAIN wire' : ~Changes(wire'[j])) /\ stopped' # 0 /\ n = stopped'
               => Accounted(n)'
    BY <1>1, <1>5, <1>6, <1>7 DEF RecordOK
  <1>9. ASSUME NEW i \in DOMAIN wire', NEW n, Decides(i)', wire'[i].kind = "stopped", n = wire'[i].n
        PROVE  Accounted(n)'
    <2>1. i + 1 \in DOMAIN wire /\ Decides(i + 1) /\ wire'[i] = wire[i + 1]
      BY <1>6, <1>9
    <2>2. Accounted(n)
      BY <1>9, <2>1 DEF RecordOK
    <2> QED
      BY <1>5, <2>2
  <1> QED
    BY <1>3, <1>8, <1>9, RecordByNumber

\* An event that is read moves what it decides from the stream to the record.
LEMMA EventRecord ==
  ASSUME FreshInv, ResumesAwaited, RecordOK, HandleEvent
  PROVE  ResumesAwaited' /\ RecordOK'
  <1>0. TypeOK
    BY DEF FreshInv
  <1>1. /\ wire # <<>> /\ wire' = Tail(wire) /\ Head(wire).kind \notin Answers
        /\ UNCHANGED <<call, chan, nextSeq, inbox, owed, debuggee, stops, base>>
        /\ stopped' = CASE Head(wire).kind = "stopped" -> Head(wire).n
                        [] Head(wire).kind \in {"continued", "terminated"} -> 0
                        [] OTHER -> stopped
    BY DEF HandleEvent, Answers
  <1>3. ResumesAwaited'
    BY <1>1 DEF ResumesAwaited
  <1>4. \A s \in Seqs : Succeeds(s) => Succeeds(s)' /\ base'[s] = base[s]
    BY <1>0, <1>1, SucceedsRead
  <1>5. ASSUME NEW n, Accounted(n)
        PROVE  Accounted(n)'
    <2>1. debuggee = "stopped" /\ n = stops => Accounted(n)'
      BY <1>1 DEF Accounted
    <2> QED
      BY <1>0, <1>1, <1>4, <1>5, <2>1, AccountedKept
  <1>6. /\ 1 \in DOMAIN wire /\ Head(wire) = wire[1]
        /\ \A i \in DOMAIN wire' : Decides(i)' =>
             i + 1 \in DOMAIN wire /\ Decides(i + 1) /\ wire'[i] = wire[i + 1]
        /\ (\A j \in DOMAIN wire' : ~Changes(wire'[j])) =>
             IF Changes(wire[1]) THEN Decides(1) ELSE \A j \in DOMAIN wire : ~Changes(wire[j])
    BY <1>0, <1>1, DecidesRead
  <1>8. ASSUME NEW n, \A j \in DOMAIN wire' : ~Changes(wire'[j]), stopped' # 0, n = stopped'
        PROVE  Accounted(n)'
    <2>1. CASE wire[1].kind = "stopped"
      <3>1. Decides(1) /\ n = wire[1].n
        BY <1>1, <1>6, <1>8, <2>1 DEF Changes
      <3>2. Accounted(n)
        BY <1>6, <2>1, <3>1 DEF RecordOK
      <3> QED
        BY <1>5, <3>2
    <2>2. CASE wire[1].kind # "stopped"
      <3>1. wire[1].kind \notin {"continued", "terminated"}
        BY <1>1, <1>6, <1>8, <2>2
      <3>2. stopped' = stopped /\ ~Changes(wire[1])
        BY <1>1, <1>6, <2>2, <3>1 DEF Changes
      <3>3. Accounted(n)
        BY <1>6, <1>8, <3>2 DEF RecordOK
      <3> QED
        BY <1>5, <3>3
    <2> QED
      BY <2>1, <2>2
  <1>9. ASSUME NEW i \in DOMAIN wire', NEW n, Decides(i)', wire'[i].kind = "stopped", n = wire'[i].n
        PROVE  Accounted(n)'
    <2>1. i + 1 \in DOMAIN wire /\ Decides(i + 1) /\ wire'[i] = wire[i + 1]
      BY <1>6, <1>9
    <2>2. Accounted(n)
      BY <1>9, <2>1 DEF RecordOK
    <2> QED
      BY <1>5, <2>2
  <1> QED
    BY <1>3, <1>8, <1>9, RecordByNumber

\* Waking a call up changes neither what it may do nor what it will reset.
LEMMA AwakenKeeps ==
  ASSUME TypeOK, Awaken
  PROVE  /\ \A d \in Calls : call[d].pc # "sleep" => call'[d] = call[d]
         /\ \A d \in Calls : MayConfigure(d)' <=> MayConfigure(d)
  <1>1. \A d \in Calls : call[d] \in CallStates
    BY DEF TypeOK
  <1>2. ASSUME NEW d \in Calls
        PROVE  \/ call'[d] = call[d]
               \/ /\ call[d].pc = "sleep" /\ call'[d].pc = "check"
                  /\ call'[d].cmd = call[d].cmd /\ call'[d].goal = call[d].goal
    BY <1>1 DEF Awaken, CallStates
  <1>3. \A d \in Calls : call[d].pc # "sleep" => call'[d] = call[d]
    BY DEF Awaken
  <1>4. ASSUME NEW d \in Calls
        PROVE  MayConfigure(d)' <=> MayConfigure(d)
    <2>1. CASE call'[d] = call[d]
      BY <2>1 DEF MayConfigure
    <2>2. CASE /\ call[d].pc = "sleep" /\ call'[d].pc = "check"
               /\ call'[d].cmd = call[d].cmd /\ call'[d].goal = call[d].goal
      BY <2>2 DEF MayConfigure, Waits
    <2> QED
      BY <1>2, <2>1, <2>2
  <1> QED
    BY <1>3, <1>4

\* Waking the calls up leaves the record.
LEMMA NotifyRecord ==
  ASSUME FreshInv, ResumesAwaited, RecordOK, Notify
  PROVE  ResumesAwaited' /\ RecordOK'
  <1>0. TypeOK /\ Awaken
    BY DEF FreshInv, Notify
  <1>1. UNCHANGED <<chan, nextSeq, stopped, inbox, wire, owed, debuggee, stops, base>>
    BY DEF Notify, clientVars, adapterVars
  <1>2. \A d \in Calls : call[d].pc \in {"await", "clear"} => call'[d] = call[d]
    BY <1>0, AwakenKeeps
  <1>3. ResumesAwaited'
    <2>1. ASSUME NEW i \in DOMAIN inbox, inbox[i].cmd \in Resumes
          PROVE  \E c \in Calls : /\ call'[c].pc = "await" /\ call'[c].cmd \in Resumes
                                  /\ call'[c].seq = inbox[i].seq
      <3>1. PICK c \in Calls : /\ call[c].pc = "await" /\ call[c].cmd \in Resumes
                               /\ call[c].seq = inbox[i].seq
        BY <2>1 DEF ResumesAwaited
      <3> QED
        BY <1>2, <3>1
    <2> QED
      BY <1>1, <2>1 DEF ResumesAwaited
  <1>4. \A s \in Seqs : Succeeds(s) => Succeeds(s)' /\ base'[s] = base[s]
    BY <1>1 DEF Succeeds
  <1>5. ASSUME NEW n, Accounted(n)
        PROVE  Accounted(n)'
    <2>1. debuggee = "stopped" /\ n = stops => Accounted(n)'
      BY <1>1 DEF Accounted
    <2> QED
      BY <1>0, <1>2, <1>4, <1>5, <2>1, AccountedKept
  <1>8. \A n : (\A j \in DOMAIN wire' : ~Changes(wire'[j])) /\ stopped' # 0 /\ n = stopped'
               => Accounted(n)'
    BY <1>1, <1>5 DEF RecordOK
  <1>9. \A i \in DOMAIN wire' : \A n : Decides(i)' /\ wire'[i].kind = "stopped" /\ n = wire'[i].n
               => Accounted(n)'
    BY <1>1, <1>5 DEF RecordOK, Decides
  <1> QED
    BY <1>3, <1>8, <1>9, RecordByNumber

\* Reading starts no debuggee.
LEMMA ReaderStarts ==
  ASSUME TypeOK, StartsOnce, ReaderStep
  PROVE  StartsOnce'
  <1>1. UNCHANGED <<session, inbox, debuggee, stops>>
    BY DEF ReaderStep, HandleResponse, HandleEvent, Notify, ReaderEnds,
           DrainPending, LastNotify, adapterVars
  <1>2. \A d \in Calls : MayConfigure(d)' <=> MayConfigure(d)
    <2>1. CASE Notify \/ LastNotify
      BY <2>1, AwakenKeeps DEF Notify, LastNotify
    <2>2. CASE ~(Notify \/ LastNotify)
      <3>1. call' = call
        BY <2>2 DEF ReaderStep, HandleResponse, HandleEvent, ReaderEnds, DrainPending
      <3> QED
        BY <3>1 DEF MayConfigure
    <2> QED
      BY <2>1, <2>2
  <1>3. Unstarted => Unstarted'
    <2> SUFFICES ASSUME Unstarted PROVE Unstarted'
      OBVIOUS
    <2>1. CASE HandleResponse \/ HandleEvent
      <3>1. wire \in Seq(Messages) /\ wire # <<>> /\ wire' = Tail(wire)
        BY <2>1 DEF HandleResponse, HandleEvent, TypeOK
      <3>2. /\ 1 \in DOMAIN wire /\ Head(wire) = wire[1]
            /\ \A i \in DOMAIN wire' : i + 1 \in DOMAIN wire /\ wire'[i] = wire[i + 1]
        BY <3>1, TailFacts
      <3>3. Head(wire).kind # "stopped"
        BY <3>2 DEF Unstarted
      <3>4. stopped' = 0
        BY <2>1, <3>3 DEF HandleResponse, HandleEvent, Unstarted
      <3> QED
        BY <1>1, <3>2, <3>4 DEF Unstarted
    <2>2. CASE ~(HandleResponse \/ HandleEvent)
      <3>1. UNCHANGED <<wire, stopped>>
        BY <2>2 DEF ReaderStep, Notify, ReaderEnds, DrainPending, LastNotify,
                    clientVars, adapterVars
      <3> QED
        BY <1>1, <3>1 DEF Unstarted
    <2> QED
      BY <2>1, <2>2
  <1>4. \A i \in DOMAIN inbox : Configures(i)' <=> Configures(i)
    BY <1>1 DEF Configures
  <1> HIDE DEF MayConfigure, Configures, Unstarted
  <1> QED
    BY <1>1, <1>2, <1>3, <1>4 DEF StartsOnce

\* Steps of the reader.
LEMMA ReaderTruth ==
  ASSUME TruthInv, FreshInv', ReaderStep
  PROVE  TruthInv'
  <1>1. TypeOK /\ FreshInv /\ EndsForAReason /\ StartsOnce
    BY DEF TruthInv, FreshInv
  <1>2. UNCHANGED <<exited, garbled>>
    BY DEF ReaderStep, HandleResponse, HandleEvent, Notify, ReaderEnds,
           DrainPending, LastNotify, adapterVars
  <1>3. EndsForAReason'
    BY <1>1, <1>2 DEF EndsForAReason, ReaderStep, HandleResponse, HandleEvent,
           Notify, ReaderEnds, DrainPending, LastNotify
  <1>4. Live' => ResumesAwaited' /\ RecordOK'
    <2> SUFFICES ASSUME Live' PROVE ResumesAwaited' /\ RecordOK'
      OBVIOUS
    <2>1. Live
      BY <1>1, LiveBefore DEF Next
    <2>2. ResumesAwaited /\ RecordOK /\ reader \in {"read", "notify"}
      BY <1>1, <2>1, ReaderLives DEF TruthInv
    <2>3. HandleResponse \/ HandleEvent \/ Notify
      BY <2>1, <2>2 DEF ReaderStep, ReaderEnds, DrainPending, LastNotify, Live
    <2> QED
      BY <1>1, <2>2, <2>3, ResponseRecord, EventRecord, NotifyRecord
  <1> QED
    BY <1>1, <1>3, <1>4, ReaderStarts DEF TruthInv

-----------------------------------------------------------------------------
(* Steps of the adapter. *)

\* What a message at the end of the stream decides.
LEMMA DecidesAppended ==
  ASSUME TypeOK, NEW m \in Messages, wire' = Append(wire, m)
  PROVE  /\ \A i \in DOMAIN wire : i \in DOMAIN wire' /\ wire'[i] = wire[i]
         /\ \A i \in DOMAIN wire' : \/ i \in DOMAIN wire /\ wire'[i] = wire[i]
                                    \/ wire'[i] = m
         /\ \E i \in DOMAIN wire' : wire'[i] = m
         /\ Changes(m) => \A i \in DOMAIN wire' : Decides(i)' => wire'[i] = m
         /\ ~Changes(m) => \A i \in DOMAIN wire' : Decides(i)' =>
                             i \in DOMAIN wire /\ Decides(i) /\ wire'[i] = wire[i]
  <1>1. wire \in Seq(Messages)
    BY DEF TypeOK
  <1>2. /\ DOMAIN wire = 1..Len(wire) /\ Len(wire) \in Nat
        /\ DOMAIN wire' = 1..Len(wire) + 1
        /\ \A i \in DOMAIN wire : wire'[i] = wire[i]
        /\ wire'[Len(wire) + 1] = m
    BY <1>1, AppendFacts
  <1>3. \A i \in DOMAIN wire' : \/ i \in DOMAIN wire /\ wire'[i] = wire[i]
                                \/ i = Len(wire) + 1 /\ wire'[i] = m
    BY <1>2
  <1>4. \A i \in DOMAIN wire : i \in DOMAIN wire' /\ wire'[i] = wire[i] /\ Len(wire) + 1 > i
    BY <1>2
  <1>5. Len(wire) + 1 \in DOMAIN wire'
    BY <1>2
  <1>6. ASSUME Changes(m), NEW i \in DOMAIN wire', Decides(i)'
        PROVE  wire'[i] = m
    BY <1>2, <1>3, <1>4, <1>5, <1>6 DEF Decides, Changes
  <1>7. ASSUME ~Changes(m), NEW i \in DOMAIN wire', Decides(i)'
        PROVE  i \in DOMAIN wire /\ Decides(i) /\ wire'[i] = wire[i]
    <2>1. i \in DOMAIN wire /\ wire'[i] = wire[i]
      BY <1>3, <1>7 DEF Decides, Changes
    <2>2. Changes(wire[i])
      BY <1>7, <2>1 DEF Decides, Changes
    <2>3. \A j \in DOMAIN wire : j > i => ~Changes(wire[j])
      BY <1>4, <1>7 DEF Decides, Changes
    <2> QED
      BY <2>1, <2>2, <2>3 DEF Decides
  <1> QED
    BY <1>2, <1>3, <1>4, <1>5, <1>6, <1>7

\* A message that changes no record, or none at all, leaves what decides.
LEMMA RecordStays ==
  ASSUME TypeOK, RecordOK, stopped' = stopped, \A n : Accounted(n) => Accounted(n)',
         wire' = wire \/ \E m \in Messages : wire' = Append(wire, m) /\ ~Changes(m)
  PROVE  RecordOK'
  <1>1. /\ \A i \in DOMAIN wire : i \in DOMAIN wire' /\ wire'[i] = wire[i]
        /\ \A i \in DOMAIN wire' : Decides(i)' =>
             i \in DOMAIN wire /\ Decides(i) /\ wire'[i] = wire[i]
    <2>1. CASE wire' = wire
      BY <2>1 DEF Decides, Changes
    <2>2. CASE \E m \in Messages : wire' = Append(wire, m) /\ ~Changes(m)
      <3>1. PICK m \in Messages : wire' = Append(wire, m) /\ ~Changes(m)
        BY <2>2
      <3> QED
        BY <3>1, DecidesAppended
    <2> QED
      BY <2>1, <2>2
  <1>2. ASSUME NEW n, \A j \in DOMAIN wire' : ~Changes(wire'[j]), stopped' # 0, n = stopped'
        PROVE  Accounted(n)'
    <2>1. \A j \in DOMAIN wire : ~Changes(wire[j])
      BY <1>1, <1>2
    <2>2. Accounted(n)
      BY <1>2, <2>1 DEF RecordOK
    <2> QED
      BY <2>2
  <1>3. ASSUME NEW i \in DOMAIN wire', NEW n, Decides(i)', wire'[i].kind = "stopped", n = wire'[i].n
        PROVE  Accounted(n)'
    <2>1. Accounted(n)
      BY <1>1, <1>3 DEF RecordOK
    <2> QED
      BY <2>1
  <1> QED
    BY <1>2, <1>3, RecordByNumber

\* A message that changes the record decides alone.
LEMMA RecordMoves ==
  ASSUME TypeOK, NEW m \in Messages, wire' = Append(wire, m), Changes(m),
         NEW n, n = m.n, m.kind = "stopped" => Accounted(n)'
  PROVE  RecordOK'
  <1>1. /\ \E i \in DOMAIN wire' : wire'[i] = m
        /\ \A i \in DOMAIN wire' : Decides(i)' => wire'[i] = m
    BY DecidesAppended
  <1>2. ~ \A j \in DOMAIN wire' : ~Changes(wire'[j])
    BY <1>1
  <1>3. ASSUME NEW i \in DOMAIN wire', NEW k, Decides(i)', wire'[i].kind = "stopped", k = wire'[i].n
        PROVE  Accounted(k)'
    <2>1. k = n /\ m.kind = "stopped"
      BY <1>1, <1>3
    <2> QED
      BY <2>1
  <1> QED
    BY <1>2, <1>3, RecordByNumber

\* What the adapter has not acted on has no success.
LEMMA UnactedFails ==
  ASSUME RequestsOK, NEW s \in Seqs, Unacted(s)
  PROVE  ~Succeeds(s)
  BY DEF RequestsOK, Succeeds, Answers

\* The request the adapter acts on.
LEMMA ActEffect ==
  ASSUME FreshInv, Act, ~garbled
  PROVE  \E r \in [cmd : Commands, seq : Seqs] :
           /\ 1 \in DOMAIN inbox /\ inbox[1] = r /\ Unacted(r.seq) /\ r.seq < nextSeq
           /\ \A i \in DOMAIN inbox' : i \in Nat \ {0} /\ i + 1 \in DOMAIN inbox
                                       /\ inbox'[i] = inbox[i + 1]
           /\ UNCHANGED <<call, chan, nextSeq, stopped, session, stops>>
           /\ \A s \in Seqs : s # r.seq => base'[s] = base[s]
           /\ debuggee' = "running" => base'[r.seq] = stops
           /\ \/ /\ UNCHANGED <<debuggee, wire>>
                 /\ \E kind \in Answers : owed' = owed \cup {Message(kind, r.seq)}
              \/ /\ UNCHANGED <<debuggee, owed>>
                 /\ wire' = Append(wire, Message("initialized", 0))
              \/ r.cmd = "configurationDone" /\ wire' = wire /\ debuggee' = "running"
              \/ /\ r.cmd \in Resumes /\ debuggee = "stopped" /\ debuggee' = "running"
                 /\ owed' = owed \cup {Message("ok", r.seq)}
                 /\ \/ wire' = wire
                    \/ wire' = Append(wire, Message("continued", 0))
  <1> DEFINE r == Head(inbox)
             Requests == [cmd : Commands, seq : Seqs]
  <1>0. TypeOK /\ RequestsOK
    BY DEF FreshInv
  <1>1. /\ inbox \in Seq(Requests) /\ inbox # <<>> /\ inbox' = Tail(inbox)
        /\ UNCHANGED <<call, chan, nextSeq, stopped, session, stops>>
    BY <1>0 DEF Act, TypeOK, clientVars
  <1> HIDE DEF Requests
  <1>2. /\ 1 \in DOMAIN inbox /\ r = inbox[1] /\ r \in Requests
        /\ \A i \in DOMAIN inbox' :
             i \in Nat \ {0} /\ i + 1 \in DOMAIN inbox /\ inbox'[i] = inbox[i + 1]
    BY <1>1, TailFacts
  <1>3. r.seq \in Seqs /\ Unacted(r.seq) /\ r.seq < nextSeq
    BY <1>0, <1>2 DEF Requests, Unacted, RequestsOK
  <1>4. base' = [base EXCEPT ![r.seq] = IF debuggee' = "stopped" THEN stops - 1 ELSE stops]
    BY DEF Act
  <1>5. /\ \A s \in Seqs : s # r.seq => base'[s] = base[s]
        /\ debuggee' = "running" => base'[r.seq] = stops
    BY <1>0, <1>3, <1>4 DEF TypeOK
  <1>6. ASSUME NEW kind \in Answers, Owe({r.seq}, kind)
        PROVE  owed' = owed \cup {Message(kind, r.seq)}
    BY <1>6 DEF Owe
  <1>7. \/ /\ UNCHANGED <<debuggee, wire>>
           /\ \E kind \in Answers : owed' = owed \cup {Message(kind, r.seq)}
        \/ /\ UNCHANGED <<debuggee, owed>>
           /\ wire' = Append(wire, Message("initialized", 0))
        \/ r.cmd = "configurationDone" /\ wire' = wire /\ debuggee' = "running"
        \/ /\ r.cmd \in Resumes /\ debuggee = "stopped" /\ debuggee' = "running"
           /\ owed' = owed \cup {Message("ok", r.seq)}
           /\ \/ wire' = wire
              \/ wire' = Append(wire, Message("continued", 0))
    BY <1>6 DEF Act, Sent, Answers
  <1> HIDE DEF r
  <1> QED
    BY <1>1, <1>2, <1>3, <1>5, <1>7 DEF Requests

\* Acting on a resuming request ends the stop, and owes its caller the success.
LEMMA ActRecord ==
  ASSUME FreshInv, StartsOnce, ResumesAwaited, RecordOK, Act, ~garbled
  PROVE  ResumesAwaited' /\ RecordOK'
  <1>0. TypeOK /\ RequestsOK /\ stops \in Nat
    BY DapAssumption DEF FreshInv, TypeOK
  <1>1. PICK r \in [cmd : Commands, seq : Seqs] :
           /\ 1 \in DOMAIN inbox /\ inbox[1] = r /\ Unacted(r.seq) /\ r.seq < nextSeq
           /\ \A i \in DOMAIN inbox' : i \in Nat \ {0} /\ i + 1 \in DOMAIN inbox
                                       /\ inbox'[i] = inbox[i + 1]
           /\ UNCHANGED <<call, chan, nextSeq, stopped, session, stops>>
           /\ \A s \in Seqs : s # r.seq => base'[s] = base[s]
           /\ debuggee' = "running" => base'[r.seq] = stops
           /\ \/ /\ UNCHANGED <<debuggee, wire>>
                 /\ \E kind \in Answers : owed' = owed \cup {Message(kind, r.seq)}
              \/ /\ UNCHANGED <<debuggee, owed>>
                 /\ wire' = Append(wire, Message("initialized", 0))
              \/ r.cmd = "configurationDone" /\ wire' = wire /\ debuggee' = "running"
              \/ /\ r.cmd \in Resumes /\ debuggee = "stopped" /\ debuggee' = "running"
                 /\ owed' = owed \cup {Message("ok", r.seq)}
                 /\ \/ wire' = wire
                    \/ wire' = Append(wire, Message("continued", 0))
    BY ActEffect
  <1>2. r.seq \in Seqs
    OBVIOUS
  <1>3. ResumesAwaited'
    BY <1>1 DEF ResumesAwaited
  <1>4. \A s \in Seqs : Succeeds(s) => s # r.seq
    BY <1>0, <1>1, <1>2, UnactedFails
  <1>5. \A kind, s : Message(kind, s).kind = kind /\ Message(kind, s).n = s
    BY DEF Message
  <1>6. \A kind \in {"initialized", "continued"} : Message(kind, 0) \in Messages
    BY DEF Message, Messages
  <1>7. ASSUME NEW s \in Seqs, Succeeds(s),
               \A m \in owed' : m \in owed \/ m.n = r.seq, owed \subseteq owed',
               \/ wire' = wire
               \/ \E kind \in {"initialized", "continued"} : wire' = Append(wire, Message(kind, 0))
        PROVE  Succeeds(s)' /\ base'[s] = base[s]
    <2>1. /\ \A i \in DOMAIN wire : i \in DOMAIN wire' /\ wire'[i] = wire[i]
          /\ \A i \in DOMAIN wire' : \/ i \in DOMAIN wire /\ wire'[i] = wire[i]
                                     \/ wire'[i].kind \in {"initialized", "continued"}
      <3>1. CASE wire' = wire
        BY <3>1
      <3>2. CASE \E kind \in {"initialized", "continued"} : wire' = Append(wire, Message(kind, 0))
        <4>1. PICK kind \in {"initialized", "continued"} : wire' = Append(wire, Message(kind, 0))
          BY <3>2
        <4>2. Message(kind, 0) \in Messages /\ Message(kind, 0).kind = kind
          BY <1>5, <1>6
        <4> QED
          BY <1>0, <4>1, <4>2, DecidesAppended
      <3> QED
        BY <1>7, <3>1, <3>2
    <2>2. chan'[s] = chan[s] /\ s # r.seq
      BY <1>1, <1>4, <1>7
    <2>3. \/ chan[s] = "ok"
          \/ \E m \in owed' : m.kind = "ok" /\ m.n = s
          \/ \E i \in DOMAIN wire' : wire'[i].kind = "ok" /\ wire'[i].n = s
      BY <1>7, <2>1 DEF Succeeds
    <2>4. \A m \in owed' : m.n = s => m.kind = "ok"
      BY <1>7, <2>2 DEF Succeeds
    <2>5. \A i \in DOMAIN wire' : wire'[i].kind \in Answers /\ wire'[i].n = s => wire'[i].kind = "ok"
      BY <1>7, <2>1 DEF Succeeds, Answers
    <2>6. chan[s] \in {"open", "ok"}
      BY <1>7 DEF Succeeds
    <2> QED
      BY <1>1, <2>2, <2>3, <2>4, <2>5, <2>6 DEF Succeeds
  <1>8. CASE /\ UNCHANGED <<debuggee, wire>>
             /\ \E kind \in Answers : owed' = owed \cup {Message(kind, r.seq)}
    <2>1. (\A m \in owed' : m \in owed \/ m.n = r.seq) /\ owed \subseteq owed'
      BY <1>5, <1>8
    <2>2. \A s \in Seqs : Succeeds(s) => Succeeds(s)' /\ base'[s] = base[s]
      BY <1>7, <1>8, <2>1
    <2>3. ASSUME NEW n, Accounted(n)
          PROVE  Accounted(n)'
      <3>1. debuggee = "stopped" /\ n = stops => Accounted(n)'
        BY <1>1, <1>8 DEF Accounted
      <3> QED
        BY <1>0, <1>1, <2>2, <2>3, <3>1, AccountedKept
    <2> QED
      BY <1>0, <1>1, <1>3, <1>8, <2>3, RecordStays
  <1>9. CASE /\ UNCHANGED <<debuggee, owed>>
             /\ wire' = Append(wire, Message("initialized", 0))
    <2>1. Message("initialized", 0) \in Messages /\ ~Changes(Message("initialized", 0))
      BY <1>5, <1>6 DEF Changes
    <2>2. \A s \in Seqs : Succeeds(s) => Succeeds(s)' /\ base'[s] = base[s]
      BY <1>7, <1>9
    <2>3. ASSUME NEW n, Accounted(n)
          PROVE  Accounted(n)'
      <3>1. debuggee = "stopped" /\ n = stops => Accounted(n)'
        BY <1>1, <1>9 DEF Accounted
      <3> QED
        BY <1>0, <1>1, <2>2, <2>3, <3>1, AccountedKept
    <2> QED
      BY <1>0, <1>1, <1>3, <1>9, <2>1, <2>3, RecordStays
  <1>10. CASE r.cmd = "configurationDone" /\ wire' = wire /\ debuggee' = "running"
    <2>1. Unstarted
      BY <1>1, <1>10 DEF StartsOnce, Configures
    <2> QED
      BY <1>1, <1>3, <1>10, <2>1 DEF RecordOK, Unstarted
  <1>11. CASE /\ r.cmd \in Resumes /\ debuggee = "stopped" /\ debuggee' = "running"
              /\ owed' = owed \cup {Message("ok", r.seq)}
              /\ wire' = Append(wire, Message("continued", 0))
    <2>1. /\ Message("continued", 0) \in Messages /\ Changes(Message("continued", 0))
          /\ Message("continued", 0).kind # "stopped" /\ 0 = Message("continued", 0).n
      BY <1>5, <1>6 DEF Changes
    <2>2. RecordOK'
      BY <1>0, <1>11, <2>1, RecordMoves
    <2> QED
      BY <1>3, <2>2
  <1>12. CASE /\ r.cmd \in Resumes /\ debuggee = "stopped" /\ debuggee' = "running"
              /\ owed' = owed \cup {Message("ok", r.seq)}
              /\ wire' = wire
    <2>1. (\A m \in owed' : m \in owed \/ m.n = r.seq) /\ owed \subseteq owed'
      BY <1>5, <1>12
    <2>2. \A s \in Seqs : Succeeds(s) => Succeeds(s)' /\ base'[s] = base[s]
      BY <1>7, <1>12, <2>1
    <2>3. PICK c \in Calls : /\ call[c].pc = "await" /\ call[c].cmd \in Resumes
                             /\ call[c].seq = r.seq
      BY <1>1, <1>12 DEF ResumesAwaited
    <2>4. PICK s \in Seqs : s = r.seq
      BY <1>2
    <2>5. Succeeds(s)'
      <3>1. chan[s] = "open"
        BY <1>0, <1>1, <2>4, OpenIfUnacted
      <3>2. /\ \A m \in owed : m.n # s
            /\ \A i \in DOMAIN wire : wire[i].kind \in Answers => wire[i].n # s
        BY <1>0, <1>1, <2>4 DEF RequestsOK
      <3>3. \E m \in owed' : m.kind = "ok" /\ m.n = s
        BY <1>5, <1>12, <2>4
      <3>4. \A m \in owed' : m.n = s => m.kind = "ok"
        BY <1>5, <1>12, <2>4, <3>2
      <3> QED
        BY <1>1, <1>12, <3>1, <3>2, <3>3, <3>4 DEF Succeeds
    <2>6. ASSUME NEW n, Accounted(n)
          PROVE  Accounted(n)'
      <3>1. ASSUME debuggee = "stopped", n = stops
            PROVE  Accounted(n)'
        <4>1. base'[s] >= n
          BY <1>0, <1>1, <1>12, <2>4, <3>1
        <4>2. call'[c].pc = "await" /\ call'[c].cmd \in Resumes /\ call'[c].seq = s
          BY <1>1, <2>3, <2>4
        <4> QED
          BY <2>5, <4>1, <4>2 DEF Accounted, WillClear, Succeeds
      <3> QED
        BY <1>0, <1>1, <2>2, <2>6, <3>1, AccountedKept
    <2> QED
      BY <1>0, <1>1, <1>3, <1>12, <2>6, RecordStays
  <1> QED
    BY <1>1, <1>8, <1>9, <1>10, <1>11, <1>12

\* A response that is sent moves into the stream.
LEMMA RespondRecord ==
  ASSUME FreshInv, ResumesAwaited, RecordOK, Respond
  PROVE  ResumesAwaited' /\ RecordOK'
  <1>0. TypeOK /\ RequestsOK
    BY DEF FreshInv
  <1>1. UNCHANGED <<call, chan, nextSeq, stopped, inbox, debuggee, stops, base>>
    BY DEF Respond, clientVars
  <1>2. PICK m \in owed : wire' = Append(wire, m) /\ owed' = owed \ {m}
    BY DEF Respond
  <1>3. m \in Messages /\ ~Changes(m) /\ m.kind \in Answers
    BY <1>0 DEF TypeOK, RequestsOK, Answers, Changes
  <1>4. ResumesAwaited'
    BY <1>1 DEF ResumesAwaited
  <1>5. /\ \A i \in DOMAIN wire : i \in DOMAIN wire' /\ wire'[i] = wire[i]
        /\ \A i \in DOMAIN wire' : \/ i \in DOMAIN wire /\ wire'[i] = wire[i]
                                   \/ wire'[i] = m
        /\ \E i \in DOMAIN wire' : wire'[i] = m
    BY <1>0, <1>2, <1>3, DecidesAppended
  <1>6. ASSUME NEW s \in Seqs, Succeeds(s)
        PROVE  Succeeds(s)' /\ base'[s] = base[s]
    <2>1. \/ chan'[s] = "ok"
          \/ \E k \in owed' : k.kind = "ok" /\ k.n = s
          \/ \E i \in DOMAIN wire' : wire'[i].kind = "ok" /\ wire'[i].n = s
      <3>1. CASE \E k \in owed : k.kind = "ok" /\ k.n = s
        <4>1. PICK k \in owed : k.kind = "ok" /\ k.n = s
          BY <3>1
        <4>2. k \in owed' \/ k = m
          BY <1>2
        <4> QED
          BY <1>5, <4>1, <4>2
      <3>2. CASE \E i \in DOMAIN wire : wire[i].kind = "ok" /\ wire[i].n = s
        BY <1>5, <3>2
      <3> QED
        BY <1>1, <1>6, <3>1, <3>2 DEF Succeeds
    <2>2. \A k \in owed' : k.n = s => k.kind = "ok"
      BY <1>2, <1>6 DEF Succeeds
    <2>3. \A i \in DOMAIN wire' : wire'[i].kind \in Answers /\ wire'[i].n = s => wire'[i].kind = "ok"
      BY <1>5, <1>6 DEF Succeeds
    <2> QED
      BY <1>1, <1>6, <2>1, <2>2, <2>3 DEF Succeeds
  <1>7. ASSUME NEW n, Accounted(n)
        PROVE  Accounted(n)'
    <2>1. debuggee = "stopped" /\ n = stops => Accounted(n)'
      BY <1>1 DEF Accounted
    <2> QED
      BY <1>0, <1>1, <1>6, <1>7, <2>1, AccountedKept
  <1>8. RecordOK'
    BY <1>0, <1>1, <1>2, <1>3, <1>7, RecordStays
  <1> QED
    BY <1>4, <1>8

\* A stop or an end that is announced decides the record.
LEMMA StopRecord ==
  ASSUME FreshInv, ResumesAwaited, RecordOK, Stop \/ Exit
  PROVE  ResumesAwaited' /\ RecordOK'
  <1>0. TypeOK /\ stops \in Nat
    BY DapAssumption DEF FreshInv, TypeOK
  <1>1. UNCHANGED <<call, chan, nextSeq, inbox>>
    BY DEF Stop, Exit, clientVars
  <1>2. ResumesAwaited'
    BY <1>1 DEF ResumesAwaited
  <1>3. CASE Stop
    <2>1. /\ Message("stopped", stops + 1) \in Messages
          /\ Message("stopped", stops + 1).kind = "stopped"
          /\ Message("stopped", stops + 1).n = stops + 1
          /\ Changes(Message("stopped", stops + 1))
      BY <1>0, <1>3, DapAssumption DEF Stop, Message, Messages, Changes
    <2>2. PICK m \in Messages, n \in Nat : /\ m = Message("stopped", stops + 1)
                                           /\ n = stops + 1
      BY <1>0, <2>1
    <2>3. wire' = Append(wire, m) /\ debuggee' = "stopped" /\ n = stops'
      BY <1>3, <2>2 DEF Stop
    <2>4. Accounted(n)'
      BY <2>3 DEF Accounted
    <2>5. n = m.n /\ Changes(m)
      BY <2>1, <2>2
    <2>6. RecordOK'
      BY <1>0, <2>3, <2>4, <2>5, RecordMoves
    <2> QED
      BY <1>2, <2>6
  <1>4. CASE Exit
    <2>1. /\ Message("terminated", 0) \in Messages
          /\ Message("terminated", 0).kind # "stopped"
          /\ 0 = Message("terminated", 0).n
          /\ Changes(Message("terminated", 0))
      BY DEF Message, Messages, Changes
    <2>2. wire' = Append(wire, Message("terminated", 0))
      BY <1>4 DEF Exit
    <2>3. RecordOK'
      BY <1>0, <2>1, <2>2, RecordMoves
    <2> QED
      BY <1>2, <2>3
  <1> QED
    BY <1>3, <1>4

\* The adapter starts the debuggee once.
LEMMA AdapterStarts ==
  ASSUME FreshInv, StartsOnce, AdapterStep
  PROVE  StartsOnce'
  <1>0. TypeOK /\ RequestsOK
    BY DEF FreshInv
  <1>1. UNCHANGED <<call, session, stopped>>
    BY DEF AdapterStep, Act, Respond, Stop, Exit, AdapterExits, Garble, clientVars
  <1>2. \A d \in Calls : MayConfigure(d)' <=> MayConfigure(d)
    BY <1>1 DEF MayConfigure
  <1>3. \/ inbox' = inbox
        \/ \A i \in DOMAIN inbox' : i \in Nat /\ i + 1 \in DOMAIN inbox /\ inbox'[i] = inbox[i + 1]
    <2> DEFINE Requests == [cmd : Commands, seq : Seqs]
    <2>1. CASE Act
      <3>1. inbox \in Seq(Requests) /\ inbox # <<>> /\ inbox' = Tail(inbox)
        BY <1>0, <2>1 DEF Act, TypeOK
      <3> HIDE DEF Requests
      <3> QED
        BY <3>1, TailFacts
    <2> QED
      BY <2>1 DEF AdapterStep, Respond, Stop, Exit, AdapterExits, Garble
  <1>4. \E k \in {0, 1} : \A i \in DOMAIN inbox' : Configures(i)' =>
          i \in Nat /\ i + k \in DOMAIN inbox /\ Configures(i + k)
    <2>1. inbox \in Seq([cmd : Commands, seq : Seqs])
      BY <1>0 DEF TypeOK
    <2>2. \A i \in DOMAIN inbox : i \in Nat /\ i + 0 = i
      BY <2>1
    <2> QED
      BY <1>3, <2>2 DEF Configures
  <1>5. PICK k \in {0, 1} : \A i \in DOMAIN inbox' : Configures(i)' =>
          i \in Nat /\ i + k \in DOMAIN inbox /\ Configures(i + k)
    BY <1>4
  <1>6. CASE Unstarted => Unstarted'
    <2>1. session' = "none" => /\ Unstarted'
                               /\ \A d \in Calls : ~MayConfigure(d)'
                               /\ \A i \in DOMAIN inbox' : ~Configures(i)'
      BY <1>1, <1>2, <1>5, <1>6 DEF StartsOnce
    <2>2. \A d \in Calls : MayConfigure(d)' => Unstarted'
      BY <1>2, <1>6 DEF StartsOnce
    <2>3. \A i \in DOMAIN inbox' : Configures(i)' => Unstarted'
      BY <1>5, <1>6 DEF StartsOnce
    <2>4. \A c, d \in Calls : MayConfigure(c)' /\ MayConfigure(d)' => c = d
      BY <1>2 DEF StartsOnce
    <2>5. \A c \in Calls, i \in DOMAIN inbox' : MayConfigure(c)' => ~Configures(i)'
      BY <1>2, <1>5 DEF StartsOnce
    <2>6. \A i, j \in DOMAIN inbox' : Configures(i)' /\ Configures(j)' => i = j
      <3> SUFFICES ASSUME NEW i \in DOMAIN inbox', NEW j \in DOMAIN inbox',
                          Configures(i)', Configures(j)'
                   PROVE  i = j
        OBVIOUS
      <3>1. i \in Nat /\ j \in Nat /\ k \in Nat /\ i + k = j + k
        BY <1>5 DEF StartsOnce
      <3> QED
        BY <3>1
    <2> HIDE DEF MayConfigure, Configures, Unstarted
    <2> QED
      BY <2>1, <2>2, <2>3, <2>4, <2>5, <2>6 DEF StartsOnce
  <1>7. CASE /\ session # "none" /\ \A d \in Calls : ~MayConfigure(d)
             /\ \A i \in DOMAIN inbox' : ~Configures(i)'
    <2>1. \A d \in Calls : ~MayConfigure(d)'
      BY <1>2, <1>7
    <2> HIDE DEF MayConfigure, Configures, Unstarted
    <2> QED
      BY <1>1, <1>7, <2>1 DEF StartsOnce
  <1>8. CASE ~Unstarted
    <2> QED
      BY <1>5, <1>7, <1>8 DEF StartsOnce
  <1>9. CASE Act
    <2>1. inbox \in Seq([cmd : Commands, seq : Seqs]) /\ inbox # <<>> /\ inbox' = Tail(inbox)
          /\ stops' = stops
      BY <1>0, <1>9 DEF Act, TypeOK
    <2>2. /\ 1 \in DOMAIN inbox /\ Head(inbox) = inbox[1]
          /\ \A i \in DOMAIN inbox' :
               i \in Nat \ {0} /\ i + 1 \in DOMAIN inbox /\ inbox'[i] = inbox[i + 1]
      <3> DEFINE Requests == [cmd : Commands, seq : Seqs]
      <3>1. inbox \in Seq(Requests)
        BY <2>1
      <3> HIDE DEF Requests
      <3> QED
        BY <2>1, <3>1, TailFacts
    <2>3. CASE inbox[1].cmd = "configurationDone" /\ debuggee' = "running"
      <3>1. Configures(1)
        BY <2>3 DEF Configures
      <3>2. session # "none" /\ \A d \in Calls : ~MayConfigure(d)
        BY <2>2, <3>1 DEF StartsOnce
      <3>3. ASSUME NEW i \in DOMAIN inbox', Configures(i)'
            PROVE  FALSE
        <4>1. i \in Nat \ {0} /\ i + 1 \in DOMAIN inbox /\ Configures(i + 1)
          BY <2>2, <3>3 DEF Configures
        <4>2. i + 1 = 1
          BY <2>2, <3>1, <4>1 DEF StartsOnce
        <4> QED
          BY <4>1, <4>2
      <3> QED
        BY <1>7, <3>2, <3>3
    <2>4. CASE debuggee = "stopped"
      BY <1>8, <2>4 DEF Unstarted
    <2>5. CASE debuggee' = debuggee /\ (wire' = wire \/ wire' = Append(wire, Message("initialized", 0)))
      <3>1. Message("initialized", 0) \in Messages /\ Message("initialized", 0).kind # "stopped"
        BY DEF Message, Messages
      <3>2. \A i \in DOMAIN wire' : \/ i \in DOMAIN wire /\ wire'[i] = wire[i]
                                    \/ wire'[i].kind # "stopped"
        BY <1>0, <2>5, <3>1, DecidesAppended
      <3> QED
        BY <1>1, <1>6, <2>1, <2>5, <3>2 DEF Unstarted
    <2> QED
      BY <1>9, <2>2, <2>3, <2>4, <2>5 DEF Act, Sent
  <1>10. CASE Respond
    <2>1. PICK m \in owed : wire' = Append(wire, m)
      BY <1>10 DEF Respond
    <2>2. m \in Messages /\ m.kind # "stopped"
      BY <1>0 DEF TypeOK, RequestsOK, Answers
    <2>3. \A i \in DOMAIN wire' : \/ i \in DOMAIN wire /\ wire'[i] = wire[i]
                                  \/ wire'[i] = m
      BY <1>0, <2>1, <2>2, DecidesAppended
    <2> QED
      BY <1>1, <1>6, <1>10, <2>2, <2>3 DEF Respond, Unstarted
  <1>11. CASE Stop \/ Exit
    BY <1>8, <1>11 DEF Stop, Exit, Unstarted
  <1>12. CASE AdapterExits \/ Garble
    BY <1>1, <1>6, <1>12 DEF AdapterExits, Garble, Unstarted
  <1> QED
    BY <1>9, <1>10, <1>11, <1>12 DEF AdapterStep

\* Steps of the adapter.
LEMMA AdapterTruth ==
  ASSUME TruthInv, FreshInv', AdapterStep
  PROVE  TruthInv'
  <1>1. TypeOK /\ FreshInv /\ EndsForAReason /\ StartsOnce
    BY DEF TruthInv, FreshInv
  <1>2. reader' = reader /\ (exited => exited') /\ (~garbled' => ~garbled)
    BY DEF AdapterStep, Act, Respond, Stop, Exit, AdapterExits, Garble
  <1>3. EndsForAReason'
    BY <1>1, <1>2 DEF EndsForAReason
  <1>4. Live' => ResumesAwaited' /\ RecordOK'
    <2> SUFFICES ASSUME Live' PROVE ResumesAwaited' /\ RecordOK'
      OBVIOUS
    <2>1. Live
      BY <1>1, LiveBefore DEF Next
    <2>2. ResumesAwaited /\ RecordOK /\ ~garbled
      BY <2>1 DEF TruthInv, Live
    <2>3. Act \/ Respond \/ Stop \/ Exit
      BY DEF AdapterStep, AdapterExits, Garble, Live
    <2> QED
      BY <1>1, <2>2, <2>3, ActRecord, RespondRecord, StopRecord
  <1> QED
    BY <1>1, <1>3, <1>4, AdapterStarts DEF TruthInv

\* Every step keeps the invariant.
LEMMA TruthNext == TruthInv /\ [Next]_vars => TruthInv'
  <1> SUFFICES ASSUME TruthInv, [Next]_vars PROVE TruthInv'
    OBVIOUS
  <1>0. FreshInv'
    BY FreshNext DEF TruthInv
  <1>1. CASE UNCHANGED vars
    BY <1>0, <1>1
      DEF vars, clientVars, adapterVars, TruthInv, EndsForAReason, StartsOnce,
          Unstarted, MayConfigure, Configures, Live, ResumesAwaited, RecordOK,
          Changes, Decides, Accounted, WillClear, Succeeds
  <1> QED
    BY <1>0, <1>1, CallTruth, ReaderTruth, AdapterTruth DEF Next

\* Once nothing is on its way, a stop on record is the one the debuggee is
\* paused at, for any calls on the session and any order of the answers and
\* events of the adapter, unless a request that resumes it has timed out.
THEOREM RecordIsTrue == Spec => []NoFalseStop
  <1>1. TruthInv => NoFalseStop
    <2> SUFFICES ASSUME TruthInv, AtRest, ~lost, stopped # 0
                 PROVE  debuggee = "stopped" /\ stopped = stops
      BY DEF NoFalseStop
    <2>1. Live /\ wire = <<>>
      BY DEF AtRest, Live
    <2>2. Accounted(stopped)
      BY <2>1 DEF TruthInv, RecordOK
    <2>3. \A c \in Calls : ~WillClear(c, stopped)
      BY DEF AtRest, WillClear
    <2> QED
      BY <2>2, <2>3 DEF Accounted
  <1> QED
    BY <1>1, TruthInit, TruthNext, PTL DEF Spec
=============================================================================
