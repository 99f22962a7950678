----------------------------- MODULE DapClient -----------------------------
(***************************************************************************)
(* One DAP debug session from spawn to the death of its adapter: the       *)
(* client of crates/aide-dap/src/client.rs (request correlation, the       *)
(* reader task, the waits on adapter events) and the tool calls of         *)
(* crates/aide-mcp/src/server.rs that use it (dap_launch, dap_continue,    *)
(* the steps, dap_pause, the inspection requests, dap_terminate).          *)
(*                                                                         *)
(* The adapter is external.  It answers requests in any order, emits the   *)
(* events of the protocol, and may exit or send a frame that cannot be     *)
(* read at any time.  A timeout may fire whenever a call is waiting.       *)
(* Output events and reverse requests change no state and are left out.    *)
(***************************************************************************)
EXTENDS Naturals, Sequences, FiniteSets

CONSTANTS
  Calls,         \* concurrent tool calls on the session
  MaxSeq,        \* bound on the requests of the session
  MaxStops,      \* bound on how often the debuggee stops
  CanTimeOut,    \* whether waits may time out
  CanExit,       \* whether the adapter may exit on its own
  CanGarble      \* whether the adapter may send an unreadable frame

ASSUME DapAssumption ==
  /\ MaxSeq \in Nat /\ MaxSeq >= 4   \* a launch and a disconnect
  /\ MaxStops \in Nat
  /\ CanTimeOut \in BOOLEAN
  /\ CanExit \in BOOLEAN
  /\ CanGarble \in BOOLEAN

VARIABLES
  call,         \* what each tool call is doing
  chan,         \* the oneshot of each request; "open" = its sender is in pending
  nextSeq,      \* next_seq
  stopped,      \* state.stopped: the stop recorded, 0 for None
  initialized,  \* state.initialized
  terminated,   \* state.terminated
  closed,       \* the closed flag
  reader,       \* the reader task
  session,      \* the entry of dap_sessions
  inbox,        \* requests in the adapter's stdin
  wire,         \* messages in the adapter's stdout
  held,         \* launch requests that are answered after configurationDone
  owed,         \* responses the adapter still has to send
  debuggee,     \* what the debuggee is doing
  stops,        \* how often it has stopped; each stop is named by its number
  exited,       \* the adapter process has ended
  garbled,      \* an unreadable frame follows the messages in wire
  base,         \* history: how many stops were over once the adapter had
                \* acted on each request
  lost          \* history: a request that resumes the debuggee has timed out

clientVars  == <<chan, nextSeq, stopped, initialized, terminated, closed>>
adapterVars == <<inbox, wire, held, owed, debuggee, stops, exited, garbled, base>>
vars == <<call, clientVars, reader, session, adapterVars, lost>>

Seqs == 1..MaxSeq
Resumes  == {"resume"}                 \* continue, next, stepIn, stepOut
Commands == {"initialize", "launch", "configurationDone", "pause", "inspect",
             "disconnect"} \cup Resumes

\* A call is at pc, with its current command, the sequence number of its
\* request, the one of its launch request, and the result of its last return:
\* a stop, or why there is none.
NoResult == [kind |-> "none", stop |-> 0, sawClosed |-> FALSE]
Fresh == [pc |-> "idle", cmd |-> "none", seq |-> 0, launch |-> 0,
          goal |-> "none", sawClosed |-> FALSE, result |-> NoResult]

Pending == {s \in Seqs : chan[s] = "open"}

Goto(c, pc) == call' = [call EXCEPT ![c].pc = pc]

Launching(c) == call[c].cmd \in {"initialize", "launch", "configurationDone"}

(* How a call ends: a launch that fails disconnects first, everything else *)
(* returns to the agent.                                                   *)
Return(c, kind, stop) ==
  call' = [call EXCEPT ![c].pc = "idle",
                       ![c].result = [kind |-> kind, stop |-> stop,
                                      sawClosed |-> call[c].sawClosed]]
Fail(c, kind) ==
  IF Launching(c)
  THEN call' = [call EXCEPT ![c].pc = "submit", ![c].cmd = "disconnect"]
  ELSE Return(c, kind, 0)

\* A request has failed: disconnect ignores that and goes on to the child.
GiveUp(c, kind) ==
  IF call[c].cmd = "disconnect" THEN Goto(c, "kill") ELSE Fail(c, kind)

-----------------------------------------------------------------------------
(* Tool calls *)

\* dap_launch: spawn the adapter and initialize it.
Launch(c) ==
  /\ session = "none" /\ call[c].pc = "idle"
  /\ session' = "launching"
  /\ call' = [call EXCEPT ![c] = [Fresh EXCEPT !.pc = "submit",
                                               !.cmd = "initialize"]]
  /\ UNCHANGED <<clientVars, reader, adapterVars, lost>>

\* The bound on requests leaves one for every call about to send, and one for
\* the disconnect.
HasSeq == nextSeq + Cardinality({d \in Calls : call[d].pc = "submit"}) < MaxSeq

\* A tool call that has looked the session up.
Begin(c, cmd) ==
  /\ session = "open" /\ call[c].pc = "idle"
  /\ cmd \in Resumes \cup {"pause", "inspect"}
  /\ HasSeq
  /\ call' = [call EXCEPT ![c] = [Fresh EXCEPT !.pc = "submit", !.cmd = cmd]]
  /\ UNCHANGED <<clientVars, reader, session, adapterVars, lost>>

\* dap_terminate removes the session and disconnects.
Terminate(c) ==
  /\ session = "open" /\ call[c].pc = "idle"
  /\ session' = "removed"
  /\ call' = [call EXCEPT ![c] = [Fresh EXCEPT !.pc = "submit",
                                               !.cmd = "disconnect"]]
  /\ UNCHANGED <<clientVars, reader, adapterVars, lost>>

-----------------------------------------------------------------------------
(* request_rx, request and await_response *)

\* Mutant: the sequence number is not advanced.
SubmitReusesSeq(c) ==
  /\ call[c].pc = "submit"
  /\ nextSeq <= MaxSeq
  /\ chan' = [chan EXCEPT ![nextSeq] = "open"]
  /\ call' = [call EXCEPT ![c].pc = "write", ![c].seq = nextSeq]
  /\ UNCHANGED <<nextSeq, stopped, initialized, terminated, closed, reader,
                 session, adapterVars, lost>>

\* Take a sequence number and put the sender into pending.
Submit(c) ==
  /\ call[c].pc = "submit"
  /\ nextSeq <= MaxSeq
  /\ nextSeq' = nextSeq + 1
  /\ chan' = [chan EXCEPT ![nextSeq] = "open"]
  /\ call' = [call EXCEPT ![c].pc = "write", ![c].seq = nextSeq]
  /\ UNCHANGED <<stopped, initialized, terminated, closed, reader, session,
                 adapterVars, lost>>

\* Write to the adapter.  The launch request is not awaited yet.
Write(c) ==
  /\ call[c].pc = "write" /\ ~exited
  /\ inbox' = Append(inbox, [cmd |-> call[c].cmd, seq |-> call[c].seq])
  /\ call' = IF call[c].cmd = "launch"
             THEN [call EXCEPT ![c].pc = "check", ![c].goal = "initialized",
                               ![c].launch = call[c].seq]
             ELSE [call EXCEPT ![c].pc = "await"]
  /\ UNCHANGED <<clientVars, reader, session, wire, held, owed, debuggee, stops,
                 exited, garbled, base, lost>>

\* The pipe is broken: the error returns at once, the sender stays in pending.
WriteError(c) ==
  /\ call[c].pc = "write" /\ exited
  /\ GiveUp(c, "error")
  /\ UNCHANGED <<clientVars, reader, session, adapterVars, lost>>

\* The response has arrived and is a success.  configurationDone is followed
\* by the response of the launch request.
Proceed(c) ==
  LET cmd == call[c].cmd
      To(pc, next, goal) == call' = [call EXCEPT ![c].pc = pc, ![c].cmd = next,
                                                 ![c].goal = goal]
  IN  \/ cmd = "initialize" /\ To("submit", "launch", "none")
      \/ /\ cmd = "configurationDone" /\ call[c].seq # call[c].launch
         /\ call' = [call EXCEPT ![c].seq = call[c].launch]
      \/ /\ cmd = "configurationDone" /\ call[c].seq = call[c].launch
         /\ To("check", cmd, "stopped")
      \/ cmd \in Resumes /\ To("clear", cmd, "stopped")
      \/ cmd = "pause" /\ To("check", cmd, "stopped")
      \/ cmd = "inspect" /\ Return(c, "ok", 0)
      \/ cmd = "disconnect" /\ Goto(c, "kill")

Receive(c) ==
  /\ call[c].pc = "await"
  /\ \/ chan[call[c].seq] = "ok" /\ Proceed(c)
     \/ chan[call[c].seq] \in {"failed", "dropped"} /\ GiveUp(c, "error")
  /\ UNCHANGED <<clientVars, reader, session, adapterVars, lost>>

\* Mutant: the response is awaited without a timeout.
RequestNeverTimesOut(c) == FALSE /\ UNCHANGED vars

\* The request timeout; the sender stays in pending.
RequestTimeout(c) ==
  /\ call[c].pc = "await" /\ chan[call[c].seq] = "open"
  /\ CanTimeOut
  /\ GiveUp(c, "timeout")
  /\ lost' = (lost \/ call[c].cmd \in Resumes)
  /\ UNCHANGED <<clientVars, reader, session, adapterVars>>

\* Mutant: a step relies on the adapter to announce that the debuggee runs.
ClearNothing(c) ==
  /\ call[c].pc = "clear"
  /\ Goto(c, "check")
  /\ UNCHANGED <<clientVars, reader, session, adapterVars, lost>>

\* continue_thread, next, step_in, step_out: flip to running.
Clear(c) ==
  /\ call[c].pc = "clear"
  /\ stopped' = 0
  /\ Goto(c, "check")
  /\ UNCHANGED <<chan, nextSeq, initialized, terminated, closed, reader,
                 session, adapterVars, lost>>

\* Mutant: the adapter is trusted to end by itself.
KillNothing(c) ==
  /\ call[c].pc = "kill"
  /\ session' = "gone"
  /\ Return(c, "ok", 0)
  /\ UNCHANGED <<clientVars, reader, adapterVars, lost>>

\* disconnect: wait two seconds for the child, then kill it.
Kill(c) ==
  /\ call[c].pc = "kill"
  /\ exited' = TRUE
  /\ session' = "gone"
  /\ debuggee' = "gone"
  /\ Return(c, "ok", 0)
  /\ UNCHANGED <<clientVars, reader, inbox, wire, held, owed, stops, garbled,
                 base, lost>>

-----------------------------------------------------------------------------
(* wait_for_initialized and wait_for_stopped *)

Check(c) ==
  /\ call[c].pc = "check"
  /\ \/ /\ call[c].goal = "initialized" /\ initialized
        /\ call' = [call EXCEPT ![c].pc = "submit",
                                ![c].cmd = "configurationDone"]
        /\ UNCHANGED session
     \/ /\ call[c].goal = "initialized" /\ ~initialized
        /\ Goto(c, "checkClosed")
        /\ UNCHANGED session
     \/ /\ call[c].goal = "stopped" /\ stopped # 0
        /\ Return(c, "stop", stopped)
        /\ session' = IF Launching(c) THEN "open" ELSE session
     \/ /\ call[c].goal = "stopped" /\ stopped = 0
        /\ IF terminated
           THEN Fail(c, "error")
           ELSE call' = [call EXCEPT ![c].pc = "arm",
                                     ![c].sawClosed = closed]
        /\ UNCHANGED session
  /\ UNCHANGED <<clientVars, reader, adapterVars, lost>>

\* Only wait_for_initialized looks at the closed flag.
CheckClosed(c) ==
  /\ call[c].pc = "checkClosed"
  /\ IF closed THEN Fail(c, "error") ELSE Goto(c, "arm")
  /\ UNCHANGED <<clientVars, reader, session, adapterVars, lost>>

\* From here on notify_waiters reaches the call.
Arm(c) ==
  /\ call[c].pc = "arm"
  /\ Goto(c, "sleep")
  /\ UNCHANGED <<clientVars, reader, session, adapterVars, lost>>

WaitTimeout(c) ==
  /\ call[c].pc \in {"arm", "sleep"}
  /\ CanTimeOut
  /\ Fail(c, "timeout")
  /\ UNCHANGED <<clientVars, reader, session, adapterVars, lost>>

-----------------------------------------------------------------------------
(* The reader task *)

\* handle_response: nobody may be waiting for it any more.
HandleResponse ==
  /\ reader = "read" /\ wire # <<>>
  /\ Head(wire).kind \in {"ok", "failed"}
  /\ wire' = Tail(wire)
  /\ chan' = IF Head(wire).n \in Pending
             THEN [chan EXCEPT ![Head(wire).n] = Head(wire).kind]
             ELSE chan
  /\ UNCHANGED <<call, nextSeq, stopped, initialized, terminated, closed,
                 reader, session, inbox, held, owed, debuggee, stops, exited,
                 garbled, base, lost>>

\* handle_event, up to the release of the state lock.
HandleEvent ==
  /\ reader = "read" /\ wire # <<>>
  /\ LET event == Head(wire).kind
     IN  /\ event \notin {"ok", "failed"}
         /\ initialized' = (initialized \/ event = "initialized")
         /\ terminated' = (terminated \/ event = "terminated")
         /\ stopped' = CASE event = "stopped" -> Head(wire).n
                         [] event \in {"continued", "terminated"} -> 0
                         [] OTHER -> stopped
  /\ wire' = Tail(wire)
  /\ reader' = "notify"
  /\ UNCHANGED <<call, chan, nextSeq, closed, session, inbox, held, owed, debuggee,
                 stops, exited, garbled, base, lost>>

\* notify_waiters: every call that is asleep checks again.
Awaken == call' = [c \in Calls |-> IF call[c].pc = "sleep"
                                   THEN [call[c] EXCEPT !.pc = "check"]
                                   ELSE call[c]]

Notify ==
  /\ reader = "notify"
  /\ Awaken
  /\ reader' = "read"
  /\ UNCHANGED <<clientVars, session, adapterVars, lost>>

\* End of stream, or a frame that cannot be read.
ReaderEnds ==
  /\ reader = "read" /\ wire = <<>> /\ (exited \/ garbled)
  /\ closed' = TRUE
  /\ reader' = "drain"
  /\ UNCHANGED <<call, chan, nextSeq, stopped, initialized, terminated,
                 session, adapterVars, lost>>

\* Mutant: the senders stay in pending.
DrainNothing ==
  /\ reader = "drain"
  /\ reader' = "wake"
  /\ UNCHANGED <<call, clientVars, session, adapterVars, lost>>

\* Dropping the senders fails every request in flight.
DrainPending ==
  /\ reader = "drain"
  /\ chan' = [s \in Seqs |-> IF s \in Pending THEN "dropped" ELSE chan[s]]
  /\ reader' = "wake"
  /\ UNCHANGED <<call, nextSeq, stopped, initialized, terminated, closed,
                 session, adapterVars, lost>>

LastNotify ==
  /\ reader = "wake"
  /\ Awaken
  /\ reader' = "gone"
  /\ UNCHANGED <<clientVars, session, adapterVars, lost>>

-----------------------------------------------------------------------------
(* The adapter and its debuggee *)

Message(kind, n) == [kind |-> kind, n |-> n]
Messages == [kind : {"ok", "failed"}, n : Seqs]
            \cup [kind : {"stopped"}, n : 1..MaxStops]
            \cup [kind : {"initialized", "continued", "terminated"}, n : {0}]

\* Nothing is read behind an unreadable frame.
Sent(m) == IF garbled THEN wire ELSE Append(wire, m)

Owe(seqs, kind) == owed' = owed \cup {Message(kind, s) : s \in seqs}

\* The adapter acts on the next request; the response follows later.  It may
\* announce that the debuggee continues.
Act ==
  /\ ~exited /\ inbox # <<>>
  /\ LET r == Head(inbox)
     IN  /\ inbox' = Tail(inbox)
         /\ \/ /\ r.cmd \in {"initialize", "inspect", "pause", "disconnect"}
               /\ Owe({r.seq}, "ok")
               /\ UNCHANGED <<debuggee, wire, held>>
            \/ /\ r.cmd = "launch"
               /\ wire' = Sent(Message("initialized", 0))
               /\ held' = held \cup {r.seq}
               /\ UNCHANGED <<debuggee, owed>>
            \/ /\ r.cmd = "configurationDone"
               /\ debuggee' = "running"
               /\ Owe(held \cup {r.seq}, "ok")
               /\ held' = {}
               /\ UNCHANGED wire
            \/ /\ r.cmd \in Resumes /\ debuggee = "stopped"
               /\ debuggee' = "running"
               /\ Owe({r.seq}, "ok")
               /\ wire' \in {wire, Sent(Message("continued", 0))}
               /\ UNCHANGED held
            \/ /\ r.cmd # "disconnect"
               /\ Owe({r.seq}, "failed")
               /\ UNCHANGED <<debuggee, wire, held>>
         /\ base' = [base EXCEPT ![r.seq] =
                       IF debuggee' = "stopped" THEN stops - 1 ELSE stops]
  /\ UNCHANGED <<call, clientVars, reader, session, stops, exited, garbled,
                 lost>>

Respond ==
  /\ ~exited /\ ~garbled
  /\ \E m \in owed : /\ wire' = Append(wire, m)
                     /\ owed' = owed \ {m}
  /\ UNCHANGED <<call, clientVars, reader, session, inbox, held, debuggee, stops,
                 exited, garbled, base, lost>>

\* The running debuggee stops: a breakpoint, the end of a step, a pause.
Stop ==
  /\ ~exited /\ ~garbled /\ debuggee = "running" /\ stops < MaxStops
  /\ debuggee' = "stopped"
  /\ stops' = stops + 1
  /\ wire' = Append(wire, Message("stopped", stops + 1))
  /\ UNCHANGED <<call, clientVars, reader, session, inbox, held, owed, exited,
                 garbled, base, lost>>

\* The running debuggee ends.
Exit ==
  /\ ~exited /\ ~garbled /\ debuggee = "running"
  /\ debuggee' = "gone"
  /\ wire' = Append(wire, Message("terminated", 0))
  /\ UNCHANGED <<call, clientVars, reader, session, inbox, held, owed, stops,
                 exited, garbled, base, lost>>

AdapterExits ==
  /\ CanExit /\ session # "none" /\ ~exited
  /\ exited' = TRUE
  /\ debuggee' = "gone"
  /\ UNCHANGED <<call, clientVars, reader, session, inbox, wire, held, owed, stops,
                 garbled, base, lost>>

Garble ==
  /\ CanGarble /\ session # "none" /\ ~exited /\ ~garbled
  /\ garbled' = TRUE
  /\ UNCHANGED <<call, clientVars, reader, session, inbox, wire, held, owed,
                 debuggee, stops, exited, base, lost>>

-----------------------------------------------------------------------------
Init ==
  /\ call = [c \in Calls |-> Fresh]
  /\ chan = [s \in Seqs |-> "unsent"]
  /\ nextSeq = 1
  /\ stopped = 0
  /\ initialized = FALSE /\ terminated = FALSE /\ closed = FALSE
  /\ reader = "read"
  /\ session = "none"
  /\ inbox = <<>> /\ wire = <<>> /\ held = {} /\ owed = {}
  /\ debuggee = "absent"
  /\ stops = 0
  /\ exited = FALSE /\ garbled = FALSE
  /\ base = [s \in Seqs |-> 0]
  /\ lost = FALSE
CallStep(c) ==
  \/ Launch(c) \/ Terminate(c) \/ \E cmd \in Commands : Begin(c, cmd)
  \/ Submit(c) \/ Write(c) \/ WriteError(c) \/ Receive(c) \/ RequestTimeout(c)
  \/ Clear(c) \/ Kill(c)
  \/ Check(c) \/ CheckClosed(c) \/ Arm(c) \/ WaitTimeout(c)

ReaderStep == \/ HandleResponse \/ HandleEvent \/ Notify
              \/ ReaderEnds \/ DrainPending \/ LastNotify

AdapterStep == Act \/ Respond \/ Stop \/ Exit \/ AdapterExits \/ Garble

Next == (\E c \in Calls : CallStep(c)) \/ ReaderStep \/ AdapterStep

Spec == Init /\ [][Next]_vars

(***************************************************************************)
(* Fairness: tokio runs every task that can step, and its timers fire.     *)
(* Nothing is assumed of the adapter or of the agent.                      *)
(***************************************************************************)
Advance(c) == \/ Submit(c) \/ Write(c) \/ WriteError(c) \/ Receive(c)
              \/ RequestTimeout(c) \/ Clear(c) \/ Kill(c)
              \/ Check(c) \/ CheckClosed(c) \/ Arm(c) \/ WaitTimeout(c)

FairSpec == Spec /\ WF_vars(ReaderStep) /\ \A c \in Calls : WF_vars(Advance(c))

-----------------------------------------------------------------------------
(* Properties *)

Results == [kind : {"none", "ok", "error", "timeout", "stop"},
            stop : 0..MaxStops, sawClosed : BOOLEAN]

CallStates ==
  [pc : {"idle", "submit", "write", "await", "clear", "kill", "check",
         "checkClosed", "arm", "sleep"},
   cmd : Commands \cup {"none"}, seq : 0..MaxSeq, launch : 0..MaxSeq,
   goal : {"none", "initialized", "stopped"}, sawClosed : BOOLEAN,
   result : Results]

\* Every variable stays in its domain; sequence numbers are handed out once,
\* and a call waits for a request that has been registered.
TypeOK ==
  /\ call \in [Calls -> CallStates]
  /\ chan \in [Seqs -> {"unsent", "open", "ok", "failed", "dropped"}]
  /\ nextSeq \in 1..MaxSeq + 1
  /\ \A s \in Seqs : s >= nextSeq => chan[s] = "unsent"
  /\ \A c \in Calls :
       /\ call[c].seq < nextSeq /\ call[c].launch < nextSeq
       /\ call[c].pc \in {"write", "await", "clear"} => call[c].seq # 0
       /\ call[c].goal = "initialized" \/ call[c].cmd = "configurationDone"
            => call[c].launch # 0
       /\ call[c].cmd = "none" => call[c].pc = "idle"
  /\ stopped \in 0..MaxStops
  /\ initialized \in BOOLEAN /\ terminated \in BOOLEAN /\ closed \in BOOLEAN
  /\ reader \in {"read", "notify", "drain", "wake", "gone"}
  /\ session \in {"none", "launching", "open", "removed", "gone"}
  /\ inbox \in Seq([cmd : Commands, seq : Seqs])
  /\ wire \in Seq(Messages)
  /\ held \subseteq Seqs
  /\ owed \subseteq Messages
  /\ debuggee \in {"absent", "running", "stopped", "gone"}
  /\ stops \in 0..MaxStops
  /\ debuggee = "stopped" => stops > 0
  /\ exited \in BOOLEAN /\ garbled \in BOOLEAN /\ lost \in BOOLEAN
  /\ base \in [Seqs -> 0..MaxStops]

\* A continue or step that returns a stop returns one the debuggee reached
\* after the adapter had acted on that request, never the stop it left.
FreshStop ==
  \A c \in Calls : /\ call[c].pc = "idle" /\ call[c].cmd \in Resumes
                   /\ call[c].result.kind = "stop"
                   => call[c].result.stop > base[call[c].seq]

\* Nothing is on its way between the adapter and a call that could still
\* change state.stopped.
AtRest ==
  /\ inbox = <<>> /\ wire = <<>> /\ owed = {} /\ reader = "read"
  /\ ~exited /\ ~garbled
  /\ \A c \in Calls : call[c].pc \in {"await", "clear"} =>
                      call[c].cmd \notin Resumes

\* Once things are at rest, a stop on record means that the debuggee is
\* paused at that stop, unless a request that resumed it has timed out.
NoFalseStop ==
  AtRest /\ ~lost /\ stopped # 0 => debuggee = "stopped" /\ stopped = stops

\* The next three the code does not have; section 4 of the README tells why.

\* state.stopped is Some while the debuggee is paused.
StopIsRecorded == AtRest /\ debuggee = "stopped" => stopped = stops

\* A call that waits for the debuggee to pause is not asleep when a stop has
\* been recorded and announced.
NoLostWakeup ==
  \A c \in Calls : /\ call[c].pc = "sleep" /\ call[c].goal = "stopped"
                   /\ reader = "read"
                   => stopped = 0 /\ ~terminated

\* wait_for_stopped errors out when the adapter closes: it does not time out
\* when the close came before its last look at the state.
WaitSeesClose ==
  \A c \in Calls : call[c].result.kind = "timeout" => ~call[c].result.sawClosed

\* Once the adapter is dead and the reader has cleaned up, no request sits out
\* its timeout, unless the reader gave up while the adapter was still alive.
NoWaitOnDeadAdapter ==
  exited /\ ~garbled /\ reader = "gone" =>
    \A c \in Calls : call[c].pc = "await" => chan[call[c].seq] # "open"

\* Every tool call returns, whatever the adapter does or fails to do.
CallReturns == \A c \in Calls : call[c].pc # "idle" ~> call[c].pc = "idle"

\* dap_terminate leaves no adapter behind, even one that never answers.
TerminateKills == session = "removed" ~> exited
=============================================================================
