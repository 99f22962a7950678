------------------------------ MODULE LspPool ------------------------------
(***************************************************************************)
(* The language servers of one process: the pool that caches a client per  *)
(* (language, root) (crates/aide-lsp/src/pool.rs), the clients with their  *)
(* pending requests and reader tasks (crates/aide-lsp/src/client.rs), the  *)
(* tool calls that take a client from the pool and the idle reaper.        *)
(*                                                                         *)
(* The server is external.  It answers requests in any order, may send     *)
(* requests of its own, exit, or write a frame that cannot be read.        *)
(* Ids are handed out by an atomic counter, so a request is named by its   *)
(* caller, who has at most one open.  Notifications and diagnostics change *)
(* nothing here and are left out.                                          *)
(***************************************************************************)
EXTENDS Naturals, FiniteSets

CONSTANTS
  Keys,     \* the (language, root) pairs
  Calls,    \* concurrent tool calls
  Reaper,   \* the reaper task
  Slots,    \* names for clients; one is reused once nothing is left of it
  None,     \* no client
  MaxRequests   \* bound on the requests of one tool call

ASSUME LspAssumption ==
  /\ Reaper \notin Calls
  /\ None \notin Slots
  /\ MaxRequests \in Nat

VARIABLES
  pool,     \* the map of clients, and which entries IDLE_TTL has passed for
  client,   \* the clients with their server process and reader task
  actor,    \* what each tool call and the reaper are doing
  evicted   \* the reaper's list of clients to shut down

vars == <<pool, client, actor, evicted>>

Actors == Calls \cup {Reaper}

NoEntry == [client |-> None, idle |-> FALSE]
AtRest  == [pc |-> "idle", task |-> "none", key |-> None, client |-> None,
            left |-> 0, reply |-> "none"]
\* An actor with a task, a client and requests to send.
Busy(task, k, c, n) == [AtRest EXCEPT !.pc = "submit", !.task = task, !.key = k,
                                      !.client = c, !.left = n]
\* What is left of a client that is gone, and a client just spawned.
Gone  == [proc |-> "exited", reader |-> "done", pending |-> {}]
Young == [Gone EXCEPT !.proc = "running", !.reader = "reading"]

Cached == {pool[k].client : k \in Keys} \ {None}
Held   == (Cached \cup {actor[a].client : a \in Actors} \cup evicted) \ {None}

\* The flag `alive` is cleared by the reader task as it ends.
IsAlive(c) == c # None /\ client[c].reader = "reading"

\* Mutant: the process is not killed on drop.
DropNothing(cs) == client' = cs

(* kill_on_drop: the process ends with the last Arc of its client, and its *)
(* reader task after it, unseen.  `cs` are the clients as the step leaves  *)
(* them otherwise.                                                         *)
DropUnheld(cs) ==
  client' = [c \in Slots |-> IF c \in Held' THEN cs[c] ELSE Gone]

\* Mutant: the call keeps its handle.
LeaveKeepsClient(a) ==
  /\ actor' = [actor EXCEPT ![a].pc = "idle"]
  /\ UNCHANGED <<pool, client, evicted>>

(* The end of a tool call, or of its attempt to get a client.              *)
Leave(a) ==
  /\ actor' = [actor EXCEPT ![a] = AtRest]
  /\ UNCHANGED <<pool, evicted>>
  /\ DropUnheld(client)

Step(a, pc) ==
  /\ actor' = [actor EXCEPT ![a].pc = pc]
  /\ UNCHANGED <<pool, client, evicted>>

(* What follows a request that has failed.  shutdown ignores it.           *)
Fail(a) ==
  \/ /\ actor[a].task = "shutdown"
     /\ actor' = [actor EXCEPT ![a].pc = "kill", ![a].reply = "none"]
     /\ UNCHANGED <<pool, client, evicted>>
  \/ actor[a].task # "shutdown" /\ Leave(a)

-----------------------------------------------------------------------------
(* LspPool::get_or_spawn *)

GetCached(a, k) ==
  /\ actor[a].pc = "idle"
  /\ IsAlive(pool[k].client)
  /\ pool' = [pool EXCEPT ![k].idle = FALSE]
  /\ actor' = [actor EXCEPT ![a] = Busy("tool", k, pool[k].client, MaxRequests)]
  /\ UNCHANGED <<client, evicted>>

\* No client, or a dead one, which is removed.
GetMissing(a, k) ==
  /\ actor[a].pc = "idle"
  /\ ~IsAlive(pool[k].client)
  /\ pool' = [pool EXCEPT ![k] = NoEntry]
  /\ actor' = [actor EXCEPT ![a] = [AtRest EXCEPT !.pc = "spawn", !.key = k]]
  /\ UNCHANGED evicted
  /\ DropUnheld(client)

SpawnFails(a) == actor[a].pc = "spawn" /\ Leave(a)

Spawn(a) ==
  /\ actor[a].pc = "spawn"
  /\ \E c \in Slots \ Held :
       /\ client' = [client EXCEPT ![c] = Young]
       /\ actor' = [actor EXCEPT ![a] = Busy("initialize", actor[a].key, c, 1)]
  /\ UNCHANGED <<pool, evicted>>

\* The notification `initialized`.
Initialized(a) ==
  /\ actor[a].pc = "initialized"
  /\ IF client[actor[a].client].proc = "running" THEN Step(a, "insert")
                                                 ELSE Leave(a)

\* The lock is taken again: another call may have inserted a client meanwhile.
Insert(a) ==
  /\ actor[a].pc = "insert"
  /\ pool' = [pool EXCEPT ![actor[a].key] = [client |-> actor[a].client,
                                             idle |-> FALSE]]
  /\ actor' = [actor EXCEPT ![a] = Busy("tool", actor[a].key, actor[a].client,
                                        MaxRequests)]
  /\ UNCHANGED evicted
  /\ DropUnheld(client)

-----------------------------------------------------------------------------
(* LspClient::request, for the handshake, a tool and the reaper *)

Submit(a) ==
  /\ actor[a].pc = "submit" /\ actor[a].left > 0
  /\ client' = [client EXCEPT ![actor[a].client].pending = @ \cup {a}]
  /\ actor' = [actor EXCEPT ![a].pc = "write", ![a].left = @ - 1]
  /\ UNCHANGED <<pool, evicted>>

Write(a) ==
  /\ actor[a].pc = "write"
  /\ client[actor[a].client].proc = "running"
  /\ Step(a, "await")

\* The pipe is closed; the sender stays in pending.
WriteError(a) ==
  /\ actor[a].pc = "write"
  /\ client[actor[a].client].proc = "exited"
  /\ Fail(a)

AfterReply(task) == CASE task = "initialize" -> "initialized"
                      [] task = "tool"       -> "submit"
                      [] task = "shutdown"   -> "kill"

\* A response ends the wait.  A tool goes on to its next request or returns.
\* `foreign` is the null of a server request: not every result may be null.
Receive(a) ==
  /\ actor[a].pc = "await"
  /\ \/ /\ actor[a].reply \in {"result", "foreign"}
        /\ actor' = [actor EXCEPT ![a].pc = AfterReply(actor[a].task),
                                  ![a].reply = "none"]
        /\ UNCHANGED <<pool, client, evicted>>
     \/ /\ actor[a].reply \in {"error", "cancelled", "foreign"}
        /\ Fail(a)

\* Mutant: there is no timeout.
NeverTimesOut(a) == FALSE /\ UNCHANGED vars

RequestTimeout(a) ==
  /\ actor[a].pc = "await" /\ actor[a].reply = "none"
  /\ LET cs == [client EXCEPT ![actor[a].client].pending = @ \ {a}] IN
       \/ /\ actor[a].task = "shutdown"
          /\ actor' = [actor EXCEPT ![a].pc = "kill"]
          /\ client' = cs
          /\ UNCHANGED <<pool, evicted>>
       \/ /\ actor[a].task # "shutdown"
          /\ actor' = [actor EXCEPT ![a] = AtRest]
          /\ UNCHANGED <<pool, evicted>>
          /\ DropUnheld(cs)

ToolReturns(a) == /\ actor[a].pc = "submit" /\ actor[a].task = "tool"
                  /\ Leave(a)

-----------------------------------------------------------------------------
(* The idle reaper: take_idle, then shutdown of one client after another *)

\* An entry has not been asked for during IDLE_TTL.
GoesIdle(k) ==
  /\ pool[k].client # None /\ ~pool[k].idle
  /\ pool' = [pool EXCEPT ![k].idle = TRUE]
  /\ UNCHANGED <<client, actor, evicted>>

IdleClients == {pool[k].client : k \in {k \in Keys : pool[k].idle}}

\* Mutant: the entries stay in the pool.
TakeIdleKeepsEntries ==
  /\ actor[Reaper].pc = "idle" /\ evicted = {} /\ IdleClients # {}
  /\ evicted' = IdleClients
  /\ UNCHANGED <<pool, client, actor>>

TakeIdle ==
  /\ actor[Reaper].pc = "idle" /\ evicted = {} /\ IdleClients # {}
  /\ evicted' = IdleClients
  /\ pool' = [k \in Keys |-> IF pool[k].idle THEN NoEntry ELSE pool[k]]
  /\ UNCHANGED <<client, actor>>

ShutdownNext ==
  /\ actor[Reaper].pc = "idle"
  /\ \E c \in evicted :
       /\ evicted' = evicted \ {c}
       /\ actor' = [actor EXCEPT ![Reaper] = Busy("shutdown", None, c, 1)]
  /\ UNCHANGED <<pool, client>>

\* The notification `exit`, then kill and wait.
Kill ==
  /\ actor[Reaper].pc = "kill"
  /\ actor' = [actor EXCEPT ![Reaper] = AtRest]
  /\ UNCHANGED <<pool, evicted>>
  /\ DropUnheld([client EXCEPT ![actor[Reaper].client].proc = "exited"])

-----------------------------------------------------------------------------
(* The reader task *)

\* Whether a waits on the sender it has put into pending of client c.
Waits(a, c) == /\ actor[a].client = c /\ a \in client[c].pending
               /\ actor[a].pc \in {"write", "await"}

\* The sender is taken out of pending and resolves its caller.
Dispatch(c, a, reply) ==
  /\ client[c].reader = "reading"
  /\ Waits(a, c)
  /\ actor' = [actor EXCEPT ![a].reply = reply]
  /\ client' = [client EXCEPT ![c].pending = @ \ {a}]
  /\ UNCHANGED <<pool, evicted>>

\* A response to a request that has been written.  The server may have exited
\* since it wrote it.  A response after the timeout finds nobody in pending.
Respond(c, a) ==
  /\ actor[a].pc = "await"
  /\ \E reply \in {"result", "error"} : Dispatch(c, a, reply)

\* A request of the server whose id is that of an open request.
ServerRequest(c, a) ==
  /\ client[c].proc = "running"
  /\ Dispatch(c, a, "foreign")

\* End of stream, or a frame that cannot be read: alive is cleared.
ReaderEnds(c) ==
  /\ client[c].reader = "reading" /\ client[c].proc = "exited"
  /\ client' = [client EXCEPT ![c].reader = "eof"]
  /\ UNCHANGED <<pool, actor, evicted>>

Garble(c) ==
  /\ client[c].reader = "reading" /\ client[c].proc = "running"
  /\ client' = [client EXCEPT ![c].reader = "garbled"]
  /\ UNCHANGED <<pool, actor, evicted>>

Ended(r) == IF r = "eof" THEN "done" ELSE "broken"

\* Mutant: the reader ends without clearing pending.
DrainNothing(c) ==
  /\ client[c].reader \in {"eof", "garbled"}
  /\ client' = [client EXCEPT ![c].reader = Ended(@)]
  /\ UNCHANGED <<pool, actor, evicted>>

\* Then the senders in pending are dropped, which cancels their callers.
DrainPending(c) ==
  /\ client[c].reader \in {"eof", "garbled"}
  /\ actor' = [a \in Actors |-> IF Waits(a, c)
                                THEN [actor[a] EXCEPT !.reply = "cancelled"]
                                ELSE actor[a]]
  /\ client' = [client EXCEPT ![c].pending = {}, ![c].reader = Ended(@)]
  /\ UNCHANGED <<pool, evicted>>

ServerExits(c) ==
  /\ client[c].proc = "running"
  /\ client' = [client EXCEPT ![c].proc = "exited"]
  /\ UNCHANGED <<pool, actor, evicted>>

-----------------------------------------------------------------------------

Init ==
  /\ pool = [k \in Keys |-> NoEntry]
  /\ client = [c \in Slots |-> Gone]
  /\ actor = [a \in Actors |-> AtRest]
  /\ evicted = {}

\* The steps an actor takes on its own, once it has begun.
ActorStep(a) ==
  \/ SpawnFails(a) \/ Spawn(a) \/ Initialized(a) \/ Insert(a)
  \/ Submit(a) \/ Write(a) \/ WriteError(a) \/ Receive(a)
  \/ RequestTimeout(a) \/ ToolReturns(a)

ReaperStep == TakeIdle \/ ShutdownNext \/ Kill \/ ActorStep(Reaper)

ReaderStep(c) == ReaderEnds(c) \/ DrainPending(c)

ServerStep(c) ==
  \/ \E a \in Actors : Respond(c, a) \/ ServerRequest(c, a)
  \/ Garble(c) \/ ServerExits(c)

Next ==
  \/ \E a \in Calls : ActorStep(a)
                      \/ \E k \in Keys : GetCached(a, k) \/ GetMissing(a, k)
  \/ ReaperStep
  \/ \E k \in Keys : GoesIdle(k)
  \/ \E c \in Slots : ReaderStep(c) \/ ServerStep(c)

Spec == Init /\ [][Next]_vars

(* tokio polls ready tasks and fires due timers.  Nothing is assumed of    *)
(* the servers, of new tool calls or of the passing of time.               *)
Fairness ==
  /\ \A a \in Calls : WF_vars(ActorStep(a))
  /\ WF_vars(ReaperStep)
  /\ \A c \in Slots : WF_vars(ReaderStep(c))

FairSpec == Spec /\ Fairness

-----------------------------------------------------------------------------
(* Properties *)

Entries == [client : Slots, idle : BOOLEAN] \cup {NoEntry}
Lefts   == 0..(MaxRequests + 1)
Clients == [proc : {"running", "exited"},
            reader : {"reading", "eof", "garbled", "done", "broken"},
            pending : SUBSET Actors]
States  == [pc : {"idle", "spawn", "submit", "write", "await", "initialized",
                  "insert", "kill"},
            task : {"none", "initialize", "tool", "shutdown"},
            key : Keys \cup {None}, client : Slots \cup {None},
            left : Lefts,
            reply : {"none", "result", "error", "foreign", "cancelled"}]

\* The variables stay in their domains, an actor has a client exactly while
\* it has a task, and nothing is left of a client that nobody holds.
TypeOK ==
  /\ pool \in [Keys -> Entries]
  /\ client \in [Slots -> Clients]
  /\ actor \in [Actors -> States]
  /\ evicted \in SUBSET Slots
  /\ \A a \in Actors :
       /\ actor[a].pc = "idle" => actor[a] = AtRest
       /\ actor[a].client = None <=> actor[a].pc \in {"idle", "spawn"}
       /\ actor[a].task = "none" <=> actor[a].pc \in {"idle", "spawn"}
  /\ \A c \in Slots \ Held : client[c] = Gone

(* Once the process has ended and the reader has drained pending, nobody   *)
(* waits for a response (client.rs:316-320): a request registered after    *)
(* that fails as it is written.                                            *)
NoWaitOnDead ==
  \A a \in Actors :
    actor[a].pc = "await" /\ client[actor[a].client].reader = "done" =>
      actor[a].reply # "none"

(* A client the reaper has taken is never handed out again: no later call  *)
(* is cut off by its shutdown (pool.rs, take_idle).                        *)
EvictedIsForgotten == Cached \cap (evicted \cup {actor[Reaper].client}) = {}

(* With no call in progress every running server is in the pool, so each   *)
(* workspace has at most one, or is about to be shut down.  Two calls may  *)
(* spawn a server for one workspace: the one that loses must end.          *)
NoStrayServer ==
  (\A a \in Calls : actor[a].pc = "idle") =>
    {c \in Slots : client[c].proc = "running"}
      \subseteq Cached \cup evicted \cup {actor[Reaper].client}

(* Every tool call returns, whatever the servers do.                       *)
CallReturns == \A a \in Calls : actor[a].pc # "idle" ~> actor[a].pc = "idle"

(* The server of an evicted client ends, also when it does not answer.     *)
EvictedServerEnds ==
  \A c \in Slots : c \in evicted ~> client[c].proc = "exited"
=============================================================================
