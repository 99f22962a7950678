---------------------------- MODULE DapSessions ----------------------------
(***************************************************************************)
(* The debug sessions of the tool server: the map from names to clients,   *)
(* and the tool calls that fill, read and empty it (dap_launch, the tools  *)
(* on a session, dap_terminate).  What happens inside one session is       *)
(* DapClient's.  A client is named by the call that launched it; its       *)
(* adapter runs until the client disconnects, its last holder drops it, or *)
(* it exits by itself.                                                     *)
(***************************************************************************)
EXTENDS Naturals, Common

CONSTANTS
  Launches,   \* dap_launch calls, and the clients they spawn
  Users,      \* calls of the other tools
  Enders,     \* dap_terminate calls
  Names       \* session names

ASSUME SessionsAssumption ==
  /\ None \notin Launches \cup Enders \cup Names
  /\ Launches \cap (Users \cup Enders) = {} /\ Users \cap Enders = {}

VARIABLES
  sessions,   \* dap_sessions
  holder,     \* who holds its lock across an await: a dap_terminate, or None
  adapter,    \* per client: its adapter "runs", "exited" by itself or was "ended"
  tool        \* what each call is doing, on which name, with which client

sessionsVars == <<sessions, holder, adapter, tool>>

ToolCalls == Launches \cup Users \cup Enders
Idle == [pc |-> "new", name |-> None, client |-> None]
Doing(c, pc) == tool[c].pc = pc
Stored == {sessions[n] : n \in Names} \ {None}

\* The clients in the map and those that calls hold.
Reached(ss, tt) == {ss[n] : n \in Names} \cup {tt[c].client : c \in ToolCalls}

\* A client that nobody can reach has been dropped: kill_on_drop ends its adapter.
DropClients(ss, tt) ==
  [k \in Launches |-> IF adapter[k] = "runs" /\ k \notin Reached(ss, tt) THEN "ended" ELSE adapter[k]]

SessionsInit ==
  /\ sessions = [n \in Names |-> None]
  /\ holder = None
  /\ adapter = [k \in Launches |-> "none"]
  /\ tool = [c \in ToolCalls |-> Idle]

\* A call arrives and asks for the lock.
StartTool(c) ==
  /\ Doing(c, "new")
  /\ \E n \in Names : tool' = [tool EXCEPT ![c].pc = "lock", ![c].name = n]
  /\ UNCHANGED <<sessions, holder, adapter>>

\* It gets the lock.
Enters(c) == Doing(c, "lock") /\ holder = None

\* The client that has the name, or None.
Found(c) == sessions[tool[c].name]

-----------------------------------------------------------------------------
(* dap_launch *)

\* The name is free.  The lock is not kept.
CheckName(c) ==
  /\ c \in Launches /\ Enters(c)
  /\ tool' = [tool EXCEPT ![c].pc = IF Found(c) = None THEN "spawn" ELSE "done"]
  /\ UNCHANGED <<sessions, holder, adapter>>

SpawnAdapter(c) ==
  /\ Doing(c, "spawn")
  /\ \/ /\ tool' = [tool EXCEPT ![c].pc = "launch", ![c].client = c]
        /\ adapter' = [adapter EXCEPT ![c] = "runs"]
     \/ /\ tool' = [tool EXCEPT ![c].pc = "done"]
        /\ UNCHANGED adapter
  /\ UNCHANGED <<sessions, holder>>

\* initialize, launch, configurationDone, the first stop: all of it succeeds, or
\* one of them fails and the client disconnects.  An adapter that has exited
\* reports no stop.
LaunchDance(c) ==
  /\ Doing(c, "launch")
  /\ \E pc \in {"insert", "disconnect"} :
       /\ pc = "insert" => adapter[c] = "runs"
       /\ tool' = [tool EXCEPT ![c].pc = pc]
  /\ UNCHANGED <<sessions, holder, adapter>>

\* The entry is replaced whatever is there.
InsertSession(c) ==
  /\ Doing(c, "insert") /\ holder = None
  /\ sessions' = [sessions EXCEPT ![tool[c].name] = c]
  /\ tool' = [tool EXCEPT ![c].pc = "done", ![c].client = None]
  /\ adapter' = DropClients(sessions', tool')
  /\ UNCHANGED holder

\* Mutant: the lock is not released.
DisconnectKeepsLock(c) ==
  /\ Doing(c, "disconnect")
  /\ adapter' = [adapter EXCEPT ![tool[c].client] = "ended"]
  /\ tool' = [tool EXCEPT ![c].pc = "done", ![c].client = None]
  /\ UNCHANGED <<sessions, holder>>

\* The request, two seconds at most for the adapter to exit, the kill.
Disconnect(c) ==
  /\ Doing(c, "disconnect")
  /\ adapter' = [adapter EXCEPT ![tool[c].client] = "ended"]
  /\ tool' = [tool EXCEPT ![c].pc = "done", ![c].client = None]
  /\ holder' = IF holder = c THEN None ELSE holder
  /\ UNCHANGED sessions

-----------------------------------------------------------------------------
(* dap_client and the tools that use it; dap_terminate *)

Lookup(c) ==
  /\ c \in Users /\ Enters(c)
  /\ tool' = [tool EXCEPT ![c].pc = IF Found(c) = None THEN "done" ELSE "use", ![c].client = Found(c)]
  /\ UNCHANGED <<sessions, holder, adapter>>

\* An answer, or the error of a client whose adapter has exited: the session stays.
UseClient(c) ==
  /\ Doing(c, "use")
  /\ tool' = [tool EXCEPT ![c].pc = "done", ![c].client = None]
  /\ adapter' = DropClients(sessions, tool')
  /\ UNCHANGED <<sessions, holder>>

\* Mutant: the lock is released before the client disconnects, and the entry
\* stays until then.
RemoveLater(c) ==
  /\ c \in Enders /\ Enters(c)
  /\ tool' = [tool EXCEPT ![c].pc = IF Found(c) = None THEN "done" ELSE "disconnect", ![c].client = Found(c)]
  /\ UNCHANGED <<sessions, holder, adapter>>

\* The entry goes first; the lock is kept through the disconnect.
RemoveSession(c) ==
  /\ c \in Enders /\ Enters(c)
  /\ sessions' = [sessions EXCEPT ![tool[c].name] = None]
  /\ holder' = IF Found(c) = None THEN None ELSE c
  /\ tool' = [tool EXCEPT ![c].pc = IF Found(c) = None THEN "done" ELSE "disconnect", ![c].client = Found(c)]
  /\ UNCHANGED adapter

-----------------------------------------------------------------------------
\* The adapter of a client exits by itself: the debuggee is done, or it crashes.
\* Nobody tells the map.
AdapterExits(k) ==
  /\ adapter[k] = "runs"
  /\ adapter' = [adapter EXCEPT ![k] = "exited"]
  /\ UNCHANGED <<sessions, holder, tool>>

ToolStep(c) ==
  \/ CheckName(c) \/ Lookup(c) \/ RemoveSession(c)
  \/ SpawnAdapter(c) \/ LaunchDance(c) \/ InsertSession(c) \/ Disconnect(c) \/ UseClient(c)

SessionsNext ==
  \/ \E c \in ToolCalls : StartTool(c) \/ ToolStep(c)
  \/ \E k \in Launches : AdapterExits(k)

\* tokio's mutex is granted in the order of the requests: whoever waits for it, at
\* the entry or to insert, gets it.
SessionsFairness == \A c \in ToolCalls : SF_sessionsVars(ToolStep(c))

-----------------------------------------------------------------------------
(* Properties *)

SessionsTypeOK ==
  /\ sessions \in [Names -> Launches \cup {None}]
  /\ holder \in Enders \cup {None}
  /\ adapter \in [Launches -> {"none", "runs", "exited", "ended"}]
  /\ tool \in [ToolCalls -> [pc : {"new", "lock", "spawn", "launch", "insert", "disconnect", "use", "done"},
                             name : Names \cup {None}, client : Launches \cup {None}]]

\* The map and the adapters agree, also when two launches of one name both pass the
\* check and the second displaces the first: the adapter of a client in the map runs
\* or has exited by itself (then the name stays taken), but nobody has ended it and no
\* dap_terminate is about to; and a running adapter is in the map or in the hands of a
\* call in progress.
SessionsMatchAdapters ==
  /\ \A k \in Stored : adapter[k] \in {"runs", "exited"} /\ \A c \in Enders : tool[c].client # k
  /\ \A k \in Launches : adapter[k] = "runs" => k \in Reached(sessions, tool)

\* Every call that has asked for the lock of the map gets past it, at the entry and at
\* the insertion, although dap_terminate holds it through a disconnect.
ToolReturns == \A c \in ToolCalls : tool[c].pc # "new" ~> tool[c].pc = "done"
=============================================================================
