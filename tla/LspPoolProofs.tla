--------------------------- MODULE LspPoolProofs ---------------------------
(***************************************************************************)
(* What holds of LspPool for any number of workspaces, tool calls and      *)
(* clients: type correctness, with the fact that nothing is left of a      *)
(* client nobody holds, and the safety properties of the TLC runs.         *)
(***************************************************************************)
EXTENDS LspPool, TLAPS

USE LspAssumption

LEMMA LeftValues ==
  /\ 0 \in Lefts /\ 1 \in Lefts /\ MaxRequests \in Lefts
  /\ \A n \in Lefts : n > 0 => n - 1 \in Lefts
BY DEF Lefts

\* What actors and clients are made of.
LEMMA BusyType ==
  ASSUME NEW task \in {"initialize", "tool", "shutdown"}, NEW k \in Keys \cup {None},
         NEW c \in Slots, NEW n \in {1, MaxRequests}
  PROVE  /\ Busy(task, k, c, n) \in States
         /\ Busy(task, k, c, n).pc = "submit" /\ Busy(task, k, c, n).client = c
         /\ Busy(task, k, c, n).task = task /\ Busy(task, k, c, n).reply = "none"
<1>1. n \in Lefts
  BY LeftValues
<1>2. task \in {"none", "initialize", "tool", "shutdown"} /\ c \in Slots \cup {None}
  OBVIOUS
<1> QED
  BY <1>1, <1>2 DEF Busy, AtRest, States

LEMMA RestTypes == AtRest \in States /\ Gone \in Clients /\ Young \in Clients
<1>1. AtRest \in States
  BY LeftValues DEF AtRest, States
<1>2. Gone \in Clients /\ Young \in Clients
  BY DEF Gone, Young, Clients
<1> QED
  BY <1>1, <1>2

\* Where a step leaves every handle in place, the clients held are the same.
LEMMA SameHeld ==
  ASSUME pool' = pool, evicted' = evicted,
         \A a \in Actors : actor'[a].client = actor[a].client
  PROVE  Held' = Held
BY DEF Held, Cached

\* DropUnheld leaves clients in their domain and nothing of those unheld.
LEMMA DropTypes ==
  ASSUME NEW cs \in [Slots -> Clients], DropUnheld(cs)
  PROVE  /\ client' \in [Slots -> Clients]
         /\ \A c \in Slots : client'[c] = IF c \in Held' THEN cs[c] ELSE Gone
         /\ \A c \in Slots \ Held' : client'[c] = Gone
BY DEF DropUnheld, Gone, Clients

LEMMA LeaveType ==
  ASSUME TypeOK, NEW a \in Actors, Leave(a)
  PROVE  TypeOK'
<1>1. client' \in [Slots -> Clients] /\ \A c \in Slots \ Held' : client'[c] = Gone
  BY DropTypes DEF Leave, TypeOK
<1>2. AtRest \in States
  BY RestTypes
<1>3. actor' \in [Actors -> States] /\ \A b \in Actors :
         actor'[b] = IF b = a THEN AtRest ELSE actor[b]
  BY <1>2 DEF Leave, TypeOK
<1> QED
  BY <1>1, <1>3 DEF Leave, TypeOK, AtRest

\* An actor moves on with its client.
LEMMA StepType ==
  ASSUME TypeOK, NEW a \in Actors, actor[a].client # None,
         NEW s \in States, s.client = actor[a].client, s.task = actor[a].task,
         s.pc \notin {"idle", "spawn"},
         actor' = [actor EXCEPT ![a] = s],
         UNCHANGED <<pool, evicted>>,
         client' \in [Slots -> Clients],
         \A c \in Slots : c # actor[a].client => client'[c] = client[c]
  PROVE  TypeOK' /\ Held' = Held
<1>1. \A b \in Actors : actor'[b] = IF b = a THEN s ELSE actor[b]
  BY DEF TypeOK
<1>2. Held' = Held
  BY <1>1, SameHeld
<1>3. actor[a].client \in Held
  BY DEF Held
<1> QED
  BY <1>1, <1>2, <1>3 DEF TypeOK

-----------------------------------------------------------------------------
(* Type correctness, action by action *)

\* get_or_spawn.
LEMMA GetType ==
  ASSUME TypeOK, NEW a \in Calls, NEW k \in Keys, GetCached(a, k) \/ GetMissing(a, k)
  PROVE  TypeOK'
<1>1. CASE GetCached(a, k)
  <2> DEFINE s == Busy("tool", k, pool[k].client, MaxRequests)
  <2>1. /\ s \in States /\ s.client = pool[k].client
        /\ s.pc = "submit" /\ s.task # "none"
    <3>1. pool[k].client \in Slots
      BY <1>1 DEF GetCached, TypeOK, IsAlive, Entries, NoEntry
    <3> QED
      BY <3>1, BusyType
  <2>2. \A b \in Actors : actor'[b] = IF b = a THEN s ELSE actor[b]
    BY <1>1 DEF GetCached, TypeOK, Actors
  <2>3. \A j \in Keys : pool'[j].client = pool[j].client
    BY <1>1 DEF GetCached, TypeOK, Entries, NoEntry
  <2>4. pool' \in [Keys -> Entries]
    <3>1. pool[k] \in [client : Slots, idle : BOOLEAN]
      BY <1>1 DEF GetCached, TypeOK, Entries, NoEntry, IsAlive
    <3>2. [pool[k] EXCEPT !.idle = FALSE] \in Entries
      BY <3>1 DEF Entries
    <3> QED
      BY <1>1, <3>2 DEF GetCached, TypeOK
  <2>5. Held \subseteq Held'
    <3>1. actor[a].client = None
      BY <1>1 DEF GetCached, TypeOK, AtRest, Actors
    <3> QED
      BY <1>1, <2>2, <2>3, <3>1 DEF GetCached, Held, Cached
  <2>6. s.client # None
    BY <1>1, <2>1 DEF GetCached, IsAlive
  <2>7. actor' \in [Actors -> States]
    BY <1>1, <2>1 DEF GetCached, TypeOK
  <2> QED
    BY <1>1, <2>1, <2>2, <2>4, <2>5, <2>6, <2>7 DEF GetCached, TypeOK
<1>2. CASE GetMissing(a, k)
  <2> DEFINE s == [AtRest EXCEPT !.pc = "spawn", !.key = k]
  <2>1. s \in States /\ s.pc = "spawn" /\ s.client = None /\ s.task = "none"
    BY LeftValues DEF AtRest, States
  <2>2. \A b \in Actors : actor'[b] = IF b = a THEN s ELSE actor[b]
    BY <1>2 DEF GetMissing, TypeOK, Actors
  <2>3. actor' \in [Actors -> States]
    BY <1>2, <2>1 DEF GetMissing, TypeOK
  <2>4. pool' \in [Keys -> Entries]
    BY <1>2 DEF GetMissing, TypeOK, Entries
  <2>5. client' \in [Slots -> Clients] /\ \A c \in Slots \ Held' : client'[c] = Gone
    BY <1>2, DropTypes DEF GetMissing, TypeOK
  <2> QED
    BY <1>2, <2>1, <2>2, <2>3, <2>4, <2>5 DEF GetMissing, TypeOK
<1> QED
  BY <1>1, <1>2

LEMMA SpawnType ==
  ASSUME TypeOK, NEW a \in Actors, Spawn(a)
  PROVE  TypeOK'
<1>1. PICK c \in Slots \ Held :
         /\ client' = [client EXCEPT ![c] = Young]
         /\ actor' = [actor EXCEPT ![a] = Busy("initialize", actor[a].key, c, 1)]
  BY DEF Spawn
<1> DEFINE s == Busy("initialize", actor[a].key, c, 1)
<1>2. s \in States /\ s.client = c /\ s.pc = "submit" /\ s.task # "none" /\ c # None
  BY BusyType DEF TypeOK, States
<1>3. \A b \in Actors : actor'[b] = IF b = a THEN s ELSE actor[b]
  BY <1>1 DEF TypeOK
<1>4. client' \in [Slots -> Clients]
  BY <1>1 DEF TypeOK, Young, Gone, Clients
<1>5. \A d \in Slots \ Held' : client'[d] = Gone
  <2> SUFFICES ASSUME NEW d \in Slots, d \notin Held' PROVE client'[d] = Gone
    OBVIOUS
  <2>1. d # c
    BY <1>2, <1>3 DEF Held
  <2>2. actor[a].client = None
    BY DEF TypeOK, Spawn
  <2>3. d \notin Held
    BY <1>3, <2>2 DEF Held, Cached, Spawn
  <2> QED
    BY <1>1, <2>1, <2>3 DEF TypeOK
<1> QED
  BY <1>1, <1>2, <1>3, <1>4, <1>5 DEF TypeOK, Spawn

LEMMA InitializedType ==
  ASSUME TypeOK, NEW a \in Actors, Initialized(a)
  PROVE  TypeOK'
<1>1. CASE Leave(a)
  BY <1>1, LeaveType
<1>2. CASE Step(a, "insert")
  <2> DEFINE s == [actor[a] EXCEPT !.pc = "insert"]
  <2>1. s \in States /\ s.client = actor[a].client /\ s.task = actor[a].task /\ s.pc = "insert"
    BY DEF TypeOK, States
  <2> QED
    BY <1>2, <2>1, StepType DEF Step, Initialized, TypeOK
<1> QED
  BY <1>1, <1>2 DEF Initialized

LEMMA InsertType ==
  ASSUME TypeOK, NEW a \in Actors, Insert(a)
  PROVE  TypeOK'
<1> DEFINE s == Busy("tool", actor[a].key, actor[a].client, MaxRequests)
<1>1. /\ s \in States /\ s.client = actor[a].client
      /\ s.pc = "submit" /\ s.task # "none"
  BY BusyType DEF TypeOK, States, Insert
<1>2. \A b \in Actors : actor'[b] = IF b = a THEN s ELSE actor[b]
  BY DEF Insert, TypeOK
<1>3. pool' \in [Keys -> Entries]
  <2>1. [client |-> actor[a].client, idle |-> FALSE]
          \in Entries
    BY DEF TypeOK, States, Insert, Entries
  <2> QED
    BY <2>1 DEF Insert, TypeOK
<1>4. client' \in [Slots -> Clients] /\ \A c \in Slots \ Held' : client'[c] = Gone
  BY DropTypes DEF Insert, TypeOK
<1>5. actor' \in [Actors -> States]
  BY <1>1 DEF Insert, TypeOK
<1>6. evicted' = evicted /\ actor[a].client # None
  BY DEF Insert, TypeOK
<1> QED
  BY <1>1, <1>2, <1>3, <1>4, <1>5, <1>6 DEF TypeOK

\* request: the steps in which the caller keeps its client.
LEMMA SubmitType ==
  ASSUME TypeOK, NEW a \in Actors, Submit(a)
  PROVE  TypeOK' /\ Held' = Held
<1> DEFINE s == [actor[a] EXCEPT !.pc = "write", !.left = @ - 1]
<1>1. actor[a].client # None /\ actor[a] \in States
  BY DEF Submit, TypeOK
<1>2. s \in States /\ s.client = actor[a].client /\ s.task = actor[a].task /\ s.pc = "write"
  BY <1>1, LeftValues DEF States, Submit
<1>3. client' \in [Slots -> Clients]
  BY <1>1 DEF Submit, TypeOK, Clients
<1>4. \A c \in Slots : c # actor[a].client => client'[c] = client[c]
  BY DEF Submit, TypeOK
<1>5. actor' = [actor EXCEPT ![a] = s]
  BY DEF Submit, TypeOK
<1> QED
  BY <1>1, <1>2, <1>3, <1>4, <1>5, StepType DEF Submit

LEMMA WriteType ==
  ASSUME TypeOK, NEW a \in Actors, Write(a)
  PROVE  TypeOK'
<1> DEFINE s == [actor[a] EXCEPT !.pc = "await"]
<1>1. s \in States /\ s.client = actor[a].client /\ s.task = actor[a].task /\ s.pc = "await"
  BY DEF TypeOK, States
<1> QED
  BY <1>1, StepType DEF Write, Step, TypeOK

LEMMA FailType ==
  ASSUME TypeOK, NEW a \in Actors, actor[a].client # None, Fail(a)
  PROVE  TypeOK'
<1>1. CASE Leave(a)
  BY <1>1, LeaveType
<1>2. CASE ~Leave(a)
  <2> DEFINE s == [actor[a] EXCEPT !.pc = "kill", !.reply = "none"]
  <2>1. s \in States /\ s.client = actor[a].client /\ s.task = actor[a].task /\ s.pc = "kill"
    BY DEF TypeOK, States
  <2>2. actor' = [actor EXCEPT ![a] = s] /\ UNCHANGED <<pool, client, evicted>>
    BY <1>2 DEF Fail
  <2> QED
    BY <2>1, <2>2, StepType DEF TypeOK
<1> QED
  BY <1>1, <1>2

LEMMA ReceiveType ==
  ASSUME TypeOK, NEW a \in Actors, Receive(a)
  PROVE  TypeOK'
<1>1. actor[a].client # None
  BY DEF Receive, TypeOK
<1>2. CASE Fail(a)
  BY <1>1, <1>2, FailType
<1>3. CASE ~Fail(a)
  <2> DEFINE s == [actor[a] EXCEPT !.pc = AfterReply(actor[a].task),
                                   !.reply = "none"]
  <2>1. actor[a].task # "none"
    BY DEF Receive, TypeOK
  <2>2. AfterReply(actor[a].task) \in {"initialized", "submit", "kill"}
    BY <2>1 DEF AfterReply, TypeOK, States
  <2>3. s \in States /\ s.client = actor[a].client /\ s.task = actor[a].task /\ s.pc \notin {"idle", "spawn"}
    BY <2>2 DEF TypeOK, States
  <2>4. actor' = [actor EXCEPT ![a] = s] /\ UNCHANGED <<pool, client, evicted>>
    BY <1>3 DEF Receive
  <2> QED
    BY <1>1, <2>3, <2>4, StepType DEF TypeOK
<1> QED
  BY <1>2, <1>3

LEMMA TimeoutType ==
  ASSUME TypeOK, NEW a \in Actors, RequestTimeout(a)
  PROVE  TypeOK'
<1> DEFINE cs == [client EXCEPT ![actor[a].client].pending = @ \ {a}]
<1>1. cs \in [Slots -> Clients] /\ actor[a].client # None
  <2>1. actor[a].client \in Slots
    BY DEF RequestTimeout, TypeOK, States
  <2>2. client[actor[a].client] \in Clients
    BY <2>1 DEF TypeOK
  <2>3. [client[actor[a].client] EXCEPT !.pending = @ \ {a}] \in Clients
    BY <2>2 DEF Clients
  <2> QED
    BY <2>1, <2>3 DEF TypeOK
<1>2. CASE actor[a].task = "shutdown"
  <2> DEFINE s == [actor[a] EXCEPT !.pc = "kill"]
  <2>1. s \in States /\ s.client = actor[a].client /\ s.task = actor[a].task /\ s.pc = "kill"
    BY DEF TypeOK, States
  <2>2. client' = cs /\ actor' = [actor EXCEPT ![a] = s] /\ UNCHANGED <<pool, evicted>>
    BY <1>2 DEF RequestTimeout
  <2>3. \A c \in Slots : c # actor[a].client => client'[c] = client[c]
    BY <2>2 DEF TypeOK
  <2> QED
    BY <1>1, <2>1, <2>2, <2>3, StepType
<1>3. CASE actor[a].task # "shutdown"
  <2>1. /\ actor' = [actor EXCEPT ![a] = AtRest]
        /\ UNCHANGED <<pool, evicted>> /\ DropUnheld(cs)
    BY <1>3 DEF RequestTimeout
  <2>2. client' \in [Slots -> Clients] /\ \A c \in Slots \ Held' : client'[c] = Gone
    BY <1>1, <2>1, DropTypes
  <2>3. AtRest \in States
    BY RestTypes
  <2>4. actor' \in [Actors -> States] /\ \A b \in Actors :
           actor'[b] = IF b = a THEN AtRest ELSE actor[b]
    BY <2>1, <2>3 DEF TypeOK
  <2> QED
    BY <2>1, <2>2, <2>4 DEF TypeOK, AtRest
<1> QED
  BY <1>2, <1>3

\* The reaper.
LEMMA ReaperType ==
  ASSUME TypeOK, TakeIdle \/ ShutdownNext \/ Kill
  PROVE  TypeOK'
<1>0. Reaper \in Actors
  BY DEF Actors
<1>1. CASE TakeIdle
  <2>1. pool' \in [Keys -> Entries]
    BY <1>1 DEF TakeIdle, TypeOK, Entries
  <2>2. evicted' = IdleClients /\ actor' = actor /\ client' = client
    BY <1>1 DEF TakeIdle
  <2>3. IdleClients \subseteq Slots
    BY DEF TypeOK, Entries, NoEntry, IdleClients
  <2>4. Held \subseteq Held'
    <3> SUFFICES ASSUME NEW c \in Held PROVE c \in Held'
      OBVIOUS
    <3>1. CASE c \in Cached
      BY <1>1, <2>2, <3>1 DEF TakeIdle, Held, Cached, IdleClients
    <3>2. CASE c \in evicted
      BY <1>1, <3>2 DEF TakeIdle
    <3> QED
      BY <2>2, <3>1, <3>2 DEF Held
  <2> QED
    BY <2>1, <2>2, <2>3, <2>4 DEF TypeOK
<1>2. CASE ShutdownNext
  <2>1. PICK c \in evicted :
           /\ evicted' = evicted \ {c}
           /\ actor' = [actor EXCEPT ![Reaper] = Busy("shutdown", None, c, 1)]
    BY <1>2 DEF ShutdownNext
  <2> DEFINE s == Busy("shutdown", None, c, 1)
  <2>2. s \in States /\ s.client = c /\ s.pc = "submit" /\ s.task # "none" /\ c # None
    <3>1. c \in Slots /\ c # None
      BY DEF TypeOK
    <3> QED
      BY <3>1, BusyType
  <2>3. \A b \in Actors : actor'[b] = IF b = Reaper THEN s ELSE actor[b]
    BY <1>0, <2>1 DEF TypeOK
  <2>4. actor[Reaper].client = None
    BY <1>0, <1>2 DEF ShutdownNext, TypeOK
  <2>5. Held \subseteq Held'
    BY <1>0, <1>2, <2>1, <2>2, <2>3, <2>4 DEF ShutdownNext, Held, Cached
  <2>6. actor' \in [Actors -> States]
    BY <2>1, <2>2 DEF TypeOK
  <2> QED
    BY <1>2, <2>1, <2>2, <2>3, <2>5, <2>6 DEF ShutdownNext, TypeOK
<1>3. CASE Kill
  <2> DEFINE cs == [client EXCEPT ![actor[Reaper].client].proc = "exited"]
  <2>1. cs \in [Slots -> Clients]
    BY DEF TypeOK, Clients
  <2>2. client' \in [Slots -> Clients] /\ \A c \in Slots \ Held' : client'[c] = Gone
    BY <1>3, <2>1, DropTypes DEF Kill
  <2>3. AtRest \in States
    BY RestTypes
  <2>4. actor' \in [Actors -> States] /\ \A b \in Actors :
           actor'[b] = IF b = Reaper THEN AtRest ELSE actor[b]
    BY <1>3, <2>3 DEF Kill, TypeOK
  <2> QED
    BY <1>3, <2>2, <2>4 DEF Kill, TypeOK, AtRest
<1> QED
  BY <1>1, <1>2, <1>3

\* GoesIdle, the reader task and the server.
LEMMA ElseType ==
  ASSUME TypeOK,
         \/ \E k \in Keys : GoesIdle(k)
         \/ \E c \in Slots : ReaderStep(c) \/ ServerStep(c)
  PROVE  TypeOK'
<1>1. ASSUME NEW k \in Keys, GoesIdle(k) PROVE TypeOK'
  <2>1. pool[k] \in [client : Slots, idle : BOOLEAN]
    BY <1>1 DEF GoesIdle, TypeOK, Entries, NoEntry
  <2>2. [pool[k] EXCEPT !.idle = TRUE] \in Entries
    BY <2>1 DEF Entries
  <2>3. pool' \in [Keys -> Entries]
    BY <1>1, <2>2 DEF GoesIdle, TypeOK
  <2>4. \A j \in Keys : pool'[j].client = pool[j].client
    BY <1>1, <2>1 DEF GoesIdle, TypeOK
  <2>5. Held' = Held
    BY <1>1, <2>4 DEF GoesIdle, Held, Cached
  <2> QED
    BY <1>1, <2>3, <2>5 DEF GoesIdle, TypeOK
<1>2. ASSUME NEW c \in Slots, NEW d \in Clients, client[c] # Gone,
             client' = [client EXCEPT ![c] = d],
             NEW r \in {"result", "error", "foreign", "cancelled"},
             NEW S \in SUBSET Actors, \A a \in S : actor[a].pc # "idle",
             actor' = [a \in Actors |-> IF a \in S THEN [actor[a] EXCEPT !.reply = r]
                                                 ELSE actor[a]],
             UNCHANGED <<pool, evicted>>
      PROVE  TypeOK'
  <2>1. client' \in [Slots -> Clients] /\ \A e \in Slots : e # c => client'[e] = client[e]
    BY <1>2 DEF TypeOK
  <2>2. \A a \in Actors : [actor[a] EXCEPT !.reply = r] \in States
    BY DEF TypeOK, States
  <2>3. actor' \in [Actors -> States]
    BY <1>2, <2>2 DEF TypeOK
  <2>4. \A a \in Actors : /\ actor'[a].client = actor[a].client
                          /\ actor'[a].pc = actor[a].pc /\ actor'[a].task = actor[a].task
                          /\ a \notin S => actor'[a] = actor[a]
    BY <1>2 DEF TypeOK, States
  <2>5. Held' = Held
    BY <1>2, <2>4, SameHeld
  <2>6. c \in Held
    BY <1>2 DEF TypeOK
  <2> QED
    BY <1>2, <2>1, <2>3, <2>4, <2>5, <2>6 DEF TypeOK
<1>3. ASSUME NEW c \in Slots, NEW d \in Clients, client[c] # Gone,
             client' = [client EXCEPT ![c] = d], UNCHANGED <<pool, actor, evicted>>
      PROVE  TypeOK'
  BY <1>3, SameHeld DEF TypeOK
<1>4. ASSUME NEW c \in Slots, ReaderEnds(c) \/ Garble(c) \/ ServerExits(c) PROVE TypeOK'
  <2>1. client[c] # Gone
    BY <1>4 DEF ReaderEnds, Garble, ServerExits, Gone
  <2>2. PICK d \in Clients : client' = [client EXCEPT ![c] = d]
    <3>1. client[c] \in Clients
      BY DEF TypeOK
    <3>2. /\ [client[c] EXCEPT !.reader = "eof"] \in Clients
          /\ [client[c] EXCEPT !.reader = "garbled"] \in Clients
          /\ [client[c] EXCEPT !.proc = "exited"] \in Clients
      BY <3>1 DEF Clients
    <3> QED
      BY <1>4, <3>2 DEF ReaderEnds, Garble, ServerExits
  <2> QED
    BY <1>3, <1>4, <2>1, <2>2 DEF ReaderEnds, Garble, ServerExits
<1>5. ASSUME NEW c \in Slots, DrainPending(c) PROVE TypeOK'
  <2> DEFINE d == [client[c] EXCEPT !.pending = {}, !.reader = Ended(@)]
             S == {a \in Actors : Waits(a, c)}
  <2>1. d \in Clients /\ client[c] # Gone
    BY <1>5 DEF DrainPending, TypeOK, Clients, Ended, Gone
  <2>2. client' = [client EXCEPT ![c] = d]
    BY <1>5 DEF DrainPending, TypeOK
  <2>3. actor' = [a \in Actors |-> IF a \in S THEN [actor[a] EXCEPT !.reply = "cancelled"]
                                            ELSE actor[a]]
    BY <1>5 DEF DrainPending
  <2>4. \A a \in S : actor[a].pc # "idle"
    BY DEF Waits
  <2> HIDE DEF d, S
  <2>5. S \in SUBSET Actors
    BY DEF S
  <2> QED
    BY <1>2, <1>5, <2>1, <2>2, <2>3, <2>4, <2>5 DEF DrainPending
<1>6. ASSUME NEW c \in Slots, NEW a \in Actors, NEW r \in {"result", "error", "foreign"},
             Dispatch(c, a, r)
      PROVE  TypeOK'
  <2> DEFINE d == [client[c] EXCEPT !.pending = @ \ {a}]
             S == {a}
  <2>1. d \in Clients /\ client[c] # Gone
    BY <1>6 DEF Dispatch, TypeOK, Clients, Gone
  <2>2. client' = [client EXCEPT ![c] = d]
    BY <1>6 DEF Dispatch, TypeOK
  <2>3. actor' = [b \in Actors |-> IF b \in S THEN [actor[b] EXCEPT !.reply = r]
                                            ELSE actor[b]]
    BY <1>6 DEF Dispatch, TypeOK
  <2>4. \A b \in S : actor[b].pc # "idle"
    BY <1>6 DEF Dispatch, Waits
  <2>5. S \in SUBSET Actors /\ UNCHANGED <<pool, evicted>>
    BY <1>6 DEF Dispatch
  <2> HIDE DEF d, S
  <2> QED
    BY <1>2, <2>5, <2>1, <2>2, <2>3, <2>4
<1> QED
  BY <1>1, <1>4, <1>5, <1>6 DEF ReaderStep, ServerStep, Respond, ServerRequest

LEMMA InitType == Init => TypeOK
BY RestTypes DEF Init, TypeOK, Entries, NoEntry, AtRest, Held, Cached

LEMMA ActorType ==
  ASSUME TypeOK, NEW a \in Actors, ActorStep(a)
  PROVE  TypeOK'
<1>1. CASE SpawnFails(a) \/ ToolReturns(a)
  BY <1>1, LeaveType DEF SpawnFails, ToolReturns
<1>2. CASE WriteError(a)
  <2>1. actor[a].client # None
    BY <1>2 DEF WriteError, TypeOK
  <2> QED
    BY <1>2, <2>1, FailType DEF WriteError
<1> QED
  BY <1>1, <1>2, SpawnType, InitializedType, InsertType, SubmitType, WriteType,
     ReceiveType, TimeoutType DEF ActorStep

LEMMA NextType == TypeOK /\ [Next]_vars => TypeOK'
<1> SUFFICES ASSUME TypeOK, [Next]_vars PROVE TypeOK'
  OBVIOUS
<1>1. CASE UNCHANGED vars
  BY <1>1 DEF vars, TypeOK, Held, Cached
<1>2. CASE Next
  <2>1. \A a \in Calls : a \in Actors /\ Reaper \in Actors
    BY DEF Actors
  <2>2. Reaper \in Actors
    BY DEF Actors
  <2> QED
    BY <1>2, <2>1, <2>2, ActorType, GetType, ReaperType, ElseType DEF Next, ReaperStep
<1> QED
  BY <1>1, <1>2

(* The variables of the pool, its clients and their callers stay in their  *)
(* domains, and nothing is left of a client that nobody holds.             *)
THEOREM TypeCorrect == Spec => []TypeOK
  BY InitType, NextType, PTL DEF Spec

(* With no call in progress every running server is in the pool or in the  *)
(* hands of the reaper (pool.rs, get_or_spawn; client.rs, kill_on_drop).   *)
THEOREM NoStrays == Spec => []NoStrayServer
<1>1. TypeOK => NoStrayServer
  <2> SUFFICES ASSUME TypeOK, \A a \in Calls : actor[a].pc = "idle",
                      NEW c \in Slots, client[c].proc = "running"
               PROVE  c \in Cached \cup evicted \cup {actor[Reaper].client}
    BY DEF NoStrayServer
  <2>1. c \in Held
    BY DEF TypeOK, Gone
  <2>2. \A a \in Calls : actor[a].client = None
    BY DEF TypeOK, AtRest, Actors
  <2> QED
    BY <2>1, <2>2 DEF Held, Actors
<1> QED
  BY <1>1, TypeCorrect, PTL

-----------------------------------------------------------------------------
(* Requests and the end of the reader task *)

(* NoWaitOnDead is not inductive: that the drain reaches every waiting     *)
(* caller needs its sender in pending until then, and that nobody begins   *)
(* to wait afterwards needs the process to have ended by then.             *)
WaitInv ==
  /\ \A a \in Actors :
       actor[a].pc \in {"write", "await"} /\ actor[a].reply = "none" =>
         /\ client[actor[a].client].reader \in {"reading", "eof", "garbled"} =>
              a \in client[actor[a].client].pending
         /\ actor[a].pc = "await" => client[actor[a].client].reader # "done"
  /\ \A c \in Slots : client[c].reader \in {"eof", "done"} => client[c].proc = "exited"

\* Steps in which callers stop waiting and clients are dropped.
LEMMA DropWait ==
  ASSUME TypeOK, TypeOK', WaitInv, NEW cs \in [Slots -> Clients],
         client' = cs \/ DropUnheld(cs),
         \A c \in Slots : /\ cs[c].reader = client[c].reader
                          /\ cs[c].proc \in {client[c].proc, "exited"},
         NEW a \in Actors, actor'[a].pc \notin {"write", "await"},
         \A c \in Slots : client[c].pending \ {a} \subseteq cs[c].pending,
         \A b \in Actors : b # a => actor'[b] = actor[b]
  PROVE  WaitInv'
<1>1. \A c \in Slots : client'[c] = cs[c] \/ (c \notin Held' /\ client'[c] = Gone)
  BY DropTypes
<1>2. \A c \in Slots : client'[c].reader \in {"eof", "done"} => client'[c].proc = "exited"
  BY <1>1 DEF WaitInv, Gone
<1>3. ASSUME NEW b \in Actors, actor'[b].pc \in {"write", "await"}, actor'[b].reply = "none"
      PROVE  /\ client'[actor[b].client].reader \in {"reading", "eof", "garbled"} =>
                   b \in client'[actor[b].client].pending
             /\ actor[b].pc = "await" => client'[actor[b].client].reader # "done"
             /\ actor'[b] = actor[b]
  <2>1. b # a /\ actor'[b] = actor[b]
    BY <1>3
  <2>2. actor[b].client \in Slots
    BY <1>3, <2>1 DEF TypeOK, States
  <2>3. actor'[b].client \in Held'
    BY <2>1, <2>2 DEF Held
  <2>4. client'[actor[b].client] = cs[actor[b].client]
    BY <1>1, <2>1, <2>2, <2>3
  <2> QED
    BY <1>3, <2>1, <2>2, <2>4 DEF WaitInv
<1> QED
  BY <1>2, <1>3 DEF WaitInv

LEMMA LeaveWait ==
  ASSUME TypeOK, TypeOK', WaitInv, NEW a \in Actors, Leave(a)
  PROVE  WaitInv'
<1>1. actor'[a].pc = "idle" /\ \A b \in Actors : b # a => actor'[b] = actor[b]
  BY DEF Leave, TypeOK, AtRest
<1>2. client \in [Slots -> Clients] /\ DropUnheld(client)
  BY DEF Leave, TypeOK
<1> QED
  BY <1>1, <1>2, DropWait

LEMMA FailWait ==
  ASSUME TypeOK, TypeOK', WaitInv, NEW a \in Actors, Fail(a)
  PROVE  WaitInv'
<1>1. CASE Leave(a)
  BY <1>1, LeaveWait
<1>2. CASE ~Leave(a)
  <2>1. actor'[a].pc = "kill" /\ \A b \in Actors : b # a => actor'[b] = actor[b]
    BY <1>2 DEF Fail, TypeOK, States
  <2>2. client' = client /\ client \in [Slots -> Clients]
    BY <1>2 DEF Fail, TypeOK
  <2> QED
    BY <2>1, <2>2, DropWait
<1> QED
  BY <1>1, <1>2

LEMMA ActorWait ==
  ASSUME TypeOK, TypeOK', WaitInv, NEW a \in Actors, ActorStep(a)
  PROVE  WaitInv'
<1>0. client \in [Slots -> Clients]
  BY DEF TypeOK
<1>1. CASE SpawnFails(a) \/ ToolReturns(a)
  BY <1>1, LeaveWait DEF SpawnFails, ToolReturns
<1>2. CASE Spawn(a)
  <2>1. PICK c \in Slots \ Held :
           /\ client' = [client EXCEPT ![c] = Young]
           /\ actor' = [actor EXCEPT ![a] = Busy("initialize", actor[a].key, c, 1)]
    BY <1>2 DEF Spawn
  <2>2. actor'[a].pc = "submit" /\ \A b \in Actors : b # a => actor'[b] = actor[b]
    BY <2>1 DEF TypeOK, Busy, AtRest
  <2>3. \A b \in Actors : actor[b].client # c
    BY DEF Held
  <2>4. \A d \in Slots : d # c => client'[d] = client[d]
    BY <1>0, <2>1
  <2>5. client'[c].reader = "reading"
    BY <1>0, <2>1 DEF Young, Gone
  <2> QED
    BY <2>2, <2>3, <2>4, <2>5 DEF WaitInv, TypeOK, States
<1>3. CASE Initialized(a)
  <2>1. CASE Leave(a)
    BY <2>1, LeaveWait
  <2>2. CASE Step(a, "insert")
    <3>1. actor'[a].pc = "insert" /\ \A b \in Actors : b # a => actor'[b] = actor[b]
      BY <2>2 DEF Step, TypeOK, States
    <3> QED
      BY <1>0, <2>2, <3>1, DropWait DEF Step
  <2> QED
    BY <1>3, <2>1, <2>2 DEF Initialized
<1>4. CASE Insert(a)
  <2>1. actor'[a].pc = "submit" /\ \A b \in Actors : b # a => actor'[b] = actor[b]
    BY <1>4 DEF Insert, TypeOK, Busy, AtRest
  <2> QED
    BY <1>0, <1>4, <2>1, DropWait DEF Insert
<1>5. CASE Submit(a)
  <2>1. actor[a].client \in Slots
    BY <1>5 DEF Submit, TypeOK, States
  <2>2. \A c \in Slots : /\ client'[c].reader = client[c].reader
                         /\ client'[c].proc = client[c].proc
                         /\ client[c].pending \subseteq client'[c].pending
    BY <1>0, <1>5 DEF Submit, Clients
  <2>3. a \in client'[actor[a].client].pending
    BY <1>0, <1>5, <2>1 DEF Submit, Clients
  <2>4. /\ actor'[a].client = actor[a].client /\ actor'[a].pc = "write"
        /\ \A b \in Actors : b # a => actor'[b] = actor[b]
    BY <1>5 DEF Submit, TypeOK, States
  <2>5. \A b \in Actors : actor'[b].client = actor[b].client
    BY <2>4
  <2>6. ASSUME NEW b \in Actors, actor'[b].pc \in {"write", "await"}, actor'[b].reply = "none"
        PROVE  /\ client'[actor[b].client].reader \in {"reading", "eof", "garbled"} =>
                     b \in client'[actor[b].client].pending
               /\ actor'[b].pc = "await" => client'[actor[b].client].reader # "done"
    <3>1. CASE b = a
      BY <2>3, <2>4, <3>1
    <3>2. CASE b # a
      <4>1. actor'[b] = actor[b] /\ actor[b].client \in Slots
        BY <2>4, <2>6, <3>2 DEF TypeOK, States
      <4> QED
        BY <2>2, <2>6, <4>1 DEF WaitInv
    <3> QED
      BY <3>1, <3>2
  <2> QED
    BY <2>2, <2>5, <2>6 DEF WaitInv
<1>6. CASE Write(a)
  <2>1. /\ actor'[a].client = actor[a].client /\ actor'[a].reply = actor[a].reply
        /\ actor[a].pc = "write" /\ actor[a].client \in Slots
        /\ \A b \in Actors : b # a => actor'[b] = actor[b]
    BY <1>6 DEF Write, Step, TypeOK, States
  <2>2. client' = client /\ client[actor[a].client].reader # "done"
    BY <1>6, <2>1 DEF Write, Step, WaitInv
  <2> QED
    BY <2>1, <2>2 DEF WaitInv
<1>7. CASE WriteError(a)
  BY <1>7, FailWait DEF WriteError
<1>8. CASE Receive(a)
  <2>1. CASE Fail(a)
    BY <2>1, FailWait
  <2>2. CASE ~Fail(a)
    <3>1. /\ actor' = [actor EXCEPT ![a].pc = AfterReply(actor[a].task), ![a].reply = "none"]
          /\ client' = client
      BY <1>8, <2>2 DEF Receive
    <3>2. AfterReply(actor[a].task) \in {"initialized", "submit", "kill"}
      BY <1>8 DEF Receive, AfterReply, TypeOK, States
    <3>3. /\ actor'[a].pc \notin {"write", "await"}
          /\ \A b \in Actors : b # a => actor'[b] = actor[b]
      BY <3>1, <3>2 DEF TypeOK, States
    <3> QED
      BY <1>0, <3>1, <3>3, DropWait
  <2> QED
    BY <2>1, <2>2
<1>9. CASE RequestTimeout(a)
  <2> DEFINE cs == [client EXCEPT ![actor[a].client].pending = @ \ {a}]
  <2>1. cs \in [Slots -> Clients] /\ \A c \in Slots :
          /\ cs[c].reader = client[c].reader /\ cs[c].proc = client[c].proc
          /\ client[c].pending \ {a} \subseteq cs[c].pending
    <3>1. \A c \in Slots : [client[c] EXCEPT !.pending = @ \ {a}] \in Clients
      BY <1>0 DEF Clients
    <3> QED
      BY <1>0, <3>1 DEF Clients
  <2>2. /\ actor'[a].pc \in {"kill", "idle"}
        /\ \A b \in Actors : b # a => actor'[b] = actor[b]
    BY <1>9 DEF RequestTimeout, TypeOK, States, AtRest
  <2>3. client' = cs \/ DropUnheld(cs)
    BY <1>9 DEF RequestTimeout
  <2> HIDE DEF cs
  <2> QED
    BY <2>1, <2>2, <2>3, DropWait
<1> QED
  BY <1>1, <1>2, <1>3, <1>4, <1>5, <1>6, <1>7, <1>8, <1>9 DEF ActorStep

LEMMA NextWait == TypeOK /\ TypeOK' /\ WaitInv /\ [Next]_vars => WaitInv'
<1> SUFFICES ASSUME TypeOK, TypeOK', WaitInv, [Next]_vars PROVE WaitInv'
  OBVIOUS
<1>0. client \in [Slots -> Clients] /\ Reaper \in Actors /\ \A a \in Calls : a \in Actors
  BY DEF TypeOK, Actors
<1>1. CASE UNCHANGED vars
  BY <1>1 DEF vars, WaitInv
<1>2. ASSUME NEW a \in Actors, ActorStep(a) PROVE WaitInv'
  BY <1>2, ActorWait
<1>3. ASSUME NEW a \in Calls, NEW k \in Keys, GetCached(a, k) \/ GetMissing(a, k)
      PROVE  WaitInv'
  <2>1. /\ actor'[a].pc \in {"submit", "spawn"}
        /\ \A b \in Actors : b # a => actor'[b] = actor[b]
    <3>1. CASE GetCached(a, k)
      BY <1>0, <3>1 DEF GetCached, TypeOK, Busy, AtRest
    <3>2. CASE GetMissing(a, k)
      BY <1>0, <3>2 DEF GetMissing, TypeOK, AtRest
    <3> QED
      BY <1>3, <3>1, <3>2
  <2> QED
    BY <1>0, <1>3, <2>1, DropWait DEF GetCached, GetMissing
<1>4. CASE TakeIdle \/ \E k \in Keys : GoesIdle(k)
  BY <1>4 DEF TakeIdle, GoesIdle, WaitInv
<1>5. CASE ShutdownNext
  <2>1. /\ actor'[Reaper].pc = "submit" /\ client' = client
        /\ \A b \in Actors : b # Reaper => actor'[b] = actor[b]
    BY <1>0, <1>5 DEF ShutdownNext, TypeOK, Busy, AtRest
  <2> QED
    BY <1>0, <2>1, DropWait
<1>6. CASE Kill
  <2> DEFINE cs == [client EXCEPT ![actor[Reaper].client].proc = "exited"]
  <2>1. cs \in [Slots -> Clients] /\ \A c \in Slots :
          /\ cs[c].reader = client[c].reader /\ cs[c].proc \in {client[c].proc, "exited"}
          /\ cs[c].pending = client[c].pending
    BY <1>0 DEF Clients
  <2>2. /\ actor'[Reaper].pc = "idle"
        /\ \A b \in Actors : b # Reaper => actor'[b] = actor[b]
    BY <1>0, <1>6 DEF Kill, TypeOK, AtRest
  <2>3. DropUnheld(cs)
    BY <1>6 DEF Kill
  <2> HIDE DEF cs
  <2> QED
    BY <1>0, <2>1, <2>2, <2>3, DropWait
<1>7. ASSUME NEW c \in Slots, ReaderEnds(c) \/ Garble(c) \/ ServerExits(c) PROVE WaitInv'
  <2>1. actor' = actor /\ \A d \in Slots : d # c => client'[d] = client[d]
    BY <1>0, <1>7 DEF ReaderEnds, Garble, ServerExits
  <2>2. /\ client'[c].pending = client[c].pending
        /\ client'[c].reader \in {"eof", "garbled"} => client[c].reader \in {"reading", client'[c].reader}
        /\ client'[c].reader \notin {"eof", "garbled"} => client'[c].reader = client[c].reader
        /\ client'[c].reader \in {"eof", "done"} => client'[c].proc = "exited"
    BY <1>0, <1>7 DEF ReaderEnds, Garble, ServerExits, Clients, WaitInv
  <2> QED
    BY <2>1, <2>2 DEF WaitInv, TypeOK, States
<1>8. ASSUME NEW c \in Slots, DrainPending(c) PROVE WaitInv'
  <2>1. \A d \in Slots : d # c => client'[d] = client[d]
    BY <1>0, <1>8 DEF DrainPending
  <2>2. /\ client[c].reader \in {"eof", "garbled"} /\ client'[c].proc = client[c].proc
        /\ client'[c].reader \in {"done", "broken"}
        /\ client'[c].reader = "done" => client[c].reader = "eof"
    BY <1>0, <1>8 DEF DrainPending, Clients, Ended
  <2>3. \A b \in Actors : /\ actor'[b].client = actor[b].client /\ actor'[b].pc = actor[b].pc
                          /\ actor'[b].reply = IF Waits(b, c) THEN "cancelled" ELSE actor[b].reply
    BY <1>8 DEF DrainPending, TypeOK, States
  <2>4. \A b \in Actors : actor'[b].pc \in {"write", "await"} /\ actor'[b].reply = "none"
                          => actor[b].client # c
    BY <2>2, <2>3 DEF WaitInv, Waits
  <2> QED
    BY <2>1, <2>2, <2>3, <2>4 DEF WaitInv, TypeOK, States
<1>9. ASSUME NEW c \in Slots, NEW a \in Actors, NEW r \in {"result", "error", "foreign"},
             Dispatch(c, a, r)
      PROVE  WaitInv'
  <2>1. \A d \in Slots : /\ client'[d].reader = client[d].reader
                         /\ client'[d].proc = client[d].proc
                         /\ client[d].pending \ {a} \subseteq client'[d].pending
    BY <1>0, <1>9 DEF Dispatch, Clients
  <2>2. actor'[a].reply # "none" /\ \A b \in Actors : b # a => actor'[b] = actor[b]
    BY <1>9 DEF Dispatch, TypeOK, States
  <2>3. ASSUME NEW b \in Actors, b # a, actor[b].pc \in {"write", "await"},
               actor[b].reply = "none"
        PROVE  /\ client'[actor[b].client].reader \in {"reading", "eof", "garbled"} =>
                     b \in client'[actor[b].client].pending
               /\ actor[b].pc = "await" => client'[actor[b].client].reader # "done"
    <3>1. actor[b].client \in Slots
      BY <2>3 DEF TypeOK, States
    <3> QED
      BY <2>1, <2>3, <3>1 DEF WaitInv
  <2> QED
    BY <2>1, <2>2, <2>3 DEF WaitInv
<1> QED
  BY <1>0, <1>1, <1>2, <1>3, <1>4, <1>5, <1>6, <1>7, <1>8, <1>9
     DEF Next, ReaperStep, ReaderStep, ServerStep, Respond, ServerRequest

(* Once a server has ended and its reader has drained pending, no call     *)
(* awaits a response of it (client.rs:316-320).                            *)
THEOREM DeadServerFailsRequests == Spec => []NoWaitOnDead
<1>1. Init => WaitInv
  BY DEF Init, WaitInv, AtRest, Gone
<1>2. WaitInv => NoWaitOnDead
  BY DEF WaitInv, NoWaitOnDead
<1> QED
  BY <1>1, <1>2, NextWait, TypeCorrect, PTL DEF Spec

-----------------------------------------------------------------------------
(* Who holds which client *)

(* EvictedIsForgotten is not inductive: it needs that a call that is about *)
(* to insert its client is alone with it, that no client is in the pool    *)
(* twice, and which actor does what.                                       *)
Roles ==
  /\ \A a \in Calls : /\ actor[a].task # "shutdown"
                      /\ actor[a].pc \in {"initialized", "insert"} =>
                            actor[a].task = "initialize"
  /\ actor[Reaper].task \in {"none", "shutdown"}
  /\ actor[Reaper].pc \notin {"spawn", "initialized", "insert"}

Alone(a) ==
  /\ \A k \in Keys : pool[k].client # actor[a].client
  /\ actor[a].client \notin evicted
  /\ \A b \in Actors : b # a => actor[b].client # actor[a].client

OwnInv ==
  /\ Roles
  /\ \A a \in Calls : actor[a].task = "initialize" => Alone(a)
  /\ \A j, k \in Keys : pool[j].client # None /\ pool[j].client = pool[k].client => j = k
  /\ \A k \in Keys : pool[k].client # None =>
       pool[k].client \notin evicted /\ pool[k].client # actor[Reaper].client

\* Steps in which handles are kept or dropped.
LEMMA KeepOwn ==
  ASSUME TypeOK, OwnInv, Roles', evicted' = evicted,
         \A k \in Keys : pool'[k].client = pool[k].client \/ pool'[k].client = None,
         \A a \in Actors : \/ /\ actor'[a].client = actor[a].client
                              /\ actor'[a].task = actor[a].task
                           \/ actor'[a].client = None /\ actor'[a].task = "none"
  PROVE  OwnInv'
<1>1. \A a \in Calls : a \in Actors /\ Reaper \in Actors
  BY DEF Actors
<1>2. ASSUME NEW a \in Calls, actor'[a].task = "initialize" PROVE Alone(a)'
  <2>1. actor'[a].client = actor[a].client /\ actor[a].client # None /\ Alone(a)
    BY <1>1, <1>2 DEF OwnInv, TypeOK
  <2> QED
    BY <2>1 DEF Alone
<1>3. \A k \in Keys : pool'[k].client # None =>
        pool'[k].client \notin evicted' /\ pool'[k].client # actor'[Reaper].client
  <2>1. actor'[Reaper].client \in {actor[Reaper].client, None}
    BY DEF Actors
  <2> QED
    BY <2>1 DEF OwnInv
<1> QED
  BY <1>2, <1>3 DEF OwnInv

LEMMA RestOwn ==
  ASSUME TypeOK, OwnInv, NEW a \in Actors, actor' = [actor EXCEPT ![a] = AtRest],
         pool' = pool, evicted' = evicted
  PROVE  OwnInv'
<1>1. \A b \in Actors : actor'[b] = IF b = a THEN AtRest ELSE actor[b]
  BY DEF TypeOK
<1>2. Roles'
  BY <1>1 DEF OwnInv, Roles, AtRest, Actors
<1>3. \A b \in Actors : \/ /\ actor'[b].client = actor[b].client
                           /\ actor'[b].task = actor[b].task
                        \/ actor'[b].client = None /\ actor'[b].task = "none"
  BY <1>1 DEF AtRest
<1>4. \A k \in Keys : pool'[k].client = pool[k].client \/ pool'[k].client = None
  OBVIOUS
<1> QED
  BY <1>2, <1>3, <1>4, KeepOwn

LEMMA ActorOwn ==
  ASSUME TypeOK, OwnInv, NEW a \in Actors, ActorStep(a)
  PROVE  OwnInv'
<1> a \in Calls \/ a = Reaper
  BY DEF Actors
<1>0. Reaper \in Actors /\ \A b \in Calls : b \in Actors /\ b # Reaper
  BY DEF Actors
<1>1. ASSUME Leave(a) PROVE OwnInv'
  BY <1>1, RestOwn DEF Leave
<1>2. ASSUME NEW pc, actor'[a].pc = pc, actor'[a].client = actor[a].client,
             actor'[a].task = actor[a].task,
             \A b \in Actors : b # a => actor'[b] = actor[b],
             pc \in {"initialized", "insert"} => actor[a].task = "initialize",
             pc # "spawn", UNCHANGED <<pool, evicted>>
      PROVE  OwnInv'
  <2>1. \A b \in Actors : actor'[b].task = actor[b].task /\ actor'[b].client = actor[b].client
    BY <1>2
  <2>2. \A b \in Actors : b # a => actor'[b].pc = actor[b].pc
    BY <1>2
  <2>3. Roles'
    BY <1>0, <1>2, <2>1, <2>2 DEF OwnInv, Roles
  <2>4. pool' = pool /\ evicted' = evicted
    BY <1>2
  <2>5. \A k \in Keys : pool'[k].client = pool[k].client \/ pool'[k].client = None
    BY <2>4
  <2> QED
    BY <2>1, <2>3, <2>4, <2>5, KeepOwn
<1>3. CASE SpawnFails(a) \/ ToolReturns(a)
  BY <1>1, <1>3 DEF SpawnFails, ToolReturns
<1>4. CASE Spawn(a)
  <2>1. PICK c \in Slots \ Held :
           actor' = [actor EXCEPT ![a] = Busy("initialize", actor[a].key, c, 1)]
    BY <1>4 DEF Spawn
  <2>2. /\ actor'[a].task = "initialize" /\ actor'[a].client = c
        /\ actor'[a].pc = "submit"
        /\ \A b \in Actors : b # a => actor'[b] = actor[b]
    BY <2>1 DEF TypeOK, Busy, AtRest
  <2>3. c # None /\ c \notin evicted /\ \A k \in Keys : pool[k].client # c
    BY DEF Held, Cached
  <2>4. \A b \in Actors : actor[b].client # c
    BY <2>3 DEF Held
  <2>5. a # Reaper /\ a \in Calls
    BY <1>4 DEF OwnInv, Roles, Spawn, Actors
  <2>6. UNCHANGED <<pool, evicted>>
    BY <1>4 DEF Spawn
  <2>7. Roles'
    BY <1>0, <2>2, <2>5 DEF OwnInv, Roles
  <2>8. ASSUME NEW b \in Calls, actor'[b].task = "initialize" PROVE Alone(b)'
    <3>1. CASE b = a
      BY <2>2, <2>3, <2>4, <2>6, <3>1 DEF Alone
    <3>2. CASE b # a
      <4>1. Alone(b) /\ actor'[b] = actor[b] /\ actor[b].client # c
        BY <1>0, <2>2, <2>4, <2>8, <3>2 DEF OwnInv
      <4> QED
        BY <2>2, <2>6, <4>1 DEF Alone
    <3> QED
      BY <3>1, <3>2
  <2> QED
    BY <1>0, <2>2, <2>5, <2>6, <2>7, <2>8 DEF OwnInv
<1>5. CASE Initialized(a)
  <2>1. CASE Leave(a)
    BY <1>1, <2>1
  <2>2. CASE Step(a, "insert")
    <3>1. /\ actor'[a].pc = "insert" /\ actor'[a].client = actor[a].client
          /\ actor'[a].task = actor[a].task
          /\ \A b \in Actors : b # a => actor'[b] = actor[b]
      BY <2>2 DEF Step, TypeOK, States
    <3>2. actor[a].task = "initialize"
      BY <1>5 DEF Initialized, OwnInv, Roles
    <3> QED
      BY <1>2, <2>2, <3>1, <3>2 DEF Step
  <2> QED
    BY <1>5, <2>1, <2>2 DEF Initialized
<1>6. CASE Insert(a)
  <2> DEFINE c == actor[a].client
  <2>1. a \in Calls /\ actor[a].task = "initialize" /\ Alone(a) /\ c # None
    <3>1. a \in Calls /\ actor[a].task = "initialize"
      BY <1>6 DEF Insert, OwnInv, Roles
    <3>2. Alone(a)
      BY <3>1 DEF OwnInv
    <3> QED
      BY <1>6, <3>1, <3>2 DEF Insert, TypeOK
  <2>2. /\ actor'[a].task = "tool" /\ actor'[a].client = c /\ actor'[a].pc = "submit"
        /\ \A b \in Actors : b # a => actor'[b] = actor[b]
    BY <1>6 DEF Insert, TypeOK, Busy, AtRest
  <2>3. /\ evicted' = evicted
        /\ \A k \in Keys : pool'[k].client = IF k = actor[a].key THEN c ELSE pool[k].client
    BY <1>6 DEF Insert, TypeOK
  <2>4. Roles'
    BY <1>0, <2>1, <2>2 DEF OwnInv, Roles
  <2>5. ASSUME NEW b \in Calls, actor'[b].task = "initialize" PROVE Alone(b)'
    <3>1. b # a /\ actor'[b] = actor[b] /\ Alone(b)
      BY <1>0, <2>2, <2>5 DEF OwnInv
    <3>2. c # actor[b].client
      BY <3>1 DEF Alone
    <3> QED
      BY <2>2, <2>3, <3>1, <3>2 DEF Alone
  <2>6. \A k \in Keys : pool'[k].client # None =>
          pool'[k].client \notin evicted' /\ pool'[k].client # actor'[Reaper].client
    BY <1>0, <2>1, <2>2, <2>3 DEF OwnInv, Alone
  <2>7. \A j, k \in Keys : pool'[j].client # None /\ pool'[j].client = pool'[k].client => j = k
    BY <2>1, <2>3 DEF OwnInv, Alone
  <2> QED
    BY <2>4, <2>5, <2>6, <2>7 DEF OwnInv
<1>7. CASE Submit(a)
  <2>1. /\ actor'[a].pc = "write" /\ actor'[a].client = actor[a].client
        /\ actor'[a].task = actor[a].task
        /\ \A b \in Actors : b # a => actor'[b] = actor[b]
    BY <1>7 DEF Submit, TypeOK, States
  <2> QED
    BY <1>2, <1>7, <2>1 DEF Submit
<1>8. CASE Write(a)
  <2>1. /\ actor'[a].pc = "await" /\ actor'[a].client = actor[a].client
        /\ actor'[a].task = actor[a].task
        /\ \A b \in Actors : b # a => actor'[b] = actor[b]
    BY <1>8 DEF Write, Step, TypeOK, States
  <2> QED
    BY <1>2, <1>8, <2>1 DEF Write, Step
<1>9. ASSUME Fail(a) PROVE OwnInv'
  <2>1. CASE Leave(a)
    BY <1>1, <2>1
  <2>2. CASE ~Leave(a)
    <3>1. /\ actor'[a].pc = "kill" /\ actor'[a].client = actor[a].client
          /\ actor'[a].task = actor[a].task
          /\ \A b \in Actors : b # a => actor'[b] = actor[b]
      BY <1>9, <2>2 DEF Fail, TypeOK, States
    <3> QED
      BY <1>2, <1>9, <2>2, <3>1 DEF Fail
  <2> QED
    BY <2>1, <2>2
<1>10. CASE Receive(a)
  <2>1. CASE Fail(a)
    BY <1>9, <2>1
  <2>2. CASE ~Fail(a)
    <3>1. /\ actor' = [actor EXCEPT ![a].pc = AfterReply(actor[a].task), ![a].reply = "none"]
          /\ UNCHANGED <<pool, evicted>>
      BY <1>10, <2>2 DEF Receive
    <3>2. /\ actor'[a].pc = AfterReply(actor[a].task)
          /\ actor'[a].client = actor[a].client /\ actor'[a].task = actor[a].task
          /\ \A b \in Actors : b # a => actor'[b] = actor[b]
      BY <3>1 DEF TypeOK, States
    <3>3. actor[a].task \in {"initialize", "tool", "shutdown"}
      BY <1>10 DEF Receive, TypeOK, States
    <3>4. /\ AfterReply(actor[a].task) # "spawn" /\ AfterReply(actor[a].task) # "insert"
          /\ AfterReply(actor[a].task) = "initialized" => actor[a].task = "initialize"
      BY <3>3 DEF AfterReply
    <3> QED
      BY <1>2, <3>1, <3>2, <3>4
  <2> QED
    BY <2>1, <2>2
<1>11. CASE RequestTimeout(a)
  <2>1. CASE actor[a].task = "shutdown"
    <3>1. /\ actor'[a].pc = "kill" /\ actor'[a].client = actor[a].client
          /\ actor'[a].task = actor[a].task
          /\ \A b \in Actors : b # a => actor'[b] = actor[b]
      BY <1>11, <2>1 DEF RequestTimeout, TypeOK, States
    <3> QED
      BY <1>2, <1>11, <2>1, <3>1 DEF RequestTimeout
  <2>2. CASE actor[a].task # "shutdown"
    BY <1>11, <2>2, RestOwn DEF RequestTimeout
  <2> QED
    BY <2>1, <2>2
<1>12. CASE WriteError(a)
  BY <1>9, <1>12 DEF WriteError
<1> QED
  BY <1>3, <1>4, <1>5, <1>6, <1>7, <1>8, <1>10, <1>11, <1>12 DEF ActorStep

LEMMA ReaperOwn ==
  ASSUME TypeOK, OwnInv, TakeIdle \/ ShutdownNext \/ Kill
  PROVE  OwnInv'
<1>0. Reaper \in Actors /\ \A b \in Calls : b \in Actors /\ b # Reaper
  BY DEF Actors
<1>1. CASE TakeIdle
  <2>1. actor[Reaper].client = None /\ actor' = actor /\ evicted' = IdleClients
    BY <1>0, <1>1 DEF TakeIdle, TypeOK
  <2>2. \A k \in Keys : pool'[k].client = IF pool[k].idle THEN None ELSE pool[k].client
    BY <1>1 DEF TakeIdle, NoEntry
  <2>3. \A k \in Keys : pool'[k].client # None => pool'[k].client \notin evicted'
    BY <2>1, <2>2 DEF IdleClients, OwnInv
  <2>4. ASSUME NEW a \in Calls, actor[a].task = "initialize" PROVE Alone(a)'
    <3>1. actor[a].client # None /\ Alone(a)
      BY <1>0, <2>4 DEF OwnInv, TypeOK
    <3> QED
      BY <2>1, <2>2, <3>1 DEF Alone, IdleClients
  <2> QED
    BY <2>1, <2>2, <2>3, <2>4 DEF OwnInv, Roles
<1>2. CASE ShutdownNext
  <2>1. PICK c \in evicted :
           /\ evicted' = evicted \ {c}
           /\ actor' = [actor EXCEPT ![Reaper] = Busy("shutdown", None, c, 1)]
    BY <1>2 DEF ShutdownNext
  <2>2. /\ actor'[Reaper].task = "shutdown" /\ actor'[Reaper].client = c
        /\ actor'[Reaper].pc = "submit" /\ pool' = pool
        /\ \A b \in Actors : b # Reaper => actor'[b] = actor[b]
    BY <1>0, <1>2, <2>1 DEF ShutdownNext, TypeOK, Busy, AtRest
  <2>3. \A a \in Calls : actor[a].task = "initialize" => Alone(a)'
    BY <1>0, <2>1, <2>2 DEF OwnInv, Alone
  <2>4. Roles'
    BY <1>0, <2>2 DEF OwnInv, Roles
  <2> QED
    BY <1>0, <2>1, <2>2, <2>3, <2>4 DEF OwnInv
<1>3. CASE Kill
  BY <1>0, <1>3, RestOwn DEF Kill
<1> QED
  BY <1>1, <1>2, <1>3

LEMMA GetOwn ==
  ASSUME TypeOK, OwnInv, NEW a \in Calls, NEW k \in Keys, GetCached(a, k) \/ GetMissing(a, k)
  PROVE  OwnInv'
<1>0. Reaper \in Actors /\ a \in Actors /\ \A b \in Calls : b \in Actors /\ b # Reaper
  BY DEF Actors
<1>1. CASE GetCached(a, k)
  <2>1. /\ actor'[a].task = "tool" /\ actor'[a].client = pool[k].client
        /\ actor'[a].pc = "submit" /\ pool[k].client # None
        /\ \A b \in Actors : b # a => actor'[b] = actor[b]
    BY <1>0, <1>1 DEF GetCached, TypeOK, Busy, AtRest, IsAlive
  <2>2. evicted' = evicted /\ \A j \in Keys : pool'[j].client = pool[j].client
    BY <1>1 DEF GetCached, TypeOK, Entries, NoEntry
  <2>3. Roles'
    BY <1>0, <2>1 DEF OwnInv, Roles
  <2>4. ASSUME NEW b \in Calls, actor'[b].task = "initialize" PROVE Alone(b)'
    <3>1. b # a /\ actor'[b] = actor[b] /\ Alone(b)
      BY <1>0, <2>1, <2>4 DEF OwnInv
    <3> QED
      BY <2>1, <2>2, <3>1 DEF Alone
  <2> QED
    BY <1>0, <2>1, <2>2, <2>3, <2>4 DEF OwnInv
<1>2. CASE GetMissing(a, k)
  <2>1. /\ actor'[a].task = "none" /\ actor'[a].client = None /\ actor'[a].pc = "spawn"
        /\ \A b \in Actors : b # a => actor'[b] = actor[b]
    BY <1>0, <1>2 DEF GetMissing, TypeOK, AtRest
  <2>2. evicted' = evicted /\ \A j \in Keys :
          pool'[j].client = pool[j].client \/ pool'[j].client = None
    BY <1>2 DEF GetMissing, TypeOK, NoEntry
  <2>3. Roles'
    BY <1>0, <2>1 DEF OwnInv, Roles
  <2>4. \A b \in Actors : \/ /\ actor'[b].client = actor[b].client
                             /\ actor'[b].task = actor[b].task
                          \/ actor'[b].client = None /\ actor'[b].task = "none"
    BY <2>1
  <2> QED
    BY <2>2, <2>3, <2>4, KeepOwn
<1> QED
  BY <1>1, <1>2

LEMMA ElseOwn ==
  ASSUME TypeOK, OwnInv,
         \/ UNCHANGED vars
         \/ \E k \in Keys : GoesIdle(k)
         \/ \E c \in Slots : ReaderStep(c) \/ ServerStep(c)
  PROVE  OwnInv'
<1> DEFINE Same == /\ evicted' = evicted
                   /\ \A k \in Keys : pool'[k].client = pool[k].client
                   /\ \A a \in Actors : /\ actor'[a].client = actor[a].client
                                        /\ actor'[a].task = actor[a].task
                                        /\ actor'[a].pc = actor[a].pc
<1>1. ASSUME UNCHANGED vars PROVE Same
  BY <1>1 DEF vars
<1>2. ASSUME NEW k \in Keys, GoesIdle(k) PROVE Same
  BY <1>2 DEF GoesIdle, TypeOK, Entries, NoEntry
<1>3. ASSUME NEW c \in Slots, ReaderEnds(c) \/ Garble(c) \/ ServerExits(c) PROVE Same
  BY <1>3 DEF ReaderEnds, Garble, ServerExits
<1>4. ASSUME NEW c \in Slots, DrainPending(c) PROVE Same
  BY <1>4 DEF DrainPending, TypeOK, States
<1>5. ASSUME NEW c \in Slots, NEW a \in Actors, NEW r, Dispatch(c, a, r) PROVE Same
  BY <1>5 DEF Dispatch, TypeOK, States
<1>6. Same
  BY <1>1, <1>2, <1>3, <1>4, <1>5 DEF vars, ReaderStep, ServerStep, Respond, ServerRequest
<1>7. Roles'
  BY <1>6 DEF OwnInv, Roles, Actors
<1>8. \A k \in Keys : pool'[k].client = pool[k].client \/ pool'[k].client = None
  BY <1>6
<1> QED
  BY <1>6, <1>7, <1>8, KeepOwn

LEMMA NextOwn == TypeOK /\ OwnInv /\ [Next]_vars => OwnInv'
<1>1. Reaper \in Actors /\ \A a \in Calls : a \in Actors
  BY DEF Actors
<1> QED
  BY <1>1, ActorOwn, ReaperOwn, GetOwn, ElseOwn DEF Next, ReaperStep

(* A client taken by the reaper is never handed out again (pool.rs,        *)
(* take_idle): only calls that already hold it can be cut off by its       *)
(* shutdown.                                                               *)
THEOREM EvictedStaysForgotten == Spec => []EvictedIsForgotten
<1>1. Init => OwnInv
  BY DEF Init, OwnInv, Roles, Actors, AtRest, NoEntry
<1>2. OwnInv => EvictedIsForgotten
  BY DEF OwnInv, EvictedIsForgotten, Cached
<1> QED
  BY <1>1, <1>2, NextOwn, TypeCorrect, PTL DEF Spec
=============================================================================
