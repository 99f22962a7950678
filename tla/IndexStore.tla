----------------------------- MODULE IndexStore -----------------------------
(***************************************************************************)
(* The persistent commit-state store of the SCIP indexer                   *)
(* (crates/aide-mcp/src/indexer/state.rs).                                 *)
(*                                                                         *)
(* Every operation of Store takes the one mutex, changes the state in      *)
(* memory, and then writes the whole state to indexer_state.json with      *)
(* write-to-temp + rename before it releases the mutex.  An operation is   *)
(* therefore one step here, and that step ends in one of two ways: the     *)
(* flush succeeded (Flushed) or it returned an error (FlushError), in      *)
(* which case memory has changed and the file has not.                     *)
(*                                                                         *)
(* A commit is identified by its key <<repository, sha>>; a repository is  *)
(* the result of repo_key, one value per repository root.  index_path is   *)
(* not a field: it is Some(File(k)) whenever the commit is Ready.          *)
(***************************************************************************)
EXTENDS Naturals, FiniteSets

CONSTANTS
  Repos,         \* normalised repository roots
  Shas,          \* commit ids
  SlugOf,        \* [Repos -> directory names]: slugify_repo_root
  NoSha,         \* last_sha is None
  MaxRetention,  \* bound on scip.retention_ready
  MaxTime,       \* bound on the wall clock, in seconds
  MaxFaults      \* bound on the number of failing file operations

ASSUME StoreAssumption ==
  /\ NoSha \notin Shas
  /\ MaxRetention \in Nat \ {0}
  /\ MaxTime \in Nat
  /\ MaxFaults \in Nat

VARIABLES
  commits,        \* [Keys -> Entry], in memory
  lastSha,        \* [Repos -> Shas \cup {NoSha}], in memory
  pendingUnlink,  \* files evicted by retention and not yet deleted, in memory
  disk,           \* what indexer_state.json holds
  retention,      \* the shared atomic retention_ready
  now,            \* now_unix()
  faults          \* how many file operations have failed so far

stateVars == <<commits, lastSha, pendingUnlink, disk>>
storeVars == <<commits, lastSha, pendingUnlink, disk, retention, now, faults>>

Keys    == Repos \X Shas
File(k) == <<SlugOf[k[1]], k[2]>>
Files   == {File(k) : k \in Keys}

States  == {"Absent", "Pending", "InProgress", "Ready", "Failed"}
Entry   == [state : States, enqueuedAt : Nat, indexedAt : Nat]
NoEntry == [state |-> "Absent", enqueuedAt |-> 0, indexedAt |-> 0]

Tracked(k) == commits[k].state # "Absent"
Ready(k)   == commits[k].state = "Ready"
Queued(k)  == commits[k].state \in {"Pending", "InProgress"}

-----------------------------------------------------------------------------
(* Persistence *)

Image(c, l, p) == [commits |-> c, lastSha |-> l, pendingUnlink |-> p]

Fault == /\ faults < MaxFaults
         /\ faults' = faults + 1

Flushed    == /\ disk' = Image(commits', lastSha', pendingUnlink')
              /\ UNCHANGED faults
FlushError == /\ Fault
              /\ UNCHANGED disk

-----------------------------------------------------------------------------
(* The n most recently enqueued members of S under entries c: sort by      *)
(* enqueued_at descending, then cut.  Equal timestamps come in HashMap     *)
(* order, so every choice among them is possible.                          *)
Newest(S, n, c) ==
  {T \in SUBSET S :
     /\ \/ T = S /\ Cardinality(S) <= n
        \/ Cardinality(T) = n
     /\ \A t \in T, u \in S \ T : c[t].enqueuedAt >= c[u].enqueuedAt}

\* Mutant: only finished commits are deduplicated, not queued ones.
NeedsIndexingUnlessReady(k) == commits[k].state # "Ready"

\* enqueue_at: an entry that is Ready or already queued is left alone.
NeedsIndexing(k) == commits[k].state \in {"Absent", "Failed"}

StoreEnqueue(k) ==
  /\ lastSha' = [lastSha EXCEPT ![k[1]] = k[2]]
  /\ commits' = IF NeedsIndexing(k)
                THEN [commits EXCEPT ![k].state = "Pending",
                                     ![k].enqueuedAt = now]
                ELSE commits
  /\ UNCHANGED pendingUnlink

\* mutate: a commit that has disappeared is silently skipped.
StoreMarkInProgress(k) ==
  /\ commits' = IF Tracked(k)
                THEN [commits EXCEPT ![k].state = "InProgress"]
                ELSE commits
  /\ UNCHANGED <<lastSha, pendingUnlink>>

StoreMarkFailed(k) ==
  /\ commits' = IF Tracked(k)
                THEN [commits EXCEPT ![k].state = "Failed", ![k].indexedAt = 0]
                ELSE commits
  /\ UNCHANGED <<lastSha, pendingUnlink>>

\* The entries once k is recorded Ready, before retention.
Completed(k) ==
  IF Tracked(k)
  THEN [commits EXCEPT ![k].state = "Ready", ![k].indexedAt = now]
  ELSE commits

\* Mutant: retention counts the Ready commits of every repository.
ReadyOfEveryRepo(r, c) == {j \in Keys : c[j].state = "Ready"}

ReadyOf(r, c) == {j \in Keys : j[1] = r /\ c[j].state = "Ready"}

\* Mutant: evicted paths are forgotten.
StashNothing(evicted) == {}

\* What mark_ready stashes for the next round, given what it evicts now.
Stash(evicted) == {File(j) : j \in evicted}

\* Mutant: the commit that has just been indexed is never evicted.
StoreMarkReadyKeepsIt(k) ==
  LET done  == Completed(k)
      ready == ReadyOf(k[1], done)
  IN  \E others \in Newest(ready \ {k}, retention - 1, done) :
        /\ commits' = [j \in Keys |-> IF j \in ready \ (others \cup {k})
                                      THEN NoEntry ELSE done[j]]
        /\ pendingUnlink' = Stash(ready \ (others \cup {k}))
        /\ UNCHANGED lastSha

\* Evict beyond retention within k's repository; the previous stash, of
\* whichever repository, is replaced and handed to the caller.
StoreMarkReady(k) ==
  LET done  == Completed(k)
      ready == ReadyOf(k[1], done)
  IN  \E kept \in Newest(ready, retention, done) :
        /\ commits' = [j \in Keys |-> IF j \in ready \ kept
                                      THEN NoEntry ELSE done[j]]
        /\ pendingUnlink' = Stash(ready \ kept)
        /\ UNCHANGED lastSha

Recoverable == {k \in Keys : Queued(k)}

\* take_recoverable_jobs: entries past the cap become Failed; a flush error
\* is only logged, and nothing is flushed when nothing overflows.
StoreTakeRecoverable(kept) ==
  /\ commits' = [k \in Keys |-> IF k \in Recoverable \ kept
                                THEN [commits[k] EXCEPT !.state = "Failed"]
                                ELSE commits[k]]
  /\ UNCHANGED <<lastSha, pendingUnlink>>
  /\ \/ Flushed
     \/ Recoverable \ kept # {} /\ FlushError

-----------------------------------------------------------------------------
(* Environment of the store *)

StoreInit ==
  /\ commits = [k \in Keys |-> NoEntry]
  /\ lastSha = [r \in Repos |-> NoSha]
  /\ pendingUnlink = {}
  /\ disk = Image(commits, lastSha, pendingUnlink)
  /\ retention \in 1..MaxRetention
  /\ now = 1
  /\ faults = 0

\* Store::load of what the last successful flush left.
StoreReload ==
  /\ commits' = disk.commits
  /\ lastSha' = disk.lastSha
  /\ pendingUnlink' = disk.pendingUnlink
  /\ UNCHANGED disk

\* The configuration reloader stores retention_ready.max(1) into the atomic;
\* nothing is evicted until the next mark_ready.
SetRetention ==
  /\ retention' \in 1..MaxRetention \ {retention}
  /\ UNCHANGED <<commits, lastSha, pendingUnlink, disk, now, faults>>

Tick ==
  /\ now < MaxTime
  /\ now' = now + 1
  /\ UNCHANGED <<commits, lastSha, pendingUnlink, disk, retention, faults>>

StateImage == [commits : [Keys -> Entry],
               lastSha : [Repos -> Shas \cup {NoSha}],
               pendingUnlink : SUBSET Files]

StoreTypeOK ==
  /\ commits \in [Keys -> Entry]
  /\ lastSha \in [Repos -> Shas \cup {NoSha}]
  /\ pendingUnlink \in SUBSET Files
  /\ disk \in StateImage
  /\ retention \in 1..MaxRetention
  /\ now \in Nat
  /\ faults \in 0..MaxFaults
=============================================================================
