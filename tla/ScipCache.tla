----------------------------- MODULE ScipCache -----------------------------
(***************************************************************************)
(* The cache of decoded SCIP indexes in the tool server                    *)
(* (cached_scip_load): by path, checked against the modification time, at  *)
(* most CacheCap entries.  Builds rewrite index files and retention        *)
(* deletes them at any time.  A content is named by the time it was        *)
(* written; no two writes of a file fall within one tick of the clock.     *)
(***************************************************************************)
EXTENDS Naturals, FiniteSets, Common

CONSTANTS Paths, Loads, CacheCap, MaxWrites

ASSUME CacheAssumption == None \notin Paths /\ CacheCap \in Nat \ {0} /\ MaxWrites \in Nat \ {0}

VARIABLES
  index,    \* per path: when its content was written; 0: there is no file
  writes,   \* the clock: how many writes there have been
  cache,    \* per path: modification time, content and last use of its entry
  loading,  \* what each load is doing, with what it has read
  uses      \* the clock of last_used

scipVars == <<index, writes, cache, loading, uses>>

NotCached == [mtime |-> 0, content |-> 0, used |-> 0]
Entries == {p \in Paths : cache[p].mtime > 0}
Loaded(l, pc, content) == [loading EXCEPT ![l].pc = pc, ![l].content = content]

ScipInit ==
  /\ index = [p \in Paths |-> 1]
  /\ writes = 1
  /\ cache = [p \in Paths |-> NotCached]
  /\ loading = [l \in Loads |-> [pc |-> "new", path |-> None, mtime |-> 0, content |-> 0]]
  /\ uses = 0

\* A build writes the file, or retention deletes it.
ChangeIndex(p) ==
  /\ writes < MaxWrites
  /\ writes' = writes + 1
  /\ index' \in {[index EXCEPT ![p] = writes'], [index EXCEPT ![p] = 0]}
  /\ UNCHANGED <<cache, loading, uses>>

StatIndex(l, p) ==
  /\ loading[l].pc = "new"
  /\ loading' = [loading EXCEPT ![l] = [pc |-> IF index[p] = 0 THEN "failed" ELSE "lookup", path |-> p,
                                       mtime |-> index[p], content |-> 0]]
  /\ UNCHANGED <<index, writes, cache, uses>>

LookupHit(l) ==
  LET p == loading[l].path IN
  /\ loading[l].pc = "lookup" /\ p \in Entries /\ cache[p].mtime = loading[l].mtime
  /\ loading' = Loaded(l, "done", cache[p].content)
  /\ uses' = uses + 1
  /\ cache' = [cache EXCEPT ![p].used = uses']
  /\ UNCHANGED <<index, writes>>

LookupMiss(l) ==
  LET p == loading[l].path IN
  /\ loading[l].pc = "lookup" /\ (p \in Entries => cache[p].mtime # loading[l].mtime)
  /\ loading' = Loaded(l, "decode", 0)
  /\ UNCHANGED <<index, writes, cache, uses>>

\* The file is read and decoded without the lock; it may have changed or gone.
DecodeIndex(l) ==
  LET p == loading[l].path IN
  /\ loading[l].pc = "decode"
  /\ loading' = Loaded(l, IF index[p] = 0 THEN "failed" ELSE "insert", index[p])
  /\ UNCHANGED <<index, writes, cache, uses>>

\* Mutant: the entry is stamped with the time the file has now.
StampNow(l) == index[loading[l].path]

\* The time under which the entry is kept: the one taken before the decode.
Stamp(l) == loading[l].mtime

\* At the cap the entry used least recently goes, also when one is replaced.
LeastUsed == {p \in Entries : Cardinality(Entries) >= CacheCap /\ \A q \in Entries : cache[p].used <= cache[q].used}

InsertEntry(l) ==
  LET p == loading[l].path IN
  /\ loading[l].pc = "insert"
  /\ uses' = uses + 1
  /\ cache' = [q \in Paths |->
       IF q = p THEN [mtime |-> Stamp(l), content |-> loading[l].content, used |-> uses']
       ELSE IF q \in LeastUsed THEN NotCached ELSE cache[q]]
  /\ loading' = Loaded(l, "done", loading[l].content)
  /\ UNCHANGED <<index, writes>>

LoadStep(l) ==
  \/ \E p \in Paths : StatIndex(l, p)
  \/ LookupHit(l) \/ LookupMiss(l)
  \/ DecodeIndex(l)
  \/ InsertEntry(l)

ScipNext == (\E l \in Loads : LoadStep(l)) \/ (\E p \in Paths : ChangeIndex(p))

-----------------------------------------------------------------------------
(* Properties *)

Times == 0..MaxWrites
ScipTypeOK ==
  /\ index \in [Paths -> Times] /\ writes \in Times
  /\ cache \in [Paths -> [mtime : Times, content : Times, used : Nat]]
  /\ loading \in [Loads -> [pc : {"new", "lookup", "decode", "insert", "done", "failed"},
                            path : Paths \cup {None}, mtime : Times, content : Times]]
  /\ uses \in Nat

\* However builds, deletions and other loads interleave with the stat, the decode
\* and the insertion, a load never returns an index older than the file was when
\* the load began.
NoStaleIndex == \A l \in Loads : loading[l].pc = "done" => loading[l].content >= loading[l].mtime
=============================================================================
