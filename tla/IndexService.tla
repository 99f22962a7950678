---------------------------- MODULE IndexService ----------------------------
(***************************************************************************)
(* What the indexer promises the tools that use it, between two starts of  *)
(* the process: a commit that is asked for waits, is indexed once at a     *)
(* time and ends up indexed or failed.  How the work gets from the caller  *)
(* to the worker, and in which order, is not said.                         *)
(***************************************************************************)
EXTENDS Naturals, FiniteSets

CONSTANTS Repos, Shas, MaxRetention,
          Nothing   \* no commit is being indexed

VARIABLES waiting,  \* commits asked for and not yet begun
          running,  \* the commit that is being indexed, or Nothing
          indexed,  \* commits that queries are answered from
          failed    \* commits to be asked for again

serviceVars == <<waiting, running, indexed, failed>>

Commits == Repos \X Shas
Of(r, S) == {k \in S : k[1] = r}

ServiceInit ==
  /\ waiting = {} /\ running = Nothing /\ indexed = {} /\ failed = {}

\* Only a commit that is neither indexed nor on its way there is taken on.
Ask(k) ==
  /\ k \notin waiting \cup indexed /\ running # k
  /\ waiting' = waiting \cup {k}
  /\ failed' = failed \ {k}
  /\ UNCHANGED <<running, indexed>>

\* No room for it.
Drop(k) ==
  /\ k \in waiting
  /\ waiting' = waiting \ {k}
  /\ failed' = failed \cup {k}
  /\ UNCHANGED <<running, indexed>>

Start(k) ==
  /\ running = Nothing /\ k \in waiting
  /\ waiting' = waiting \ {k}
  /\ running' = k
  /\ UNCHANGED <<indexed, failed>>

\* The index is there.  Others of the repository may go, and so may this one if it
\* was asked for too long ago, but some index of the repository stays.
Finish(k) ==
  /\ running = k
  /\ running' = Nothing
  /\ \E kept \in SUBSET Of(k[1], indexed \cup {k}) :
       /\ kept # {} /\ Cardinality(kept) <= MaxRetention
       /\ indexed' = kept \cup (indexed \ Of(k[1], indexed))
  /\ UNCHANGED <<waiting, failed>>

Fail(k) ==
  /\ running = k
  /\ running' = Nothing
  /\ failed' = failed \cup {k}
  /\ UNCHANGED <<waiting, indexed>>

ServiceNext ==
  \E k \in Commits : Ask(k) \/ Drop(k) \/ Start(k) \/ Finish(k) \/ Fail(k)

ServiceSpec == ServiceInit /\ [][ServiceNext]_serviceVars
=============================================================================
