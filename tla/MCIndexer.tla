----------------------------- MODULE MCIndexer -----------------------------
(* Small instances of Indexer for TLC. *)
EXTENDS IndexerRefinement, TLC

CONSTANTS r1, r2, s1, s2

OneRepo   == {r1}
TwoRepos  == {r1, r2}
TwoShas   == {s1, s2}

\* Directory names: one per repository.
Slugs     == [r \in Repos |-> r]

\* Slugs treats repositories alike, so they are interchangeable too.
KeySymmetry == Permutations(Shas) \cup Permutations(Repos)
=============================================================================
