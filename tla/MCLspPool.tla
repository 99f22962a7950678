----------------------------- MODULE MCLspPool -----------------------------
(* TLC instances of LspPool: callers and slots are interchangeable.        *)
EXTENDS LspPool, TLC
PoolSymmetry == Permutations(Calls) \cup Permutations(Slots)
=============================================================================
