----------------------------- MODULE MCLspDocs -----------------------------
(* TLC instances of LspDocs: calls and files are interchangeable.          *)
EXTENDS LspDocs, TLC
DocsSymmetry == Permutations(Calls) \cup Permutations(Files)
=============================================================================
