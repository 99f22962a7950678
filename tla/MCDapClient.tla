---------------------------- MODULE MCDapClient ----------------------------
(* Small instances of DapClient for TLC. *)
EXTENDS DapClient, TLC

CallSymmetry == Permutations(Calls)
=============================================================================
