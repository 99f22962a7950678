------------------------------- MODULE Common -------------------------------
(* What the modules of the smaller parts share.                            *)
CONSTANT None   \* no value: no client, no file, no process
=============================================================================
