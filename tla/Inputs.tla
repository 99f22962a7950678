------------------------------- MODULE Inputs -------------------------------
(***************************************************************************)
(* The functions of the server that keep no state are operators; their     *)
(* properties are checked on one input at a time.  An input names the      *)
(* function it is for in its field `of`.                                   *)
(***************************************************************************)
EXTENDS Integers, SequencesExt, Common

VARIABLE input

Is(f) == input.of = f

\* The elements that pass.
Kept(s, Test(_)) == FlattenSeq([i \in DOMAIN s |-> IF Test(s[i]) THEN <<s[i]>> ELSE <<>>])

\* The elements whose key has not come before, and the elements without repetition.
Firsts(s, key(_)) ==
  FlattenSeq([i \in DOMAIN s |-> IF \E j \in 1..i - 1 : key(s[j]) = key(s[i]) THEN <<>> ELSE <<s[i]>>])
Distinct(s) == Firsts(s, LAMBDA e : e)

\* filter_map: f of each element for which it is not None.
Mapped(s, f(_)) == Kept([i \in DOMAIN s |-> f(s[i])], LAMBDA e : e # None)

\* The first element that passes, or None.
First(s, Test(_)) == LET i == SelectInSeq(s, Test) IN IF i = 0 THEN None ELSE s[i]
=============================================================================
