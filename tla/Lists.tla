------------------------------- MODULE Lists -------------------------------
(* What the modules of requests and answers have in common: the elements of  *)
(* a sequence that belong to a set.                                          *)
EXTENDS Sequences, SequencesExt

\* The elements of s that are in T, in their order.
Those(s, T) ==
    FoldLeft(LAMBDA kept, x : IF x \in T THEN Append(kept, x) ELSE kept, <<>>, s)

\* A sequence, of whatever.
IsList(s) == s \in Seq(ToSet(s))
=============================================================================
