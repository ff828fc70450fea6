----------------------------- MODULE Positions ------------------------------
(***************************************************************************)
(* What a filter keeps of a list, by the positions it keeps.               *)
(***************************************************************************)
EXTENDS Naturals, Sequences, FiniteSets

Nth(S, i) == CHOOSE n \in S : Cardinality({m \in S : m <= n}) = i

(* The elements of a sequence at the positions in S, in their order.  TLC   *)
(* computes a SubSeq once, the function it is all of at every application.  *)
KeepAt(seq, S) ==
  LET n == Cardinality(S) IN SubSeq([i \in 1..n |-> seq[Nth(S, i)]], 1, n)
=============================================================================
