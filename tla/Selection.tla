----------------------------- MODULE Selection ------------------------------
(***************************************************************************)
(* A part of a sequence.  It is named by its positions, so that what holds *)
(* of it can be stated, and proved, for every part.                        *)
(***************************************************************************)
EXTENDS Naturals, Sequences, FiniteSets

\* The elements at the positions in I, in their order.
Selected(s, I) ==
  [k \in 1..Cardinality(I) |-> s[CHOOSE i \in I : Cardinality({j \in I : j <= i}) = k]]
=============================================================================
