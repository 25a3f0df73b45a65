------------------------------- MODULE Sublists -------------------------------
(***************************************************************************)
(* What is left of a list when elements are unlinked from it.  It is what  *)
(* SelectSeq gives, stated by the places that stay instead of recursively, *)
(* so that it can be reasoned about.                                       *)
(***************************************************************************)
EXTENDS Naturals, Sequences, FiniteSets

\* The elements at the places I of the list, in their order: the k-th of them is
\* at the place of I that has k places of I up to it.
Sublist(list, I) ==
  [k \in 1 .. Cardinality(I) |-> list[CHOOSE i \in I : Cardinality({j \in I : j <= i}) = k]]
===============================================================================
