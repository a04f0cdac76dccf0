---------------------------- MODULE MCCatalogue ----------------------------
(* Catalogue for TLC: the provider gives the TMDB id of the item k1 only.  *)
EXTENDS Catalogue, TLC

CONSTANTS k1, t1

MCKnown == [i \in Item |-> IF i = k1 THEN t1 ELSE None]

Symmetry == Permutations(Hash) \cup Permutations(Slot)
=============================================================================
