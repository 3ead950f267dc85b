----------------------------- MODULE MCCatalogue -----------------------------
(* Small instances of Catalogue for TLC. *)
EXTENDS Catalogue, TLC

\* Nodes and countries are told apart by nothing but their rows.
Symmetry == Permutations(Nodes) \cup Permutations(Countries)
=============================================================================
