---------------------------- MODULE MCD5Generation ----------------------------
(* Symmetry sets for the runs of D5Generation. *)
EXTENDS D5GenerationInv, TLC

Symmetric == Permutations(Workers) \cup Permutations(Recoverers) \cup Permutations(Claimants)
=============================================================================
