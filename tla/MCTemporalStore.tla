--------------------------- MODULE MCTemporalStore ---------------------------
(* Symmetry sets for the model-checking runs of TemporalStore. *)
EXTENDS TemporalStoreInv, TLC

Symmetric ==
    Permutations(Workers) \cup Permutations(Attempts)
      \cup Permutations(Results) \cup Permutations(FailureReceipts)
=============================================================================
