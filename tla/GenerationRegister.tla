-------------------------- MODULE GenerationRegister --------------------------
(***************************************************************************)
(* What the D5 generation store promises its readers (the docstring of     *)
(* governance/v0_5/_d5_generation.py, "Atomicity model"): a chain of       *)
(* generations that becomes longer by one prepared candidate at a time,    *)
(* all its registries at once, or not at all.  D5Generation implements it. *)
(***************************************************************************)
EXTENDS Sequences

CONSTANTS
    Ticks,          \* what a generation adds: records with a field by, its claimant
    None            \* no candidate

VARIABLES
    chain,          \* the published generations, oldest first
    candidate       \* the tick that may extend the chain, or None

vars == <<chain, candidate>>

Init == chain = <<>> /\ candidate = None

\* One claimant at a time holds the candidate, and may prepare another one.
Nominate ==
    /\ candidate' \in Ticks
    /\ candidate # None => candidate.by = candidate'.by
    /\ UNCHANGED chain

Publish ==
    /\ candidate # None
    /\ chain' = Append(chain, candidate)
    /\ candidate' = None

Withdraw ==
    /\ candidate' = None
    /\ UNCHANGED chain

Next == Nominate \/ Publish \/ Withdraw

Spec == Init /\ [][Next]_vars
=============================================================================
