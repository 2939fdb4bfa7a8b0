--------------------------- MODULE PolicyRegister ----------------------------
(***************************************************************************)
(* What the policy store promises: a chain that becomes longer by one      *)
(* valid successor at a time; a power loss may cost its tail, never an     *)
(* entry whose publication was acknowledged.  PolicyPublication implements *)
(* it.                                                                     *)
(***************************************************************************)
EXTENDS PolicyActivation

VARIABLES ledger,   \* the published entries, oldest first
          kept      \* the acknowledged ones

vars == <<ledger, kept>>

Init == ledger = <<>> /\ kept = {}

Extend ==
    /\ Len(ledger') = Len(ledger) + 1
    /\ SubSeq(ledger', 1, Len(ledger)) = ledger
    /\ Succeeds(ledger, ledger'[Len(ledger')])
    /\ UNCHANGED kept

Acknowledge ==
    /\ \E n \in 1..Len(ledger) : kept' = kept \cup {ledger[n]}
    /\ UNCHANGED ledger

Lose ==
    /\ \E n \in 0..Len(ledger) : ledger' = SubSeq(ledger, 1, n)
    /\ \A e \in kept : \E n \in 1..Len(ledger') : ledger'[n] = e
    /\ UNCHANGED kept

Next == Extend \/ Acknowledge \/ Lose

Spec == Init /\ [][Next]_vars
=============================================================================
