---------------------------- MODULE TemporalChain ----------------------------
(***************************************************************************)
(* What the temporal store promises its readers, without files, processes  *)
(* or crashes (docs/ATOMIC_TEMPORAL_COMPLETION_v0.5.md, "Purpose"): one    *)
(* chain of completions that only grows at its end, and at most one holder *)
(* of the right to extend it.  TemporalStore implements this module.       *)
(***************************************************************************)
EXTENDS Integers, Sequences

CONSTANTS
    Claims,         \* clock claims: records with fields att and base
    Completions,    \* completion receipts: records with a field att
    None            \* "no claim", "no completion"

VARIABLES
    chain,          \* the committed completions, oldest first
    holder          \* the claim that may extend the chain, or None

vars == <<chain, holder>>

\* The committed head a reader sees: a sequence number and the completion it
\* cites (TemporalHead).
Tip(ch) == [seq  |-> Len(ch),
            comp |-> IF ch = <<>> THEN None ELSE ch[Len(ch)]]

Init ==
    /\ chain = <<>>
    /\ holder = None

\* One claim is accepted, for the immediate successor of the current head.
Acquire ==
    /\ holder = None
    /\ holder' \in Claims
    /\ holder'.base = Tip(chain)
    /\ UNCHANGED chain

\* The holder's own completion extends the chain; the claim is spent.
Commit ==
    /\ holder # None
    /\ \E x \in Completions : x.att = holder.att /\ chain' = Append(chain, x)
    /\ holder' = None

\* The claim is released without an effect on the chain.
Abandon ==
    /\ holder # None
    /\ holder' = None
    /\ UNCHANGED chain

Next == Acquire \/ Commit \/ Abandon

Spec == Init /\ [][Next]_vars
=============================================================================
