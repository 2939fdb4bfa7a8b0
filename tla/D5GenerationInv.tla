--------------------------- MODULE D5GenerationInv ---------------------------
(***************************************************************************)
(* The inductive invariant of D5Generation: what the steps of one process  *)
(* leave for the process that finds its files after a death.               *)
(***************************************************************************)
EXTENDS D5Generation

PrepareSteps == {"manifest", "completion", "receipts", "bundle", "marker"}

Stored(g) == g \in manifests /\ g \in completions /\ g \in receipts

HoldsLock(p) == pc[p] \in LockedSteps <=> lock = p

OwnSteps(p) ==
    p \in Recoverers => pc[p] \in {"idle", "events", "unlinkMarker", "unlinkBundle"}

CallPending(p) ==
    /\ p \in Workers /\ pc[p] # "idle" => outcome[p] = "none"
    /\ pc[p] = "claimed" => claim[p] # None
    /\ pc[p] \in LockedSteps \cup {"held"} => gen[p] # None

\* A generation in preparation extends the chain and takes over no other claim.
Preparing(p) ==
    pc[p] \in PrepareSteps =>
        /\ gen[p].base = current
        /\ active # None => ClaimOf(active) = ClaimOf(gen[p])

\* The files are installed in this order.
InOrder(p) ==
    /\ pc[p] \in PrepareSteps \ {"manifest"} => gen[p] \in manifests
    /\ pc[p] \in {"receipts", "bundle", "marker"} => gen[p] \in completions
    /\ pc[p] \in {"bundle", "marker", "held"} => Stored(gen[p])

\* Commit and recover finish the marker's generation; a commit unlinks it only
\* once the generation is published.
Finishing(p) ==
    /\ pc[p] = "events" => active = gen[p] /\ gen[p].base = current
    /\ pc[p] = "unlinkBundle" => active = None
    /\ pc[p] \in {"unlinkMarker", "unlinkBundle"} /\ p \in Workers
          => current = Chain(gen[p])

ProcInv(p) ==
    /\ HoldsLock(p)
    /\ OwnSteps(p)
    /\ CallPending(p)
    /\ Preparing(p)
    /\ InOrder(p)
    /\ Finishing(p)

FilesStored ==
    /\ active # None => Stored(active)
    /\ prepared # None => Stored(prepared)

\* What holds between any two steps: every process is where its files say, the
\* files the marker and the bundle cite are durable whoever died, and the three
\* safety properties hold.
StoreInv ==
    /\ TypeOK
    /\ \A p \in Procs : ProcInv(p)
    /\ FilesStored
    /\ MarkerIsCurrent
    /\ GenerationsReconstruct
    /\ CommitsArePublished
=============================================================================
