--------------------------- MODULE TemporalStoreInv ---------------------------
(***************************************************************************)
(* The inductive invariant of TemporalStore, in named parts: first what    *)
(* each process may rely on when it resumes at its current step, then what *)
(* the files and pointers say whoever runs.                                *)
(***************************************************************************)
EXTENDS TemporalStore

\* The steps of a call after its claim has become evidence of its attempt.
ClaimedSteps == Steps \ {"idle", "claimFile", "sweep", "recoverLock"}

\* The advisory lock is held by the one process inside a locked block.
HoldsLock(p) == pc[p] \in LockedSteps <=> lock = p

\* Each kind of process keeps to its own steps.
OwnSteps(p) ==
    /\ p \in Workers =>
          pc[p] \notin {"sweep", "recoverLock", "recoverFailure", "recoverClear"}
    /\ p \in Recoverers =>
          pc[p] \in {"idle", "sweep", "recoverLock", "head", "clear",
                     "recoverFailure", "recoverClear"}

\* The claim in hand is durable in its attempt directory.
ClaimInHand(p) ==
    /\ pc[p] = "claimFile" => mine[p] # None
    /\ pc[p] \in ClaimedSteps =>
          /\ mine[p] # None
          /\ claimOf[mine[p].att] = mine[p]

\* What the next step takes from the attempt directory is there.
FilesInOrder(p) ==
    /\ pc[p] \in {"bundle", "object", "completion"} => semanticOf[mine[p].att] # None
    /\ pc[p] \in {"object", "completion"} => bundleOf[mine[p].att] # None
    /\ pc[p] = "completion" => Built(mine[p]) \in objects
    /\ pc[p] \in {"publishLock", "head", "clear"} => completionOf[mine[p].att] # None

\* What was read under the lock still holds until the lock is released.
LockedReads(p) ==
    /\ pc[p] = "claimActive" => active = None /\ head = mine[p].base
    /\ pc[p] = "head" => active = mine[p] /\ head = mine[p].base
    /\ pc[p] = "clear" =>
          head.seq = Proposed(mine[p]) /\ head.comp = completionOf[mine[p].att]

\* A result is reported only by a call that has ended, and "completed" means
\* that the chain holds the completion at the proposed sequence.
ResultHolds(p) ==
    /\ pc[p] # "idle" => outcome[p] = "none"
    /\ outcome[p] = "completed" =>
          /\ mine[p] # None
          /\ completionOf[mine[p].att] # None
          /\ Proposed(mine[p]) \in DOMAIN committed
          /\ committed[Proposed(mine[p])] = completionOf[mine[p].att]

ProcInv(p) ==
    /\ HoldsLock(p)
    /\ OwnSteps(p)
    /\ ClaimInHand(p)
    /\ FilesInOrder(p)
    /\ LockedReads(p)
    /\ ResultHolds(p)

\* A claim file names its own attempt; the active claim's is durable.
ClaimsDurable ==
    /\ \A a \in Attempts : claimOf[a] # None => claimOf[a].att = a
    /\ active # None => claimOf[active.att] = active

\* A prepared completion is its attempt's own; its object and every receipt it
\* commits to are durable.
PreparedDurable ==
    \A a \in Attempts :
        completionOf[a] # None =>
            /\ completionOf[a] \in objects
            /\ claimOf[a] # None
            /\ semanticOf[a] # None
            /\ bundleOf[a] # None
            /\ completionOf[a] = [att |-> a, sem |-> semanticOf[a], art |-> bundleOf[a]]

\* The head is the end of the chain, each completion in the chain is the one
\* its attempt prepared, and its claim cites the completion before it.
ChainLinked ==
    /\ head.seq = Len(committed)
    /\ head.comp = IF committed = <<>> THEN None ELSE committed[Len(committed)]
    /\ \A i \in 1..Len(committed) :
          /\ completionOf[committed[i].att] = committed[i]
          /\ claimOf[committed[i].att].base
                = [seq  |-> i - 1,
                   comp |-> IF i = 1 THEN None ELSE committed[i - 1]]

StoreInv == ClaimsDurable /\ PreparedDurable /\ ChainLinked /\ ActiveIsCurrent

IInv ==
    /\ TypeOK
    /\ \A p \in Procs : ProcInv(p)
    /\ StoreInv

\* Executions start only below MaxSeq, so neither pointer gets past it.
WithinBound ==
    /\ head.seq <= MaxSeq
    /\ active # None => active.base.seq < MaxSeq
    /\ \A p \in Procs : mine[p] # None => mine[p].base.seq < MaxSeq

\* Whoever is about to retire a claim has the reason on disk: record_failure its
\* failure receipt, recover the marker it read under the lock and, unless it
\* publishes, the recovery failure.
Retiring(p) ==
    /\ pc[p] \in {"failureLock", "recoverClear"} => failureOf[mine[p].att] # None
    /\ p \in Recoverers /\ pc[p] \in {"head", "clear", "recoverFailure", "recoverClear"}
          => active = mine[p]

-----------------------------------------------------------------------------
(***************************************************************************)
(* What holds besides when every execution has an attempt id of its own    *)
(* and recover is not run while executions are in flight.                  *)
(***************************************************************************)
Apart == ~SharedAttempts /\ ~LiveRecovery

\* The steps before the completion of the attempt is prepared, those after its
\* claim was accepted, and those after an exception.
PreparingSteps == {"claimFile", "claimLock", "claimActive", "semantic", "bundle",
                   "object", "completion"}
AcceptedSteps  == {"semantic", "bundle", "object", "completion", "publishLock",
                   "head", "clear"}
FailingSteps   == {"failure", "failureLock"}

\* Executions and recoveries keep out of each other's way, and so do executions.
OneAtATime ==
    /\ (\A w \in Workers : pc[w] = "idle") \/ (\A r \in Recoverers : pc[r] = "idle")
    /\ \A v, w \in Workers :
          pc[v] # "idle" /\ pc[w] # "idle" /\ v # w => mine[v].att # mine[w].att

\* A temporary file is there only between two steps of one installation, and
\* nobody takes it from a worker.
OwnTemp ==
    /\ \A p \in Procs : temp[p] # "none" => pc[p] \in InstallSteps \cup ReplaceSteps
    /\ \A w \in Workers : temp[w] # "swept"

\* From its acceptance to its commit a claim is the active one; until then, and
\* after an exception, its attempt has no completion.
OwnClaim(w) ==
    /\ pc[w] \in AcceptedSteps => active = mine[w]
    /\ pc[w] \in PreparingSteps \cup FailingSteps => completionOf[mine[w].att] = None
    /\ pc[w] \in PreparingSteps => failureOf[mine[w].att] = None

\* An attempt that failed has no completion to publish, and will have none.
FailedUnprepared ==
    /\ \A a \in Attempts :
          failureOf[a] # None => claimOf[a] # None /\ completionOf[a] = None
    /\ \A r \in Recoverers :
          pc[r] = "recoverFailure" => completionOf[mine[r].att] = None

ApartInv == OneAtATime /\ OwnTemp /\ (\A w \in Workers : OwnClaim(w)) /\ FailedUnprepared
=============================================================================
