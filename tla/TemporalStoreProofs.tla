-------------------------- MODULE TemporalStoreProofs --------------------------
(***************************************************************************)
(* Proofs about TemporalStore for any number of processes, attempts,       *)
(* events and results.  One lemma per action shows that it keeps the       *)
(* inductive invariant IInv and clobbers no immutable file; OthersKeep     *)
(* shows once that a step of one process leaves the others what they have  *)
(* read.  The theorems at the end follow from the invariant.               *)
(***************************************************************************)
EXTENDS TemporalStoreInv, SequenceTheorems, WellFoundedInduction, TLAPS

\* Moving a process to another step of its call keeps the control types.
LEMMA GotoType ==
    ASSUME TypeOK, NEW p \in Procs, NEW s \in Steps, Goto(p, s)
    PROVE  pc' \in [Procs -> Steps]
BY DEF TypeOK, Goto

\* Ending a call with its result keeps the control types.
LEMMA ReturnType ==
    ASSUME TypeOK, NEW p \in Procs, NEW o \in Outcomes, Return(p, o)
    PROVE  pc' \in [Procs -> Steps] /\ outcome' \in [Procs -> Outcomes]
BY DEF TypeOK, Return, Goto, Steps

\* An exception of the store leaves a process either at record_failure (inside
\* complete_claim's try block) or out of its call: the control types hold.
LEMMA RaiseType ==
    ASSUME TypeOK, NEW p \in Procs, Raise(p)
    PROVE  pc' \in [Procs -> Steps] /\ outcome' \in [Procs -> Outcomes]
<1>1. CASE p \in Workers /\ pc[p] \notin {"claimFile", "claimActive", "failure"}
  BY <1>1, GotoType DEF Raise, TypeOK, Steps, InstallSteps
<1>2. CASE ~(p \in Workers /\ pc[p] \notin {"claimFile", "claimActive", "failure"})
  BY <1>2, ReturnType DEF Raise, Outcomes
<1> QED BY <1>1, <1>2

\* An _install that succeeds keeps the types of control and temporary files.
LEMMA InstalledType ==
    ASSUME TypeOK, NEW p \in Procs, NEW old, NEW payload, NEW s \in Steps,
           Installed(p, old, payload, s)
    PROVE  /\ pc' \in [Procs -> Steps]
           /\ outcome' \in [Procs -> Outcomes]
           /\ temp' \in [Procs -> {"none", "written", "swept"}]
BY GotoType DEF TypeOK, Installed, DropTemp

\* An _install that raises keeps the types of control and temporary files.
LEMMA RefusedType ==
    ASSUME TypeOK, NEW p \in Procs, NEW old, NEW payload,
           InstallRefused(p, old, payload)
    PROVE  /\ pc' \in [Procs -> Steps]
           /\ outcome' \in [Procs -> Outcomes]
           /\ temp' \in [Procs -> {"none", "written", "swept"}]
BY RaiseType DEF TypeOK, InstallRefused, DropTemp

\* Between build_claim and the end of its call a process works for a real claim,
\* so the attempt directory it writes to exists.
LEMMA InHand ==
    ASSUME IInv, NEW p \in Procs, pc[p] \in ClaimedSteps \cup {"claimFile"}
    PROVE  mine[p] \in Claim /\ mine[p].att \in Attempts
BY DEF IInv, TypeOK, ProcInv, ClaimInHand, Claim

\* Only process p moves, and what the others hold in hand stays.
OthersStay(p) ==
    \A q \in Procs \ {p} :
        /\ pc'[q] = pc[q]
        /\ mine'[q] = mine[q]
        /\ outcome'[q] = outcome[q]

\* The lock is taken or given back by p alone.
LockStays(p) == lock' = lock \/ (lock \in {None, p} /\ lock' \in {None, p})

\* What the chain holds it keeps.
ChainGrows ==
    \A i \in DOMAIN committed : i \in DOMAIN committed' /\ committed'[i] = committed[i]

\* Whatever one process does, if immutable files keep their bytes and the two
\* pointers move only under the advisory lock, the other processes may still
\* rely on what they have read: their part of the invariant is kept.
LEMMA OthersKeep ==
    ASSUME IInv, FilesGrow, ChainGrows, NEW p \in Procs, NEW q \in Procs \ {p},
           OthersStay(p), LockStays(p),
           UNCHANGED pointers \/ lock \in {None, p}
    PROVE  ProcInv(q)'
<1> USE DEF IInv, ProcInv, OthersStay
<1>0. q # None /\ q # p
  BY ConstantsAssumption DEF Procs
<1>1. lock' = q <=> lock = q
  BY <1>0 DEF LockStays
<1>2. HoldsLock(q)' /\ OwnSteps(q)'
  BY <1>1 DEF HoldsLock, OwnSteps
<1>3. pc[q] \in LockedSteps => UNCHANGED pointers
  BY <1>0 DEF HoldsLock
<1>4. /\ pc[q] \in ClaimedSteps \cup {"claimFile"} =>
            mine[q] \in Claim /\ mine[q].att \in Attempts
      /\ mine[q] # None => mine[q] \in Claim /\ mine[q].att \in Attempts
  BY InHand DEF TypeOK, Claim
<1>5. ClaimInHand(q)'
  BY <1>4 DEF ClaimInHand, FilesGrow
<1>6. FilesInOrder(q)'
  <2>1. pc[q] \in {"bundle", "object", "completion", "publishLock", "head", "clear"}
           => pc[q] \in ClaimedSteps
    BY DEF ClaimedSteps, Steps, InstallSteps, ReplaceSteps, WaitSteps
  <2>2. pc[q] = "completion" => Built(mine[q])' = Built(mine[q])
    BY <1>4, <2>1 DEF Built, FilesInOrder, FilesGrow
  <2> QED BY <1>4, <2>1, <2>2 DEF FilesInOrder, FilesGrow, TypeOK
<1>7. LockedReads(q)'
  BY <1>3, <1>4 DEF LockedReads, FilesInOrder, FilesGrow, LockedSteps, Proposed, pointers,
     ClaimedSteps, Steps, InstallSteps, ReplaceSteps, WaitSteps
<1>8. ResultHolds(q)'
  BY <1>4 DEF ResultHolds, ChainGrows, FilesGrow, Proposed
<1> QED BY <1>2, <1>5, <1>6, <1>7, <1>8

\* A step that leaves the head alone and clobbers no file leaves every link that
\* reconstruct_chain follows as it was.
LEMMA ChainKept ==
    ASSUME IInv, FilesGrow, UNCHANGED <<head, committed>>
    PROVE  ChainLinked'
<1> USE DEF IInv, StoreInv, TypeOK, ChainLinked
<1>1. ASSUME NEW i \in 1..Len(committed)
      PROVE  /\ completionOf'[committed[i].att] = completionOf[committed[i].att]
             /\ claimOf'[committed[i].att] = claimOf[committed[i].att]
  <2>1. committed[i] \in Completion /\ committed[i].att \in Attempts
    <3>1. committed \in Seq(Completion)
      OBVIOUS
    <3>2. committed[i] \in Completion
      BY <3>1, ElementOfSeq
    <3> QED BY <3>2 DEF Completion
  <2>2. committed[i] # None
    BY <2>1, ConstantsAssumption DEF Completion
  <2> QED BY <2>1, <2>2 DEF PreparedDurable, FilesGrow
<1> QED BY <1>1

\* A head past genesis cites a completion.
LEMMA HeadDurable ==
    ASSUME IInv, head.seq # 0
    PROVE  head.comp # None
<1>1. committed # <<>>
  BY DEF IInv, StoreInv, TypeOK, ChainLinked
<1>2. committed[Len(committed)] \in Completion
  BY <1>1 DEF IInv, TypeOK
<1> QED BY <1>1, <1>2, ConstantsAssumption DEF IInv, StoreInv, ChainLinked, Completion

\* A step that moves neither pointer keeps the active claim current, because the
\* completion the head cites can not change at its path.
LEMMA CurrentKept ==
    ASSUME IInv, FilesGrow, UNCHANGED pointers
    PROVE  ActiveIsCurrent'
BY HeadDurable DEF IInv, StoreInv, TypeOK, ActiveIsCurrent, FilesGrow, Proposed, pointers, Claim, TemporalHead

\* A step of one process that moves neither pointer keeps the invariant as soon
\* as it keeps that process's own part and the durability of claims and
\* completions.
LEMMA QuietStep ==
    ASSUME IInv, TypeOK', FilesGrow, NEW p \in Procs,
           OthersStay(p), LockStays(p), UNCHANGED <<head, active, committed>>,
           ProcInv(p)', ClaimsDurable', PreparedDurable'
    PROVE  IInv' /\ FilesGrow
<1>1. \A q \in Procs : ProcInv(q)'
  BY OthersKeep DEF ChainGrows, pointers
<1> QED BY <1>1, ChainKept, CurrentKept DEF IInv, StoreInv, pointers

\* build_claim only reads the head.
LEMMA BuildClaimStep ==
    ASSUME IInv, NEW w \in Workers, BuildClaim(w)
    PROVE  IInv' /\ FilesGrow
<1> USE DEF BuildClaim, Goto, Procs, files, pointers
<1>1. TypeOK'
  BY DEF IInv, TypeOK, Steps, InstallSteps, Claim, Outcomes
<1>2. FilesGrow /\ OthersStay(w) /\ LockStays(w)
  BY DEF IInv, TypeOK, FilesGrow, OthersStay, LockStays
<1>3. ProcInv(w)'
  BY ConstantsAssumption DEF IInv, TypeOK, ProcInv, HoldsLock, LockedSteps, OwnSteps, ClaimInHand,
     ClaimedSteps, FilesInOrder, LockedReads, ResultHolds, Claim
<1>4. ClaimsDurable' /\ PreparedDurable'
  BY DEF IInv, StoreInv, ClaimsDurable, PreparedDurable
<1> QED BY <1>1, <1>2, <1>3, <1>4, QuietStep

\* claim_successor records the claim without the lock: a second claim of the same
\* attempt is refused and no file changes.
LEMMA InstallClaimStep ==
    ASSUME IInv, NEW w \in Workers, InstallClaim(w)
    PROVE  IInv' /\ FilesGrow
<1> DEFINE a == mine[w].att
<1> USE DEF InstallClaim, Procs, files, pointers
<1>1. mine[w] \in Claim /\ a \in Attempts
  BY InHand
<1>2. TypeOK'
  BY <1>1, InstalledType, RefusedType DEF IInv, TypeOK, Steps, WaitSteps
<1>3. /\ FilesGrow /\ OthersStay(w) /\ LockStays(w)
      /\ \/ pc'[w] = "claimLock" /\ claimOf'[a] = mine[w] /\ outcome'[w] = outcome[w]
         \/ pc'[w] = "idle" /\ outcome'[w] = "raised"
  BY <1>1, ConstantsAssumption DEF IInv, TypeOK, FilesGrow, OthersStay, LockStays, Installed, InstallRefused,
     Installs, Raise, Return, Goto
<1>4. ProcInv(w)'
  BY <1>1, <1>3, ConstantsAssumption DEF IInv, TypeOK, ProcInv, HoldsLock, LockedSteps, OwnSteps, ClaimInHand,
     ClaimedSteps, FilesInOrder, LockedReads, ResultHolds, Claim
<1>5. ClaimsDurable' /\ PreparedDurable'
  BY <1>1, <1>3, ConstantsAssumption DEF IInv, TypeOK, StoreInv, ClaimsDurable, PreparedDurable, Installed, Installs, FilesGrow, Claim
<1> QED BY <1>2, <1>3, <1>4, <1>5, QuietStep

\* claim_successor's comparison under the lock justifies the write that follows.
LEMMA ClaimUnderLockStep ==
    ASSUME IInv, NEW w \in Workers, ClaimUnderLock(w)
    PROVE  IInv' /\ FilesGrow
<1> USE DEF ClaimUnderLock, Procs, files, pointers
<1>1. mine[w] \in Claim /\ mine[w].att \in Attempts
  BY InHand DEF ClaimedSteps, Steps, WaitSteps
<1>2. TypeOK'
  BY GotoType, ReturnType DEF IInv, TypeOK, Steps, InstallSteps, ReplaceSteps, Outcomes, KeepLock
<1>3. /\ FilesGrow /\ OthersStay(w) /\ LockStays(w)
      /\ \/ pc'[w] = "idle" /\ outcome'[w] = "rejected" /\ lock' = lock
         \/ pc'[w] = "semantic" /\ outcome'[w] = outcome[w] /\ lock' = lock
         \/ /\ pc'[w] = "claimActive" /\ outcome'[w] = outcome[w]
            /\ lock' = w /\ head = mine[w].base /\ active = None
  BY <1>1, ConstantsAssumption DEF IInv, TypeOK, FilesGrow, OthersStay, LockStays, Return, Goto, KeepLock, ClaimVerdict
<1>4. ProcInv(w)'
  BY <1>1, <1>3, ConstantsAssumption DEF IInv, TypeOK, ProcInv, HoldsLock, LockedSteps, OwnSteps, ClaimInHand,
     ClaimedSteps, Steps, WaitSteps, FilesInOrder, LockedReads, ResultHolds, Claim
<1>5. ClaimsDurable' /\ PreparedDurable'
  BY DEF IInv, StoreInv, ClaimsDurable, PreparedDurable
<1> QED BY <1>2, <1>3, <1>4, <1>5, QuietStep

\* claim_successor's _replace(active_path) is done with the lock held, so the
\* head it compared is still the head: the new active claim is current.
LEMMA ReplaceActiveStep ==
    ASSUME IInv, NEW w \in Workers, ReplaceActive(w)
    PROVE  IInv' /\ FilesGrow
<1> USE DEF ReplaceActive, Procs, files, pointers
<1>1. mine[w] \in Claim /\ mine[w].att \in Attempts /\ claimOf[mine[w].att] = mine[w]
  BY InHand DEF IInv, ProcInv, ClaimInHand, ClaimedSteps, Steps, ReplaceSteps
<1>2. TypeOK'
  BY <1>1, GotoType, RaiseType DEF IInv, TypeOK, Steps, InstallSteps, Unlock, DropTemp
<1>3. /\ FilesGrow /\ OthersStay(w) /\ LockStays(w) /\ ChainGrows /\ lock = w /\ lock' = None
      /\ \/ pc'[w] = "idle" /\ outcome'[w] = "raised" /\ active' = active
         \/ /\ pc'[w] = "semantic" /\ outcome'[w] = outcome[w]
            /\ active' = mine[w] /\ head = mine[w].base
  BY <1>1, ConstantsAssumption DEF IInv, TypeOK, FilesGrow, OthersStay, LockStays, ChainGrows, Return, Raise, Goto, Unlock,
     ProcInv, HoldsLock, LockedSteps, LockedReads
<1>4. ProcInv(w)'
  BY <1>1, <1>3, ConstantsAssumption DEF IInv, TypeOK, ProcInv, HoldsLock, LockedSteps, OwnSteps, ClaimInHand,
     ClaimedSteps, Steps, ReplaceSteps, FilesInOrder, LockedReads, ResultHolds, Claim
<1>5. ClaimsDurable' /\ PreparedDurable'
  BY <1>1, <1>3 DEF IInv, StoreInv, ClaimsDurable, PreparedDurable
<1>6. ActiveIsCurrent'
  BY <1>3 DEF IInv, StoreInv, ActiveIsCurrent, Proposed
<1>7. \A q \in Procs : ProcInv(q)'
  BY <1>3, <1>4, OthersKeep
<1> QED BY <1>2, <1>3, <1>5, <1>6, <1>7, ChainKept DEF IInv, StoreInv

\* Writing a temporary file disturbs nothing.
LEMMA WriteTempStep ==
    ASSUME IInv, NEW p \in Procs, WriteTemp(p)
    PROVE  IInv' /\ FilesGrow
<1> USE DEF WriteTemp, files, pointers
<1>1. TypeOK'
  BY DEF IInv, TypeOK
<1>2. FilesGrow /\ OthersStay(p) /\ LockStays(p)
  BY DEF FilesGrow, OthersStay, LockStays
<1>3. ProcInv(p)'
  BY DEF IInv, ProcInv, HoldsLock, OwnSteps, ClaimInHand, FilesInOrder, Built, LockedReads,
     Proposed, ResultHolds
<1>4. ClaimsDurable' /\ PreparedDurable'
  BY DEF IInv, StoreInv, ClaimsDurable, PreparedDurable
<1> QED BY <1>1, <1>2, <1>3, <1>4, QuietStep

\* A failed projection phase only moves the coordinator to record_failure.
LEMMA ProjectionErrorStep ==
    ASSUME IInv, NEW w \in Workers, ProjectionError(w)
    PROVE  IInv' /\ FilesGrow
<1> USE DEF ProjectionError, Goto, Procs, files, pointers
<1>1. TypeOK'
  BY DEF IInv, TypeOK, Steps, InstallSteps
<1>2. FilesGrow /\ OthersStay(w) /\ LockStays(w)
  BY DEF IInv, TypeOK, FilesGrow, OthersStay, LockStays
<1>3. ProcInv(w)'
  BY ConstantsAssumption DEF IInv, TypeOK, ProcInv, HoldsLock, LockedSteps, OwnSteps, ClaimInHand,
     ClaimedSteps, Steps, InstallSteps, FilesInOrder, LockedReads, ResultHolds
<1>4. ClaimsDurable' /\ PreparedDurable'
  BY DEF IInv, StoreInv, ClaimsDurable, PreparedDurable
<1> QED BY <1>1, <1>2, <1>3, <1>4, QuietStep

\* semantic.json is installed once; a retry with another receipt is refused.
LEMMA InstallSemanticStep ==
    ASSUME IInv, NEW w \in Workers, InstallSemantic(w)
    PROVE  IInv' /\ FilesGrow
<1> DEFINE a == mine[w].att
<1> USE DEF InstallSemantic, Procs, files, pointers
<1>1. mine[w] \in Claim /\ a \in Attempts
  BY InHand DEF ClaimedSteps, Steps, InstallSteps
<1>2. TypeOK'
  BY <1>1, InstalledType, RefusedType DEF IInv, TypeOK, Steps, InstallSteps
<1>3. /\ FilesGrow /\ OthersStay(w) /\ LockStays(w) /\ outcome'[w] = outcome[w]
      /\ \/ pc'[w] = "bundle" /\ semanticOf'[a] # None
         \/ pc'[w] = "failure"
  BY <1>1, ConstantsAssumption DEF IInv, TypeOK, FilesGrow, OthersStay, LockStays, Installed, InstallRefused,
     Installs, Raise, Return, Goto
<1>4. ProcInv(w)'
  BY <1>1, <1>3, ConstantsAssumption DEF IInv, TypeOK, ProcInv, HoldsLock, LockedSteps, OwnSteps, ClaimInHand,
     ClaimedSteps, Steps, InstallSteps, FilesInOrder, LockedReads, ResultHolds
<1>5. ClaimsDurable' /\ PreparedDurable'
  BY <1>3 DEF IInv, TypeOK, StoreInv, ClaimsDurable, PreparedDurable, FilesGrow
<1> QED BY <1>2, <1>3, <1>4, <1>5, QuietStep

\* projection-bundle.json is installed once; a retry with another bundle is refused.
LEMMA InstallBundleStep ==
    ASSUME IInv, NEW w \in Workers, InstallBundle(w)
    PROVE  IInv' /\ FilesGrow
<1> DEFINE a == mine[w].att
<1> USE DEF InstallBundle, Procs, files, pointers
<1>1. mine[w] \in Claim /\ a \in Attempts
  BY InHand DEF ClaimedSteps, Steps, InstallSteps
<1>2. TypeOK'
  BY <1>1, InstalledType, RefusedType DEF IInv, TypeOK, Steps, InstallSteps
<1>3. /\ FilesGrow /\ OthersStay(w) /\ LockStays(w) /\ outcome'[w] = outcome[w]
      /\ \/ pc'[w] = "object" /\ bundleOf'[a] # None
         \/ pc'[w] = "failure"
  BY <1>1, ConstantsAssumption DEF IInv, TypeOK, FilesGrow, OthersStay, LockStays, Installed, InstallRefused,
     Installs, Raise, Return, Goto
<1>4. ProcInv(w)'
  BY <1>1, <1>3, ConstantsAssumption DEF IInv, TypeOK, ProcInv, HoldsLock, LockedSteps, OwnSteps, ClaimInHand,
     ClaimedSteps, Steps, InstallSteps, FilesInOrder, LockedReads, ResultHolds
<1>5. ClaimsDurable' /\ PreparedDurable'
  BY <1>3 DEF IInv, TypeOK, StoreInv, ClaimsDurable, PreparedDurable, FilesGrow
<1> QED BY <1>2, <1>3, <1>4, <1>5, QuietStep

\* The completion a coordinator assembles from its attempt directory is well
\* formed: the receipts it commits to are durable.
LEMMA BuiltType ==
    ASSUME IInv, NEW p \in Procs, pc[p] \in {"object", "completion"}
    PROVE  /\ Built(mine[p]) \in Completion
           /\ Built(mine[p]) = [att |-> mine[p].att, sem |-> semanticOf[mine[p].att],
                               art |-> bundleOf[mine[p].att]]
           /\ semanticOf[mine[p].att] # None /\ bundleOf[mine[p].att] # None
           /\ mine[p] \in Claim /\ mine[p].att \in Attempts
           /\ claimOf[mine[p].att] = mine[p]
<1>1. pc[p] \in ClaimedSteps
  BY DEF ClaimedSteps, Steps, InstallSteps
<1> QED BY <1>1, InHand DEF IInv, TypeOK, ProcInv, ClaimInHand, FilesInOrder, Built, Completion, Claim

\* put_contract makes the completion object durable before completion.json cites it.
LEMMA PutCompletionObjectStep ==
    ASSUME IInv, NEW w \in Workers, PutCompletionObject(w)
    PROVE  IInv' /\ FilesGrow
<1> DEFINE c == Built(mine[w])
<1> USE DEF PutCompletionObject, Procs, files, pointers
<1>1. c \in Completion /\ mine[w] \in Claim /\ mine[w].att \in Attempts
  BY BuiltType
<1>2. TypeOK'
  BY <1>1, InstalledType, RefusedType DEF IInv, TypeOK, Steps, InstallSteps
<1>3. /\ FilesGrow /\ OthersStay(w) /\ LockStays(w) /\ outcome'[w] = outcome[w]
      /\ \/ pc'[w] = "completion" /\ c \in objects'
         \/ pc'[w] = "failure"
  BY <1>1, ConstantsAssumption DEF IInv, TypeOK, FilesGrow, OthersStay, LockStays, Installed, InstallRefused,
     Installs, Raise, Return, Goto
<1>4. ProcInv(w)'
  <2>1. Built(mine[w])' = c
    BY DEF Built
  <2> QED BY <2>1, <1>1, <1>3, ConstantsAssumption DEF IInv, TypeOK, ProcInv, HoldsLock, LockedSteps, OwnSteps, ClaimInHand,
     ClaimedSteps, Steps, InstallSteps, FilesInOrder, LockedReads, ResultHolds
<1>5. ClaimsDurable' /\ PreparedDurable'
  BY <1>3 DEF IInv, TypeOK, StoreInv, ClaimsDurable, PreparedDurable, FilesGrow
<1> QED BY <1>2, <1>3, <1>4, <1>5, QuietStep

\* prepare_completion installs completion.json once, over durable receipts.
LEMMA InstallCompletionStep ==
    ASSUME IInv, NEW w \in Workers, InstallCompletion(w)
    PROVE  IInv' /\ FilesGrow
<1> DEFINE a == mine[w].att
           c == Built(mine[w])
<1> USE DEF InstallCompletion, Procs, files, pointers
<1>1. /\ c \in Completion /\ mine[w] \in Claim /\ a \in Attempts
      /\ claimOf[a] = mine[w]
      /\ semanticOf[a] # None /\ bundleOf[a] # None
      /\ c = [att |-> a, sem |-> semanticOf[a], art |-> bundleOf[a]]
  BY BuiltType
<1>2. c \in objects
  BY DEF IInv, ProcInv, FilesInOrder
<1>3. TypeOK'
  BY <1>1, InstalledType, RefusedType DEF IInv, TypeOK, Steps, InstallSteps, WaitSteps
<1>4. /\ FilesGrow /\ OthersStay(w) /\ LockStays(w) /\ outcome'[w] = outcome[w]
      /\ \/ pc'[w] = "publishLock" /\ completionOf'[a] # None
         \/ pc'[w] = "failure"
  BY <1>1, ConstantsAssumption DEF IInv, TypeOK, FilesGrow, OthersStay, LockStays, Installed, InstallRefused,
     Installs, Raise, Return, Goto, Completion
<1>5. ProcInv(w)'
  BY <1>1, <1>4, ConstantsAssumption DEF IInv, TypeOK, ProcInv, HoldsLock, LockedSteps, OwnSteps, ClaimInHand,
     ClaimedSteps, Steps, InstallSteps, WaitSteps, FilesInOrder, LockedReads, ResultHolds
<1>6. ClaimsDurable'
  BY DEF IInv, StoreInv, ClaimsDurable
<1>7. PreparedDurable'
  BY <1>1, <1>2, ConstantsAssumption DEF IInv, TypeOK, StoreInv, PreparedDurable, Claim
<1> QED BY <1>3, <1>4, <1>5, <1>6, <1>7, QuietStep

\* _publish decides by what it reads under the lock; either write it goes on to
\* is justified by that reading.
LEMMA DecidePublishEffect ==
    ASSUME IInv, NEW p \in Procs, NEW c \in Claim, lock = None, DecidePublish(p, c),
           completionOf[c.att] # None
    PROVE  /\ \A q \in Procs \ {p} : pc'[q] = pc[q] /\ outcome'[q] = outcome[q]
           /\ pc' \in [Procs -> Steps] /\ outcome' \in [Procs -> Outcomes]
           /\ lock' \in {None, p}
           /\ \/ /\ pc'[p] = "idle" /\ outcome'[p] = "raised" /\ lock' = None
                 /\ p \in Workers => pc[p] \in {"claimFile", "claimActive", "failure"}
              \/ /\ pc'[p] = "failure" /\ outcome' = outcome /\ lock' = None
                 /\ p \in Workers
              \/ /\ pc'[p] = "head" /\ outcome' = outcome /\ lock' = p
                 /\ active = c /\ head = c.base
              \/ /\ pc'[p] = "clear" /\ outcome' = outcome /\ lock' = p
                 /\ head.seq = Proposed(c) /\ head.comp = completionOf[c.att]
<1> USE DEF IInv
<1>1. CASE PublishVerdict(c) = "raise"
  <2>1. Raise(p) /\ lock' = None
    BY <1>1 DEF DecidePublish, KeepLock
  <2> QED BY <2>1, RaiseType DEF TypeOK, Raise, Return, Goto
<1>2. CASE PublishVerdict(c) # "raise"
  <2>1. Goto(p, PublishVerdict(c)) /\ lock' = p /\ outcome' = outcome
    BY <1>2 DEF DecidePublish
  <2>2. PublishVerdict(c) \in {"head", "clear"}
    BY <1>2 DEF PublishVerdict
  <2> QED BY <2>1, <2>2, GotoType DEF TypeOK, Goto, PublishVerdict, Steps, ReplaceSteps
<1> QED BY <1>1, <1>2

\* publish_completion decides under the lock and keeps the lock while it writes.
LEMMA PublishUnderLockStep ==
    ASSUME IInv, NEW w \in Workers, PublishUnderLock(w)
    PROVE  IInv' /\ FilesGrow
<1> DEFINE c == mine[w]
<1> USE DEF PublishUnderLock, Procs, files, pointers
<1>1. c \in Claim /\ c.att \in Attempts /\ claimOf[c.att] = c /\ completionOf[c.att] # None
  BY InHand DEF IInv, ProcInv, ClaimInHand, FilesInOrder, ClaimedSteps, Steps, WaitSteps
<1>2. /\ \A q \in Procs \ {w} : pc'[q] = pc[q] /\ outcome'[q] = outcome[q]
      /\ pc' \in [Procs -> Steps] /\ outcome' \in [Procs -> Outcomes]
      /\ lock' \in {None, w}
      /\ \/ /\ pc'[w] = "failure" /\ outcome' = outcome /\ lock' = None
         \/ /\ pc'[w] = "head" /\ outcome' = outcome /\ lock' = w
            /\ active = c /\ head = c.base
         \/ /\ pc'[w] = "clear" /\ outcome' = outcome /\ lock' = w
            /\ head.seq = Proposed(c) /\ head.comp = completionOf[c.att]
  BY <1>1, DecidePublishEffect
<1>3. TypeOK'
  BY <1>2 DEF IInv, TypeOK
<1>4. FilesGrow /\ OthersStay(w) /\ LockStays(w)
  BY <1>2 DEF FilesGrow, OthersStay, LockStays
<1>5. ProcInv(w)'
  BY <1>1, <1>2, ConstantsAssumption DEF IInv, TypeOK, ProcInv, HoldsLock, LockedSteps, OwnSteps, ClaimInHand,
     ClaimedSteps, Steps, WaitSteps, FilesInOrder, LockedReads, Proposed, ResultHolds
<1>6. ClaimsDurable' /\ PreparedDurable'
  BY DEF IInv, StoreInv, ClaimsDurable, PreparedDurable
<1> QED BY <1>3, <1>4, <1>5, <1>6, QuietStep

\* _replace(head_path), the commit point: the head moves from the claim's base to
\* the prepared completion, which extends the linked chain by one.
LEMMA ReplaceHeadStep ==
    ASSUME IInv, NEW p \in Procs, ReplaceHead(p)
    PROVE  IInv' /\ FilesGrow
<1> DEFINE a == mine[p].att
           c == completionOf[a]
<1> USE DEF ReplaceHead, files, pointers
<1>1. /\ mine[p] \in Claim /\ a \in Attempts /\ claimOf[a] = mine[p]
      /\ c # None /\ c \in Completion /\ c.att = a
      /\ lock = p /\ active = mine[p] /\ head = mine[p].base
  BY InHand DEF IInv, TypeOK, ProcInv, ClaimInHand, FilesInOrder, HoldsLock, LockedReads,
     LockedSteps, ClaimedSteps, Steps, ReplaceSteps, StoreInv, PreparedDurable
<1>a. p # None
  BY ConstantsAssumption DEF Procs
<1>b. head.seq \in Nat /\ Proposed(mine[p]) = head.seq + 1
  BY <1>1 DEF Proposed, IInv, TypeOK, TemporalHead
<1>c. head.seq = Len(committed) /\ committed \in Seq(Completion)
  BY DEF IInv, TypeOK, StoreInv, ChainLinked
<1>2. CASE temp[p] = "written"
  <2>1. /\ head' = [seq |-> head.seq + 1, comp |-> c]
        /\ committed' = Append(committed, c)
        /\ \A q \in Procs \ {p} : pc'[q] = pc[q]
        /\ pc'[p] = "clear" /\ lock' = p /\ outcome' = outcome
    BY <1>1, <1>2, <1>b DEF Goto, KeepLock, IInv, TypeOK
  <2>2. /\ Len(committed') = head.seq + 1
        /\ committed'[head.seq + 1] = c
        /\ \A i \in 1..head.seq : committed'[i] = committed[i]
    BY <2>1, <1>c
  <2>3. TypeOK'
    <3>1. head' \in TemporalHead
      BY <2>1, <1>1, <1>b DEF TemporalHead
    <3>2. committed' \in Seq(Completion)
      BY <2>1, <1>1, <1>c
    <3>3. pc' \in [Procs -> Steps]
      BY <1>2, GotoType DEF IInv, Steps
    <3>4. temp' \in [Procs -> {"none", "written", "swept"}]
      BY DEF DropTemp, IInv, TypeOK
    <3> QED BY <2>1, <3>1, <3>2, <3>3, <3>4 DEF IInv, TypeOK
  <2>4. FilesGrow /\ OthersStay(p) /\ LockStays(p) /\ ChainGrows
    BY <1>1, <1>c, <2>1, <2>2 DEF FilesGrow, OthersStay, LockStays, ChainGrows
  <2>5. ProcInv(p)'
    BY <1>1, <1>b, <2>1, <2>2, <1>a DEF IInv, TypeOK, ProcInv, HoldsLock, LockedSteps, OwnSteps, ClaimInHand,
       ClaimedSteps, Steps, ReplaceSteps, FilesInOrder, LockedReads, Proposed, ResultHolds
  <2>6. ClaimsDurable' /\ PreparedDurable'
    BY DEF IInv, StoreInv, ClaimsDurable, PreparedDurable
  <2>7. ActiveIsCurrent'
    BY <1>1, <1>b, <2>1 DEF ActiveIsCurrent, Proposed
  <2>8. ChainLinked'
    <3>1. head'.seq = Len(committed') /\ head'.comp = committed'[Len(committed')]
          /\ committed' # <<>>
      BY <2>1, <2>2, <1>b
    <3>2. ASSUME NEW i \in 1..Len(committed')
          PROVE  /\ completionOf[committed'[i].att] = committed'[i]
                 /\ claimOf[committed'[i].att].base
                       = [seq |-> i - 1, comp |-> IF i = 1 THEN None ELSE committed'[i - 1]]
      <4>1. CASE i \in 1..head.seq
        <5>1. /\ committed'[i] = committed[i]
              /\ i # 1 => committed'[i - 1] = committed[i - 1]
          BY <4>1, <2>2, <1>b
        <5> QED BY <5>1, <4>1, <1>c DEF IInv, StoreInv, ChainLinked
      <4>2. CASE i = head.seq + 1
        <5>1. committed'[i] = c
          BY <4>2, <2>2
        <5>2. head.comp = IF i = 1 THEN None ELSE committed'[i - 1]
          BY <4>2, <1>b, <1>c, <2>2 DEF IInv, StoreInv, ChainLinked
        <5>3. mine[p].base = [seq |-> head.seq, comp |-> head.comp]
          BY <1>1 DEF IInv, TypeOK, TemporalHead
        <5> QED BY <5>1, <5>2, <5>3, <4>2, <1>1, <1>b
      <4> QED BY <4>1, <4>2, <2>2, <1>b
    <3> QED BY <3>1, <3>2 DEF ChainLinked
  <2>9. \A q \in Procs : ProcInv(q)'
    BY <1>1, <2>4, <2>5, OthersKeep
  <2> QED BY <2>3, <2>4, <2>6, <2>7, <2>8, <2>9 DEF IInv, StoreInv
<1>3. CASE temp[p] # "written"
  <2>1. Raise(p) /\ lock' = None /\ UNCHANGED <<head, committed>>
    BY <1>3 DEF Unlock
  <2>2. TypeOK'
    BY <2>1, RaiseType DEF IInv, TypeOK, DropTemp
  <2>3. /\ FilesGrow /\ OthersStay(p) /\ LockStays(p)
        /\ \/ pc'[p] = "failure" /\ outcome' = outcome /\ p \in Workers
           \/ pc'[p] = "idle" /\ outcome'[p] = "raised"
    BY <1>1, <2>1 DEF IInv, TypeOK, FilesGrow, OthersStay, LockStays, Raise, Return, Goto
  <2>4. ProcInv(p)'
    BY <1>1, <1>a, <2>1, <2>3, ConstantsAssumption DEF IInv, TypeOK, ProcInv, HoldsLock, LockedSteps, OwnSteps, ClaimInHand,
       ClaimedSteps, Steps, ReplaceSteps, FilesInOrder, LockedReads, ResultHolds
  <2>5. ClaimsDurable' /\ PreparedDurable'
    BY DEF IInv, StoreInv, ClaimsDurable, PreparedDurable
  <2> QED BY <2>1, <2>2, <2>3, <2>4, <2>5, QuietStep
<1> QED BY <1>2, <1>3

\* The three steps that clear the active marker disturb nothing else: they hold
\* the lock, or find it free.
LEMMA ClearedStep ==
    ASSUME IInv, NEW p \in Procs, active' = None, lock \in {None, p}, lock' = None,
           UNCHANGED <<head, files, mine, committed>>,
           OthersStay(p), TypeOK', ProcInv(p)'
    PROVE  IInv' /\ FilesGrow
<1>1. FilesGrow /\ ChainGrows /\ LockStays(p)
  BY DEF FilesGrow, ChainGrows, LockStays, files
<1>2. ClaimsDurable' /\ PreparedDurable' /\ ActiveIsCurrent'
  BY DEF IInv, StoreInv, ClaimsDurable, PreparedDurable, ActiveIsCurrent, files
<1>3. \A q \in Procs : ProcInv(q)'
  BY <1>1, OthersKeep
<1> QED BY <1>1, <1>2, <1>3, ChainKept DEF IInv, StoreInv

\* _publish clears the active marker after the head cites the completion.
LEMMA ClearActiveStep ==
    ASSUME IInv, NEW p \in Procs, ClearActive(p)
    PROVE  IInv' /\ FilesGrow
<1> USE DEF ClearActive, files, pointers
<1>1. /\ lock = p /\ p # None /\ mine[p] \in Claim /\ mine[p].att \in Attempts
      /\ head.seq = Proposed(mine[p]) /\ head.comp = completionOf[mine[p].att]
      /\ completionOf[mine[p].att] # None
  BY InHand, ConstantsAssumption DEF Procs, IInv, ProcInv, HoldsLock, LockedSteps, LockedReads, FilesInOrder,
     ClaimedSteps, Steps, InstallSteps, ReplaceSteps, WaitSteps
<1>2. committed[head.seq] = completionOf[mine[p].att] /\ head.seq \in DOMAIN committed
  <2>1. head.seq = Len(committed) /\ committed \in Seq(Completion) /\ head.seq \in Nat
    BY DEF IInv, TypeOK, StoreInv, ChainLinked, TemporalHead
  <2>2. committed # <<>>
    BY <1>1 DEF IInv, StoreInv, ChainLinked
  <2> QED BY <1>1, <2>1, <2>2 DEF IInv, StoreInv, ChainLinked
<1>3. TypeOK'
  BY ReturnType DEF IInv, TypeOK, Outcomes, Unlock
<1>4. pc'[p] = "idle" /\ outcome'[p] = "completed" /\ lock' = None /\ OthersStay(p)
  BY DEF IInv, TypeOK, Return, Goto, OthersStay, Unlock
<1>5. ProcInv(p)'
  BY <1>1, <1>2, <1>4, ConstantsAssumption DEF IInv, TypeOK, ProcInv, HoldsLock, LockedSteps, OwnSteps, ClaimInHand,
     ClaimedSteps, FilesInOrder, LockedReads, ResultHolds, Proposed, Claim
<1> QED BY <1>1, <1>3, <1>4, <1>5, ClearedStep

\* record_failure retires the claim under the lock, and only its own.
LEMMA RetireFailedStep ==
    ASSUME IInv, NEW w \in Workers, RetireFailed(w)
    PROVE  IInv' /\ FilesGrow
<1> USE DEF RetireFailed, Procs, files, pointers
<1>1. TypeOK'
  BY ReturnType DEF IInv, TypeOK, Outcomes
<1>2. /\ FilesGrow /\ OthersStay(w) /\ LockStays(w)
      /\ pc'[w] = "idle" /\ outcome'[w] \in {"failed", "raised"}
  BY DEF IInv, TypeOK, FilesGrow, OthersStay, LockStays, Return, Goto
<1>3. ProcInv(w)'
  BY <1>2, ConstantsAssumption DEF IInv, TypeOK, ProcInv, HoldsLock, LockedSteps, OwnSteps, ClaimInHand,
     ClaimedSteps, FilesInOrder, LockedReads, ResultHolds
<1>4. CASE UNCHANGED active
  <2>1. ClaimsDurable' /\ PreparedDurable'
    BY <1>4 DEF IInv, StoreInv, ClaimsDurable, PreparedDurable
  <2> QED BY <1>1, <1>2, <1>3, <1>4, <2>1, QuietStep
<1>5. CASE active' = None
  BY <1>1, <1>2, <1>3, <1>5, ClearedStep
<1> QED BY <1>4, <1>5

\* record_failure writes failure.json without the lock; no other file changes.
LEMMA InstallFailureStep ==
    ASSUME IInv, NEW w \in Workers, InstallFailure(w)
    PROVE  IInv' /\ FilesGrow
<1> DEFINE a == mine[w].att
<1> USE DEF InstallFailure, Procs, files, pointers
<1>1. mine[w] \in Claim /\ a \in Attempts
  BY InHand DEF ClaimedSteps, Steps, InstallSteps
<1>2. TypeOK'
  BY <1>1, InstalledType, RefusedType DEF IInv, TypeOK, Steps, WaitSteps, Failure
<1>3. /\ FilesGrow /\ OthersStay(w) /\ LockStays(w)
      /\ \/ pc'[w] = "failureLock" /\ outcome'[w] = outcome[w]
         \/ pc'[w] = "idle" /\ outcome'[w] = "raised"
  BY <1>1, ConstantsAssumption DEF IInv, TypeOK, FilesGrow, OthersStay, LockStays, Installed, InstallRefused,
     Installs, Raise, Return, Goto, Failure
<1>4. ProcInv(w)'
  BY <1>1, <1>3, ConstantsAssumption DEF IInv, TypeOK, ProcInv, HoldsLock, LockedSteps, OwnSteps, ClaimInHand,
     ClaimedSteps, Steps, InstallSteps, FilesInOrder, LockedReads, ResultHolds
<1>5. ClaimsDurable' /\ PreparedDurable'
  BY DEF IInv, StoreInv, ClaimsDurable, PreparedDurable
<1> QED BY <1>2, <1>3, <1>4, <1>5, QuietStep

\* recover starts without touching the store.
LEMMA BeginRecoverStep ==
    ASSUME IInv, NEW r \in Recoverers, BeginRecover(r)
    PROVE  IInv' /\ FilesGrow
<1> USE DEF BeginRecover, Goto, Procs, files, pointers
<1>1. TypeOK'
  BY DEF IInv, TypeOK, Steps, WaitSteps, Outcomes
<1>2. FilesGrow /\ OthersStay(r) /\ LockStays(r)
  BY DEF IInv, TypeOK, FilesGrow, OthersStay, LockStays
<1>3. ProcInv(r)'
  BY ConstantsAssumption DEF IInv, TypeOK, ProcInv, HoldsLock, LockedSteps, OwnSteps, ClaimInHand,
     ClaimedSteps, FilesInOrder, LockedReads, ResultHolds
<1>4. ClaimsDurable' /\ PreparedDurable'
  BY DEF IInv, StoreInv, ClaimsDurable, PreparedDurable
<1> QED BY <1>1, <1>2, <1>3, <1>4, QuietStep

\* recover deletes a temporary file, a live one included: no immutable file and
\* neither pointer changes.
LEMMA SweepTempStep ==
    ASSUME IInv, NEW r \in Recoverers, NEW p \in Procs, SweepTemp(r, p)
    PROVE  IInv' /\ FilesGrow
<1> USE DEF SweepTemp, files, pointers
<1>1. TypeOK'
  BY DEF IInv, TypeOK
<1>2. FilesGrow /\ OthersStay(p) /\ LockStays(p)
  BY DEF FilesGrow, OthersStay, LockStays
<1>3. ProcInv(p)'
  BY DEF IInv, ProcInv, HoldsLock, OwnSteps, ClaimInHand, FilesInOrder, Built, LockedReads,
     Proposed, ResultHolds
<1>4. ClaimsDurable' /\ PreparedDurable'
  BY DEF IInv, StoreInv, ClaimsDurable, PreparedDurable
<1> QED BY <1>1, <1>2, <1>3, <1>4, QuietStep

\* recover goes from the sweep to the lock.
LEMMA EndSweepStep ==
    ASSUME IInv, NEW r \in Recoverers, EndSweep(r)
    PROVE  IInv' /\ FilesGrow
<1> USE DEF EndSweep, Goto, Procs, files, pointers
<1>1. TypeOK'
  BY DEF IInv, TypeOK, Steps, WaitSteps
<1>2. FilesGrow /\ OthersStay(r) /\ LockStays(r)
  BY DEF IInv, TypeOK, FilesGrow, OthersStay, LockStays
<1>3. ProcInv(r)'
  BY ConstantsAssumption DEF IInv, TypeOK, ProcInv, HoldsLock, LockedSteps, OwnSteps, ClaimInHand,
     ClaimedSteps, FilesInOrder, LockedReads, ResultHolds
<1>4. ClaimsDurable' /\ PreparedDurable'
  BY DEF IInv, StoreInv, ClaimsDurable, PreparedDurable
<1> QED BY <1>1, <1>2, <1>3, <1>4, QuietStep

\* recover's decision under the lock: a prepared completion is published only if
\* its claim is still for the successor of the head.
LEMMA RecoverUnderLockStep ==
    ASSUME IInv, NEW r \in Recoverers, RecoverUnderLock(r)
    PROVE  IInv' /\ FilesGrow
<1> USE DEF RecoverUnderLock, Procs, files, pointers
<1>0. r # None /\ r \notin Workers /\ pc[r] # "idle"
  BY ConstantsAssumption
<1>1. /\ mine' \in [Procs -> Claim \cup {None}] /\ mine'[r] = active
      /\ \A q \in Procs \ {r} : mine'[q] = mine[q]
      /\ outcome[r] = "none" /\ outcome \in [Procs -> Outcomes]
  BY DEF IInv, TypeOK, ProcInv, ResultHolds
<1>2. active # None => /\ active \in Claim /\ active.att \in Attempts
                       /\ claimOf[active.att] = active
  BY DEF IInv, TypeOK, Claim, StoreInv, ClaimsDurable
<1>3. /\ \A q \in Procs \ {r} : pc'[q] = pc[q] /\ outcome'[q] = outcome[q]
      /\ pc' \in [Procs -> Steps] /\ outcome' \in [Procs -> Outcomes]
      /\ lock' \in {None, r}
      /\ \/ /\ pc'[r] = "idle" /\ outcome'[r] \in {"raised", "none"} /\ lock' = None
         \/ /\ pc'[r] = "head" /\ outcome' = outcome /\ lock' = r
            /\ active # None /\ completionOf[active.att] # None /\ head = active.base
         \/ /\ pc'[r] = "clear" /\ outcome' = outcome /\ lock' = r
            /\ active # None /\ completionOf[active.att] # None
            /\ head.seq = Proposed(active) /\ head.comp = completionOf[active.att]
         \/ /\ pc'[r] = "recoverFailure" /\ outcome' = outcome /\ lock' = r
            /\ active # None
  <2>1. CASE active = None
    BY <2>1, <1>1, ReturnType DEF RecoverVerdict, IInv, TypeOK, Return, Goto, KeepLock, Outcomes
  <2>2. CASE active # None /\ completionOf[active.att] # None
    BY <2>2, <1>0, <1>2, DecidePublishEffect DEF RecoverVerdict
  <2>3. CASE active # None /\ completionOf[active.att] = None
    BY <2>3, <1>1, GotoType DEF RecoverVerdict, IInv, TypeOK, Goto, Steps, InstallSteps
  <2> QED BY <2>1, <2>2, <2>3
<1>4. TypeOK'
  BY <1>1, <1>3 DEF IInv, TypeOK
<1>5. FilesGrow /\ OthersStay(r) /\ LockStays(r)
  BY <1>1, <1>3 DEF FilesGrow, OthersStay, LockStays
<1>6. ProcInv(r)'
  BY <1>0, <1>1, <1>2, <1>3 DEF ProcInv, HoldsLock, LockedSteps, OwnSteps, ClaimInHand,
     ClaimedSteps, FilesInOrder, LockedReads, Proposed, ResultHolds
<1>7. ClaimsDurable' /\ PreparedDurable'
  BY DEF IInv, StoreInv, ClaimsDurable, PreparedDurable
<1> QED BY <1>4, <1>5, <1>6, <1>7, QuietStep

\* recover records its failure receipt, or raises if another one is there.
LEMMA RecoverInstallFailureStep ==
    ASSUME IInv, NEW r \in Recoverers, RecoverInstallFailure(r)
    PROVE  IInv' /\ FilesGrow
<1> DEFINE a == mine[r].att
<1> USE DEF RecoverInstallFailure, Procs, files, pointers
<1>0. r # None /\ r \notin Workers
  BY ConstantsAssumption
<1>1. mine[r] \in Claim /\ a \in Attempts /\ claimOf[a] = mine[r] /\ lock = r
  BY InHand DEF IInv, ProcInv, ClaimInHand, HoldsLock, LockedSteps, ClaimedSteps, Steps, InstallSteps
<1>2. TypeOK'
  BY <1>1, InstalledType, RefusedType DEF IInv, TypeOK, Steps, Failure, KeepLock, Unlock
<1>3. /\ FilesGrow /\ OthersStay(r) /\ LockStays(r)
      /\ \/ pc'[r] = "recoverClear" /\ outcome'[r] = outcome[r] /\ lock' = r
         \/ pc'[r] = "idle" /\ outcome'[r] = "raised" /\ lock' = None
  BY <1>0, <1>1, ConstantsAssumption DEF IInv, TypeOK, FilesGrow, OthersStay, LockStays, Installed, InstallRefused,
     Installs, Raise, Return, Goto, Failure, KeepLock, Unlock
<1>4. ProcInv(r)'
  BY <1>0, <1>1, <1>3 DEF IInv, TypeOK, ProcInv, HoldsLock, LockedSteps, OwnSteps, ClaimInHand,
     ClaimedSteps, Steps, InstallSteps, FilesInOrder, LockedReads, ResultHolds
<1>5. ClaimsDurable' /\ PreparedDurable'
  BY DEF IInv, StoreInv, ClaimsDurable, PreparedDurable
<1> QED BY <1>2, <1>3, <1>4, <1>5, QuietStep

\* recover releases the sequence of the attempt it failed.
LEMMA RecoverClearStep ==
    ASSUME IInv, NEW r \in Recoverers, RecoverClear(r)
    PROVE  IInv' /\ FilesGrow
<1> USE DEF RecoverClear, Procs, files
<1>1. lock = r /\ r # None
  BY ConstantsAssumption DEF IInv, ProcInv, HoldsLock, LockedSteps
<1>2. TypeOK'
  BY ReturnType DEF IInv, TypeOK, Outcomes, Unlock
<1>3. pc'[r] = "idle" /\ outcome'[r] = "failed" /\ lock' = None /\ OthersStay(r)
  BY DEF IInv, TypeOK, Return, Goto, OthersStay, Unlock
<1>4. ProcInv(r)'
  BY <1>1, <1>3, ConstantsAssumption DEF IInv, TypeOK, ProcInv, HoldsLock, LockedSteps, OwnSteps, ClaimInHand,
     ClaimedSteps, FilesInOrder, LockedReads, ResultHolds
<1> QED BY <1>1, <1>2, <1>3, <1>4, ClearedStep

\* A death releases the lock and drops the claim in hand; what is durable stays.
LEMMA CrashStep ==
    ASSUME IInv, NEW p \in Procs, Crash(p)
    PROVE  IInv' /\ FilesGrow
<1> USE DEF Crash, files, pointers
<1>0. p # None
  BY ConstantsAssumption DEF Procs
<1>1. crashes' \in 0..MaxCrashes
  BY ConstantsAssumption DEF IInv, TypeOK
<1>2. TypeOK'
  BY <1>1 DEF IInv, TypeOK, Goto, DropTemp, Steps, Outcomes
<1>3. FilesGrow /\ OthersStay(p) /\ LockStays(p)
  BY DEF IInv, TypeOK, FilesGrow, OthersStay, LockStays, Goto
<1>4. ProcInv(p)'
  BY <1>0 DEF IInv, TypeOK, ProcInv, HoldsLock, LockedSteps, OwnSteps, ClaimInHand, Goto,
     ClaimedSteps, FilesInOrder, LockedReads, ResultHolds
<1>5. ClaimsDurable' /\ PreparedDurable'
  BY DEF IInv, StoreInv, ClaimsDurable, PreparedDurable
<1> QED BY <1>2, <1>3, <1>4, <1>5, QuietStep

\* The empty store FilesystemTemporalStore.__init__ creates satisfies the invariant.
LEMMA InitInv == Init => IInv
<1> SUFFICES ASSUME Init PROVE IInv
  OBVIOUS
<1> USE DEF Init
<1>1. TypeOK
  BY ConstantsAssumption DEF TypeOK, Genesis, TemporalHead, Steps, Outcomes
<1>2. \A p \in Procs : ProcInv(p)
  BY ConstantsAssumption DEF Procs, ProcInv, HoldsLock, LockedSteps, OwnSteps, ClaimInHand, ClaimedSteps,
     FilesInOrder, LockedReads, ResultHolds
<1>3. StoreInv
  BY DEF StoreInv, ClaimsDurable, PreparedDurable, ChainLinked, ActiveIsCurrent, Genesis
<1> QED BY <1>1, <1>2, <1>3 DEF IInv

\* Every step of every process keeps the invariant and clobbers no immutable file.
LEMMA NextInv == IInv /\ [Next]_vars => IInv' /\ FilesGrow
<1> SUFFICES ASSUME IInv, [Next]_vars PROVE IInv' /\ FilesGrow
  OBVIOUS
<1>1. ASSUME NEW w \in Workers, BuildClaim(w) PROVE IInv' /\ FilesGrow
  BY <1>1, BuildClaimStep
<1>2. ASSUME NEW w \in Workers, Execute(w) PROVE IInv' /\ FilesGrow
  BY <1>2, InstallClaimStep, ClaimUnderLockStep, ReplaceActiveStep, ProjectionErrorStep,
     InstallSemanticStep, InstallBundleStep, PutCompletionObjectStep, InstallCompletionStep,
     PublishUnderLockStep, InstallFailureStep, RetireFailedStep DEF Execute
<1>3. ASSUME NEW r \in Recoverers, BeginRecover(r) \/ Recover(r) PROVE IInv' /\ FilesGrow
  BY <1>3, BeginRecoverStep, EndSweepStep, RecoverUnderLockStep, RecoverInstallFailureStep,
     RecoverClearStep DEF Recover
<1>4. ASSUME NEW r \in Recoverers, NEW p \in Procs, SweepTemp(r, p) PROVE IInv' /\ FilesGrow
  BY <1>4, SweepTempStep
<1>5. ASSUME NEW p \in Procs, Shared(p) \/ Crash(p) PROVE IInv' /\ FilesGrow
  BY <1>5, WriteTempStep, ReplaceHeadStep, ClearActiveStep, CrashStep DEF Shared
<1>6. CASE UNCHANGED vars
  <2> USE <1>6 DEF vars
  <2>1. FilesGrow
    BY DEF FilesGrow
  <2>2. TypeOK' /\ StoreInv'
    BY DEF IInv, TypeOK, StoreInv, ClaimsDurable, PreparedDurable, ChainLinked,
       ActiveIsCurrent, Proposed
  <2>3. ASSUME NEW p \in Procs PROVE ProcInv(p)'
    BY DEF IInv, ProcInv, HoldsLock, OwnSteps, ClaimInHand, FilesInOrder, Built, LockedReads,
       ResultHolds, Proposed
  <2> QED BY <2>1, <2>2, <2>3 DEF IInv
<1> QED BY <1>1, <1>2, <1>3, <1>4, <1>5, <1>6 DEF Next

\* The inductive invariant: what each process relies on when it resumes, the
\* durability of claims and completions, the linked chain and the currency of the
\* active claim hold in every reachable state of the store.
THEOREM Invariance == Spec => []IInv
BY InitInv, NextInv, PTL DEF Spec

\* The store and its processes are well typed in every reachable state.
THEOREM TypeCorrect == Spec => []TypeOK
<1>1. IInv => TypeOK
  BY DEF IInv
<1> QED BY <1>1, Invariance, PTL

\* claim_successor and _publish keep the active claim for the immediate successor
\* of the head, except in the window in which the head cites its completion.
THEOREM ActiveNeverStale == Spec => []ActiveIsCurrent
<1>1. IInv => ActiveIsCurrent
  BY DEF IInv, StoreInv
<1> QED BY <1>1, Invariance, PTL

\* A TemporalHead that publish_completion or recover returned names a completion
\* that is in the chain at the sequence its claim proposed, and stays there.
THEOREM CompletionsHold == Spec => []CompletedIsCommitted
<1>1. IInv => CompletedIsCommitted
  BY DEF IInv, ProcInv, ResultHolds, CompletedIsCommitted
<1> QED BY <1>1, Invariance, PTL

\* However often an attempt is executed, published or recovered, _publish moves
\* the head for it at most once.
THEOREM OneCommitPerAttempt == Spec => []AttemptCommitsOnce
<1>1. ASSUME IInv, NEW i \in DOMAIN committed, NEW j \in DOMAIN committed,
             committed[i].att = committed[j].att
      PROVE  i = j
  <2>1. committed \in Seq(Completion)
    BY <1>1 DEF IInv, TypeOK
  <2>2. i \in 1..Len(committed) /\ j \in 1..Len(committed)
    BY <1>1, <2>1
  <2>3. \A k \in 1..Len(committed) : claimOf[committed[k].att].base.seq = k - 1
    <3> DEFINE before(k) == IF k = 1 THEN None ELSE committed[k - 1]
    <3>1. \A k \in 1..Len(committed) :
             claimOf[committed[k].att].base = [seq |-> k - 1, comp |-> before(k)]
      BY <1>1 DEF IInv, StoreInv, ChainLinked
    <3> HIDE DEF before
    <3>2. ASSUME NEW k \in 1..Len(committed)
          PROVE  claimOf[committed[k].att].base.seq = k - 1
      <4>1. claimOf[committed[k].att].base = [seq |-> k - 1, comp |-> before(k)]
        BY <3>1
      <4>2. [seq |-> k - 1, comp |-> before(k)].seq = k - 1
        OBVIOUS
      <4> QED BY <4>1, <4>2
    <3> QED BY <3>2
  <2>4. i - 1 = j - 1
    BY <1>1, <2>2, <2>3
  <2>5. i \in Nat /\ j \in Nat
    BY <2>1, <2>2
  <2> QED BY <2>4, <2>5
<1>2. IInv => AttemptCommitsOnce
  BY <1>1 DEF AttemptCommitsOnce
<1> QED BY <1>2, Invariance, PTL

\* _install never changes the bytes of a path that holds some.
THEOREM NothingClobbered == Spec => NoClobber
<1>1. IInv /\ [Next]_vars => [FilesGrow]_vars
  BY NextInv
<1> QED BY <1>1, Invariance, PTL DEF Spec, NoClobber

\* The store implements the append-only chain with at most one claim holder: each
\* step is an acquisition, a commit, an abandonment or invisible.
THEOREM Refinement == Spec => ChainSpec
<1> DEFINE holder == IF active # None /\ active.base = head THEN active ELSE None
<1>1. Init => Chain!Init
  BY DEF Init, Chain!Init
<1>2. ASSUME IInv, [Next]_vars PROVE [Chain!Next]_(Chain!vars)
  <2> USE <1>2
  <2>1. head = Chain!Tip(committed)
    BY DEF IInv, TypeOK, StoreInv, ChainLinked, TemporalHead, Chain!Tip
  <2>2. CASE UNCHANGED <<pointers, committed>>
    BY <2>2 DEF pointers, Chain!vars
  <2>3. ASSUME NEW w \in Workers, ReplaceActive(w), active' # active
        PROVE  Chain!Acquire
    <3>1. mine[w] \in Claim
      BY <2>3, InHand DEF Procs, ReplaceActive, ClaimedSteps, Steps, ReplaceSteps
    <3>2. active = None /\ active' = mine[w] /\ head' = head /\ mine[w].base = head /\ committed' = committed
      BY <2>3 DEF ReplaceActive, IInv, ProcInv, LockedReads, Procs
    <3>3. mine[w] # None
      BY <3>1, ConstantsAssumption
    <3> QED BY <2>1, <3>1, <3>2, <3>3 DEF Chain!Acquire
  <2>4. ASSUME NEW p \in Procs, ReplaceHead(p), head' # head \/ committed' # committed
        PROVE  Chain!Commit
    <3> DEFINE c == completionOf[mine[p].att]
    <3>1. /\ mine[p] \in Claim /\ c \in Completion /\ c.att = mine[p].att
          /\ active = mine[p] /\ head = mine[p].base
      BY <2>4, InHand DEF ReplaceHead, IInv, TypeOK, ProcInv, FilesInOrder, LockedReads,
         ClaimedSteps, Steps, ReplaceSteps, StoreInv, PreparedDurable
    <3>2. /\ head' = [seq |-> Proposed(mine[p]), comp |-> c]
          /\ committed' = Append(committed, c) /\ active' = active
      BY <2>4 DEF ReplaceHead
    <3>3. head' # mine[p].base
      BY <3>1, <3>2 DEF IInv, TypeOK, TemporalHead, Proposed
    <3>4. mine[p] # None
      BY <3>1, ConstantsAssumption
    <3> QED BY <3>1, <3>2, <3>3, <3>4 DEF Chain!Commit
  <2>5. ASSUME active' = None, UNCHANGED <<head, committed>>
        PROVE  [Chain!Next]_(Chain!vars)
    BY <2>5 DEF Chain!Next, Chain!Abandon, Chain!vars
  <2>6. ASSUME NEW w \in Workers, BuildClaim(w) \/ Execute(w)
        PROVE  [Chain!Next]_(Chain!vars)
    <3>1. CASE UNCHANGED <<pointers, committed>>
      BY <3>1, <2>2
    <3>2. CASE ReplaceActive(w)
      BY <3>2, <2>2, <2>3 DEF ReplaceActive, pointers, Chain!Next
    <3>3. CASE RetireFailed(w)
      BY <3>3, <2>2, <2>5 DEF RetireFailed, pointers
    <3> QED BY <2>6, <3>1, <3>2, <3>3 DEF Execute, BuildClaim, InstallClaim, ClaimUnderLock,
               ProjectionError, InstallSemantic, InstallBundle, PutCompletionObject,
               InstallCompletion, PublishUnderLock, InstallFailure
  <2>7. ASSUME NEW r \in Recoverers, BeginRecover(r) \/ Recover(r)
        PROVE  [Chain!Next]_(Chain!vars)
    BY <2>7, <2>2, <2>5 DEF BeginRecover, Recover, EndSweep, RecoverUnderLock,
       RecoverInstallFailure, RecoverClear
  <2>8. ASSUME NEW p \in Procs, Shared(p) \/ Crash(p)
        PROVE  [Chain!Next]_(Chain!vars)
    BY <2>8, <2>2, <2>4, <2>5 DEF Shared, WriteTemp, ReplaceHead, ClearActive, Crash, pointers, Chain!Next
  <2> QED BY <2>2, <2>6, <2>7, <2>8 DEF Next, SweepTemp, vars, pointers
<1> QED BY <1>1, <1>2, Invariance, PTL DEF Spec, ChainSpec, Chain!Spec

\* build_claim proposes a successor only below the bound of the model, and no
\* step makes another sequence.
LEMMA WithinBoundStep ==
    ASSUME IInv, WithinBound, [Next]_vars
    PROVE  WithinBound'
<1> USE DEF WithinBound, files, pointers
<1>0. head.seq \in Int /\ MaxSeq \in Int
  BY ConstantsAssumption DEF IInv, TypeOK, TemporalHead
<1>1. ASSUME NEW w \in Workers, BuildClaim(w) PROVE WithinBound'
  BY <1>0, <1>1 DEF BuildClaim, Procs, IInv, TypeOK
<1>2. ASSUME NEW w \in Workers, ReplaceActive(w) PROVE WithinBound'
  <2>1. mine[w] \in Claim /\ mine[w] # None /\ w \in Procs
    BY <1>2, InHand, ConstantsAssumption DEF ReplaceActive, Procs, ClaimedSteps, Steps, ReplaceSteps
  <2> QED BY <1>2, <2>1 DEF ReplaceActive
<1>3. ASSUME NEW w \in Workers, Execute(w), ~ReplaceActive(w) PROVE WithinBound'
  BY <1>3 DEF Execute, InstallClaim, ClaimUnderLock, ProjectionError, InstallSemantic,
     InstallBundle, PutCompletionObject, InstallCompletion, PublishUnderLock, InstallFailure,
     RetireFailed
<1>4. ASSUME NEW r \in Recoverers, BeginRecover(r) \/ RecoverUnderLock(r) PROVE WithinBound'
  BY <1>4 DEF BeginRecover, RecoverUnderLock, Procs, IInv, TypeOK
<1>5. ASSUME NEW r \in Recoverers, EndSweep(r) \/ RecoverInstallFailure(r) \/ RecoverClear(r)
      PROVE  WithinBound'
  BY <1>5 DEF EndSweep, RecoverInstallFailure, RecoverClear
<1>6. ASSUME NEW p \in Procs, ReplaceHead(p) PROVE WithinBound'
  <2>1. mine[p] \in Claim /\ mine[p] # None /\ mine[p].base.seq \in Int
    BY <1>6, InHand, ConstantsAssumption DEF ReplaceHead, ClaimedSteps, Steps, ReplaceSteps, Claim, TemporalHead
  <2>2. head' = head \/ head'.seq = mine[p].base.seq + 1
    BY <1>6 DEF ReplaceHead, Proposed
  <2>3. head'.seq <= MaxSeq
    BY <1>0, <2>1, <2>2
  <2> QED BY <1>6, <2>3 DEF ReplaceHead
<1>7. ASSUME NEW p \in Procs, WriteTemp(p) \/ ClearActive(p) \/ Crash(p) PROVE WithinBound'
  BY <1>7 DEF WriteTemp, ClearActive, Crash, IInv, TypeOK
<1>8. ASSUME NEW r \in Recoverers, NEW p \in Procs, SweepTemp(r, p) PROVE WithinBound'
  BY <1>8 DEF SweepTemp
<1>9. CASE UNCHANGED vars
  BY <1>9 DEF vars
<1> QED BY <1>1, <1>2, <1>3, <1>4, <1>5, <1>6, <1>7, <1>8, <1>9 DEF Next, Recover, Shared

\* No execution starts at the bound, so the chain never grows past it.
THEOREM BoundHolds == Spec => []WithinBound
<1>1. Init => WithinBound
  BY ConstantsAssumption DEF Init, WithinBound, Genesis
<1>2. IInv /\ WithinBound /\ [Next]_vars => WithinBound'
  BY WithinBoundStep
<1> QED BY <1>1, <1>2, Invariance, PTL DEF Spec

\* Every set of naturals that has a member has a least one: what stands for
\* induction below.
LEMMA LeastMember ==
    ASSUME NEW S \in SUBSET Nat, S # {}
    PROVE  \E n \in S : \A m \in S : n <= m
<1> DEFINE Less == OpToRel(<, Nat)
<1>1. \A m, n \in Nat : <<m, n>> \in Less <=> m < n
  BY DEF OpToRel
<1>2. IsWellFoundedOn(Less, Nat)
  BY NatLessThanWellFounded, Zenon
<1> HIDE DEF Less
<1>3. PICK n \in S : \A m \in S : ~(<<m, n>> \in Less)
  BY <1>2, WFMin
<1>4. \A m \in S : ~(m < n)
  BY <1>1, <1>3
<1> QED BY <1>3, <1>4

\* A completion in the chain is its attempt's own, and the claim of its attempt
\* cites the completion before it.
LEMMA CommittedLink ==
    ASSUME IInv, NEW i \in 1..Len(committed)
    PROVE  /\ committed[i] \in Completion
           /\ committed[i] # None
           /\ committed[i].att \in Attempts
           /\ completionOf[committed[i].att] = committed[i]
           /\ claimOf[committed[i].att].base.seq = i - 1
           /\ claimOf[committed[i].att].base.comp = IF i = 1 THEN None ELSE committed[i - 1]
<1>1. committed \in Seq(Completion)
  BY DEF IInv, TypeOK
<1>2. committed[i] \in Completion
  BY <1>1, ElementOfSeq
<1>3. committed[i] # None /\ committed[i].att \in Attempts
  BY <1>2, ConstantsAssumption DEF Completion
<1> DEFINE before == IF i = 1 THEN None ELSE committed[i - 1]
<1>4. /\ completionOf[committed[i].att] = committed[i]
      /\ claimOf[committed[i].att].base = [seq |-> i - 1, comp |-> before]
  BY DEF IInv, StoreInv, ChainLinked
<1> HIDE DEF before
<1>5. /\ claimOf[committed[i].att].base.seq = i - 1
      /\ claimOf[committed[i].att].base.comp = before
  BY <1>4
<1> QED BY <1>2, <1>3, <1>4, <1>5 DEF before

\* reconstruct_chain's walk: k links behind the head is the completion committed
\* k before the last one, and nothing once the chain is used up.
LEMMA BehindIsCommitted ==
    ASSUME IInv, WithinBound, NEW k \in 0..head.seq
    PROVE  Behind[k] = IF k < head.seq THEN committed[head.seq - k] ELSE None
<1> DEFINE h == head.seq
           link(f, j) == IF j = 0 THEN head.comp
                         ELSE IF f[j-1] = None THEN None
                         ELSE claimOf[f[j-1].att].base.comp
           found(j) == IF j < h THEN committed[h - j] ELSE None
           back == CHOOSE f : f = [j \in 0..k |-> link(f, j)]
<1>1. h \in Nat /\ k \in Nat /\ k \in 0..MaxSeq
  BY ConstantsAssumption DEF IInv, TypeOK, TemporalHead, WithinBound
<1>2. Behind[k] = back[k]
  BY <1>1 DEF Behind
<1> HIDE DEF back
<1>3. found(0) = head.comp
  BY DEF IInv, TypeOK, StoreInv, ChainLinked
<1>4. ASSUME NEW j \in 1..k
      PROVE  found(j) = IF found(j-1) = None THEN None
                        ELSE claimOf[found(j-1).att].base.comp
  <2>1. h = Len(committed) /\ committed \in Seq(Completion) /\ h - (j - 1) \in 1..h /\ j - 1 < h
    BY <1>1 DEF IInv, TypeOK, StoreInv, ChainLinked
  <2>2. found(j-1) = committed[h - (j - 1)] /\ found(j-1) # None
    BY <2>1, CommittedLink
  <2>3. claimOf[found(j-1).att].base.comp
           = IF h - (j - 1) = 1 THEN None ELSE committed[h - (j - 1) - 1]
    BY <2>1, <2>2, CommittedLink
  <2>4. h - (j - 1) - 1 = h - j /\ (h - (j - 1) = 1 <=> ~(j < h))
    BY <1>1
  <2> QED BY <2>2, <2>3, <2>4
<1> HIDE DEF found
<1>5. ASSUME NEW f, f = [j \in 0..k |-> link(f, j)]
      PROVE  \A j \in 0..k : f[j] = found(j)
  <2> DEFINE Wrong == {j \in 0..k : f[j] # found(j)}
  <2> SUFFICES ASSUME Wrong # {} PROVE FALSE
    OBVIOUS
  <2>1. PICK n \in Wrong : \A m \in Wrong : n <= m
    <3>1. Wrong \in SUBSET Nat
      BY <1>1
    <3> HIDE DEF Wrong
    <3> QED BY <3>1, LeastMember
  <2>2. f[n] = link(f, n)
    BY <1>5, <2>1
  <2>3. n # 0
    BY <1>3, <2>1, <2>2
  <2>4. n \in 1..k /\ n - 1 \in 0..k
    BY <1>1, <2>1, <2>3
  <2>5. n - 1 \notin Wrong
    BY <2>1, <2>4
  <2>6. f[n-1] = found(n-1)
    BY <2>4, <2>5
  <2> QED BY <1>4, <2>1, <2>2, <2>3, <2>4, <2>6
<1>6. \E f : f = [j \in 0..k |-> link(f, j)]
  <2> DEFINE g == [j \in 0..k |-> found(j)]
  <2>1. \A j \in 0..k : g[j] = link(g, j)
    <3> SUFFICES ASSUME NEW j \in 0..k PROVE g[j] = link(g, j)
      OBVIOUS
    <3>1. CASE j = 0
      BY <1>3, <3>1
    <3>2. CASE j # 0
      <4>1. j \in 1..k /\ j - 1 \in 0..k
        BY <1>1, <3>2
      <4> QED BY <1>4, <4>1, <3>2
    <3> QED BY <3>1, <3>2
  <2>2. g = [j \in 0..k |-> g[j]]
    OBVIOUS
  <2>3. g = [j \in 0..k |-> link(g, j)]
    BY <2>1, <2>2
  <2> QED BY <2>3
<1>7. back = [j \in 0..k |-> link(back, j)]
  BY <1>6 DEF back
<1>8. \A j \in 0..k : back[j] = found(j)
  <2> HIDE DEF link
  <2> QED BY <1>5, <1>7
<1> QED BY <1>1, <1>2, <1>8 DEF found

\* What reconstruct_chain finds behind the head is complete, whatever died or was
\* swept: every link down to genesis is durable and is what was committed.
THEOREM ChainCanBeRebuilt == Spec => []ChainReconstructs
<1>1. ASSUME IInv, WithinBound PROVE ChainReconstructs
  <2>1. head.seq = Len(committed) /\ committed \in Seq(Completion) /\ head.seq \in Nat
    BY <1>1 DEF IInv, TypeOK, StoreInv, ChainLinked, TemporalHead
  <2>2. Behind[head.seq] = None
    BY <1>1, <2>1, BehindIsCommitted
  <2>3. ASSUME NEW k \in 0..head.seq-1
        PROVE  LET c == Behind[k]
               IN  /\ c # None
                   /\ c \in objects
                   /\ completionOf[c.att] = c
                   /\ Built(claimOf[c.att]) = c
                   /\ Proposed(claimOf[c.att]) = head.seq - k
                   /\ committed[head.seq - k] = c
    <3> DEFINE i == head.seq - k
               c == committed[i]
    <3>1. k \in 0..head.seq /\ k < head.seq /\ i \in 1..Len(committed)
      BY <2>1
    <3>2. Behind[k] = c
      BY <1>1, <3>1, BehindIsCommitted
    <3>3. c \in Completion /\ c.att \in Attempts /\ c # None
      BY <1>1, <3>1, CommittedLink
    <3>4. completionOf[c.att] = c /\ claimOf[c.att].base.seq = i - 1
      BY <1>1, <3>1, CommittedLink
    <3>5. /\ c \in objects /\ claimOf[c.att] # None
          /\ c = [att |-> c.att, sem |-> semanticOf[c.att], art |-> bundleOf[c.att]]
      BY <1>1, <3>3, <3>4 DEF IInv, StoreInv, PreparedDurable
    <3>6. claimOf[c.att].att = c.att
      BY <1>1, <3>3, <3>5 DEF IInv, StoreInv, ClaimsDurable
    <3>7. Built(claimOf[c.att]) = c
      BY <3>5, <3>6 DEF Built
    <3>8. Proposed(claimOf[c.att]) = i
      BY <3>1, <3>4 DEF Proposed
    <3> QED BY <3>2, <3>3, <3>4, <3>5, <3>7, <3>8
  <2> QED BY <2>1, <2>2, <2>3 DEF ChainReconstructs
<1> QED BY <1>1, Invariance, BoundHolds, PTL

-----------------------------------------------------------------------------
(* One terminal receipt for each attempt, when executions do not share     *)
(* attempt ids and recover runs apart from them.                           *)

\* What one process may do to the temporary files: it keeps its own for the step
\* it is for, and nobody's else changes.
TempKept(p) ==
    /\ \A q \in Procs \ {p} : temp'[q] = temp[q]
    /\ temp'[p] # "none" => pc'[p] \in InstallSteps \cup ReplaceSteps

\* A step of an execution keeps what the other executions rely on, as long as it
\* writes in its own attempt directory and moves the active marker only when the
\* marker is free or its own.
LEMMA ExecutionKeeps ==
    ASSUME IInv, IInv', FilesGrow, ApartInv, NEW w \in Workers,
           pc[w] # "idle", OthersStay(w), TempKept(w), temp'[w] # "swept",
           mine'[w] = mine[w] \/ pc'[w] = "idle",
           mine[w] # None,
           \A a \in Attempts \ {mine[w].att} :
              completionOf'[a] = completionOf[a] /\ failureOf'[a] = failureOf[a],
           failureOf'[mine[w].att] # None =>
              claimOf'[mine[w].att] # None /\ completionOf'[mine[w].att] = None,
           active' = active \/ active \in {None, mine[w]},
           OwnClaim(w)'
    PROVE  ApartInv'
<1> DEFINE b == mine[w].att
<1>1. /\ \A r \in Recoverers : pc[r] = "idle" /\ pc'[r] = "idle"
      /\ Workers \subseteq Procs /\ Recoverers \subseteq Procs /\ w \notin Recoverers
  BY ConstantsAssumption DEF ApartInv, OneAtATime, OthersStay, Procs
<1>2. \A v \in Workers \ {w} : pc'[v] = pc[v] /\ mine'[v] = mine[v]
  BY <1>1 DEF OthersStay
<1>3. OneAtATime'
  BY <1>1, <1>2 DEF ApartInv, OneAtATime
<1>4. OwnTemp'
  BY <1>1, <1>2 DEF ApartInv, OwnTemp, TempKept, OthersStay
<1>5. ASSUME NEW v \in Workers \ {w} PROVE OwnClaim(v)'
  <2>1. CASE pc[v] \in AcceptedSteps \cup PreparingSteps \cup FailingSteps
    <3>1. mine[v] \in Claim /\ mine[v] # None /\ mine[v].att \in Attempts
      BY <2>1, InHand, ConstantsAssumption DEF Procs, AcceptedSteps, PreparingSteps, FailingSteps,
         ClaimedSteps, Steps, InstallSteps, ReplaceSteps, WaitSteps
    <3>2. mine[v].att # b /\ mine[v] # mine[w]
      BY <2>1 DEF ApartInv, OneAtATime, AcceptedSteps, PreparingSteps, FailingSteps
    <3>3. pc[v] \in AcceptedSteps => active' = active
      BY <3>1, <3>2 DEF ApartInv, OwnClaim
    <3> QED BY <1>2, <3>1, <3>2, <3>3 DEF ApartInv, OwnClaim
  <2>2. CASE pc[v] \notin AcceptedSteps \cup PreparingSteps \cup FailingSteps
    BY <1>2, <2>2 DEF OwnClaim
  <2> QED BY <2>1, <2>2
<1>6. FailedUnprepared'
  <2>1. ASSUME NEW a \in Attempts, failureOf'[a] # None
        PROVE  claimOf'[a] # None /\ completionOf'[a] = None
    <3>1. CASE a = b
      BY <2>1, <3>1
    <3>2. CASE a # b
      BY <2>1, <3>2 DEF ApartInv, FailedUnprepared, FilesGrow
    <3> QED BY <3>1, <3>2
  <2> QED BY <1>1, <2>1 DEF FailedUnprepared
<1> QED BY <1>3, <1>4, <1>5, <1>6 DEF ApartInv

\* A step of a recovery keeps everything: no execution is in flight, and an
\* attempt gets its recovery failure only while it has no completion.
LEMMA RecoveryKeeps ==
    ASSUME IInv, IInv', FilesGrow, ApartInv, NEW r \in Recoverers,
           pc[r] # "idle", OthersStay(r), TempKept(r),
           UNCHANGED completionOf,
           \A a \in Attempts :
              failureOf'[a] # failureOf[a] => claimOf[a] # None /\ completionOf[a] = None,
           pc'[r] = "recoverFailure" => completionOf[mine'[r].att] = None
    PROVE  ApartInv'
<1>1. /\ \A w \in Workers : pc[w] = "idle" /\ pc'[w] = "idle"
      /\ Workers \subseteq Procs /\ Recoverers \subseteq Procs /\ r \notin Workers
  BY ConstantsAssumption DEF ApartInv, OneAtATime, OthersStay, Procs
<1>2. OneAtATime'
  BY <1>1 DEF OneAtATime
<1>3. OwnTemp'
  BY <1>1 DEF ApartInv, OwnTemp, TempKept, OthersStay
<1>4. \A w \in Workers : OwnClaim(w)'
  BY <1>1 DEF OwnClaim, AcceptedSteps, PreparingSteps, FailingSteps
<1>5. FailedUnprepared'
  <2>1. \A a \in Attempts : failureOf'[a] # None => claimOf'[a] # None /\ completionOf'[a] = None
    BY DEF ApartInv, FailedUnprepared, FilesGrow
  <2>2. \A s \in Recoverers : pc'[s] = "recoverFailure" => completionOf'[mine'[s].att] = None
    BY <1>1 DEF ApartInv, FailedUnprepared, OthersStay
  <2> QED BY <2>1, <2>2 DEF FailedUnprepared
<1> QED BY <1>2, <1>3, <1>4, <1>5 DEF ApartInv

\* build_claim for an attempt id nobody has used: its directory is empty.
LEMMA BuildClaimApart ==
    ASSUME Apart, IInv, ApartInv, NEW w \in Workers, BuildClaim(w)
    PROVE  ApartInv'
<1> USE DEF BuildClaim, Goto, files, pointers
<1>1. /\ \A r \in Recoverers : pc[r] = "idle" /\ pc'[r] = "idle"
      /\ Workers \subseteq Procs /\ Recoverers \subseteq Procs /\ w \notin Recoverers
      /\ pc' \in [Procs -> Steps]
      /\ \A q \in Procs \ {w} : pc'[q] = pc[q]
      /\ pc[w] = "idle" /\ pc'[w] = "claimFile"
  BY ConstantsAssumption DEF Apart, Procs, IInv, TypeOK, Steps, InstallSteps
<1>2. PICK a \in Attempts, e \in Events :
         FreshAttempt(a) /\ mine' = [mine EXCEPT ![w] = [att |-> a, base |-> head, ev |-> e]]
  BY DEF Apart
<1>3. /\ mine'[w].att = a /\ \A q \in Procs \ {w} : mine'[q] = mine[q]
  BY <1>1, <1>2 DEF IInv, TypeOK
<1>4. completionOf[a] = None /\ failureOf[a] = None
  BY <1>2 DEF FreshAttempt, IInv, StoreInv, PreparedDurable, ApartInv, FailedUnprepared
<1>5. \A v \in Workers \ {w} : pc[v] # "idle" => mine[v].att # a
  <2> SUFFICES ASSUME NEW v \in Workers \ {w}, pc[v] # "idle" PROVE mine[v].att # a
    OBVIOUS
  <2>1. v \in Procs /\ pc[v] \in ClaimedSteps \cup {"claimFile"}
    BY DEF IInv, TypeOK, ProcInv, OwnSteps, ClaimedSteps, Procs
  <2>2. mine[v] # None
    BY <2>1, InHand, ConstantsAssumption
  <2> QED BY <1>2, <2>1, <2>2 DEF FreshAttempt
<1>6. OneAtATime'
  BY <1>1, <1>3, <1>5 DEF ApartInv, OneAtATime
<1>7. OwnTemp'
  BY <1>1 DEF ApartInv, OwnTemp, InstallSteps
<1>8. ASSUME NEW v \in Workers PROVE OwnClaim(v)'
  BY <1>1, <1>3, <1>4 DEF ApartInv, OwnClaim, AcceptedSteps, PreparingSteps, FailingSteps
<1>9. FailedUnprepared'
  BY <1>1 DEF ApartInv, FailedUnprepared
<1> QED BY <1>6, <1>7, <1>8, <1>9 DEF ApartInv

\* recover starts while no execution is in flight.
LEMMA BeginRecoverApart ==
    ASSUME Apart, IInv, ApartInv, NEW r \in Recoverers, BeginRecover(r)
    PROVE  ApartInv'
<1> USE DEF BeginRecover, Goto, files, pointers
<1>1. /\ \A w \in Workers : pc[w] = "idle" /\ pc'[w] = "idle"
      /\ Workers \subseteq Procs /\ Recoverers \subseteq Procs /\ r \notin Workers
      /\ \A q \in Procs \ {r} : pc'[q] = pc[q] /\ mine'[q] = mine[q]
      /\ pc[r] = "idle" /\ pc'[r] = "sweep"
  BY ConstantsAssumption DEF Apart, Procs, IInv, TypeOK
<1>2. OneAtATime'
  BY <1>1 DEF OneAtATime
<1>3. OwnTemp'
  BY <1>1 DEF ApartInv, OwnTemp, InstallSteps, ReplaceSteps
<1>4. \A w \in Workers : OwnClaim(w)'
  BY <1>1 DEF OwnClaim, AcceptedSteps, PreparingSteps, FailingSteps
<1>5. FailedUnprepared'
  BY <1>1 DEF ApartInv, FailedUnprepared
<1> QED BY <1>2, <1>3, <1>4, <1>5 DEF ApartInv

\* The sweep takes no temporary file of an execution, for none is in flight.
LEMMA SweepTempApart ==
    ASSUME IInv, ApartInv, NEW r \in Recoverers, NEW p \in Procs, SweepTemp(r, p)
    PROVE  ApartInv'
<1> USE DEF SweepTemp, files, pointers
<1>1. \A w \in Workers : pc[w] = "idle"
  BY DEF ApartInv, OneAtATime
<1>2. pc[p] \in InstallSteps \cup ReplaceSteps /\ p \notin Workers
  BY <1>1 DEF ApartInv, OwnTemp, InstallSteps, ReplaceSteps
<1>3. OwnTemp'
  BY <1>2 DEF ApartInv, OwnTemp, IInv, TypeOK, Procs
<1>4. OneAtATime' /\ FailedUnprepared' /\ \A w \in Workers : OwnClaim(w)'
  BY DEF ApartInv, OneAtATime, FailedUnprepared, OwnClaim
<1> QED BY <1>3, <1>4 DEF ApartInv

\* A worker within a call has a claim in hand, and unless it is installing a file
\* it has no temporary one.
LEMMA WorkerInCall ==
    ASSUME IInv, ApartInv, NEW w \in Workers, pc[w] # "idle"
    PROVE  /\ w \in Procs
           /\ mine[w] \in Claim /\ mine[w] # None /\ mine[w].att \in Attempts
           /\ pc[w] # "claimFile" => claimOf[mine[w].att] = mine[w]
           /\ temp[w] \in {"none", "written"}
           /\ pc[w] \notin InstallSteps \cup ReplaceSteps => temp[w] = "none"
           /\ failureOf[mine[w].att] # None =>
                 claimOf[mine[w].att] # None /\ completionOf[mine[w].att] = None
<1>1. w \in Procs /\ pc[w] \in ClaimedSteps \cup {"claimFile"}
  BY DEF Procs, IInv, TypeOK, ProcInv, OwnSteps, ClaimedSteps
<1>2. mine[w] \in Claim /\ mine[w].att \in Attempts
  BY <1>1, InHand
<1>3. mine[w] # None /\ (pc[w] # "claimFile" => claimOf[mine[w].att] = mine[w])
  BY <1>1, <1>2, ConstantsAssumption DEF IInv, ProcInv, ClaimInHand
<1> QED BY <1>1, <1>2, <1>3 DEF IInv, TypeOK, ApartInv, OwnTemp, FailedUnprepared

\* Recording the claim: its attempt is still without completion and failure.
LEMMA InstallClaimApart ==
    ASSUME IInv, IInv', FilesGrow, ApartInv, NEW w \in Workers, InstallClaim(w)
    PROVE  ApartInv'
<1> USE DEF InstallClaim, files, pointers
<1>1. /\ pc[w] # "idle" /\ OthersStay(w) /\ TempKept(w) /\ temp'[w] = "none"
      /\ pc'[w] \in {"claimLock", "idle"}
  BY DEF Procs, IInv, TypeOK, OthersStay, TempKept, Installed, InstallRefused, Raise, Return,
     Goto, DropTemp
<1>2. OwnClaim(w)'
  BY <1>1, WorkerInCall DEF ApartInv, OwnClaim, PreparingSteps, AcceptedSteps, FailingSteps
<1> QED BY <1>1, <1>2, WorkerInCall, ExecutionKeeps DEF FilesGrow

\* claim_successor lets a claim go on only as the active one.
LEMMA ClaimUnderLockApart ==
    ASSUME IInv, IInv', FilesGrow, ApartInv, NEW w \in Workers, ClaimUnderLock(w)
    PROVE  ApartInv'
<1> USE DEF ClaimUnderLock, files, pointers
<1>1. /\ pc[w] # "idle" /\ OthersStay(w)
      /\ \/ pc'[w] \in {"claimActive", "idle"}
         \/ pc'[w] = "semantic" /\ active = mine[w]
  BY DEF Procs, IInv, TypeOK, OthersStay, Return, Goto, ClaimVerdict
<1>2. temp[w] = "none"
  BY <1>1, WorkerInCall DEF InstallSteps, ReplaceSteps
<1>3. TempKept(w) /\ temp'[w] = "none"
  BY <1>2 DEF TempKept
<1>4. OwnClaim(w)'
  BY <1>1 DEF ApartInv, OwnClaim, PreparingSteps, AcceptedSteps, FailingSteps
<1> QED BY <1>1, <1>3, <1>4, WorkerInCall, ExecutionKeeps

\* The marker is set while it is free.
LEMMA ReplaceActiveApart ==
    ASSUME IInv, IInv', FilesGrow, ApartInv, NEW w \in Workers, ReplaceActive(w)
    PROVE  ApartInv'
<1> USE DEF ReplaceActive, files, pointers
<1>1. /\ pc[w] # "idle" /\ OthersStay(w) /\ TempKept(w) /\ temp'[w] = "none"
      /\ active = None /\ w \in Procs
      /\ \/ pc'[w] = "idle"
         \/ pc'[w] = "semantic" /\ active' = mine[w]
  BY DEF Procs, IInv, TypeOK, ProcInv, LockedReads, OthersStay, TempKept, Raise, Return, Goto, DropTemp
<1>2. OwnClaim(w)'
  BY <1>1 DEF ApartInv, OwnClaim, PreparingSteps, AcceptedSteps, FailingSteps
<1> QED BY <1>1, <1>2, WorkerInCall, ExecutionKeeps

\* Until completion.json is written an execution is before it or has failed.
LEMMA PreparationApart ==
    ASSUME IInv, IInv', FilesGrow, ApartInv, NEW w \in Workers,
           ProjectionError(w) \/ InstallSemantic(w) \/ InstallBundle(w) \/ PutCompletionObject(w)
    PROVE  ApartInv'
<1> USE DEF files, pointers
<1>1. /\ pc[w] \in {"semantic", "bundle", "object"} /\ OthersStay(w)
      /\ temp'[w] = "none" /\ (\A q \in Procs \ {w} : temp'[q] = temp[q])
      /\ pc'[w] \in {"bundle", "object", "completion", "failure"}
      /\ UNCHANGED <<active, completionOf, failureOf, mine>>
  BY DEF ProjectionError, InstallSemantic, InstallBundle, PutCompletionObject, Procs, IInv,
     TypeOK, OthersStay, Installed, InstallRefused, Raise, Return, Goto, DropTemp
<1>2. OwnClaim(w)'
  BY <1>1 DEF ApartInv, OwnClaim, PreparingSteps, AcceptedSteps, FailingSteps
<1> QED BY <1>1, <1>2, WorkerInCall, ExecutionKeeps DEF TempKept, FilesGrow

\* completion.json is written for an attempt that has not failed.
LEMMA InstallCompletionApart ==
    ASSUME IInv, IInv', FilesGrow, ApartInv, NEW w \in Workers, InstallCompletion(w)
    PROVE  ApartInv'
<1> USE DEF InstallCompletion, files, pointers
<1>1. /\ pc[w] # "idle" /\ OthersStay(w) /\ TempKept(w) /\ temp'[w] = "none"
      /\ \/ pc'[w] = "publishLock"
         \/ pc'[w] = "failure" /\ UNCHANGED completionOf
  BY DEF Procs, IInv, TypeOK, OthersStay, TempKept, Installed, InstallRefused, Raise, Return,
     Goto, DropTemp
<1>2. completionOf[mine[w].att] = None /\ failureOf[mine[w].att] = None /\ active = mine[w]
  BY DEF ApartInv, OwnClaim, PreparingSteps, AcceptedSteps
<1>3. OwnClaim(w)'
  BY <1>1, <1>2 DEF OwnClaim, PreparingSteps, AcceptedSteps, FailingSteps
<1>4. \A a \in Attempts \ {mine[w].att} : completionOf'[a] = completionOf[a]
  BY DEF IInv, TypeOK
<1> QED BY <1>1, <1>2, <1>3, <1>4, WorkerInCall, ExecutionKeeps

\* Under the lock the claim of a live execution is still the active one, so its
\* prepared completion is published: publish_completion never raises for it.
LEMMA PublishUnderLockApart ==
    ASSUME IInv, IInv', FilesGrow, ApartInv, NEW w \in Workers, PublishUnderLock(w)
    PROVE  ApartInv'
<1> USE DEF PublishUnderLock, files, pointers
<1>1. active = mine[w] /\ pc[w] # "idle"
  BY DEF ApartInv, OwnClaim, AcceptedSteps
<1>2. mine[w] \in Claim /\ mine[w] # None /\ temp[w] = "none"
  BY <1>1, WorkerInCall DEF InstallSteps, ReplaceSteps
<1>3. PublishVerdict(mine[w]) \in {"head", "clear"}
  BY <1>1, <1>2 DEF IInv, TypeOK, TemporalHead, StoreInv, ActiveIsCurrent, PublishVerdict, Proposed
<1>4. pc'[w] \in {"head", "clear"} /\ OthersStay(w)
  BY <1>3 DEF DecidePublish, Goto, IInv, TypeOK, Procs, OthersStay
<1>5. OwnClaim(w)'
  BY <1>1, <1>4 DEF OwnClaim, PreparingSteps, AcceptedSteps, FailingSteps
<1> QED BY <1>1, <1>2, <1>4, <1>5, WorkerInCall, ExecutionKeeps DEF TempKept

\* A failure receipt is written only for an attempt without a completion.
LEMMA FailureApart ==
    ASSUME IInv, IInv', FilesGrow, ApartInv, NEW w \in Workers,
           InstallFailure(w) \/ RetireFailed(w)
    PROVE  ApartInv'
<1> USE DEF files, pointers
<1>1. /\ pc[w] \in {"failure", "failureLock"} /\ OthersStay(w)
      /\ pc'[w] \in {"failureLock", "idle"}
      /\ UNCHANGED <<completionOf, claimOf, mine>>
      /\ active' = active \/ active = mine[w]
  BY DEF InstallFailure, RetireFailed, OwnsActive, Procs, IInv, TypeOK, OthersStay, Installed,
     InstallRefused, Raise, Return, Goto
<1>2. TempKept(w) /\ temp'[w] = "none"
  <2>1. CASE InstallFailure(w)
    BY <2>1 DEF InstallFailure, Installed, InstallRefused, DropTemp, TempKept, IInv, TypeOK, Procs
  <2>2. CASE RetireFailed(w)
    BY <1>1, <2>2, WorkerInCall DEF RetireFailed, TempKept, InstallSteps, ReplaceSteps
  <2> QED BY <2>1, <2>2
<1>3. completionOf[mine[w].att] = None
  BY <1>1 DEF ApartInv, OwnClaim, FailingSteps
<1>4. OwnClaim(w)'
  BY <1>1, <1>3 DEF OwnClaim, PreparingSteps, AcceptedSteps, FailingSteps
<1>5. \A a \in Attempts \ {mine[w].att} : failureOf'[a] = failureOf[a]
  BY DEF InstallFailure, RetireFailed, IInv, TypeOK
<1>6. claimOf[mine[w].att] # None
  BY <1>1, WorkerInCall
<1> QED BY <1>1, <1>2, <1>3, <1>4, <1>5, <1>6, WorkerInCall, ExecutionKeeps

\* The steps executions and recoveries share write no receipt, and a death only
\* ends a call.
LEMMA SharedApart ==
    ASSUME IInv, IInv', FilesGrow, ApartInv, NEW p \in Procs, Shared(p) \/ Crash(p)
    PROVE  ApartInv'
<1> USE DEF files, pointers
<1>1. /\ pc[p] # "idle" /\ OthersStay(p) /\ UNCHANGED <<claimOf, completionOf, failureOf>>
      /\ mine'[p] = mine[p] \/ pc'[p] = "idle"
      /\ pc'[p] \in {pc[p], "clear", "idle", "failure"}
  BY DEF Shared, WriteTemp, ReplaceHead, ClearActive, Crash, IInv, TypeOK, OthersStay, Raise,
     Return, Goto, InstallSteps, ReplaceSteps
<1>2. TempKept(p) /\ (temp[p] # "swept" => temp'[p] # "swept")
  <2>1. CASE WriteTemp(p)
    BY <2>1 DEF WriteTemp, TempKept, IInv, TypeOK
  <2>2. CASE ReplaceHead(p) \/ Crash(p)
    BY <2>2 DEF ReplaceHead, Crash, TempKept, DropTemp, IInv, TypeOK
  <2>3. CASE ClearActive(p)
    BY <2>3 DEF ClearActive, TempKept, IInv, TypeOK, ApartInv, OwnTemp, InstallSteps, ReplaceSteps
  <2> QED BY <2>1, <2>2, <2>3 DEF Shared
<1>3. CASE p \in Workers
  <2>1. temp[p] # "swept" /\ temp'[p] # "swept"
    BY <1>1, <1>2, <1>3, WorkerInCall
  <2>2. OwnClaim(p)' /\ (active' = active \/ active = mine[p])
    <3>1. CASE WriteTemp(p)
      BY <1>3, <3>1 DEF WriteTemp, ApartInv, OwnClaim
    <3>2. CASE ReplaceHead(p)
      <4>1. active = mine[p] /\ UNCHANGED <<active, mine>> /\ temp[p] = "written"
        BY <1>3, <2>1, <3>2 DEF ReplaceHead, ApartInv, OwnClaim, AcceptedSteps
      <4>2. pc'[p] = "clear"
        BY <3>2, <4>1 DEF ReplaceHead, Goto, IInv, TypeOK
      <4> QED BY <4>1, <4>2 DEF OwnClaim, PreparingSteps, FailingSteps
    <3>3. CASE ClearActive(p)
      BY <1>3, <3>3 DEF ClearActive, Return, Goto, IInv, TypeOK, ApartInv, OwnClaim, AcceptedSteps,
         PreparingSteps, FailingSteps
    <3>4. CASE Crash(p)
      BY <3>4 DEF Crash, Goto, IInv, TypeOK, OwnClaim, AcceptedSteps, PreparingSteps, FailingSteps
    <3> QED BY <3>1, <3>2, <3>3, <3>4 DEF Shared
  <2> QED BY <1>1, <1>2, <1>3, <2>1, <2>2, WorkerInCall, ExecutionKeeps
<1>4. CASE p \in Recoverers
  <2>1. pc'[p] = "recoverFailure" => pc[p] = "recoverFailure" /\ mine'[p] = mine[p]
    BY <1>1
  <2> QED BY <1>1, <1>2, <1>4, <2>1, RecoveryKeeps DEF ApartInv, FailedUnprepared
<1> QED BY <1>3, <1>4 DEF Procs

\* recover fails an attempt only while nothing is prepared for it.
LEMMA RecoverApart ==
    ASSUME IInv, IInv', FilesGrow, ApartInv, NEW r \in Recoverers, Recover(r)
    PROVE  ApartInv'
<1> USE DEF files, pointers
<1>1. r \in Procs /\ pc[r] # "idle" /\ UNCHANGED <<completionOf, claimOf>>
  BY DEF Procs, Recover, EndSweep, RecoverUnderLock, RecoverInstallFailure, RecoverClear
<1>2. CASE EndSweep(r) \/ RecoverClear(r)
  <2>1. /\ OthersStay(r) /\ UNCHANGED <<failureOf, temp>>
        /\ pc[r] \in {"sweep", "recoverClear"} /\ pc'[r] \in {"recoverLock", "idle"}
    BY <1>1, <1>2 DEF EndSweep, RecoverClear, OthersStay, Return, Goto, IInv, TypeOK
  <2>2. TempKept(r)
    BY <1>1, <2>1 DEF TempKept, ApartInv, OwnTemp, InstallSteps, ReplaceSteps
  <2> QED BY <1>1, <2>1, <2>2, RecoveryKeeps
<1>3. CASE RecoverUnderLock(r)
  <2>1. /\ OthersStay(r) /\ UNCHANGED <<failureOf, temp>>
        /\ pc[r] = "recoverLock" /\ mine'[r] = active
        /\ pc'[r] = "recoverFailure" => active # None /\ completionOf[active.att] = None
    BY <1>1, <1>3, ConstantsAssumption DEF RecoverUnderLock, RecoverVerdict, DecidePublish,
       PublishVerdict, OthersStay, Raise, Return, Goto, IInv, TypeOK
  <2>2. TempKept(r)
    BY <1>1, <2>1 DEF TempKept, ApartInv, OwnTemp, InstallSteps, ReplaceSteps
  <2> QED BY <1>1, <2>1, <2>2, RecoveryKeeps
<1>4. CASE RecoverInstallFailure(r)
  <2>1. OthersStay(r) /\ TempKept(r) /\ pc'[r] \in {"recoverClear", "idle"} /\ pc[r] = "recoverFailure"
    BY <1>1, <1>4, ConstantsAssumption DEF RecoverInstallFailure, OthersStay, TempKept, Installed,
       InstallRefused, DropTemp, Raise, Return, Goto, IInv, TypeOK
  <2>2. /\ completionOf[mine[r].att] = None
        /\ claimOf[mine[r].att] = mine[r] /\ mine[r] # None
    BY <1>1, <2>1 DEF ApartInv, FailedUnprepared, IInv, ProcInv, ClaimInHand, ClaimedSteps, Steps,
       InstallSteps
  <2>3. \A a \in Attempts : failureOf'[a] # failureOf[a] => a = mine[r].att
    BY <1>4 DEF RecoverInstallFailure, IInv, TypeOK
  <2> QED BY <1>1, <2>1, <2>2, <2>3, RecoveryKeeps
<1> QED BY <1>2, <1>3, <1>4 DEF Recover

\* Every step keeps executions and recoveries apart.
LEMMA NextApart ==
    ASSUME Apart, IInv, ApartInv, [Next]_vars
    PROVE  ApartInv'
<1>0. IInv' /\ FilesGrow
  BY NextInv
<1>1. ASSUME NEW w \in Workers, BuildClaim(w) \/ Execute(w) PROVE ApartInv'
  BY <1>0, <1>1, BuildClaimApart, InstallClaimApart, ClaimUnderLockApart, ReplaceActiveApart,
     PreparationApart, InstallCompletionApart, PublishUnderLockApart, FailureApart DEF Execute
<1>2. ASSUME NEW r \in Recoverers, BeginRecover(r) \/ Recover(r) PROVE ApartInv'
  BY <1>0, <1>2, BeginRecoverApart, RecoverApart
<1>3. ASSUME NEW r \in Recoverers, NEW p \in Procs, SweepTemp(r, p) PROVE ApartInv'
  BY <1>3, SweepTempApart
<1>4. ASSUME NEW p \in Procs, Shared(p) \/ Crash(p) PROVE ApartInv'
  BY <1>0, <1>4, SharedApart
<1>5. CASE UNCHANGED vars
  BY <1>5 DEF vars, ApartInv, OneAtATime, OwnTemp, OwnClaim, FailedUnprepared
<1> QED BY <1>1, <1>2, <1>3, <1>4, <1>5 DEF Next

\* When every execution has an attempt id of its own and recover is not run while
\* executions are in flight, an attempt is committed or has a failure receipt,
\* never both, whatever dies in between (record_failure, recover).
THEOREM OneReceiptWhenApart ==
    ASSUME Apart PROVE Spec => []OneTerminalReceipt
<1>1. Init => ApartInv
  BY DEF Init, ApartInv, OneAtATime, OwnTemp, OwnClaim, FailedUnprepared, AcceptedSteps,
     PreparingSteps, FailingSteps, Procs
<1>2. IInv /\ ApartInv /\ [Next]_vars => ApartInv'
  BY NextApart
<1>3. ASSUME IInv, ApartInv PROVE OneTerminalReceipt
  <2> SUFFICES ASSUME NEW a \in Attempts, failureOf[a] # None,
                      NEW i \in DOMAIN committed, committed[i].att = a
               PROVE  FALSE
    BY DEF OneTerminalReceipt
  <2>1. i \in 1..Len(committed)
    BY <1>3 DEF IInv, TypeOK
  <2>2. completionOf[a] = committed[i] /\ committed[i] # None
    BY <1>3, <2>1, CommittedLink
  <2> QED BY <1>3, <2>2 DEF ApartInv, FailedUnprepared
<1> QED BY <1>1, <1>2, <1>3, Invariance, PTL DEF Spec

\* A step of one process leaves the others the reason they have for retiring a
\* claim.
LEMMA OthersRetire ==
    ASSUME IInv, FilesGrow, NEW p \in Procs, NEW q \in Procs \ {p}, Retiring(q),
           OthersStay(p), UNCHANGED active \/ lock \in {None, p}
    PROVE  Retiring(q)'
<1>1. q # None
  BY ConstantsAssumption DEF Procs
<1>2. pc[q] \in LockedSteps => UNCHANGED active
  BY <1>1 DEF IInv, ProcInv, HoldsLock
<1>3. pc[q] \in {"failureLock", "recoverClear"} => mine[q].att \in Attempts
  BY InHand DEF ClaimedSteps, Steps, WaitSteps
<1> QED BY <1>2, <1>3 DEF Retiring, OthersStay, FilesGrow, LockedSteps

\* A claim is retired with its reason on disk, whoever runs beside it.
LEMMA RetiringStep ==
    ASSUME IInv, \A p \in Procs : Retiring(p), [Next]_vars
    PROVE  \A p \in Procs : Retiring(p)'
<1> USE DEF files, pointers
<1>0. FilesGrow
  BY NextInv
<1> DEFINE Alone(p) == OthersStay(p) /\ (UNCHANGED active \/ lock \in {None, p}) /\ Retiring(p)'
<1>1. ASSUME NEW p \in Procs, Alone(p) PROVE \A q \in Procs : Retiring(q)'
  BY <1>0, <1>1, OthersRetire
<1>2. ASSUME NEW w \in Workers,
             BuildClaim(w) \/ ClaimUnderLock(w) \/ ReplaceActive(w) \/ PublishUnderLock(w) \/ RetireFailed(w)
      PROVE  Alone(w)
  <2>1. w \in Procs /\ w \notin Recoverers
    BY ConstantsAssumption DEF Procs
  <2>2. OthersStay(w)
    BY <1>2, <2>1 DEF BuildClaim, ClaimUnderLock, ReplaceActive, PublishUnderLock, RetireFailed,
       DecidePublish, OthersStay, Raise, Return, Goto, IInv, TypeOK
  <2>3. UNCHANGED active \/ lock \in {None, w}
    BY <1>2, <2>1 DEF BuildClaim, ClaimUnderLock, ReplaceActive, PublishUnderLock, RetireFailed,
       IInv, ProcInv, HoldsLock, LockedSteps
  <2>4. pc'[w] \notin {"failureLock", "recoverClear"}
    BY <1>2, <2>1 DEF BuildClaim, ClaimUnderLock, ReplaceActive, PublishUnderLock, RetireFailed,
       DecidePublish, PublishVerdict, Raise, Return, Goto, IInv, TypeOK
  <2> QED BY <2>1, <2>2, <2>3, <2>4 DEF Retiring
<1>3. ASSUME NEW w \in Workers,
             \/ InstallClaim(w) \/ ProjectionError(w) \/ InstallSemantic(w) \/ InstallBundle(w)
             \/ PutCompletionObject(w) \/ InstallCompletion(w)
      PROVE  Alone(w)
  <2>1. w \in Procs /\ w \notin Recoverers
    BY ConstantsAssumption DEF Procs
  <2>2. OthersStay(w) /\ pc'[w] \notin {"failureLock", "recoverClear"} /\ UNCHANGED active
    BY <1>3, <2>1 DEF InstallClaim, ProjectionError, InstallSemantic, InstallBundle,
       PutCompletionObject, InstallCompletion, OthersStay, Installed, InstallRefused, Raise,
       Return, Goto, IInv, TypeOK
  <2> QED BY <2>1, <2>2 DEF Retiring
<1>4. ASSUME NEW w \in Workers, InstallFailure(w) PROVE Alone(w)
  <2>1. w \in Procs /\ w \notin Recoverers /\ mine[w].att \in Attempts
    BY <1>4, InHand, ConstantsAssumption DEF Procs, InstallFailure, ClaimedSteps, Steps, InstallSteps
  <2>2. /\ OthersStay(w) /\ UNCHANGED <<active, mine>>
        /\ \/ pc'[w] = "failureLock" /\ failureOf'[mine[w].att] # None
           \/ pc'[w] = "idle"
    BY <1>4, <2>1, ConstantsAssumption DEF InstallFailure, OthersStay, Installed, InstallRefused,
       Raise, Return, Goto, IInv, TypeOK
  <2> QED BY <2>1, <2>2 DEF Retiring
<1>5. ASSUME NEW r \in Recoverers, BeginRecover(r) \/ EndSweep(r) \/ RecoverClear(r)
      PROVE  Alone(r)
  <2>1. r \in Procs
    BY DEF Procs
  <2>2. /\ OthersStay(r) /\ pc'[r] \in {"sweep", "recoverLock", "idle"}
        /\ UNCHANGED active \/ lock = r
    BY <1>5, <2>1 DEF BeginRecover, EndSweep, RecoverClear, OthersStay, Return, Goto, IInv, TypeOK,
       ProcInv, HoldsLock, LockedSteps
  <2> QED BY <2>1, <2>2 DEF Retiring
<1>6. ASSUME NEW r \in Recoverers, RecoverUnderLock(r) PROVE Alone(r)
  <2>1. /\ r \in Procs /\ OthersStay(r) /\ UNCHANGED active /\ mine'[r] = active
        /\ pc'[r] \notin {"failureLock", "recoverClear"}
    BY <1>6, ConstantsAssumption DEF Procs, RecoverUnderLock, RecoverVerdict, DecidePublish,
       PublishVerdict, OthersStay, Raise, Return, Goto, IInv, TypeOK
  <2> QED BY <2>1 DEF Retiring
<1>7. ASSUME NEW r \in Recoverers, RecoverInstallFailure(r) PROVE Alone(r)
  <2>1. r \in Procs /\ mine[r].att \in Attempts
    BY <1>7, InHand DEF Procs, RecoverInstallFailure, ClaimedSteps, Steps, InstallSteps
  <2>2. /\ OthersStay(r) /\ UNCHANGED <<active, mine>>
        /\ \/ pc'[r] = "recoverClear" /\ failureOf'[mine[r].att] # None
           \/ pc'[r] = "idle"
    BY <1>7, <2>1, ConstantsAssumption DEF RecoverInstallFailure, OthersStay, Installed,
       InstallRefused, Raise, Return, Goto, IInv, TypeOK, Failure
  <2>3. active = mine[r]
    BY <1>7, <2>1 DEF RecoverInstallFailure, Retiring
  <2> QED BY <2>1, <2>2, <2>3 DEF Retiring
<1>8. ASSUME NEW p \in Procs, Shared(p) \/ Crash(p) PROVE Alone(p)
  <2>1. /\ OthersStay(p)
        /\ UNCHANGED active \/ lock = p
        /\ \/ UNCHANGED <<active, pc, mine, failureOf>>
           \/ pc'[p] = "clear" /\ pc[p] = "head" /\ UNCHANGED <<active, mine>>
           \/ pc'[p] \in {"idle", "failure"}
    BY <1>8 DEF Shared, WriteTemp, ReplaceHead, ClearActive, Crash, OthersStay, Raise, Return, Goto,
       IInv, TypeOK, ProcInv, HoldsLock, LockedSteps
  <2> QED BY <2>1 DEF Retiring
<1>9. ASSUME NEW r \in Recoverers, NEW p \in Procs, SweepTemp(r, p)
      PROVE  \A q \in Procs : Retiring(q)'
  BY <1>9 DEF SweepTemp, Retiring
<1>10. CASE UNCHANGED vars
  BY <1>10 DEF vars, Retiring
<1> HIDE DEF Alone
<1>11. ASSUME NEW w \in Workers, BuildClaim(w) \/ Execute(w) PROVE \A q \in Procs : Retiring(q)'
  BY <1>1, <1>2, <1>3, <1>4, <1>11 DEF Execute, Procs
<1>12. ASSUME NEW r \in Recoverers, BeginRecover(r) \/ Recover(r) PROVE \A q \in Procs : Retiring(q)'
  BY <1>1, <1>5, <1>6, <1>7, <1>12 DEF Recover, Procs
<1> QED BY <1>1, <1>8, <1>9, <1>10, <1>11, <1>12 DEF Next

\* When executions and recoveries are apart, the active claim is retired only
\* after its failure receipt is durable or the head cites its completion: no call
\* clears the marker of another.
THEOREM RetiredWhenApart ==
    ASSUME Apart PROVE Spec => RetiredWithReceipt
<1> DEFINE Inv == IInv /\ ApartInv /\ \A p \in Procs : Retiring(p)
           Retired == active # None /\ active' # active =>
                        /\ active' = None
                        /\ \/ failureOf[active.att] # None
                           \/ head = [seq |-> Proposed(active), comp |-> completionOf[active.att]]
<1>1. Init => Inv
  BY InitInv DEF Init, ApartInv, OneAtATime, OwnTemp, OwnClaim, FailedUnprepared, AcceptedSteps,
     PreparingSteps, FailingSteps, Procs, Retiring
<1>2. Inv /\ [Next]_vars => Inv'
  BY NextInv, NextApart, RetiringStep
<1>3. Inv /\ [Next]_vars => [Retired]_vars
  <2> SUFFICES ASSUME Inv, Next, active # None, active' # active
               PROVE  /\ active' = None
                      /\ \/ failureOf[active.att] # None
                         \/ head = [seq |-> Proposed(active), comp |-> completionOf[active.att]]
    BY DEF vars
  <2> USE DEF files, pointers
  <2>1. \/ \E w \in Workers : ReplaceActive(w) \/ RetireFailed(w)
        \/ \E r \in Recoverers : RecoverClear(r)
        \/ \E p \in Procs : ClearActive(p)
    BY DEF Next, BuildClaim, Execute, InstallClaim, ClaimUnderLock, ProjectionError,
       InstallSemantic, InstallBundle, PutCompletionObject, InstallCompletion, PublishUnderLock,
       InstallFailure, BeginRecover, Recover, EndSweep, RecoverUnderLock, RecoverInstallFailure,
       SweepTemp, Shared, WriteTemp, ReplaceHead, Crash
  <2>2. ASSUME NEW w \in Workers, ReplaceActive(w) PROVE FALSE
    BY <2>2 DEF ReplaceActive, IInv, ProcInv, LockedReads, Procs
  <2>3. CASE \E w \in Workers : RetireFailed(w)
    BY <2>3 DEF RetireFailed, OwnsActive, Retiring, Procs
  <2>4. CASE \E r \in Recoverers : RecoverClear(r)
    BY <2>4 DEF RecoverClear, Retiring, Procs
  <2>5. CASE \E p \in Procs : ClearActive(p)
    <3>1. PICK p \in Procs : ClearActive(p)
      BY <2>5
    <3>2. active = mine[p]
      BY <3>1 DEF ClearActive, Procs, Retiring, ApartInv, OwnClaim, AcceptedSteps
    <3>3. head.seq = Proposed(active) /\ head.comp = completionOf[active.att] /\ head \in TemporalHead
      BY <3>1, <3>2 DEF ClearActive, IInv, TypeOK, ProcInv, LockedReads
    <3>4. head = [seq |-> Proposed(active), comp |-> completionOf[active.att]]
      BY <3>3 DEF TemporalHead
    <3> QED BY <3>1, <3>4 DEF ClearActive
  <2> QED BY <2>1, <2>2, <2>3, <2>4, <2>5
<1> QED BY <1>1, <1>2, <1>3, PTL DEF Spec, RetiredWithReceipt
================================================================================
