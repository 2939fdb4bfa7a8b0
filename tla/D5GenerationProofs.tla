-------------------------- MODULE D5GenerationProofs --------------------------
(***************************************************************************)
(* Proofs about D5Generation for any number of workers, recoverers,        *)
(* generations, failures and lost bundles.  One lemma per group of steps    *)
(* shows that it keeps StoreInv; OthersKeep shows once that the step of    *)
(* one process leaves the others what they rely on.  The refinement of     *)
(* GenerationRegister follows from the same invariant.                     *)
(***************************************************************************)
EXTENDS D5GenerationInv, SequenceTheorems, TLAPS

(***************************************************************************)
(* Chains and generations.                                                 *)
(***************************************************************************)
\* The chain a generation ends is one tick longer than its base.
LEMMA ChainLonger ==
    ASSUME NEW g \in Generation
    PROVE  /\ Chain(g) \in Seq(Tick)
           /\ Len(Chain(g)) = Len(g.base) + 1
           /\ Chain(g) # g.base
BY DEF Generation, Chain

\* What a longer chain says of its earlier generations does not change.
LEMMA PrefixKept ==
    ASSUME NEW ch \in Seq(Tick), NEW t \in Tick, NEW i \in 1..Len(ch)
    PROVE  At(Append(ch, t), i) = At(ch, i)
<1>1. \A j \in 1..(i - 1) : ch[j] \in Tick /\ Append(ch, t)[j] \in Tick
  OBVIOUS
<1> DEFINE a == SubSeq(Append(ch, t), 1, i - 1)
           b == SubSeq(ch, 1, i - 1)
<1>2. /\ a \in Seq(Tick) /\ b \in Seq(Tick)
      /\ Len(a) = Len(b)
      /\ \A j \in 1..Len(a) : a[j] = b[j]
  <2>1. /\ a \in Seq(Tick)
        /\ Len(a) = IF 1 <= i - 1 THEN i - 1 ELSE 0
        /\ \A j \in 1..(i - 1) : a[j] = Append(ch, t)[j]
    BY <1>1, SubSeqProperties
  <2>2. /\ b \in Seq(Tick)
        /\ Len(b) = IF 1 <= i - 1 THEN i - 1 ELSE 0
        /\ \A j \in 1..(i - 1) : b[j] = ch[j]
    BY <1>1, SubSeqProperties
  <2> QED BY <2>1, <2>2
<1>3. a = b
  BY <1>2, SeqEqual
<1>4. Append(ch, t)[i] = ch[i]
  OBVIOUS
<1> QED BY <1>3, <1>4 DEF At

\* The last generation of its chain is the generation itself.
LEMMA LastOfChain ==
    ASSUME NEW g \in Generation
    PROVE  At(Chain(g), Len(g.base) + 1) = g
<1>1. g.base \in Seq(Tick) /\ g.tick \in Tick /\ g = [base |-> g.base, tick |-> g.tick]
  BY DEF Generation
<1> DEFINE ch == g.base
           a == SubSeq(Append(ch, g.tick), 1, Len(ch))
<1>2. \A j \in 1..Len(ch) : Append(ch, g.tick)[j] = ch[j] /\ ch[j] \in Tick
  BY <1>1
<1>3. /\ a \in Seq(Tick)
      /\ Len(a) = IF 1 <= Len(ch) THEN Len(ch) ELSE 0
      /\ \A j \in 1..Len(ch) : a[j] = Append(ch, g.tick)[j]
  <2>1. Len(ch) \in Int /\ 1 \in Int /\ Len(ch) - 1 + 1 = Len(ch)
    BY <1>1
  <2> QED BY <1>2, <2>1, SubSeqProperties
<1>4. a = ch
  <2>1. Len(a) = Len(ch) /\ \A j \in 1..Len(a) : a[j] = ch[j]
    BY <1>1, <1>2, <1>3
  <2> QED BY <1>1, <1>3, <2>1, SeqEqual
<1>5. Append(ch, g.tick)[Len(ch) + 1] = g.tick
  BY <1>1
<1>6. Len(ch) + 1 - 1 = Len(ch)
  BY <1>1
<1> QED BY <1>1, <1>4, <1>5, <1>6 DEF At, Chain

\* Publishing a generation keeps the generations before it and adds it.
LEMMA LineageOfChain ==
    ASSUME NEW g \in Generation
    PROVE  Lineage(Chain(g)) = Lineage(g.base) \cup {g}
<1>1. g.base \in Seq(Tick) /\ g.tick \in Tick
  BY DEF Generation
<1>2. 1..Len(Chain(g)) = (1..Len(g.base)) \cup {Len(g.base) + 1}
  BY <1>1, ChainLonger
<1>3. \A i \in 1..Len(g.base) : At(Chain(g), i) = At(g.base, i)
  BY <1>1, PrefixKept DEF Chain
<1> QED BY <1>2, <1>3, LastOfChain DEF Lineage

-----------------------------------------------------------------------------
(***************************************************************************)
(* What a step leaves alone.                                               *)
(***************************************************************************)
\* Immutable files are added and never taken away.
FilesGrow ==
    /\ manifests \subseteq manifests'
    /\ completions \subseteq completions'
    /\ receipts \subseteq receipts'
    /\ events \subseteq events'

\* Only process p moves.
OthersStay(p) ==
    \A q \in Procs \ {p} :
        /\ pc'[q] = pc[q]
        /\ claim'[q] = claim[q]
        /\ gen'[q] = gen[q]
        /\ outcome'[q] = outcome[q]

LockStays(p) == lock' = lock \/ (lock \in {None, p} /\ lock' \in {None, p})

\* What a generation has on disk once it is published.
Whole(g) ==
    /\ Stored(g)
    /\ \A r \in g.tick.changed : <<r, g>> \in events

\* The invariant of the chain, said of its generations.
LEMMA WholeLineage ==
    GenerationsReconstruct <=> \A g \in Lineage(current) : Whole(g)
BY DEF GenerationsReconstruct, Lineage, Whole, Stored

\* Whatever one process does, if files only grow and the pointer and the marker
\* move only under the lock, the other processes may rely on what they have.
LEMMA OthersKeep ==
    ASSUME StoreInv, FilesGrow, NEW p \in Procs, NEW q \in Procs \ {p},
           OthersStay(p), LockStays(p),
           UNCHANGED <<current, active>> \/ lock \in {None, p}
    PROVE  ProcInv(q)'
<1>0. q # None /\ q # p /\ pc'[q] = pc[q] /\ claim'[q] = claim[q]
      /\ gen'[q] = gen[q] /\ outcome'[q] = outcome[q]
  BY D5Assumption DEF Procs, OthersStay
<1>1. ProcInv(q)
  BY DEF StoreInv
<1>2. HoldsLock(q)'
  BY <1>0, <1>1 DEF ProcInv, HoldsLock, LockStays
<1>3. pc[q] \in LockedSteps => UNCHANGED <<current, active>>
  BY <1>0, <1>1 DEF ProcInv, HoldsLock
<1>4. OwnSteps(q)' /\ CallPending(q)'
  BY <1>0, <1>1 DEF ProcInv, OwnSteps, CallPending
<1>5. InOrder(q)'
  BY <1>0, <1>1 DEF ProcInv, InOrder, Stored, FilesGrow
<1>6. Preparing(q)' /\ Finishing(q)'
  BY <1>0, <1>1, <1>3 DEF ProcInv, Preparing, Finishing, PrepareSteps, LockedSteps
<1> QED BY <1>2, <1>4, <1>5, <1>6 DEF ProcInv

\* A step that leaves the pointer alone and takes no file away keeps every
\* published generation whole.
LEMMA ChainKept ==
    ASSUME GenerationsReconstruct, FilesGrow, UNCHANGED current
    PROVE  GenerationsReconstruct'
BY DEF GenerationsReconstruct, FilesGrow

\* A commit that has returned stays in the chain while nobody else's result is
\* touched and the chain only grows.
LEMMA CommitsKept ==
    ASSUME StoreInv, NEW p \in Procs, OthersStay(p),
           Lineage(current) \subseteq Lineage(current)',
           p \in Workers => (outcome'[p] = "committed" => gen'[p] \in Lineage(current)')
    PROVE  CommitsArePublished'
BY DEF StoreInv, CommitsArePublished, OthersStay, Procs

\* A process that moves between two steps, and only it.
LEMMA Moves ==
    ASSUME TypeOK, NEW p \in Procs, NEW s \in Steps, Goto(p, s)
    PROVE  /\ pc' \in [Procs -> Steps]
           /\ pc'[p] = s
           /\ \A q \in Procs \ {p} : pc'[q] = pc[q]
BY DEF TypeOK, Goto

\* A process that ends its call with a result.
LEMMA Returns ==
    ASSUME TypeOK, NEW p \in Procs, NEW o \in Outcomes, Return(p, o)
    PROVE  /\ pc' \in [Procs -> Steps] /\ outcome' \in [Procs -> Outcomes]
           /\ pc'[p] = "idle" /\ outcome'[p] = o
           /\ \A q \in Procs \ {p} : pc'[q] = pc[q] /\ outcome'[q] = outcome[q]
<1>1. "idle" \in Steps
  BY DEF Steps
<1> QED BY <1>1, Moves DEF Return, TypeOK

-----------------------------------------------------------------------------
(***************************************************************************)
(* Every step keeps the invariant.                                         *)
(***************************************************************************)
\* A step of p that leaves the files of state/ alone.
LEMMA QuietStep ==
    ASSUME StoreInv, FilesGrow, UNCHANGED state, NEW p \in Procs,
           OthersStay(p), LockStays(p), TypeOK', ProcInv(p)',
           p \in Workers => outcome'[p] # "committed"
    PROVE  StoreInv'
<1>1. UNCHANGED <<current, active, prepared>>
  BY DEF state
<1>2. \A q \in Procs : ProcInv(q)'
  BY <1>1, OthersKeep
<1>3. FilesStored' /\ MarkerIsCurrent'
  BY <1>1 DEF StoreInv, FilesStored, MarkerIsCurrent, Stored, FilesGrow
<1>4. GenerationsReconstruct'
  BY <1>1, ChainKept DEF StoreInv
<1>5. CommitsArePublished'
  BY <1>1, CommitsKept DEF Lineage, At
<1> QED BY <1>2, <1>3, <1>4, <1>5 DEF StoreInv

\* Proposing a claim and being refused touch only the caller.
LEMMA ProposeKeeps ==
    ASSUME StoreInv, NEW w \in Workers, Propose(w) \/ PrepareRaises(w)
    PROVE  StoreInv'
<1>0. w \in Procs /\ w \notin Recoverers /\ w # None /\ TypeOK /\ ProcInv(w)
  BY D5Assumption DEF Procs, StoreInv
<1>1. CASE Propose(w)
  <2>1. /\ pc' \in [Procs -> Steps] /\ pc'[w] = "claimed"
        /\ \A q \in Procs \ {w} : pc'[q] = pc[q]
    BY <1>0, <1>1, Moves DEF Propose, Steps
  <2>2. PICK b \in Claimants : claim' = [claim EXCEPT ![w] = [base |-> current, by |-> b]]
    BY <1>1 DEF Propose
  <2>3. [base |-> current, by |-> b] \in ClockClaim
    BY <1>0 DEF TypeOK, ClockClaim
  <2>4. TypeOK'
    BY <1>0, <1>1, <2>1, <2>2, <2>3 DEF TypeOK, Propose, state, objects, Outcomes
  <2>5. ProcInv(w)'
    BY <1>0, <1>1, <2>1, <2>2, <2>3, D5Assumption DEF ProcInv, HoldsLock, OwnSteps, CallPending,
       Preparing, InOrder, Finishing, LockedSteps, PrepareSteps, Propose, TypeOK
  <2>6. OthersStay(w)
    BY <1>0, <1>1, <2>1, <2>2 DEF OthersStay, Propose, TypeOK
  <2>7. outcome'[w] = "none"
    BY <1>0, <1>1 DEF Propose, TypeOK
  <2> QED
    BY <1>0, <1>1, <2>4, <2>5, <2>6, <2>7, QuietStep DEF Propose, FilesGrow, LockStays, objects
<1>2. CASE PrepareRaises(w)
  <2>1. /\ pc' \in [Procs -> Steps] /\ outcome' \in [Procs -> Outcomes]
        /\ pc'[w] = "idle" /\ outcome'[w] = "raised"
        /\ \A q \in Procs \ {w} : pc'[q] = pc[q] /\ outcome'[q] = outcome[q]
    BY <1>0, <1>2, Returns DEF PrepareRaises, Outcomes
  <2>2. TypeOK'
    BY <1>0, <1>2, <2>1 DEF TypeOK, PrepareRaises, state, objects
  <2>3. ProcInv(w)'
    BY <1>0, <1>2, <2>1 DEF ProcInv, HoldsLock, OwnSteps, CallPending,
       Preparing, InOrder, Finishing, LockedSteps, PrepareSteps, PrepareRaises
  <2>4. OthersStay(w)
    BY <1>2, <2>1 DEF OthersStay, PrepareRaises
  <2> QED
    BY <1>0, <1>2, <2>1, <2>2, <2>3, <2>4, QuietStep
       DEF PrepareRaises, FilesGrow, LockStays, objects
<1> QED BY <1>1, <1>2

\* A claim that is admitted extends the chain and takes over no other claim.
LEMMA PrepareUnderLockKeeps ==
    ASSUME StoreInv, NEW w \in Workers, PrepareUnderLock(w)
    PROVE  StoreInv'
<1>0. w \in Procs /\ w \notin Recoverers /\ w # None /\ TypeOK /\ ProcInv(w)
  BY D5Assumption DEF Procs, StoreInv
<1>1. /\ pc' \in [Procs -> Steps] /\ pc'[w] = "manifest"
      /\ \A q \in Procs \ {w} : pc'[q] = pc[q]
  BY <1>0, Moves DEF PrepareUnderLock, Steps, LockedSteps
<1>2. PICK plan \in Plans :
        gen' = [gen EXCEPT ![w] = [base |-> claim[w].base,
                                   tick |-> [by |-> claim[w].by, changed |-> plan]]]
  BY DEF PrepareUnderLock
<1> DEFINE g == [base |-> claim[w].base, tick |-> [by |-> claim[w].by, changed |-> plan]]
<1>3. claim[w] \in ClockClaim
  BY <1>0 DEF PrepareUnderLock, ProcInv, CallPending, TypeOK
<1>4. g \in Generation /\ g.base = current /\ ClaimOf(g) = claim[w]
  BY <1>3 DEF PrepareUnderLock, Admissible, ClockClaim, Generation, Tick, ClaimOf
<1>5. gen'[w] = g /\ outcome'[w] = "none"
  BY <1>0, <1>2 DEF TypeOK, PrepareUnderLock, ProcInv, CallPending
<1>6. TypeOK'
  BY <1>0, <1>1, <1>2, <1>4 DEF TypeOK, PrepareUnderLock, state, objects
<1>7. ProcInv(w)'
  <2>1. HoldsLock(w)' /\ OwnSteps(w)' /\ InOrder(w)' /\ Finishing(w)'
    BY <1>0, <1>1 DEF HoldsLock, OwnSteps, InOrder, Finishing, LockedSteps,
       PrepareSteps, PrepareUnderLock
  <2>2. CallPending(w)'
    BY <1>1, <1>4, <1>5, D5Assumption DEF CallPending
  <2>3. Preparing(w)'
    BY <1>4, <1>5 DEF Preparing, PrepareUnderLock, Admissible, state
  <2> QED BY <2>1, <2>2, <2>3 DEF ProcInv
<1>8. OthersStay(w)
  BY <1>0, <1>1, <1>2 DEF OthersStay, PrepareUnderLock, TypeOK
<1> QED
  BY <1>0, <1>5, <1>6, <1>7, <1>8, QuietStep DEF PrepareUnderLock, FilesGrow, LockStays, objects

\* Installing the manifest, the completion and the receipts, in this order.
LEMMA InstallKeeps ==
    ASSUME StoreInv, NEW w \in Workers,
           InstallManifest(w) \/ InstallCompletion(w) \/ InstallReceipts(w)
    PROVE  StoreInv'
<1>0. w \in Procs /\ w \notin Recoverers /\ w # None /\ TypeOK /\ ProcInv(w)
  BY D5Assumption DEF Procs, StoreInv
<1>1. gen[w] \in Generation /\ outcome[w] = "none"
  BY <1>0 DEF InstallManifest, InstallCompletion, InstallReceipts, ProcInv, CallPending,
     LockedSteps, TypeOK
<1>2. /\ pc' \in [Procs -> Steps]
      /\ pc'[w] = IF pc[w] = "manifest" THEN "completion"
                  ELSE IF pc[w] = "completion" THEN "receipts" ELSE "bundle"
      /\ \A q \in Procs \ {w} : pc'[q] = pc[q]
  BY <1>0, Moves DEF InstallManifest, InstallCompletion, InstallReceipts, Steps, LockedSteps
<1>3. /\ FilesGrow
      /\ UNCHANGED <<state, lock, events, claim, gen, outcome, failures, losses>>
  BY DEF InstallManifest, InstallCompletion, InstallReceipts, FilesGrow
<1>4. TypeOK'
  <2>1. manifests' \subseteq Generation /\ completions' \subseteq Generation
        /\ receipts' \subseteq Generation
    BY <1>0, <1>1 DEF TypeOK, InstallManifest, InstallCompletion, InstallReceipts
  <2> QED BY <1>0, <1>2, <1>3, <2>1 DEF TypeOK, state
<1>5. ProcInv(w)'
  <2>1. pc[w] \in LockedSteps /\ pc'[w] \in LockedSteps
        /\ pc[w] \in PrepareSteps /\ pc'[w] \in PrepareSteps
    BY <1>2 DEF InstallManifest, InstallCompletion, InstallReceipts, LockedSteps, PrepareSteps
  <2>2. HoldsLock(w)' /\ OwnSteps(w)' /\ CallPending(w)' /\ Preparing(w)'
    BY <1>0, <1>3, <2>1 DEF ProcInv, HoldsLock, OwnSteps, CallPending, Preparing,
       LockedSteps, PrepareSteps, state
  <2>3. InOrder(w)' /\ Finishing(w)'
    BY <1>0, <1>2, <1>3 DEF ProcInv, InOrder, Finishing, Stored, PrepareSteps, FilesGrow,
       InstallManifest, InstallCompletion, InstallReceipts
  <2> QED BY <2>2, <2>3 DEF ProcInv
<1>6. OthersStay(w)
  BY <1>2, <1>3 DEF OthersStay
<1> QED
  BY <1>0, <1>1, <1>3, <1>4, <1>5, <1>6, QuietStep DEF LockStays

\* A missing comparison receipt ends the call; the files installed so far stay.
LEMMA ReceiptsMissingKeeps ==
    ASSUME StoreInv, NEW w \in Workers, ReceiptsMissing(w)
    PROVE  StoreInv'
<1>0. w \in Procs /\ w \notin Recoverers /\ w # None /\ TypeOK /\ ProcInv(w) /\ lock = w
  BY D5Assumption DEF Procs, StoreInv, ProcInv, HoldsLock, ReceiptsMissing, LockedSteps
<1>1. /\ UNCHANGED <<state, claim, gen, losses>> /\ lock' = None
      /\ failures' \in 0..MaxFailures
      /\ UNCHANGED <<manifests, completions, receipts, events>> /\ FilesGrow
  BY <1>0, D5Assumption DEF ReceiptsMissing, objects, FilesGrow, TypeOK
<1>2. /\ pc' \in [Procs -> Steps] /\ outcome' \in [Procs -> Outcomes]
      /\ pc'[w] = "idle" /\ outcome'[w] = "raised"
      /\ \A q \in Procs \ {w} : pc'[q] = pc[q] /\ outcome'[q] = outcome[q]
  BY <1>0, Returns DEF ReceiptsMissing, Outcomes
<1>3. TypeOK'
  BY <1>0, <1>1, <1>2 DEF TypeOK, state
<1>4. ProcInv(w)'
  BY <1>0, <1>1, <1>2 DEF ProcInv, HoldsLock, OwnSteps, CallPending, Preparing,
     InOrder, Finishing, LockedSteps, PrepareSteps
<1>5. OthersStay(w) /\ LockStays(w)
  BY <1>0, <1>1, <1>2 DEF OthersStay, LockStays
<1> QED BY <1>0, <1>1, <1>2, <1>3, <1>4, <1>5, QuietStep

\* The bundle is installed once its files are; a foreign bundle refuses.
LEMMA InstallBundleKeeps ==
    ASSUME StoreInv, NEW w \in Workers, InstallBundle(w)
    PROVE  StoreInv'
<1>0. w \in Procs /\ w \notin Recoverers /\ w # None /\ TypeOK /\ ProcInv(w)
      /\ lock = w /\ Stored(gen[w]) /\ gen[w] \in Generation /\ outcome[w] = "none"
  BY D5Assumption DEF Procs, StoreInv, ProcInv, HoldsLock, CallPending, InOrder, TypeOK,
     InstallBundle, LockedSteps
<1>1. FilesGrow /\ UNCHANGED <<current, active, claim, gen, failures, losses>>
      /\ UNCHANGED <<manifests, completions, receipts, events>>
  BY DEF InstallBundle, FilesGrow, objects
<1>2. CASE prepared \in {None, gen[w]}
  <2>1. /\ pc' \in [Procs -> Steps] /\ pc'[w] = "marker"
        /\ \A q \in Procs \ {w} : pc'[q] = pc[q]
    BY <1>0, <1>2, Moves DEF InstallBundle, Steps, LockedSteps
  <2>2. prepared' = gen[w] /\ UNCHANGED <<lock, outcome>>
    BY <1>2 DEF InstallBundle
  <2>3. TypeOK'
    BY <1>0, <1>1, <2>1, <2>2 DEF TypeOK
  <2>4. ProcInv(w)'
    BY <1>0, <1>1, <2>1, <2>2 DEF ProcInv, HoldsLock, OwnSteps, CallPending, Preparing,
       InOrder, Finishing, Stored, LockedSteps, PrepareSteps, InstallBundle
  <2>5. FilesStored' /\ MarkerIsCurrent'
    BY <1>0, <1>1, <2>2 DEF StoreInv, FilesStored, MarkerIsCurrent, Stored
  <2>6. OthersStay(w) /\ LockStays(w)
    BY <1>0, <1>1, <2>1, <2>2 DEF OthersStay, LockStays
  <2>7. \A q \in Procs : ProcInv(q)'
    BY <1>0, <1>1, <2>4, <2>6, OthersKeep
  <2>8. GenerationsReconstruct' /\ CommitsArePublished'
    BY <1>0, <1>1, <2>2, <2>6, ChainKept, CommitsKept DEF StoreInv, Lineage, At
  <2> QED BY <2>3, <2>5, <2>7, <2>8 DEF StoreInv
<1>3. CASE prepared \notin {None, gen[w]}
  <2>1. /\ pc' \in [Procs -> Steps] /\ outcome' \in [Procs -> Outcomes]
        /\ pc'[w] = "idle" /\ outcome'[w] = "raised"
        /\ \A q \in Procs \ {w} : pc'[q] = pc[q] /\ outcome'[q] = outcome[q]
    BY <1>0, <1>3, Returns DEF InstallBundle, Outcomes
  <2>2. lock' = None /\ UNCHANGED state
    BY <1>1, <1>3 DEF InstallBundle, state
  <2>3. TypeOK'
    BY <1>0, <1>1, <2>1, <2>2 DEF TypeOK, state
  <2>4. ProcInv(w)'
    BY <1>0, <1>1, <2>1, <2>2 DEF ProcInv, HoldsLock, OwnSteps, CallPending, Preparing,
       InOrder, Finishing, LockedSteps, PrepareSteps
  <2>5. OthersStay(w) /\ LockStays(w)
    BY <1>0, <1>1, <2>1, <2>2 DEF OthersStay, LockStays
  <2> QED BY <1>0, <1>1, <2>1, <2>2, <2>3, <2>4, <2>5, QuietStep
<1> QED BY <1>2, <1>3

\* The marker is replaced while the generation in hand extends the chain.
LEMMA ReplaceMarkerKeeps ==
    ASSUME StoreInv, NEW w \in Workers, ReplaceMarker(w)
    PROVE  StoreInv'
<1>0. w \in Procs /\ w \notin Recoverers /\ w # None /\ TypeOK /\ ProcInv(w)
      /\ lock = w /\ Stored(gen[w]) /\ gen[w] \in Generation /\ outcome[w] = "none"
      /\ gen[w].base = current
  BY D5Assumption DEF Procs, StoreInv, ProcInv, HoldsLock, CallPending, InOrder, TypeOK,
     Preparing, PrepareSteps, ReplaceMarker, LockedSteps
<1>1. FilesGrow /\ UNCHANGED <<current, prepared, claim, gen, outcome, failures, losses>>
      /\ UNCHANGED <<manifests, completions, receipts, events>>
      /\ active' = gen[w] /\ lock' = None
  BY DEF ReplaceMarker, FilesGrow, objects
<1>2. /\ pc' \in [Procs -> Steps] /\ pc'[w] = "held"
      /\ \A q \in Procs \ {w} : pc'[q] = pc[q]
  BY <1>0, Moves DEF ReplaceMarker, Steps
<1>3. TypeOK'
  BY <1>0, <1>1, <1>2 DEF TypeOK
<1>4. ProcInv(w)'
  BY <1>0, <1>1, <1>2 DEF ProcInv, HoldsLock, OwnSteps, CallPending, Preparing,
     InOrder, Finishing, Stored, LockedSteps, PrepareSteps, ReplaceMarker
<1>5. FilesStored' /\ MarkerIsCurrent'
  BY <1>0, <1>1 DEF StoreInv, FilesStored, MarkerIsCurrent, Stored
<1>6. OthersStay(w) /\ LockStays(w)
  BY <1>0, <1>1, <1>2 DEF OthersStay, LockStays
<1>7. \A q \in Procs : ProcInv(q)'
  BY <1>0, <1>1, <1>4, <1>6, OthersKeep
<1>8. GenerationsReconstruct' /\ CommitsArePublished'
  BY <1>0, <1>1, <1>6, ChainKept, CommitsKept DEF StoreInv, Lineage, At
<1> QED BY <1>3, <1>5, <1>7, <1>8 DEF StoreInv

\* commit_generation is refused, or goes on with the marker's generation.
LEMMA CommitUnderLockKeeps ==
    ASSUME StoreInv, NEW w \in Workers, CommitUnderLock(w)
    PROVE  StoreInv'
<1>0. w \in Procs /\ w \notin Recoverers /\ w # None /\ TypeOK /\ ProcInv(w)
      /\ gen[w] # None /\ outcome[w] = "none" /\ lock = None
  BY D5Assumption DEF Procs, StoreInv, ProcInv, CallPending, CommitUnderLock
<1>1. FilesGrow /\ UNCHANGED <<state, claim, gen, failures, losses>>
      /\ UNCHANGED <<manifests, completions, receipts, events>>
  BY DEF CommitUnderLock, FilesGrow, objects
<1>2. CASE Committable(gen[w])
  <2>1. /\ pc' \in [Procs -> Steps] /\ pc'[w] = "events"
        /\ \A q \in Procs \ {w} : pc'[q] = pc[q]
    BY <1>0, <1>2, Moves DEF CommitUnderLock, Steps, LockedSteps
  <2>2. lock' = w /\ UNCHANGED outcome
    BY <1>2 DEF CommitUnderLock
  <2>3. TypeOK'
    BY <1>0, <1>1, <2>1, <2>2 DEF TypeOK, state
  <2>4. ProcInv(w)'
    BY <1>0, <1>1, <1>2, <2>1, <2>2 DEF ProcInv, HoldsLock, OwnSteps, CallPending, Preparing,
       InOrder, Finishing, Committable, LockedSteps, PrepareSteps, state
  <2>5. OthersStay(w) /\ LockStays(w)
    BY <1>0, <1>1, <2>1, <2>2 DEF OthersStay, LockStays
  <2> QED BY <1>0, <1>1, <2>2, <2>3, <2>4, <2>5, QuietStep
<1>3. CASE ~Committable(gen[w])
  <2>1. /\ pc' \in [Procs -> Steps] /\ outcome' \in [Procs -> Outcomes]
        /\ pc'[w] = "idle" /\ outcome'[w] = "raised"
        /\ \A q \in Procs \ {w} : pc'[q] = pc[q] /\ outcome'[q] = outcome[q]
    <3>1. Return(w, "raised")
      BY <1>3 DEF CommitUnderLock, AlreadyDone
    <3> QED BY <1>0, <3>1, Returns DEF Outcomes
  <2>2. UNCHANGED lock
    BY <1>3 DEF CommitUnderLock
  <2>3. TypeOK'
    BY <1>0, <1>1, <2>1, <2>2 DEF TypeOK, state
  <2>4. ProcInv(w)'
    BY <1>0, <1>1, <2>1, <2>2 DEF ProcInv, HoldsLock, OwnSteps, CallPending, Preparing,
       InOrder, Finishing, LockedSteps, PrepareSteps
  <2>5. OthersStay(w) /\ LockStays(w)
    BY <1>0, <1>1, <2>1, <2>2 DEF OthersStay, LockStays
  <2> QED BY <1>0, <1>1, <2>1, <2>3, <2>4, <2>5, QuietStep
<1> QED BY <1>2, <1>3

\* recover takes the marker's generation in hand, if there is one.
LEMMA RecoverUnderLockKeeps ==
    ASSUME StoreInv, NEW r \in Recoverers, RecoverUnderLock(r)
    PROVE  StoreInv'
<1>0. r \in Procs /\ r \notin Workers /\ r # None /\ TypeOK /\ ProcInv(r) /\ lock = None
      /\ pc[r] = "idle"
  BY D5Assumption DEF Procs, StoreInv, RecoverUnderLock
<1>1. FilesGrow /\ UNCHANGED <<state, claim, failures, losses>>
      /\ UNCHANGED <<manifests, completions, receipts, events>>
      /\ gen' = [gen EXCEPT ![r] = active]
  BY DEF RecoverUnderLock, FilesGrow, objects
<1>2. CASE RecoverVerdict \in {"nothing", "raise"}
  <2>0. PICK o \in {"recovered", "raised"} : Return(r, o)
    BY <1>2 DEF RecoverUnderLock
  <2>1. /\ pc' \in [Procs -> Steps] /\ outcome' \in [Procs -> Outcomes]
        /\ pc'[r] = "idle"
        /\ \A q \in Procs \ {r} : pc'[q] = pc[q] /\ outcome'[q] = outcome[q]
    BY <1>0, <2>0, Returns DEF Outcomes
  <2>2. UNCHANGED lock
    BY <1>2 DEF RecoverUnderLock
  <2>3. TypeOK'
    BY <1>0, <1>1, <2>1, <2>2 DEF TypeOK, state
  <2>4. ProcInv(r)'
    BY <1>0, <1>1, <2>1, <2>2 DEF ProcInv, HoldsLock, OwnSteps, CallPending, Preparing,
       InOrder, Finishing, LockedSteps, PrepareSteps
  <2>5. OthersStay(r) /\ LockStays(r)
    BY <1>0, <1>1, <2>1, <2>2 DEF OthersStay, LockStays, TypeOK
  <2> QED BY <1>0, <1>1, <2>3, <2>4, <2>5, QuietStep
<1>3. CASE RecoverVerdict \in {"clear", "finish"}
  <2>0. PICK s \in {"events", "unlinkMarker"} :
          Goto(r, s) /\ (s = "events" => RecoverVerdict = "finish")
    BY <1>3 DEF RecoverUnderLock
  <2>1. /\ pc' \in [Procs -> Steps] /\ pc'[r] = s
        /\ \A q \in Procs \ {r} : pc'[q] = pc[q]
    BY <1>0, <2>0, Moves DEF Steps, LockedSteps
  <2>2. lock' = r /\ outcome' = [outcome EXCEPT ![r] = "none"]
    BY <1>3 DEF RecoverUnderLock
  <2>3. active # None /\ gen'[r] = active /\ (s = "events" => active.base = current)
    BY <1>0, <1>1, <1>3, <2>0 DEF RecoverVerdict, TypeOK
  <2>4. TypeOK'
    BY <1>0, <1>1, <2>1, <2>2 DEF TypeOK, state, Outcomes
  <2>5. ProcInv(r)'
    BY <1>0, <1>1, <2>1, <2>2, <2>3 DEF ProcInv, HoldsLock, OwnSteps, CallPending, Preparing,
       InOrder, Finishing, LockedSteps, PrepareSteps, state
  <2>6. OthersStay(r) /\ LockStays(r)
    BY <1>0, <1>1, <2>1, <2>2 DEF OthersStay, LockStays, TypeOK
  <2> QED BY <1>0, <1>1, <2>4, <2>5, <2>6, QuietStep
<1> QED BY <1>2, <1>3 DEF RecoverUnderLock

\* Event objects are only added, by whoever finishes the marker's generation.
LEMMA InstallEventKeeps ==
    ASSUME StoreInv, NEW p \in Procs, InstallEvent(p)
    PROVE  StoreInv'
<1>0. TypeOK /\ ProcInv(p) /\ gen[p] \in Generation
      /\ (p \in Workers => outcome[p] = "none")
  BY DEF StoreInv, ProcInv, CallPending, TypeOK, InstallEvent, LockedSteps
<1>1. UNCHANGED <<state, lock, manifests, completions, receipts, pc, claim, gen,
                  outcome, failures, losses>>
  BY DEF InstallEvent
<1>2. PICK e \in Missing(gen[p]) : events' = events \cup {e}
  BY DEF InstallEvent
<1>3. e \in Registries \X Generation
  BY <1>0, <1>2, D5Assumption DEF Missing, EventsOf, Generation, Tick
<1>4. FilesGrow
  BY <1>1, <1>2 DEF FilesGrow
<1>5. TypeOK'
  BY <1>0, <1>1, <1>2, <1>3 DEF TypeOK, state
<1>6. ProcInv(p)'
  BY <1>0, <1>1 DEF ProcInv, HoldsLock, OwnSteps, CallPending, Preparing, InOrder,
     Finishing, Stored, state
<1> QED BY <1>0, <1>1, <1>4, <1>5, <1>6, QuietStep DEF OthersStay, LockStays

\* Replacing the pointer publishes the generation in hand, all its files durable.
LEMMA PublishKeeps ==
    ASSUME StoreInv, NEW p \in Procs, ReplacePointer(p), HeadsReconstruct(gen[p])
    PROVE  StoreInv'
<1> DEFINE g == gen[p]
<1>0. TypeOK /\ ProcInv(p) /\ g \in Generation /\ lock = p /\ p # None
      /\ (p \in Workers => outcome[p] = "none") /\ active = g /\ g.base = current
  BY D5Assumption DEF StoreInv, ProcInv, HoldsLock, CallPending, Finishing, TypeOK,
     ReplacePointer, LockedSteps, Procs
<1>1. /\ current' = Chain(g)
      /\ manifests' = manifests \cup {g} /\ completions' = completions \cup {g}
      /\ UNCHANGED <<active, prepared, lock, receipts, events, claim, gen, outcome,
                     failures, losses>>
  BY DEF ReplacePointer
<1>2. /\ pc' \in [Procs -> Steps] /\ pc'[p] = "unlinkMarker"
      /\ \A q \in Procs \ {p} : pc'[q] = pc[q]
  BY <1>0, Moves DEF ReplacePointer, Steps, LockedSteps
<1>3. FilesGrow /\ OthersStay(p) /\ LockStays(p)
  BY <1>1, <1>2 DEF FilesGrow, OthersStay, LockStays
<1>4. TypeOK'
  BY <1>0, <1>1, <1>2, ChainLonger DEF TypeOK
<1>5. ProcInv(p)'
  BY <1>0, <1>1, <1>2 DEF ProcInv, HoldsLock, OwnSteps, CallPending, Preparing, InOrder,
     Finishing, LockedSteps, PrepareSteps
<1>6. \A q \in Procs : ProcInv(q)'
  BY <1>0, <1>3, <1>5, OthersKeep
<1>7. FilesStored' /\ MarkerIsCurrent'
  BY <1>0, <1>1, <1>3 DEF StoreInv, FilesStored, MarkerIsCurrent, Stored, FilesGrow
<1>8. Lineage(current)' = Lineage(current) \cup {g}
  <2>1. Lineage(current)' = Lineage(Chain(g))
    BY <1>1 DEF Lineage, At
  <2>2. Lineage(Chain(g)) = Lineage(g.base) \cup {g}
    BY <1>0, LineageOfChain
  <2> QED BY <1>0, <2>1, <2>2
<1>9. GenerationsReconstruct'
  <2>1. ASSUME NEW h \in Lineage(current) PROVE Whole(h)'
    <3>1. Whole(h)
      BY WholeLineage DEF StoreInv
    <3> QED BY <3>1, <1>3 DEF Whole, Stored, FilesGrow
  <2>2. Whole(g)'
    <3>1. Stored(g)'
      <4>1. g # None /\ g = active
        BY <1>0, D5Assumption
      <4>2. Stored(g)
        BY <4>1 DEF StoreInv, FilesStored
      <4> QED BY <1>1, <4>2 DEF Stored
    <3>2. \A r \in g.tick.changed : <<r, g>> \in EventsOf(g)
      BY DEF EventsOf
    <3>3. EventsOf(g) \subseteq events
      BY DEF ReplacePointer, Missing
    <3> QED BY <1>1, <3>1, <3>2, <3>3 DEF Whole
  <2>3. ASSUME NEW h \in Lineage(current)' PROVE Whole(h)'
    <3>1. CASE h \in Lineage(current)
      BY <3>1, <2>1
    <3>2. CASE h = g
      BY <3>2, <2>2, <1>1 DEF Whole, Stored
    <3> QED BY <1>8, <3>1, <3>2
  <2> QED BY <2>3 DEF GenerationsReconstruct, Lineage, Whole, Stored
<1>10. CommitsArePublished'
  BY <1>0, <1>1, <1>3, <1>8, CommitsKept
<1> QED BY <1>4, <1>6, <1>7, <1>9, <1>10 DEF StoreInv

\* Were a chain broken, commit would raise and recover drop the attempt.
LEMMA RefuseKeeps ==
    ASSUME StoreInv, NEW p \in Procs, ReplacePointer(p), ~HeadsReconstruct(gen[p])
    PROVE  StoreInv'
<1>0. TypeOK /\ ProcInv(p) /\ lock = p /\ p # None /\ gen[p] # None
  BY D5Assumption DEF StoreInv, ProcInv, HoldsLock, CallPending, ReplacePointer,
     LockedSteps, Procs
<1>1. /\ UNCHANGED <<state, claim, gen, failures, losses>>
      /\ UNCHANGED <<manifests, completions, receipts, events>>
      /\ Refuse(p) /\ FilesGrow
  BY DEF ReplacePointer, state, FilesGrow
<1>2. CASE p \in Recoverers
  <2>1. /\ pc' \in [Procs -> Steps] /\ pc'[p] = "unlinkMarker"
        /\ \A q \in Procs \ {p} : pc'[q] = pc[q]
    BY <1>0, <1>1, <1>2, Moves DEF Refuse, Steps, LockedSteps
  <2>2. UNCHANGED <<lock, outcome>> /\ p \notin Workers
    BY <1>1, <1>2, D5Assumption DEF Refuse
  <2>3. TypeOK'
    BY <1>0, <1>1, <2>1, <2>2 DEF TypeOK, state
  <2>4. ProcInv(p)'
    BY <1>0, <1>1, <2>1, <2>2 DEF ProcInv, HoldsLock, OwnSteps, CallPending, Preparing,
       InOrder, Finishing, LockedSteps, PrepareSteps
  <2>5. OthersStay(p) /\ LockStays(p)
    BY <1>1, <2>1, <2>2 DEF OthersStay, LockStays
  <2> QED BY <1>1, <2>2, <2>3, <2>4, <2>5, QuietStep
<1>3. CASE p \notin Recoverers
  <2>1. /\ pc' \in [Procs -> Steps] /\ outcome' \in [Procs -> Outcomes]
        /\ pc'[p] = "idle" /\ outcome'[p] = "raised"
        /\ \A q \in Procs \ {p} : pc'[q] = pc[q] /\ outcome'[q] = outcome[q]
    BY <1>0, <1>1, <1>3, Returns DEF Refuse, Outcomes
  <2>2. lock' = None
    BY <1>1, <1>3 DEF Refuse
  <2>3. TypeOK'
    BY <1>0, <1>1, <2>1, <2>2 DEF TypeOK, state
  <2>4. ProcInv(p)'
    BY <1>0, <1>1, <2>1, <2>2 DEF ProcInv, HoldsLock, OwnSteps, CallPending, Preparing,
       InOrder, Finishing, LockedSteps, PrepareSteps
  <2>5. OthersStay(p) /\ LockStays(p)
    BY <1>0, <1>1, <2>1, <2>2 DEF OthersStay, LockStays
  <2> QED BY <1>1, <2>1, <2>3, <2>4, <2>5, QuietStep
<1> QED BY <1>2, <1>3

\* The marker is unlinked under the lock.
LEMMA UnlinkMarkerKeeps ==
    ASSUME StoreInv, NEW p \in Procs, UnlinkMarker(p)
    PROVE  StoreInv'
<1>0. TypeOK /\ ProcInv(p) /\ lock = p /\ (p \in Workers => outcome[p] = "none")
  BY DEF StoreInv, ProcInv, HoldsLock, CallPending, UnlinkMarker, LockedSteps
<1>1. active' = None /\ UNCHANGED <<current, prepared, lock, claim, gen, outcome,
                                    failures, losses>>
      /\ UNCHANGED <<manifests, completions, receipts, events>> /\ FilesGrow
  BY DEF UnlinkMarker, objects, FilesGrow
<1>2. /\ pc' \in [Procs -> Steps] /\ pc'[p] = "unlinkBundle"
      /\ \A q \in Procs \ {p} : pc'[q] = pc[q]
  BY <1>0, Moves DEF UnlinkMarker, Steps, LockedSteps
<1>3. TypeOK'
  BY <1>0, <1>1, <1>2 DEF TypeOK
<1>4. ProcInv(p)'
  BY <1>0, <1>1, <1>2 DEF ProcInv, HoldsLock, OwnSteps, CallPending, Preparing,
     InOrder, Finishing, LockedSteps, PrepareSteps, UnlinkMarker
<1>5. OthersStay(p) /\ LockStays(p)
  BY <1>1, <1>2 DEF OthersStay, LockStays
<1>6. \A q \in Procs : ProcInv(q)'
  BY <1>0, <1>1, <1>4, <1>5, OthersKeep
<1>7. FilesStored' /\ MarkerIsCurrent'
  BY <1>1 DEF StoreInv, FilesStored, MarkerIsCurrent, Stored
<1>8. GenerationsReconstruct' /\ CommitsArePublished'
  BY <1>0, <1>1, <1>5, ChainKept, CommitsKept DEF StoreInv, Lineage, At
<1> QED BY <1>3, <1>6, <1>7, <1>8 DEF StoreInv

\* The call ends; a commit's generation is the last of the chain.
LEMMA UnlinkBundleKeeps ==
    ASSUME StoreInv, NEW p \in Procs, UnlinkBundle(p)
    PROVE  StoreInv'
<1>0. TypeOK /\ ProcInv(p) /\ lock = p /\ p # None /\ gen[p] \in Generation
  BY D5Assumption DEF StoreInv, ProcInv, HoldsLock, CallPending, UnlinkBundle,
     LockedSteps, TypeOK, Procs
<1>1. prepared' = None /\ lock' = None
      /\ UNCHANGED <<current, active, claim, gen, failures, losses>>
      /\ UNCHANGED <<manifests, completions, receipts, events>> /\ FilesGrow
  BY DEF UnlinkBundle, objects, FilesGrow
<1>2. PICK o \in {"committed", "recovered", "failed"} : Return(p, o)
  BY DEF UnlinkBundle
<1>3. /\ pc' \in [Procs -> Steps] /\ outcome' \in [Procs -> Outcomes]
      /\ pc'[p] = "idle"
      /\ \A q \in Procs \ {p} : pc'[q] = pc[q] /\ outcome'[q] = outcome[q]
  BY <1>0, <1>2, Returns DEF Outcomes
<1>4. TypeOK'
  BY <1>0, <1>1, <1>3 DEF TypeOK
<1>5. ProcInv(p)'
  BY <1>0, <1>1, <1>3 DEF ProcInv, HoldsLock, OwnSteps, CallPending, Preparing,
     InOrder, Finishing, LockedSteps, PrepareSteps
<1>6. OthersStay(p) /\ LockStays(p)
  BY <1>0, <1>1, <1>3 DEF OthersStay, LockStays
<1>7. \A q \in Procs : ProcInv(q)'
  BY <1>0, <1>1, <1>5, <1>6, OthersKeep
<1>8. FilesStored' /\ MarkerIsCurrent'
  BY <1>1 DEF StoreInv, FilesStored, MarkerIsCurrent, Stored
<1>9. Lineage(current)' = Lineage(current)
  BY <1>1 DEF Lineage, At
<1>10. p \in Workers => gen[p] \in Lineage(current)
  <2>1. p \in Workers => current = Chain(gen[p])
    BY <1>0 DEF ProcInv, Finishing, UnlinkBundle
  <2> QED BY <1>0, <2>1, LineageOfChain
<1>11. GenerationsReconstruct' /\ CommitsArePublished'
  BY <1>1, <1>6, <1>9, <1>10, ChainKept, CommitsKept DEF StoreInv
<1> QED BY <1>4, <1>7, <1>8, <1>11 DEF StoreInv

\* A death frees the lock and leaves the files.
LEMMA CrashKeeps ==
    ASSUME StoreInv, NEW p \in Procs, Crash(p)
    PROVE  StoreInv'
<1>0. TypeOK /\ ProcInv(p) /\ p # None
  BY D5Assumption DEF StoreInv, Procs
<1>1. /\ UNCHANGED <<state, claim, gen, losses>>
      /\ UNCHANGED <<manifests, completions, receipts, events>> /\ FilesGrow
      /\ lock' = (IF lock = p THEN None ELSE lock)
      /\ failures' \in 0..MaxFailures
  BY <1>0, D5Assumption DEF Crash, objects, FilesGrow, TypeOK
<1>2. /\ pc' \in [Procs -> Steps] /\ outcome' \in [Procs -> Outcomes]
      /\ pc'[p] = "idle" /\ outcome'[p] = "none"
      /\ \A q \in Procs \ {p} : pc'[q] = pc[q] /\ outcome'[q] = outcome[q]
  BY <1>0, Returns DEF Crash, Outcomes
<1>3. TypeOK'
  BY <1>0, <1>1, <1>2 DEF TypeOK, state
<1>4. ProcInv(p)'
  BY <1>0, <1>1, <1>2 DEF ProcInv, HoldsLock, OwnSteps, CallPending, Preparing,
     InOrder, Finishing, LockedSteps, PrepareSteps
<1>5. OthersStay(p) /\ LockStays(p)
  BY <1>1, <1>2 DEF OthersStay, LockStays
<1> QED BY <1>1, <1>2, <1>3, <1>4, <1>5, QuietStep

\* Nothing in the invariant relies on the bundle being there.
LEMMA LoseBundleKeeps ==
    ASSUME StoreInv, LoseBundle
    PROVE  StoreInv'
<1>1. prepared' = None /\ losses' \in 0..MaxLosses
      /\ UNCHANGED <<current, active, lock, pc, claim, gen, outcome, failures>>
      /\ UNCHANGED <<manifests, completions, receipts, events>>
  BY D5Assumption DEF LoseBundle, objects, StoreInv, TypeOK
<1>2. TypeOK'
  BY <1>1 DEF StoreInv, TypeOK
<1>3. \A p \in Procs : ProcInv(p)'
  BY <1>1 DEF StoreInv, ProcInv, HoldsLock, OwnSteps, CallPending, Preparing, InOrder,
     Finishing, Stored
<1>4. FilesStored' /\ MarkerIsCurrent' /\ GenerationsReconstruct' /\ CommitsArePublished'
  BY <1>1 DEF StoreInv, FilesStored, Stored, MarkerIsCurrent, GenerationsReconstruct,
     CommitsArePublished, Lineage
<1> QED BY <1>2, <1>3, <1>4 DEF StoreInv

-----------------------------------------------------------------------------
(***************************************************************************)
(* The theorems.                                                           *)
(***************************************************************************)
\* The empty store satisfies the invariant.
LEMMA InitInv == Init => StoreInv
<1> SUFFICES ASSUME Init PROVE StoreInv
  OBVIOUS
<1> USE DEF Init
<1>1. TypeOK
  <2>1. <<>> \in Seq(Tick)
    OBVIOUS
  <2> QED BY <2>1, D5Assumption DEF TypeOK, Steps, Outcomes
<1>2. ASSUME NEW p \in Procs PROVE ProcInv(p)
  <2>1. p # None
    BY D5Assumption DEF Procs
  <2> QED BY <2>1 DEF ProcInv, HoldsLock, OwnSteps, CallPending, Preparing, InOrder, Finishing,
     LockedSteps, PrepareSteps
<1>3. FilesStored /\ MarkerIsCurrent
  BY DEF FilesStored, MarkerIsCurrent
<1>4. GenerationsReconstruct
  BY DEF GenerationsReconstruct
<1>5. CommitsArePublished
  BY DEF CommitsArePublished, Procs
<1> QED BY <1>1, <1>2, <1>3, <1>4, <1>5 DEF StoreInv

\* Every step of the store keeps the invariant.
LEMMA NextKeeps == StoreInv /\ [Next]_vars => StoreInv'
<1> SUFFICES ASSUME StoreInv, [Next]_vars PROVE StoreInv'
  OBVIOUS
<1>1. ASSUME NEW w \in Workers, Propose(w) PROVE StoreInv'
  BY <1>1, ProposeKeeps
<1>2. ASSUME NEW w \in Workers, Prepare(w) PROVE StoreInv'
  BY <1>2, ProposeKeeps, PrepareUnderLockKeeps, InstallKeeps, ReceiptsMissingKeeps,
     InstallBundleKeeps, ReplaceMarkerKeeps DEF Prepare
<1>3. ASSUME NEW w \in Workers, CommitUnderLock(w) PROVE StoreInv'
  BY <1>3, CommitUnderLockKeeps
<1>4. ASSUME NEW r \in Recoverers, RecoverUnderLock(r) PROVE StoreInv'
  BY <1>4, RecoverUnderLockKeeps
<1>5. ASSUME NEW p \in Procs, Finish(p) PROVE StoreInv'
  BY <1>5, InstallEventKeeps, PublishKeeps, RefuseKeeps, UnlinkMarkerKeeps,
     UnlinkBundleKeeps DEF Finish
<1>6. ASSUME NEW p \in Procs, Crash(p) PROVE StoreInv'
  BY <1>6, CrashKeeps
<1>7. CASE LoseBundle
  BY <1>7, LoseBundleKeeps
<1>8. CASE UNCHANGED vars
  <2>1. UNCHANGED <<current, active, prepared, lock, manifests, completions, receipts,
                    events, pc, claim, gen, outcome, failures, losses>>
    BY <1>8 DEF vars, state, objects
  <2>2. TypeOK' /\ FilesStored' /\ MarkerIsCurrent' /\ GenerationsReconstruct'
        /\ CommitsArePublished'
    BY <2>1 DEF StoreInv, TypeOK, FilesStored, Stored, MarkerIsCurrent,
       GenerationsReconstruct, CommitsArePublished, Lineage
  <2>3. \A p \in Procs : ProcInv(p)'
    BY <2>1 DEF StoreInv, ProcInv, HoldsLock, OwnSteps, CallPending, Preparing, InOrder,
       Finishing, Stored
  <2> QED BY <2>2, <2>3 DEF StoreInv
<1> QED BY <1>1, <1>2, <1>3, <1>4, <1>5, <1>6, <1>7, <1>8 DEF Next

\* The store's files and processes agree in every state, for any number of
\* workers, recoverers, generations, deaths and losses.
THEOREM StoreConsistent == Spec => []StoreInv
BY InitInv, NextKeeps, PTL DEF Spec

\* Every published generation has its files and all its registry events, so
\* reconstruct_generations and the generation views never fail on one.
THEOREM PublishedIsWhole == Spec => []GenerationsReconstruct
BY StoreConsistent, PTL DEF StoreInv

\* The marker never outlives its window: it is for the next or the last
\* generation (_prepare and _recover rely on it).
THEOREM MarkerNeverStale == Spec => []MarkerIsCurrent
BY StoreConsistent, PTL DEF StoreInv

\* A commit_generation that returned has published what its caller handed it.
THEOREM CommitMeansPublished == Spec => []CommitsArePublished
BY StoreConsistent, PTL DEF StoreInv

\* One step of the store is one step, or none, of the abstract register.
LEMMA StepRefines ==
    ASSUME StoreInv, StoreInv', Next
    PROVE  [Register!Next]_(Register!vars)
<1> DEFINE candidate == IF active # None /\ active.base = current THEN active.tick ELSE None
<1> USE DEF Register!Next, Register!vars
<1>0. TypeOK
  BY DEF StoreInv
<1>1. ASSUME UNCHANGED <<current, active>> PROVE UNCHANGED <<current, candidate>>
  BY <1>1
<1>2. ASSUME NEW w \in Workers, ReplaceMarker(w) PROVE Register!Nominate
  <2>1. gen[w] \in Generation /\ gen[w].base = current /\ UNCHANGED current
        /\ active' = gen[w] /\ gen[w] # None
        /\ (active # None => ClaimOf(active) = ClaimOf(gen[w]))
    BY <1>0, <1>2 DEF StoreInv, TypeOK, ProcInv, CallPending, Preparing, PrepareSteps,
       LockedSteps, ReplaceMarker, Procs
  <2>2. candidate' = gen[w].tick /\ candidate' \in Tick
    BY <2>1 DEF Generation
  <2>3. candidate # None => candidate.by = candidate'.by
    BY <2>1, <2>2 DEF ClaimOf
  <2> QED BY <2>1, <2>2, <2>3 DEF Register!Nominate
<1>3. ASSUME NEW p \in Procs, ReplacePointer(p), HeadsReconstruct(gen[p])
      PROVE  Register!Publish
  <2>1. active = gen[p] /\ gen[p] \in Generation /\ gen[p] # None /\ gen[p].base = current
    BY <1>0, <1>3 DEF StoreInv, TypeOK, ProcInv, CallPending, Finishing, LockedSteps,
       ReplacePointer
  <2>2. current' = Append(current, gen[p].tick) /\ active' = active
        /\ current' # current
    BY <1>3, <2>1, ChainLonger DEF ReplacePointer, Chain
  <2>3. candidate = gen[p].tick /\ gen[p].tick \in Tick /\ candidate # None
    BY <2>1, D5Assumption DEF Generation
  <2>4. candidate' = None
    BY <2>1, <2>2
  <2> QED BY <2>2, <2>3, <2>4 DEF Register!Publish
<1>4. ASSUME NEW p \in Procs, UnlinkMarker(p) PROVE Register!Withdraw
  BY <1>4 DEF UnlinkMarker, Register!Withdraw
<1>5. ASSUME NEW w \in Workers,
             Propose(w) \/ PrepareUnderLock(w) \/ PrepareRaises(w) \/ InstallManifest(w)
             \/ InstallCompletion(w) \/ InstallReceipts(w) \/ ReceiptsMissing(w)
             \/ InstallBundle(w) \/ CommitUnderLock(w)
      PROVE  UNCHANGED <<current, active>>
  BY <1>5 DEF Propose, PrepareUnderLock, PrepareRaises, InstallManifest, InstallCompletion,
     InstallReceipts, ReceiptsMissing, InstallBundle, CommitUnderLock, state
<1>6. ASSUME NEW r \in Recoverers, RecoverUnderLock(r) PROVE UNCHANGED <<current, active>>
  BY <1>6 DEF RecoverUnderLock, state
<1>7. ASSUME NEW p \in Procs,
             InstallEvent(p) \/ UnlinkBundle(p) \/ Crash(p)
             \/ (ReplacePointer(p) /\ ~HeadsReconstruct(gen[p]))
      PROVE  UNCHANGED <<current, active>>
  BY <1>7 DEF InstallEvent, UnlinkBundle, Crash, ReplacePointer, state
<1>8. CASE LoseBundle
  BY <1>8, <1>1 DEF LoseBundle
<1> QED
  BY <1>1, <1>2, <1>3, <1>4, <1>5, <1>6, <1>7, <1>8 DEF Next, Prepare, Finish

\* The D5 store implements the abstract register: one claimant at a time holds
\* the candidate, a publication appends the whole tick at once, and no death or
\* loss takes a published generation back.
THEOREM StoreImplementsRegister == Spec => RegisterSpec
<1>1. Init => Register!Init
  BY DEF Init, Register!Init
<1>2. StoreInv /\ StoreInv' /\ [Next]_vars => [Register!Next]_(Register!vars)
  <2>1. CASE Next
    BY <2>1, StepRefines
  <2>2. CASE UNCHANGED vars
    BY <2>2 DEF vars, state, Register!vars
  <2> QED BY <2>1, <2>2
<1> QED BY <1>1, <1>2, StoreConsistent, PTL DEF Spec, RegisterSpec, Register!Spec
=============================================================================
