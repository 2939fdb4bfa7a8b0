---------------------------- MODULE TemporalStore ----------------------------
(***************************************************************************)
(* The atomic temporal claim and completion protocol of                    *)
(* governance/v0_5/temporal_store.py (FilesystemTemporalStore) driven by   *)
(* governance/v0_5/temporal.py (TemporalProjectionCoordinator.execute):    *)
(* many processes share one directory tree and one advisory lock.          *)
(*                                                                         *)
(* Every write of a file is a step of its own: a temporary file is written *)
(* first and then linked (immutable files) or renamed (the two pointers)   *)
(* into place.  A process may die between any two steps.  Contents are     *)
(* compared in the code by digest; here a claim, a completion or a failure *)
(* receipt IS its digest.                                                  *)
(***************************************************************************)
EXTENDS Integers, Sequences, FiniteSets

CONSTANTS
    Workers,         \* processes that call execute
    Recoverers,      \* processes that call recover
    Attempts,        \* attempt identifiers
    Events,          \* what else a claim says: validated event, claimant, policy
    Results,         \* what a projection phase may produce
    FailureReceipts, \* contents of the failure receipts a coordinator may build
    RecoveryFailure, \* the content recover builds: RECOVERY_INCOMPLETE_ATTEMPT
    None,            \* no file, no pointer, nobody
    SharedAttempts,  \* may one attempt id be executed more than once?
    LiveRecovery,    \* may recover run while executions are in flight?
    MaxSeq,          \* bound: executions start only below this sequence
    MaxCrashes       \* bound: number of process deaths

Procs == Workers \cup Recoverers

Completion == [att : Attempts, sem : Results, art : Results]
TemporalHead == [seq : Nat, comp : Completion \cup {None}]
Claim == [att : Attempts, base : TemporalHead, ev : Events]
Failure == FailureReceipts \cup {RecoveryFailure}

ASSUME ConstantsAssumption ==
    /\ Workers \cap Recoverers = {}
    /\ None \notin Workers \cup Recoverers \cup Results
    /\ None \notin FailureReceipts \cup {RecoveryFailure}
    /\ None \notin [att : Attempts, sem : Results, art : Results]
    /\ None \notin Claim
    /\ RecoveryFailure \notin FailureReceipts
    /\ SharedAttempts \in BOOLEAN
    /\ LiveRecovery \in BOOLEAN
    /\ MaxSeq \in Nat
    /\ MaxCrashes \in Nat

VARIABLES
    \* state/: the two pointers and the lock
    head, active, lock,
    \* objects/clock-completion-receipt/ and the files of each attempt directory
    objects, claimOf, semanticOf, bundleOf, completionOf, failureOf,
    \* each process: where it is, the claim in hand, its temporary file, and
    \* what its last call returned
    pc, mine, temp, outcome,
    \* number of deaths so far (bounds the model), and the history of the
    \* completions the head has cited (no action reads it)
    crashes, committed

pointers == <<head, active>>
files == <<objects, claimOf, semanticOf, bundleOf, completionOf, failureOf>>
vars == <<head, active, lock, objects, claimOf, semanticOf, bundleOf,
          completionOf, failureOf, pc, mine, temp, outcome, crashes, committed>>

\* The steps at which a process writes a file, and the others.
InstallSteps == {"claimFile", "semantic", "bundle", "object", "completion",
                 "failure", "recoverFailure"}
ReplaceSteps == {"claimActive", "head"}
WaitSteps == {"claimLock", "publishLock", "failureLock", "sweep", "recoverLock"}
Steps == InstallSteps \cup ReplaceSteps \cup WaitSteps
           \cup {"idle", "clear", "recoverClear"}

\* The steps a process takes with the advisory lock held.
LockedSteps == {"claimActive", "head", "clear", "recoverFailure", "recoverClear"}

Outcomes == {"none", "completed", "failed", "rejected", "raised"}

Genesis == [seq |-> 0, comp |-> None]

(***************************************************************************)
(* Small readings of the state.                                            *)
(***************************************************************************)
\* _verify_claim: the sequence a claim proposes.
Proposed(c) == c.base.seq + 1

\* The completion _build_completion assembles: the claim's attempt with the
\* semantic receipt and the projection bundle the attempt directory holds.
Built(c) == [att |-> c.att, sem |-> semanticOf[c.att], art |-> bundleOf[c.att]]

\* Is the path the process is about to install still free (_install's
\* "if final_path.exists()")?  The two pointers are replaced, never compared.
Vacant(p) ==
    LET a == mine[p].att
    IN  \/ pc[p] = "claimFile"      /\ claimOf[a] = None
        \/ pc[p] = "semantic"       /\ semanticOf[a] = None
        \/ pc[p] = "bundle"         /\ bundleOf[a] = None
        \/ pc[p] = "object"         /\ Built(mine[p]) \notin objects
        \/ pc[p] = "completion"     /\ completionOf[a] = None
        \/ pc[p] \in {"failure", "recoverFailure"} /\ failureOf[a] = None
        \/ pc[p] \in ReplaceSteps

\* Faulty variant of Installs: os.replace instead of os.link, the last one wins.
InstallsByReplace(p, old, payload) ==
    /\ temp[p] # "swept"
    /\ old = payload \/ temp[p] = "written"

\* _install succeeds on a path that now holds "old": either the path already
\* holds these bytes, or it is free and the temporary file is still there to
\* be linked.
Installs(p, old, payload) ==
    /\ temp[p] # "swept"
    /\ old = payload \/ (old = None /\ temp[p] = "written")

\* _install raises: other bytes are at the path, or the temporary file was
\* deleted under it (os.link then raises FileNotFoundError).
Refuses(p, old, payload) ==
    \/ temp[p] = "swept"
    \/ old \notin {None, payload}

\* Faulty variant of ClaimVerdict: the expected head is not compared.
ClaimVerdictAnyHead(c) ==
    CASE active = c -> "owned"
      [] active = None -> "free"
      [] OTHER -> "rejected"

\* claim_successor's decision under the lock.
ClaimVerdict(c) ==
    CASE head # c.base -> "rejected"                    \* STALE_EXPECTED_HEAD
      [] head = c.base /\ active = c -> "owned"         \* IDEMPOTENT_ACTIVE_CLAIM
      [] head = c.base /\ active = None -> "free"
      [] OTHER -> "rejected"                            \* ACTIVE_SUCCESSOR_EXISTS

\* Faulty variants of PublishVerdict: the committed bytes are not compared;
\* the active marker is not compared; the active marker alone decides; a
\* sequence committed already is an error.
PublishVerdictAnyBytes(c) ==
    IF head.seq = Proposed(c) THEN "clear"
    ELSE IF head = c.base /\ active = c THEN "head" ELSE "raise"
PublishVerdictAnyOwner(c) ==
    IF head.seq = Proposed(c)
    THEN IF head.comp = completionOf[c.att] THEN "clear" ELSE "raise"
    ELSE IF head = c.base THEN "head" ELSE "raise"
PublishVerdictOnce(c) ==
    IF head = c.base /\ active = c THEN "head" ELSE "raise"

\* _publish's decision under the lock: move the head, only clear the active
\* marker (the sequence is committed with these bytes already), or raise.
PublishVerdict(c) ==
    IF head.seq = Proposed(c)
    THEN IF head.comp = completionOf[c.att] THEN "clear" ELSE "raise"
    ELSE IF head = c.base /\ active = c THEN "head" ELSE "raise"

\* Faulty variants of RecoverVerdict: a prepared completion is not looked for;
\* the failure receipt is not written first.
RecoverVerdictFailAll == IF active = None THEN "idle" ELSE "recoverFailure"
RecoverVerdictClearFirst ==
    CASE active = None -> "idle"
      [] active # None /\ completionOf[active.att] # None -> "publish"
      [] OTHER -> "recoverClear"

\* recover's decision under the lock: nothing active, a prepared completion to
\* publish, or an incomplete attempt to fail.
RecoverVerdict ==
    CASE active = None -> "idle"
      [] active # None /\ completionOf[active.att] # None -> "publish"
      [] OTHER -> "recoverFailure"

\* record_failure's ownership test under the lock.
OwnsActive(c) == active = c

(***************************************************************************)
(* Control of one process.                                                 *)
(***************************************************************************)
Goto(p, step) == pc' = [pc EXCEPT ![p] = step]
DropTemp(p) == temp' = [temp EXCEPT ![p] = "none"]

\* The call ends, with its result.
Return(p, result) ==
    /\ Goto(p, "idle")
    /\ outcome' = [outcome EXCEPT ![p] = result]

\* An exception inside complete_claim's try block: the coordinator builds a
\* failure receipt and calls record_failure.  Inside recover, and anywhere
\* else, it leaves the call.
Raise(p) ==
    IF p \in Workers /\ pc[p] \notin {"claimFile", "claimActive", "failure"}
    THEN Goto(p, "failure") /\ UNCHANGED outcome
    ELSE Return(p, "raised")

\* The advisory lock is released when the locked block is left either way.
Unlock == lock' = None
KeepLock == UNCHANGED lock

Init ==
    /\ head = Genesis
    /\ active = None
    /\ lock = None
    /\ objects = {}
    /\ claimOf = [a \in Attempts |-> None]
    /\ semanticOf = [a \in Attempts |-> None]
    /\ bundleOf = [a \in Attempts |-> None]
    /\ completionOf = [a \in Attempts |-> None]
    /\ failureOf = [a \in Attempts |-> None]
    /\ pc = [p \in Procs |-> "idle"]
    /\ mine = [p \in Procs |-> None]
    /\ temp = [p \in Procs |-> "none"]
    /\ outcome = [p \in Procs |-> "none"]
    /\ crashes = 0
    /\ committed = <<>>

-----------------------------------------------------------------------------
(***************************************************************************)
(* Installing an immutable file, in general.                               *)
(***************************************************************************)
\* _write_fsync of the temporary file that _install or _replace will move into
\* place.
WriteTemp(p) ==
    /\ pc[p] \in InstallSteps \cup ReplaceSteps
    /\ temp[p] = "none"
    /\ Vacant(p)
    /\ temp' = [temp EXCEPT ![p] = "written"]
    /\ UNCHANGED <<head, active, lock, files, pc, mine, outcome, crashes, committed>>

\* The control part of a successful _install: go on to the next step.
Installed(p, old, payload, next) ==
    /\ Installs(p, old, payload)
    /\ Goto(p, next)
    /\ DropTemp(p)
    /\ UNCHANGED outcome

\* The control part of an _install that raises.
InstallRefused(p, old, payload) ==
    /\ Refuses(p, old, payload)
    /\ Raise(p)
    /\ DropTemp(p)

-----------------------------------------------------------------------------
(***************************************************************************)
(* TemporalProjectionCoordinator.execute: claim, project, prepare, publish.*)
(***************************************************************************)
\* The attempt id is a new one, unless the callers share them.
FreshAttempt(a) ==
    /\ claimOf[a] = None
    /\ \A q \in Procs : pc[q] # "idle" /\ mine[q] # None => mine[q].att # a

\* build_claim: read the head (under the lock) and propose its successor.
BuildClaim(w) ==
    /\ pc[w] = "idle"
    /\ lock = None
    /\ head.seq < MaxSeq
    /\ LiveRecovery \/ \A r \in Recoverers : pc[r] = "idle"
    /\ \E a \in Attempts, e \in Events :
          /\ SharedAttempts \/ FreshAttempt(a)
          /\ mine' = [mine EXCEPT ![w] = [att |-> a, base |-> head, ev |-> e]]
    /\ Goto(w, "claimFile")
    /\ outcome' = [outcome EXCEPT ![w] = "none"]
    /\ UNCHANGED <<pointers, lock, files, temp, crashes, committed>>

\* claim_successor, before the lock: the claim becomes evidence of its attempt.
InstallClaim(w) ==
    LET a == mine[w].att
    IN  /\ pc[w] = "claimFile"
        /\ \/ /\ Installed(w, claimOf[a], mine[w], "claimLock")
              /\ claimOf' = [claimOf EXCEPT ![a] = mine[w]]
           \/ /\ InstallRefused(w, claimOf[a], mine[w])
              /\ UNCHANGED claimOf
        /\ UNCHANGED <<pointers, lock, objects, semanticOf, bundleOf,
                       completionOf, failureOf, mine, crashes, committed>>

\* claim_successor, under the lock: compare the head and the active marker.
ClaimUnderLock(w) ==
    /\ pc[w] = "claimLock"
    /\ lock = None
    /\ \/ /\ ClaimVerdict(mine[w]) = "rejected"
          /\ Return(w, "rejected")
          /\ KeepLock
       \/ /\ ClaimVerdict(mine[w]) = "owned"
          /\ Goto(w, "semantic")
          /\ KeepLock /\ UNCHANGED outcome
       \/ /\ ClaimVerdict(mine[w]) = "free"
          /\ Goto(w, "claimActive")
          /\ lock' = w /\ UNCHANGED outcome
    /\ UNCHANGED <<pointers, files, mine, temp, crashes, committed>>

\* claim_successor, still under the lock: _replace(active_path).
ReplaceActive(w) ==
    /\ pc[w] = "claimActive"
    /\ \/ /\ temp[w] = "written"
          /\ active' = mine[w]
          /\ Goto(w, "semantic")
          /\ UNCHANGED outcome
       \/ /\ temp[w] = "swept"
          /\ Raise(w)
          /\ UNCHANGED active
    /\ DropTemp(w)
    /\ Unlock
    /\ UNCHANGED <<head, files, mine, crashes, committed>>

\* A projection phase fails: the semantic projector, the ordered adapter or
\* the verification of their results raises.
ProjectionError(w) ==
    /\ pc[w] \in {"semantic", "bundle"}
    /\ temp[w] = "none"
    /\ Goto(w, "failure")
    /\ UNCHANGED <<pointers, lock, files, mine, temp, outcome, crashes, committed>>

\* The semantic phase produces a receipt and records semantic.json.
InstallSemantic(w) ==
    LET a == mine[w].att
    IN  /\ pc[w] = "semantic"
        /\ \E s \in Results :
              \/ /\ Installed(w, semanticOf[a], s, "bundle")
                 /\ semanticOf' = [semanticOf EXCEPT ![a] = s]
              \/ /\ InstallRefused(w, semanticOf[a], s)
                 /\ UNCHANGED semanticOf
        /\ UNCHANGED <<pointers, lock, objects, claimOf, bundleOf,
                       completionOf, failureOf, mine, crashes, committed>>

\* The remaining phases produce the registry roots, the disposition and the
\* quarantine markers; projection-bundle.json records them.
InstallBundle(w) ==
    LET a == mine[w].att
    IN  /\ pc[w] = "bundle"
        /\ \E r \in Results :
              \/ /\ Installed(w, bundleOf[a], r, "object")
                 /\ bundleOf' = [bundleOf EXCEPT ![a] = r]
              \/ /\ InstallRefused(w, bundleOf[a], r)
                 /\ UNCHANGED bundleOf
        /\ UNCHANGED <<pointers, lock, objects, claimOf, semanticOf,
                       completionOf, failureOf, mine, crashes, committed>>

\* prepare_completion, first half: put_contract of the completion.  The path
\* is the digest, so it never holds other bytes.
PutCompletionObject(w) ==
    LET c == Built(mine[w])
        old == IF c \in objects THEN c ELSE None
    IN  /\ pc[w] = "object"
        /\ \/ /\ Installed(w, old, c, "completion")
              /\ objects' = objects \cup {c}
           \/ /\ InstallRefused(w, old, c)
              /\ UNCHANGED objects
        /\ UNCHANGED <<pointers, lock, claimOf, semanticOf, bundleOf,
                       completionOf, failureOf, mine, crashes, committed>>

\* prepare_completion, second half: completion.json in the attempt directory.
InstallCompletion(w) ==
    LET a == mine[w].att
        c == Built(mine[w])
    IN  /\ pc[w] = "completion"
        /\ \/ /\ Installed(w, completionOf[a], c, "publishLock")
              /\ completionOf' = [completionOf EXCEPT ![a] = c]
           \/ /\ InstallRefused(w, completionOf[a], c)
              /\ UNCHANGED completionOf
        /\ UNCHANGED <<pointers, lock, objects, claimOf, semanticOf, bundleOf,
                       failureOf, mine, crashes, committed>>

\* _publish by either caller, up to its first write.
DecidePublish(p, c) ==
    \/ /\ PublishVerdict(c) = "raise"
       /\ Raise(p)
       /\ KeepLock
    \/ /\ PublishVerdict(c) # "raise"
       /\ Goto(p, PublishVerdict(c))
       /\ lock' = p
       /\ UNCHANGED outcome

\* publish_completion takes the lock.
PublishUnderLock(w) ==
    /\ pc[w] = "publishLock"
    /\ lock = None
    /\ DecidePublish(w, mine[w])
    /\ UNCHANGED <<pointers, files, mine, temp, crashes, committed>>

\* _publish: _replace(head_path).  This is where a tick becomes visible.
ReplaceHead(p) ==
    LET c == completionOf[mine[p].att]
    IN  /\ pc[p] = "head"
        /\ \/ /\ temp[p] = "written"
              /\ head' = [seq |-> Proposed(mine[p]), comp |-> c]
              /\ committed' = Append(committed, c)
              /\ Goto(p, "clear")
              /\ KeepLock /\ UNCHANGED outcome
           \/ /\ temp[p] = "swept"
              /\ Raise(p)
              /\ Unlock /\ UNCHANGED <<head, committed>>
        /\ DropTemp(p)
        /\ UNCHANGED <<active, files, mine, crashes>>

\* _publish: _clear_active, whoever's marker it is; the call returns the head.
ClearActive(p) ==
    /\ pc[p] = "clear"
    /\ active' = None
    /\ Unlock
    /\ Return(p, "completed")
    /\ UNCHANGED <<head, files, mine, temp, crashes, committed>>

\* record_failure, before the lock: the failure receipt becomes evidence.
InstallFailure(w) ==
    LET a == mine[w].att
    IN  /\ pc[w] = "failure"
        /\ \E f \in FailureReceipts :
              \/ /\ Installed(w, failureOf[a], f, "failureLock")
                 /\ failureOf' = [failureOf EXCEPT ![a] = f]
              \/ /\ InstallRefused(w, failureOf[a], f)
                 /\ UNCHANGED failureOf
        /\ UNCHANGED <<pointers, lock, objects, claimOf, semanticOf, bundleOf,
                       completionOf, mine, crashes, committed>>

\* record_failure, under the lock: retire the active claim if it is still ours.
RetireFailed(w) ==
    /\ pc[w] = "failureLock"
    /\ lock = None
    /\ \/ /\ OwnsActive(mine[w])
          /\ active' = None
          /\ Return(w, "failed")
       \/ /\ ~OwnsActive(mine[w])
          /\ Return(w, "raised")
          /\ UNCHANGED active
    /\ UNCHANGED <<head, lock, files, mine, temp, crashes, committed>>

-----------------------------------------------------------------------------
(***************************************************************************)
(* recover.                                                                *)
(***************************************************************************)
BeginRecover(r) ==
    /\ pc[r] = "idle"
    /\ LiveRecovery \/ \A w \in Workers : pc[w] = "idle"
    /\ Goto(r, "sweep")
    /\ mine' = [mine EXCEPT ![r] = None]
    /\ outcome' = [outcome EXCEPT ![r] = "none"]
    /\ UNCHANGED <<pointers, lock, files, temp, crashes, committed>>

\* recover unlinks every temporary file it sees, without the lock, one by one.
SweepTemp(r, p) ==
    /\ pc[r] = "sweep"
    /\ temp[p] = "written"
    /\ temp' = [temp EXCEPT ![p] = "swept"]
    /\ UNCHANGED <<pointers, lock, files, pc, mine, outcome, crashes, committed>>

EndSweep(r) ==
    /\ pc[r] = "sweep"
    /\ Goto(r, "recoverLock")
    /\ UNCHANGED <<pointers, lock, files, mine, temp, outcome, crashes, committed>>

\* recover takes the lock.
RecoverUnderLock(r) ==
    /\ pc[r] = "recoverLock"
    /\ lock = None
    /\ mine' = [mine EXCEPT ![r] = active]
    /\ \/ /\ RecoverVerdict = "idle"
          /\ Return(r, "none")
          /\ KeepLock
       \/ /\ RecoverVerdict = "publish"
          /\ DecidePublish(r, active)
       \/ /\ RecoverVerdict \notin {"idle", "publish"}
          /\ Goto(r, RecoverVerdict)
          /\ lock' = r /\ UNCHANGED outcome
    /\ UNCHANGED <<pointers, files, temp, crashes, committed>>

\* recover, still under the lock: record the deterministic recovery failure.
RecoverInstallFailure(r) ==
    LET a == mine[r].att
    IN  /\ pc[r] = "recoverFailure"
        /\ \/ /\ Installed(r, failureOf[a], RecoveryFailure, "recoverClear")
              /\ failureOf' = [failureOf EXCEPT ![a] = RecoveryFailure]
              /\ KeepLock
           \/ /\ InstallRefused(r, failureOf[a], RecoveryFailure)
              /\ Unlock /\ UNCHANGED failureOf
        /\ UNCHANGED <<pointers, objects, claimOf, semanticOf, bundleOf,
                       completionOf, mine, crashes, committed>>

\* recover, last step under the lock: _clear_active.
RecoverClear(r) ==
    /\ pc[r] = "recoverClear"
    /\ active' = None
    /\ Unlock
    /\ Return(r, "failed")
    /\ UNCHANGED <<head, files, mine, temp, crashes, committed>>

-----------------------------------------------------------------------------
\* A process dies between two steps.  The kernel releases its lock; what it
\* has linked or renamed stays, its temporary file is debris nobody links.
Crash(p) ==
    /\ pc[p] # "idle"
    /\ crashes < MaxCrashes
    /\ crashes' = crashes + 1
    /\ Goto(p, "idle")
    /\ mine' = [mine EXCEPT ![p] = None]
    /\ outcome' = [outcome EXCEPT ![p] = "none"]
    /\ DropTemp(p)
    /\ lock' = IF lock = p THEN None ELSE lock
    /\ UNCHANGED <<pointers, files, committed>>

\* The steps of a call of execute that is under way.
Execute(w) ==
    \/ InstallClaim(w)  \/ ClaimUnderLock(w)  \/ ReplaceActive(w)
    \/ ProjectionError(w) \/ InstallSemantic(w) \/ InstallBundle(w)
    \/ PutCompletionObject(w) \/ InstallCompletion(w) \/ PublishUnderLock(w)
    \/ InstallFailure(w) \/ RetireFailed(w)

\* The steps of a call of recover that is under way.
Recover(r) ==
    \/ EndSweep(r) \/ RecoverUnderLock(r)
    \/ RecoverInstallFailure(r) \/ RecoverClear(r)

\* The steps both calls share.
Shared(p) == WriteTemp(p) \/ ReplaceHead(p) \/ ClearActive(p)

Next ==
    \/ \E w \in Workers : BuildClaim(w) \/ Execute(w)
    \/ \E r \in Recoverers : BeginRecover(r) \/ Recover(r)
    \/ \E r \in Recoverers, p \in Procs : SweepTemp(r, p)
    \/ \E p \in Procs : Shared(p) \/ Crash(p)

Spec == Init /\ [][Next]_vars

\* Someone runs recover again and again, a call under way is not abandoned,
\* and a process that waits for the lock is not passed over for ever.
Fairness ==
    /\ \A r \in Recoverers : SF_vars(BeginRecover(r)) /\ SF_vars(Recover(r))
    /\ \A w \in Workers : SF_vars(Execute(w))
    /\ \A p \in Procs : SF_vars(Shared(p))

FairSpec == Spec /\ Fairness

-----------------------------------------------------------------------------
(***************************************************************************)
(* Properties.                                                             *)
(***************************************************************************)
\* Every variable has its type.
TypeOK ==
    /\ head \in TemporalHead
    /\ active \in Claim \cup {None}
    /\ lock \in Procs \cup {None}
    /\ objects \subseteq Completion
    /\ claimOf \in [Attempts -> Claim \cup {None}]
    /\ semanticOf \in [Attempts -> Results \cup {None}]
    /\ bundleOf \in [Attempts -> Results \cup {None}]
    /\ completionOf \in [Attempts -> Completion \cup {None}]
    /\ failureOf \in [Attempts -> Failure \cup {None}]
    /\ pc \in [Procs -> Steps]
    /\ mine \in [Procs -> Claim \cup {None}]
    /\ temp \in [Procs -> {"none", "written", "swept"}]
    /\ outcome \in [Procs -> Outcomes]
    /\ crashes \in 0..MaxCrashes
    /\ committed \in Seq(Completion)

\* An immutable path keeps its bytes: what one process has read, linked or
\* verified there, no other process, recovery or retry replaces.
FilesGrow ==
    /\ objects \subseteq objects'
    /\ \A a \in Attempts :
          /\ claimOf[a] # None => claimOf'[a] = claimOf[a]
          /\ semanticOf[a] # None => semanticOf'[a] = semanticOf[a]
          /\ bundleOf[a] # None => bundleOf'[a] = bundleOf[a]
          /\ completionOf[a] # None => completionOf'[a] = completionOf[a]
          /\ failureOf[a] # None => failureOf'[a] = failureOf[a]

NoClobber == [][FilesGrow]_vars

\* reconstruct_chain, one link back: the completion k links behind the head,
\* read from the claim each completion was made for.
Behind == [k \in 0..MaxSeq |->
    LET back[j \in 0..k] ==
            IF j = 0 THEN head.comp
            ELSE IF back[j-1] = None THEN None
            ELSE claimOf[back[j-1].att].base.comp
    IN  back[k]]

\* Following the links from the head ends at genesis after exactly head.seq
\* completions, each of them durable and made from the durable claim, semantic
\* receipt and bundle of its attempt, whatever died or was swept on the way.
ChainReconstructs ==
    /\ head.seq = Len(committed)
    /\ Behind[head.seq] = None
    /\ \A k \in 0..head.seq-1 :
          LET c == Behind[k]
          IN  /\ c # None
              /\ c \in objects
              /\ completionOf[c.att] = c
              /\ Built(claimOf[c.att]) = c
              /\ Proposed(claimOf[c.att]) = head.seq - k
              /\ committed[head.seq - k] = c

\* An active claim is for the successor of the head, or the head cites its
\* completion already (the window between the two writes of _publish): it is
\* never stale, and a second claim is never accepted beside it.
ActiveIsCurrent ==
    active # None =>
        \/ active.base = head
        \/ /\ head.seq = Proposed(active)
           /\ head.comp = completionOf[active.att]

\* No attempt extends the chain twice, even if it is executed again, recovered
\* while it runs, or published by two processes.
AttemptCommitsOnce ==
    \A i, j \in DOMAIN committed :
        committed[i].att = committed[j].att => i = j

\* A call that returned a completion returned one that is in the chain, at the
\* sequence its claim proposed.
CompletedIsCommitted ==
    \A p \in Procs :
        outcome[p] = "completed" =>
            /\ Proposed(mine[p]) \in DOMAIN committed
            /\ committed[Proposed(mine[p])] = completionOf[mine[p].att]

\* Doc, "Purpose": each attempt ends as one committed successor or as one
\* audit-only failure, never as both.
OneTerminalReceipt ==
    \A a \in Attempts :
        failureOf[a] # None => \A i \in DOMAIN committed : committed[i].att # a

\* Doc, "Failure protocol": the active claim is retired only after its failure
\* receipt is durable, or because the head cites its completion.
RetiredWithReceipt ==
    [][active # None /\ active' # active =>
         /\ active' = None
         /\ \/ failureOf[active.att] # None
            \/ head = [seq |-> Proposed(active), comp |-> completionOf[active.att]]]_vars

\* Doc, "Recovery protocol": an active claim without a prepared completion can
\* always be failed by recover, which releases the sequence.
RecoveryCanRelease ==
    \A r \in Recoverers :
        pc[r] = "recoverFailure" => failureOf[mine[r].att] \in {None, RecoveryFailure}

\* A prepared completion does not hold the sequence for ever: as long as
\* someone runs recover, its claim is retired.
PreparedIsSettled ==
    \A a \in Attempts :
        (active # None /\ active.att = a /\ completionOf[a] # None)
            ~> (active = None \/ active.att # a)

\* The store implements the abstract chain; a claim whose completion the head
\* cites holds nothing any more.
Chain == INSTANCE TemporalChain WITH
            Claims <- Claim,
            Completions <- Completion,
            chain <- committed,
            holder <- IF active # None /\ active.base = head THEN active ELSE None

ChainSpec == Chain!Spec
=============================================================================
