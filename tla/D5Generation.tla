----------------------------- MODULE D5Generation -----------------------------
(***************************************************************************)
(* The D5 generation store of governance/v0_5/_d5_generation.py: one       *)
(* generation moves three registries at once.  prepare, commit and recover *)
(* each run under one advisory lock, but a process may die between any two *)
(* of the files it writes, and callers keep claims and manifests between   *)
(* their calls.                                                            *)
(*                                                                         *)
(* A tick is what one generation adds; a generation is a tick with the     *)
(* chain of ticks before it, which is what its digest commits to.  The     *)
(* stores of immutable files hold generations by kind of file.  Temporary  *)
(* files are written and swept under the lock, so none is ever shared.     *)
(***************************************************************************)
EXTENDS Integers, Sequences

CONSTANTS
    Workers,        \* callers of prepare_generation and commit_generation
    Recoverers,     \* callers of recover
    Claimants,      \* what else a claim says: its validated event, its policy
    Plans,          \* which registries get an event in one projection
    None,           \* no file, nobody
    MaxSeq,         \* bound: generations are proposed only below this one
    MaxFailures,    \* bound: process deaths and prepares cut short
    MaxLosses       \* bound: how often the prepared bundle is lost

Procs == Workers \cup Recoverers

\* The order of the projection phases and of the event installs.
Phase == [evidence |-> 1, assumption |-> 2, alternative |-> 3]
Registries == DOMAIN Phase

Tick == [by : Claimants, changed : Plans]
Generation == [base : Seq(Tick), tick : Tick]
ClockClaim == [base : Seq(Tick), by : Claimants]

ASSUME D5Assumption ==
    /\ Plans \subseteq SUBSET Registries
    /\ Workers \cap Recoverers = {}
    /\ None \notin Workers \cup Recoverers
    /\ None \notin Generation
    /\ None \notin ClockClaim
    /\ None \notin Tick
    /\ MaxSeq \in Nat /\ MaxFailures \in Nat /\ MaxLosses \in Nat

VARIABLES
    \* state/: the pointer (the chain its generation ends), the marker, the bundle
    current, active, prepared, lock,
    \* objects/: generations by kind of file, and the registries' event objects
    manifests, completions, receipts, events,
    \* each process: where it is, its claim, the generation in hand, its result
    pc, claim, gen, outcome,
    \* bounds of the model
    failures, losses

state == <<current, active, prepared>>
objects == <<manifests, completions, receipts, events>>
vars == <<state, lock, objects, pc, claim, gen, outcome, failures, losses>>

LockedSteps == {"manifest", "completion", "receipts", "bundle", "marker",
                "events", "unlinkMarker", "unlinkBundle"}
Steps == LockedSteps \cup {"idle", "claimed", "held"}
Outcomes == {"none", "committed", "recovered", "failed", "raised"}

(***************************************************************************)
(* Readings of generations and files.                                      *)
(***************************************************************************)
Chain(g) == Append(g.base, g.tick)
ClaimOf(g) == [base |-> g.base, by |-> g.tick.by]

\* The i-th generation of a chain.
At(ch, i) == [base |-> SubSeq(ch, 1, i - 1), tick |-> ch[i]]
Lineage(ch) == {At(ch, i) : i \in 1..Len(ch)}

\* Faulty variant of EventsOf: the last registry is forgotten.
EventsOfTwo(g) == (g.tick.changed \ {"alternative"}) \X {g}

\* The registry events of a generation.
EventsOf(g) == g.tick.changed \X {g}

Missing(g) == EventsOf(g) \ events

\* _verify_projected_heads: every entity chain can be walked to its genesis.
HeadsReconstruct(g) == \A h \in Lineage(Chain(g)) : EventsOf(h) \subseteq events

\* Faulty variants of Admissible: the predecessor is not compared; the marker
\* of another claim is replaced.
AdmissibleAnywhere(c) == active # None => ClaimOf(active) = c
AdmissibleToAnyone(c) == c.base = current

\* _prepare's tests: the claim is for the successor of the current generation
\* and no other claim is active.
Admissible(c) ==
    /\ c.base = current
    /\ active # None => ClaimOf(active) = c

\* _commit's tests: the manifest is the active one, the pointer is at its
\* predecessor and the bundle is there.
Committable(g) ==
    /\ active = g
    /\ g.base = current
    /\ prepared = g

\* Faulty variant of AlreadyDone: a commit that finds no marker was recovered.
NothingToCommit(g) == active = None

\* A commit has no idempotent answer; only recover knows a published generation.
AlreadyDone(g) == FALSE

\* Faulty variant of RecoverVerdict: a missing bundle is an error.
RecoverVerdictStrict ==
    CASE active = None -> "nothing"
      [] active # None /\ prepared # active -> "raise"
      [] OTHER -> IF active.base = current THEN "finish" ELSE "clear"

\* _recover's decision: nothing is active; the bundle is unusable or the
\* pointer cites the generation already; or the generation is finished.
RecoverVerdict ==
    CASE active = None -> "nothing"
      [] active # None /\ prepared # active -> "clear"
      [] OTHER -> IF active.base = current THEN "finish" ELSE "clear"

(***************************************************************************)
(* Control of one process.                                                 *)
(***************************************************************************)
Goto(p, step) == pc' = [pc EXCEPT ![p] = step]

Return(p, result) ==
    /\ Goto(p, "idle")
    /\ outcome' = [outcome EXCEPT ![p] = result]

\* An error after the decision: recover fails the attempt, commit raises.
Refuse(p) ==
    IF p \in Recoverers
    THEN Goto(p, "unlinkMarker") /\ UNCHANGED <<lock, outcome>>
    ELSE Return(p, "raised") /\ lock' = None

Init ==
    /\ current = <<>>
    /\ active = None
    /\ prepared = None
    /\ lock = None
    /\ manifests = {} /\ completions = {} /\ receipts = {} /\ events = {}
    /\ pc = [p \in Procs |-> "idle"]
    /\ claim = [p \in Procs |-> None]
    /\ gen = [p \in Procs |-> None]
    /\ outcome = [p \in Procs |-> "none"]
    /\ failures = 0 /\ losses = 0

-----------------------------------------------------------------------------
(***************************************************************************)
(* prepare_generation.                                                     *)
(***************************************************************************)
\* The caller builds a claim for the successor of the generation it reads.
Propose(w) ==
    /\ pc[w] = "idle"
    /\ lock = None
    /\ Len(current) < MaxSeq
    /\ \E b \in Claimants : claim' = [claim EXCEPT ![w] = [base |-> current, by |-> b]]
    /\ gen' = [gen EXCEPT ![w] = None]
    /\ Goto(w, "claimed")
    /\ outcome' = [outcome EXCEPT ![w] = "none"]
    /\ UNCHANGED <<state, lock, objects, failures, losses>>

\* _prepare up to its first write: refuse the claim, or project it to a plan.
PrepareUnderLock(w) ==
    /\ pc[w] = "claimed"
    /\ lock = None
    /\ Admissible(claim[w])
    /\ \E plan \in Plans :
          gen' = [gen EXCEPT ![w] = [base |-> claim[w].base,
                                     tick |-> [by |-> claim[w].by, changed |-> plan]]]
    /\ lock' = w
    /\ Goto(w, "manifest")
    /\ UNCHANGED <<state, objects, claim, outcome, failures, losses>>

\* The claim is refused, or an adapter raises.
PrepareRaises(w) ==
    /\ pc[w] = "claimed"
    /\ lock = None
    /\ Return(w, "raised")
    /\ UNCHANGED <<state, lock, objects, claim, gen, failures, losses>>

InstallManifest(w) ==
    /\ pc[w] = "manifest"
    /\ manifests' = manifests \cup {gen[w]}
    /\ Goto(w, "completion")
    /\ UNCHANGED <<state, lock, completions, receipts, events, claim, gen,
                   outcome, failures, losses>>

InstallCompletion(w) ==
    /\ pc[w] = "completion"
    /\ completions' = completions \cup {gen[w]}
    /\ Goto(w, "receipts")
    /\ UNCHANGED <<state, lock, manifests, receipts, events, claim, gen,
                   outcome, failures, losses>>

\* The semantic receipt, the three plans, the disposition and the comparisons.
InstallReceipts(w) ==
    /\ pc[w] = "receipts"
    /\ receipts' = receipts \cup {gen[w]}
    /\ Goto(w, "bundle")
    /\ UNCHANGED <<state, lock, manifests, completions, events, claim, gen,
                   outcome, failures, losses>>

\* A comparison receipt that the alternative-model plan cites was not supplied:
\* prepare raises after its first files.
ReceiptsMissing(w) ==
    /\ pc[w] = "receipts"
    /\ "alternative" \in gen[w].tick.changed
    /\ failures < MaxFailures
    /\ failures' = failures + 1
    /\ Return(w, "raised")
    /\ lock' = None
    /\ UNCHANGED <<state, objects, claim, gen, losses>>

\* The bundle has one path: other bytes there are a conflict.
InstallBundle(w) ==
    /\ pc[w] = "bundle"
    /\ \/ /\ prepared \in {None, gen[w]}
          /\ prepared' = gen[w]
          /\ Goto(w, "marker")
          /\ UNCHANGED <<lock, outcome>>
       \/ /\ prepared \notin {None, gen[w]}    \* D5_IMMUTABLE_PATH_CONFLICT
          /\ Return(w, "raised")
          /\ lock' = None
          /\ UNCHANGED prepared
    /\ UNCHANGED <<current, active, objects, claim, gen, failures, losses>>

\* _replace(active_path): the manifest is returned to the caller.
ReplaceMarker(w) ==
    /\ pc[w] = "marker"
    /\ active' = gen[w]
    /\ lock' = None
    /\ Goto(w, "held")
    /\ UNCHANGED <<current, prepared, objects, claim, gen, outcome, failures, losses>>

-----------------------------------------------------------------------------
(***************************************************************************)
(* commit_generation and recover.                                          *)
(***************************************************************************)
CommitUnderLock(w) ==
    /\ pc[w] = "held"
    /\ lock = None
    /\ \/ /\ Committable(gen[w])
          /\ lock' = w
          /\ Goto(w, "events")
          /\ UNCHANGED outcome
       \/ /\ ~Committable(gen[w])
          /\ Return(w, IF AlreadyDone(gen[w]) THEN "committed" ELSE "raised")
          /\ UNCHANGED lock
    /\ UNCHANGED <<state, objects, claim, gen, failures, losses>>

RecoverUnderLock(r) ==
    /\ pc[r] = "idle"
    /\ lock = None
    /\ gen' = [gen EXCEPT ![r] = active]
    /\ \/ /\ RecoverVerdict \in {"nothing", "raise"}     \* NO_ACTIVE_GENERATION
          /\ Return(r, IF RecoverVerdict = "nothing" THEN "recovered" ELSE "raised")
          /\ UNCHANGED lock
       \/ /\ RecoverVerdict \in {"clear", "finish"}
          /\ lock' = r
          /\ Goto(r, IF RecoverVerdict = "finish" THEN "events" ELSE "unlinkMarker")
          /\ outcome' = [outcome EXCEPT ![r] = "none"]
    /\ UNCHANGED <<state, objects, claim, failures, losses>>

\* _install_event_objects, one registry after the other.
InstallEvent(p) ==
    /\ pc[p] = "events"
    /\ \E e \in Missing(gen[p]) :
          /\ \A f \in Missing(gen[p]) : Phase[e[1]] <= Phase[f[1]]
          /\ events' = events \cup {e}
    /\ UNCHANGED <<state, lock, manifests, completions, receipts, pc, claim, gen,
                   outcome, failures, losses>>

\* The commit point, _replace(current_path), once the chains can be walked;
\* the manifest and the completion are installed again just before.
ReplacePointer(p) ==
    /\ pc[p] = "events"
    /\ Missing(gen[p]) = {}
    /\ IF HeadsReconstruct(gen[p])
       THEN /\ current' = Chain(gen[p])
            /\ manifests' = manifests \cup {gen[p]}
            /\ completions' = completions \cup {gen[p]}
            /\ Goto(p, "unlinkMarker")
            /\ UNCHANGED <<lock, outcome>>
       ELSE /\ Refuse(p)
            /\ UNCHANGED <<current, manifests, completions>>
    /\ UNCHANGED <<active, prepared, receipts, events, claim, gen, failures, losses>>

\* _clear_active: the marker goes first, then the bundle.
UnlinkMarker(p) ==
    /\ pc[p] = "unlinkMarker"
    /\ active' = None
    /\ Goto(p, "unlinkBundle")
    /\ UNCHANGED <<current, prepared, lock, objects, claim, gen, outcome, failures, losses>>

UnlinkBundle(p) ==
    /\ pc[p] = "unlinkBundle"
    /\ prepared' = None
    /\ lock' = None
    /\ Return(p, IF p \in Workers THEN "committed"
                 ELSE IF current = Chain(gen[p]) THEN "recovered" ELSE "failed")
    /\ UNCHANGED <<current, active, objects, claim, gen, failures, losses>>

-----------------------------------------------------------------------------
\* A process dies: its lock is released, the files it has written stay.
Crash(p) ==
    /\ pc[p] # "idle"
    /\ failures < MaxFailures
    /\ failures' = failures + 1
    /\ Return(p, "none")
    /\ lock' = IF lock = p THEN None ELSE lock
    /\ UNCHANGED <<state, objects, claim, gen, losses>>

\* The prepared bundle is gone from the disk, as the restart tests arrange.
LoseBundle ==
    /\ prepared # None
    /\ losses < MaxLosses
    /\ losses' = losses + 1
    /\ prepared' = None
    /\ UNCHANGED <<current, active, lock, objects, pc, claim, gen, outcome, failures>>

Prepare(w) ==
    \/ PrepareUnderLock(w) \/ PrepareRaises(w)
    \/ InstallManifest(w) \/ InstallCompletion(w) \/ InstallReceipts(w)
    \/ ReceiptsMissing(w) \/ InstallBundle(w) \/ ReplaceMarker(w)

\* The steps commit and recover share.
Finish(p) == InstallEvent(p) \/ ReplacePointer(p) \/ UnlinkMarker(p) \/ UnlinkBundle(p)

Next ==
    \/ \E w \in Workers : Propose(w) \/ Prepare(w) \/ CommitUnderLock(w)
    \/ \E r \in Recoverers : RecoverUnderLock(r)
    \/ \E p \in Procs : Finish(p) \/ Crash(p)
    \/ LoseBundle

Spec == Init /\ [][Next]_vars

\* Someone runs recover again and again and is not passed over at the lock,
\* and a call that holds the lock is not abandoned alive.
Fairness ==
    /\ \A r \in Recoverers : SF_vars(RecoverUnderLock(r))
    /\ \A w \in Workers : WF_vars(Prepare(w))
    /\ \A p \in Procs : WF_vars(Finish(p))

FairSpec == Spec /\ Fairness

-----------------------------------------------------------------------------
(***************************************************************************)
(* Properties.                                                             *)
(***************************************************************************)
TypeOK ==
    /\ current \in Seq(Tick)
    /\ active \in Generation \cup {None}
    /\ prepared \in Generation \cup {None}
    /\ lock \in Procs \cup {None}
    /\ manifests \subseteq Generation
    /\ completions \subseteq Generation
    /\ receipts \subseteq Generation
    /\ events \subseteq Registries \X Generation
    /\ pc \in [Procs -> Steps]
    /\ claim \in [Procs -> ClockClaim \cup {None}]
    /\ gen \in [Procs -> Generation \cup {None}]
    /\ outcome \in [Procs -> Outcomes]
    /\ failures \in 0..MaxFailures
    /\ losses \in 0..MaxLosses

\* Every generation up to the current one is whole: its manifest, completion
\* and receipts are durable, and so is every event of every registry it moved,
\* wherever a process died (reconstruct_generations and the generation views).
GenerationsReconstruct ==
    \A i \in 1..Len(current) :
        LET g == At(current, i)
        IN  /\ g \in manifests \cap completions \cap receipts
            /\ \A r \in g.tick.changed : <<r, g>> \in events

\* The marker is for the successor of the current generation, or for the
\* current one (the window between the pointer and the marker): no death,
\* loss or competing claim leaves a stale one.
MarkerIsCurrent ==
    active # None => active.base = current \/ current = Chain(active)

\* A commit that returned published its own manifest: it is in the chain,
\* whatever was published after it.
CommitsArePublished ==
    \A w \in Workers : outcome[w] = "committed" => gen[w] \in Lineage(current)

\* With recover run again and again, a marker does not hold the sequence for
\* ever, not even if its bundle is lost.
MarkerIsSettled == (active # None) ~> (active = None)

\* The restart tests (test_retry_after_failed_attempt_reuses_clock_sequence)
\* prepare the sequence again once recover has returned: it must leave no
\* bundle at the one path where the next one goes.
RecoveryFreesBundle ==
    [][\A r \in Recoverers :
          outcome'[r] \in {"recovered", "failed"} /\ outcome[r] # outcome'[r]
             => prepared' = None]_vars

\* The store implements the abstract register; a marker whose generation is
\* published holds nothing any more.
Register == INSTANCE GenerationRegister WITH
               Ticks <- Tick,
               chain <- current,
               candidate <- IF active # None /\ active.base = current
                            THEN active.tick ELSE None

RegisterSpec == Register!Spec
=============================================================================
