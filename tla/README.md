# CSD-Foundry: a TLA+ verification of its stores, its registries and its governance decisions

CSD-Foundry keeps governed state: controls and the evidence behind them, registries of
governance decisions, a chain of temporal completions, and a corpus of synthesis results.
This directory holds TLA+ modules translated from the Python source under
`src/csd_foundry`, TLC configurations that model-check them on small instances, and TLAPS
proofs of the properties that matter most for every instance. `governance/v0_5`, `kernel` and
`synthesis/v0_4` below are directories of `src/csd_foundry`.

## Inventory

| Component | State it keeps | Operations | Interacts with |
|---|---|---|---|
| Temporal store (`governance/v0_5/temporal_store.py`, `temporal.py`) | head and active-claim pointers, a lock file, immutable receipts per attempt, content-addressed objects | `execute` (claim, project, prepare, publish), `record_failure`, `recover`, `reconstruct_chain` | processes on one directory tree; projectors called back between claim and completion |
| Control kernel (`kernel/`) | one `ControlState`: evidence, bases, source and verdict bases, clock, profile, requests, heartbeat | seven events through `CsdOracle.apply` | verifiers written independently of the transitions |
| D5 generation (`_d5_generation.py`) | current pointer, prepared bundle, active marker, manifests | prepare, commit, recover of one generation over several registries | registries, projections, temporal store |
| Assumption policies (`assumption_policy_*.py`) | one ledger file under a lock | activate, publish, read, resolve at a clock, select a grant | governed admissions, every authority decision |
| Registry journal (`registry.py`) | immutable events, one head per entity | append, locked view, prepared commit, snapshot, reconstruct | governed admission, D5, projections |
| Governed ADMIT (`_governed_admit_append.py`) | none of its own | authorize, append, exact retry under the registry lock | registry, policies, dependency receipts |
| Evidence, assumption and alternative-model governance | registry events | lifecycle events, dependency validation, separation of duty, use decisions, staged projections | registry, policies, D5 |
| Semantic admission (`admission.py`, `admission_store.py`) | inputs, contexts and receipts installed without replacing | check, store inputs, store receipt, recover, reconstruct | committed contexts that advance meanwhile |
| Publication store and shards (`synthesis/v0_4/publication_*.py`) | objects, claim files that name an owner, references, seals | claim and publish, install a reference, seal a shard, recover | reconciliation |
| Reconciliation (`reconciliation_*.py`, `attempts.py`, `exhaustion.py`) | objects and merge seals in the same store | verify shards, merge, resolve samples, seal | publication store |
| Choices, identities and replay (`deterministic_choices.py`, `choice_*.py`, `identities.py`, `replay*.py`) | one choice session and one identity ledger per execution of an attempt | draw, record, freeze, allocate, complete, replay a ledger, identities or a bundle | a producer that calls in any order; publication takes the completion |
| Platform primitives (`_platform.py`) | none | advisory lock, directory fsync | every store |

Harnesses, fixtures, mutation campaigns, empirical experiments and command lines are
not part of the verified system; `PROJECT.json` lists them with the reason.

### What is hard here, and what correct means

* **Temporal store and D5.** Processes race between an unlocked read and a locked compare; a
  process may die between any two file writes; `recover` deletes other processes' temporary
  files; a publication may arrive after recovery has done it. Correct: one chain that only
  grows, each link made from durable files, no attempt twice, a success report that is true, and
  no sequence blocked for ever.
* **Control kernel.** Long event sequences interact: expiry, heartbeats, profiles and dependency
  changes take support away and only a reassessment may give it. Correct: no claim without
  current support, no promotion without a new basis, and transition and verifier agree, since
  where they differ the oracle rejects and the clock of the control stops.
* **Policies.** Half-open intervals, open ends, global scopes and exceptions meet, and a power loss
  may take back a rename. Correct: one chain of approved policies, never two grants for a
  request, no exception without a grant, what was acknowledged is kept, and a grant decision stands
  until a policy published after it takes over.
* **Registry.** Readers reconstruct without the lock what writers append under it; an admission
  computes receipts from roots that may move. Correct: one journal per entity, an admission
  decided on the state it is committed to, a decision made on one state.
* **Governance.** Walks over dependency graphs that may contain cycles, stop early and share
  visited nodes; producers compute records that check themselves. Correct: the verdict is what
  the graph implies, and a record is accepted by its own replay.
* **Attempt execution.** A producer calls in any order, goes on after an exception and repeats an
  attempt; widths, rejection limits and cumulative weights are boundary arithmetic. Correct: the
  evidence depends on the seed and the answered calls alone and replays under that seed only,
  parts of different executions never pass for one, and no answer is favoured.
* **Publication and admission stores.** Nothing is locked; files are hard-linked and sweeps delete
  the temporary files of live processes. Correct: nothing readable cites what can be lost, receipts
  agree, seals carry one canonical corpus, an accepted event can be read back in full.

## Modules

| Module | Models | Code |
|---|---|---|
| `TemporalChain` | abstract: a sequence of completions and the holder of the right to extend it | what readers of the store are promised |
| `TemporalStore` | the store and its coordinator, one step per file written | `temporal_store.py`, `temporal.py` |
| `TemporalStoreInv`, `TemporalStoreProofs` | inductive invariant; proofs | |
| `GenerationRegister` | abstract: a chain of generations and the candidate for the next one | what readers of the D5 store are promised |
| `D5Generation` | prepare, commit and recover, one step per file written | `_d5_generation.py` |
| `D5GenerationInv`, `D5GenerationProofs` | inductive invariant; proofs | |
| `CsdKernel`, `CsdKernelProofs` | transitions, verifiers and oracle; proofs | `kernel/` |
| `AuthorityPolicy` | grants, duty rules, exceptions, overlap, selection | `assumption_policy.py`, `_assumption_policy_activation_rules.py`, `assumption_policy_resolution.py` |
| `PolicyActivation` | preparing a ledger entry: envelope, signatures, approval threshold | `assumption_policy_activation.py` |
| `PolicyPublication` | the store of the ledger and its clients | `assumption_policy_filesystem_publication.py`, `assumption_policy_activation_publication.py` |
| `PolicyRegister`, `PolicyProofs` | abstract: a ledger that grows by activations; proofs | |
| `EvidenceLifecycle`, `AssumptionLifecycle` | reducers of the two registries, who may append what, what is eligible | `evidence.py`, `evidence_governance.py`, `assumption.py` |
| `DependencyWalk` | the depth-first walks and their canonical cycle | `_assumption_dependency_validator.py`, `_assumption_use_admissibility.py` |
| `AdmissionGate` | dependency receipt, its replay, duty decisions, authorization | `_assumption_dependency_validator.py`, `_assumption_separation_duty_evaluator.py`, `_governed_admit_append.py` |
| `UseAdmissibility` | use decisions, their work counters and their replay | `_assumption_use_admissibility.py`, `evidence_governance.py` |
| `RegistryProjection` | staged projection of evidence and assumptions with expiry and impact | `evidence_projection.py`, `_assumption_projection.py` |
| `AlternativeModel`, `ModelGovernance` | reducer and use gate of alternative models; structural difference, governed admission, comparison, projection | `alternative_model.py`, `_governed_alternative_model.py` |
| `GovernanceQueries`, `GovernanceProofs` | composes the pure modules: one question asked of what the registries hold; proofs | |
| `Registry` | the journal with its clients, the locked view, governed admission and its retry, a clone and an unlocked reader | `registry.py`, `_governed_admit_append.py`, `evidence_projection.py` |
| `EntityJournal`, `RegistryProofs` | abstract: one append-only history per entity; proofs | |
| `Reconciliation`, `Publication` | verification, merge and resolution as functions; the store with its workers | `publication_*.py`, `reconciliation_*.py`, `attempts.py` |
| `ChoiceEvidence` | draws with rejection, the three operations, records, ledgers, identities and bundles, and what replay accepts | `deterministic_choices.py`, `choice_records.py`, `identities.py`, `replay.py`, `replay_bundle.py` |
| `AttemptExecution` | the producer with its sessions, identity ledgers and completions | `choice_ledger.py`, `identities.py`, `replay_bundle.py` |
| `SynthesisPipeline`, `SynthesisProofs` | composes `AttemptExecution` and `Publication`; proofs | |
| `EventAdmission`, `EventAdmissionProofs` | the verdict of `admit`, the store and its engines; proofs | `admission.py`, `admission_store.py` |
| `MC*` | the instances TLC checks | |

`Registry` and `GovernanceQueries` extend the same lifecycles, receipts and authorizations:
the first interleaves them with appends, deaths and retries on two assumptions, the second asks
them of every small dependency graph at once.

### State and actions against the code

**TemporalStore.** `head` and `active` are the two pointer files, `lock` the advisory lock.
`claimOf`, `semanticOf`, `bundleOf`, `completionOf` and `failureOf` are the immutable files of an
attempt directory and `objects` the content-addressed completions. `pc`, `mine`, `temp` and
`outcome` are a process: where in `execute` or `recover` it is, its claim, the state of its
temporary file (`none`, `written`, or `swept` by another's `recover`) and what its last call
returned. Each `_install` is two steps, temporary file then link, and each `_replace` temporary
file then rename. `Raise` sends an exception where the coordinator's `except` sends it: into
`record_failure` inside `complete_claim`, out of the call elsewhere. `committed` and `crashes`
are history.

**D5Generation.** `current`, `active` and `prepared` are the three files of `state/`. A generation
is the chain of ticks before it and its own tick: its digest commits to exactly that.
`manifests`, `completions`, `receipts` and `events` are the content-addressed files by kind; files
written together and never read apart are one set. Each is one step, because temporary files are
written and swept under the lock here. The tests at the top of `_prepare`, `_commit` and
`_recover` are `Admissible`, `Committable` and `RecoverVerdict`. `LoseBundle` is what the
restart tests do to the disk.

**CsdKernel.** `control` is the `ControlState`. An `Apply*` operator is a transition function, a
`Verified*` operator the verifier of that event, and an action is `CsdOracle.apply`: the
precondition that would raise, the transition, all verifiers, the commit. A rejected event
changes nothing, so it is a stutter. Evidence and bases never change after they are recorded, so
what they say is a constant of their identity and only their status is state.

**PolicyPublication.** `file` is the ledger every process sees and `durable` what a power loss
leaves: a rename reaches it at a directory fsync, or on its own. `Prepare` is the V3 preparer
(`Activatable` is all its checks), `ReadState` to `Release` are a publish under the lock with
`Decision` as `compare_and_append_policy_entry_v3`; `OpenStore` sweeps, `Uncertain` is a flush or
read-back that fails after the rename. `Select` is the pure `select_applicable_grant_v3`, which takes no
lock: the ledger is the one its client read last, the resolution (`resolve_at`) was made from any ledger a
client read. `SelectNow` is the composite that reads, resolves and selects under the lock. `ruling` is the
decision answered last and `shown` the ledger it was made over; since no step depends on `ruling` and none
need follow a decision, the last one stands for any. A signature is for the payload of its commit, so only
its signer and its soundness are kept.

**Registry.** `objects` are the installed events and a head is the digest of an entity's last
event, so its whole history. `append` is `Reduce`, `Install`, `AppendHead`: the object before the
lock, the head under it. `BeginAdmit` takes the lock and decides (`Authorization`), then object,
head, read-back; `UncertainAdmit` is a commit whose durability is unknown; `Retry` is
`_handle_retry`. `scan` is a reader without the lock: `ReadRoot`, `List`, `ReadEntity` are
`reconstruct_snapshot`, the `Bind*` and `Check*` actions are the roots a use decision records before and
compares after.

**Governance.** A history is the sequence of events of an entity, each [op, by, clock, arg]; a
state is its fold (`AssumptionAt`, `UnitAt`, `ModelAt`), and an operator that may raise returns a
set that is empty when it does. A walk is a recursive function from a stack and what was visited
to what it found. Receipts, decisions, authorizations and plans are the records of the code
without their digests, and `Valid*` is what `__post_init__` replays. `GovernanceQueries` starts
with every registry content of the instance and takes one step: the question and its answer.

**Publication.** A worker runs a program: the `stage` it is in and the `plan` of files it
still has to install; `Look`, `Link` and `Flush` install one, and a stage goes on when its plan is
empty. `visible` and `pending` are the files that can be read and those whose directory is not
flushed. `owned` and `receipts` are what it holds in memory and loses in a death.

**AttemptExecution.** `session` is a `ChoiceSession`: its state, reserved paths and records. `Choose`
and `Poison` are one call each of `bounded_integer`, `weighted_choice` or `choose_ratio`, by whether
any of its checks raises: `Reservable` is `_require_open_path`, `Committed` the count, the
primitive, the checks of the record and the size. A path reserved by a call that then fails stays
reserved. `Freeze` sorts the records into the ledger `frozen`, `Allocate` is the identity ledger
with its two kinds of collision, `Complete` builds a completion and the bundle that validates it;
`Execute` starts over. `answered` is history. A keyed hash is any function of its inputs and a digest the
value it commits to, so the digest checks of a bundle are equalities here; payload, branch
facts and result of an attempt are bound like the rest and left out. `ChoiceEvidence!Replays` is
`AttemptReplayBundle.validate`, which makes every record and identity again
(`docs/v0.4-deterministic-replay.md`).

**SynthesisPipeline.** The producer executes, then the workers publish. Sessions and bundles are
objects of one process and nothing else reads them, so this order loses no interleaving. The completion
of an attempt is a function of its key in `Reconciliation`; `EvidenceReplays` is what entitles it to that.

**EventAdmission.** `Resolve` is one call of `admit` up to its verdict: `FailureCodes` are its
checks in the terms of the code, `Installs` the files it then writes in order, each by `Write`, `Link`
(or `Conflict`, or `LinkSwept`) and `Advance`, which flushes. Contexts are proposed and committed
by the environment, one per tick. A policy registry that raises has no policy, like one that never
registered it.

## Runs

| Run | Question | Bounds |
|---|---|---|
| `temporal_live` | Two coordinators and a recoverer at once, attempts shared: is the chain durable, linked and exact, and does the store implement `TemporalChain`? | 2 workers, 2 attempts, 2 ticks, 1 death |
| `temporal_restart` | Attempt ids used once and recovery only at rest: one terminal receipt, no claim retired without one; is a prepared completion always settled? | 2 workers, 2 attempts, 2 deaths, `FairSpec` |
| `temporal_stuck_recovery` | violation, see Findings | as `temporal_live`, 1 worker |
| `d5_live` | Competing claims, a recoverer, a lost bundle: are published generations whole, markers current, commits truthful, is an active marker always settled; does the store implement `GenerationRegister`? | 2 workers, 1 recoverer, 2 claims, 1 plan over two registries, 2 generations, 1 failure, 1 lost bundle, `FairSpec` |
| `d5_left_bundle` | violation, see Findings | 1 worker, 1 death |
| `kernel_claims` | All events in any order: is every claim backed, can anything be promoted or come back, do the verifiers accept what transitions compute, do independent events commute? | 2 evidence, 3 bases, 2 profiles in 2 versions, times 0..3 |
| `policy_publication` | Two clients prepare, publish, retry, sweep and resolve while processes die and power is lost: does the ledger stay a chain of approved, unambiguous policies, and does a grant decision stand until a policy published later takes over its sequence? | 2 clients, 6 proposals, 2 signers, 2 entries |
| `registry_journal` | Two clients append and admit while a projection clones and a decision reads: are histories readable, admissions current, a clone within its bounds, a decision on one state; does it implement `EntityJournal`? | 2 clients, 2 assumptions and 1 evidence unit, 2 events each |
| `governance_queries` | Over every dependency graph: do receipts, decisions and projections say what the graph implies, do records replay? Over every history of a model: who may use it, what does its admission answer twice? | 3 assumptions with 2 evidence units; 1 model with up to 5 events beside another |
| `publication` | A producer executes attempts: does its evidence replay, under its seed only, and is every answer as likely as it should be? Then workers publish, seal and merge: do receipts agree, is what is cited durable, is every corpus canonical? | 7 calls, 2 choices, 3 identity requests, 2 seeds, 2 bundles, bytes of 2 values, 4 draws; 2 workers, 6 assignments of runs, 1 failure in three of them |
| `admission` | Two engines, contexts that advance, sweeps, deaths, power loss: can an accepted event be read back and does it warrant its receipt? | 2 engines, 4 requests, 2 ticks, 2 calls, 1 failure |
| `admission_spoilt_tick` | violation, see Findings | the same |

**Why the bounds are enough.** A hazard of the file stores needs at most two competing
processes and one recoverer. The second tick or generation lets a late publication meet the next
claim and a file of the first meet the second; the second death of `temporal_restart` lets a
retry meet the remains of two predecessors; the plan of `d5_live` touches two registries, so a
partial install shows. Two ledger entries let a successor meet a predecessor a power loss took back. In
the kernel the catalogue has evidence with a deadline, evidence bound to a profile, bases that
share a member and bases of opposite claims, and the clock runs past the expiry at 2 and a
heartbeat of interval 2. Three assumptions give self-loops excepted every shape of dependency:
chains, shared nodes, cycles through and beside the candidate; a model history of five events holds a challenge,
its resolution and what follows. The merge cases are a sample shared by two inventories, a gap in
attempts, and three samples in two shards; assignments that differ from another only in who shares
what run without a failure. A byte has two values and a hash block one byte, so bounds up to 7 take three
blocks and meet rejection; one of the seeds never meets a bound of 3 and exhausts its draws. The calls hold a path used
twice, an empty domain, an undeclared namespace and another attempt's path, the identity requests a collision of
displays and one of digests. The names of the bounds are `MaxSeq`, `MaxCrashes`,
`MaxFailures`, `MaxLosses`, `MaxTime`, `MaxVersion`, `MaxEntries`, `MaxEvents`, `MaxTick`, `MaxCalls`, `MaxDraw`, `MaxBundles`;
the proofs hold for every value of them.

Symmetry is used for processes, attempts, results and claimants, and never together
with a liveness property that distinguishes them. Deadlock is checked where the system can always go
on; it is off where calls are bounded (policy, registry, publication with its execution, admission) and in
`governance_queries`, which stops after its answer.

### Fairness

Only `temporal_restart` and `d5_live` use it. `FairSpec` assumes that recovery is started again
and again (an operator or supervisor runs it), that a call under way is not abandoned, and that a
process waiting for the lock is not passed over for ever. The last is strong fairness on the
lock-taking steps: `_platform.advisory_lock` uses a blocking `fcntl.flock`, whose waiters Linux
wakes in turn. The Windows variant gives up and raises; it is not modelled. Nothing is
assumed to start a claim or to spare a process from death.

## Proofs

`TemporalStoreProofs` proves, for any number of processes, attempts, events, results and deaths,
that `IInv` is inductive and with it `TypeOK`, `ActiveIsCurrent`, `CompletedIsCommitted`,
`AttemptCommitsOnce`, `NoClobber` and the refinement of `TemporalChain`. None of those is
inductive alone: that a publication is right rests on what was read under the lock still being
true (`LockedReads`, which needs mutual exclusion, `HoldsLock`), on the files a step takes for
granted being there (`FilesInOrder`) and on every committed completion being the one its attempt
prepared (`ChainLinked`). No attempt commits twice because a completion is tied through its claim
file to one predecessor, and that file is immutable. `ChainCanBeRebuilt` shows that the walk from the head
back to the first tick finds every link it reads (`ChainReconstructs`), which needs that ticks stay within their
bound (`BoundHolds`). Two more theorems assume `Apart`, the restrictions of `temporal_restart`: no attempt
id is shared and recovery runs at rest. Then an attempt has one terminal receipt and no claim is
retired without one (`OneReceiptWhenApart`, `RetiredWhenApart`). `ApartInv` adds that nobody takes a worker's
temporary file, that an accepted claim stays the active one, and that a failed attempt has no
completion and will have none. Without `Apart` an attempt can end with both receipts, see Findings.

`D5GenerationProofs` proves, for any workers, recoverers, claims, plans, deaths and losses, that
`StoreInv` is inductive and with it `GenerationsReconstruct`, `MarkerIsCurrent`,
`CommitsArePublished` and the refinement of `GenerationRegister`. That a published generation is
whole needs `FilesStored`: whatever the marker cites is already durable, because `_prepare` writes
the marker last (`InOrder`). That the register's candidate changes hands only by publication or
withdrawal needs `Preparing`: what `_prepare` tested under the lock still holds when it writes the
marker. `PrefixKept` and `LineageOfChain` say that appending a tick leaves the earlier generations
as they were.

`CsdKernelProofs` proves, for any evidence, bases, profiles and deadlines, that every reachable
control state is canonical (`ControlInv`), that the verifiers agree with the transitions
(`VerifierAgrees`), that nothing promotes but a new basis (`NoPromotion`), and that lost bases
stay lost (`BasisNeverReturns`). The strengthening over what the verifiers demand is that a claim
needing no basis has none: without it a tick past a missed heartbeat could be computed one way by
the transition and expected another way by the verifier. `IndependentEventsConverge` proves that
the order of two events about different things does not matter (`EventsConverge`).

`PolicyProofs` proves two facts of policies themselves, for any policy and request: without
overlap no request finds two grants (`NoTwoGrants`), and an exception that applies has a grant for its action over
all its clocks (`ExceptionHasGrant`); the core is the arithmetic of half-open intervals with an open end. For the
store, whatever the clients, proposals and failures, it proves type correctness, that the ledger is a
chain, that one writer changes it, that acknowledged entries survive power loss, that entries
were approved, never ambiguous and exceptions backed, that grant decisions stand (`RulingStands`), and the
refinement of `PolicyRegister`. The invariant ties both copies of the file (`FilesGood`), the
intent of the lock holder to what it read, and acknowledged entries to the durable copy
(`ToldKept`). For the decisions it adds that every ledger a client read is a chain (`ReadsGood`) and that
a decision comes from the last entry in effect in the ledger it was shown (`RulingGood`). That the decision
stands then follows from two chains whose sequences increase (`Increasing`) and share the entry that
decided: an entry after it in the file that takes effect by the same sequence cannot have been in the
ledger shown.

`RegistryProofs` proves, for any entities, events, authorities and clients, that heads
reconstruct, that an admission is given once and decided on the registries it is committed to, that the
registry is one `EntityJournal` per entity, that a clone lies between the root recorded and the
registry as it is, and that a decision whose roots did not move read exactly those. Its invariant
says that what the lock holder decided is still so (`IInv`) and, for the readers, that histories
only grow between two looks (`ReaderOK`).

`SynthesisProofs` proves, for every producer, hash, budget and size of a ledger (`SessionIsSafe`), that
each record of a session has a reserved path of its own in the declared namespace, that the
budget is kept by what is recorded, and that a ledger comes only from a session that was never
poisoned and holds exactly the calls that were answered. Uniqueness of paths needs that recorded paths stay
reserved, and the ledger needs that a frozen session refuses every call. `EvidenceAlwaysReplays`
adds that what is recorded can be frozen, that the ledger does not depend on the order of the calls, and that
a bundle replays under its seed and no mixture of bundles does (`EvidenceReplays`). Its invariant
`EvidenceInv` says that whatever can become evidence was made under the one seed: records from
calls that could be answered, identities that are distinct, ledgers and bundles that are made of them. The
core is that sorting by places that differ has one result (`ArrangedAscends`, `AscendingUnique`).
`ChoicesAreFair` shows, for every bound, weights and size of a byte, that each answer has its share of the
accepted candidates (`ChoicesFair`): accepted candidates come in whole rounds of the remainders
(`RemaindersCount`), and the running totals of the weights cut a round into the shares (`SearchesMeet`). What
the recursive functions `Powers` and `Cumulative` compute is shown with a least number at which it would
fail. `PipelineReplays` carries both to the pipeline.

`EventAdmissionProofs` proves, for any engines, requests, contexts, deaths and power losses, that whatever is
accepted can be read back in full and warrants its receipt (`AcceptanceReconstructs`). In its
invariant `AdmissionInv` an accepted receipt has what it cites among the durable files or before it among the files its
engine has yet to install; `AdmissionAssumption` says that a digest identifies what parses under it.

For the store it proves, for any workers, runs, inventories, shards and failures, that nothing readable cites what
can be lost (`SealedIsComplete`), that receipts agree on who published an object (`OneAccount`) and that
every corpus is the canonical one of its inventory (`OneCorpus`); `PipelineIsSafe` carries the three to the
composition with the producer. `PublicationInv` keeps every plan in citing order (`Orderly`), claims before
their objects and one to an object (`ClaimInv`), and ties what a receipt says to a claim that is durable (`Told`),
since the durable part only grows. Its files satisfy it at the start because of `PublicationAssumption`: what an
earlier tool left without a claim is complete. For the corpus, `CorpusInv` holds of the seals a worker
still plans too; that a merge which resolves puts together `CorpusOf` is shown by the least sample at which
the two sequences would differ.

`GovernanceProofs` proves all seven invariants of `governance_queries`, for any registries and requests. The
model computes its answers with recursive functions, so each proof first shows that the
function exists and what one more step of it does, by a least argument at which it would fail; no induction
theorem is used.

* *Histories.* `AssumptionFold` and `ModelFold` give the states before each event. The trail of a
  model's states keeps who confirmed it and which challenges are open (`ModelTrailed`), and its end is
  `ModelUseConfirmed`. What an authorization or a pair of replays says when it is made, and that
  `Shaped` compares it with the roots of the same attempt, gives `AdmitsOnProjectedEvidence`.
* *Walks.* `Recursion` shows that a function which looks only at smaller arguments exists, and the height of
  the stack and the nodes left to visit is what shrinks (`WalkRuns`). The invariant of a walk says that
  each node has one record (`Kept`), that while nothing failed what was visited is closed under
  dependencies, present and off every cycle (`Sound`), and that it ends otherwise only at a node that fails or in
  a ring (`Failed`), the part of the stack above the node met again, turned to its smallest
  identity (`RingCloses`). What a node reaches is the least closed set (`ReachedFacts`). Hence `ReceiptSound` and `UseSound`.
* *Replays.* The replay of a record keeps its own stack and visited set. It simulates the walk:
  after any number of records it holds what the walk held, and what is left to read is what the
  walk has still to write (`Shadow`, `Follows`, `WalkReplays`). With the repeated admission of a model
  (`FirstAdmission`, `SecondAdmission`) that is `RecordsReplay`.
* *Projections.* Each explicit event and each expiry leaves a registry of legal histories
  (`Living`, `EventsApply`), so the rounds by which dependents are collected start from one and end after as
  many as there are assumptions (`DependentsExact`): `ImpactsExact`. A pass appends one expiry to each entity that is
  due and to no other (`PassExpires`, `ModelPassExpires`), and whatever is due can expire
  (`ExpiryLegal`), so nothing is left overdue and nothing makes the pass fail: `ExpiryComplete`.

They rest on `RegistriesAssumption` and `RequestsAssumption`, the types of the records (sequence numbers
are integers and a proposal names assumptions and evidence units, which its constructor requires), on
`IdOrderAssumption`, `AssumptionsAssumption` and `ModelOrderAssumption` (the canonical order lists each
identity once, and assumptions are not evidence), and on `TicksAssumption`: a registry holds nothing
later than the clock it is projected at, because ticks are committed in order; the projections do not check
it, and a raw append of an event dated ahead is left out. No theorem assumes that what
a registry holds is legal or acyclic: a raw append checks neither.

Assumptions on constants are named and TLC evaluates them in the runs. Most give the types of the constants. Those of
the choices say that a byte has at least two values (`ByteAssumption`), that a call has integers
for its bound, weights or ratio (`CallsAssumption`, what `_require_integer` enforces) and that the orders of paths and
requests list all there can be (`OrdersAssumption`); proposals take effect at integer sequences
(`ProposalsAssumption`). Proved but not part of a run, since the runs
check something stronger or near: `AttemptCommitsOnce`, `NoClobber`, `CommittedSurvives`, `OneWriter`,
`OneAdmission`, `SessionSafe`.

Model-checked only: the liveness properties `PreparedIsSettled` and `MarkerIsSettled`, since neither
fairness nor ENABLED is in the provers' reach, and the three `violation` runs, whose counterexamples
only TLC can show. Every invariant and action property of a passing run is stated by a theorem.

## Findings

Each is a `violation` run whose counterexample TLC produces; `PROJECT.json` quotes the line
that is contradicted.

* A death after the failure receipt and before the retirement leaves a claim recovery never
  releases (`RecoveryCanRelease`).
* A death between the prepared bundle and the active marker, written or removed, leaves a bundle
  recovery ignores (`RecoveryFreesBundle`). After a commit that died between its two unlinks no later
  generation can be prepared: every bundle meets `D5_IMMUTABLE_PATH_CONFLICT`.
* A request refused because its tick is only proposed stores the uncommitted context at the
  immutable path of the tick. Once the tick is committed every request for it ends in
  `AdmissionStoreConflictError`, without a receipt (`EveryRequestAnswered`).

Read off the code and the model while it was written, without a run of their own:

* An attempt can end with a failure receipt and a committed completion if recovery runs while
  it executes; `temporal_restart` shows one receipt under the intended use. A late idempotent
  publication clears the active marker of the next attempt (`temporal_store.py:301`).
* `_validate_reassess` and `_validate_retirement` (`kernel/invariants.py`) do not look at the
  authority of the event, only the transitions do. A stale verdict is restored by a basis made of
  evidence already seen. A profile version goes back if another profile was required in between.
* Policies: a reader sees an entry after its rename, so a grant may be decided from one whose flush fails, and a
  power loss then takes the policy back (the exception `RulingStands` makes). An exact retry is answered `IDEMPOTENT_APPEND` without a flush, so before the
  flush of the first call. `publish` and the parser of a ledger verify neither overlap nor approval again; the continuity
  of approval policies between successor entries is not enforced; the duty evaluator is authoritative only for the ledger it is given.
* Registry: a clone may be newer than the root recorded for it (`registry.py:392`); an exact
  repeat of an event after the head moved is a `SEQUENCE_CONFLICT`, not idempotent
  (`docs/REGISTRY_SUBSTRATE_v0.5.md`); a raw append checks no lifecycle; after a durability-uncertain
  governed commit the caller holds no authorization and meets `ALREADY_ADMITTED`.
* Evidence and assumptions: an evidence unit due for expiry whose policy denies the expiry authority
  makes every evidence projection raise; D5 passes no governed evidence, so an explicit ADMIT in a
  tick raises `ADMIT_EVIDENCE_MISSING`. With governed admissions only, no dependency cycle can be
  admitted; cycles at use need raw ADMITs.
* Alternative models: `ADMITTED` is unreachable. The comment at the top of `alternative_model.py` has it
  reached by resolving all challenges, but the code keeps `UNVERIFIED`, so only CONFIRM makes a
  model usable. The use gate ignores `valid_from_sequence`; a receipt's primary graph is not bound to
  `primary_model_id`; a retry of an admission is refused once any other model moved.
* Publication: a claim left by a dead run makes later runs report `existing` for what they
  installed, so possibly no receipt says `published` until that run restarts; the merge seal of an inventory shares a
  directory with the seals of its shard 0; attestations of a refused merge stay published.

## Not modelled

Digest collisions, corrupted bytes, the content of JSON contracts, wording, and the Windows lock.
Power loss is modelled where the code orders flushes against each other (policy, publication,
admission stores); the temporal, D5 and registry models survive process death only. Directories are
taken to exist, and the entry of a directory made during a call to be durable. Where the temporal store installs
two files in two calls, an object and then the file of its attempt (`record_attempt_artifact`), the
model installs both in one step: what a death leaves between them is an object nobody cites, which a
repeat accepts as it is. Left out of the use decisions are the `except EvidenceGovernanceError` around the
status of a unit, which no state of the run raises, and the counter of active challenges in the
work record. In `admit`, a policy, signature or authorization check that raises ends the call with no
receipt and no file, so it is no step. `d5_live` has one plan per claim; that a commit never
installs another plan of its claim is shown for any number of plans by the proof only. External, and chosen freely:
producers of attempts, projectors, projection adapters, intent and impact resolvers, replay executors, completion resolvers
and attestors, signature back ends. `PROJECT.json` gives the reason for each component left out.

The modules cover the stores, registries, decisions and sessions of `src/csd_foundry` that keep or
decide on state. What remains is over half of the repository's Python and has none: fixture
builders under `scripts/`, experiment compilers and runners under `empirical/`, validators written
a second time as oracles for mutation campaigns (`*_validation.py`, `*_mutations.py`), schemas,
serialization and command lines. A model of a fixture builder or a report would say only that it computes what it
computes, so these are left out on purpose.
