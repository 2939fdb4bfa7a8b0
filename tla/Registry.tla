------------------------------- MODULE Registry -------------------------------
(***************************************************************************)
(* The registry journal (registry.py) with the clients that write through  *)
(* it: the reducers of assumption.py and evidence.py, the authority gate   *)
(* of evidence_governance.py, the governed admission of                    *)
(* _governed_admit_append.py, and a projection that clones a live registry *)
(* (reconstruct_snapshot).                                                 *)
(*                                                                         *)
(* An event object is immutable and named by its digest: [id, history].  A *)
(* head is the digest of an entity's last event, so the history itself.    *)
(***************************************************************************)
EXTENDS AdmissionGate

CONSTANTS Clients,
          Offers,      \* [Ids -> sets of events] the events a client may build
          Admitters,   \* the authorities that may ask for a governed admission
          AdmitClocks, \* the clocks at which they ask
          MaxEvents,   \* bound: the events of one entity
          Cloned,      \* the registries a projection clones
          Needed       \* the sets of entities whose histories a decision reads

ASSUME ClientsAssumption == None \notin Clients
ASSUME OffersAssumption == \A id \in Ids : \A e \in Offers[id] : ~Governed(e)
ASSUME ReadersAssumption == \A kind \in Cloned \cup Needed : kind \subseteq Ids

VARIABLES objects,  \* the digests installed under objects/
          heads,    \* the head of every entity, <<>> when it has none
          lock,     \* who holds registry.lock
          pc,       \* where each client is
          work,     \* the event it appends: [id, prev, event]
          answers,  \* the results governed admissions returned
          scan      \* a projection's clone of one registry, or what a decision read

vars == <<objects, heads, lock, pc, work, answers, scan>>

Steps == {"idle", "authorize", "head", "reduce", "install", "append",
          "object", "replace", "return"}

\* What a client appends, and its digest.
Job(id, prev, event) == [id |-> id, prev |-> prev, event |-> event]
Digest(j)            == [id |-> j.id, history |-> Append(j.prev, j.event)]

\* The states an event leads to: none when the reducer raises.
Reduced(id, history, e) ==
    IF id \in Assumptions
    THEN UNION {ReduceAssumption(id, s, e) : s \in AssumptionStates(id, history)}
    ELSE UNION {ReduceEvidence(id, u, e) : u \in EvidenceStates(id, history)}

\* Every event on the way to the head is there to be read.
Reconstructs(id) == \A n \in 1..Len(heads[id]) : [id |-> id, history |-> SubSeq(heads[id], 1, n)] \in objects

NoScan == [at |-> "idle", kind |-> {}, root |-> <<>>, left |-> {}, clone |-> <<>>]

Init ==
    /\ objects = {}
    /\ heads = [id \in Ids |-> <<>>]
    /\ lock = None
    /\ pc = [p \in Clients |-> "idle"]
    /\ work = [p \in Clients |-> None]
    /\ answers = {}
    /\ scan = NoScan

\* A client is done with its event when it is idle.
Goto(p, step) ==
    /\ pc' = [pc EXCEPT ![p] = step]
    /\ work' = IF step = "idle" THEN [work EXCEPT ![p] = None] ELSE work

Begin(p, job, step) ==
    /\ pc' = [pc EXCEPT ![p] = step]
    /\ work' = [work EXCEPT ![p] = job]

\* The advisory lock is not held: a step that takes and releases it may run.
Unlocked == lock = None

-----------------------------------------------------------------------------
(* AssumptionRegistry.apply, EvidenceRegistry.apply and the governed        *)
(* evidence registry, on an event built on the head the client saw.        *)

Choose(p) ==
    /\ pc[p] = "idle" /\ Unlocked
    /\ \E id \in Ids : \E e \in Offers[id] :
          /\ Len(heads[id]) < MaxEvents
          /\ Begin(p, Job(id, heads[id], e), IF id \in EvidenceIds THEN "authorize" ELSE "head")
    /\ UNCHANGED <<objects, heads, lock, answers, scan>>

Authorize(p) ==
    /\ pc[p] = "authorize" /\ Unlocked
    /\ LET j == work[p]
       IN  Goto(p, IF \E u \in EvidenceStates(j.id, heads[j.id]) : Authorized(u, j.event)
                   THEN "head" ELSE "idle")
    /\ UNCHANGED <<objects, heads, lock, answers, scan>>

\* The event is the head already: it is answered with the current state.
CheckHead(p) ==
    /\ pc[p] = "head" /\ Unlocked
    /\ Goto(p, IF heads[work[p].id] = Digest(work[p]).history THEN "idle" ELSE "reduce")
    /\ UNCHANGED <<objects, heads, lock, answers, scan>>

\* _verify_chain and the reducer, on the state read now.
Reduce(p) ==
    /\ pc[p] = "reduce" /\ Unlocked
    /\ LET j == work[p]
       IN  Goto(p, IF j.prev = heads[j.id] /\ Reduced(j.id, j.prev, j.event) # {}
                   THEN "install" ELSE "idle")
    /\ UNCHANGED <<objects, heads, lock, answers, scan>>

\* Mutant: the event object is written after the head.
InstallLater(p) ==
    /\ pc[p] = "install"
    /\ Goto(p, "append")
    /\ UNCHANGED <<objects, heads, lock, answers, scan>>

\* The first half of append: before the lock is taken.
Install(p) ==
    /\ pc[p] = "install"
    /\ objects' = objects \cup {Digest(work[p])}
    /\ Goto(p, "append")
    /\ UNCHANGED <<heads, lock, answers, scan>>

\* Mutant: the head is replaced without reading it.
AppendBlind(p) ==
    /\ pc[p] = "append" /\ Unlocked
    /\ heads' = [heads EXCEPT ![work[p].id] = Digest(work[p]).history]
    /\ Goto(p, "idle")
    /\ UNCHANGED <<objects, lock, answers, scan>>

\* Under the lock: the exact repetition of the head and a wrong sequence or
\* predecessor leave the head alone.
AppendHead(p) ==
    /\ pc[p] = "append" /\ Unlocked
    /\ LET j == work[p]
       IN  heads' = IF heads[j.id] = j.prev
                    THEN [heads EXCEPT ![j.id] = Digest(j).history] ELSE heads
    /\ Goto(p, "idle")
    /\ UNCHANGED <<objects, lock, answers, scan>>

-----------------------------------------------------------------------------
(* append_governed_admit_assumption: one locked view from the first read   *)
(* to the new head.                                                        *)

\* Mutant: the decisions are made before the lock is taken.
AdmitUnlocked(p) ==
    /\ pc[p] = "idle" /\ Unlocked
    /\ \E id \in Assumptions, by \in Admitters, clock \in AdmitClocks :
       \E a \in Authorization(heads, id, by, clock) :
          Begin(p, Job(id, a.prev, AdmitEvent(a)), "object")
    /\ UNCHANGED <<objects, heads, lock, answers, scan>>

BeginAdmit(p) ==
    /\ pc[p] = "idle" /\ Unlocked
    /\ \E id \in Assumptions, by \in Admitters, clock \in AdmitClocks :
       \E a \in Authorization(heads, id, by, clock) :
          Begin(p, Job(id, a.prev, AdmitEvent(a)), "object")
    /\ lock' = p
    /\ UNCHANGED <<objects, heads, answers, scan>>

\* _commit_prepared, up to and with the replacement of the head.
InstallAdmit(p) ==
    /\ pc[p] = "object" /\ heads[work[p].id] = work[p].prev
    /\ objects' = objects \cup {Digest(work[p])}
    /\ Goto(p, "replace")
    /\ UNCHANGED <<heads, lock, answers, scan>>

ReplaceHead(p) ==
    /\ pc[p] = "replace"
    /\ heads' = [heads EXCEPT ![work[p].id] = Digest(work[p]).history]
    /\ Goto(p, "return")
    /\ UNCHANGED <<objects, lock, answers, scan>>

Leave(p) == lock' = None /\ Goto(p, "idle")

\* The result was built before the commit: the root it predicts replaces the
\* candidate's head in the root of the authorization.
Result(a) == [auth |-> a,
              assumptions |-> [a.assumptions EXCEPT ![a.id] = Append(a.prev, AdmitEvent(a))],
              evidence |-> a.evidence]

FinishAdmit(p) ==
    /\ pc[p] = "return"
    /\ answers' = answers \cup {Result(work[p].event.arg)}
    /\ Leave(p)
    /\ UNCHANGED <<objects, heads, scan>>

\* The directory flush or the read-back fails after the commit: the head has
\* moved and the caller gets an error, without the authorization.
UncertainAdmit(p) ==
    /\ pc[p] = "return"
    /\ Leave(p)
    /\ UNCHANGED <<objects, heads, answers, scan>>

\* _handle_retry: the head is the event of the authorization and, that event
\* apart, both registries are what it was made on.
Retry(p) ==
    /\ pc[p] = "idle" /\ Unlocked
    /\ \E x \in answers :
          LET a == x.auth
          IN  /\ heads[a.id] = Append(a.prev, AdmitEvent(a))
              /\ EvidenceRoot(heads) = a.evidence
              /\ [AssumptionRoot(heads) EXCEPT ![a.id] = a.prev] = a.assumptions
              /\ answers' = answers \cup {[auth |-> a, assumptions |-> AssumptionRoot(heads),
                                           evidence |-> EvidenceRoot(heads)]}
    /\ UNCHANGED <<objects, heads, lock, pc, work, scan>>

\* A client dies where it is; the operating system releases its lock.
Crash(p) ==
    /\ pc[p] # "idle"
    /\ Goto(p, "idle")
    /\ lock' = IF lock = p THEN None ELSE lock
    /\ UNCHANGED <<objects, heads, answers, scan>>

-----------------------------------------------------------------------------
(* The clone of a projection: the root of the registry, then              *)
(* reconstruct_snapshot, which lists the heads under the lock and reads    *)
(* every head again without it.                                            *)

ReadRoot ==
    /\ scan.at = "idle" /\ Unlocked
    /\ \E kind \in Cloned :
          scan' = [at |-> "list", kind |-> kind, root |-> [id \in kind |-> heads[id]],
                   left |-> {}, clone |-> [id \in kind |-> <<>>]]
    /\ UNCHANGED <<objects, heads, lock, pc, work, answers>>

List ==
    /\ scan.at = "list" /\ Unlocked
    /\ scan' = [scan EXCEPT !.at = "read", !.left = {id \in scan.kind : heads[id] # <<>>}]
    /\ UNCHANGED <<objects, heads, lock, pc, work, answers>>

\* Mutant: the chain is walked from the predecessor of the head.
ReadEntityShort ==
    /\ scan.at \in {"read", "evaluate"} /\ Unlocked
    /\ \E id \in scan.left :
          /\ \A x \in scan.left : Position(IdOrder, id) <= Position(IdOrder, x)
          /\ Reconstructs(id)
          /\ scan' = [scan EXCEPT !.left = @ \ {id}, !.clone[id] = SubSeq(heads[id], 1, Len(heads[id]) - 1)]
    /\ UNCHANGED <<objects, heads, lock, pc, work, answers>>

ReadEntity ==
    /\ scan.at \in {"read", "evaluate"} /\ Unlocked
    /\ \E id \in scan.left :
          /\ \A x \in scan.left : Position(IdOrder, id) <= Position(IdOrder, x)
          /\ Reconstructs(id)
          /\ scan' = [scan EXCEPT !.left = @ \ {id}, !.clone[id] = heads[id]]
    /\ UNCHANGED <<objects, heads, lock, pc, work, answers>>

\* The clone is complete, or the decision made: what is computed from it is
\* RegistryProjection and UseAdmissibility.
Planned ==
    /\ \/ scan.at = "decided"
       \/ scan.at = "read" /\ scan.left = {}
    /\ scan' = NoScan
    /\ UNCHANGED <<objects, heads, lock, pc, work, answers>>

-----------------------------------------------------------------------------
(* evaluate_assumption_use_admissibility reads the root of each registry,  *)
(* the histories it needs in the order of its walk, and the roots again;   *)
(* each read takes the lock for itself.                                    *)

BindAssumptions ==
    /\ scan.at = "idle" /\ Unlocked
    /\ \E needed \in Needed :
          scan' = [at |-> "bind", kind |-> needed, left |-> needed,
                   clone |-> [id \in needed |-> <<>>],
                   root |-> [id \in Ids |-> IF id \in Assumptions THEN heads[id] ELSE <<>>]]
    /\ UNCHANGED <<objects, heads, lock, pc, work, answers>>

BindEvidence ==
    /\ scan.at = "bind" /\ Unlocked
    /\ scan' = [scan EXCEPT !.at = "evaluate",
                            !.root = [id \in Ids |-> IF id \in Assumptions THEN @[id] ELSE heads[id]]]
    /\ UNCHANGED <<objects, heads, lock, pc, work, answers>>

\* Mutant: the root of the assumptions is not read again.
CheckNothing ==
    /\ scan.at = "evaluate" /\ Unlocked
    /\ scan' = [scan EXCEPT !.at = "recheck"]
    /\ UNCHANGED <<objects, heads, lock, pc, work, answers>>

\* The walk fails fast, so histories may be left unread.
CheckAssumptions ==
    /\ scan.at = "evaluate" /\ Unlocked
    /\ scan' = IF \A id \in Assumptions : heads[id] = scan.root[id]
               THEN [scan EXCEPT !.at = "recheck"] ELSE NoScan
    /\ UNCHANGED <<objects, heads, lock, pc, work, answers>>

CheckEvidence ==
    /\ scan.at = "recheck" /\ Unlocked
    /\ scan' = IF \A id \in EvidenceIds : heads[id] = scan.root[id]
               THEN [scan EXCEPT !.at = "decided"] ELSE NoScan
    /\ UNCHANGED <<objects, heads, lock, pc, work, answers>>

Next ==
    \/ \E p \in Clients :
          \/ Choose(p) \/ Authorize(p) \/ CheckHead(p) \/ Reduce(p)
          \/ Install(p) \/ AppendHead(p)
          \/ BeginAdmit(p) \/ InstallAdmit(p) \/ ReplaceHead(p)
          \/ FinishAdmit(p) \/ UncertainAdmit(p) \/ Retry(p) \/ Crash(p)
    \/ ReadRoot \/ List \/ ReadEntity \/ Planned
    \/ BindAssumptions \/ BindEvidence \/ CheckAssumptions \/ CheckEvidence

Spec == Init /\ [][Next]_vars

-----------------------------------------------------------------------------
(* The variables have the shapes the code gives them, and the lock is held *)
(* exactly by the client whose governed admission is under way.            *)
TypeOK ==
    /\ \A o \in objects : o.id \in Ids /\ o.history # <<>>
    /\ DOMAIN heads = Ids
    /\ lock \in Clients \cup {None}
    /\ pc \in [Clients -> Steps]
    /\ \A p \in Clients : lock = p <=> pc[p] \in {"object", "replace", "return"}
    /\ \A p \in Clients : pc[p] # "idle" => work[p].id \in Ids
    /\ scan.at \in {"idle", "list", "read", "bind", "evaluate", "recheck", "decided"}

(* A head never points at something that cannot be read back: every event  *)
(* on its chain was installed before the head moved, whoever crashed in    *)
(* between (reconstruct_entity raises REGISTRY_CHAIN_EVENT_MISSING).       *)
HeadsReconstruct == \A id \in Ids : Reconstructs(id)

(* Whatever the order of the clients' steps, each entity's chain is a      *)
(* history its reducer accepts and, for evidence, one whose every event    *)
(* the authority policy permits; the checks are made on a state read       *)
(* before the append takes the lock.                                       *)
HistoriesLegal ==
    \A id \in Ids : IF id \in Assumptions THEN LegalAssumption(id, heads[id])
                    ELSE LegalEvidence(id, heads[id]) /\ AuthorizedHistory(id, heads[id])

(* One assumption has one admission: however often its caller repeats the  *)
(* request, every result returned carries the same authorization and the   *)
(* same two roots (_handle_retry refuses once either registry has moved).  *)
OneAdmission == \A x, y \in answers : x.auth.id = y.auth.id => x = y

(* A governed admission becomes the head of an assumption only while both  *)
(* registries are exactly those its dependency receipt, its duty decisions *)
(* and its roots were computed on.                                         *)
AdmitOnCurrentState ==
    [][\A id \in Assumptions :
         heads'[id] # heads[id] =>
            LET e == heads'[id][Len(heads'[id])]
            IN  Governed(e) => e.arg \in Authorization(heads, id, e.by, e.clock)]_vars

(* The registries implement the journals they promise. *)
Legal(id, history, e) == Reduced(id, history, e) # {}

Journal == INSTANCE EntityJournal WITH journal <- heads, Allowed <- Legal

JournalSpec == Journal!Spec

(* What a projection clones lies between the registry it recorded the root *)
(* of and the registry as it is: no entity of that root is missing, lost   *)
(* an event or took one from elsewhere.                                    *)
CloneWithin ==
    scan.at = "read" =>
        \A id \in scan.kind \ scan.left :
            /\ IsPrefix(scan.root[id], scan.clone[id])
            /\ IsPrefix(scan.clone[id], heads[id])

(* A decision rests on one state of the registries, though it reads them   *)
(* history by history without the lock: because histories only grow, roots *)
(* that are the same before and after show that nothing moved in between.  *)
DecidedOnOneState ==
    scan.at = "decided" => \A id \in scan.kind \ scan.left : scan.clone[id] = scan.root[id]
=============================================================================
