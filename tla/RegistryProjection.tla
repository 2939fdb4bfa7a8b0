------------------------- MODULE RegistryProjection -------------------------
(***************************************************************************)
(* The projection adapters of the evidence and the assumption registry     *)
(* (evidence_projection.py, _assumption_projection.py): what one committed *)
(* clock does to a clone of a registry.  Explicit events come first, in    *)
(* canonical order, then the expiries due at that clock, planned on the    *)
(* clone as the explicit events left it.                                   *)
(*                                                                         *)
(* An explicit event is [id, prev, event]; prev is the history it extends. *)
(* A plan is [pre, events, impacts, post]; a projection that raises has    *)
(* none.                                                                   *)
(***************************************************************************)
EXTENDS UseAdmissibility

CONSTANTS ExpiryAuthority,  \* who expires assumptions and evidence
          Declined          \* the assumptions that authority does not expire

EvidenceImpacts   == {"CHALLENGE", "EXPIRE", "INVALIDATE", "SUPERSEDE"}
AssumptionImpacts == {"CHALLENGE", "RESOLVE_CHALLENGES", "CONFIRM", "REJECT", "EXPIRE", "SUPERSEDE"}

-----------------------------------------------------------------------------
(* Expiry.                                                                 *)

\* Mutant: an entity that changed at this clock is due again.
DueAgain(expires, last, clock) == expires # None /\ (expires # None => clock >= expires)

Due(expires, last, clock) ==
    expires # None /\ last < clock /\ (expires # None => clock >= expires)

AssumptionDue(id, history, clock) ==
    /\ history # <<>> /\ id \notin Declined
    /\ LET a == AssumptionAt(id, history)
       IN  a.standing \in ActiveStandings /\ Due(a.declared.expires, a.clock, clock)

EvidenceDue(id, history, clock) ==
    /\ history # <<>>
    /\ LET u == EvidenceAt(id, history)
       IN  u.status \in Standing /\ Due(u.declared.expires, u.clock, clock)

ExpireEvent(clock) == [op |-> "EXPIRE", by |-> ExpiryAuthority, clock |-> clock, arg |-> None]

Expiries(hs, due, clock) ==
    LET ids == Ordered(due)
    IN  [n \in 1..Len(ids) |-> [id |-> ids[n], prev |-> hs[ids[n]], event |-> ExpireEvent(clock)]]

-----------------------------------------------------------------------------
(* The impact of an event: everything that depends on its entity.          *)

\* _dependent_ids: the frontier moves outwards until nothing new is found.
Dependents(id, deps) ==
    LET ids     == DOMAIN deps
        ring(s) == {x \in ids \ s.affected : deps[x] \cap s.frontier # {}}
        after[n \in 0..Cardinality(ids)] ==
            IF n = 0 THEN [affected |-> {}, frontier |-> {id}]
            ELSE LET s == after[n - 1] IN [affected |-> s.affected \cup ring(s), frontier |-> ring(s)]
    IN  after[Cardinality(ids)].affected

EvidenceDeps(hs, id) == IF hs[id] = <<>> THEN {} ELSE EvidenceAt(id, hs[id]).declared.deps

\* Mutant: the closure stops at the first ring.
DirectlyAffected(hs, id) == {x \in Assumptions : id \in DependenciesOf(hs, x)} \ {id}

\* An assumption is not among the dependents of itself; an evidence unit may be.
AffectedAssumptions(hs, id) ==
    Dependents(id, [x \in Assumptions |-> DependenciesOf(hs, x)]) \ {id}

AffectedEvidence(hs, id) == Dependents(id, [x \in EvidenceIds |-> EvidenceDeps(hs, x)])

-----------------------------------------------------------------------------
(* _apply_events on the clone.                                             *)

\* An event is appended where its predecessor is the head and it is legal.
Extends(hs, x, reduced) == x.prev = hs[x.id] /\ reduced # {}

ApplyAssumption(s, x) ==
    LET before == AssumptionStates(x.id, s.hs[x.id])
        after  == UNION {ReduceAssumption(x.id, a, x.event) : a \in before}
        hs     == [s.hs EXCEPT ![x.id] = Append(@, x.event)]
        impact == [id |-> x.id, from |-> Status(CHOOSE a \in before : TRUE),
                   to |-> Status(CHOOSE a \in after : TRUE),
                   affected |-> AffectedAssumptions(hs, x.id), root |-> AssumptionRoot(hs)]
    IN  When(Extends(s.hs, x, after),
             [hs |-> hs,
              impacts |-> IF s.hs[x.id] = <<>> \/ x.event.op \notin AssumptionImpacts
                          THEN s.impacts ELSE Append(s.impacts, impact)])

ApplyEvidence(s, x) ==
    LET before == EvidenceStates(x.id, s.hs[x.id])
        after  == UNION {ReduceEvidence(x.id, u, x.event) : u \in before}
        hs     == [s.hs EXCEPT ![x.id] = Append(@, x.event)]
        impact == [id |-> x.id, from |-> (CHOOSE u \in before : TRUE).status,
                   to |-> (CHOOSE u \in after : TRUE).status,
                   affected |-> AffectedEvidence(hs, x.id), root |-> EvidenceRoot(hs)]
    IN  When(/\ Extends(s.hs, x, after)
             /\ \A u \in before : Authorized(u, x.event),
             [hs |-> hs,
              impacts |-> IF s.hs[x.id] = <<>> \/ x.event.op \notin EvidenceImpacts
                          THEN s.impacts ELSE Append(s.impacts, impact)])

Apply(s, x) == IF x.id \in EvidenceIds THEN ApplyEvidence(s, x) ELSE ApplyAssumption(s, x)

Applied(s, events) ==
    LET after[n \in 0..Len(events)] ==
            IF n = 0 THEN {s} ELSE UNION {Apply(t, events[n]) : t \in after[n - 1]}
    IN  after[Len(events)]

\* _canonical_events: by identity, then sequence; no position twice.
Before(x, y) == \/ Position(IdOrder, x.id) < Position(IdOrder, y.id)
                \/ x.id = y.id /\ Len(x.prev) < Len(y.prev)

Placed(explicit)    == \A x, y \in explicit : x.id = y.id /\ Len(x.prev) = Len(y.prev) => x = y
Canonical(explicit) == InOrder(explicit, {p \in explicit \X explicit : Before(p[1], p[2])})

-----------------------------------------------------------------------------
(* project, of the two adapters.  The expiries are found on the state the  *)
(* explicit events leave; an illegal history anywhere ends the projection. *)

DueAmong(ids, hs, clock) ==
    {x \in ids : IF x \in EvidenceIds THEN EvidenceDue(x, hs[x], clock)
                                      ELSE AssumptionDue(x, hs[x], clock)}

Plans(hs, explicit, clock, ids) ==
    LET first == Applied([hs |-> hs, impacts |-> <<>>], Canonical(explicit))
        plan(s) ==
            LET late == Expiries(s.hs, DueAmong(ids, s.hs, clock), clock)
            IN  {[pre |-> hs, events |-> Canonical(explicit) \o late,
                  impacts |-> t.impacts, post |-> t.hs] : t \in Applied(s, late)}
    IN  UNION {plan(s) : s \in first}

EvidencePlan(hs, explicit, clock) ==
    IF /\ Placed(explicit) /\ \A x \in explicit : x.event.clock = clock
       /\ \A id \in EvidenceIds : LegalEvidence(id, hs[id])
    THEN Plans(hs, explicit, clock, EvidenceIds)
    ELSE {}

\* Mutant: the evidence of an authorization is not compared.
ShapedOnce(auths, evidence) == \A p, q \in auths : p.id = q.id => p = q

\* _verify_governed_evidence_shape: one authorization for an assumption, and
\* on the evidence the attempt projects.
Shaped(auths, evidence) ==
    /\ \A p, q \in auths : p.id = q.id => p = q
    /\ \A p \in auths : p.evidence = evidence

\* _verify_governed_admit_bindings: an ADMIT is the event of its authorization,
\* made on the registry that is projected.
Bound(x, auths, pre) ==
    x.event.op = "ADMIT" =>
        \E p \in auths : /\ p.id = x.id /\ p.prev = x.prev
                         /\ x.event = AdmitEvent(p)
                         /\ p.assumptions = pre

AssumptionPlan(hs, explicit, auths, evidence, clock) ==
    IF /\ Shaped(auths, evidence)
       /\ Placed(explicit) /\ \A x \in explicit : x.event.clock = clock
       /\ \A x \in explicit : Bound(x, auths, AssumptionRoot(hs))
       /\ \A id \in Assumptions : LegalAssumption(id, hs[id])
    THEN Plans(hs, explicit, clock, Assumptions)
    ELSE {}
=============================================================================
