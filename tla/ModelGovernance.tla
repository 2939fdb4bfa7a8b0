--------------------------- MODULE ModelGovernance ---------------------------
(***************************************************************************)
(* The governed admission of an alternative model, its replay comparison   *)
(* (_governed_alternative_model.py) and the projection of the registry at  *)
(* one clock (_alternative_model_projection.py).                           *)
(*                                                                         *)
(* `ms' is what the registry of models holds, a history for each identity. *)
(* A graph is a function from the paths of its leaves to their values.     *)
(***************************************************************************)
EXTENDS AlternativeModel, RegistryProjection

CONSTANTS ModelOrder,   \* the identities of models in canonical order
          Keyword       \* the paths that name a difference family, with that family

ASSUME ModelOrderAssumption == ModelOrder \in Seq(Range(ModelOrder)) /\ IsInjective(ModelOrder)

Models == Range(ModelOrder)

-----------------------------------------------------------------------------
(* The structural difference of two graphs.                                *)

DifferencePaths(primary, shadow) ==
    {p \in DOMAIN primary \cup DOMAIN shadow :
        p \in DOMAIN primary /\ p \in DOMAIN shadow => primary[p] # shadow[p]}

Family(p, both) ==
    IF p \in DOMAIN Keyword THEN Keyword[p] ELSE IF both THEN "RELABELED" ELSE "ADDED_REMOVED"

Difference(primary, shadow) ==
    LET paths == DifferencePaths(primary, shadow)
    IN  [paths |-> paths,
         families |-> {Family(p, p \in DOMAIN primary \cap DOMAIN shadow) : p \in paths}]

\* detect_structural_difference: the receipt exists for the declared difference only.
DifferenceReceipt(primary, shadow, declared) ==
    When(Difference(primary, shadow) = declared,
         [primary |-> primary, shadow |-> shadow, difference |-> declared,
          material |-> declared.paths # {}])

-----------------------------------------------------------------------------
(* append_governed_alternative_model_admit.  Its lock is held throughout,  *)
(* so it is a function of what the registry holds.                         *)

ModelAdmitEvent(a) == [op |-> "ADMIT", by |-> a.by, clock |-> a.clock, arg |-> a]

ProposedModel(ms, id, clock) ==
    /\ Len(ms[id]) = 1 /\ LegalModel(id, ms[id])
    /\ \A m \in ModelStates(id, ms[id]) : m.standing = "PROPOSED" /\ ~(clock <= m.clock)

ModelAuthorization(ms, id, by, clock, receipt) ==
    UNION {When(/\ ProposedModel(ms, id, clock)
                /\ receipt.material
                /\ receipt.shadow = m.declared.graph
                /\ receipt.difference = m.declared.difference,
                [id |-> id, by |-> by, clock |-> clock, prev |-> ms[id], root |-> ms,
                 receipt |-> receipt]) : m \in ModelStates(id, ms[id])}

\* The head is an admission: an exact retry is answered, anything else refused.
AdmittedModel(ms, id) == Len(ms[id]) = 2 /\ ms[id][2].op = "ADMIT"

\* _handle_retry: the same call, the same event, and the registry is what it
\* was apart from that event.
RetryMatches(ms, a, id, by, clock, receipt) ==
    /\ a.id = id /\ a.by = by /\ a.clock = clock /\ a.receipt = receipt
    /\ ms[id] = Append(a.prev, ModelAdmitEvent(a))
    /\ [ms EXCEPT ![id] = SubSeq(@, 1, 1)] = a.root

\* What the call leaves and answers; it raises when there is nothing.  retry
\* is the authorization it is given, if any.
GovernedModelAdmit(ms, id, by, clock, receipt, retry) ==
    IF AdmittedModel(ms, id)
    THEN {[applied |-> FALSE, authorization |-> a, held |-> ms] :
          a \in {a \in retry : RetryMatches(ms, a, id, by, clock, receipt)}}
    ELSE {[applied |-> TRUE, authorization |-> a,
           held |-> [ms EXCEPT ![id] = Append(@, ModelAdmitEvent(a))]] :
          a \in ModelAuthorization(ms, id, by, clock, receipt)}

-----------------------------------------------------------------------------
(* The comparison of two replays.  A replay is [graph, context, outcome];  *)
(* the executor is external and may answer with that of another call.      *)

BoundReplay(replay, graph, context) == replay.graph = graph /\ replay.context = context

\* run_full_replay_comparison on what the executor returns.
Comparison(receipt, context, primary, shadow) ==
    When(/\ BoundReplay(primary, receipt.primary, context)
         /\ BoundReplay(shadow, receipt.shadow, context),
         [difference |-> receipt, primary |-> primary, shadow |-> shadow,
          result |-> IF primary.outcome = shadow.outcome THEN "INVARIANT" ELSE "DIVERGENT"])

-----------------------------------------------------------------------------
(* The projection.  An explicit event is [id, prev, event], a piece of     *)
(* governed evidence [authorization, comparison].                          *)

ModelDue(id, history, clock) ==
    /\ history # <<>> /\ id \notin Declined
    /\ \A m \in ModelStates(id, history) :
           m.standing \in ChallengeableStandings /\ Due(m.declared.expires, m.clock, clock)

EarlierModel == {p \in Models \X Models : Position(ModelOrder, p[1]) < Position(ModelOrder, p[2])}

ModelExpiries(ms, clock) ==
    LET ids == InOrder({id \in Models : ModelDue(id, ms[id], clock)}, EarlierModel)
    IN  [n \in 1..Len(ids) |-> [id |-> ids[n], prev |-> ms[ids[n]], event |-> ExpireEvent(clock)]]

ApplyModel(s, x) ==
    LET before == ModelStates(x.id, s.held[x.id])
        after  == UNION {ReduceModel(x.id, m, x.event) : m \in before}
        held   == [s.held EXCEPT ![x.id] = Append(@, x.event)]
        impact == [id |-> x.id, to |-> Status(CHOOSE m \in after : TRUE)]
    IN  When(Extends(s.held, x, after),
             [held |-> held,
              impacts |-> IF s.held[x.id] = <<>> \/ x.event.op \notin AssumptionImpacts
                          THEN s.impacts ELSE Append(s.impacts, impact)])

ApplyModels(s, events) ==
    LET after[n \in 0..Len(events)] ==
            IF n = 0 THEN {s} ELSE UNION {ApplyModel(t, events[n]) : t \in after[n - 1]}
    IN  after[Len(events)]

ModelBefore(x, y) == \/ Position(ModelOrder, x.id) < Position(ModelOrder, y.id)
                     \/ x.id = y.id /\ Len(x.prev) < Len(y.prev)

CanonicalModels(explicit) == InOrder(explicit, {p \in explicit \X explicit : ModelBefore(p[1], p[2])})

\* An ADMIT is the event of an authorization made on the registry projected,
\* and its comparison is one of the graphs that authorization compared.
BoundAdmission(x, pairs, ms) ==
    x.event.op = "ADMIT" =>
        \E p \in pairs : /\ p.authorization.id = x.id /\ p.authorization.prev = x.prev
                         /\ x.event = ModelAdmitEvent(p.authorization)
                         /\ p.authorization.root = ms
                         /\ p.comparison.difference = p.authorization.receipt

ModelPlan(ms, explicit, pairs, clock) ==
    LET plan(s) == LET late == ModelExpiries(s.held, clock)
                   IN  {[pre |-> ms, explicit |-> explicit, post |-> t.held, impacts |-> t.impacts] :
                        t \in ApplyModels(s, late)}
    IN  IF /\ \A p, q \in pairs : p.authorization.id = q.authorization.id => p = q
           /\ Placed(explicit) /\ \A x \in explicit : x.event.clock = clock
           /\ \A x \in explicit : BoundAdmission(x, pairs, ms)
           /\ \A id \in Models : LegalModel(id, ms[id])
        THEN UNION {plan(s) : s \in ApplyModels([held |-> ms, impacts |-> <<>>], CanonicalModels(explicit))}
        ELSE {}
=============================================================================
