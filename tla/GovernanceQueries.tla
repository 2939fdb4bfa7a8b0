-------------------------- MODULE GovernanceQueries -------------------------
(***************************************************************************)
(* What a caller asks of the registries: may this candidate be admitted,   *)
(* may a decision use these assumptions or this alternative model now, and *)
(* what does the next clock do to each registry?  The answers are records  *)
(* that check themselves when they are built, so a record its producer     *)
(* gets wrong is an exception and not a verdict.                           *)
(***************************************************************************)
EXTENDS ModelGovernance

CONSTANTS Registries,   \* what the registries may hold: records [entities, models]
          Clocks,       \* the logical clocks of a request
          Required,     \* the sets of assumptions a decision may rest on
          Projected,    \* the clocks of a projection
          Intents,      \* the events an intent resolver may ask for
          ModelIntents, \* those it may ask for of alternative models
          Graphs,       \* the graphs that can be compared
          Uses          \* the uses of a model: records [clock, scope, reuse]

-----------------------------------------------------------------------------
\* What the records of the repository carry in these fields.
History(h)       == h \in Seq(Range(h)) /\ \A e \in Range(h) : e.clock \in Int
Dated(d)         == d.expires # None => d.expires \in Int
Declares(d)      == /\ Dated(d) /\ d.validFrom \in Int
                    /\ d.deps \subseteq Assumptions /\ d.evidence \subseteq EvidenceIds
DeclaresModel(d) == Dated(d) /\ d.reuse \in Int

ASSUME RegistriesAssumption ==
    \A r \in Registries :
        /\ r.entities = [x \in Ids |-> r.entities[x]] /\ r.models = [x \in Models |-> r.models[x]]
        /\ \A x \in Ids : History(r.entities[x])
        /\ \A x \in Assumptions : \A e \in Range(r.entities[x]) : e.op = "PROPOSE" => Declares(e.arg)
        /\ \A x \in Models :
              History(r.models[x]) /\ \A e \in Range(r.models[x]) : e.op = "PROPOSE" => DeclaresModel(e.arg)

ASSUME RequestsAssumption ==
    /\ Clocks \subseteq Int /\ Projected \subseteq Int /\ Required \subseteq SUBSET Assumptions
    /\ \A e \in Intents : e.clock \in Int /\ (e.op = "PROPOSE" => Declares(e.arg))
    /\ \A e \in ModelIntents : e.clock \in Int /\ (e.op = "PROPOSE" => DeclaresModel(e.arg))
    /\ \A u \in Uses : u.clock \in Int /\ u.reuse \in Int

\* Ticks are committed in order: nothing is of a later clock than a projection.
ASSUME TicksAssumption ==
    \A r \in Registries, clock \in Projected :
        /\ \A x \in Ids : \A e \in Range(r.entities[x]) : e.clock <= clock
        /\ \A x \in Models : \A e \in Range(r.models[x]) : e.clock <= clock

VARIABLES hs,      \* the histories of assumptions and evidence when asked
          models,  \* those of alternative models
          answer   \* the last answer: a receipt, a decision or plans

vars == <<hs, models, answer>>

Init ==
    /\ \E r \in Registries : hs = r.entities /\ models = r.models
    /\ answer = None

Validate(id, clock) ==
    /\ Proposed(hs, id, clock)
    /\ answer' = [to |-> "admission", id |-> id, clock |-> clock,
                  receipt |-> Receipt(hs, id, AssumptionAt(id, hs[id]).declared, clock)]
    /\ UNCHANGED <<hs, models>>

EvaluateUse(required, clock) ==
    /\ \E decision \in UseDecision(hs, [required |-> required, clock |-> clock,
                         assumptions |-> AssumptionRoot(hs), evidence |-> EvidenceRoot(hs)]) :
          answer' = [to |-> "use", clock |-> clock, decision |-> decision]
    /\ UNCHANGED <<hs, models>>

\* At most one explicit event of a registry at a clock.
Explicit(ids, clock) ==
    {{}} \cup {{[id |-> id, prev |-> hs[id], event |-> e]} :
                id \in ids, e \in {e \in Intents : e.clock = clock}}

\* The admissions a caller holds an authorization for: made on the registries
\* as they are, or on the evidence that the same attempt projects.
Admissions(evidence, clock) ==
    UNION {Authorization(r, id, ExpiryAuthority, clock) : r \in {hs, evidence.post}, id \in Assumptions}

Project(clock, asked, intents) ==
    \E evidence \in EvidencePlan(hs, asked, clock) :
    \E auths \in {{}} \cup {{p} : p \in Admissions(evidence, clock)} :
        LET explicit == intents \cup {[id |-> p.id, prev |-> p.prev, event |-> AdmitEvent(p)] : p \in auths}
        IN  /\ answer' = [to |-> "projection", clock |-> clock, explicit |-> explicit,
                          evidence |-> evidence,
                          plans |-> AssumptionPlan(hs, explicit, auths, EvidenceRoot(evidence.post), clock)]
            /\ UNCHANGED <<hs, models>>

UseModel(id, use) ==
    /\ models[id] # <<>> /\ LegalModel(id, models[id])
    /\ answer' = [to |-> "model_use", id |-> id, use |-> use,
                  code |-> ModelUseCode(ModelAt(id, models[id]), use.clock, use.scope, use.reuse)]
    /\ UNCHANGED <<hs, models>>

\* Receipts of the difference the candidate declares, its graph's or another's.
Receipts(id) ==
    UNION {DifferenceReceipt(primary, shadow, m.declared.difference) :
           primary \in Graphs, shadow \in Graphs, m \in ModelStates(id, models[id]) \ {NoState}}

\* The registry when the call is repeated: as it was left, or one event later.
Later(held, clock) ==
    {held} \cup {[held EXCEPT ![id] = Append(@, e)] : id \in Models, e \in {e \in ModelIntents : e.clock > clock}}

\* A governed admission, and the same call again with its authorization.
AdmitTwice(id, receipt, clock) ==
    \E done \in GovernedModelAdmit(models, id, ExpiryAuthority, clock, receipt, {}) :
    \E held \in Later(done.held, clock) :
        /\ answer' = [to |-> "model_admission", id |-> id, left |-> done.held, held |-> held,
                      again |-> GovernedModelAdmit(held, id, ExpiryAuthority, clock, receipt, {done.authorization})]
        /\ UNCHANGED <<hs, models>>

\* Comparisons made under one context, of the graphs of a receipt; the
\* executor answers for some graph.
Comparisons(receipt) ==
    UNION {Comparison(receipt, "context", [graph |-> receipt.primary, context |-> "context", outcome |-> 0],
                      [graph |-> shadow, context |-> "context", outcome |-> outcome]) :
           shadow \in Graphs, outcome \in {0, 1}}

\* Governed evidence for the admission of a model: authorized on the registry
\* as it is or as it was before another model moved.
ModelEvidence(clock) ==
    UNION {{[authorization |-> a, comparison |-> c] :
                a \in UNION {ModelAuthorization(was, id, ExpiryAuthority, clock, receipt) :
                             was \in {models} \cup {[models EXCEPT ![x] = Front(@)] :
                                                       x \in {x \in Models \ {id} : models[x] # <<>>}}},
                c \in UNION {Comparisons(compared) : compared \in Receipts(id)}} :
           id \in Models, receipt \in UNION {Receipts(id) : id \in Models}}

ProjectModels(clock, pairs, asked) ==
    LET explicit == {[id |-> p.authorization.id, prev |-> p.authorization.prev,
                      event |-> ModelAdmitEvent(p.authorization)] : p \in pairs}
                    \cup {[id |-> x.id, prev |-> models[x.id], event |-> x.event] : x \in asked}
    IN  /\ answer' = [to |-> "model_projection", clock |-> clock, explicit |-> explicit, pairs |-> pairs,
                      plans |-> ModelPlan(models, explicit, pairs, clock)]
        /\ UNCHANGED <<hs, models>>

\* At most one event that is not an admission.
AskedOfModels(clock) ==
    {{}} \cup {{[id |-> id, event |-> e]} : id \in Models, e \in {e \in ModelIntents : e.clock = clock}}

\* A caller asks one question of what the registries hold.
Next ==
    /\ answer = None
    /\ \/ \E id \in Assumptions, clock \in Clocks : Validate(id, clock)
       \/ \E required \in Required, clock \in Clocks : EvaluateUse(required, clock)
       \/ \E clock \in Projected :
          \E asked \in Explicit(EvidenceIds, clock), intents \in Explicit(Assumptions, clock) :
              Project(clock, asked, intents)
       \/ \E id \in Models, use \in Uses : UseModel(id, use)
       \/ \E id \in Models, clock \in Clocks : \E receipt \in Receipts(id) : AdmitTwice(id, receipt, clock)
       \/ \E clock \in Projected :
          \E pairs \in {{}} \cup {{p} : p \in ModelEvidence(clock)}, asked \in AskedOfModels(clock) :
              ProjectModels(clock, pairs, asked)

Spec == Init /\ [][Next]_vars

-----------------------------------------------------------------------------
(* What the dependencies of the registries are, by the histories alone.    *)

Declared == [x \in Assumptions |->
    IF hs[x] # <<>> /\ LegalAssumption(x, hs[x]) THEN AssumptionAt(x, hs[x]).declared.deps ELSE {}]

Asked(to)  == answer # None /\ (answer # None => answer.to = to)
Closure(id) == Reached(Declared[id], Declared)
Acyclic(id) == \A x \in Closure(id) \cup {id} : ~OnCycle(x, Declared)

\* The edges of a closed witness are dependencies, and its first identity is
\* the smallest.
RealCycle(c) ==
    /\ Len(c) > 1 /\ c[1] = c[Len(c)]
    /\ \A n \in 1..(Len(c) - 1) : c[n + 1] \in Declared[c[n]]
    /\ \A n \in 1..Len(c) : Position(IdOrder, c[1]) <= Position(IdOrder, c[n])

(* A candidate passes exactly when every assumption it depends on,         *)
(* directly or not, was proposed and has a legal history, nothing it       *)
(* reaches lies on a cycle, and every evidence unit it names is eligible   *)
(* at that clock: a walk that stops early, skips a shared dependency or    *)
(* misses a cycle through the candidate breaks it.  A cycle it reports is  *)
(* one: closed, along declared dependencies, smallest identity first.      *)
ReceiptSound ==
    Asked("admission") =>
        LET id == answer.id
        IN  /\ answer.receipt.passed <=>
                    /\ \A x \in Closure(id) : hs[x] # <<>> /\ LegalAssumption(x, hs[x])
                    /\ Acyclic(id)
                    /\ \A e \in AssumptionAt(id, hs[id]).declared.evidence :
                           EligibilityCode(e, hs[e], answer.clock) = "ELIGIBLE"
            /\ answer.receipt.code = "CYCLE" => RealCycle(answer.receipt.cycle)

(* At use, an assumption is allowed exactly when it and all it depends on  *)
(* are in force, unchallenged and within their validity at the clock of    *)
(* the decision, none is on a cycle, and all their evidence may be used    *)
(* for the proposition, scopes and limitations of the assumption that      *)
(* declares it; the decision is admissible when all it requires are, and a *)
(* cycle it reports is one.                                                *)
InForceAt(x, clock) ==
    /\ hs[x] # <<>> /\ LegalAssumption(x, hs[x])
    /\ LET a == AssumptionAt(x, hs[x])
       IN  /\ Status(a) \in ActiveStandings
           /\ a.declared.validFrom <= clock
           /\ a.declared.expires # None => clock < a.declared.expires
           /\ \A e \in a.declared.evidence :
                  Admissible([v \in EvidenceIds |-> hs[v]], UseRequest(hs, x, e, clock))

UseSound ==
    Asked("use") =>
        LET usable == {id \in answer.decision.binding.required :
                          /\ \A x \in Closure(id) \cup {id} : InForceAt(x, answer.clock)
                          /\ Acyclic(id)}
        IN  /\ {ev.id : ev \in {ev \in answer.decision.evaluations : ev.code = "ALLOWED"}} = usable
            /\ answer.decision.admissible <=> usable = answer.decision.binding.required
            /\ \A ev \in answer.decision.evaluations : ev.code = "CYCLE" => RealCycle(ev.cycle)

(* Every record accepts what its producer computed: the replay of a        *)
(* receipt in __post_init__ ends as the walk ended and consumes every      *)
(* record, an authorization accepts that receipt and the roots it was made *)
(* on, and the edges the replay of an evaluation proves are the calls its  *)
(* walk made: the work a decision claims is the work done                  *)
(* (_replay_dfs_closure, _validate_work_counters).  The authorization of a *)
(* model's admission is accepted again, without a second event, exactly    *)
(* while the registry is what the admission left (_handle_retry).          *)
RecordsReplay ==
    /\ Asked("admission") =>
          /\ ValidReceipt(answer.receipt)
          /\ \A p \in Authorization(hs, answer.id, ExpiryAuthority, answer.clock) : ValidAuthorization(p)
    /\ Asked("use") =>
          /\ \A ev \in answer.decision.evaluations : ValidEvaluation(hs, ev)
          /\ answer.decision.work.edges = SumFunction([ev \in answer.decision.evaluations |-> ev.calls])
    /\ Asked("model_admission") =>
          /\ answer.again # {} <=> answer.held = answer.left
          /\ \A r \in answer.again : ~r.applied /\ r.held = answer.left

(* A model is used exactly when somebody confirmed it since it was         *)
(* admitted, every challenge ever opened against it was resolved           *)
(* afterwards, nothing rejected, superseded or expired it, and the use is  *)
(* within its expiry, scope and reuse class.  No number of upheld          *)
(* challenges makes an unverified model usable                             *)
(* (evaluate_alternative_model_use_authority, _resolve_challenges).        *)
ModelUseConfirmed ==
    Asked("model_use") =>
        LET h        == models[answer.id]
            declared == h[1].arg
            at(op)   == {n \in 1..Len(h) : h[n].op = op}
        IN  answer.code = "ALLOWED" <=>
                /\ at("CONFIRM") # {}
                /\ \A n \in at("CHALLENGE") :
                       \E m \in at("RESOLVE_CHALLENGES") : m > n /\ h[n].arg.challenge \in h[m].arg.resolved
                /\ \A n \in at("RESOLVE_CHALLENGES") : h[n].arg.outcome = "UPHOLD"
                /\ at("REJECT") \cup at("EXPIRE") \cup at("SUPERSEDE") = {}
                /\ answer.use.scope \in declared.scopes /\ answer.use.reuse <= declared.reuse
                /\ declared.expires # None => answer.use.clock < declared.expires

(* A planned admission rests on evidence that is still eligible once the   *)
(* attempt's own evidence events are applied: an authorization made on the *)
(* registry of before is refused when the same attempt invalidates a unit  *)
(* it relied on (_verify_governed_evidence_shape).  A planned admission of *)
(* a model rests on two replays of one context, one of them of the graph   *)
(* the model holds when it is admitted and the other of a graph that       *)
(* differs from it just as its proposal declared.                          *)
AdmitsOnProjectedEvidence ==
    /\ Asked("model_projection") =>
        \A p \in answer.plans : \A x \in {x \in p.explicit : x.event.op = "ADMIT"} :
            \E e \in answer.pairs :
                LET declared == p.pre[x.id][1].arg
                IN  /\ e.comparison.shadow.graph = declared.graph
                    /\ e.comparison.primary.graph # declared.graph
                    /\ e.comparison.primary.context = e.comparison.shadow.context
                    /\ Difference(e.comparison.primary.graph, declared.graph) = declared.difference
    /\ Asked("projection") =>
        \A p \in answer.plans : \A n \in 1..Len(p.events) :
            Governed(p.events[n].event) =>
                \A e \in AssumptionAt(p.events[n].id, p.events[n].prev).declared.evidence :
                    EligibilityCode(e, answer.evidence.post[e], answer.clock) = "ELIGIBLE"

(* An explicit event that is legal never makes a projection fail, and when *)
(* the projection is done nothing is left standing past its expiry, what   *)
(* the authority declines and what changed at this very clock apart:       *)
(* expiries planned on the registry of before would collide with the       *)
(* explicit event on the same assumption or model.                         *)
ExpiryComplete ==
    /\ Asked("model_projection") =>
        /\ answer.pairs = {} /\ (\A x \in answer.explicit : LegalModel(x.id, Append(x.prev, x.event)) /\ x.event.op # "ADMIT")
              /\ (\A id \in Models : LegalModel(id, models[id]))
              => answer.plans # {}
        /\ \A p \in answer.plans : \A id \in Models \ Declined : \A m \in ModelStates(id, p.post[id]) \ {NoState} :
              \/ m.standing \notin ChallengeableStandings \/ m.clock = answer.clock
              \/ m.declared.expires = None
              \/ m.declared.expires # None => m.declared.expires > answer.clock
    /\ Asked("projection") =>
        /\ (\E x \in answer.explicit : ~Governed(x.event)) \/ answer.explicit = {} =>
              (/\ \A x \in answer.explicit : LegalAssumption(x.id, Append(x.prev, x.event)) /\ x.event.op # "ADMIT"
               /\ \A id \in Assumptions : LegalAssumption(id, hs[id])
               => answer.plans # {})
        /\ \A p \in answer.plans : \A id \in Assumptions \ Declined :
              p.post[id] # <<>> =>
                  LET s == AssumptionAt(id, p.post[id])
                  IN  \/ s.standing \notin ActiveStandings \/ s.clock = answer.clock
                      \/ s.declared.expires = None
                      \/ s.declared.expires # None => s.declared.expires > answer.clock

(* The impact of an event names everything that reaches its entity through *)
(* declared dependencies, in the registry the event leaves, and nothing    *)
(* else: a consumer reassesses just these (_dependent_ids).                *)
ImpactsExact ==
    Asked("projection") =>
        \A p \in answer.plans : \A n \in 1..Len(p.impacts) :
            LET held == p.impacts[n].root
                deps == [x \in Assumptions |-> IF held[x] = <<>> THEN {} ELSE AssumptionAt(x, held[x]).declared.deps]
            IN  p.impacts[n].affected =
                    {x \in Assumptions \ {p.impacts[n].id} : p.impacts[n].id \in Reached(deps[x], deps)}
=============================================================================
