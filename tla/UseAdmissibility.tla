-------------------------- MODULE UseAdmissibility ---------------------------
(***************************************************************************)
(* May a decision use these assumptions now?  The evaluation of            *)
(* _assumption_use_admissibility.py against the registries, and the checks *)
(* its decision record makes on itself.                                    *)
(*                                                                         *)
(* A binding is [required, assumptions, evidence, clock]: the assumptions  *)
(* needed, the two registry roots and the logical clock.                   *)
(***************************************************************************)
EXTENDS AdmissionGate

UseCodes == {"PRESENT", "MISSING", "HISTORY_INVALID", "TERMINAL", "NOT_ADMITTED",
             "CHALLENGED", "NOT_YET_VALID", "EXPIRED"}

\* Mutant: a challenged assumption is still used.
GateUnchallenged(hs, id, clock) ==
    IF hs[id] = <<>> THEN "MISSING"
    ELSE IF ~LegalAssumption(id, hs[id]) THEN "HISTORY_INVALID"
    ELSE LET a == AssumptionAt(id, hs[id])
         IN  IF a.standing \notin ActiveStandings THEN "NOT_ADMITTED"
             ELSE IF a.declared.expires # None /\ (a.declared.expires # None => clock >= a.declared.expires)
                  THEN "EXPIRED" ELSE "PRESENT"

\* The cascade of gates of one node.
UseGate(hs, id, clock) ==
    IF hs[id] = <<>> THEN "MISSING"
    ELSE IF ~LegalAssumption(id, hs[id]) THEN "HISTORY_INVALID"
    ELSE LET a == AssumptionAt(id, hs[id])
         IN  IF a.standing \in TerminalStandings THEN "TERMINAL"
             ELSE IF a.standing \notin ActiveStandings THEN "NOT_ADMITTED"
             ELSE IF a.challenges # {} THEN "CHALLENGED"
             ELSE IF clock < a.declared.validFrom THEN "NOT_YET_VALID"
             ELSE IF a.declared.expires # None /\ (a.declared.expires # None => clock >= a.declared.expires)
                  THEN "EXPIRED"
             ELSE "PRESENT"

\* What a node's record retains of its dependencies, failed gate or not.
Retained(hs, id) == DependenciesOf(hs, id)

UseRequest(hs, owner, ev, clock) ==
    LET d == AssumptionAt(owner, hs[owner]).declared
    IN  [evidence |-> ev, proposition |-> d.proposition, scopes |-> d.scopes,
         reuse |-> d.reuse, clock |-> clock, accepted |-> d.limitations]

\* The evidence that nodes declare, in their order: a function of places.
EvidencePairs(hs, nodes) ==
    LET named == UNION {{[place |-> n, owner |-> nodes[n], id |-> e] :
                             e \in AssumptionAt(nodes[n], hs[nodes[n]]).declared.evidence} : n \in DOMAIN nodes}
    IN  InOrder(named, {p \in named \X named :
                            \/ p[1].place < p[2].place
                            \/ p[1].place = p[2].place /\ <<p[1].id, p[2].id>> \in EarlierId})

\* The assumption itself first, then those of the records at some places.
NodesAt(id, trail, places) == [n \in {0} \cup places |-> IF n = 0 THEN id ELSE trail[n].id]

\* The evaluations made of them: up to the first refusal.
EvidenceEvaluated(hs, pairs, clock) ==
    LET ok(n)   == Admissible([e \in EvidenceIds |-> hs[e]], UseRequest(hs, pairs[n].owner, pairs[n].id, clock))
        refused == {n \in 1..Len(pairs) : ~ok(n)}
        last    == IF refused = {} THEN Len(pairs) ELSE CHOOSE n \in refused : \A m \in refused : n <= m
    IN  [n \in 1..last |-> [owner |-> pairs[n].owner, id |-> pairs[n].id, allowed |-> n \notin refused]]

-----------------------------------------------------------------------------
(* _evaluate_one_assumption.                                               *)

\* The record of an assumption that passed its own gate, of the walk w and
\* the evidence evaluations evals.
WalkEvaluation(hs, id, w, evals) ==
    [id |-> id, self |-> "PRESENT", deps |-> Retained(hs, id),
     trail |-> w.trail, cycle |-> w.cycle, calls |-> w.calls, evals |-> evals,
     code  |-> IF w.code # "PRESENT" THEN w.code
               ELSE IF \E n \in 1..Len(evals) : ~evals[n].allowed THEN "EVIDENCE_DENIED" ELSE "ALLOWED"]

GateEvaluation(hs, id, code) ==
    [id |-> id, self |-> code, deps |-> Retained(hs, id), trail |-> <<>>, cycle |-> <<>>,
     calls |-> 0, evals |-> <<>>, code |-> code]

Evaluation(hs, id, clock) ==
    LET self == UseGate(hs, id, clock)
        w    == Walk(id, Retained(hs, id), [x \in Assumptions |-> UseGate(hs, x, clock)],
                     [x \in Assumptions |-> Retained(hs, x)], UseCodes)
    IN  IF self # "PRESENT" THEN GateEvaluation(hs, id, self)
        ELSE WalkEvaluation(hs, id, w,
                 IF w.code = "PRESENT"
                 THEN EvidenceEvaluated(hs, EvidencePairs(hs, NodesAt(id, w.trail, 1..Len(w.trail))), clock) ELSE <<>>)

\* AssumptionUseEvaluation.__post_init__ and _validate_evidence_closure, on
\* the record alone; expected are the pairs its own nodes declare.
ValidEvaluation(hs, ev) ==
    LET completed == ev.code \in {"ALLOWED", "EVIDENCE_DENIED"}
        present   == {n \in 1..Len(ev.trail) : ev.trail[n].code = "PRESENT"}
        expected  == EvidencePairs(hs, NodesAt(ev.id, ev.trail, present))
    IN  IF ev.self # "PRESENT"
        THEN ev.trail = <<>> /\ ev.cycle = <<>> /\ ev.code = ev.self /\ ev.evals = <<>>
        ELSE /\ ReplayAgrees(ev.id, ev.deps, ev.trail, ev.cycle,
                             IF completed THEN "PRESENT" ELSE ev.code, UseCodes)
             /\ IsInjective([n \in 1..Len(ev.trail) |-> ev.trail[n].id])
             /\ completed =>
                  /\ Len(ev.evals) <= Len(expected)
                  /\ \A n \in 1..Len(ev.evals) : /\ ev.evals[n].owner = expected[n].owner
                                                 /\ ev.evals[n].id = expected[n].id
                                                 /\ n < Len(ev.evals) => ev.evals[n].allowed
             /\ ev.code = "ALLOWED" => /\ Len(ev.evals) = Len(expected)
                                       /\ \A n \in 1..Len(ev.evals) : ev.evals[n].allowed
             /\ ev.code = "EVIDENCE_DENIED" => /\ ev.evals # <<>>
                                               /\ ev.evals # <<>> => ~ev.evals[Len(ev.evals)].allowed
             /\ ~completed => ev.evals = <<>>

\* The edges the receipt itself proves were followed.
ReceiptEdges(ev) ==
    IF ev.self = "PRESENT" THEN Replay(ev.id, ev.deps, ev.trail, UseCodes).edges ELSE 0

-----------------------------------------------------------------------------
(* evaluate_assumption_use_admissibility.                                  *)

RootsMatch(hs, binding) ==
    binding.assumptions = AssumptionRoot(hs) /\ binding.evidence = EvidenceRoot(hs)

Nodes(evs) == UNION {{ev.id} \cup {ev.trail[n].id : n \in 1..Len(ev.trail)} : ev \in evs}

Work(hs, evs) ==
    [nodes  |-> Cardinality(Nodes(evs)),
     events |-> SumFunction([x \in Nodes(evs) |-> Len(hs[x])]),
     edges  |-> SumFunction([ev \in evs |-> ReceiptEdges(ev)]),
     refs   |-> SumFunction([ev \in evs |-> Len(ev.evals)])]

\* The decision, or none when the registries are not those of the binding.
UseDecision(hs, binding) ==
    LET decision(evs) == [binding |-> binding, evaluations |-> evs, work |-> Work(hs, evs),
                          admissible |-> \A ev \in evs : ev.code = "ALLOWED"]
    IN  When(RootsMatch(hs, binding),
             decision({Evaluation(hs, id, binding.clock) : id \in binding.required}))
=============================================================================
