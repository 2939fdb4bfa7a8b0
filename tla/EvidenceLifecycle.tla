-------------------------- MODULE EvidenceLifecycle --------------------------
(***************************************************************************)
(* The lifecycle of one evidence unit (evidence.py) and who may move it    *)
(* and use it (evidence_governance.py).  Histories are digests, as in      *)
(* AssumptionLifecycle.                                                    *)
(***************************************************************************)
EXTENDS AssumptionLifecycle

CONSTANTS
    Grants,         \* the authority policy: records [op, by, scopes]
    CommittedAt,    \* the clock at which that policy took effect
    MaterialReason(_)   \* what the challenge policy says of a challenge's reason

Settled == {"REJECTED", "EXPIRED", "INVALIDATED", "SUPERSEDED"}
Standing == {"VERIFIED", "CHALLENGED"}

WellFormedEvidence(id, e) ==
    /\ e.clock >= 1 /\ e.arg.validFrom >= e.clock
    /\ e.arg.expires # None => e.arg.expires > e.arg.validFrom
    /\ id \notin e.arg.deps
    /\ e.arg.scopes # {}

Register(id, e) ==
    When(WellFormedEvidence(id, e),
         [id |-> id, status |-> "REGISTERED", declared |-> e.arg, issuedBy |-> e.by,
          verifiedBy |-> None, challenge |-> None, replacedBy |-> None,
          seq |-> 1, clock |-> e.clock])

\* _advance: the open challenge and the replacement are reset unless given.
Moved(u, e, status) ==
    [u EXCEPT !.status = status, !.challenge = None, !.replacedBy = None,
              !.seq = u.seq + 1, !.clock = e.clock]

Verify(u, e) ==
    When(u.status = "REGISTERED", [Moved(u, e, "VERIFIED") EXCEPT !.verifiedBy = e.by])

RejectEvidence(u, e) == When(u.status = "REGISTERED", Moved(u, e, "REJECTED"))

ChallengeEvidence(u, e) ==
    When(u.status = "VERIFIED",
         [Moved(u, e, "CHALLENGED") EXCEPT !.challenge = e.arg.challenge])

ResolveEvidenceChallenge(u, e) ==
    When(u.status = "CHALLENGED" /\ e.arg.outcome \in {"UPHOLD", "INVALIDATE"},
         Moved(u, e, IF e.arg.outcome = "UPHOLD" THEN "VERIFIED" ELSE "INVALIDATED"))

ExpireEvidence(u, e) ==
    When(/\ u.status \in Standing
         /\ u.declared.expires # None
         /\ u.declared.expires # None => e.clock >= u.declared.expires,
         Moved(u, e, "EXPIRED"))

Invalidate(u, e) == When(u.status \in Standing, Moved(u, e, "INVALIDATED"))

SupersedeEvidence(u, e) ==
    When(u.status \in Standing /\ e.arg.replacement # u.id,
         [Moved(u, e, "SUPERSEDED") EXCEPT !.replacedBy = e.arg.replacement])

EvidenceOperation(u, e) ==
    CASE e.op = "VERIFY"            -> Verify(u, e)
      [] e.op = "REJECT"            -> RejectEvidence(u, e)
      [] e.op = "CHALLENGE"         -> ChallengeEvidence(u, e)
      [] e.op = "RESOLVE_CHALLENGE" -> ResolveEvidenceChallenge(u, e)
      [] e.op = "EXPIRE"            -> ExpireEvidence(u, e)
      [] e.op = "INVALIDATE"        -> Invalidate(u, e)
      [] e.op = "SUPERSEDE"         -> SupersedeEvidence(u, e)
      [] OTHER                      -> {}

ReduceEvidence(id, u, e) ==
    IF u = NoState THEN IF e.op = "REGISTER" THEN Register(id, e) ELSE {}
    ELSE IF u.status \in Settled \/ e.clock <= u.clock THEN {}
    ELSE EvidenceOperation(u, e)

EvidenceStates(id, history) ==
    LET states[n \in 0..Len(history)] ==
            IF n = 0 THEN {NoState}
            ELSE UNION {ReduceEvidence(id, u, history[n]) : u \in states[n - 1]}
    IN  states[Len(history)]

LegalEvidence(id, history) == EvidenceStates(id, history) # {}
EvidenceAt(id, history)    == CHOOSE u \in EvidenceStates(id, history) : TRUE

(***************************************************************************)
(* Authority: EvidenceAuthorityPolicy.permits and                          *)
(* EvidenceAuthorityResolver.evaluate.  A grant without scopes is global.  *)
(***************************************************************************)
Permits(op, by, scopes) ==
    \E g \in Grants : /\ g.op = op /\ g.by = by
                      /\ g.scopes = {} \/ scopes \subseteq g.scopes

Authorized(u, e) ==
    /\ e.op # "REGISTER" => u # NoState
    /\ e.clock >= CommittedAt
    /\ Permits(e.op, e.by, IF e.op = "REGISTER" THEN e.arg.scopes ELSE u.declared.scopes)

\* The authority history is replayed under the policy of today.
AuthorizedHistory(id, history) ==
    \A n \in 1..Len(history) :
        Authorized(EvidenceAt(id, SubSeq(history, 1, n - 1)), history[n])

(***************************************************************************)
(* The gate an evidence dependency passes at the admission of an           *)
(* assumption (evaluate_evidence_admission_eligibility).                   *)
(***************************************************************************)
EligibilityCode(id, history, clock) ==
    IF history = <<>> THEN "EVIDENCE_MISSING"
    ELSE IF ~LegalEvidence(id, history) THEN "EVIDENCE_HISTORY_INVALID"
    ELSE LET u == EvidenceAt(id, history)
         IN  IF u.status = "REGISTERED" THEN "EVIDENCE_NOT_VERIFIED"
             ELSE IF u.status = "CHALLENGED" THEN "EVIDENCE_CHALLENGED"
             ELSE IF u.status = "EXPIRED" THEN "EVIDENCE_EXPIRED"
             ELSE IF u.status # "VERIFIED" THEN "EVIDENCE_TERMINAL"
             ELSE IF clock < u.declared.validFrom THEN "EVIDENCE_NOT_YET_VALID"
             ELSE IF u.declared.expires # None /\ (u.declared.expires # None => clock >= u.declared.expires)
                  THEN "EVIDENCE_EXPIRED"
             ELSE "ELIGIBLE"

(***************************************************************************)
(* EvidenceAdmissibilityEvaluator: a use request [evidence, proposition,   *)
(* scopes, reuse, clock, accepted] against heads.  The traversal fails     *)
(* fast, so its verdict is the node's own admissibility and that of every  *)
(* dependency, with no evidence unit visited below itself.                 *)
(***************************************************************************)
ActiveReason(history) ==
    LET asked == {n \in 1..Len(history) : history[n].op = "CHALLENGE"}
    IN  history[CHOOSE n \in asked : \A m \in asked : m <= n].arg.reason

UsableNode(id, history, req) ==
    /\ history # <<>>
    /\ LegalEvidence(id, history) /\ AuthorizedHistory(id, history)
    /\ LET u == EvidenceAt(id, history)
       IN  /\ id = req.evidence => u.declared.proposition = req.proposition
           /\ req.scopes \subseteq u.declared.scopes
           /\ req.clock >= u.declared.validFrom
           /\ u.declared.expires # None => req.clock < u.declared.expires
           /\ req.reuse <= u.declared.reuse
           /\ u.declared.limitations \subseteq req.accepted
           /\ \/ u.status = "VERIFIED"
              \/ u.status = "CHALLENGED" /\ ~MaterialReason(ActiveReason(history))

\* _evaluate_node: visiting is the path from the root of the request.
UsableFrom(hs, req, visiting) ==
    LET use[p \in [id : DOMAIN hs, visiting : SUBSET DOMAIN hs]] ==
            /\ p.id \notin p.visiting
            /\ UsableNode(p.id, hs[p.id], req)
            /\ \A d \in EvidenceAt(p.id, hs[p.id]).declared.deps :
                   use[[id |-> d, visiting |-> p.visiting \cup {p.id}]]
    IN  use[[id |-> req.evidence, visiting |-> visiting]]

Admissible(hs, req) == UsableFrom(hs, req, {})
=============================================================================
