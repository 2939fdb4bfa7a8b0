-------------------------- MODULE AlternativeModel ---------------------------
(***************************************************************************)
(* The lifecycle of one alternative model (alternative_model.py): a shadow *)
(* graph proposed against a primary one.  An admitted model is UNVERIFIED, *)
(* and only a confirmation makes it usable.                                *)
(*                                                                         *)
(* Events, histories and partial operations are those of                   *)
(* AssumptionLifecycle; the two registries keep the same fields of a       *)
(* challenge and advance a state the same way.                             *)
(***************************************************************************)
EXTENDS AssumptionLifecycle

ChallengeableStandings == {"UNVERIFIED", "ADMITTED", "CONFIRMED"}
StandingModels         == {"PROPOSED"} \cup ChallengeableStandings

\* Nothing ties the first clock of validity to the clock of the proposal.
ProposeModel(id, e) ==
    When(/\ e.arg.validFrom >= 1
         /\ e.arg.expires # None => e.arg.expires > e.arg.validFrom
         /\ e.arg.scopes # {} /\ e.arg.materiality \in Materialities,
         [id |-> id, standing |-> "PROPOSED", declared |-> e.arg,
          proposedBy |-> e.by, admittedBy |-> None, confirmedBy |-> None,
          challenges |-> {}, replacedBy |-> None, seq |-> 1, clock |-> e.clock])

AdmitModel(m, e) ==
    When(m.standing = "PROPOSED",
         [Advance(m, e) EXCEPT !.standing = "UNVERIFIED", !.admittedBy = e.by])

ConfirmModel(m, e) ==
    When(m.standing \in ChallengeableStandings /\ m.challenges = {},
         [Advance(m, e) EXCEPT !.standing = "CONFIRMED", !.confirmedBy = e.by])

ChallengeModel(m, e) ==
    When(m.standing \in ChallengeableStandings /\ e.arg.challenge \notin ActiveIds(m),
         [Advance(m, e) EXCEPT !.challenges = @ \cup
             {[challenge |-> e.arg.challenge, reason |-> e.arg.reason,
               by |-> e.by, openedAt |-> e.clock]}])

\* Mutant: a model all of whose challenges are upheld becomes ADMITTED.
ResolveToAdmitted(m, e) ==
    When(/\ m.standing \in ChallengeableStandings
         /\ e.arg.resolved # {} /\ e.arg.resolved \subseteq ActiveIds(m)
         /\ e.arg.replacement = None,
         IF e.arg.outcome = "INVALIDATE"
         THEN [Advance(m, e) EXCEPT !.standing = "REJECTED", !.challenges = {}]
         ELSE [Advance(m, e) EXCEPT !.standing = IF e.arg.resolved = ActiveIds(m) THEN "ADMITTED" ELSE @,
                                    !.challenges = {c \in @ : c.challenge \notin e.arg.resolved}])

\* An upheld model keeps the standing it was challenged in, and the challenges
\* that were not resolved; an invalidated one is rejected.
ResolveModelChallenges(m, e) ==
    When(/\ m.standing \in ChallengeableStandings
         /\ e.arg.outcome \in {"UPHOLD", "INVALIDATE"}
         /\ e.arg.resolved # {} /\ e.arg.resolved \subseteq ActiveIds(m)
         /\ e.arg.replacement = None,
         IF e.arg.outcome = "INVALIDATE"
         THEN [Advance(m, e) EXCEPT !.standing = "REJECTED", !.challenges = {}]
         ELSE [Advance(m, e) EXCEPT !.challenges = {c \in @ : c.challenge \notin e.arg.resolved}])

RejectModel(m, e) ==
    When(m.standing \in StandingModels,
         [Advance(m, e) EXCEPT !.standing = "REJECTED", !.challenges = {}])

ExpireModel(m, e) ==
    When(/\ m.standing \in ChallengeableStandings
         /\ m.declared.expires # None
         /\ m.declared.expires # None => e.clock >= m.declared.expires,
         [Advance(m, e) EXCEPT !.standing = "EXPIRED", !.challenges = {}])

SupersedeModel(m, e) ==
    When(m.standing \in StandingModels /\ e.arg.replacement # m.id,
         [Advance(m, e) EXCEPT !.standing = "SUPERSEDED", !.challenges = {},
                               !.replacedBy = e.arg.replacement])

ModelOperation(m, e) ==
    CASE e.op = "ADMIT"              -> AdmitModel(m, e)
      [] e.op = "CONFIRM"            -> ConfirmModel(m, e)
      [] e.op = "CHALLENGE"          -> ChallengeModel(m, e)
      [] e.op = "RESOLVE_CHALLENGES" -> ResolveModelChallenges(m, e)
      [] e.op = "REJECT"             -> RejectModel(m, e)
      [] e.op = "EXPIRE"             -> ExpireModel(m, e)
      [] e.op = "SUPERSEDE"          -> SupersedeModel(m, e)
      [] OTHER                       -> {}

ReduceModel(id, m, e) ==
    IF m = NoState THEN IF e.op = "PROPOSE" THEN ProposeModel(id, e) ELSE {}
    ELSE IF m.standing \in TerminalStandings \/ e.clock <= m.clock THEN {}
    ELSE ModelOperation(m, e)

ModelStates(id, history) ==
    LET states[n \in 0..Len(history)] ==
            IF n = 0 THEN {NoState}
            ELSE UNION {ReduceModel(id, m, history[n]) : m \in states[n - 1]}
    IN  states[Len(history)]

LegalModel(id, history) == ModelStates(id, history) # {}
ModelAt(id, history)    == CHOOSE m \in ModelStates(id, history) : TRUE

-----------------------------------------------------------------------------
(* May a decision reuse the model?                                         *)

ModelUseCode(m, clock, scope, reuse) ==
    IF Status(m) = "UNVERIFIED" THEN "UNVERIFIED"
    ELSE IF m.standing \in TerminalStandings THEN "TERMINAL"
    ELSE IF Status(m) \notin ActiveStandings THEN "NOT_ADMISSIBLE"
    ELSE IF m.declared.expires # None /\ (m.declared.expires # None => clock >= m.declared.expires)
         THEN "EXPIRED"
    ELSE IF scope \notin m.declared.scopes THEN "SCOPE"
    ELSE IF reuse > m.declared.reuse THEN "REUSE_CLASS"
    ELSE "ALLOWED"
=============================================================================
