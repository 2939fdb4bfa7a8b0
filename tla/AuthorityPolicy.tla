--------------------------- MODULE AuthorityPolicy ---------------------------
(***************************************************************************)
(* What an assumption authority policy says: grants, separation-of-duty    *)
(* rules and exceptions (_assumption_governance_contracts.py), the overlap *)
(* rules of activation (_assumption_policy_activation_rules.py), the grant *)
(* selected for a request (assumption_policy_resolution.py) and the duty   *)
(* decision (_assumption_separation_duty_evaluator.py).                    *)
(*                                                                         *)
(* A policy is [id, grants, rules, exceptions], a request                  *)
(* [action, by, scope, level, challenge, at].  Canonical tuples are sets.  *)
(***************************************************************************)
EXTENDS AssumptionLifecycle, FiniteSets

GlobalScope == "scope:*"

ResolutionActions == {"RESOLVE_TO_ADMITTED", "RESOLVE_TO_CONFIRMED",
                      "RESOLVE_TO_REJECTED", "RESOLVE_TO_SUPERSEDED"}
AuthorityActions  == ResolutionActions \cup
    {"ADMIT", "CHALLENGE", "CONFIRM", "EXPIRE", "PROPOSE", "REJECT", "SUPERSEDE"}

RoleOf == [PROPOSE |-> "PROPOSER", ADMIT |-> "ADMITTER", CONFIRM |-> "CONFIRMER",
           CHALLENGE |-> "CHALLENGER", RESOLVE_CHALLENGES |-> "RESOLVER",
           REJECT |-> "REJECTOR", EXPIRE |-> "EXPIRY_AUTHORITY",
           SUPERSEDE |-> "SUPERSEDER"]

-----------------------------------------------------------------------------
(* The contracts of the records. *)

ValidInterval(from, until) ==
    from \in Nat /\ (until # None => until \in Nat /\ until > from)

ValidScopes(S) == S # {} /\ (GlobalScope \in S => S = {GlobalScope})

ScopeWithin(S, T) == T = {GlobalScope} \/ (S # {GlobalScope} /\ S \subseteq T)

ValidGrant(g) ==
    /\ g.action \in AuthorityActions
    /\ ValidScopes(g.scopes)
    /\ g.levels # {} /\ g.levels \subseteq Materialities
    /\ g.challenges \subseteq Materialities
    /\ g.action \in ResolutionActions <=> g.challenges # {}
    /\ ValidInterval(g.from, g.until)

ValidRule(r) ==
    /\ r.action \in AuthorityActions
    /\ r.roles # {} /\ r.roles \subseteq {RoleOf[op] : op \in DOMAIN RoleOf}
    /\ ValidScopes(r.scopes)
    /\ r.levels # {} /\ r.levels \subseteq Materialities

ValidException(x) ==
    /\ x.action \in AuthorityActions
    /\ x.roles # {}
    /\ ValidScopes(x.scopes)
    /\ x.levels # {} /\ x.levels \subseteq Materialities
    /\ x.until # None /\ ValidInterval(x.from, x.until)

\* Mutant: the end of the grant is not compared.
CoveredAtStart(x, g) ==
    /\ g.action = x.action /\ g.by = x.by
    /\ ScopeWithin(x.scopes, g.scopes) /\ x.levels \subseteq g.levels /\ x.from >= g.from

\* The grant an exception stands on: it may not outlive or outreach it.
Covered(x, g) ==
    /\ g.action = x.action /\ g.by = x.by
    /\ ScopeWithin(x.scopes, g.scopes)
    /\ x.levels \subseteq g.levels
    /\ x.from >= g.from
    /\ g.until # None => x.until <= g.until

ExceptionsNarrow(p) ==
    \A x \in p.exceptions :
        /\ \E r \in p.rules : /\ r.id = x.rule /\ r.action = x.action
                              /\ x.roles \subseteq r.roles
                              /\ ScopeWithin(x.scopes, r.scopes)
                              /\ x.levels \subseteq r.levels
        /\ \E g \in p.grants : Covered(x, g)

Identified(S) == \A a, b \in S : a.id = b.id => a = b

ValidPolicy(p) ==
    /\ p.grants # {} /\ Identified(p.grants) /\ \A g \in p.grants : ValidGrant(g)
    /\ Identified(p.rules) /\ \A r \in p.rules : ValidRule(r)
    /\ Identified(p.exceptions) /\ \A x \in p.exceptions : ValidException(x)
    /\ ExceptionsNarrow(p)

-----------------------------------------------------------------------------
(* The overlap rules: the preparer refuses a policy with two grants, or    *)
(* two exceptions, that one request could meet.                            *)

IntervalsMeet(a, b) ==
    (b.until # None => a.from < b.until) /\ (a.until # None => b.from < a.until)

\* Mutant: a global scope meets nothing but itself.
ScopesMeetByName(S, T) == S \cap T # {}

ScopesMeet(S, T) == GlobalScope \in S \cup T \/ S \cap T # {}

GrantsOverlap(g, h) ==
    /\ g.by = h.by /\ g.action = h.action
    /\ IntervalsMeet(g, h)
    /\ ScopesMeet(g.scopes, h.scopes)
    /\ g.levels \cap h.levels # {}
    /\ g.action \in ResolutionActions => g.challenges \cap h.challenges # {}

ExceptionsOverlap(x, y) ==
    /\ x.rule = y.rule /\ x.action = y.action /\ x.by = y.by
    /\ IntervalsMeet(x, y)
    /\ ScopesMeet(x.scopes, y.scopes)
    /\ x.levels \cap y.levels # {}
    /\ x.roles \cap y.roles # {}
    /\ x.assumptions = {} \/ y.assumptions = {} \/ x.assumptions \cap y.assumptions # {}

NoOverlap(p) ==
    /\ \A g, h \in p.grants : g # h => ~GrantsOverlap(g, h)
    /\ \A x, y \in p.exceptions : x # y => ~ExceptionsOverlap(x, y)

-----------------------------------------------------------------------------
(* The grant selected for a request. *)

ValidRequest(q) ==
    /\ q.action \in AuthorityActions /\ q.level \in Materialities
    /\ q.scope # GlobalScope /\ q.at \in Nat
    /\ IF q.action \in ResolutionActions THEN q.challenge \in Materialities
                                         ELSE q.challenge = None

ScopeMatches(scope, S) == S = {GlobalScope} \/ scope \in S

InForce(r, at) == r.from <= at /\ (r.until # None => at < r.until)

Covers(g, q) ==
    /\ g.action = q.action /\ g.by = q.by
    /\ ScopeMatches(q.scope, g.scopes)
    /\ q.level \in g.levels
    /\ IF q.challenge # None THEN q.challenge \in g.challenges ELSE g.challenges = {}
    /\ InForce(g, q.at)

Applicable(p, q) == {g \in p.grants : Covers(g, q)}

\* select_applicable_grant_v3: anything but exactly one grant is a denial.
Selection(p, q) ==
    IF Applicable(p, q) = {} THEN "NO_APPLICABLE_GRANT"
    ELSE IF \E g, h \in Applicable(p, q) : g # h THEN "AMBIGUOUS_GRANTS"
    ELSE "SELECTED"

-----------------------------------------------------------------------------
(* Separation of duty. *)

\* The roles an authority played in an assumption before its n-th event.
PriorRoles(history, n, by) ==
    {RoleOf[history[k].op] : k \in {k \in 1..Len(history) : k < n /\ history[k].by = by}}

\* What the evaluator demands of the history before it looks at a rule.
HistoryFits(id, history, n, at) ==
    /\ n >= 1 /\ n <= Len(history) + 1
    /\ LegalAssumption(id, history)
    /\ \A k \in 1..Len(history) : k < n => history[k].clock < at

RuleApplies(r, q) ==
    /\ r.action = q.action /\ ScopeMatches(q.scope, r.scopes) /\ q.level \in r.levels

ExceptionApplies(x, r, q, id) ==
    /\ x.rule = r.id /\ x.action = q.action /\ x.by = q.by
    /\ ScopeMatches(q.scope, x.scopes) /\ q.level \in x.levels
    /\ x.assumptions = {} \/ id \in x.assumptions
    /\ InForce(x, q.at)

\* The conflicts of one rule that no exception of that rule waives.
Remaining(p, r, q, id, prior) ==
    LET conflicts == prior \cap r.roles
        waivers   == {x \in p.exceptions : ExceptionApplies(x, r, q, id)}
    IN  conflicts \ UNION {x.roles : x \in waivers}

\* evaluate_separation_of_duty: authority first, then every applicable rule.
DutyAllows(p, q, id, history, n) ==
    /\ Selection(p, q) = "SELECTED"
    /\ HistoryFits(id, history, n, q.at)
    /\ \A r \in p.rules :
           RuleApplies(r, q) => Remaining(p, r, q, id, PriorRoles(history, n, q.by)) = {}
=============================================================================
