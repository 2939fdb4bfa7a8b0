--------------------------- MODULE AdmissionGate -----------------------------
(***************************************************************************)
(* What the governed admission of an assumption asks of the registries:    *)
(* the dependency validation with its receipt                              *)
(* (_assumption_dependency_validator.py), the duty decision for each scope *)
(* and the authorization that binds both (_governed_admit_append.py).      *)
(*                                                                         *)
(* `hs' is what the registries hold: the history of every assumption and   *)
(* evidence unit, empty when it was never proposed or registered.          *)
(***************************************************************************)
EXTENDS AuthorityPolicy, EvidenceLifecycle, DependencyWalk

CONSTANTS Assumptions,   \* the identities of assumptions, among those of IdOrder
          PolicyAt       \* the policy the ledger resolves at each clock, or None

ASSUME AssumptionsAssumption == Assumptions \subseteq Ids

EvidenceIds == Ids \ Assumptions

\* The root digest of a registry is what it holds.
AssumptionRoot(hs) == [id \in Assumptions |-> hs[id]]
EvidenceRoot(hs)   == [id \in EvidenceIds |-> hs[id]]

-----------------------------------------------------------------------------
(* validate_assumption_dependencies.                                       *)

DependencyCodes == {"PRESENT", "MISSING", "HISTORY_INVALID"}

DependencyGate(hs, id) ==
    IF hs[id] = <<>> THEN "MISSING"
    ELSE IF LegalAssumption(id, hs[id]) THEN "PRESENT" ELSE "HISTORY_INVALID"

\* Mutant: only the direct dependencies are walked.
DirectOnly(hs, id) == {}

DependenciesOf(hs, id) ==
    IF DependencyGate(hs, id) = "PRESENT" THEN AssumptionAt(id, hs[id]).declared.deps ELSE {}

\* Mutant: the refusal that ends the decisions is not recorded.
DecidedBefore(hs, ids, clock) ==
    LET all == Ordered(ids)
    IN  SelectSeq([n \in 1..Len(all) |-> [id |-> all[n], code |-> EligibilityCode(all[n], hs[all[n]], clock)]],
                  LAMBDA d : d.code = "ELIGIBLE")

\* The evidence decisions: in canonical order, up to the first refusal.
Decided(hs, ids, clock) ==
    LET all     == Ordered(ids)
        refused == {n \in 1..Len(all) : EligibilityCode(all[n], hs[all[n]], clock) # "ELIGIBLE"}
        last    == IF refused = {} THEN Len(all) ELSE CHOOSE n \in refused : \A m \in refused : n <= m
    IN  [n \in 1..last |-> [id |-> all[n], code |-> EligibilityCode(all[n], hs[all[n]], clock)]]

\* The code of a walk w and, once it passed, of the decisions d.
ReceiptCode(w, d) ==
    IF w.code # "PRESENT" THEN w.code
    ELSE IF d # <<>> /\ (d # <<>> => d[Len(d)].code # "ELIGIBLE") THEN d[Len(d)].code
    ELSE "PASS"

WalkReceipt(id, declared, clock, w, d) ==
    [id |-> id, clock |-> clock, deps |-> declared.deps, evidence |-> declared.evidence,
     trail |-> w.trail, cycle |-> w.cycle, decided |-> d, code |-> ReceiptCode(w, d),
     passed |-> w.code = "PRESENT" /\ \A n \in 1..Len(d) : d[n].code = "ELIGIBLE"]

\* The receipt of a candidate whose proposal declares `declared'.
Receipt(hs, id, declared, clock) ==
    LET w == Walk(id, declared.deps, [x \in Assumptions |-> DependencyGate(hs, x)],
                  [x \in Assumptions |-> DependenciesOf(hs, x)], DependencyCodes)
    IN  WalkReceipt(id, declared, clock, w,
                    IF w.code = "PRESENT" THEN Decided(hs, declared.evidence, clock) ELSE <<>>)

AssumptionDenied(r) == r.code \in {"CYCLE", "MISSING", "HISTORY_INVALID"}

\* DependencyValidationReceipt.__post_init__: the receipt replays its own walk
\* and its decisions are the canonical prefix that its code says.
ValidReceipt(r) ==
    /\ ReplayAgrees(r.id, r.deps, r.trail, r.cycle,
                    IF AssumptionDenied(r) THEN r.code ELSE "PRESENT", DependencyCodes)
    /\ \A n \in 1..Len(r.decided) : r.decided[n].id = Ordered(r.evidence)[n]
    /\ IF r.passed
       THEN /\ r.code = "PASS" /\ Len(r.decided) = Cardinality(r.evidence)
            /\ \A n \in 1..Len(r.decided) : r.decided[n].code = "ELIGIBLE"
       ELSE \/ AssumptionDenied(r) /\ r.decided = <<>>
            \/ /\ r.decided # <<>>
               /\ \A n \in 1..Len(r.decided) :
                     IF n < Len(r.decided) THEN r.decided[n].code = "ELIGIBLE"
                     ELSE r.decided[n].code # "ELIGIBLE" /\ r.code = r.decided[n].code

-----------------------------------------------------------------------------
(* The authorization.                                                      *)

DutyRequest(declared, by, scope, clock) ==
    [action |-> "ADMIT", by |-> by, scope |-> scope, level |-> declared.materiality,
     challenge |-> None, at |-> clock]

\* The duty decision of every scope, under the policy of that clock.
DutiesAllow(hs, id, declared, by, clock) ==
    /\ PolicyAt[clock] # None
    /\ PolicyAt[clock] # None =>
          \A scope \in declared.scopes :
              DutyAllows(PolicyAt[clock], DutyRequest(declared, by, scope, clock), id, hs[id], 2)

\* The state a candidate must be in: its one event proposed it.
Proposed(hs, id, clock) ==
    /\ Len(hs[id]) = 1 /\ LegalAssumption(id, hs[id])
    /\ LET a == AssumptionAt(id, hs[id])
       IN  a # NoState /\ a.standing = "PROPOSED" /\ ~(clock <= a.clock)

\* append_governed_admit_assumption up to the commit: the authorization, or
\* none when a stage denies.
Authorization(hs, id, by, clock) ==
    LET declared   == AssumptionAt(id, hs[id]).declared
        bind(receipt) ==
            When(receipt.passed,
                 [id |-> id, by |-> by, clock |-> clock, prev |-> hs[id],
                  assumptions |-> AssumptionRoot(hs), evidence |-> EvidenceRoot(hs),
                  receipt |-> receipt])
    IN  IF Proposed(hs, id, clock) /\ DutiesAllow(hs, id, declared, by, clock)
        THEN bind(Receipt(hs, id, declared, clock)) ELSE {}

\* GovernedAdmitAuthorization.__post_init__ on what binds the parts.
ValidAuthorization(a) ==
    /\ a.receipt.passed /\ ValidReceipt(a.receipt)
    /\ a.receipt.id = a.id /\ a.receipt.clock = a.clock
    /\ a.prev = a.assumptions[a.id] /\ Len(a.prev) = 1

AdmitEvent(a) == [op |-> "ADMIT", by |-> a.by, clock |-> a.clock, arg |-> a]

\* An ADMIT that carries an authorization; a plain one has no argument.
Governed(e) == e.op = "ADMIT" /\ e.arg # None
=============================================================================
