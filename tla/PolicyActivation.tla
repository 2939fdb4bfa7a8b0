-------------------------- MODULE PolicyActivation ---------------------------
(***************************************************************************)
(* Preparing a policy for activation: the stages of                        *)
(* ReferenceAssumptionPolicyActivationPreparer.prepare, the ledger entries *)
(* they build, the order of a ledger and the policy a ledger resolves for  *)
(* a sequence.                                                             *)
(*                                                                         *)
(* A digest is the value it covers.  A commit covers the policy, the       *)
(* commit of its predecessor, the sequence it takes effect from and the    *)
(* signatures; an entry is a commit with its activation proof.             *)
(***************************************************************************)
EXTENDS AuthorityPolicy

CONSTANTS Proposals,  \* what may be proposed: [policy, from, sigs, up], sigs a
                      \* set of [signer, sound], up the signers whose back ends
                      \* answer at this call
          Approval,   \* the committed approval policy: a rule for each class
          Authority   \* Authority[s]: [from, until, revoked] of signer s, or None

ApprovalClasses == {"STANDARD", "DUTY_EXCEPTION"}

ValidApprovalRule(r) ==
    /\ r.eligible # {}
    /\ r.count >= 1 /\ r.count <= Cardinality(r.eligible)
    /\ r.required \subseteq r.eligible
    /\ Cardinality(r.required) <= r.count

\* The rule of exceptions is the stronger one in each respect.
ValidApproval(a) ==
    /\ \A c \in ApprovalClasses : ValidApprovalRule(a[c])
    /\ a["DUTY_EXCEPTION"].count > a["STANDARD"].count
    /\ a["STANDARD"].required \subseteq a["DUTY_EXCEPTION"].required
    /\ a["DUTY_EXCEPTION"].eligible \subseteq a["STANDARD"].eligible

\* A sequence is an integer; prepare refuses a negative one.
ASSUME ProposalsAssumption == \A x \in Proposals : x.from \in Int

ASSUME ApprovalAssumption == ValidApproval(Approval)

\* Mutant: every policy is approved by the weaker rule.
ApprovalClassStandard(p) == "STANDARD"

\* The signing payload may not name a weaker class than its policy needs.
ApprovalClass(p) == IF p.exceptions = {} THEN "STANDARD" ELSE "DUTY_EXCEPTION"

-----------------------------------------------------------------------------
(* Signatures.  A signature is [signer, target, sound]; `answering' are    *)
(* the signers the key and authority back ends answer for at this call: an *)
(* exception of a back end counts as an unknown signer.                    *)

Payload(p, prev, from) == [policy |-> p, prev |-> prev, from |-> from]

WellSigned(sigs, payload) ==
    /\ sigs # {}
    /\ \A s, t \in sigs : s.signer = t.signer => s = t
    /\ \A s \in sigs : s.target = payload

InWindow(w, from) ==
    /\ from >= w.from
    /\ w.until # None => from < w.until
    /\ w.revoked # None => from < w.revoked

\* _verify_one_record: the code of the first check that fails.
Refusal(s, from, answering) ==
    IF s.signer \notin answering THEN "SIGNER_UNKNOWN"
    ELSE IF ~s.sound THEN "SIGNATURE_INVALID"
    ELSE IF Authority[s.signer] = None THEN "SIGNER_UNAUTHORIZED"
    ELSE IF ~InWindow(Authority[s.signer], from) THEN "KEY_OUT_OF_WINDOW"
    ELSE "VALID"

Valid(sigs, from, answering) ==
    {s.signer : s \in {t \in sigs : Refusal(t, from, answering) = "VALID"}}

Rejected(sigs, from, answering) ==
    {Refusal(s, from, answering) : s \in sigs} \ {"VALID"}

\* One valid signer who is not eligible denies the activation.
ApprovalMet(p, valid) ==
    LET rule == Approval[ApprovalClass(p)]
    IN  /\ valid \subseteq rule.eligible
        /\ Cardinality(valid) >= rule.count
        /\ rule.required \subseteq valid

\* validate_policy_overlap: what the preparer asks of a well-formed policy.
Activatable == {p \in {x.policy : x \in Proposals} : ValidPolicy(p) /\ NoOverlap(p)}

\* What is left to say of signatures whose target is the commit's own payload.
Seals(sigs) == {[signer |-> s.signer, sound |-> s.sound] : s \in sigs}

\* The entry prepare returns, or none when a stage denies.
Prepared(p, prev, from, sigs, answering) ==
    LET valid == Valid(sigs, from, answering)
    IN  When(/\ p \in Activatable
             /\ from >= 0
             /\ WellSigned(sigs, Payload(p, prev, from))
             /\ ApprovalMet(p, valid),
             [policy |-> p, prev |-> prev, from |-> from, sigs |-> Seals(sigs),
              valid |-> valid, rejected |-> Rejected(sigs, from, answering)])

-----------------------------------------------------------------------------
(* Ledgers. *)

CommitOf(e) == [policy |-> e.policy, prev |-> e.prev, from |-> e.from, sigs |-> e.sigs]

Tip(L) == IF L = <<>> THEN None ELSE CommitOf(L[Len(L)])

\* validate_successor_position_v3, and its genesis case.
Succeeds(L, e) ==
    /\ e.prev = Tip(L)
    /\ L # <<>> => e.from > L[Len(L)].from

\* order_policy_entries_v3 returns its input only when this holds.
IsLedger(L) == \A n \in 1..Len(L) : Succeeds(SubSeq(L, 1, n - 1), L[n])

\* resolve_policy_at_v3: the last entry in effect, or None.
ResolvedAt(L, at) ==
    LET S == {n \in 1..Len(L) : L[n].from <= at}
    IN  IF S = {} THEN None ELSE L[CHOOSE n \in S : \A m \in S : m <= n]

\* Mutant: the source entry is looked up, but not resolved again.
AuthoritativeIfListed(L, r) == \E n \in 1..Len(L) : L[n] = r.entry

\* _source_entry_for_resolution: a resolution [at, entry, root] counts only
\* against the ledger it was made from.
Authoritative(L, r) == r.root = L /\ r.entry # None /\ r.entry = ResolvedAt(L, r.at)
=============================================================================
