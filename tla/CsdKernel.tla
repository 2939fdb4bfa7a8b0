------------------------------ MODULE CsdKernel ------------------------------
(***************************************************************************)
(* The executable control kernel: the transitions of kernel/transitions.py *)
(* and kernel/temporal.py, the independent verifiers of                    *)
(* kernel/invariants.py and kernel/temporal_invariants.py, and the fail-   *)
(* closed oracle that runs a transition and commits it only if the         *)
(* verifiers accept the result.  A transition raises on an event whose     *)
(* authority is not I3, so the actions carry that authority.               *)
(*                                                                         *)
(* A control state is a record and a transition a function of it, as in    *)
(* the code.  Evidence and bases are immutable once recorded, so what they *)
(* say is a constant of their identity; the state holds what changes.      *)
(* Audit history is left out, and so is the time evidence was issued: an   *)
(* accepted one was issued by now and expires later.                       *)
(***************************************************************************)
EXTENDS Integers, FiniteSets

CONSTANTS
    EvidenceIds, BasisIds, RequestIds,
    Dependencies,   \* what evidence may depend on
    Profiles,       \* profile identities
    MaxVersion,     \* bound: profile versions
    MaxTime,        \* bound: logical time
    Intervals,      \* heartbeat intervals
    DependsOn,      \* Evidence.dependencies
    ExpiresAt,      \* Evidence.expires_at
    MadeFor,        \* Evidence.profile_id and profile_version
    Kind,           \* Basis.kind
    Says,           \* Basis.claim
    Members,        \* Basis.member_evidence_ids
    None

Substantive == {"pass", "partial", "fail"}
Assurances == Substantive \cup {"unverified", "stale", "assuranceNA"}
SourceStates == {"connected", "wiredInert", "sourceUnknown"}
Obligations == {"current", "planned", "retired"}
Profile == [id : Profiles, ver : 1..MaxVersion]
Heartbeat == [interval : Intervals, due : Nat]

ASSUME KernelAssumption ==
    /\ MaxVersion \in Nat /\ MaxTime \in Nat
    /\ Intervals \subseteq Nat \ {0}
    /\ DependsOn \in [EvidenceIds -> SUBSET Dependencies]
    /\ ExpiresAt \in [EvidenceIds -> Nat \cup {None}]
    /\ MadeFor \in [EvidenceIds -> Profile \cup {None}]
    /\ Kind \in [BasisIds -> {"source", "verdict", "deployment"}]
    /\ Says \in [BasisIds -> SourceStates \cup Assurances]
    /\ Members \in [BasisIds -> SUBSET EvidenceIds]
    /\ None \notin Nat \cup Profile \cup Heartbeat \cup SourceStates \cup Assurances
    /\ None \notin RequestIds \cup Intervals

ControlState ==
    [obligation : Obligations,
     source     : SourceStates,
     assurance  : Assurances,
     evidence   : [EvidenceIds -> {"absent", "current", "invalidated", "expired"}],
     bases      : SUBSET BasisIds,      \* every basis ever recorded
     sources    : SUBSET BasisIds,      \* current_source_basis_ids
     verdicts   : SUBSET BasisIds,      \* current_verdict_basis_ids
     now        : Nat,
     required   : Profile \cup {None},
     requests   : [RequestIds -> {"absent", "pending", "closed"}],
     heartbeat  : Heartbeat \cup {None}]

VARIABLE control        \* the control state

vars == control

(***************************************************************************)
(* Readings of a control state.                                            *)
(***************************************************************************)
Recorded(s) == {e \in EvidenceIds : s.evidence[e] # "absent"}

\* The evidence's deadline has come at time t.
Due(e, t) == ExpiresAt[e] # None /\ ExpiresAt[e] <= t

\* Evidence made for no profile, or for the required one, or none is required.
MatchesProfile(s, e) ==
    \/ s.required = None
    \/ MadeFor[e] = None
    \/ MadeFor[e] = s.required

\* transitions._basis_is_current, which does not look at profiles.
Supported(s, b) ==
    /\ b \in s.bases
    /\ Members[b] # {}
    /\ \A e \in Members[b] : s.evidence[e] = "current"

\* temporal._basis_is_current, which does.
Eligible(s, b) == Supported(s, b) /\ \A e \in Members[b] : MatchesProfile(s, e)

\* Faulty variant of HeartbeatMissed: only a tick to the very deadline notices.
HeartbeatMissedAtDeadline(s, t) == s.heartbeat # None /\ s.heartbeat.due = t

HeartbeatMissed(s, t) == s.heartbeat # None /\ s.heartbeat.due <= t

-----------------------------------------------------------------------------
(***************************************************************************)
(* Transitions.                                                            *)
(***************************************************************************)
\* What is left of the current view of s when only the given bases survive.
Demoted(s, sources, verdicts) ==
    [s EXCEPT
        !.sources = sources,
        !.verdicts = verdicts,
        !.source = IF sources = {} THEN "sourceUnknown" ELSE @,
        !.assurance = IF s.obligation # "current" THEN "assuranceNA"
                      ELSE IF @ \in Substantive /\ verdicts = {} THEN "stale"
                      ELSE @]

ApplyDependencyChange(s, d) ==
    LET hit == [s EXCEPT !.evidence =
                  [e \in EvidenceIds |->
                     IF s.evidence[e] = "current" /\ d \in DependsOn[e]
                     THEN "invalidated" ELSE s.evidence[e]]]
    IN  Demoted(hit, {b \in s.sources : Supported(hit, b)},
                     {b \in s.verdicts : Supported(hit, b)})

\* Faulty variant of StaleVerdicts: a missed heartbeat does not force staleness.
StaleVerdictsLeft(s, t, surviving) ==
    IF s.obligation # "current" THEN {} ELSE surviving

\* _canonical_claims: the verdict bases that survive a tick of the clock, none
\* when the heartbeat is missed under a substantive verdict (force_stale).
StaleVerdicts(s, t, surviving) ==
    IF s.obligation # "current" \/ (HeartbeatMissed(s, t) /\ s.assurance \in Substantive)
    THEN {} ELSE surviving

ApplyAdvanceClock(s, t) ==
    LET aged == [s EXCEPT
                   !.now = t,
                   !.evidence = [e \in EvidenceIds |->
                       IF s.evidence[e] = "current" /\ Due(e, t)
                       THEN "expired" ELSE s.evidence[e]]]
    IN  Demoted(aged, {b \in s.sources : Eligible(aged, b)},
                      StaleVerdicts(s, t, {b \in s.verdicts : Eligible(aged, b)}))

ApplyProfileChange(s, p, r) ==
    LET asked == [s EXCEPT
                    !.required = p,
                    !.requests = [q \in RequestIds |->
                        IF q = r THEN "pending" ELSE s.requests[q]]]
    IN  Demoted(asked, {b \in s.sources : Eligible(asked, b)},
                       IF s.obligation # "current" THEN {}
                       ELSE {b \in s.verdicts : Eligible(asked, b)})

ApplyRequest(s, r) == [s EXCEPT !.requests[r] = "pending"]

\* The interval a heartbeat goes on with: the event's, else the last one.
NextInterval(s, i) ==
    IF i = None /\ s.heartbeat # None THEN s.heartbeat.interval ELSE i

ApplyHeartbeat(s, i) ==
    [s EXCEPT !.heartbeat = [interval |-> NextInterval(s, i),
                             due |-> s.now + NextInterval(s, i)]]

\* A reassessment names new evidence, new bases, what it finds, and the
\* requests it answers.
Reassessment ==
    [evidence : SUBSET EvidenceIds, bases : SUBSET BasisIds,
     source : SourceStates \cup {None}, assurance : Assurances \cup {None},
     close : SUBSET RequestIds]

\* Faulty variant of FoundAssurance: a reassessment always states a verdict.
FoundAssuranceStated(s, f) == f.assurance

FoundSource(s, f) == IF f.source = None THEN s.source ELSE f.source
FoundAssurance(s, f) == IF f.assurance = None THEN s.assurance ELSE f.assurance

SourceBases(bases, claim) == {b \in bases : Kind[b] = "source" /\ Says[b] = claim}
VerdictBases(bases, claim) == {b \in bases : Kind[b] = "verdict" /\ Says[b] = claim}

\* Faulty variant of FreshIdentities: a basis may be submitted again.
FreshIdentitiesOfEvidence(s, f) == f.evidence \cap Recorded(s) = {}

FreshIdentities(s, f) ==
    /\ f.evidence \cap Recorded(s) = {}
    /\ f.bases \cap s.bases = {}

\* apply_reassess raises on a basis that has no members, cites unknown
\* evidence or contradicts the finding, and on a request that is not pending.
Coherent(s, f) ==
    /\ \A b \in f.bases :
          /\ Members[b] # {}
          /\ Members[b] \subseteq Recorded(s) \cup f.evidence
          /\ Kind[b] = "source" => Says[b] = FoundSource(s, f)
          /\ Kind[b] = "verdict" => Says[b] = FoundAssurance(s, f)
    /\ \A r \in f.close : s.requests[r] = "pending"

ApplyReassess(s, f) ==
    LET source == FoundSource(s, f)
        assurance == FoundAssurance(s, f)
    IN  [s EXCEPT
            !.evidence = [e \in EvidenceIds |->
                IF e \in f.evidence THEN "current" ELSE s.evidence[e]],
            !.bases = @ \cup f.bases,
            !.source = source,
            !.assurance = assurance,
            !.sources = IF source = "sourceUnknown" THEN {}
                        ELSE SourceBases(@ \cup f.bases, source),
            !.verdicts = IF assurance \notin Substantive THEN {}
                         ELSE VerdictBases(@ \cup f.bases, assurance),
            !.requests = [r \in RequestIds |->
                IF r \in f.close THEN "closed" ELSE s.requests[r]]]

ApplyRetire(s, e) ==
    [s EXCEPT
        !.obligation = "retired",
        !.source = "sourceUnknown",
        !.assurance = "assuranceNA",
        !.evidence[e] = "current",
        !.sources = {},
        !.verdicts = {}]

-----------------------------------------------------------------------------
(***************************************************************************)
(* The independent verifiers.                                              *)
(***************************************************************************)
\* Faulty variant of ClaimsBacked: a substantive verdict needs no basis.
ClaimsBackedButVerdicts(s) ==
    /\ \A b \in s.sources \cup s.verdicts : Supported(s, b)
    /\ \A b \in s.sources : Kind[b] = "source" /\ Says[b] = s.source
    /\ \A b \in s.verdicts : Kind[b] = "verdict" /\ Says[b] = s.assurance
    /\ s.source # "sourceUnknown" => s.sources # {}
    /\ s.obligation # "current" => s.assurance = "assuranceNA"

\* validate_state: what the current view claims, it has current bases for.
ClaimsBacked(s) ==
    /\ \A b \in s.sources \cup s.verdicts : Supported(s, b)
    /\ \A b \in s.sources : Kind[b] = "source" /\ Says[b] = s.source
    /\ \A b \in s.verdicts : Kind[b] = "verdict" /\ Says[b] = s.assurance
    /\ s.source # "sourceUnknown" => s.sources # {}
    /\ s.obligation = "current" /\ s.assurance \in Substantive => s.verdicts # {}
    /\ s.obligation # "current" => s.assurance = "assuranceNA"

\* validate_temporal_state: evidence is current exactly until its deadline,
\* current bases fit the required profile, and no verdict outlives a heartbeat.
TimeRespected(s) ==
    /\ \A e \in EvidenceIds :
          /\ s.evidence[e] = "current" => ~Due(e, s.now)
          /\ s.evidence[e] = "expired" /\ ExpiresAt[e] # None => Due(e, s.now)
    /\ \A b \in s.sources \cup s.verdicts : Eligible(s, b)
    /\ s.heartbeat # None => s.heartbeat.due - s.heartbeat.interval <= s.now
    /\ HeartbeatMissed(s, s.now) => s.assurance \notin Substantive

ValidState(s) == ClaimsBacked(s) /\ TimeRespected(s)

\* validate_transition and validate_temporal_transition: history is kept.
HistoryKept(s, t) ==
    /\ \A e \in EvidenceIds :
          /\ t.evidence[e] = "absent" => s.evidence[e] = "absent"
          /\ t.evidence[e] = "current" => s.evidence[e] \in {"absent", "current"}
    /\ s.bases \subseteq t.bases
    /\ s.now <= t.now
    /\ \A r \in RequestIds :
          s.requests[r] # "absent" =>
              \/ t.requests[r] = s.requests[r]
              \/ s.requests[r] = "pending" /\ t.requests[r] = "closed"
    /\ s.required # None /\ t.required # None /\ s.required.id = t.required.id
         => s.required.ver <= t.required.ver

\* The survivors are those the verifier expects, and the claims follow them.
SurvivalCanonical(s, t, sources, verdicts, missed) ==
    /\ t.sources = sources
    /\ t.verdicts = verdicts
    /\ t.source = IF sources = {} THEN "sourceUnknown" ELSE s.source
    /\ t.assurance = IF s.obligation # "current" THEN "assuranceNA"
                     ELSE IF s.assurance \in Substantive /\ (missed \/ verdicts = {})
                     THEN "stale" ELSE s.assurance

\* _unchanged_temporal_governance.
GovernanceKept(s, t) ==
    /\ t.now = s.now /\ t.required = s.required /\ t.heartbeat = s.heartbeat

\* The substantive part of a state: everything a request or a heartbeat must
\* leave alone.
Substance(s) == <<s.obligation, s.source, s.assurance, s.evidence, s.bases,
                  s.sources, s.verdicts>>

VerifiedDependencyChange(s, d, t) ==
    /\ \A e \in EvidenceIds :
          t.evidence[e] = IF s.evidence[e] = "current" /\ d \in DependsOn[e]
                          THEN "invalidated" ELSE s.evidence[e]
    /\ t.bases = s.bases
    /\ SurvivalCanonical(s, t, {b \in s.sources : Supported(t, b)},
                               {b \in s.verdicts : Supported(t, b)}, FALSE)
    /\ GovernanceKept(s, t) /\ t.requests = s.requests

VerifiedAdvanceClock(s, time, t) ==
    /\ t.now = time
    /\ \A e \in EvidenceIds :
          t.evidence[e] = IF s.evidence[e] = "current" /\ Due(e, time)
                          THEN "expired" ELSE s.evidence[e]
    /\ t.bases = s.bases
    /\ SurvivalCanonical(s, t, {b \in s.sources : Eligible(t, b)},
           IF HeartbeatMissed(s, time) THEN {} ELSE {b \in s.verdicts : Eligible(t, b)},
           HeartbeatMissed(s, time))
    /\ t.required = s.required /\ t.requests = s.requests /\ t.heartbeat = s.heartbeat

VerifiedProfileChange(s, authority, p, r, t) ==
    /\ authority = "I3"
    /\ t.now = s.now /\ t.required = p /\ t.heartbeat = s.heartbeat
    /\ t.evidence = s.evidence /\ t.bases = s.bases /\ t.obligation = s.obligation
    /\ SurvivalCanonical(s, t, {b \in s.sources : Eligible(t, b)},
                               {b \in s.verdicts : Eligible(t, b)}, FALSE)
    /\ {q \in RequestIds : s.requests[q] = "absent" /\ t.requests[q] # "absent"} = {r} \ {None}
    /\ r # None => t.requests[r] = "pending"

VerifiedRequest(s, authority, r, t) ==
    /\ authority = "I3"
    /\ GovernanceKept(s, t) /\ Substance(t) = Substance(s)
    /\ t.requests = [s.requests EXCEPT ![r] = "pending"]

VerifiedHeartbeat(s, authority, i, t) ==
    /\ authority = "I3"
    /\ t.now = s.now /\ t.required = s.required /\ t.requests = s.requests
    /\ Substance(t) = Substance(s)
    /\ t.heartbeat = [interval |-> NextInterval(s, i), due |-> s.now + NextInterval(s, i)]

\* The two verifiers below do not look at the authority of the event.
VerifiedReassess(s, authority, f, t) ==
    /\ \A e \in EvidenceIds :
          t.evidence[e] = IF e \in f.evidence THEN "current" ELSE s.evidence[e]
    /\ t.bases = s.bases \cup f.bases
    /\ t.source = FoundSource(s, f) /\ t.assurance = FoundAssurance(s, f)
    /\ t.sources = {b \in SourceBases(s.sources \cup f.bases, t.source) : Supported(t, b)}
    /\ t.verdicts = {b \in VerdictBases(s.verdicts \cup f.bases, t.assurance) : Supported(t, b)}
    /\ GovernanceKept(s, t)
    /\ \A r \in f.close : s.requests[r] = "pending"
    /\ \A r \in RequestIds :
          t.requests[r] = IF r \in f.close THEN "closed" ELSE s.requests[r]

VerifiedRetire(s, authority, e, t) ==
    /\ t.evidence = [s.evidence EXCEPT ![e] = "current"]
    /\ t.bases = s.bases
    /\ t.obligation = "retired" /\ t.assurance = "assuranceNA"
    /\ t.source = "sourceUnknown" /\ t.sources = {} /\ t.verdicts = {}
    /\ GovernanceKept(s, t) /\ t.requests = s.requests

\* CsdOracle.apply's verification of any transition.
Accepted(s, t) == ValidState(t) /\ HistoryKept(s, t)

-----------------------------------------------------------------------------
(***************************************************************************)
(* The oracle: a rejected event, or one whose transition raises, leaves    *)
(* the control state as it was.                                            *)
(***************************************************************************)
\* apply_profile_change raises unless the version advances and the request is new.
ProfileAdvances(s, p, r) ==
    /\ s.required # None /\ s.required.id = p.id => s.required.ver < p.ver
    /\ r # None => s.requests[r] = "absent"

Commit(t) ==
    /\ Accepted(control, t)
    /\ control' = t

Init ==
    /\ control \in [obligation : {"current", "planned"},
                    source     : {"sourceUnknown"},
                    assurance  : {"unverified", "assuranceNA"},
                    evidence   : [EvidenceIds -> {"absent"}],
                    bases      : {{}},
                    sources    : {{}},
                    verdicts   : {{}},
                    now        : {0},
                    required   : {None},
                    requests   : [RequestIds -> {"absent"}],
                    heartbeat  : {None}]
    /\ control.obligation # "current" <=> control.assurance = "assuranceNA"

DependencyChange(d) ==
    LET t == ApplyDependencyChange(control, d)
    IN  /\ VerifiedDependencyChange(control, d, t)
        /\ Commit(t)

AdvanceClock(time) ==
    LET t == ApplyAdvanceClock(control, time)
    IN  /\ time >= control.now
        /\ VerifiedAdvanceClock(control, time, t)
        /\ Commit(t)

ProfileChange(p, r) ==
    LET t == ApplyProfileChange(control, p, r)
    IN  /\ ProfileAdvances(control, p, r)
        /\ VerifiedProfileChange(control, "I3", p, r, t)
        /\ Commit(t)

RequestReassessment(r) ==
    LET t == ApplyRequest(control, r)
    IN  /\ control.requests[r] = "absent"
        /\ VerifiedRequest(control, "I3", r, t)
        /\ Commit(t)

RecordHeartbeat(i) ==
    LET t == ApplyHeartbeat(control, i)
    IN  /\ NextInterval(control, i) # None
        /\ VerifiedHeartbeat(control, "I3", i, t)
        /\ Commit(t)

Reassess(f) ==
    LET t == ApplyReassess(control, f)
    IN  /\ FreshIdentities(control, f)
        /\ Coherent(control, f)
        /\ VerifiedReassess(control, "I3", f, t)
        /\ Commit(t)

RetireControl(e) ==
    LET t == ApplyRetire(control, e)
    IN  /\ control.evidence[e] = "absent"
        /\ VerifiedRetire(control, "I3", e, t)
        /\ Commit(t)

Next ==
    \/ \E d \in Dependencies : DependencyChange(d)
    \/ \E time \in 0..MaxTime : AdvanceClock(time)
    \/ \E p \in Profile, r \in RequestIds \cup {None} : ProfileChange(p, r)
    \/ \E r \in RequestIds : RequestReassessment(r)
    \/ \E i \in Intervals \cup {None} : RecordHeartbeat(i)
    \/ \E f \in Reassessment : Reassess(f)
    \/ \E e \in EvidenceIds : RetireControl(e)

Spec == Init /\ [][Next]_vars

-----------------------------------------------------------------------------
(***************************************************************************)
(* Properties.                                                             *)
(***************************************************************************)
\* A control state the kernel reaches: typed as in kernel/models.py, valid to
\* both verifiers, and with no current basis for a claim that needs none.
Canonical(s) ==
    /\ s \in ControlState
    /\ ValidState(s)
    /\ s.source = "sourceUnknown" => s.sources = {}
    /\ s.assurance \notin Substantive => s.verdicts = {}

\* The control state is canonical: the verifiers do not ask for the last two
\* parts, but a clock tick that misses a heartbeat is accepted only thanks to
\* them.
ControlInv == Canonical(control)

\* What happens to a control without a reassessment never gets stuck at the
\* oracle: when the transition of a dependency change, a tick of the clock, a
\* profile change, a request or a heartbeat does not raise, the independent
\* verifiers accept its result.  (A tick they rejected would stop the clock of
\* the control for ever.)
VerifierAgrees ==
    /\ \A d \in Dependencies :
          LET t == ApplyDependencyChange(control, d)
          IN  Accepted(control, t) /\ VerifiedDependencyChange(control, d, t)
    /\ \A time \in control.now..MaxTime :
          LET t == ApplyAdvanceClock(control, time)
          IN  Accepted(control, t) /\ VerifiedAdvanceClock(control, time, t)
    /\ \A p \in Profile, r \in RequestIds \cup {None} :
          LET t == ApplyProfileChange(control, p, r)
          IN  ProfileAdvances(control, p, r) =>
                 Accepted(control, t) /\ VerifiedProfileChange(control, "I3", p, r, t)
    /\ \A r \in RequestIds :
          LET t == ApplyRequest(control, r)
          IN  control.requests[r] = "absent" =>
                 Accepted(control, t) /\ VerifiedRequest(control, "I3", r, t)
    /\ \A i \in Intervals \cup {None} :
          LET t == ApplyHeartbeat(control, i)
          IN  NextInterval(control, i) # None =>
                 Accepted(control, t) /\ VerifiedHeartbeat(control, "I3", i, t)

\* Nothing is promoted but by a basis nobody had recorded before: not by time,
\* a heartbeat, a request, a favourable dependency change, a profile that fits
\* again, or a reassessment that cites only what is there.
NoPromotion ==
    [][/\ control'.source \notin {control.source, "sourceUnknown"}
             => control'.sources \ control.bases # {}
       /\ control'.assurance \in Substantive \ {control.assurance}
             => control'.verdicts \ control.bases # {}]_vars

\* A basis that has left the current view never comes back to it, whatever
\* becomes of the evidence, the profile or the claim it supported.
BasisNeverReturns ==
    [][/\ control'.sources \cap control.bases \subseteq control.sources
       /\ control'.verdicts \cap control.bases \subseteq control.verdicts]_vars

\* The current view, without the reason evidence is no longer current.
View(s) == <<s.source, s.assurance, s.sources, s.verdicts>>

\* Causally independent events converge: the order of two dependency changes,
\* or of either of them with the clock or a profile change, and the number of
\* ticks the clock takes to a time do not show in the current view.
EventsConverge ==
    LET s == control IN
    /\ \A d1, d2 \in Dependencies :
          ApplyDependencyChange(ApplyDependencyChange(s, d1), d2)
            = ApplyDependencyChange(ApplyDependencyChange(s, d2), d1)
    /\ \A d \in Dependencies, t \in s.now..MaxTime :
          View(ApplyAdvanceClock(ApplyDependencyChange(s, d), t))
            = View(ApplyDependencyChange(ApplyAdvanceClock(s, t), d))
    /\ \A t1, t2 \in s.now..MaxTime :
          t1 <= t2 => ApplyAdvanceClock(ApplyAdvanceClock(s, t1), t2)
                        = ApplyAdvanceClock(s, t2)
    /\ \A p \in Profile, t \in s.now..MaxTime :
          ApplyAdvanceClock(ApplyProfileChange(s, p, None), t)
            = ApplyProfileChange(ApplyAdvanceClock(s, t), p, None)
    /\ \A p \in Profile, d \in Dependencies :
          ApplyDependencyChange(ApplyProfileChange(s, p, None), d)
            = ApplyProfileChange(ApplyDependencyChange(s, d), p, None)
=============================================================================
