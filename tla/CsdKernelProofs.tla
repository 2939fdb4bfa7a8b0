--------------------------- MODULE CsdKernelProofs ---------------------------
(***************************************************************************)
(* Proofs about CsdKernel for every catalogue of evidence and bases and    *)
(* every bound.  The central fact is that, in a canonical state, the       *)
(* transition of every event but a reassessment or a retirement produces   *)
(* what the independent verifiers expect.                                  *)
(***************************************************************************)
EXTENDS CsdKernel, TLAPS

\* What Demoted leaves of a state: the given survivors and the claims they carry.
LEMMA DemotedFields ==
    ASSUME NEW s \in ControlState, NEW S \in SUBSET BasisIds, NEW V \in SUBSET BasisIds
    PROVE  LET t == Demoted(s, S, V) IN
           /\ t \in ControlState
           /\ t.sources = S /\ t.verdicts = V
           /\ t.source = (IF S = {} THEN "sourceUnknown" ELSE s.source)
           /\ t.assurance = (IF s.obligation # "current" THEN "assuranceNA"
                             ELSE IF s.assurance \in Substantive /\ V = {} THEN "stale"
                             ELSE s.assurance)
           /\ t.obligation = s.obligation /\ t.evidence = s.evidence /\ t.bases = s.bases
           /\ t.now = s.now /\ t.required = s.required /\ t.requests = s.requests
           /\ t.heartbeat = s.heartbeat
BY DEF Demoted, ControlState, SourceStates, Assurances

\* A dependency change in a canonical state is accepted by the verifiers and
\* leaves a canonical state.
LEMMA DependencyChangeAgrees ==
    ASSUME NEW s, Canonical(s), NEW d \in Dependencies
    PROVE  LET t == ApplyDependencyChange(s, d) IN
           Canonical(t) /\ HistoryKept(s, t) /\ VerifiedDependencyChange(s, d, t)
<1> DEFINE hit == [s EXCEPT !.evidence =
                     [e \in EvidenceIds |->
                        IF s.evidence[e] = "current" /\ d \in DependsOn[e]
                        THEN "invalidated" ELSE s.evidence[e]]]
           S == {b \in s.sources : Supported(hit, b)}
           V == {b \in s.verdicts : Supported(hit, b)}
           t == ApplyDependencyChange(s, d)
<1>1. s \in ControlState
  BY DEF Canonical
<1>2. /\ hit \in ControlState
      /\ hit.evidence = [e \in EvidenceIds |->
                           IF s.evidence[e] = "current" /\ d \in DependsOn[e]
                           THEN "invalidated" ELSE s.evidence[e]]
      /\ hit.obligation = s.obligation /\ hit.source = s.source
      /\ hit.assurance = s.assurance /\ hit.bases = s.bases /\ hit.now = s.now
      /\ hit.required = s.required /\ hit.requests = s.requests
      /\ hit.heartbeat = s.heartbeat
  BY <1>1 DEF ControlState
<1>3. S \in SUBSET BasisIds /\ V \in SUBSET BasisIds
  BY <1>1 DEF ControlState
<1>4. t = Demoted(hit, S, V)
  BY DEF ApplyDependencyChange
<1> HIDE DEF hit, t
<1>5. /\ t \in ControlState /\ t.sources = S /\ t.verdicts = V
      /\ t.source = (IF S = {} THEN "sourceUnknown" ELSE s.source)
      /\ t.assurance = (IF s.obligation # "current" THEN "assuranceNA"
                        ELSE IF s.assurance \in Substantive /\ V = {} THEN "stale"
                        ELSE s.assurance)
      /\ t.obligation = s.obligation /\ t.evidence = hit.evidence /\ t.bases = s.bases
      /\ t.now = s.now /\ t.required = s.required /\ t.requests = s.requests
      /\ t.heartbeat = s.heartbeat
  BY <1>2, <1>3, <1>4, DemotedFields
<1>6. \A b \in BasisIds : Supported(t, b) <=> Supported(hit, b)
  BY <1>2, <1>5 DEF Supported
<1>7. VerifiedDependencyChange(s, d, t)
  BY <1>1, <1>2, <1>5, <1>6 DEF VerifiedDependencyChange, SurvivalCanonical, GovernanceKept, ControlState
<1>8. HistoryKept(s, t)
  BY <1>1, <1>2, <1>5, KernelAssumption DEF HistoryKept, ControlState, Profile
<1>9. ClaimsBacked(t)
  BY <1>1, <1>5, <1>6 DEF Canonical, ValidState, ClaimsBacked, ControlState, Substantive
<1>10. TimeRespected(t)
  <2>1. \A b \in S \cup V : Eligible(t, b)
    BY <1>1, <1>5, <1>6 DEF Canonical, ValidState, TimeRespected, Eligible, MatchesProfile, ControlState
  <2> QED BY <1>1, <1>2, <1>5, <2>1 DEF Canonical, ValidState, TimeRespected, HeartbeatMissed, Substantive
<1>11. Canonical(t)
  BY <1>1, <1>5, <1>9, <1>10 DEF Canonical, ValidState, ClaimsBacked, Substantive
<1> QED BY <1>7, <1>8, <1>11 DEF t

\* So is a tick of the clock, even one that misses the heartbeat: a state that
\* is canonical has no verdict bases the verifier would expect to be dropped.
LEMMA AdvanceClockAgrees ==
    ASSUME NEW s, Canonical(s), NEW time \in Nat, s.now <= time
    PROVE  LET t == ApplyAdvanceClock(s, time) IN
           Canonical(t) /\ HistoryKept(s, t) /\ VerifiedAdvanceClock(s, time, t)
<1> DEFINE aged == [s EXCEPT
                      !.now = time,
                      !.evidence = [e \in EvidenceIds |->
                          IF s.evidence[e] = "current" /\ Due(e, time)
                          THEN "expired" ELSE s.evidence[e]]]
           S == {b \in s.sources : Eligible(aged, b)}
           V == StaleVerdicts(s, time, {b \in s.verdicts : Eligible(aged, b)})
           t == ApplyAdvanceClock(s, time)
<1>1. s \in ControlState
  BY DEF Canonical
<1>2. /\ aged \in ControlState /\ aged.now = time
      /\ aged.evidence = [e \in EvidenceIds |->
                          IF s.evidence[e] = "current" /\ Due(e, time)
                          THEN "expired" ELSE s.evidence[e]]
      /\ aged.obligation = s.obligation /\ aged.source = s.source
      /\ aged.assurance = s.assurance /\ aged.bases = s.bases
      /\ aged.required = s.required /\ aged.requests = s.requests
      /\ aged.heartbeat = s.heartbeat
  BY <1>1 DEF ControlState
<1>3. S \in SUBSET BasisIds /\ V \in SUBSET BasisIds
  BY <1>1 DEF ControlState, StaleVerdicts
<1>4. t = Demoted(aged, S, V)
  BY DEF ApplyAdvanceClock
<1>5. V \subseteq {b \in s.verdicts : Eligible(aged, b)}
  BY DEF StaleVerdicts
<1>6. V = IF HeartbeatMissed(s, time) THEN {} ELSE {b \in s.verdicts : Eligible(aged, b)}
  BY <1>1 DEF StaleVerdicts, Canonical, ValidState, ClaimsBacked, Substantive
<1> HIDE DEF aged, t, V
<1>7. /\ t \in ControlState /\ t.sources = S /\ t.verdicts = V
      /\ t.source = (IF S = {} THEN "sourceUnknown" ELSE s.source)
      /\ t.assurance = (IF s.obligation # "current" THEN "assuranceNA"
                        ELSE IF s.assurance \in Substantive /\ V = {} THEN "stale"
                        ELSE s.assurance)
      /\ t.obligation = s.obligation /\ t.evidence = aged.evidence /\ t.bases = s.bases
      /\ t.now = time /\ t.required = s.required /\ t.requests = s.requests
      /\ t.heartbeat = s.heartbeat
  BY <1>2, <1>3, <1>4, DemotedFields
<1>8. \A b \in BasisIds : Eligible(t, b) <=> Eligible(aged, b)
  BY <1>2, <1>7 DEF Eligible, Supported, MatchesProfile
<1>9. VerifiedAdvanceClock(s, time, t)
  BY <1>1, <1>2, <1>6, <1>7, <1>8 DEF VerifiedAdvanceClock, SurvivalCanonical, ControlState
<1>10. HistoryKept(s, t)
  BY <1>1, <1>2, <1>7, KernelAssumption DEF HistoryKept, ControlState, Profile
<1>11. ClaimsBacked(t)
  <2>1. \A b \in S \cup V : Supported(t, b)
    BY <1>1, <1>5, <1>7, <1>8 DEF Eligible, ControlState
  <2> QED BY <1>1, <1>5, <1>7, <2>1 DEF Canonical, ValidState, ClaimsBacked, ControlState, Substantive
<1>12. TimeRespected(t)
  <2>1. \A b \in S \cup V : Eligible(t, b)
    BY <1>1, <1>5, <1>7, <1>8 DEF ControlState
  <2>2. \A e \in EvidenceIds :
           /\ t.evidence[e] = "current" => ~Due(e, time)
           /\ t.evidence[e] = "expired" /\ ExpiresAt[e] # None => Due(e, time)
    BY <1>1, <1>2, <1>7, KernelAssumption DEF Canonical, ValidState, TimeRespected, Due, ControlState
  <2>3. t.heartbeat # None => t.heartbeat.due - t.heartbeat.interval <= t.now
    <3>1. ASSUME s.heartbeat # None
          PROVE  s.heartbeat.due \in Nat /\ s.heartbeat.interval \in Nat
      <4>1. s.heartbeat \in Heartbeat
        BY <1>1, <3>1 DEF ControlState
      <4>2. s.heartbeat.due \in Nat /\ s.heartbeat.interval \in Intervals
        BY <4>1 DEF Heartbeat
      <4>3. Intervals \subseteq Nat
        BY KernelAssumption
      <4>4. \A i \in Intervals : i \in Nat
        BY <4>3
      <4> QED BY <4>2, <4>4
    <3>2. s.now \in Nat /\ t.now \in Nat
      BY <1>1, <1>7 DEF ControlState
    <3>3. s.heartbeat # None => s.heartbeat.due - s.heartbeat.interval <= s.now
      BY DEF Canonical, ValidState, TimeRespected
    <3> QED BY <1>7, <3>1, <3>2, <3>3
  <2>4. HeartbeatMissed(t, t.now) => t.assurance \notin Substantive
    BY <1>6, <1>7 DEF HeartbeatMissed, Substantive
  <2> QED BY <1>7, <2>1, <2>2, <2>3, <2>4 DEF TimeRespected
<1>13. Canonical(t)
  BY <1>1, <1>5, <1>7, <1>11, <1>12 DEF Canonical, ValidState, ClaimsBacked, Substantive
<1> QED BY <1>9, <1>10, <1>13 DEF t

\* A change of the required profile leaves a canonical state whose current view
\* keeps exactly the bases whose members fit the profile.
LEMMA ProfileChangeFields ==
    ASSUME NEW s, Canonical(s), NEW p \in Profile, NEW r \in RequestIds \cup {None}
    PROVE  LET t == ApplyProfileChange(s, p, r)
               S == {b \in s.sources : Eligible(t, b)}
               V == {b \in s.verdicts : Eligible(t, b)} IN
           /\ Canonical(t) /\ t.sources = S /\ t.verdicts = V
           /\ t.source = (IF S = {} THEN "sourceUnknown" ELSE s.source)
           /\ t.assurance = (IF s.obligation # "current" THEN "assuranceNA"
                             ELSE IF s.assurance \in Substantive /\ V = {} THEN "stale"
                             ELSE s.assurance)
           /\ t.obligation = s.obligation /\ t.evidence = s.evidence /\ t.bases = s.bases
           /\ t.now = s.now /\ t.required = p
           /\ t.requests = [q \in RequestIds |-> IF q = r THEN "pending" ELSE s.requests[q]]
           /\ t.heartbeat = s.heartbeat
<1> DEFINE asked == [s EXCEPT
                       !.required = p,
                       !.requests = [q \in RequestIds |->
                           IF q = r THEN "pending" ELSE s.requests[q]]]
           S == {b \in s.sources : Eligible(asked, b)}
           V == IF s.obligation # "current" THEN {} ELSE {b \in s.verdicts : Eligible(asked, b)}
           t == ApplyProfileChange(s, p, r)
<1>1. s \in ControlState
  BY DEF Canonical
<1>2. /\ asked \in ControlState /\ asked.required = p
      /\ asked.requests = [q \in RequestIds |-> IF q = r THEN "pending" ELSE s.requests[q]]
      /\ asked.obligation = s.obligation /\ asked.source = s.source
      /\ asked.assurance = s.assurance /\ asked.bases = s.bases
      /\ asked.evidence = s.evidence /\ asked.now = s.now
      /\ asked.heartbeat = s.heartbeat
  BY <1>1 DEF ControlState
<1>3. S \in SUBSET BasisIds /\ V \in SUBSET BasisIds
  BY <1>1 DEF ControlState
<1>4. t = Demoted(asked, S, V)
  BY DEF ApplyProfileChange
<1>5. V \subseteq {b \in s.verdicts : Eligible(asked, b)}
  OBVIOUS
<1>6. V = {b \in s.verdicts : Eligible(asked, b)}
  BY DEF Canonical, ValidState, ClaimsBacked, Substantive
<1> HIDE DEF asked, t, V
<1>7. /\ t \in ControlState /\ t.sources = S /\ t.verdicts = V
      /\ t.source = (IF S = {} THEN "sourceUnknown" ELSE s.source)
      /\ t.assurance = (IF s.obligation # "current" THEN "assuranceNA"
                        ELSE IF s.assurance \in Substantive /\ V = {} THEN "stale"
                        ELSE s.assurance)
      /\ t.obligation = s.obligation /\ t.evidence = s.evidence /\ t.bases = s.bases
      /\ t.now = s.now /\ t.required = p /\ t.requests = asked.requests
      /\ t.heartbeat = s.heartbeat
  BY <1>2, <1>3, <1>4, DemotedFields
<1>8. \A b \in BasisIds : Eligible(t, b) <=> Eligible(asked, b)
  BY <1>2, <1>7 DEF Eligible, Supported, MatchesProfile
<1>9. {b \in s.sources : Eligible(t, b)} = S /\ {b \in s.verdicts : Eligible(t, b)} = V
  BY <1>1, <1>6, <1>8 DEF ControlState
<1>10. ClaimsBacked(t)
  <2>1. \A b \in S \cup V : Supported(t, b)
    BY <1>1, <1>5, <1>7, <1>8 DEF Eligible, ControlState
  <2> QED BY <1>1, <1>5, <1>7, <2>1 DEF Canonical, ValidState, ClaimsBacked, ControlState, Substantive
<1>11. TimeRespected(t)
  <2>1. \A b \in S \cup V : Eligible(t, b)
    BY <1>1, <1>5, <1>7, <1>8 DEF ControlState
  <2> QED BY <1>1, <1>7, <2>1 DEF Canonical, ValidState, TimeRespected, HeartbeatMissed, Substantive
<1>12. Canonical(t)
  BY <1>1, <1>5, <1>7, <1>10, <1>11 DEF Canonical, ValidState, ClaimsBacked, Substantive
<1> HIDE DEF S
<1> QED BY <1>2, <1>7, <1>9, <1>12 DEF t

\* So is a change of the required profile, when the version advances and the
\* request is new.
LEMMA ProfileChangeAgrees ==
    ASSUME NEW s, Canonical(s), NEW p \in Profile, NEW r \in RequestIds \cup {None},
           ProfileAdvances(s, p, r)
    PROVE  LET t == ApplyProfileChange(s, p, r) IN
           Canonical(t) /\ HistoryKept(s, t) /\ VerifiedProfileChange(s, "I3", p, r, t)
<1> DEFINE t == ApplyProfileChange(s, p, r)
           S == {b \in s.sources : Eligible(t, b)}
           V == {b \in s.verdicts : Eligible(t, b)}
<1>1. s \in ControlState
  BY DEF Canonical
<1>2. /\ Canonical(t) /\ t.sources = S /\ t.verdicts = V
      /\ t.source = (IF S = {} THEN "sourceUnknown" ELSE s.source)
      /\ t.assurance = (IF s.obligation # "current" THEN "assuranceNA"
                        ELSE IF s.assurance \in Substantive /\ V = {} THEN "stale"
                        ELSE s.assurance)
      /\ t.obligation = s.obligation /\ t.evidence = s.evidence /\ t.bases = s.bases
      /\ t.now = s.now /\ t.required = p
      /\ t.requests = [q \in RequestIds |-> IF q = r THEN "pending" ELSE s.requests[q]]
      /\ t.heartbeat = s.heartbeat
  BY ProfileChangeFields
<1>3. r # None => s.requests[r] = "absent"
  BY DEF ProfileAdvances
<1> HIDE DEF t
<1>4. VerifiedProfileChange(s, "I3", p, r, t)
  <2>1. {q \in RequestIds : s.requests[q] = "absent" /\ t.requests[q] # "absent"} = {r} \ {None}
    BY <1>1, <1>2, <1>3, KernelAssumption DEF ControlState
  <2>2. r # None => t.requests[r] = "pending"
    BY <1>2
  <2> QED BY <1>2, <2>1, <2>2 DEF VerifiedProfileChange, SurvivalCanonical
<1>5. HistoryKept(s, t)
  <2>1. s.required # None /\ s.required.id = p.id => s.required.ver <= p.ver
    BY <1>1, KernelAssumption DEF ProfileAdvances, ControlState, Profile
  <2>2. \A q \in RequestIds : s.requests[q] # "absent" => t.requests[q] = s.requests[q]
    BY <1>2, <1>3, KernelAssumption
  <2> QED BY <1>1, <1>2, <2>1, <2>2 DEF HistoryKept, ControlState
<1> QED BY <1>2, <1>4, <1>5 DEF t

\* A reassessment request changes nothing but the request.
LEMMA RequestAgrees ==
    ASSUME NEW s, Canonical(s), NEW r \in RequestIds, s.requests[r] = "absent"
    PROVE  LET t == ApplyRequest(s, r) IN
           Canonical(t) /\ HistoryKept(s, t) /\ VerifiedRequest(s, "I3", r, t)
<1> DEFINE t == ApplyRequest(s, r)
<1>1. s \in ControlState
  BY DEF Canonical
<1>2. /\ t \in ControlState /\ t.requests = [s.requests EXCEPT ![r] = "pending"]
      /\ t.obligation = s.obligation /\ t.source = s.source
      /\ t.assurance = s.assurance /\ t.bases = s.bases /\ t.evidence = s.evidence
      /\ t.now = s.now /\ t.required = s.required /\ t.heartbeat = s.heartbeat
      /\ t.sources = s.sources /\ t.verdicts = s.verdicts
  BY <1>1 DEF ApplyRequest, ControlState
<1> HIDE DEF t
<1>3. VerifiedRequest(s, "I3", r, t)
  BY <1>2 DEF VerifiedRequest, GovernanceKept, Substance
<1>4. HistoryKept(s, t)
  BY <1>1, <1>2, KernelAssumption DEF HistoryKept, ControlState, Profile
<1>5. Canonical(t)
  BY <1>2 DEF Canonical, ValidState, ClaimsBacked, TimeRespected, Supported, Eligible,
     MatchesProfile, HeartbeatMissed
<1> QED BY <1>3, <1>4, <1>5 DEF t

\* A heartbeat changes nothing but the next deadline, which lies ahead.
LEMMA HeartbeatAgrees ==
    ASSUME NEW s, Canonical(s), NEW i \in Intervals \cup {None}, NextInterval(s, i) # None
    PROVE  LET t == ApplyHeartbeat(s, i) IN
           Canonical(t) /\ HistoryKept(s, t) /\ VerifiedHeartbeat(s, "I3", i, t)
<1> DEFINE t == ApplyHeartbeat(s, i)
           n == NextInterval(s, i)
<1>1. s \in ControlState
  BY DEF Canonical
<1>2. n \in Intervals /\ n \in Nat \ {0} /\ s.now \in Nat
  BY <1>1, KernelAssumption DEF NextInterval, ControlState, Heartbeat
<1>3. /\ t \in ControlState /\ t.heartbeat = [interval |-> n, due |-> s.now + n]
      /\ t.obligation = s.obligation /\ t.source = s.source
      /\ t.assurance = s.assurance /\ t.bases = s.bases /\ t.evidence = s.evidence
      /\ t.now = s.now /\ t.required = s.required /\ t.requests = s.requests
      /\ t.sources = s.sources /\ t.verdicts = s.verdicts
  BY <1>1, <1>2 DEF ApplyHeartbeat, ControlState, Heartbeat
<1> HIDE DEF t, n
<1>4. VerifiedHeartbeat(s, "I3", i, t)
  BY <1>3 DEF VerifiedHeartbeat, Substance, n
<1>5. HistoryKept(s, t)
  BY <1>1, <1>3, KernelAssumption DEF HistoryKept, ControlState, Profile
<1>6. TimeRespected(t)
  <2>1. t.heartbeat.due - t.heartbeat.interval <= t.now /\ ~(t.heartbeat.due <= t.now)
    BY <1>2, <1>3
  <2> QED BY <1>3, <2>1 DEF Canonical, ValidState, TimeRespected, Supported, Eligible,
             MatchesProfile, HeartbeatMissed
<1>7. Canonical(t)
  BY <1>3, <1>6 DEF Canonical, ValidState, ClaimsBacked, Supported
<1> QED BY <1>4, <1>5, <1>7 DEF t

\* apply_reassess yields a typed state whose claims without support have no
\* bases; that the others are backed is for the oracle to check.
LEMMA ReassessTyped ==
    ASSUME NEW s, Canonical(s), NEW f \in Reassessment, Accepted(s, ApplyReassess(s, f))
    PROVE  Canonical(ApplyReassess(s, f))
<1> DEFINE t == ApplyReassess(s, f)
<1>1. s \in ControlState
  BY DEF Canonical
<1>2. /\ FoundSource(s, f) \in SourceStates /\ FoundAssurance(s, f) \in Assurances
      /\ f.evidence \subseteq EvidenceIds /\ f.bases \subseteq BasisIds
  BY <1>1 DEF FoundSource, FoundAssurance, Reassessment, ControlState
<1>3. \A B \in SUBSET BasisIds : \A c :
         SourceBases(B, c) \in SUBSET BasisIds /\ VerdictBases(B, c) \in SUBSET BasisIds
  BY DEF SourceBases, VerdictBases
<1>4. t \in ControlState
  BY <1>1, <1>2, <1>3 DEF ApplyReassess, ControlState
<1>5. /\ t.source = "sourceUnknown" => t.sources = {}
      /\ t.assurance \notin Substantive => t.verdicts = {}
  BY <1>1 DEF ApplyReassess, ControlState
<1> QED BY <1>4, <1>5 DEF Canonical, Accepted

\* apply_retire yields a typed state without a current view.
LEMMA RetireTyped ==
    ASSUME NEW s, Canonical(s), NEW e \in EvidenceIds, Accepted(s, ApplyRetire(s, e))
    PROVE  Canonical(ApplyRetire(s, e))
<1> DEFINE t == ApplyRetire(s, e)
<1>1. s \in ControlState
  BY DEF Canonical
<1>2. t \in ControlState /\ t.sources = {} /\ t.verdicts = {}
  BY <1>1 DEF ApplyRetire, ControlState, Obligations, SourceStates, Assurances
<1> QED BY <1>2 DEF Canonical, Accepted

\* A new control is canonical.
LEMMA InitCanonical == Init => ControlInv
<1> SUFFICES ASSUME Init PROVE ControlInv
  OBVIOUS
<1>1. /\ control \in ControlState
      /\ control.source = "sourceUnknown" /\ control.assurance \notin Substantive
      /\ control.sources = {} /\ control.verdicts = {} /\ control.heartbeat = None
      /\ \A e \in EvidenceIds : control.evidence[e] = "absent"
      /\ control.obligation # "current" => control.assurance = "assuranceNA"
  BY DEF Init, ControlState, Obligations, SourceStates, Assurances, Substantive
<1>2. ValidState(control)
  BY <1>1 DEF ValidState, ClaimsBacked, TimeRespected, HeartbeatMissed
<1> QED BY <1>1, <1>2 DEF ControlInv, Canonical

\* Every event the oracle accepts leaves a canonical state.
LEMMA NextCanonical == ControlInv /\ [Next]_vars => ControlInv'
<1> SUFFICES ASSUME ControlInv, [Next]_vars PROVE ControlInv'
  OBVIOUS
<1> USE DEF ControlInv, Commit
<1>1. ASSUME NEW d \in Dependencies, DependencyChange(d) PROVE ControlInv'
  BY <1>1, DependencyChangeAgrees DEF DependencyChange
<1>2. ASSUME NEW time \in 0..MaxTime, AdvanceClock(time) PROVE ControlInv'
  <2>1. control.now \in Nat /\ time \in Nat
    BY <1>2, KernelAssumption DEF Canonical, ControlState
  <2> QED BY <1>2, <2>1, AdvanceClockAgrees DEF AdvanceClock
<1>3. ASSUME NEW p \in Profile, NEW r \in RequestIds \cup {None}, ProfileChange(p, r)
      PROVE  ControlInv'
  BY <1>3, ProfileChangeAgrees DEF ProfileChange
<1>4. ASSUME NEW r \in RequestIds, RequestReassessment(r) PROVE ControlInv'
  BY <1>4, RequestAgrees DEF RequestReassessment
<1>5. ASSUME NEW i \in Intervals \cup {None}, RecordHeartbeat(i) PROVE ControlInv'
  BY <1>5, HeartbeatAgrees DEF RecordHeartbeat
<1>6. ASSUME NEW f \in Reassessment, Reassess(f) PROVE ControlInv'
  BY <1>6, ReassessTyped DEF Reassess
<1>7. ASSUME NEW e \in EvidenceIds, RetireControl(e) PROVE ControlInv'
  BY <1>7, RetireTyped DEF RetireControl
<1>8. CASE UNCHANGED vars
  BY <1>8 DEF vars
<1> QED BY <1>1, <1>2, <1>3, <1>4, <1>5, <1>6, <1>7, <1>8 DEF Next

\* The control state is canonical in every state the oracle leads to.
THEOREM ControlCanonical == Spec => []ControlInv
BY InitCanonical, NextCanonical, PTL DEF Spec

\* In no state the oracle leads to do the verifiers reject a dependency change,
\* a tick of the clock, a profile change, a request or a heartbeat that its
\* transition lets through: time can not be blocked by the oracle.
THEOREM VerifierAgreement == Spec => []VerifierAgrees
<1>1. ControlInv => VerifierAgrees
  <2> SUFFICES ASSUME ControlInv PROVE VerifierAgrees
    OBVIOUS
  <2>1. Canonical(control) /\ control.now \in Nat
    BY DEF ControlInv, Canonical, ControlState
  <2> USE <2>1 DEF Accepted, Canonical
  <2>2. \A d \in Dependencies :
           LET t == ApplyDependencyChange(control, d)
           IN  Accepted(control, t) /\ VerifiedDependencyChange(control, d, t)
    BY DependencyChangeAgrees
  <2>3. \A time \in control.now..MaxTime :
           LET t == ApplyAdvanceClock(control, time)
           IN  Accepted(control, t) /\ VerifiedAdvanceClock(control, time, t)
    <3>1. \A time \in control.now..MaxTime : time \in Nat /\ control.now <= time
      BY KernelAssumption
    <3> QED BY <3>1, AdvanceClockAgrees
  <2>4. \A p \in Profile, r \in RequestIds \cup {None} :
           LET t == ApplyProfileChange(control, p, r)
           IN  ProfileAdvances(control, p, r) =>
                  Accepted(control, t) /\ VerifiedProfileChange(control, "I3", p, r, t)
    BY ProfileChangeAgrees
  <2>5. \A r \in RequestIds :
           LET t == ApplyRequest(control, r)
           IN  control.requests[r] = "absent" =>
                  Accepted(control, t) /\ VerifiedRequest(control, "I3", r, t)
    BY RequestAgrees
  <2>6. \A i \in Intervals \cup {None} :
           LET t == ApplyHeartbeat(control, i)
           IN  NextInterval(control, i) # None =>
                  Accepted(control, t) /\ VerifiedHeartbeat(control, "I3", i, t)
    BY HeartbeatAgrees
  <2> QED BY <2>2, <2>3, <2>4, <2>5, <2>6 DEF VerifierAgrees
<1> QED BY <1>1, ControlCanonical, PTL

\* t claims no more than s, and on no other bases.
Weaker(s, t) ==
    /\ t.source \in {s.source, "sourceUnknown"}
    /\ t.assurance \in {s.assurance, "stale", "assuranceNA"}
    /\ t.sources \subseteq s.sources
    /\ t.verdicts \subseteq s.verdicts

\* No event but a reassessment strengthens the current view, and a reassessment
\* strengthens it only with bases nobody had recorded.
LEMMA ViewStep ==
    ASSUME ControlInv, [Next]_vars
    PROVE  /\ control'.source \notin {control.source, "sourceUnknown"}
                => control'.sources \ control.bases # {}
           /\ control'.assurance \in Substantive \ {control.assurance}
                => control'.verdicts \ control.bases # {}
           /\ control'.sources \cap control.bases \subseteq control.sources
           /\ control'.verdicts \cap control.bases \subseteq control.verdicts
<1>1. CASE \E f \in Reassessment : Reassess(f)
  <2> PICK f \in Reassessment : Reassess(f)
    BY <1>1
  <2>1. f.bases \cap control.bases = {}
    BY DEF Reassess, FreshIdentities
  <2>2. /\ control'.sources \subseteq SourceBases(control.sources \cup f.bases, control'.source)
        /\ control'.verdicts \subseteq VerdictBases(control.verdicts \cup f.bases, control'.assurance)
    BY DEF Reassess, VerifiedReassess, Commit
  <2>3. ClaimsBacked(control) /\ ClaimsBacked(control')
    BY DEF ControlInv, Canonical, ValidState, Reassess, Commit, Accepted
  <2>4. control'.assurance \in Substantive => control'.obligation = "current"
    BY <2>3 DEF ClaimsBacked, Substantive
  <2> QED BY <2>1, <2>2, <2>3, <2>4 DEF ClaimsBacked, SourceBases, VerdictBases
<1>2. CASE ~\E f \in Reassessment : Reassess(f)
  <2>1. Weaker(control, control')
    <3> USE DEF Weaker, Commit, SurvivalCanonical, Substance
    <3>1. CASE \E d \in Dependencies : DependencyChange(d)
      BY <3>1 DEF DependencyChange, VerifiedDependencyChange
    <3>2. CASE \E time \in 0..MaxTime : AdvanceClock(time)
      BY <3>2 DEF AdvanceClock, VerifiedAdvanceClock
    <3>3. CASE \E p \in Profile, r \in RequestIds \cup {None} : ProfileChange(p, r)
      BY <3>3 DEF ProfileChange, VerifiedProfileChange
    <3>4. CASE \E r \in RequestIds : RequestReassessment(r)
      BY <3>4 DEF RequestReassessment, VerifiedRequest
    <3>5. CASE \E i \in Intervals \cup {None} : RecordHeartbeat(i)
      BY <3>5 DEF RecordHeartbeat, VerifiedHeartbeat
    <3>6. CASE \E e \in EvidenceIds : RetireControl(e)
      BY <3>6 DEF RetireControl, VerifiedRetire
    <3>7. CASE UNCHANGED vars
      BY <3>7 DEF vars
    <3> QED BY <1>2, <3>1, <3>2, <3>3, <3>4, <3>5, <3>6, <3>7 DEF Next
  <2> QED BY <2>1 DEF Weaker, Substantive
<1> QED BY <1>1, <1>2

\* README: heartbeats and requests cannot promote; nor can time, a dependency
\* change, a profile change, or a reassessment without a basis of its own.
THEOREM NothingPromotes == Spec => NoPromotion
<1>1. ControlInv /\ [Next]_vars =>
        [/\ control'.source \notin {control.source, "sourceUnknown"}
              => control'.sources \ control.bases # {}
         /\ control'.assurance \in Substantive \ {control.assurance}
              => control'.verdicts \ control.bases # {}]_vars
  BY ViewStep
<1> QED BY <1>1, ControlCanonical, PTL DEF Spec, NoPromotion

\* A basis that lost its place in the current view never regains it: the way
\* back is a new basis (apply_reassess refuses a recorded identity).
THEOREM LostBasesStayLost == Spec => BasisNeverReturns
<1>1. ControlInv /\ [Next]_vars =>
        [/\ control'.sources \cap control.bases \subseteq control.sources
         /\ control'.verdicts \cap control.bases \subseteq control.verdicts]_vars
  BY ViewStep
<1> QED BY <1>1, ControlCanonical, PTL DEF Spec, BasisNeverReturns
(***************************************************************************)
(* Convergence.  In a canonical state every basis of the current view is   *)
(* eligible, so whether it survives an event depends on its members alone. *)
(***************************************************************************)
Untouched(b, d) == \A e \in Members[b] : d \notin DependsOn[e]
InTime(b, t) == \A e \in Members[b] : ~Due(e, t)
Fits(b, p) == \A e \in Members[b] : MadeFor[e] \in {None, p}

\* t is s with only the bases S and V left in the current view.
Left(s, t, S, V) ==
    /\ Canonical(t)
    /\ t.obligation = s.obligation /\ t.bases = s.bases
    /\ t.sources = S /\ t.verdicts = V
    /\ t.source = IF S = {} THEN "sourceUnknown" ELSE s.source
    /\ t.assurance = IF s.assurance \in Substantive /\ V = {} THEN "stale" ELSE s.assurance

\* Two states that agree in every field are one.
LEMMA SameFields ==
    ASSUME NEW s \in ControlState, NEW t \in ControlState,
           s.obligation = t.obligation, s.source = t.source, s.assurance = t.assurance,
           s.evidence = t.evidence, s.bases = t.bases, s.sources = t.sources,
           s.verdicts = t.verdicts, s.now = t.now, s.required = t.required,
           s.requests = t.requests, s.heartbeat = t.heartbeat
    PROVE  s = t
BY DEF ControlState

\* What two events leave, one after the other.
LEMMA LeftTwice ==
    ASSUME NEW s, NEW t, NEW u, Canonical(s), NEW S1, NEW V1, NEW S2, NEW V2,
           Left(s, t, S1, V1), Left(t, u, S2, V2), S2 \subseteq S1, V2 \subseteq V1
    PROVE  Left(s, u, S2, V2)
BY DEF Left, Substantive

\* Every basis of the current view is eligible.
LEMMA CurrentEligible ==
    ASSUME NEW s, Canonical(s), NEW b \in s.sources \cup s.verdicts
    PROVE  /\ b \in BasisIds /\ Eligible(s, b)
           /\ \A e \in Members[b] : e \in EvidenceIds /\ s.evidence[e] = "current"
BY KernelAssumption DEF Canonical, ValidState, TimeRespected, Eligible, Supported, ControlState

\* A dependency change.
LEMMA DependencyChangeLeft ==
    ASSUME NEW s, Canonical(s), NEW d \in Dependencies
    PROVE  LET t == ApplyDependencyChange(s, d) IN
           /\ Left(s, t, {b \in s.sources : Untouched(b, d)}, {b \in s.verdicts : Untouched(b, d)})
           /\ t.evidence = [e \in EvidenceIds |->
                               IF s.evidence[e] = "current" /\ d \in DependsOn[e]
                               THEN "invalidated" ELSE s.evidence[e]]
           /\ t.now = s.now /\ t.required = s.required /\ t.requests = s.requests
           /\ t.heartbeat = s.heartbeat
<1> DEFINE t == ApplyDependencyChange(s, d)
<1>1. Canonical(t) /\ VerifiedDependencyChange(s, d, t)
  BY DependencyChangeAgrees
<1> HIDE DEF t
<1>2. s \in ControlState /\ t \in ControlState
  BY <1>1 DEF Canonical
<1>3. \A b \in s.sources \cup s.verdicts : Supported(t, b) <=> Untouched(b, d)
  BY <1>1, CurrentEligible DEF VerifiedDependencyChange, Supported, Eligible, Untouched
<1>4. /\ t.evidence = [e \in EvidenceIds |->
                          IF s.evidence[e] = "current" /\ d \in DependsOn[e]
                          THEN "invalidated" ELSE s.evidence[e]]
      /\ t.now = s.now /\ t.required = s.required /\ t.requests = s.requests
      /\ t.heartbeat = s.heartbeat
  BY <1>1, <1>2 DEF VerifiedDependencyChange, GovernanceKept, ControlState
<1>5. /\ t.sources = {b \in s.sources : Untouched(b, d)}
      /\ t.verdicts = {b \in s.verdicts : Untouched(b, d)}
  BY <1>1, <1>3 DEF VerifiedDependencyChange, SurvivalCanonical
<1>6. t.obligation = s.obligation
  BY <1>2 DEF t, ApplyDependencyChange, Demoted, ControlState
<1>7. /\ t.bases = s.bases
      /\ t.source = (IF t.sources = {} THEN "sourceUnknown" ELSE s.source)
      /\ t.assurance = (IF s.assurance \in Substantive /\ t.verdicts = {} THEN "stale" ELSE s.assurance)
  BY <1>1 DEF VerifiedDependencyChange, SurvivalCanonical, Canonical, ValidState, ClaimsBacked, Substantive
<1> QED BY <1>1, <1>4, <1>5, <1>6, <1>7 DEF Left, t

\* A tick of the clock.
LEMMA AdvanceClockLeft ==
    ASSUME NEW s, Canonical(s), NEW time \in Nat, s.now <= time
    PROVE  LET t == ApplyAdvanceClock(s, time) IN
           /\ Left(s, t, {b \in s.sources : InTime(b, time)},
                   {b \in s.verdicts : InTime(b, time) /\ ~HeartbeatMissed(s, time)})
           /\ t.evidence = [e \in EvidenceIds |->
                               IF s.evidence[e] = "current" /\ Due(e, time)
                               THEN "expired" ELSE s.evidence[e]]
           /\ t.now = time /\ t.required = s.required /\ t.requests = s.requests
           /\ t.heartbeat = s.heartbeat
<1> DEFINE t == ApplyAdvanceClock(s, time)
<1>1. Canonical(t) /\ VerifiedAdvanceClock(s, time, t)
  BY AdvanceClockAgrees
<1> HIDE DEF t
<1>2. s \in ControlState /\ t \in ControlState
  BY <1>1 DEF Canonical
<1>3. \A b \in s.sources \cup s.verdicts : Eligible(t, b) <=> InTime(b, time)
  BY <1>1, CurrentEligible DEF VerifiedAdvanceClock, Supported, Eligible, InTime, MatchesProfile
<1>4. /\ t.evidence = [e \in EvidenceIds |->
                          IF s.evidence[e] = "current" /\ Due(e, time)
                          THEN "expired" ELSE s.evidence[e]]
      /\ t.now = time /\ t.required = s.required /\ t.requests = s.requests
      /\ t.heartbeat = s.heartbeat
  BY <1>1, <1>2 DEF VerifiedAdvanceClock, ControlState
<1>5. /\ t.sources = {b \in s.sources : InTime(b, time)}
      /\ t.verdicts = {b \in s.verdicts : InTime(b, time) /\ ~HeartbeatMissed(s, time)}
  BY <1>1, <1>3 DEF VerifiedAdvanceClock, SurvivalCanonical
<1>6. t.obligation = s.obligation
  BY <1>2 DEF t, ApplyAdvanceClock, Demoted, ControlState
<1>7. /\ t.bases = s.bases
      /\ t.source = (IF t.sources = {} THEN "sourceUnknown" ELSE s.source)
      /\ t.assurance = (IF s.assurance \in Substantive /\ t.verdicts = {} THEN "stale" ELSE s.assurance)
  BY <1>1 DEF VerifiedAdvanceClock, SurvivalCanonical, Canonical, ValidState, ClaimsBacked, Substantive
<1> QED BY <1>1, <1>4, <1>5, <1>6, <1>7 DEF Left, t

\* A change of the required profile, with no request.
LEMMA ProfileChangeLeft ==
    ASSUME NEW s, Canonical(s), NEW p \in Profile
    PROVE  LET t == ApplyProfileChange(s, p, None) IN
           /\ Left(s, t, {b \in s.sources : Fits(b, p)}, {b \in s.verdicts : Fits(b, p)})
           /\ t.evidence = s.evidence
           /\ t.now = s.now /\ t.required = p /\ t.requests = s.requests
           /\ t.heartbeat = s.heartbeat
<1> DEFINE t == ApplyProfileChange(s, p, None)
           S == {b \in s.sources : Eligible(t, b)}
           V == {b \in s.verdicts : Eligible(t, b)}
<1>1. /\ Canonical(t) /\ t.sources = S /\ t.verdicts = V
      /\ t.source = (IF S = {} THEN "sourceUnknown" ELSE s.source)
      /\ t.assurance = (IF s.obligation # "current" THEN "assuranceNA"
                        ELSE IF s.assurance \in Substantive /\ V = {} THEN "stale"
                        ELSE s.assurance)
      /\ t.obligation = s.obligation /\ t.evidence = s.evidence /\ t.bases = s.bases
      /\ t.now = s.now /\ t.required = p
      /\ t.requests = [q \in RequestIds |-> IF q = None THEN "pending" ELSE s.requests[q]]
      /\ t.heartbeat = s.heartbeat
  BY ProfileChangeFields
<1> HIDE DEF t
<1>2. s \in ControlState
  BY DEF Canonical
<1>3. p # None
  BY KernelAssumption
<1>4. \A b \in s.sources \cup s.verdicts : Eligible(t, b) <=> Fits(b, p)
  BY <1>1, <1>3, CurrentEligible DEF Supported, Eligible, Fits, MatchesProfile
<1>5. S = {b \in s.sources : Fits(b, p)} /\ V = {b \in s.verdicts : Fits(b, p)}
  BY <1>4
<1>6. t.requests = s.requests
  BY <1>1, <1>2, KernelAssumption DEF ControlState
<1>7. t.assurance = IF s.assurance \in Substantive /\ V = {} THEN "stale" ELSE s.assurance
  BY <1>1 DEF Canonical, ValidState, ClaimsBacked, Substantive
<1> HIDE DEF S, V
<1> QED BY <1>1, <1>5, <1>6, <1>7 DEF Left, t

\* The order of two dependency changes does not show at all.
LEMMA DependencyChangesCommute ==
    ASSUME NEW s, Canonical(s), NEW d1 \in Dependencies, NEW d2 \in Dependencies
    PROVE  ApplyDependencyChange(ApplyDependencyChange(s, d1), d2)
             = ApplyDependencyChange(ApplyDependencyChange(s, d2), d1)
<1> DEFINE after(x, d) == ApplyDependencyChange(x, d)
           S == {b \in s.sources : Untouched(b, d1) /\ Untouched(b, d2)}
           V == {b \in s.verdicts : Untouched(b, d1) /\ Untouched(b, d2)}
           spoiled == [e \in EvidenceIds |->
                          IF s.evidence[e] = "current" /\ (d1 \in DependsOn[e] \/ d2 \in DependsOn[e])
                          THEN "invalidated" ELSE s.evidence[e]]
<1>1. ASSUME NEW d \in Dependencies, NEW c \in Dependencies, {c, d} = {d1, d2}
      PROVE  LET u == after(after(s, d), c) IN
             /\ Left(s, u, S, V) /\ u.evidence = spoiled
             /\ u.now = s.now /\ u.required = s.required /\ u.requests = s.requests
             /\ u.heartbeat = s.heartbeat
  <2> DEFINE t == after(s, d)
             u == after(t, c)
             S1 == {b \in s.sources : Untouched(b, d)}
             V1 == {b \in s.verdicts : Untouched(b, d)}
  <2>1. /\ Left(s, t, S1, V1)
        /\ t.evidence = [e \in EvidenceIds |->
                            IF s.evidence[e] = "current" /\ d \in DependsOn[e]
                            THEN "invalidated" ELSE s.evidence[e]]
        /\ t.now = s.now /\ t.required = s.required /\ t.requests = s.requests
        /\ t.heartbeat = s.heartbeat
    BY DependencyChangeLeft
  <2>2. Canonical(t) /\ t.sources = S1 /\ t.verdicts = V1
    BY <2>1 DEF Left
  <2> HIDE DEF t
  <2>3. /\ Left(t, u, {b \in t.sources : Untouched(b, c)}, {b \in t.verdicts : Untouched(b, c)})
        /\ u.evidence = [e \in EvidenceIds |->
                            IF t.evidence[e] = "current" /\ c \in DependsOn[e]
                            THEN "invalidated" ELSE t.evidence[e]]
        /\ u.now = t.now /\ u.required = t.required /\ u.requests = t.requests
        /\ u.heartbeat = t.heartbeat
    BY <2>2, DependencyChangeLeft
  <2> HIDE DEF u
  <2>4. {b \in t.sources : Untouched(b, c)} = S /\ {b \in t.verdicts : Untouched(b, c)} = V
    BY <1>1, <2>2
  <2>5. Left(s, u, S, V)
    <3>1. S \subseteq S1 /\ V \subseteq V1 /\ Left(t, u, S, V)
      BY <1>1, <2>3, <2>4
    <3> HIDE DEF S, V, S1, V1
    <3> QED BY <2>1, <3>1, LeftTwice
  <2>6. u.evidence = spoiled
    BY <1>1, <2>1, <2>3
  <2> QED BY <2>1, <2>3, <2>5, <2>6 DEF u, t
<1>2. {d2, d1} = {d1, d2}
  OBVIOUS
<1> HIDE DEF S, V, spoiled
<1>3. after(after(s, d1), d2) \in ControlState /\ after(after(s, d2), d1) \in ControlState
  BY <1>1, <1>2 DEF Left, Canonical
<1> QED BY <1>1, <1>2, <1>3, SameFields DEF Left

\* A dependency change and a tick leave the same current view in either order.
LEMMA DependencyChangeAndClock ==
    ASSUME NEW s, Canonical(s), NEW d \in Dependencies, NEW time \in Nat, s.now <= time
    PROVE  View(ApplyAdvanceClock(ApplyDependencyChange(s, d), time))
             = View(ApplyDependencyChange(ApplyAdvanceClock(s, time), d))
<1> DEFINE hit == ApplyDependencyChange(s, d)
           aged == ApplyAdvanceClock(s, time)
           S == {b \in s.sources : Untouched(b, d) /\ InTime(b, time)}
           V == {b \in s.verdicts : Untouched(b, d) /\ InTime(b, time) /\ ~HeartbeatMissed(s, time)}
<1>1. /\ Left(s, hit, {b \in s.sources : Untouched(b, d)}, {b \in s.verdicts : Untouched(b, d)})
      /\ hit.now = s.now /\ hit.heartbeat = s.heartbeat
  BY DependencyChangeLeft
<1>2. Left(s, aged, {b \in s.sources : InTime(b, time)},
                    {b \in s.verdicts : InTime(b, time) /\ ~HeartbeatMissed(s, time)})
  BY AdvanceClockLeft
<1> HIDE DEF hit, aged
<1>3. Left(s, ApplyAdvanceClock(hit, time), S, V)
  <2>1. Canonical(hit) /\ hit.now <= time
    BY <1>1 DEF Left
  <2>2. Left(hit, ApplyAdvanceClock(hit, time), {b \in hit.sources : InTime(b, time)},
             {b \in hit.verdicts : InTime(b, time) /\ ~HeartbeatMissed(hit, time)})
    BY <2>1, AdvanceClockLeft
  <2>3. /\ {b \in hit.sources : InTime(b, time)} = S
        /\ {b \in hit.verdicts : InTime(b, time) /\ ~HeartbeatMissed(hit, time)} = V
    BY <1>1 DEF Left, HeartbeatMissed
  <2> QED BY <1>1, <2>2, <2>3, LeftTwice
<1>4. Left(s, ApplyDependencyChange(aged, d), S, V)
  <2>1. Canonical(aged)
    BY <1>2 DEF Left
  <2>2. Left(aged, ApplyDependencyChange(aged, d), {b \in aged.sources : Untouched(b, d)},
             {b \in aged.verdicts : Untouched(b, d)})
    BY <2>1, DependencyChangeLeft
  <2>3. {b \in aged.sources : Untouched(b, d)} = S /\ {b \in aged.verdicts : Untouched(b, d)} = V
    BY <1>2 DEF Left
  <2>4. Left(aged, ApplyDependencyChange(aged, d), S, V)
    BY <2>2, <2>3
  <2>5. S \subseteq {b \in s.sources : InTime(b, time)}
    OBVIOUS
  <2>6. V \subseteq {b \in s.verdicts : InTime(b, time) /\ ~HeartbeatMissed(s, time)}
    OBVIOUS
  <2> HIDE DEF S, V
  <2> QED BY <1>2, <2>4, <2>5, <2>6, LeftTwice
<1> HIDE DEF S, V
<1> QED BY <1>3, <1>4 DEF Left, View, hit, aged

\* Nor does the number of ticks to a time: what the first tick dropped, the
\* second would have dropped too.
LEMMA TicksCompose ==
    ASSUME NEW s, Canonical(s), NEW t1 \in Nat, NEW t2 \in Nat, s.now <= t1, t1 <= t2
    PROVE  ApplyAdvanceClock(ApplyAdvanceClock(s, t1), t2) = ApplyAdvanceClock(s, t2)
<1> DEFINE mid == ApplyAdvanceClock(s, t1)
           twice == ApplyAdvanceClock(mid, t2)
           once == ApplyAdvanceClock(s, t2)
           S == {b \in s.sources : InTime(b, t2)}
           V == {b \in s.verdicts : InTime(b, t2) /\ ~HeartbeatMissed(s, t2)}
<1>1. s \in ControlState /\ s.now \in Nat /\ s.now <= t2
  BY DEF Canonical, ControlState
<1>2. \A e \in EvidenceIds : Due(e, t1) => Due(e, t2)
  BY KernelAssumption DEF Due
<1>3. HeartbeatMissed(s, t1) => HeartbeatMissed(s, t2)
  <2>1. s.heartbeat # None => s.heartbeat.due \in Nat
    BY <1>1 DEF ControlState, Heartbeat
  <2> QED BY <2>1 DEF HeartbeatMissed
<1>4. \A b \in s.sources \cup s.verdicts : InTime(b, t2) => InTime(b, t1)
  BY <1>2, CurrentEligible DEF InTime
<1>5. /\ Left(s, mid, {b \in s.sources : InTime(b, t1)},
              {b \in s.verdicts : InTime(b, t1) /\ ~HeartbeatMissed(s, t1)})
      /\ mid.evidence = [e \in EvidenceIds |->
                            IF s.evidence[e] = "current" /\ Due(e, t1)
                            THEN "expired" ELSE s.evidence[e]]
      /\ mid.now = t1 /\ mid.required = s.required /\ mid.requests = s.requests
      /\ mid.heartbeat = s.heartbeat
  BY AdvanceClockLeft
<1>6. /\ Left(s, once, S, V)
      /\ once.evidence = [e \in EvidenceIds |->
                             IF s.evidence[e] = "current" /\ Due(e, t2)
                             THEN "expired" ELSE s.evidence[e]]
      /\ once.now = t2 /\ once.required = s.required /\ once.requests = s.requests
      /\ once.heartbeat = s.heartbeat
  BY <1>1, AdvanceClockLeft
<1> HIDE DEF mid, once
<1>7. /\ Left(mid, twice, {b \in mid.sources : InTime(b, t2)},
              {b \in mid.verdicts : InTime(b, t2) /\ ~HeartbeatMissed(mid, t2)})
      /\ twice.evidence = [e \in EvidenceIds |->
                              IF mid.evidence[e] = "current" /\ Due(e, t2)
                              THEN "expired" ELSE mid.evidence[e]]
      /\ twice.now = t2 /\ twice.required = mid.required /\ twice.requests = mid.requests
      /\ twice.heartbeat = mid.heartbeat
  BY <1>5, AdvanceClockLeft DEF Left
<1> HIDE DEF twice
<1>8. /\ {b \in mid.sources : InTime(b, t2)} = S
      /\ {b \in mid.verdicts : InTime(b, t2) /\ ~HeartbeatMissed(mid, t2)} = V
  BY <1>3, <1>4, <1>5 DEF Left, HeartbeatMissed
<1>9. Left(s, twice, S, V)
  BY <1>3, <1>4, <1>5, <1>7, <1>8, LeftTwice
<1>10. twice.evidence = once.evidence
  BY <1>2, <1>5, <1>6, <1>7
<1> HIDE DEF S, V
<1>11. twice = once
  <2>1. twice \in ControlState /\ once \in ControlState
    BY <1>6, <1>9 DEF Left, Canonical
  <2> QED BY <1>5, <1>6, <1>7, <1>9, <1>10, <2>1, SameFields DEF Left
<1> QED BY <1>11 DEF twice, once, mid

\* A profile change and a tick commute.
LEMMA ProfileChangeAndClock ==
    ASSUME NEW s, Canonical(s), NEW p \in Profile, NEW time \in Nat, s.now <= time
    PROVE  ApplyAdvanceClock(ApplyProfileChange(s, p, None), time)
             = ApplyProfileChange(ApplyAdvanceClock(s, time), p, None)
<1> DEFINE asked == ApplyProfileChange(s, p, None)
           aged == ApplyAdvanceClock(s, time)
           one == ApplyAdvanceClock(asked, time)
           other == ApplyProfileChange(aged, p, None)
           S == {b \in s.sources : Fits(b, p) /\ InTime(b, time)}
           V == {b \in s.verdicts : Fits(b, p) /\ InTime(b, time) /\ ~HeartbeatMissed(s, time)}
           expired == [e \in EvidenceIds |->
                          IF s.evidence[e] = "current" /\ Due(e, time)
                          THEN "expired" ELSE s.evidence[e]]
<1>1. /\ Left(s, asked, {b \in s.sources : Fits(b, p)}, {b \in s.verdicts : Fits(b, p)})
      /\ asked.evidence = s.evidence /\ asked.now = s.now /\ asked.required = p
      /\ asked.requests = s.requests /\ asked.heartbeat = s.heartbeat
  BY ProfileChangeLeft
<1>2. /\ Left(s, aged, {b \in s.sources : InTime(b, time)},
                       {b \in s.verdicts : InTime(b, time) /\ ~HeartbeatMissed(s, time)})
      /\ aged.evidence = expired /\ aged.now = time
      /\ aged.requests = s.requests /\ aged.heartbeat = s.heartbeat
  BY AdvanceClockLeft
<1> HIDE DEF asked, aged
<1>3. /\ Left(asked, one, {b \in asked.sources : InTime(b, time)},
              {b \in asked.verdicts : InTime(b, time) /\ ~HeartbeatMissed(asked, time)})
      /\ one.evidence = expired /\ one.now = time /\ one.required = p
      /\ one.requests = s.requests /\ one.heartbeat = s.heartbeat
  <2>1. Canonical(asked) /\ asked.now <= time
    BY <1>1 DEF Left
  <2> QED BY <1>1, <2>1, AdvanceClockLeft
<1>4. /\ Left(aged, other, {b \in aged.sources : Fits(b, p)}, {b \in aged.verdicts : Fits(b, p)})
      /\ other.evidence = expired /\ other.now = time /\ other.required = p
      /\ other.requests = s.requests /\ other.heartbeat = s.heartbeat
  <2>1. Canonical(aged)
    BY <1>2 DEF Left
  <2> QED BY <1>2, <2>1, ProfileChangeLeft
<1> HIDE DEF one, other
<1>5. Left(s, one, S, V)
  <2>1. /\ {b \in asked.sources : InTime(b, time)} = S
        /\ {b \in asked.verdicts : InTime(b, time) /\ ~HeartbeatMissed(asked, time)} = V
    BY <1>1 DEF Left, HeartbeatMissed
  <2>2. Left(asked, one, S, V)
    BY <1>3, <2>1
  <2>3. S \subseteq {b \in s.sources : Fits(b, p)} /\ V \subseteq {b \in s.verdicts : Fits(b, p)}
    OBVIOUS
  <2> HIDE DEF S, V
  <2> QED BY <1>1, <2>2, <2>3, LeftTwice
<1>6. Left(s, other, S, V)
  <2>1. {b \in aged.sources : Fits(b, p)} = S /\ {b \in aged.verdicts : Fits(b, p)} = V
    BY <1>2 DEF Left
  <2>2. Left(aged, other, S, V)
    BY <1>4, <2>1
  <2>3. S \subseteq {b \in s.sources : InTime(b, time)}
    OBVIOUS
  <2>4. V \subseteq {b \in s.verdicts : InTime(b, time) /\ ~HeartbeatMissed(s, time)}
    OBVIOUS
  <2> HIDE DEF S, V
  <2> QED BY <1>2, <2>2, <2>3, <2>4, LeftTwice
<1> HIDE DEF S, V, expired
<1>7. one \in ControlState /\ other \in ControlState
  BY <1>5, <1>6 DEF Left, Canonical
<1>8. one = other
  BY <1>3, <1>4, <1>5, <1>6, <1>7, SameFields DEF Left
<1> QED BY <1>8 DEF one, other, asked, aged

\* A profile change and a dependency change commute.
LEMMA ProfileChangeAndDependencyChange ==
    ASSUME NEW s, Canonical(s), NEW p \in Profile, NEW d \in Dependencies
    PROVE  ApplyDependencyChange(ApplyProfileChange(s, p, None), d)
             = ApplyProfileChange(ApplyDependencyChange(s, d), p, None)
<1> DEFINE asked == ApplyProfileChange(s, p, None)
           hit == ApplyDependencyChange(s, d)
           one == ApplyDependencyChange(asked, d)
           other == ApplyProfileChange(hit, p, None)
           S == {b \in s.sources : Fits(b, p) /\ Untouched(b, d)}
           V == {b \in s.verdicts : Fits(b, p) /\ Untouched(b, d)}
           spoiled == [e \in EvidenceIds |->
                          IF s.evidence[e] = "current" /\ d \in DependsOn[e]
                          THEN "invalidated" ELSE s.evidence[e]]
<1>1. /\ Left(s, asked, {b \in s.sources : Fits(b, p)}, {b \in s.verdicts : Fits(b, p)})
      /\ asked.evidence = s.evidence /\ asked.now = s.now /\ asked.required = p
      /\ asked.requests = s.requests /\ asked.heartbeat = s.heartbeat
  BY ProfileChangeLeft
<1>2. /\ Left(s, hit, {b \in s.sources : Untouched(b, d)}, {b \in s.verdicts : Untouched(b, d)})
      /\ hit.evidence = spoiled /\ hit.now = s.now
      /\ hit.requests = s.requests /\ hit.heartbeat = s.heartbeat
  BY DependencyChangeLeft
<1> HIDE DEF asked, hit
<1>3. /\ Left(asked, one, {b \in asked.sources : Untouched(b, d)},
                          {b \in asked.verdicts : Untouched(b, d)})
      /\ one.evidence = spoiled /\ one.now = s.now /\ one.required = p
      /\ one.requests = s.requests /\ one.heartbeat = s.heartbeat
  <2>1. Canonical(asked)
    BY <1>1 DEF Left
  <2> QED BY <1>1, <2>1, DependencyChangeLeft
<1>4. /\ Left(hit, other, {b \in hit.sources : Fits(b, p)}, {b \in hit.verdicts : Fits(b, p)})
      /\ other.evidence = spoiled /\ other.now = s.now /\ other.required = p
      /\ other.requests = s.requests /\ other.heartbeat = s.heartbeat
  <2>1. Canonical(hit)
    BY <1>2 DEF Left
  <2> QED BY <1>2, <2>1, ProfileChangeLeft
<1> HIDE DEF one, other
<1>5. Left(s, one, S, V)
  <2>1. {b \in asked.sources : Untouched(b, d)} = S /\ {b \in asked.verdicts : Untouched(b, d)} = V
    BY <1>1 DEF Left
  <2>2. Left(asked, one, S, V)
    BY <1>3, <2>1
  <2>3. S \subseteq {b \in s.sources : Fits(b, p)} /\ V \subseteq {b \in s.verdicts : Fits(b, p)}
    OBVIOUS
  <2> HIDE DEF S, V
  <2> QED BY <1>1, <2>2, <2>3, LeftTwice
<1>6. Left(s, other, S, V)
  <2>1. {b \in hit.sources : Fits(b, p)} = S /\ {b \in hit.verdicts : Fits(b, p)} = V
    BY <1>2 DEF Left
  <2>2. Left(hit, other, S, V)
    BY <1>4, <2>1
  <2>3. /\ S \subseteq {b \in s.sources : Untouched(b, d)}
        /\ V \subseteq {b \in s.verdicts : Untouched(b, d)}
    OBVIOUS
  <2> HIDE DEF S, V
  <2> QED BY <1>2, <2>2, <2>3, LeftTwice
<1> HIDE DEF S, V, spoiled
<1>7. one \in ControlState /\ other \in ControlState
  BY <1>5, <1>6 DEF Left, Canonical
<1>8. one = other
  BY <1>3, <1>4, <1>5, <1>6, <1>7, SameFields DEF Left
<1> QED BY <1>8 DEF one, other, asked, hit

\* In every state the oracle leads to, the order of causally independent events
\* and the number of ticks to a time do not show in the current view.
THEOREM IndependentEventsConverge == Spec => []EventsConverge
<1>1. ControlInv => EventsConverge
  <2> SUFFICES ASSUME ControlInv PROVE EventsConverge
    OBVIOUS
  <2>1. Canonical(control) /\ control.now \in Nat
    BY DEF ControlInv, Canonical, ControlState
  <2>2. \A t \in control.now..MaxTime : t \in Nat /\ control.now <= t
    BY <2>1, KernelAssumption
  <2>3. \A d1, d2 \in Dependencies :
           ApplyDependencyChange(ApplyDependencyChange(control, d1), d2)
             = ApplyDependencyChange(ApplyDependencyChange(control, d2), d1)
    BY <2>1, DependencyChangesCommute
  <2>4. \A d \in Dependencies, t \in control.now..MaxTime :
           View(ApplyAdvanceClock(ApplyDependencyChange(control, d), t))
             = View(ApplyDependencyChange(ApplyAdvanceClock(control, t), d))
    BY <2>1, <2>2, DependencyChangeAndClock
  <2>5. \A t1, t2 \in control.now..MaxTime :
           t1 <= t2 => ApplyAdvanceClock(ApplyAdvanceClock(control, t1), t2)
                         = ApplyAdvanceClock(control, t2)
    BY <2>1, <2>2, TicksCompose
  <2>6. \A p \in Profile, t \in control.now..MaxTime :
           ApplyAdvanceClock(ApplyProfileChange(control, p, None), t)
             = ApplyProfileChange(ApplyAdvanceClock(control, t), p, None)
    BY <2>1, <2>2, ProfileChangeAndClock
  <2>7. \A p \in Profile, d \in Dependencies :
           ApplyDependencyChange(ApplyProfileChange(control, p, None), d)
             = ApplyProfileChange(ApplyDependencyChange(control, d), p, None)
    BY <2>1, ProfileChangeAndDependencyChange
  <2> QED BY <2>3, <2>4, <2>5, <2>6, <2>7 DEF EventsConverge
<1> QED BY <1>1, ControlCanonical, PTL
=============================================================================
