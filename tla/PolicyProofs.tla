----------------------------- MODULE PolicyProofs ----------------------------
(***************************************************************************)
(* Theorems about policies and their publication: an activatable policy    *)
(* never leaves a request between two grants or an exception without its   *)
(* grant, and the store that publishes them is the append-only register.   *)
(***************************************************************************)
EXTENDS PolicyPublication, SequenceTheorems, WellFoundedInduction, TLAPS

-----------------------------------------------------------------------------
(* What the preparer's checks of a policy are worth. *)

\* Two intervals that hold one sequence in common meet.
LEMMA InForceMeet ==
    ASSUME NEW a, NEW b, NEW at \in Nat,
           ValidInterval(a.from, a.until), ValidInterval(b.from, b.until),
           InForce(a, at), InForce(b, at)
    PROVE  IntervalsMeet(a, b)
BY DEF ValidInterval, InForce, IntervalsMeet

\* The overlap rules leave at most one grant for a request
\* (validate_policy_overlap against select_applicable_grant_v3).
THEOREM NoTwoGrants ==
    ASSUME NEW p, ValidPolicy(p), NoOverlap(p), NEW q, ValidRequest(q)
    PROVE  Selection(p, q) # "AMBIGUOUS_GRANTS"
<1>1. SUFFICES ASSUME NEW g \in Applicable(p, q), NEW h \in Applicable(p, q), g # h
               PROVE  FALSE
      BY DEF Selection
<1>2. /\ g \in p.grants /\ h \in p.grants
      /\ ValidGrant(g) /\ ValidGrant(h)
      /\ Covers(g, q) /\ Covers(h, q)
      BY DEF Applicable, ValidPolicy
<1>3. IntervalsMeet(g, h)
      BY <1>2, InForceMeet DEF ValidGrant, Covers, ValidRequest
<1>4. ScopesMeet(g.scopes, h.scopes)
      BY <1>2 DEF Covers, ScopeMatches, ScopesMeet
<1>5. g.levels \cap h.levels # {}
      BY <1>2 DEF Covers
<1>6. g.action \in ResolutionActions => g.challenges \cap h.challenges # {}
  <2>1. SUFFICES ASSUME g.action \in ResolutionActions
                 PROVE  g.challenges \cap h.challenges # {}
        OBVIOUS
  <2>2. g.challenges # {} /\ h.challenges # {}
        BY <1>2, <2>1 DEF ValidGrant, Covers
  <2>3. QED  BY <1>2, <2>2 DEF Covers
<1>7. GrantsOverlap(g, h)
      BY <1>2, <1>3, <1>4, <1>5, <1>6 DEF GrantsOverlap, Covers
<1>8. QED  BY <1>1, <1>2, <1>7 DEF NoOverlap

\* An exception that applies to a request resolving no challenge stands on a
\* grant that covers the request, so it never waives a duty for an authority
\* that could not act (_exception_covered against _exception_applies).
THEOREM ExceptionHasGrant ==
    ASSUME NEW p, ValidPolicy(p), NoOverlap(p), NEW q, ValidRequest(q),
           q.action \notin ResolutionActions,
           NEW x \in p.exceptions, NEW r, NEW id, ExceptionApplies(x, r, q, id)
    PROVE  Selection(p, q) = "SELECTED"
<1>1. PICK g \in p.grants : Covered(x, g)
      BY DEF ValidPolicy, ExceptionsNarrow
<1>2. ValidGrant(g) /\ ValidException(x)
      BY <1>1 DEF ValidPolicy
<1>3. InForce(g, q.at)
      BY <1>1, <1>2 DEF Covered, ValidGrant, ValidException, ValidInterval, InForce,
                        ExceptionApplies, ValidRequest
<1>4. ScopeMatches(q.scope, g.scopes)
      BY <1>1 DEF Covered, ScopeWithin, ScopeMatches, ExceptionApplies, ValidRequest
<1>5. Covers(g, q)
      BY <1>1, <1>2, <1>3, <1>4 DEF Covers, Covered, ValidGrant, ExceptionApplies, ValidRequest
<1>6. Applicable(p, q) # {}
      BY <1>1, <1>5 DEF Applicable
<1>7. Selection(p, q) # "AMBIGUOUS_GRANTS"
      BY NoTwoGrants
<1>8. QED  BY <1>6, <1>7 DEF Selection

-----------------------------------------------------------------------------
(* The ends of a set of numbers. *)

LEMMA FirstOf ==
    ASSUME NEW S \in SUBSET Nat, S # {}
    PROVE  \E n \in S : \A m \in S : n <= m
<1> DEFINE Less == OpToRel(<, Nat)
<1>1. \A m, n \in Nat : <<m, n>> \in Less <=> m < n
      BY DEF OpToRel
<1>2. IsWellFoundedOn(Less, Nat)
      BY NatLessThanWellFounded, Zenon
<1> HIDE DEF Less
<1>3. PICK n \in S : \A m \in S : <<m, n>> \notin Less
      BY <1>2, WFMin
<1>4. \A m \in S : ~(m < n)
      BY <1>1, <1>3
<1>5. QED  BY <1>3, <1>4

LEMMA LastOf ==
    ASSUME NEW N \in Nat, NEW S, S \subseteq 1..N, S # {}
    PROVE  \E n \in S : \A m \in S : m <= n
<1> DEFINE T == {k \in 1..N : N + 1 - k \in S}
<1>1. \A n \in S : N + 1 - n \in T
      OBVIOUS
<1>2. PICK t \in T : \A u \in T : t <= u
  <2>1. T \in SUBSET Nat
        OBVIOUS
  <2>2. PICK n \in S : TRUE
        OBVIOUS
  <2>3. N + 1 - n \in T
        BY <1>1
  <2> HIDE DEF T
  <2>4. T # {}
        BY <2>3
  <2>5. QED  BY <2>1, <2>4, FirstOf
<1>3. \A m \in S : t <= N + 1 - m
      BY <1>1, <1>2
<1>4. N + 1 - t \in S /\ \A m \in S : m <= N + 1 - t
      BY <1>2, <1>3
<1>5. QED  BY <1>4

-----------------------------------------------------------------------------
(* The invariant of the publisher. *)

\* What the preparer established of an entry.
Approved(e) ==
    /\ e.policy \in Activatable
    /\ e.from \in Nat
    /\ ApprovalMet(e.policy, e.valid)
    /\ \A s \in e.valid : Authority[s] # None /\ InWindow(Authority[s], e.from)

\* A file is a chain of approved entries.
GoodFile(f) ==
    /\ f = [made |-> f.made, entries |-> f.entries]
    /\ f.made \in BOOLEAN
    /\ \E S : f.entries \in Seq(S)
    /\ ~f.made => f.entries = <<>>
    /\ IsLedger(f.entries)
    /\ \A n \in 1..Len(f.entries) : Approved(f.entries[n])

\* A file is a beginning of another one: what a lost rename falls back to.
Begins(d, f) ==
    /\ Len(d.entries) <= Len(f.entries)
    /\ \A n \in 1..Len(d.entries) : d.entries[n] = f.entries[n]

Types ==
    /\ temps \subseteq Clients
    /\ lock \in Clients \cup {None}
    /\ pc \in [Clients -> {"idle", "writing", "written", "replaced"}]
    /\ DOMAIN cand = Clients /\ DOMAIN expected = Clients /\ DOMAIN intended = Clients
    /\ cand = [p \in Clients |-> cand[p]]
    /\ expected = [p \in Clients |-> expected[p]]
    /\ intended = [p \in Clients |-> intended[p]]
    /\ \A p \in Clients : intended[p] # Absent <=> pc[p] # "idle"

FilesGood == GoodFile(file) /\ GoodFile(durable) /\ Begins(durable, file)

CandidatesGood == \A p \in Clients : cand[p] # None => Approved(cand[p])

\* What the holder of the lock is about to install, or has just installed.
PlanOf(p) ==
    \/ file = Absent /\ intended[p] = Stored(<<>>)
    \/ /\ file # Absent /\ cand[p] # None
       /\ intended[p] = Stored(Append(file.entries, cand[p]))
       /\ Succeeds(file.entries, cand[p])

InstalledBy(p) ==
    /\ file = intended[p]
    /\ file.entries # <<>> => file.entries[Len(file.entries)] = cand[p]

HolderGood ==
    \A p \in Clients :
        /\ pc[p] # "idle" => lock = p
        /\ pc[p] \in {"writing", "written"} => PlanOf(p)
        /\ pc[p] = "written" => p \in temps
        /\ pc[p] = "replaced" => InstalledBy(p)

ToldKept == \A e \in told : Holds(file, e) /\ Holds(durable, e)

\* Every ledger a client read is one a file held.
ReadsGood == \A p \in Clients : GoodFile(Stored(expected[p]))

\* Entry n of the ledger L is the last one in effect.
LastInEffect(L, n, at) ==
    /\ n \in 1..Len(L) /\ L[n].from <= at
    /\ \A m \in 1..Len(L) : L[m].from <= at => m <= n

\* A decision comes from the last entry in effect in the ledger it was shown.
RulingGood ==
    ruling # None =>
        /\ GoodFile(Stored(ruling.shown))
        /\ ruling.request.at \in Nat
        /\ \E n : /\ LastInEffect(ruling.shown, n, ruling.request.at)
                  /\ ruling.shown[n] = ruling.entry

Inv == /\ Types /\ FilesGood /\ CandidatesGood /\ HolderGood /\ ToldKept
       /\ ReadsGood /\ RulingGood

\* The stages of prepare establish what the invariant says of an entry.
LEMMA PreparedApproved ==
    ASSUME NEW p, NEW prev, NEW from \in Int, NEW sigs, NEW up,
           NEW e \in Prepared(p, prev, from, sigs, up)
    PROVE  Approved(e)
<1> DEFINE valid == Valid(sigs, from, up)
<1>1. /\ p \in Activatable /\ from \in Nat /\ ApprovalMet(p, valid)
      /\ e = [policy |-> p, prev |-> prev, from |-> from, sigs |-> Seals(sigs),
              valid |-> valid, rejected |-> Rejected(sigs, from, up)]
      BY DEF Prepared, When
<1>2. e.policy = p /\ e.valid = valid /\ e.from = from
      BY <1>1
<1>3. ASSUME NEW s \in valid
      PROVE  Authority[s] # None /\ InWindow(Authority[s], from)
  <2>1. PICK t \in sigs : t.signer = s /\ Refusal(t, from, up) = "VALID"
        BY <1>3 DEF Valid
  <2>2. QED  BY <2>1 DEF Refusal
<1>4. QED  BY <1>1, <1>2, <1>3 DEF Approved

\* Appending a successor to a good file gives a good file that begins with it.
LEMMA AppendGood ==
    ASSUME NEW f, GoodFile(f), NEW e, Approved(e), Succeeds(f.entries, e)
    PROVE  /\ GoodFile(Stored(Append(f.entries, e)))
           /\ Begins(f, Stored(Append(f.entries, e)))
           /\ Append(f.entries, e)[Len(f.entries) + 1] = e
           /\ Len(Append(f.entries, e)) = Len(f.entries) + 1
<1> DEFINE L == f.entries
           M == Append(L, e)
<1>1. PICK S : L \in Seq(S)
      BY DEF GoodFile
<1>2. /\ L \in Seq(S \cup {e}) /\ M \in Seq(S \cup {e})
      /\ Len(M) = Len(L) + 1 /\ Len(L) \in Nat
      /\ \A n \in 1..Len(L) : M[n] = L[n]
      /\ M[Len(L) + 1] = e
      BY <1>1
<1>3. ASSUME NEW n \in 1..Len(M)
      PROVE  Succeeds(SubSeq(M, 1, n - 1), M[n]) /\ Approved(M[n])
  <2>1. CASE n = Len(L) + 1
    <3>1. SubSeq(M, 1, Len(L)) = L
          BY <1>2
    <3>2. n - 1 = Len(L) /\ M[n] = e
          BY <1>2, <2>1
    <3>3. SubSeq(M, 1, n - 1) = L
          BY <3>1, <3>2
    <3> HIDE DEF M
    <3>4. QED  BY <3>2, <3>3
  <2>2. CASE n # Len(L) + 1
    <3>1. n \in 1..Len(L)
          BY <1>2, <2>2
    <3>2. SubSeq(M, 1, n - 1) = SubSeq(L, 1, n - 1)
          BY <1>2, <3>1
    <3>3. QED  BY <1>2, <3>1, <3>2 DEF GoodFile, IsLedger
  <2>3. QED  BY <2>1, <2>2
<1>4. GoodFile(Stored(M))
  <2>1. \E T : M \in Seq(T)
        BY <1>2
  <2>2. IsLedger(M)
        BY <1>3 DEF IsLedger
  <2>3. QED  BY <1>3, <2>1, <2>2 DEF GoodFile, Stored
<1>5. Begins(f, Stored(M))
      BY <1>2 DEF Begins, Stored
<1>6. QED  BY <1>2, <1>4, <1>5

LEMMA BeginsReflexive == ASSUME NEW f, GoodFile(f) PROVE Begins(f, f)
<1>1. Len(f.entries) \in Nat
      BY DEF GoodFile
<1>2. QED  BY <1>1 DEF Begins

LEMMA BeginsTransitive ==
    ASSUME NEW d, GoodFile(d), NEW f, GoodFile(f), NEW g, GoodFile(g), Begins(d, f), Begins(f, g)
    PROVE  Begins(d, g)
<1>1. Len(d.entries) \in Nat /\ Len(f.entries) \in Nat /\ Len(g.entries) \in Nat
      BY DEF GoodFile
<1>2. QED  BY <1>1 DEF Begins

\* What a file holds, a file it begins holds too.
LEMMA BeginsHolds ==
    ASSUME NEW d, GoodFile(d), NEW f, GoodFile(f), Begins(d, f), NEW e, Holds(d, e)
    PROVE  Holds(f, e)
<1>1. Len(d.entries) \in Nat /\ Len(f.entries) \in Nat
      BY DEF GoodFile
<1>2. QED  BY <1>1 DEF Begins, Holds

LEMMA AbsentGood == GoodFile(Absent) /\ Begins(Absent, Absent)
<1>1. <<>> \in Seq({}) /\ Len(<<>>) = 0
      OBVIOUS
<1>2. QED  BY <1>1 DEF GoodFile, Absent, IsLedger, Begins

LEMMA EmptyGood == GoodFile(Stored(<<>>))
<1>1. <<>> \in Seq({}) /\ Len(<<>>) = 0
      OBVIOUS
<1>2. QED  BY <1>1 DEF GoodFile, Stored, IsLedger

-----------------------------------------------------------------------------
(* The invariant is inductive. *)

LEMMA InitInv == Init => Inv
<1> SUFFICES ASSUME Init PROVE Inv
    OBVIOUS
<1>1. FilesGood
      BY AbsentGood DEF Init, FilesGood
<1>2. Types
      BY DEF Init, Types
<1>3. QED  BY <1>1, <1>2, EmptyGood DEF Init, Inv, CandidatesGood, HolderGood, ToldKept, ReadsGood, RulingGood

\* Nobody is inside an operation while the lock is free.
LEMMA FreeMeansIdle == ASSUME Inv, lock = None PROVE \A p \in Clients : pc[p] = "idle"
BY ClientsAssumption DEF Inv, HolderGood

\* What the clients know changes only when they read or decide.
LEMMA KeepsReads == ASSUME ReadsGood, UNCHANGED expected PROVE ReadsGood'
BY DEF ReadsGood, GoodFile, Stored, Approved

LEMMA KeepsRuling == ASSUME RulingGood, UNCHANGED ruling PROVE RulingGood'
BY DEF RulingGood, LastInEffect, GoodFile, Stored, Approved

\* The steps that write neither the file nor a plan.
LEMMA OutsideKeepsInv ==
    ASSUME Inv, NEW p \in Clients, Prepare(p) \/ ReadState(p)
    PROVE  Inv'
<1>1. UNCHANGED <<file, durable, temps, lock, pc, intended, told, ruling>> /\ pc[p] = "idle"
      BY DEF Prepare, ReadState
<1>2. \A q \in Clients \ {p} : cand'[q] = cand[q]
      BY DEF Inv, Types, Prepare, ReadState
<1>3. CandidatesGood'
  <2>1. CASE Prepare(p)
    <3>1. PICK e : Approved(e) /\ cand' = [cand EXCEPT ![p] = e]
          BY <2>1, PreparedApproved, ProposalsAssumption DEF Prepare
    <3>2. Approved(e)'
          BY <3>1 DEF Approved
    <3>3. QED  BY <3>1 DEF Inv, Types, CandidatesGood, Approved
  <2>2. CASE ReadState(p)
        BY <2>2 DEF Inv, CandidatesGood, ReadState, Approved
  <2>3. QED  BY <2>1, <2>2
<1>4. Types'
      BY <1>1 DEF Inv, Types, Prepare, ReadState
<1>5. FilesGood' /\ ToldKept'
      BY <1>1 DEF Inv, FilesGood, GoodFile, Begins, ToldKept, Holds, Approved
<1>6. HolderGood'
  <2>1. SUFFICES ASSUME NEW q \in Clients, pc'[q] # "idle"
                 PROVE  /\ lock' = q
                        /\ pc'[q] \in {"writing", "written"} => PlanOf(q)'
                        /\ pc'[q] = "written" => q \in temps'
                        /\ pc'[q] = "replaced" => InstalledBy(q)'
        BY DEF HolderGood
  <2>2. q # p /\ cand'[q] = cand[q]
        BY <1>1, <1>2, <2>1
  <2>3. QED  BY <1>1, <2>1, <2>2 DEF Inv, HolderGood, PlanOf, InstalledBy
<1>7. ReadsGood'
  <2>1. ASSUME NEW q \in Clients
        PROVE  GoodFile(Stored(expected'[q]))
    <3>1. GoodFile(Stored(file.entries))
          BY DEF Inv, FilesGood, GoodFile, Stored
    <3>2. expected'[q] \in {expected[q], file.entries}
          BY DEF Prepare, ReadState, Inv, Types
    <3>3. QED  BY <3>1, <3>2 DEF Inv, ReadsGood
  <2>2. QED  BY <2>1 DEF ReadsGood, GoodFile, Stored, Approved
<1>8. RulingGood'
      BY <1>1, KeepsRuling DEF Inv
<1>9. QED  BY <1>3, <1>4, <1>5, <1>6, <1>7, <1>8 DEF Inv

\* A sweep makes the visible file durable or changes nothing.
LEMMA SweptGood ==
    ASSUME Inv, file' = file, told' = told, durable' \in {durable, file}
    PROVE  FilesGood' /\ ToldKept'
<1>1. GoodFile(durable') /\ Begins(durable', file) /\ GoodFile(file)
      BY BeginsReflexive DEF Inv, FilesGood
<1>2. FilesGood'
      BY <1>1 DEF FilesGood, GoodFile, Begins, Approved
<1>3. QED  BY <1>2 DEF Inv, ToldKept, Holds

LEMMA SweepKeepsInv ==
    ASSUME Inv, NEW p \in Clients, OpenStore(p) \/ SweepFails(p)
    PROVE  Inv'
<1>1. /\ UNCHANGED <<file, lock, pc, cand, expected, intended, told, ruling>>
      /\ lock = None /\ durable' \in {durable, file} /\ temps' \subseteq Clients
      BY DEF OpenStore, SweepFails, Swept, Inv, Types
<1>2. FilesGood' /\ ToldKept'
      BY <1>1, SweptGood
<1>3. \A q \in Clients : pc'[q] = "idle"
      BY <1>1, FreeMeansIdle
<1>4. HolderGood'
      BY <1>3 DEF HolderGood
<1>5. Types' /\ CandidatesGood' /\ ReadsGood' /\ RulingGood'
      BY <1>1, KeepsReads, KeepsRuling DEF Inv, Types, CandidatesGood, Approved
<1>6. QED  BY <1>2, <1>4, <1>5 DEF Inv

\* Taking the lock with a plan for the ledger that is there.
LEMMA EnterKeepsInv ==
    ASSUME Inv, NEW p \in Clients, NEW L, lock = None, Enter(p, L),
           temps' = {}, durable' \in {durable, file},
           UNCHANGED <<file, cand, expected, told, ruling>>,
           \/ file = Absent /\ L = <<>>
           \/ /\ file # Absent /\ cand[p] # None
              /\ L = Append(file.entries, cand[p]) /\ Succeeds(file.entries, cand[p])
    PROVE  Inv'
<1>1. FilesGood' /\ ToldKept'
      BY SweptGood
<1>2. \A q \in Clients : pc[q] = "idle"
      BY FreeMeansIdle
<1>3. /\ pc'[p] = "writing" /\ intended'[p] = Stored(L) /\ lock' = p
      /\ \A q \in Clients \ {p} : pc'[q] = "idle" /\ intended'[q] = intended[q]
      BY <1>2 DEF Enter, Inv, Types
<1>4. Types'
      BY <1>3 DEF Inv, Types, Enter, Stored, Absent
<1>5. PlanOf(p)'
      BY <1>3 DEF PlanOf
<1>6. HolderGood'
      BY <1>3, <1>5 DEF HolderGood
<1>7. QED  BY <1>1, <1>4, <1>6, KeepsReads, KeepsRuling DEF Inv, CandidatesGood, Approved

\* An answer under the lock that installs nothing.
LEMMA AnswerKeepsInv ==
    ASSUME Inv, lock = None, temps' = {}, durable' \in {durable, file},
           UNCHANGED <<file, lock, pc, cand, expected, intended, told, ruling>>
    PROVE  Inv'
<1>1. FilesGood' /\ ToldKept'
      BY SweptGood
<1>2. \A q \in Clients : pc'[q] = "idle"
      BY FreeMeansIdle
<1>3. HolderGood'
      BY <1>2 DEF HolderGood
<1>4. QED  BY <1>1, <1>3, KeepsReads, KeepsRuling DEF Inv, Types, CandidatesGood, Approved

LEMMA OperationKeepsInv ==
    ASSUME Inv, NEW p \in Clients, Create(p) \/ Publish(p)
    PROVE  Inv'
<1>1. /\ lock = None /\ temps' = {} /\ durable' \in {durable, file}
      /\ UNCHANGED <<file, cand, expected, told, ruling>>
      BY DEF Create, Publish, Swept
<1>2. CASE Create(p)
      BY <1>1, <1>2, EnterKeepsInv, AnswerKeepsInv DEF Create
<1>3. CASE Publish(p)
  <2> DEFINE what == Decision(file.entries, expected[p], cand[p])
  <2>1. CASE what = "COMMITTED"
    <3>1. Enter(p, Append(file.entries, cand[p])) /\ file # Absent /\ cand[p] # None
          BY <1>3, <2>1 DEF Publish
    <3>2. Succeeds(file.entries, cand[p])
          BY <2>1 DEF Decision, StateMismatch
    <3>3. QED  BY <1>1, <3>1, <3>2, EnterKeepsInv
  <2>2. CASE what # "COMMITTED"
    <3>1. UNCHANGED <<lock, pc, intended>>
          BY <1>3, <2>2 DEF Publish
    <3>2. QED  BY <1>1, <3>1, AnswerKeepsInv
  <2>3. QED  BY <2>1, <2>2
<1>4. QED  BY <1>2, <1>3

\* Whoever is inside an operation is alone there.
LEMMA OneHolder ==
    ASSUME Inv, NEW p \in Clients, pc[p] # "idle"
    PROVE  lock = p /\ \A q \in Clients \ {p} : pc[q] = "idle"
BY DEF Inv, HolderGood

LEMMA WriteTempKeepsInv == ASSUME Inv, NEW p \in Clients, WriteTemp(p) PROVE Inv'
<1>1. /\ UNCHANGED <<file, durable, lock, cand, expected, intended, told, ruling>>
      /\ pc[p] = "writing" /\ pc'[p] = "written" /\ p \in temps' /\ lock = p
      /\ \A q \in Clients \ {p} : pc[q] = "idle" /\ pc'[q] = "idle"
      BY OneHolder DEF WriteTemp, Inv, Types
<1>2. FilesGood' /\ ToldKept' /\ CandidatesGood' /\ ReadsGood' /\ RulingGood'
      BY <1>1, KeepsReads, KeepsRuling DEF Inv, FilesGood, GoodFile, Begins, ToldKept, Holds,
                  CandidatesGood, Approved
<1>3. Types'
      BY <1>1 DEF Inv, Types, WriteTemp
<1>4. HolderGood'
      BY <1>1 DEF Inv, HolderGood, PlanOf, InstalledBy
<1>5. QED  BY <1>2, <1>3, <1>4 DEF Inv

\* What leaves nobody inside an operation.
LEMMA AllIdleKeepsInv ==
    ASSUME Inv, UNCHANGED <<cand, expected, ruling>>, lock' = None,
           temps' \subseteq Clients,
           \A q \in Clients : pc'[q] = "idle" /\ intended'[q] = Absent,
           pc' = [q \in Clients |-> pc'[q]], intended' = [q \in Clients |-> intended'[q]],
           FilesGood', ToldKept'
    PROVE  Inv'
<1>1. Types'
      BY DEF Inv, Types
<1>2. QED  BY <1>1, KeepsReads, KeepsRuling DEF Inv, HolderGood, CandidatesGood, Approved

LEMMA ReleaseIdle ==
    ASSUME Inv, NEW p \in Clients, pc[p] # "idle", Release(p)
    PROVE  /\ lock' = None
           /\ \A q \in Clients : pc'[q] = "idle" /\ intended'[q] = Absent
           /\ pc' = [q \in Clients |-> pc'[q]]
           /\ intended' = [q \in Clients |-> intended'[q]]
BY OneHolder DEF Release, Inv, Types

LEMMA LeaveKeepsInv ==
    ASSUME Inv, NEW p \in Clients, PreCommitFails(p) \/ Uncertain(p) \/ Crash(p)
    PROVE  Inv'
<1>1. /\ UNCHANGED <<file, cand, expected, told, ruling>>
      /\ pc[p] # "idle" /\ Release(p) /\ durable' \in {durable, file} /\ temps' \subseteq Clients
      BY DEF PreCommitFails, Uncertain, Crash, Inv, Types
<1>2. FilesGood' /\ ToldKept'
      BY <1>1, SweptGood
<1>3. QED  BY <1>1, <1>2, ReleaseIdle, AllIdleKeepsInv

\* What Replace installs begins with what was there, and is good.
LEMMA PlanGood ==
    ASSUME Inv, NEW p \in Clients, pc[p] \in {"writing", "written"}
    PROVE  /\ GoodFile(intended[p]) /\ Begins(file, intended[p])
           /\ intended[p].entries # <<>> =>
                 /\ intended[p].entries[Len(intended[p].entries)] = cand[p]
                 /\ intended[p].entries = Append(file.entries, cand[p])
                 /\ Succeeds(file.entries, cand[p])
<1>1. PlanOf(p)
      BY DEF Inv, HolderGood
<1>2. CASE file = Absent /\ intended[p] = Stored(<<>>)
      BY <1>2, EmptyGood DEF Stored, Absent, Begins
<1>3. CASE /\ file # Absent /\ cand[p] # None
           /\ intended[p] = Stored(Append(file.entries, cand[p]))
           /\ Succeeds(file.entries, cand[p])
  <2>1. GoodFile(file) /\ Approved(cand[p])
        BY <1>3 DEF Inv, FilesGood, CandidatesGood
  <2>2. QED  BY <1>3, <2>1, AppendGood DEF Stored
<1>4. QED  BY <1>1, <1>2, <1>3 DEF PlanOf

LEMMA ReplaceKeepsInv == ASSUME Inv, NEW p \in Clients, Replace(p) PROVE Inv'
<1>1. /\ UNCHANGED <<durable, lock, cand, expected, intended, told, ruling>>
      /\ pc[p] = "written" /\ pc'[p] = "replaced" /\ file' = intended[p] /\ lock = p
      /\ \A q \in Clients \ {p} : pc[q] = "idle" /\ pc'[q] = "idle"
      BY OneHolder DEF Replace, Inv, Types
<1>2. /\ GoodFile(file') /\ Begins(file, file') /\ GoodFile(file) /\ GoodFile(durable)
      /\ Begins(durable, file)
      BY <1>1, PlanGood DEF Inv, FilesGood
<1>3. Begins(durable, file')
      BY <1>2, BeginsTransitive
<1>4. FilesGood'
      BY <1>1, <1>2, <1>3 DEF FilesGood, GoodFile, Begins, Approved
<1>5. ToldKept'
  <2>1. \A e \in told : Holds(file', e) /\ Holds(durable, e)
        BY <1>2, BeginsHolds DEF Inv, ToldKept
  <2>2. QED  BY <1>1, <2>1 DEF ToldKept, Holds
<1>6. Types'
      BY <1>1 DEF Inv, Types, Replace
<1>7. InstalledBy(p)'
      BY <1>1, PlanGood DEF InstalledBy
<1>8. HolderGood'
      BY <1>1, <1>7 DEF Inv, HolderGood
<1>9. QED  BY <1>1, <1>4, <1>5, <1>6, <1>8, KeepsReads, KeepsRuling DEF Inv, CandidatesGood, Approved

LEMMA FlushKeepsInv == ASSUME Inv, NEW p \in Clients, FlushAndVerify(p) PROVE Inv'
<1>1. /\ UNCHANGED <<file, temps, cand, expected, ruling>>
      /\ pc[p] = "replaced" /\ Release(p) /\ durable' = file
      /\ told' = IF file.entries = <<>> THEN told ELSE told \cup {cand[p]}
      /\ InstalledBy(p)
      BY DEF FlushAndVerify, Inv, HolderGood
<1>2. GoodFile(file) /\ Begins(file, file)
      BY BeginsReflexive DEF Inv, FilesGood
<1>3. FilesGood'
      BY <1>1, <1>2 DEF FilesGood, GoodFile, Begins, Approved
<1>4. file.entries # <<>> => Holds(file, cand[p])
      BY <1>1, <1>2 DEF InstalledBy, Holds, GoodFile
<1>5. \A e \in told' : Holds(file, e)
      BY <1>1, <1>4 DEF Inv, ToldKept
<1>6. ToldKept'
      BY <1>1, <1>5 DEF ToldKept, Holds
<1>7. QED  BY <1>1, <1>3, <1>6, ReleaseIdle, AllIdleKeepsInv DEF Inv, Types

LEMMA PowerLossKeepsInv == ASSUME Inv, PowerLoss PROVE Inv'
<1>1. PICK L \in {file, durable} : file' = L /\ durable' = L
      BY DEF PowerLoss
<1>2. GoodFile(L) /\ Begins(L, L) /\ \A e \in told : Holds(L, e)
      BY BeginsReflexive DEF Inv, FilesGood, ToldKept
<1>3. FilesGood'
      BY <1>1, <1>2 DEF FilesGood, GoodFile, Begins, Approved
<1>4. ToldKept'
      BY <1>1, <1>2 DEF PowerLoss, ToldKept, Holds
<1>5. QED  BY <1>3, <1>4, AllIdleKeepsInv DEF PowerLoss, Inv, Types

\* The reverse walk of resolve_policy_at_v3 ends at the last entry in effect.
LEMMA AnswerRules ==
    ASSUME NEW L, GoodFile(Stored(L)), NEW r, NEW q, Answer(L, r, q), r.at = q.at
    PROVE  RulingGood'
<1> DEFINE S == {n \in 1..Len(L) : L[n].from <= q.at}
           c == CHOOSE n \in S : \A m \in S : m <= n
<1>1. /\ q.at \in Nat /\ r.entry # None /\ r.entry = ResolvedAt(L, q.at)
      /\ ruling'.request = q /\ ruling'.entry = r.entry /\ ruling'.shown = L
      BY DEF Answer, Authoritative, ValidRequest
<1>2. S # {} /\ r.entry = L[c]
      BY <1>1 DEF ResolvedAt
<1>3. Len(L) \in Nat /\ S \subseteq 1..Len(L)
      BY DEF GoodFile, Stored
<1>4. \E n \in S : \A m \in S : m <= n
      BY <1>2, <1>3, LastOf
<1>5. c \in S /\ \A m \in S : m <= c
      BY <1>4
<1>6. LastInEffect(L, c, q.at)
      BY <1>5 DEF LastInEffect
<1> HIDE DEF c
<1>7. \E n : LastInEffect(ruling'.shown, n, ruling'.request.at) /\ ruling'.shown[n] = ruling'.entry
      BY <1>1, <1>2, <1>6
<1>8. GoodFile(Stored(ruling'.shown)) /\ ruling'.request.at \in Nat
      BY <1>1
<1>9. QED  BY <1>7, <1>8 DEF RulingGood, LastInEffect, GoodFile, Stored, Approved

LEMMA SelectKeepsInv ==
    ASSUME Inv, NEW p \in Clients, NEW q \in Requests, Select(p, q) \/ SelectNow(p, q)
    PROVE  Inv'
<1>1. RulingGood'
  <2>1. CASE Select(p, q)
    <3>1. PICK c \in Clients : Answer(expected[p], Resolution(expected[c], q.at), q)
          BY <2>1 DEF Select
    <3>2. GoodFile(Stored(expected[p])) /\ Resolution(expected[c], q.at).at = q.at
          BY DEF Inv, ReadsGood, Resolution
    <3>3. QED  BY <3>1, <3>2, AnswerRules
  <2>2. CASE SelectNow(p, q)
    <3>1. Answer(file.entries, Resolution(file.entries, q.at), q)
          BY <2>2 DEF SelectNow
    <3>2. GoodFile(Stored(file.entries)) /\ Resolution(file.entries, q.at).at = q.at
          BY DEF Inv, FilesGood, GoodFile, Stored, Resolution
    <3>3. QED  BY <3>1, <3>2, AnswerRules
  <2>3. QED  BY <2>1, <2>2
<1>2. UNCHANGED <<file, durable, temps, lock, pc, cand, expected, intended, told>>
      BY DEF Select, SelectNow
<1>3. ReadsGood'
      BY <1>2, KeepsReads DEF Inv
<1>4. QED  BY <1>1, <1>2, <1>3 DEF Inv, Types, FilesGood, GoodFile, Begins, CandidatesGood, Approved,
                 HolderGood, PlanOf, InstalledBy, ToldKept, Holds

LEMMA NextKeepsInv == Inv /\ [Next]_vars => Inv'
<1> SUFFICES ASSUME Inv, [Next]_vars PROVE Inv'
    OBVIOUS
<1>1. CASE UNCHANGED vars
      BY <1>1, KeepsReads, KeepsRuling
         DEF vars, Inv, Types, FilesGood, GoodFile, Begins, CandidatesGood, Approved,
             HolderGood, PlanOf, InstalledBy, ToldKept, Holds
<1>2. CASE PowerLoss
      BY <1>2, PowerLossKeepsInv
<1>3. ASSUME NEW p \in Clients,
             \/ Prepare(p) \/ ReadState(p) \/ OpenStore(p) \/ SweepFails(p)
             \/ Create(p) \/ Publish(p) \/ Crash(p)
             \/ WriteTemp(p) \/ PreCommitFails(p)
             \/ Replace(p) \/ FlushAndVerify(p) \/ Uncertain(p)
             \/ \E q \in Requests : Select(p, q) \/ SelectNow(p, q)
      PROVE  Inv'
      BY <1>3, OutsideKeepsInv, SweepKeepsInv, OperationKeepsInv, WriteTempKeepsInv,
         LeaveKeepsInv, ReplaceKeepsInv, FlushKeepsInv, SelectKeepsInv
<1>4. QED  BY <1>1, <1>2, <1>3 DEF Next

-----------------------------------------------------------------------------
(* The theorems. *)

LEMMA InvAlways == Spec => []Inv
BY InitInv, NextKeepsInv, PTL DEF Spec

\* The state of the publisher is typed, whatever the clients, policies and
\* faults (FilesystemAssumptionPolicyPublisher).
THEOREM TypesAlways == Spec => []TypeOK
<1>1. Inv => TypeOK
      BY DEF Inv, Types, FilesGood, GoodFile, TypeOK
<1>2. QED  BY <1>1, InvAlways, PTL

\* The store holds a chain of successors, before and after any power loss
\* (order_policy_entries_v3 never refuses what publish installed).
THEOREM ChainAlways == Spec => []LedgerIsChain
<1>1. Inv => LedgerIsChain
      BY DEF Inv, FilesGood, GoodFile, LedgerIsChain
<1>2. QED  BY <1>1, InvAlways, PTL

\* One process at a time is between the read of the ledger and the end of its
\* replacement, and no sweep takes its temporary file (_locked).
THEOREM OneWriterAlways == Spec => []OneWriter
<1>1. Inv => OneWriter
  <2>1. SUFFICES ASSUME Inv, NEW p \in Clients, pc[p] # "idle"
                 PROVE  /\ lock = p
                        /\ pc[p] = "written" => p \in temps
                        /\ pc[p] # "replaced" /\ file # Absent =>
                               intended[p] = Stored(Append(file.entries, cand[p]))
        BY DEF OneWriter
  <2>2. pc[p] \in {"writing", "written", "replaced"}
        BY <2>1 DEF Inv, Types
  <2>3. QED  BY <2>1, <2>2 DEF Inv, HolderGood, PlanOf
<1>2. QED  BY <1>1, InvAlways, PTL

\* What was answered COMMITTED survives crashes and power losses (the directory
\* fsync of _commit comes before the answer).
THEOREM CommittedAlways == Spec => []CommittedSurvives
<1>1. Inv => CommittedSurvives
      BY DEF Inv, ToldKept, CommittedSurvives
<1>2. QED  BY <1>1, InvAlways, PTL

\* Every published policy met the approval rule of its class
\* (_validate_approval_threshold, _verify_one_record).
THEOREM ApprovedAlways == Spec => []PublishedApproved
<1>1. Inv => PublishedApproved
      BY DEF Inv, FilesGood, GoodFile, Approved, ApprovalMet, ApprovalClass, PublishedApproved
<1>2. QED  BY <1>1, InvAlways, PTL

LEMMA PublishedActivatable ==
    ASSUME Inv, NEW n \in 1..Len(file.entries)
    PROVE  ValidPolicy(file.entries[n].policy) /\ NoOverlap(file.entries[n].policy)
BY DEF Inv, FilesGood, GoodFile, Approved, Activatable

\* No published policy leaves a request between two grants
\* (select_applicable_grant_v3 never answers AMBIGUOUS_GRANTS).
THEOREM NeverAmbiguousAlways == Spec => []NeverAmbiguous
<1>1. Inv => NeverAmbiguous
      BY PublishedActivatable, NoTwoGrants DEF NeverAmbiguous
<1>2. QED  BY <1>1, InvAlways, PTL

\* No exception of a published policy outlives or outreaches its grant
\* (_exception_covered, _exception_applies).
THEOREM ExceptionsBackedAlways == Spec => []ExceptionBacked
<1>1. Inv => ExceptionBacked
  <2>1. SUFFICES ASSUME Inv, NEW n \in 1..Len(file.entries), NEW q \in Requests,
                        ValidRequest(q), q.action \notin ResolutionActions,
                        NEW x \in file.entries[n].policy.exceptions, NEW r,
                        ExceptionApplies(x, r, q, None)
                 PROVE  Selection(file.entries[n].policy, q) = "SELECTED"
        BY DEF ExceptionBacked
  <2>2. QED  BY <2>1, PublishedActivatable, ExceptionHasGrant
<1>2. QED  BY <1>1, InvAlways, PTL

\* The sequences of a good ledger increase from its first entry to its last.
LEMMA Increasing ==
    ASSUME NEW f, GoodFile(f), NEW i \in 1..Len(f.entries), NEW j \in 1..Len(f.entries), i < j
    PROVE  f.entries[i].from < f.entries[j].from
<1> DEFINE L == f.entries
           T == {k \in 1..Len(L) : i < k /\ ~(L[i].from < L[k].from)}
<1>1. /\ Len(L) \in Nat
      /\ \A k \in 1..Len(L) : L[k].from \in Nat
      BY DEF GoodFile, Approved
<1>2. ASSUME NEW k \in 2..Len(L)
      PROVE  L[k - 1].from < L[k].from
  <2> DEFINE M == SubSeq(L, 1, k - 1)
  <2>1. PICK S : L \in Seq(S)
        BY DEF GoodFile
  <2>2. Len(M) = k - 1 /\ M[k - 1] = L[k - 1] /\ M # <<>>
        BY <2>1
  <2>3. Succeeds(M, L[k])
        BY DEF GoodFile, IsLedger
  <2> HIDE DEF M
  <2>4. QED  BY <1>1, <2>2, <2>3 DEF Succeeds
<1>3. SUFFICES ASSUME T # {} PROVE FALSE
      OBVIOUS
<1>4. PICK k \in T : \A m \in T : k <= m
  <2>1. T \in SUBSET Nat
        BY <1>1
  <2>2. QED  BY <1>3, <2>1, FirstOf
<1>5. k \in 2..Len(L) /\ k - 1 \in 1..Len(L) /\ L[k - 1].from < L[k].from
      BY <1>1, <1>2, <1>4
<1>6. k - 1 \notin T
      BY <1>1, <1>4
<1>7. QED  BY <1>1, <1>4, <1>5, <1>6

\* A grant decision stands until a policy that was not in the ledger it was
\* made over takes effect by its sequence: chains of the store only grow beyond
\* what was acknowledged, and a resolution counts only against the ledger it
\* was made from (_source_entry_for_resolution, resolve_policy_at_v3).
THEOREM RulingsAlways == Spec => []RulingStands
<1>1. Inv => RulingStands
  <2> DEFINE F == file.entries
             G == ruling.shown
             at == ruling.request.at
             S == {n \in 1..Len(F) : F[n].from <= at}
  <2>1. SUFFICES ASSUME Inv, ruling # None, ruling.entry \in told \/ Holds(file, ruling.entry)
                 PROVE  \E n \in 1..Len(F) :
                           /\ Governs(F, n, at)
                           /\ \/ F[n] = ruling.entry
                              \/ /\ F[n].from > ruling.entry.from
                                 /\ \A k \in 1..Len(G) : G[k] # F[n]
        BY DEF RulingStands
  <2>2. PICK g : LastInEffect(G, g, at) /\ G[g] = ruling.entry
        BY <2>1 DEF Inv, RulingGood
  <2>3. PICK k \in 1..Len(F) : F[k] = ruling.entry
        BY <2>1 DEF Inv, ToldKept, Holds
  <2>4. /\ GoodFile(file) /\ GoodFile(Stored(G)) /\ at \in Nat
        /\ Stored(G).entries = G
        BY <2>1 DEF Inv, FilesGood, RulingGood, Stored
  <2>5. /\ Len(F) \in Nat /\ Len(G) \in Nat
        /\ \A n \in 1..Len(F) : F[n].from \in Nat
        /\ \A n \in 1..Len(G) : G[n].from \in Nat
        BY <2>4 DEF GoodFile, Approved
  <2>6. k \in S
        BY <2>2, <2>3 DEF LastInEffect
  <2>7. PICK n \in S : \A m \in S : m <= n
        BY <2>5, <2>6, LastOf
  <2>8. \A m, i \in 1..Len(G) : m < i => G[m].from < G[i].from
        BY <2>4, Increasing
  <2>9. Governs(F, n, at)
        BY <2>4, <2>5, <2>7 DEF Governs
  <2>10. CASE n = k
        BY <2>3, <2>9, <2>10
  <2>11. CASE n # k
    <3>1. F[k].from < F[n].from
          BY <2>4, <2>5, <2>6, <2>7, <2>11, Increasing
    <3>2. ASSUME NEW m \in 1..Len(G)
          PROVE  G[m] # F[n]
      <4>1. SUFFICES ASSUME G[m] = F[n] PROVE FALSE
            OBVIOUS
      <4>2. m <= g /\ g \in 1..Len(G)
            BY <2>2, <2>7, <4>1 DEF LastInEffect
      <4>3. m = g \/ G[m].from < G[g].from
            BY <2>8, <4>2
      <4>4. QED  BY <2>2, <2>3, <2>5, <2>7, <3>1, <4>1, <4>2, <4>3
    <3>3. QED  BY <2>3, <2>7, <2>9, <3>1, <3>2
  <2>12. QED  BY <2>10, <2>11
<1>2. QED  BY <1>1, InvAlways, PTL

LEMMA RegisterInit == Init => Register!Init
BY DEF Init, Register!Init, Absent

\* The only steps the register sees are the rename of a publication, its
\* acknowledgement and the loss of a rename.
LEMMA RegisterStep == Inv /\ [Next]_vars => [Register!Next]_(Register!vars)
<1> SUFFICES ASSUME Inv, [Next]_vars PROVE [Register!Next]_(Register!vars)
    OBVIOUS
<1>1. GoodFile(file) /\ GoodFile(durable) /\ Begins(durable, file)
      BY DEF Inv, FilesGood
<1>2. PICK S : file.entries \in Seq(S)
      BY <1>1 DEF GoodFile
<1>3. CASE UNCHANGED <<file, told>>
      BY <1>3 DEF Register!vars
<1>4. ASSUME NEW p \in Clients, Replace(p)
      PROVE  [Register!Next]_(Register!vars)
  <2>1. file' = intended[p] /\ told' = told /\ pc[p] = "written"
        BY <1>4 DEF Replace
  <2>2. CASE intended[p].entries = <<>>
    <3>1. Len(file.entries) <= Len(intended[p].entries)
          BY <2>1, PlanGood DEF Begins
    <3>2. file.entries = <<>>
          BY <1>2, <2>2, <3>1
    <3>3. QED  BY <2>1, <2>2, <3>2 DEF Register!vars
  <2>3. CASE intended[p].entries # <<>>
    <3> DEFINE M == Append(file.entries, cand[p])
    <3>1. intended[p].entries = M /\ Succeeds(file.entries, cand[p])
          BY <2>1, <2>3, PlanGood
    <3>2. file.entries \in Seq(S \cup {cand[p]})
          BY <1>2
    <3>3. /\ Len(M) = Len(file.entries) + 1 /\ M[Len(M)] = cand[p]
          /\ SubSeq(M, 1, Len(file.entries)) = file.entries
          BY <3>2
    <3>4. Register!Succeeds(file.entries, cand[p])
          BY <3>1 DEF Succeeds, Tip, CommitOf, Register!Succeeds, Register!Tip, Register!CommitOf
    <3>5. Register!Extend
          BY <2>1, <3>1, <3>3, <3>4 DEF Register!Extend
    <3>6. QED  BY <3>5 DEF Register!Next
  <2>4. QED  BY <2>2, <2>3
<1>5. ASSUME NEW p \in Clients, FlushAndVerify(p)
      PROVE  [Register!Next]_(Register!vars)
  <2>1. /\ file' = file /\ InstalledBy(p)
        /\ told' = IF file.entries = <<>> THEN told ELSE told \cup {cand[p]}
        BY <1>5 DEF FlushAndVerify, Inv, HolderGood
  <2>2. CASE file.entries = <<>>
        BY <2>1, <2>2 DEF Register!vars
  <2>3. CASE file.entries # <<>>
    <3>1. Len(file.entries) \in 1..Len(file.entries)
          BY <1>2, <2>3
    <3>2. told' = told \cup {file.entries[Len(file.entries)]}
          BY <2>1, <2>3 DEF InstalledBy
    <3>3. Register!Acknowledge
          BY <2>1, <3>1, <3>2 DEF Register!Acknowledge
    <3>4. QED  BY <3>3 DEF Register!Next
  <2>4. QED  BY <2>2, <2>3
<1>6. ASSUME PowerLoss
      PROVE  [Register!Next]_(Register!vars)
  <2>1. told' = told /\ (file' = file \/ file' = durable)
        BY <1>6 DEF PowerLoss
  <2>2. CASE file' = file
        BY <1>3, <2>1, <2>2
  <2>3. CASE file' = durable
    <3> DEFINE n == Len(durable.entries)
    <3>1. PICK T : durable.entries \in Seq(T)
          BY <1>1 DEF GoodFile
    <3>2. n \in 0..Len(file.entries) /\ \A k \in 1..n : durable.entries[k] = file.entries[k]
          BY <1>1, <1>2, <3>1 DEF Begins
    <3>3. /\ SubSeq(file.entries, 1, n) \in Seq(S) /\ Len(SubSeq(file.entries, 1, n)) = n
          /\ \A k \in 1..n : SubSeq(file.entries, 1, n)[k] = file.entries[k]
          BY <1>2, <3>2
    <3>4. durable.entries = SubSeq(file.entries, 1, n)
          BY <3>1, <3>2, <3>3
    <3>5. \A e \in told : \E k \in 1..n : durable.entries[k] = e
          BY DEF Inv, ToldKept, Holds
    <3>6. Register!Lose
          BY <2>1, <2>3, <3>2, <3>4, <3>5 DEF Register!Lose
    <3>7. QED  BY <3>6 DEF Register!Next
  <2>4. QED  BY <2>1, <2>2, <2>3
<1>7. CASE UNCHANGED vars
      BY <1>3, <1>7 DEF vars
<1>8. ASSUME NEW p \in Clients,
             \/ Prepare(p) \/ ReadState(p) \/ OpenStore(p) \/ SweepFails(p)
             \/ Create(p) \/ Publish(p) \/ Crash(p)
             \/ WriteTemp(p) \/ PreCommitFails(p) \/ Uncertain(p)
             \/ \E q \in Requests : Select(p, q) \/ SelectNow(p, q)
      PROVE  UNCHANGED <<file, told>>
      BY <1>8 DEF Prepare, ReadState, OpenStore, SweepFails, Create, Publish, Crash,
                  WriteTemp, PreCommitFails, Uncertain, Select, SelectNow
<1>9. QED  BY <1>3, <1>4, <1>5, <1>6, <1>7, <1>8 DEF Next

\* The publisher implements the append-only register: it grows by valid
\* successors and a power loss costs it nothing it acknowledged.
THEOREM PublisherIsRegister == Spec => RegisterSpec
BY InitInv, RegisterInit, RegisterStep, InvAlways, PTL DEF Spec, RegisterSpec, Register!Spec
=============================================================================
