---------------------------- MODULE RegistryProofs ----------------------------
(***************************************************************************)
(* Theorems about the registry journal, for every set of clients, every    *)
(* offer of events and every policy: heads can always be read back, an     *)
(* admission is decided on the registries it is committed to, an           *)
(* assumption is admitted once, and the store implements EntityJournal.    *)
(***************************************************************************)
EXTENDS Registry, SequenceTheorems, TLAPS

\* Events are of every kind, so a history is a sequence over some set.
IsSeq(h) == \E S : h \in Seq(S)

LEMMA EmptyIsSeq == IsSeq(<<>>)
<1>1. <<>> \in Seq({})  OBVIOUS
<1>2. QED  BY <1>1 DEF IsSeq

LEMMA AppendIsSeq ==
    ASSUME NEW h, IsSeq(h), NEW e
    PROVE  /\ IsSeq(Append(h, e))
           /\ Len(h) \in Nat /\ Len(Append(h, e)) = Len(h) + 1
           /\ Append(h, e)[Len(h) + 1] = e
           /\ SubSeq(Append(h, e), 1, Len(h)) = h
           /\ SubSeq(Append(h, e), 1, Len(h) + 1) = Append(h, e)
<1>1. PICK S : h \in Seq(S)
      BY DEF IsSeq
<1>2. DEFINE T == S \cup {e}
<1>3. h \in Seq(T) /\ e \in T
      BY <1>1
<1>4. Append(h, e) \in Seq(T)
      BY <1>3
<1>5. QED  BY <1>3, <1>4 DEF IsSeq

LEMMA AppendKeepsPrefixes ==
    ASSUME NEW h, IsSeq(h), NEW e, NEW n \in Nat, n <= Len(h)
    PROVE  SubSeq(Append(h, e), 1, n) = SubSeq(h, 1, n)
<1>1. PICK S : h \in Seq(S)
      BY DEF IsSeq
<1>2. DEFINE T == S \cup {e}
<1>3. h \in Seq(T) /\ e \in T
      BY <1>1
<1>4. QED  BY <1>3

LEMMA AppendCancels ==
    ASSUME NEW g, IsSeq(g), NEW h, IsSeq(h), NEW d, NEW e, Append(g, d) = Append(h, e)
    PROVE  g = h /\ d = e
<1>1. Len(g) = Len(h)
      BY AppendIsSeq
<1>2. QED  BY <1>1, AppendIsSeq

-----------------------------------------------------------------------------
(* The inductive invariant. *)

Shape ==
    /\ DOMAIN heads = Ids
    /\ \A id \in Ids : IsSeq(heads[id])
    /\ pc \in [Clients -> Steps]
    /\ DOMAIN work = Clients
    /\ lock \in Clients \cup {None}

\* The admission of an authorization is the second event of its assumption.
Admitted(a) ==
    /\ a.id \in Assumptions
    /\ IsSeq(a.prev) /\ Len(a.prev) = 1
    /\ Len(heads[a.id]) >= 2
    /\ SubSeq(heads[a.id], 1, 2) = Append(a.prev, AdmitEvent(a))

Answered == \A x \in answers : x = Result(x.auth) /\ Admitted(x.auth)

\* What a governed admission is about to commit was decided on these heads.
Decided2(j) ==
    /\ j = Job(j.event.arg.id, j.event.arg.prev, AdmitEvent(j.event.arg))
    /\ j.id \in Assumptions
    /\ j.prev = heads[j.id]
    /\ j.event.arg \in Authorization(heads, j.id, j.event.arg.by, j.event.arg.clock)

ClientOK(p) ==
    /\ lock = p <=> pc[p] \in {"object", "replace", "return"}
    /\ pc[p] # "idle" => work[p].id \in Ids /\ IsSeq(work[p].prev)
    /\ pc[p] \in {"append", "replace"} => Digest(work[p]) \in objects
    /\ pc[p] \in {"authorize", "head", "reduce", "install", "append"} => ~Governed(work[p].event)
    /\ pc[p] \in {"install", "append"} => Legal(work[p].id, work[p].prev, work[p].event)
    /\ pc[p] \in {"object", "replace"} => Decided2(work[p])
    /\ pc[p] = "return" => Admitted(work[p].event.arg)

IInv == Shape /\ HeadsReconstruct /\ Answered /\ \A p \in Clients : ClientOK(p)

-----------------------------------------------------------------------------
\* A step of one client that leaves heads, lock and answers alone.
LEMMA LocalStep ==
    ASSUME IInv, NEW p \in Clients,
           UNCHANGED <<heads, lock, answers>>,
           objects \subseteq objects',
           pc' \in [Clients -> Steps], DOMAIN work' = Clients,
           \A q \in Clients \ {p} : pc'[q] = pc[q] /\ work'[q] = work[q],
           ClientOK(p)'
    PROVE  IInv'
<1>1. Shape'
      BY DEF IInv, Shape
<1>2. HeadsReconstruct'
      BY DEF IInv, HeadsReconstruct, Reconstructs
<1>3. Answered'
      BY DEF IInv, Answered, Admitted
<1>4. ASSUME NEW q \in Clients PROVE ClientOK(q)'
  <2>1. CASE q = p  BY <2>1
  <2>2. CASE q # p
    <3>1. pc'[q] = pc[q] /\ work'[q] = work[q] /\ ClientOK(q)
          BY <2>2 DEF IInv
    <3>2. QED  BY <3>1 DEF ClientOK, Decided2, Admitted
  <2>3. QED  BY <2>1, <2>2
<1>5. QED  BY <1>1, <1>2, <1>3, <1>4 DEF IInv

\* A step that leaves everything the invariant speaks of alone.
LEMMA StutterKeeps ==
    ASSUME IInv, UNCHANGED <<objects, heads, lock, pc, work, answers>> PROVE IInv'
<1>1. Shape'
      BY DEF IInv, Shape
<1>2. HeadsReconstruct'
      BY DEF IInv, HeadsReconstruct, Reconstructs
<1>3. Answered'
      BY DEF IInv, Answered, Admitted
<1>4. ASSUME NEW q \in Clients PROVE ClientOK(q)'
  <2>1. pc'[q] = pc[q] /\ work'[q] = work[q] /\ ClientOK(q)
        BY DEF IInv
  <2>2. QED  BY <2>1 DEF ClientOK, Decided2, Admitted
<1>5. QED  BY <1>1, <1>2, <1>3, <1>4 DEF IInv

LEMMA GotoShape ==
    ASSUME Shape, NEW p \in Clients, NEW step \in Steps, Goto(p, step)
    PROVE  /\ pc' \in [Clients -> Steps] /\ DOMAIN work' = Clients
           /\ \A q \in Clients \ {p} : pc'[q] = pc[q] /\ work'[q] = work[q]
           /\ pc'[p] = step
           /\ step # "idle" => work'[p] = work[p]
BY DEF Shape, Goto

LEMMA BeginShape ==
    ASSUME Shape, NEW p \in Clients, NEW job, NEW step \in Steps, Begin(p, job, step)
    PROVE  /\ pc' \in [Clients -> Steps] /\ DOMAIN work' = Clients
           /\ \A q \in Clients \ {p} : pc'[q] = pc[q] /\ work'[q] = work[q]
           /\ pc'[p] = step /\ work'[p] = job
BY DEF Shape, Begin

LEMMA ChooseKeeps == ASSUME IInv, NEW p \in Clients, Choose(p) PROVE IInv'
<1>1a. PICK id \in Ids : \E e \in Offers[id] :
          Begin(p, Job(id, heads[id], e), IF id \in EvidenceIds THEN "authorize" ELSE "head")
      BY DEF Choose
<1>1. PICK e \in Offers[id] :
          Begin(p, Job(id, heads[id], e), IF id \in EvidenceIds THEN "authorize" ELSE "head")
      BY <1>1a
<1>2. DEFINE step == IF id \in EvidenceIds THEN "authorize" ELSE "head"
<1>3. step \in {"authorize", "head"}  OBVIOUS
<1>4. /\ pc' \in [Clients -> Steps] /\ DOMAIN work' = Clients
      /\ \A q \in Clients \ {p} : pc'[q] = pc[q] /\ work'[q] = work[q]
      /\ pc'[p] \in {"authorize", "head"} /\ work'[p] = Job(id, heads[id], e)
      BY <1>1, <1>3, BeginShape DEF IInv, Steps
<1>5. lock # p /\ UNCHANGED <<heads, lock, answers, objects>>
      BY ClientsAssumption DEF Choose, Unlocked
<1>6. IsSeq(heads[id]) /\ ~Governed(e)
      BY OffersAssumption DEF IInv, Shape
<1>7. ClientOK(p)'
      BY <1>4, <1>5, <1>6 DEF ClientOK, Job
<1>8. QED  BY <1>4, <1>5, <1>7, LocalStep

\* A client that is not in a governed admission and goes back to idle.
LEMMA IdleStep ==
    ASSUME IInv, NEW p \in Clients, Goto(p, "idle"), lock # p,
           UNCHANGED <<heads, lock, answers, objects>>
    PROVE  IInv'
<1>1. /\ pc' \in [Clients -> Steps] /\ DOMAIN work' = Clients
      /\ \A q \in Clients \ {p} : pc'[q] = pc[q] /\ work'[q] = work[q]
      /\ pc'[p] = "idle"
      BY GotoShape DEF IInv, Steps
<1>2. ClientOK(p)'
      BY <1>1 DEF ClientOK
<1>3. QED  BY <1>1, <1>2, LocalStep

LEMMA AuthorizeKeeps == ASSUME IInv, NEW p \in Clients, Authorize(p) PROVE IInv'
<1>1. lock # p /\ UNCHANGED <<heads, lock, answers, objects>> /\ pc[p] = "authorize" /\ ClientOK(p)
      BY ClientsAssumption DEF Authorize, Unlocked, IInv
<1>2. CASE Goto(p, "idle")  BY <1>1, <1>2, IdleStep
<1>3. CASE Goto(p, "head")
  <2>1. /\ pc' \in [Clients -> Steps] /\ DOMAIN work' = Clients
        /\ \A q \in Clients \ {p} : pc'[q] = pc[q] /\ work'[q] = work[q]
        /\ pc'[p] = "head" /\ work'[p] = work[p]
        BY <1>3, GotoShape DEF IInv, Steps
  <2>2. ClientOK(p)'
        BY <1>1, <2>1 DEF ClientOK
  <2>3. QED  BY <1>1, <2>1, <2>2, LocalStep
<1>4. QED  BY <1>2, <1>3 DEF Authorize

LEMMA CheckHeadKeeps == ASSUME IInv, NEW p \in Clients, CheckHead(p) PROVE IInv'
<1>1. lock # p /\ UNCHANGED <<heads, lock, answers, objects>> /\ pc[p] = "head" /\ ClientOK(p)
      BY ClientsAssumption DEF CheckHead, Unlocked, IInv
<1>2. CASE Goto(p, "idle")  BY <1>1, <1>2, IdleStep
<1>3. CASE Goto(p, "reduce")
  <2>1. /\ pc' \in [Clients -> Steps] /\ DOMAIN work' = Clients
        /\ \A q \in Clients \ {p} : pc'[q] = pc[q] /\ work'[q] = work[q]
        /\ pc'[p] = "reduce" /\ work'[p] = work[p]
        BY <1>3, GotoShape DEF IInv, Steps
  <2>2. ClientOK(p)'
        BY <1>1, <2>1 DEF ClientOK
  <2>3. QED  BY <1>1, <2>1, <2>2, LocalStep
<1>4. QED  BY <1>2, <1>3 DEF CheckHead

LEMMA ReduceKeeps == ASSUME IInv, NEW p \in Clients, Reduce(p) PROVE IInv'
<1>1. lock # p /\ UNCHANGED <<heads, lock, answers, objects>> /\ pc[p] = "reduce" /\ ClientOK(p)
      BY ClientsAssumption DEF Reduce, Unlocked, IInv
<1>2. CASE Goto(p, "idle")  BY <1>1, <1>2, IdleStep
<1>3. CASE Goto(p, "install") /\ Legal(work[p].id, work[p].prev, work[p].event)
  <2>1. /\ pc' \in [Clients -> Steps] /\ DOMAIN work' = Clients
        /\ \A q \in Clients \ {p} : pc'[q] = pc[q] /\ work'[q] = work[q]
        /\ pc'[p] = "install" /\ work'[p] = work[p]
        BY <1>3, GotoShape DEF IInv, Steps
  <2>2. ClientOK(p)'
        BY <1>1, <1>3, <2>1 DEF ClientOK, Legal, Reduced
  <2>3. QED  BY <1>1, <2>1, <2>2, LocalStep
<1>4. QED  BY <1>2, <1>3 DEF Reduce, Legal

LEMMA InstallKeeps == ASSUME IInv, NEW p \in Clients, Install(p) PROVE IInv'
<1>1. /\ UNCHANGED <<heads, lock, answers>> /\ objects' = objects \cup {Digest(work[p])}
      /\ pc[p] = "install" /\ ClientOK(p)
      BY DEF Install, IInv
<1>2. /\ pc' \in [Clients -> Steps] /\ DOMAIN work' = Clients
      /\ \A q \in Clients \ {p} : pc'[q] = pc[q] /\ work'[q] = work[q]
      /\ pc'[p] = "append" /\ work'[p] = work[p]
      BY GotoShape DEF IInv, Steps, Install
<1>3. ClientOK(p)'
  <2>1. (Digest(work[p]) \in objects)'
        BY <1>1, <1>2 DEF Digest
  <2>2. Legal(work[p].id, work[p].prev, work[p].event)'
        BY <1>1, <1>2 DEF ClientOK, Legal, Reduced
  <2>3. QED  BY <1>1, <1>2, <2>1, <2>2 DEF ClientOK
<1>4. QED  BY <1>1, <1>2, <1>3, LocalStep

LEMMA InstallAdmitKeeps == ASSUME IInv, NEW p \in Clients, InstallAdmit(p) PROVE IInv'
<1>1. /\ UNCHANGED <<heads, lock, answers>> /\ objects' = objects \cup {Digest(work[p])}
      /\ pc[p] = "object" /\ ClientOK(p)
      BY DEF InstallAdmit, IInv
<1>2. /\ pc' \in [Clients -> Steps] /\ DOMAIN work' = Clients
      /\ \A q \in Clients \ {p} : pc'[q] = pc[q] /\ work'[q] = work[q]
      /\ pc'[p] = "replace" /\ work'[p] = work[p]
      BY GotoShape DEF IInv, Steps, InstallAdmit
<1>3. ClientOK(p)'
      BY <1>1, <1>2 DEF ClientOK, Digest, Decided2
<1>4. QED  BY <1>1, <1>2, <1>3, LocalStep

-----------------------------------------------------------------------------
\* A step that gives one entity an event on top of its head.  The others have
\* nothing under the lock.
LEMMA HeadStep ==
    ASSUME IInv, NEW p \in Clients,
           NEW j, j = work[p], j.id \in Ids, j.prev = heads[j.id], Digest(j) \in objects,
           heads' = [heads EXCEPT ![j.id] = Digest(j).history],
           UNCHANGED <<objects, lock, answers>>,
           pc' \in [Clients -> Steps], DOMAIN work' = Clients,
           \A q \in Clients \ {p} : pc'[q] = pc[q] /\ work'[q] = work[q],
           \A q \in Clients \ {p} : pc[q] \notin {"object", "replace", "return"},
           ClientOK(p)'
    PROVE  IInv'
<1> DEFINE id == j.id
           h  == heads[id]
<1>1. /\ DOMAIN heads = Ids /\ IsSeq(h)
      /\ heads'[id] = Append(h, j.event)
      /\ \A x \in Ids : x # id => heads'[x] = heads[x]
      BY DEF IInv, Shape, Digest
<1>2. Shape'
  <2>0. IsSeq(Append(h, j.event))
        BY <1>1, AppendIsSeq
  <2>1. IsSeq(heads'[id])
        BY <1>1, <2>0, Zenon
  <2>2. \A x \in Ids : IsSeq(heads'[x])
        BY <1>1, <2>1 DEF IInv, Shape
  <2>3. QED  BY <2>2 DEF IInv, Shape
<1>3. HeadsReconstruct'
  <2>1. ASSUME NEW x \in Ids, NEW n \in 1..Len(heads'[x])
        PROVE  [id |-> x, history |-> SubSeq(heads'[x], 1, n)] \in objects
    <3>1. CASE x # id
          BY <1>1, <2>1, <3>1 DEF IInv, HeadsReconstruct, Reconstructs
    <3>2. CASE x = id /\ n = Len(h) + 1
      <4>1. SubSeq(heads'[x], 1, n) = Append(h, j.event)
            BY <1>1, <3>2, AppendIsSeq
      <4>2. QED  BY <3>2, <4>1 DEF Digest
    <3>3. CASE x = id /\ n # Len(h) + 1
      <4>1. Len(h) \in Nat /\ Len(heads'[x]) = Len(h) + 1
            BY <1>1, <3>3, AppendIsSeq
      <4>2. n \in 1..Len(h)
            BY <2>1, <3>3, <4>1
      <4>3. SubSeq(heads'[x], 1, n) = SubSeq(h, 1, n)
            BY <1>1, <3>3, <4>1, <4>2, AppendKeepsPrefixes
      <4>4. QED  BY <3>3, <4>2, <4>3 DEF IInv, HeadsReconstruct, Reconstructs
    <3>4. QED  BY <3>1, <3>2, <3>3
  <2>2. QED  BY <2>1 DEF HeadsReconstruct, Reconstructs
<1>4. ASSUME NEW a, Admitted(a) PROVE Admitted(a)'
  <2>1. a.id \in Ids
        BY <1>4, AssumptionsAssumption DEF Admitted
  <2>2. CASE a.id # id
        BY <1>1, <1>4, <2>1, <2>2 DEF Admitted
  <2>3. CASE a.id = id
    <3>1. Len(h) \in Nat /\ Len(heads'[id]) = Len(h) + 1 /\ Len(h) >= 2
          BY <1>1, <1>4, <2>3, AppendIsSeq DEF Admitted
    <3>2. SubSeq(heads'[id], 1, 2) = SubSeq(h, 1, 2)
          BY <1>1, <3>1, AppendKeepsPrefixes
    <3>3. /\ heads[a.id] = h /\ heads'[a.id] = heads'[id]
          /\ Len(heads'[a.id]) >= 2
          BY <2>3, <3>1
    <3>4. QED  BY <1>4, <3>2, <3>3 DEF Admitted
  <2>4. QED  BY <2>2, <2>3
<1>5. Answered'
      BY <1>4 DEF IInv, Answered
<1>6. ASSUME NEW q \in Clients PROVE ClientOK(q)'
  <2>1. CASE q = p  BY <2>1
  <2>2. CASE q # p
    <3>1. pc'[q] = pc[q] /\ work'[q] = work[q] /\ ClientOK(q)
          /\ pc[q] \notin {"object", "replace", "return"}
          BY <2>2 DEF IInv
    <3>2. QED  BY <3>1 DEF ClientOK, Legal, Reduced, Digest
  <2>3. QED  BY <2>1, <2>2
<1>7. QED  BY <1>2, <1>3, <1>5, <1>6 DEF IInv

LEMMA AppendHeadKeeps == ASSUME IInv, NEW p \in Clients, AppendHead(p) PROVE IInv'
<1>1. /\ lock = None /\ lock # p /\ UNCHANGED <<objects, lock, answers>>
      /\ pc[p] = "append" /\ ClientOK(p) /\ Goto(p, "idle")
      BY ClientsAssumption DEF AppendHead, Unlocked, IInv
<1>2. CASE heads' = heads  BY <1>1, <1>2, IdleStep
<1>3. CASE heads[work[p].id] = work[p].prev
           /\ heads' = [heads EXCEPT ![work[p].id] = Digest(work[p]).history]
  <2>1. /\ pc' \in [Clients -> Steps] /\ DOMAIN work' = Clients
        /\ \A q \in Clients \ {p} : pc'[q] = pc[q] /\ work'[q] = work[q]
        /\ pc'[p] = "idle"
        BY <1>1, GotoShape DEF IInv, Steps
  <2>2. \A q \in Clients : pc[q] \notin {"object", "replace", "return"}
        BY <1>1, ClientsAssumption DEF IInv, ClientOK
  <2>3. ClientOK(p)'
        BY <1>1, <2>1 DEF ClientOK
  <2>4. work[p].id \in Ids /\ Digest(work[p]) \in objects
        BY <1>1 DEF ClientOK
  <2>5. QED  BY <1>1, <1>3, <2>1, <2>2, <2>3, <2>4, HeadStep
<1>4. QED  BY <1>2, <1>3 DEF AppendHead

\* An authorization names its candidate, whose one event it extends.
LEMMA AuthorizationShape ==
    ASSUME NEW id, NEW by, NEW clock, NEW a \in Authorization(heads, id, by, clock)
    PROVE  /\ a.id = id /\ a.by = by /\ a.clock = clock /\ a.prev = heads[id]
           /\ a.assumptions = AssumptionRoot(heads) /\ a.evidence = EvidenceRoot(heads)
           /\ Proposed(heads, id, clock)
<1>1. Proposed(heads, id, clock)
      BY DEF Authorization, When
<1>2. QED  BY <1>1 DEF Authorization, When

LEMMA BeginAdmitKeeps == ASSUME IInv, NEW p \in Clients, BeginAdmit(p) PROVE IInv'
<1>1. PICK id \in Assumptions, by \in Admitters, clock \in AdmitClocks :
          \E a \in Authorization(heads, id, by, clock) :
              Begin(p, Job(id, a.prev, AdmitEvent(a)), "object")
      BY DEF BeginAdmit
<1>2. PICK a \in Authorization(heads, id, by, clock) :
              Begin(p, Job(id, a.prev, AdmitEvent(a)), "object")
      BY <1>1
<1>3. /\ pc' \in [Clients -> Steps] /\ DOMAIN work' = Clients
      /\ \A q \in Clients \ {p} : pc'[q] = pc[q] /\ work'[q] = work[q]
      /\ pc'[p] = "object" /\ work'[p] = Job(id, a.prev, AdmitEvent(a))
      BY <1>2, BeginShape DEF IInv, Steps
<1>4. a.id = id /\ a.by = by /\ a.clock = clock /\ a.prev = heads[id]
      BY AuthorizationShape
<1>5. UNCHANGED <<objects, heads, answers>> /\ lock = None /\ lock' = p
      BY DEF BeginAdmit, Unlocked
<1>6. id \in Ids /\ IsSeq(heads[id])
      BY AssumptionsAssumption DEF IInv, Shape
<1>7. Decided2(Job(id, a.prev, AdmitEvent(a)))'
  <2>1. /\ Job(id, a.prev, AdmitEvent(a)).event.arg = a
        /\ Job(id, a.prev, AdmitEvent(a)).id = id
        /\ Job(id, a.prev, AdmitEvent(a)).prev = a.prev
        BY DEF Job, AdmitEvent
  <2>2. Decided2(Job(id, a.prev, AdmitEvent(a)))
        BY <1>4, <2>1 DEF Decided2
  <2>3. QED  BY <1>5, <2>2 DEF Decided2
<1>8. ClientOK(p)'
  <2>1. Decided2(work[p])'
        BY <1>3, <1>7
  <2>2. work'[p].id \in Ids /\ IsSeq(work'[p].prev)
        BY <1>3, <1>4, <1>6 DEF Job
  <2>3. QED  BY <1>3, <1>5, <2>1, <2>2 DEF ClientOK
<1>9. ASSUME NEW q \in Clients, q # p PROVE ClientOK(q)'
  <2>1. pc'[q] = pc[q] /\ work'[q] = work[q] /\ ClientOK(q)
        BY <1>3, <1>9 DEF IInv
  <2>2. pc[q] \notin {"object", "replace", "return"}
        BY <1>5, <2>1, ClientsAssumption DEF ClientOK
  <2>3. QED  BY <1>5, <1>9, <2>1, <2>2 DEF ClientOK, Legal, Reduced, Digest
<1>10. Shape' /\ HeadsReconstruct' /\ Answered'
      BY <1>3, <1>5 DEF IInv, Shape, HeadsReconstruct, Reconstructs, Answered, Admitted
<1>11. QED  BY <1>8, <1>9, <1>10 DEF IInv

LEMMA ReplaceHeadKeeps == ASSUME IInv, NEW p \in Clients, ReplaceHead(p) PROVE IInv'
<1>1. /\ UNCHANGED <<objects, lock, answers>>
      /\ heads' = [heads EXCEPT ![work[p].id] = Digest(work[p]).history]
      /\ pc[p] = "replace" /\ ClientOK(p) /\ Goto(p, "return")
      BY DEF ReplaceHead, IInv
<1>2. /\ pc' \in [Clients -> Steps] /\ DOMAIN work' = Clients
      /\ \A q \in Clients \ {p} : pc'[q] = pc[q] /\ work'[q] = work[q]
      /\ pc'[p] = "return" /\ work'[p] = work[p]
      BY <1>1, GotoShape DEF IInv, Steps
<1> DEFINE a == work[p].event.arg
<1>3. /\ work[p].id = a.id /\ work[p].prev = a.prev /\ work[p].event = AdmitEvent(a)
      /\ a.id \in Assumptions /\ a.prev = heads[a.id] /\ a.id \in Ids
      /\ Len(a.prev) = 1 /\ lock = p /\ Digest(work[p]) \in objects
  <2>1. Decided2(work[p]) /\ lock = p /\ Digest(work[p]) \in objects
        BY <1>1 DEF ClientOK
  <2>2. Len(heads[work[p].id]) = 1
        BY <2>1, AuthorizationShape DEF Decided2, Proposed
  <2>3. QED  BY <2>1, <2>2, AssumptionsAssumption DEF Decided2, Job
<1>4. \A q \in Clients \ {p} : pc[q] \notin {"object", "replace", "return"}
      BY <1>3 DEF IInv, ClientOK
<1>5. Admitted(a)'
  <2>1. IsSeq(a.prev)
        BY <1>3 DEF IInv, Shape
  <2>2. heads'[a.id] = Append(a.prev, AdmitEvent(a))
        BY <1>1, <1>3 DEF IInv, Shape, Digest
  <2>3. Len(a.prev) + 1 = 2
        BY <1>3
  <2>4. /\ Len(Append(a.prev, AdmitEvent(a))) = 2
        /\ SubSeq(Append(a.prev, AdmitEvent(a)), 1, 2) = Append(a.prev, AdmitEvent(a))
        BY <2>1, <2>3, AppendIsSeq, Zenon
  <2>5. /\ Len(heads'[a.id]) = 2
        /\ SubSeq(heads'[a.id], 1, 2) = Append(a.prev, AdmitEvent(a))
        BY <2>2, <2>4, Zenon
  <2>6. 2 >= 2  OBVIOUS
  <2>7. work'[p].event.arg = a
        BY <1>2
  <2>8. QED  BY <1>3, <2>1, <2>5, <2>6, <2>7, Zenon DEF Admitted
<1>6. ClientOK(p)'
      BY <1>1, <1>2, <1>3, <1>5 DEF ClientOK
<1>7. QED  BY <1>1, <1>2, <1>3, <1>4, <1>6, HeadStep

-----------------------------------------------------------------------------
\* A step that only ends what one client does under the lock, or anywhere.
LEMMA LeaveStep ==
    ASSUME IInv, NEW p \in Clients, Goto(p, "idle"),
           lock' = IF lock = p THEN None ELSE lock,
           UNCHANGED <<objects, heads>>, Answered'
    PROVE  IInv'
<1>1. /\ pc' \in [Clients -> Steps] /\ DOMAIN work' = Clients
      /\ \A q \in Clients \ {p} : pc'[q] = pc[q] /\ work'[q] = work[q]
      /\ pc'[p] = "idle"
      BY GotoShape DEF IInv, Steps
<1>2. Shape' /\ HeadsReconstruct'
      BY <1>1 DEF IInv, Shape, HeadsReconstruct, Reconstructs
<1>3. ClientOK(p)'
      BY <1>1, ClientsAssumption DEF ClientOK
<1>4. ASSUME NEW q \in Clients, q # p PROVE ClientOK(q)'
  <2>1. pc'[q] = pc[q] /\ work'[q] = work[q] /\ ClientOK(q)
        BY <1>1, <1>4 DEF IInv
  <2>2. lock' = q <=> lock = q
        BY <1>4, ClientsAssumption
  <2>3. QED  BY <2>1, <2>2 DEF ClientOK, Decided2, Admitted, Legal, Reduced, Digest
<1>5. QED  BY <1>2, <1>3, <1>4 DEF IInv

LEMMA CrashKeeps == ASSUME IInv, NEW p \in Clients, Crash(p) PROVE IInv'
<1>1. Answered'
      BY DEF Crash, IInv, Answered, Admitted
<1>2. QED  BY <1>1, LeaveStep DEF Crash

LEMMA UncertainAdmitKeeps == ASSUME IInv, NEW p \in Clients, UncertainAdmit(p) PROVE IInv'
<1>1. Answered'
      BY DEF UncertainAdmit, IInv, Answered, Admitted
<1>2. lock = p
      BY DEF UncertainAdmit, IInv, ClientOK
<1>3. QED  BY <1>1, <1>2, LeaveStep DEF UncertainAdmit, Leave

LEMMA FinishAdmitKeeps == ASSUME IInv, NEW p \in Clients, FinishAdmit(p) PROVE IInv'
<1> DEFINE a == work[p].event.arg
<1>1. /\ pc[p] = "return" /\ UNCHANGED <<objects, heads>> /\ answers' = answers \cup {Result(a)}
      /\ ClientOK(p)
      BY DEF FinishAdmit, IInv
<1>2. Admitted(a)
      BY <1>1 DEF ClientOK
<1>3. Result(a).auth = a
      BY DEF Result
<1>4. ASSUME NEW x \in answers' PROVE x = Result(x.auth) /\ Admitted(x.auth)
      BY <1>1, <1>2, <1>3, <1>4 DEF IInv, Answered
<1>5. Answered'
      BY <1>1, <1>4 DEF Answered, Admitted
<1>6. lock = p
      BY <1>1 DEF ClientOK
<1>7. QED  BY <1>1, <1>5, <1>6, LeaveStep DEF FinishAdmit, Leave

\* A retry that is answered is answered as the admission was.
LEMMA RetryAlike ==
    ASSUME IInv, NEW a, Admitted(a),
           heads[a.id] = Append(a.prev, AdmitEvent(a)),
           EvidenceRoot(heads) = a.evidence,
           [AssumptionRoot(heads) EXCEPT ![a.id] = a.prev] = a.assumptions
    PROVE  [auth |-> a, assumptions |-> AssumptionRoot(heads), evidence |-> EvidenceRoot(heads)] = Result(a)
<1> DEFINE e == Append(a.prev, AdmitEvent(a))
<1>1. a.id \in Assumptions
      BY DEF Admitted
<1>2. [a.assumptions EXCEPT ![a.id] = e] = [id \in Assumptions |-> heads[id]]
  <2>1. a.assumptions = [id \in Assumptions |-> IF id = a.id THEN a.prev ELSE heads[id]]
        BY DEF AssumptionRoot
  <2>2. HIDE DEF e
  <2>3. heads[a.id] = e
        BY DEF e
  <2>4. QED  BY <1>1, <2>1, <2>3
<1>3. QED  BY <1>2 DEF Result, AssumptionRoot

LEMMA RetryKeeps == ASSUME IInv, NEW p \in Clients, Retry(p) PROVE IInv'
<1>1. UNCHANGED <<objects, heads, lock, pc, work>>
      BY DEF Retry
<1>2. PICK x \in answers :
          /\ heads[x.auth.id] = Append(x.auth.prev, AdmitEvent(x.auth))
          /\ EvidenceRoot(heads) = x.auth.evidence
          /\ [AssumptionRoot(heads) EXCEPT ![x.auth.id] = x.auth.prev] = x.auth.assumptions
          /\ answers' = answers \cup {[auth |-> x.auth, assumptions |-> AssumptionRoot(heads),
                                       evidence |-> EvidenceRoot(heads)]}
      BY DEF Retry
<1>3. Admitted(x.auth) /\ x = Result(x.auth)
      BY DEF IInv, Answered
<1>4. answers' = answers
      BY <1>2, <1>3, RetryAlike
<1>5. QED  BY <1>1, <1>4, StutterKeeps

LEMMA InitHolds == Init => IInv
<1>1. SUFFICES ASSUME Init PROVE IInv
      OBVIOUS
<1>2. Shape
      BY <1>1, EmptyIsSeq DEF Init, Shape, Steps
<1>3. HeadsReconstruct
      BY <1>1 DEF Init, HeadsReconstruct, Reconstructs
<1>4. Answered
      BY <1>1 DEF Init, Answered
<1>5. \A p \in Clients : ClientOK(p)
      BY <1>1, ClientsAssumption DEF Init, ClientOK
<1>6. QED  BY <1>2, <1>3, <1>4, <1>5 DEF IInv

LEMMA StepKeeps == IInv /\ [Next]_vars => IInv'
<1>1. SUFFICES ASSUME IInv, [Next]_vars PROVE IInv'
      OBVIOUS
<1>2. CASE UNCHANGED <<objects, heads, lock, pc, work, answers>>
      BY <1>1, <1>2, StutterKeeps
<1>3. ASSUME NEW p \in Clients,
             \/ Choose(p) \/ Authorize(p) \/ CheckHead(p) \/ Reduce(p)
             \/ Install(p) \/ AppendHead(p)
             \/ BeginAdmit(p) \/ InstallAdmit(p) \/ ReplaceHead(p)
             \/ FinishAdmit(p) \/ UncertainAdmit(p) \/ Retry(p) \/ Crash(p)
      PROVE  IInv'
      BY <1>1, <1>3, ChooseKeeps, AuthorizeKeeps, CheckHeadKeeps, ReduceKeeps, InstallKeeps,
         AppendHeadKeeps, BeginAdmitKeeps, InstallAdmitKeeps, ReplaceHeadKeeps, FinishAdmitKeeps,
         UncertainAdmitKeeps, RetryKeeps, CrashKeeps
<1>4. CASE \/ ReadRoot \/ List \/ ReadEntity \/ Planned
           \/ BindAssumptions \/ BindEvidence \/ CheckAssumptions \/ CheckEvidence
      BY <1>2, <1>4 DEF ReadRoot, List, ReadEntity, Planned,
                        BindAssumptions, BindEvidence, CheckAssumptions, CheckEvidence
<1>5. QED  BY <1>1, <1>2, <1>3, <1>4 DEF Next, vars

LEMMA InvAlways == Spec => []IInv
BY InitHolds, StepKeeps, PTL DEF Spec

-----------------------------------------------------------------------------
(* The theorems. *)

\* Whoever crashes when, every head can be read back to its first event
\* (append installs the object before it takes the lock).
THEOREM HeadsAlwaysReconstruct == Spec => []HeadsReconstruct
<1>1. IInv => HeadsReconstruct
      BY DEF IInv
<1>2. QED  BY <1>1, InvAlways, PTL

\* An assumption is admitted once: its results agree, retries included
\* (append_governed_admit_assumption, _handle_retry).
THEOREM AdmittedOnce == Spec => []OneAdmission
<1>1. ASSUME IInv, NEW x \in answers, NEW y \in answers, x.auth.id = y.auth.id
      PROVE  x = y
  <2>1. /\ Admitted(x.auth) /\ Admitted(y.auth) /\ x = Result(x.auth) /\ y = Result(y.auth)
        BY <1>1 DEF IInv, Answered
  <2>2. Append(x.auth.prev, AdmitEvent(x.auth)) = Append(y.auth.prev, AdmitEvent(y.auth))
        BY <1>1, <2>1 DEF Admitted
  <2>3. AdmitEvent(x.auth) = AdmitEvent(y.auth)
        BY <2>1, <2>2, AppendCancels DEF Admitted
  <2>4. x.auth = y.auth
        BY <2>3 DEF AdmitEvent
  <2>5. QED  BY <2>1, <2>4
<1>2. IInv => OneAdmission
      BY <1>1 DEF OneAdmission
<1>3. QED  BY <1>2, InvAlways, PTL

\* A governed admission is committed to the registries it was decided on: the
\* locked view spans the reading of both registries and the new head.
THEOREM AdmissionCurrent == Spec => AdmitOnCurrentState
<1> DEFINE Step == \A id \in Assumptions :
                     heads'[id] # heads[id] =>
                        LET e == heads'[id][Len(heads'[id])]
                        IN  Governed(e) => e.arg \in Authorization(heads, id, e.by, e.clock)
<1>1. ASSUME IInv, Next PROVE Step
  <2>1. CASE UNCHANGED heads  BY <2>1
  <2>2. ASSUME NEW p \in Clients, pc[p] \in {"append", "replace"}, work[p].prev = heads[work[p].id],
               heads' = [heads EXCEPT ![work[p].id] = Digest(work[p]).history]
        PROVE  Step
    <3>1. SUFFICES ASSUME NEW id \in Assumptions, heads'[id] # heads[id],
                          Governed(heads'[id][Len(heads'[id])])
                   PROVE  LET e == heads'[id][Len(heads'[id])]
                          IN  e.arg \in Authorization(heads, id, e.by, e.clock)
          OBVIOUS
    <3>2. DOMAIN heads = Ids /\ IsSeq(heads[id]) /\ ClientOK(p)
          BY <1>1, AssumptionsAssumption DEF IInv, Shape
    <3>3. id = work[p].id /\ heads'[id] = Append(heads[id], work[p].event)
          BY <2>2, <3>1, <3>2, AssumptionsAssumption DEF Digest
    <3>4. heads'[id][Len(heads'[id])] = work[p].event
          BY <3>2, <3>3, AppendIsSeq
    <3>5. pc[p] = "replace" /\ Decided2(work[p])
          BY <2>2, <3>1, <3>2, <3>4 DEF ClientOK
    <3>6. LET a == work[p].event.arg
          IN  /\ work[p].event = AdmitEvent(a)
              /\ a \in Authorization(heads, id, a.by, a.clock)
          BY <3>3, <3>5 DEF Decided2, Job
    <3>7. LET a == work[p].event.arg
          IN  work[p].event.by = a.by /\ work[p].event.clock = a.clock
          BY <3>6 DEF AdmitEvent
    <3>8. QED  BY <3>4, <3>6, <3>7
  <2>3. ASSUME NEW p \in Clients, ReplaceHead(p) PROVE Step
    <3>1. work[p].prev = heads[work[p].id]
          BY <1>1, <2>3 DEF IInv, ClientOK, Decided2, ReplaceHead
    <3>2. QED  BY <2>2, <2>3, <3>1 DEF ReplaceHead
  <2>4. ASSUME NEW p \in Clients, AppendHead(p) PROVE Step
        BY <2>1, <2>2, <2>4 DEF AppendHead
  <2>5. QED  BY <1>1, <2>1, <2>3, <2>4
             DEF Next, Choose, Authorize, CheckHead, Reduce, Install, BeginAdmit, InstallAdmit,
                 FinishAdmit, UncertainAdmit, Retry, Crash, ReadRoot, List, ReadEntity, Planned,
                 BindAssumptions, BindEvidence, CheckAssumptions, CheckEvidence
<1>2. IInv /\ [Next]_vars => [Step]_vars
      BY <1>1
<1>3. QED  BY <1>2, InvAlways, PTL DEF Spec, AdmitOnCurrentState

\* A proposed assumption may be admitted: what the gate establishes is what
\* the reducer asks for.
LEMMA ProposedIsLegal ==
    ASSUME NEW id \in Assumptions, NEW a, Proposed(heads, id, a.clock)
    PROVE  Legal(id, heads[id], AdmitEvent(a))
<1> DEFINE s == AssumptionAt(id, heads[id])
           e == AdmitEvent(a)
<1>1. s \in AssumptionStates(id, heads[id])
      BY DEF Proposed, LegalAssumption, AssumptionAt
<1>2. s # NoState /\ s.standing = "PROPOSED" /\ ~(a.clock <= s.clock)
      BY DEF Proposed
<1>3. e.op = "ADMIT" /\ e.clock = a.clock
      BY DEF AdmitEvent
<1>4. ~(e.clock <= s.clock)
      BY <1>2, <1>3
<1>5. s.standing \notin TerminalStandings
      BY <1>2 DEF TerminalStandings
<1>6. ReduceAssumption(id, s, e) = Operation(s, e)
      BY <1>2, <1>4, <1>5 DEF ReduceAssumption
<1>7. Operation(s, e) = Admit(s, e)
      BY <1>3 DEF Operation
<1>8. Admit(s, e) # {}
      BY <1>2 DEF Admit, When
<1>9. QED  BY <1>1, <1>6, <1>7, <1>8 DEF Legal, Reduced

\* The registries implement the journals: one entity at a time, one legal
\* event at a time, whatever the clients interleave.
THEOREM RegistryIsJournal == Spec => JournalSpec
<1>1. Init => Journal!Init
      BY DEF Init, Journal!Init
<1>2. ASSUME IInv, Next PROVE Journal!Next \/ UNCHANGED heads
  <2>1. ASSUME NEW p \in Clients, work[p].prev = heads[work[p].id], work[p].id \in Ids,
               Legal(work[p].id, work[p].prev, work[p].event),
               heads' = [heads EXCEPT ![work[p].id] = Digest(work[p]).history]
        PROVE  Journal!Next
    <3> DEFINE id == work[p].id
               e  == work[p].event
    <3>1. DOMAIN heads = Ids /\ IsSeq(heads[id])
          BY <1>2, <2>1 DEF IInv, Shape
    <3>2. heads'[id] = Append(heads[id], e)
          BY <2>1, <3>1 DEF Digest
    <3>3. /\ Len(heads'[id]) = Len(heads[id]) + 1
          /\ SubSeq(heads'[id], 1, Len(heads[id])) = heads[id]
          /\ heads'[id][Len(heads'[id])] = e
          BY <3>1, <3>2, AppendIsSeq
    <3>4. heads' = [heads EXCEPT ![id] = heads'[id]]
          BY <2>1, <3>1
    <3>5. Legal(id, heads[id], heads'[id][Len(heads'[id])])
          BY <2>1, <3>3
    <3>6. QED  BY <2>1, <3>3, <3>4, <3>5 DEF Journal!Next, Journal!Extend
  <2>2. ASSUME NEW p \in Clients, ReplaceHead(p) PROVE Journal!Next
    <3>1. /\ Decided2(work[p]) /\ work[p].id \in Ids
          BY <1>2, <2>2 DEF IInv, ClientOK, ReplaceHead
    <3> DEFINE a == work[p].event.arg
    <3>2. /\ work[p].event = AdmitEvent(a) /\ work[p].id \in Assumptions
          /\ work[p].prev = heads[work[p].id]
          /\ Proposed(heads, work[p].id, a.clock)
          BY <3>1, AuthorizationShape DEF Decided2, Job
    <3>3. Legal(work[p].id, work[p].prev, work[p].event)
          BY <3>2, ProposedIsLegal
    <3>4. QED  BY <2>1, <2>2, <3>1, <3>2, <3>3 DEF ReplaceHead
  <2>3. ASSUME NEW p \in Clients, AppendHead(p) PROVE Journal!Next \/ UNCHANGED heads
    <3>1. work[p].id \in Ids /\ Legal(work[p].id, work[p].prev, work[p].event)
          BY <1>2, <2>3 DEF IInv, ClientOK, AppendHead
    <3>2. QED  BY <2>1, <2>3, <3>1 DEF AppendHead
  <2>4. QED  BY <1>2, <2>2, <2>3
             DEF Next, Choose, Authorize, CheckHead, Reduce, Install, BeginAdmit, InstallAdmit,
                 FinishAdmit, UncertainAdmit, Retry, Crash, ReadRoot, List, ReadEntity, Planned,
                 BindAssumptions, BindEvidence, CheckAssumptions, CheckEvidence
<1>3. IInv /\ [Next]_vars => [Journal!Next]_heads
      BY <1>2 DEF vars
<1>4. QED  BY <1>1, <1>3, InvAlways, PTL DEF Spec, JournalSpec, Journal!Spec

-----------------------------------------------------------------------------
(* What readers see.  A history the readers kept is a prefix of the head   *)
(* from then on.                                                           *)

Grows(g, h) == IsSeq(g) /\ IsSeq(h) /\ IsPrefix(g, h)

LEMMA GrowsAppend == ASSUME NEW h, IsSeq(h), NEW e PROVE Grows(h, Append(h, e))
<1>1. /\ IsSeq(Append(h, e)) /\ Len(h) \in Nat /\ Len(Append(h, e)) = Len(h) + 1
      /\ SubSeq(Append(h, e), 1, Len(h)) = h
      BY AppendIsSeq
<1>2. SubSeq(h, 1, Len(h)) = h
      BY DEF IsSeq
<1>3. QED  BY <1>1, <1>2 DEF Grows, IsPrefix

LEMMA GrowsSelf == ASSUME NEW h, IsSeq(h) PROVE Grows(h, h)
<1>1. Len(h) \in Nat
      BY DEF IsSeq
<1>2. QED  BY <1>1 DEF Grows, IsPrefix

LEMMA GrowsTrans == ASSUME NEW f, NEW g, NEW h, Grows(f, g), Grows(g, h) PROVE Grows(f, h)
<1>1. /\ Len(f) \in Nat /\ Len(g) \in Nat /\ Len(h) \in Nat
      /\ Len(f) <= Len(g) /\ Len(g) <= Len(h)
      BY DEF Grows, IsPrefix, IsSeq
<1>2. \A n \in 1..Len(f) : f[n] = g[n]
      BY <1>1 DEF Grows, IsPrefix, IsSeq
<1>3. \A n \in 1..Len(g) : g[n] = h[n]
      BY <1>1 DEF Grows, IsPrefix, IsSeq
<1>4. \A n \in 1..Len(f) : f[n] = h[n]
      BY <1>1, <1>2, <1>3
<1>5. QED  BY <1>1, <1>4 DEF Grows, IsPrefix, IsSeq

LEMMA GrowsBack == ASSUME NEW g, NEW h, Grows(g, h), Grows(h, g) PROVE g = h
<1>1. /\ Len(g) \in Nat /\ Len(h) = Len(g)
      BY DEF Grows, IsPrefix, IsSeq
<1>2. QED  BY <1>1 DEF Grows, IsPrefix, IsSeq

LEMMA HeadsGrow == ASSUME IInv, [Next]_vars PROVE \A id \in Ids : Grows(heads[id], heads'[id])
<1>1. CASE UNCHANGED heads
      BY <1>1, GrowsSelf DEF IInv, Shape
<1>2. ASSUME NEW p \in Clients, work[p].prev = heads[work[p].id],
             heads' = [heads EXCEPT ![work[p].id] = Digest(work[p]).history]
      PROVE  \A id \in Ids : Grows(heads[id], heads'[id])
  <2>1. ASSUME NEW id \in Ids PROVE Grows(heads[id], heads'[id])
    <3>1. DOMAIN heads = Ids /\ IsSeq(heads[id])
          BY DEF IInv, Shape
    <3>2. CASE id = work[p].id
      <4>1. heads'[id] = Append(heads[id], work[p].event)
            BY <1>2, <3>1, <3>2 DEF Digest
      <4>2. QED  BY <3>1, <4>1, GrowsAppend
    <3>3. CASE id # work[p].id
      <4>1. heads'[id] = heads[id]
            BY <1>2, <3>1, <3>3
      <4>2. QED  BY <3>1, <4>1, GrowsSelf
    <3>4. QED  BY <3>2, <3>3
  <2>2. QED  BY <2>1
<1>3. ASSUME NEW p \in Clients, ReplaceHead(p) PROVE \A id \in Ids : Grows(heads[id], heads'[id])
  <2>1. work[p].prev = heads[work[p].id]
        BY <1>3 DEF IInv, ClientOK, Decided2, ReplaceHead
  <2>2. QED  BY <1>2, <1>3, <2>1 DEF ReplaceHead
<1>4. ASSUME NEW p \in Clients, AppendHead(p) PROVE \A id \in Ids : Grows(heads[id], heads'[id])
      BY <1>1, <1>2, <1>4 DEF AppendHead
<1>5. QED  BY <1>1, <1>3, <1>4
           DEF Next, vars, Choose, Authorize, CheckHead, Reduce, Install, BeginAdmit, InstallAdmit,
               FinishAdmit, UncertainAdmit, Retry, Crash, ReadRoot, List, ReadEntity, Planned,
               BindAssumptions, BindEvidence, CheckAssumptions, CheckEvidence

Between(id) == Grows(scan.root[id], scan.clone[id]) /\ Grows(scan.clone[id], heads[id])

\* What is known of the reader at each of its steps.
ReaderOK ==
    /\ scan.at \in {"idle", "list", "read", "bind", "evaluate", "recheck", "decided"}
    /\ scan.at # "idle" => scan.kind \subseteq Ids /\ DOMAIN scan.clone = scan.kind
    /\ scan.at = "list" => \A id \in scan.kind : scan.clone[id] = <<>>
    /\ scan.at \in {"list", "read"} => \A id \in scan.kind : Grows(scan.root[id], heads[id])
    /\ scan.at = "bind" => /\ \A id \in Assumptions : Grows(scan.root[id], heads[id])
                           /\ DOMAIN scan.root = Ids /\ scan.left = scan.kind
    /\ scan.at \in {"evaluate", "recheck"} => \A id \in Ids : Grows(scan.root[id], heads[id])
    /\ scan.at \in {"read", "evaluate"} => \A id \in scan.kind \ scan.left : Between(id)
    /\ scan.at = "recheck" => \A id \in scan.kind \ scan.left :
                                 IF id \in Assumptions THEN scan.clone[id] = scan.root[id]
                                 ELSE Between(id)
    /\ scan.at = "decided" => \A id \in scan.kind \ scan.left : scan.clone[id] = scan.root[id]

\* A step of the clients: the reader is where it was and the heads grow.
LEMMA ReaderWaits ==
    ASSUME ReaderOK, UNCHANGED scan, \A id \in Ids : Grows(heads[id], heads'[id])
    PROVE  ReaderOK'
<1>1. ASSUME NEW h, NEW id \in Ids, Grows(h, heads[id]) PROVE Grows(h, heads'[id])
      BY <1>1, GrowsTrans
<1>2. ASSUME NEW id \in Ids, Between(id) PROVE Between(id)'
      BY <1>1, <1>2 DEF Between
<1>3. scan.at # "idle" => scan.kind \subseteq Ids
      BY DEF ReaderOK
<1>4. QED  BY <1>1, <1>2, <1>3, AssumptionsAssumption DEF ReaderOK

LEMMA ReaderSteps ==
    ASSUME IInv, ReaderOK,
           \/ ReadRoot \/ List \/ ReadEntity \/ Planned
           \/ BindAssumptions \/ BindEvidence \/ CheckAssumptions \/ CheckEvidence
    PROVE  ReaderOK'
<1>0. \A id \in Ids : Grows(heads[id], heads[id])
      BY GrowsSelf DEF IInv, Shape
<1>1. CASE ReadRoot
      BY <1>0, <1>1, ReadersAssumption DEF ReadRoot, ReaderOK
<1>2. CASE List
  <2>1. /\ scan' = [scan EXCEPT !.at = "read", !.left = {id \in scan.kind : heads[id] # <<>>}]
        /\ scan.at = "list" /\ UNCHANGED heads
        BY <1>2 DEF List
  <2>2. ASSUME NEW id \in scan.kind, heads[id] = <<>> PROVE Between(id)'
    <3>1. id \in Ids /\ Grows(scan.root[id], heads[id]) /\ scan.clone[id] = <<>>
          BY <2>1, <2>2 DEF ReaderOK
    <3>2. QED  BY <1>0, <2>1, <2>2, <3>1 DEF Between
  <2>3. QED  BY <2>1, <2>2 DEF ReaderOK
<1>3. CASE ReadEntity
  <2>1. PICK id \in scan.left :
               scan' = [scan EXCEPT !.left = @ \ {id}, !.clone[id] = heads[id]]
        BY <1>3 DEF ReadEntity
  <2>2. scan.at \in {"read", "evaluate"} /\ UNCHANGED heads
        BY <1>3 DEF ReadEntity
  <2>3. /\ scan'.at = scan.at /\ scan'.kind = scan.kind /\ scan'.root = scan.root
        /\ scan'.left = scan.left \ {id}
        BY <2>1
  <2>4. QED  BY <1>0, <2>1, <2>2, <2>3 DEF ReaderOK, Between
<1>4. CASE Planned
      BY <1>4 DEF Planned, NoScan, ReaderOK
<1>5. CASE BindAssumptions
      BY <1>0, <1>5, ReadersAssumption, AssumptionsAssumption DEF BindAssumptions, ReaderOK
<1>6. CASE BindEvidence
      BY <1>0, <1>6, AssumptionsAssumption DEF BindEvidence, ReaderOK
<1>7. CASE CheckAssumptions
  <2>1. ASSUME NEW id \in Assumptions, id \in Ids, heads[id] = scan.root[id], Between(id)
        PROVE  scan.clone[id] = scan.root[id]
        BY <2>1, GrowsBack DEF Between
  <2>2. QED  BY <1>7, <2>1 DEF CheckAssumptions, NoScan, ReaderOK, Between
<1>8. CASE CheckEvidence
  <2>1. ASSUME NEW id \in Ids, heads[id] = scan.root[id], Between(id)
        PROVE  scan.clone[id] = scan.root[id]
        BY <2>1, GrowsBack DEF Between
  <2>2. QED  BY <1>8, <2>1 DEF CheckEvidence, NoScan, ReaderOK, Between, EvidenceIds
<1>9. QED  BY <1>1, <1>2, <1>3, <1>4, <1>5, <1>6, <1>7, <1>8

LEMMA ReaderAlways == Spec => [](IInv /\ ReaderOK)
<1>1. Init => ReaderOK
      BY DEF Init, NoScan, ReaderOK
<1>2. ASSUME IInv, ReaderOK, [Next]_vars PROVE ReaderOK'
  <2>1. \A id \in Ids : Grows(heads[id], heads'[id])
        BY <1>2, HeadsGrow
  <2>2. CASE UNCHANGED scan
        BY <1>2, <2>1, <2>2, ReaderWaits
  <2>3. CASE \/ ReadRoot \/ List \/ ReadEntity \/ Planned
             \/ BindAssumptions \/ BindEvidence \/ CheckAssumptions \/ CheckEvidence
        BY <1>2, <2>3, ReaderSteps
  <2>4. QED  BY <1>2, <2>2, <2>3
             DEF Next, vars, Choose, Authorize, CheckHead, Reduce, Install, AppendHead, BeginAdmit,
                 InstallAdmit, ReplaceHead, FinishAdmit, UncertainAdmit, Retry, Crash
<1>3. IInv /\ ReaderOK /\ [Next]_vars => (IInv /\ ReaderOK)'
      BY <1>2, StepKeeps
<1>4. QED  BY <1>1, <1>3, InitHolds, PTL DEF Spec

\* A projection's clone lies between the root it recorded and the registry
\* (reconstruct_snapshot, without the lock).
THEOREM ClonesWithin == Spec => []CloneWithin
<1>1. ReaderOK => CloneWithin
      BY DEF ReaderOK, Between, Grows, CloneWithin
<1>2. QED  BY <1>1, ReaderAlways, PTL

\* A decision whose roots did not move read just those roots
\* (evaluate_assumption_use_admissibility).
THEOREM DecisionsOnOneState == Spec => []DecidedOnOneState
<1>1. ReaderOK => DecidedOnOneState
      BY DEF ReaderOK, DecidedOnOneState
<1>2. QED  BY <1>1, ReaderAlways, PTL
=============================================================================
