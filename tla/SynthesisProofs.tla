-------------------------- MODULE SynthesisProofs ---------------------------
(***************************************************************************)
(* Proofs about the synthesis of attempts: their execution, and the        *)
(* publication of completions, shards and a corpus.                        *)
(*                                                                         *)
(* The execution, for every producer, hash, budget and size of a ledger: a *)
(* session keeps its paths and limits, no answer is favoured, and what is  *)
(* made under a seed replays under that seed and no other.  What a         *)
(* recursive function computes is shown with least members of sets of      *)
(* numbers, since induction over an operator is not to be had.             *)
(*                                                                         *)
(* The publication, for any workers, runs, inventories and shards, and any *)
(* number of crashes, power losses and sweeps: what survives a power loss  *)
(* only grows.  Every plan of files is in an order in which what a file    *)
(* cites comes before it, and a worker that has no plan left cites nothing *)
(* it has not flushed.  Of the claims on one object at most one is there,  *)
(* before the object, unless the object was there before any claim.        *)
(***************************************************************************)
EXTENDS SynthesisPipeline, FiniteSetTheorems, SequenceTheorems, NaturalsInduction,
        WellFoundedInduction, TLAPS

\* The records calls can leave.
Records == {Record(Seed, Namespace, call) : call \in Calls}

\* What a session holds.
SessionType ==
    session \in [state : {"open", "frozen", "poisoned"}, attempt : Attempts,
                 reserved : SUBSET {call.path : call \in Calls}, records : Seq(Records)]

\* A recorded path was reserved, belongs to the session and was not used before.
PathsOwned ==
    /\ \A n \in DOMAIN session.records :
          /\ session.records[n].call.path \in session.reserved
          /\ session.records[n].call.path.attempt = session.attempt
          /\ Declared(Prefix, session.records[n].call.path)
    /\ \A m, n \in DOMAIN session.records :
          session.records[m].call.path = session.records[n].call.path => m = n

\* The records fit the limits of the ledger (MAX_CHOICES, the byte limit).
BudgetKept ==
    session.records # <<>> =>
        Len(session.records) <= MaxChoices /\ LedgerBytes(Sorted(session.records)) <= MaxBytes

\* Only a frozen session has a ledger, and it holds what was recorded.
LedgerKept ==
    \A l \in frozen : session.state = "frozen" /\ l = LedgerOf(Sorted(session.records))

\* Who got an answer is recorded, and nobody else.
AnswersRecorded ==
    answered = {session.records[n].call : n \in DOMAIN session.records}

\* The invariant of a session.
SessionSafe == SessionType /\ PathsOwned /\ BudgetKept /\ LedgerKept /\ AnswersRecorded

-----------------------------------------------------------------------------
(* What a record says of the call it was made from (record_from_*_result). *)
LEMMA RecordCall ==
    ASSUME NEW call
    PROVE  Record(Seed, Namespace, call).call = call
  BY DEF Record

(* A new session owes nothing to the one before (ChoiceSession.__init__).  *)
LEMMA OpenedSafe ==
    ASSUME NEW a \in Attempts, session' = Opened(a), frozen' = {}, answered' = {}
    PROVE  SessionSafe'
  <1>1. session'.records = <<>> /\ session'.reserved = {} /\ session'.state = "open"
        /\ session'.attempt = a
    BY DEF Opened
  <1>2. SessionType'
    BY DEF SessionType, Opened
  <1>3. PathsOwned' /\ BudgetKept' /\ LedgerKept' /\ AnswersRecorded'
    BY <1>1 DEF PathsOwned, BudgetKept, LedgerKept, AnswersRecorded
  <1> QED BY <1>2, <1>3 DEF SessionSafe

-----------------------------------------------------------------------------
\* A session starts safe.
LEMMA SafeAtFirst ==
    ASSUME ExecutionInit
    PROVE  SessionSafe
<1>1. PICK a \in Attempts : session = Opened(a)
  BY DEF ExecutionInit
<1>2. session.records = <<>> /\ frozen = {} /\ answered = {}
  BY <1>1 DEF ExecutionInit, Opened
<1>3. SessionType
  BY <1>1 DEF SessionType, Opened
<1>4. PathsOwned /\ BudgetKept /\ LedgerKept /\ AnswersRecorded
  BY <1>2 DEF PathsOwned, BudgetKept, LedgerKept, AnswersRecorded
<1> QED BY <1>3, <1>4 DEF SessionSafe

\* Whatever is called next, it stays so.
LEMMA SafeStep ==
    ASSUME SessionSafe, [ExecutionNext]_executionVars
    PROVE  SessionSafe'
<1>1. ASSUME NEW a \in Attempts, Execute(a) PROVE SessionSafe'
  BY <1>1, OpenedSafe DEF Execute
<1>2. ASSUME NEW call \in Calls, Choose(call) PROVE SessionSafe'
  <2> DEFINE new == Record(Seed, Namespace, call)
             old == session.records
  <2>1. /\ session.state = "open" /\ call.path \notin session.reserved
        /\ call.path.attempt = session.attempt /\ Declared(Prefix, call.path)
        /\ Len(old) + 1 <= MaxChoices /\ LedgerBytes(Sorted(Append(old, new))) <= MaxBytes
    BY <1>2 DEF Choose, Reservable, Committed
  <2>2. /\ session'.records = Append(old, new) /\ session'.state = session.state
        /\ session'.attempt = session.attempt
        /\ session'.reserved = session.reserved \cup {call.path}
        /\ frozen' = frozen /\ answered' = answered \cup {call}
    BY <1>2 DEF Choose, SessionSafe, SessionType
  <2>3. new \in Records /\ new.call = call /\ old \in Seq(Records)
    BY RecordCall DEF Records, SessionSafe, SessionType
  <2>4. SessionType'
    <3>1. Append(old, new) \in Seq(Records)
      BY <2>3
    <3>2. session.reserved \cup {call.path} \in SUBSET {c.path : c \in Calls}
      BY DEF SessionSafe, SessionType
    <3>3. session' = [session EXCEPT !.reserved = session.reserved \cup {call.path},
                                     !.records = Append(old, new)]
      BY <1>2 DEF Choose
    <3> HIDE DEF new, old
    <3> QED BY <3>1, <3>2, <3>3 DEF SessionSafe, SessionType
  <2>5. /\ DOMAIN Append(old, new) = 1..(Len(old) + 1) /\ DOMAIN old = 1..Len(old)
        /\ \A n \in 1..Len(old) : Append(old, new)[n] = old[n]
        /\ Append(old, new)[Len(old) + 1] = new
        /\ Append(old, new) # <<>> /\ Len(Append(old, new)) = Len(old) + 1 /\ Len(old) \in Nat
    BY <2>3
  <2>6. PathsOwned'
    <3> HIDE DEF new, old
    <3>1. ASSUME NEW n \in DOMAIN old
          PROVE  old[n].call.path \in session.reserved /\ old[n].call.path # call.path
                 /\ old[n].call.path.attempt = session.attempt /\ Declared(Prefix, old[n].call.path)
      BY <2>1 DEF SessionSafe, PathsOwned, old
    <3>2. ASSUME NEW n \in DOMAIN Append(old, new)
          PROVE  Append(old, new)[n].call.path \in session.reserved \cup {call.path}
                 /\ Append(old, new)[n].call.path.attempt = session.attempt
                 /\ Declared(Prefix, Append(old, new)[n].call.path)
      <4>1. CASE n = Len(old) + 1
        BY <4>1, <2>1, <2>3, <2>5
      <4>2. CASE n \in DOMAIN old
        BY <4>2, <3>1, <2>5
      <4> QED BY <4>1, <4>2, <2>5
    <3>3. ASSUME NEW m \in DOMAIN Append(old, new), NEW n \in DOMAIN Append(old, new),
                 Append(old, new)[m].call.path = Append(old, new)[n].call.path
          PROVE  m = n
      <4>1. CASE m \in DOMAIN old /\ n \in DOMAIN old
        BY <4>1, <3>3, <2>5 DEF SessionSafe, PathsOwned, old
      <4>2. CASE m = Len(old) + 1 /\ n \in DOMAIN old
        BY <4>2, <3>1, <3>3, <2>3, <2>5
      <4>3. CASE n = Len(old) + 1 /\ m \in DOMAIN old
        BY <4>3, <3>1, <3>3, <2>3, <2>5
      <4> QED BY <4>1, <4>2, <4>3, <2>5
    <3> QED BY <3>2, <3>3, <2>2 DEF PathsOwned
  <2>7. BudgetKept'
    BY <2>1, <2>2, <2>5 DEF BudgetKept
  <2>8. LedgerKept'
    BY <2>1, <2>2 DEF LedgerKept, SessionSafe
  <2>9. AnswersRecorded'
    <3> HIDE DEF new, old
    <3>1. {Append(old, new)[n].call : n \in DOMAIN Append(old, new)}
            = {old[n].call : n \in DOMAIN old} \cup {call}
      BY <2>3, <2>5
    <3> QED BY <3>1, <2>2 DEF AnswersRecorded, SessionSafe, old
  <2> QED BY <2>4, <2>6, <2>7, <2>8, <2>9 DEF SessionSafe
<1>3. ASSUME NEW call \in Calls, Poison(call) PROVE SessionSafe'
  <2>1. /\ session'.records = session.records /\ session'.attempt = session.attempt
        /\ session.reserved \subseteq session'.reserved /\ session.state = "open"
        /\ frozen' = frozen /\ answered' = answered
    BY <1>3 DEF Poison, SessionSafe, SessionType
  <2>2. SessionType'
    BY <1>3 DEF Poison, SessionSafe, SessionType
  <2>3. PathsOwned' /\ BudgetKept' /\ AnswersRecorded'
    BY <2>1 DEF SessionSafe, PathsOwned, BudgetKept, AnswersRecorded
  <2>4. LedgerKept'
    BY <2>1 DEF SessionSafe, LedgerKept
  <2> QED BY <2>2, <2>3, <2>4 DEF SessionSafe
<1>4. CASE Freeze
  <2> DEFINE l == LedgerOf(Sorted(session.records))
  <2>1. /\ session.state = "open" /\ session'.records = session.records
        /\ session'.attempt = session.attempt /\ session'.reserved = session.reserved
        /\ answered' = answered
    BY <1>4 DEF Freeze, SessionSafe, SessionType
  <2>2. \/ frozen' = {l} /\ session'.state = "frozen"
        \/ frozen' = frozen
    BY <1>4 DEF Freeze, SessionSafe, SessionType
  <2>3. SessionType'
    BY <1>4 DEF Freeze, SessionSafe, SessionType
  <2>4. PathsOwned' /\ BudgetKept' /\ AnswersRecorded'
    BY <2>1 DEF SessionSafe, PathsOwned, BudgetKept, AnswersRecorded
  <2>5. LedgerKept'
    <3>1. frozen = {}
      BY <2>1 DEF SessionSafe, LedgerKept
    <3>2. LedgerOf(Sorted(session.records))' = l
      BY <2>1 DEF LedgerOf, Ledger
    <3> QED BY <2>2, <3>1, <3>2 DEF LedgerKept
  <2> QED BY <2>3, <2>4, <2>5 DEF SessionSafe
<1>5. ASSUME NEW request \in Requests, Allocate(request) PROVE SessionSafe'
  BY <1>5 DEF Allocate, SessionSafe, SessionType, PathsOwned, BudgetKept, LedgerKept, LedgerOf,
              AnswersRecorded
<1>6. ASSUME NEW status, Complete(status) PROVE SessionSafe'
  BY <1>6 DEF Complete, SessionSafe, SessionType, PathsOwned, BudgetKept, LedgerKept, LedgerOf,
              AnswersRecorded
<1>7. CASE UNCHANGED executionVars
  BY <1>7 DEF executionVars, SessionSafe, SessionType, PathsOwned, BudgetKept, LedgerKept, LedgerOf,
              AnswersRecorded
<1> QED BY <1>1, <1>2, <1>3, <1>4, <1>5, <1>6, <1>7 DEF ExecutionNext

(* Every record of a session is within its limits and of a path of its own *)
(* whatever calls were refused, and a ledger comes from an unpoisoned      *)
(* session and holds the answered calls (ChoiceSession).                   *)
THEOREM SessionIsSafe == ExecutionSpec => []SessionSafe
BY SafeAtFirst, SafeStep, PTL DEF ExecutionSpec

-----------------------------------------------------------------------------
(* Numbers and recursion.                                                  *)

\* A set of numbers that is not empty has a least one.
LEMMA LeastMember ==
    ASSUME NEW S \in SUBSET Nat, S # {}
    PROVE  \E n \in S : \A m \in S : n <= m
<1> DEFINE Less == OpToRel(<, Nat)
<1>1. \A m, n \in Nat : <<m, n>> \in Less <=> m < n
  BY DEF OpToRel
<1>2. IsWellFoundedOn(Less, Nat)
  BY NatLessThanWellFounded, Zenon
<1> HIDE DEF Less
<1>3. PICK n \in S : \A m \in S : ~(<<m, n>> \in Less)
  BY <1>2, WFMin
<1>4. \A m \in S : ~(m < n)
  BY <1>1, <1>3
<1> QED BY <1>3, <1>4

\* There is a function that starts and goes on as it is told: what a recursive
\* function on the numbers rests on.
LEMMA Iterates ==
    ASSUME NEW base \in Nat, NEW succ \in [Nat \X Nat -> Nat]
    PROVE  \E f \in [Nat -> Nat] :
              f[0] = base /\ \A n \in Nat \ {0} : f[n] = succ[<<n, f[n - 1]>>]
<1> DEFINE Upto(n) == {g \in [0..n -> Nat] :
                          g[0] = base /\ \A k \in 1..n : g[k] = succ[<<k, g[k - 1]>>]}
<1>1. \A n \in Nat : Upto(n) # {}
  <2> DEFINE Bad == {n \in Nat : Upto(n) = {}}
  <2> SUFFICES ASSUME Bad # {} PROVE FALSE
    OBVIOUS
  <2>1. PICK n \in Bad : \A m \in Bad : n <= m
    BY LeastMember
  <2>2. n # 0
    <3>1. [k \in 0..0 |-> base] \in Upto(0)
      OBVIOUS
    <3>2. Upto(n) = {}
      OBVIOUS
    <3> HIDE DEF Upto
    <3> QED BY <3>1, <3>2
  <2>3. n - 1 \in Nat /\ n - 1 \notin Bad
    <3>1. n \in Nat
      OBVIOUS
    <3> HIDE DEF Bad
    <3> QED BY <2>1, <2>2, <3>1
  <2>4. PICK g : g \in Upto(n - 1)
    BY <2>3
  <2> DEFINE h == [k \in 0..n |-> IF k = n THEN succ[<<n, g[n - 1]>>] ELSE g[k]]
  <2>5. /\ g \in [0..(n - 1) -> Nat] /\ g[0] = base
        /\ \A k \in 1..(n - 1) : g[k] = succ[<<k, g[k - 1]>>]
    BY <2>4
  <2>6. succ[<<n, g[n - 1]>>] \in Nat
    BY <2>3, <2>5
  <2>7. h \in [0..n -> Nat] /\ h[0] = base
    BY <2>2, <2>3, <2>5, <2>6
  <2>8. ASSUME NEW k \in 1..n PROVE h[k] = succ[<<k, h[k - 1]>>]
    <3>1. k - 1 \in 0..n /\ k - 1 # n /\ k \in 0..n
      BY <2>1
    <3>2. h[k - 1] = g[k - 1]
      BY <3>1
    <3>3. CASE k = n
      BY <3>1, <3>2, <3>3
    <3>4. CASE k # n
      <4>1. k \in 1..(n - 1)
        BY <3>4, <2>1
      <4> QED BY <3>1, <3>2, <3>4, <4>1, <2>5
    <3> QED BY <3>3, <3>4
  <2> QED BY <2>7, <2>8, <2>1
<1>2. ASSUME NEW m \in Nat, NEW n \in Nat, m <= n, NEW g \in Upto(m), NEW h \in Upto(n)
      PROVE  \A k \in 0..m : g[k] = h[k]
  <2> DEFINE Bad == {k \in 0..m : g[k] # h[k]}
  <2> SUFFICES ASSUME Bad # {} PROVE FALSE
    OBVIOUS
  <2>0. Bad \in SUBSET Nat
    OBVIOUS
  <2>1. PICK k \in Bad : \A l \in Bad : k <= l
    BY <2>0, LeastMember
  <2>2. k # 0
    OBVIOUS
  <2>3. k - 1 \in 0..m /\ k - 1 \notin Bad /\ k \in 1..m /\ k \in 1..n
    BY <2>1, <2>2, <1>2
  <2>4. g[k - 1] = h[k - 1]
    BY <2>3
  <2> QED BY <2>1, <2>3, <2>4
<1> DEFINE at(n) == CHOOSE g : g \in Upto(n)
           f == [n \in Nat |-> at(n)[n]]
<1>3. \A n \in Nat : at(n) \in Upto(n)
  BY <1>1
<1> HIDE DEF at
<1>4. f \in [Nat -> Nat] /\ f[0] = base
  BY <1>3
<1>5. ASSUME NEW n \in Nat \ {0} PROVE f[n] = succ[<<n, f[n - 1]>>]
  <2>1. n - 1 \in Nat /\ n \in 1..n /\ n - 1 \in 0..(n - 1) /\ n - 1 <= n
    OBVIOUS
  <2>2. at(n)[n] = succ[<<n, at(n)[n - 1]>>]
    BY <1>3, <2>1
  <2>3. at(n - 1)[n - 1] = at(n)[n - 1]
    <3>1. at(n - 1) \in Upto(n - 1) /\ at(n) \in Upto(n)
      BY <1>3, <2>1
    <3> HIDE DEF Upto
    <3> QED BY <3>1, <1>2, <2>1
  <2> QED BY <2>1, <2>2, <2>3
<1> QED BY <1>4, <1>5

\* The powers of the byte (256 ** width) are what their recursion says.
LEMMA PowersDef ==
    Powers[0] = 1 /\ \A n \in Nat \ {0} : Powers[n] \in Nat /\ Powers[n] = Byte * Powers[n - 1]
<1> DEFINE Body(f) == [w \in Nat |-> IF w = 0 THEN 1 ELSE Byte * f[w - 1]]
           succ == [p \in Nat \X Nat |-> Byte * p[2]]
<1>1. Byte \in Nat
  BY ByteAssumption
<1>2. succ \in [Nat \X Nat -> Nat] /\ 1 \in Nat
  BY <1>1
<1>3. PICK f \in [Nat -> Nat] : f[0] = 1 /\ \A n \in Nat \ {0} : f[n] = succ[<<n, f[n - 1]>>]
  <2> HIDE DEF succ
  <2> QED BY <1>2, Iterates
<1>4. ASSUME NEW n \in Nat \ {0} PROVE n - 1 \in Nat /\ f[n] = Byte * f[n - 1]
  <2>1. n - 1 \in Nat
    OBVIOUS
  <2>2. f[n - 1] \in Nat
    BY <2>1
  <2>3. f[n] = succ[<<n, f[n - 1]>>]
    BY <1>3
  <2> QED BY <2>1, <2>2, <2>3
<1>5. f = Body(f)
  <2>1. f = [n \in Nat |-> f[n]]
    OBVIOUS
  <2> QED BY <2>1, <1>3, <1>4
<1>6. Powers = CHOOSE g : g = Body(g)
  BY DEF Powers
<1>7. Powers = Body(Powers)
  <2> HIDE DEF Body
  <2> QED BY <1>5, <1>6
<1> HIDE DEF succ
<1>8. \A n \in Nat : Powers[n] = IF n = 0 THEN 1 ELSE Byte * Powers[n - 1]
  <2> SUFFICES ASSUME NEW n \in Nat PROVE Powers[n] = IF n = 0 THEN 1 ELSE Byte * Powers[n - 1]
    OBVIOUS
  <2>1. Powers[n] = Body(Powers)[n]
    <3> HIDE DEF Body
    <3> QED BY <1>7
  <2> QED BY <2>1
<1>9. \A n \in Nat : Powers[n] \in Nat
  <2> DEFINE Bad == {n \in Nat : Powers[n] \notin Nat}
  <2> SUFFICES ASSUME Bad # {} PROVE FALSE
    OBVIOUS
  <2>1. PICK n \in Bad : \A m \in Bad : n <= m
    BY LeastMember
  <2>2. n \in Nat /\ n # 0 /\ Powers[n] = Byte * Powers[n - 1]
    BY <1>8
  <2>3. n - 1 \in Nat /\ ~(n <= n - 1)
    BY <2>2
  <2>4. n - 1 \notin Bad
    <3> HIDE DEF Bad
    <3> QED BY <2>1, <2>3
  <2>5. PICK p \in Nat : p = Powers[n - 1]
    BY <2>3, <2>4
  <2>6. Powers[n] \in Nat
    BY <1>1, <2>2, <2>5
  <2> QED BY <2>6
<1> QED BY <1>8, <1>9

\* Quotient and remainder make the number.
LEMMA DivMod ==
    ASSUME NEW u \in Nat \ {0}, NEW c \in Nat
    PROVE  /\ c % u \in 0..(u - 1) /\ c \div u \in Nat
           /\ c = u * (c \div u) + (c % u)
OBVIOUS

\* A number is in one round and at one place of it only.
LEMMA Unique ==
    ASSUME NEW u \in Nat \ {0}, NEW i \in Nat, NEW v \in 0..(u - 1)
    PROVE  (i * u + v) % u = v /\ (i * u + v) \div u = i
<1>1. PICK c \in Nat : c = i * u + v
  OBVIOUS
<1>2. PICK q \in Nat, r \in 0..(u - 1) : q = c \div u /\ r = c % u /\ c = u * q + r
  BY DivMod
<1>3. u * q + r = u * i + v
  BY <1>1, <1>2
<1>4. ASSUME NEW a \in Nat, NEW b \in Nat, a < b PROVE u * a + u <= u * b
  <2>1. PICK d \in Nat : b = a + 1 + d
    <3>1. b - a - 1 \in Nat /\ b = a + 1 + (b - a - 1)
      BY <1>4
    <3> QED BY <3>1
  <2>2. u * b = u * a + u + u * d /\ u * d \in Nat
    BY <2>1
  <2> QED BY <2>2
<1>5. ~(q < i) /\ ~(i < q)
  BY <1>2, <1>3, <1>4
<1>6. q = i
  BY <1>5
<1>7. r = v
  BY <1>3, <1>6
<1> QED BY <1>1, <1>2, <1>6, <1>7

\* Powers grow, so a width is found and the space holds the bound.
LEMMA SpaceHolds ==
    ASSUME NEW upper \in Nat \ {0}
    PROVE  Space(upper) \in Nat /\ Space(upper) >= upper
<1>1. Byte \in Nat /\ Byte >= 2
  BY ByteAssumption
<1>2. \A n \in Nat : Powers[n] \in Nat /\ Powers[n] >= n + 1
  <2> DEFINE Bad == {n \in Nat : ~(Powers[n] \in Nat /\ Powers[n] >= n + 1)}
  <2> SUFFICES ASSUME Bad # {} PROVE FALSE
    OBVIOUS
  <2>1. PICK n \in Bad : \A m \in Bad : n <= m
    BY LeastMember
  <2>2. n # 0
    BY PowersDef
  <2>3. n - 1 \in Nat /\ n - 1 \notin Bad
    <3>1. n \in Nat
      OBVIOUS
    <3> HIDE DEF Bad
    <3> QED BY <2>1, <2>2, <3>1
  <2>4. PICK p \in Nat : p = Powers[n - 1] /\ p >= n
    BY <2>3
  <2>5. Powers[n] \in Nat /\ Powers[n] = Byte * p
    BY <2>2, <2>4, PowersDef
  <2>6. Byte * p >= 2 * p
    BY <1>1, <2>4
  <2>7. p >= 1
    BY <2>2, <2>4
  <2>8. Powers[n] >= n + 1
    BY <2>4, <2>5, <2>6, <2>7, <1>1
  <2> QED BY <2>5, <2>8
<1> DEFINE Wide == {w \in 1..upper : Powers[w] >= upper}
<1>3. upper \in Wide /\ Wide \in SUBSET Nat
  <2>1. Powers[upper] \in Nat /\ Powers[upper] >= upper
    BY <1>2
  <2> QED BY <2>1
<1>4. PICK w \in Wide : \A v \in Wide : w <= v
  <2> HIDE DEF Wide
  <2> QED BY <1>3, LeastMember
<1>5. w \in 1..upper /\ Powers[w] >= upper
  OBVIOUS
<1>6. ASSUME w > 1 PROVE Powers[w - 1] < upper
  <2>1. w - 1 \in 1..upper /\ ~(w <= w - 1)
    BY <1>5, <1>6
  <2>2. w - 1 \notin Wide
    <3> HIDE DEF Wide
    <3> QED BY <2>1, <1>4
  <2>3. Powers[w - 1] \in Nat
    BY <1>2, <2>1
  <2> QED BY <2>1, <2>2, <2>3
<1>7. Width(upper) \in 1..upper /\ Powers[Width(upper)] >= upper
  BY <1>5, <1>6 DEF Width
<1> QED BY <1>2, <1>7 DEF Space

\* The limit is a multiple of the bound and at least half of the space.
LEMMA LimitDef ==
    ASSUME NEW upper \in Nat \ {0}
    PROVE  /\ Space(upper) \div upper \in Nat
           /\ Limit(upper) = (Space(upper) \div upper) * upper
           /\ Limit(upper) \in Nat
           /\ Space(upper) <= 2 * Limit(upper)
<1>1. PICK s \in Nat : s = Space(upper) /\ s >= upper
  BY SpaceHolds
<1>2. PICK q \in Nat, r \in 0..(upper - 1) :
         q = s \div upper /\ r = s % upper /\ s = upper * q + r
  BY DivMod
<1>3. q >= 1
  <2> SUFFICES ASSUME q = 0 PROVE FALSE
    BY <1>2
  <2>1. upper * q = 0
    OBVIOUS
  <2> QED BY <1>1, <1>2, <2>1
<1>4. upper * q >= upper /\ upper * q \in Nat
  BY <1>3
<1>5. s - r = upper * q
  BY <1>2, <1>4
<1>6. Limit(upper) = upper * q
  BY <1>1, <1>2, <1>5 DEF Limit
<1>7. upper * q = q * upper
  OBVIOUS
<1>8. s <= 2 * (upper * q)
  BY <1>2, <1>4, <1>5
<1> QED BY <1>1, <1>2, <1>4, <1>6, <1>7, <1>8

\* How many numbers an interval has.
LEMMA IntervalSize ==
    ASSUME NEW a \in Int, NEW b \in Int, a <= b
    PROVE  IsFiniteSet(a..(b - 1)) /\ Cardinality(a..(b - 1)) = b - a
<1>1. PICK e \in Int : e = b - 1
  OBVIOUS
<1>2. IsFiniteSet(a..e) /\ Cardinality(a..e) = IF a > e THEN 0 ELSE e - a + 1
  BY FS_Interval
<1>3. (IF a > e THEN 0 ELSE e - a + 1) = b - a
  BY <1>1
<1> QED BY <1>1, <1>2, <1>3

\* Among so many rounds of the remainders, those of a range come once a round each.
LEMMA RemaindersCount ==
    ASSUME NEW u \in Nat \ {0}, NEW q \in Nat, NEW a \in Nat, NEW b \in Nat, a <= b, b <= u
    PROVE  Cardinality({c \in 0..(q * u - 1) : c % u \in a..(b - 1)}) = (b - a) * q
<1> DEFINE S == {c \in 0..(q * u - 1) : c % u \in a..(b - 1)}
           P == (0..(q - 1)) \X (a..(b - 1))
           f == [p \in P |-> p[1] * u + p[2]]
<1>0. q * u \in Nat
  OBVIOUS
<1>1. ASSUME NEW i \in 0..(q - 1), NEW v \in a..(b - 1)
      PROVE  /\ i * u + v \in S /\ (i * u + v) % u = v /\ (i * u + v) \div u = i
  <2>1. i \in Nat /\ v \in 0..(u - 1)
    OBVIOUS
  <2>2. (i * u + v) % u = v /\ (i * u + v) \div u = i
    BY <2>1, Unique
  <2>3. i * u + u <= q * u
    <3>1. PICK d \in Nat : q = i + 1 + d
      <4>1. q - i - 1 \in Nat /\ q = i + 1 + (q - i - 1)
        OBVIOUS
      <4> QED BY <4>1
    <3>2. q * u = i * u + u + d * u /\ d * u \in Nat
      BY <3>1
    <3> QED BY <3>2
  <2>4. i * u + v \in 0..(q * u - 1)
    <3>1. i * u \in Nat
      BY <2>1
    <3> QED BY <1>0, <2>1, <2>3, <3>1
  <2> QED BY <2>2, <2>4
<1>2. f \in [P -> S]
  BY <1>1
<1>3. ASSUME NEW p \in P, NEW r \in P, f[p] = f[r] PROVE p = r
  <2>1. PICK i \in 0..(q - 1), v \in a..(b - 1) : p = <<i, v>>
    OBVIOUS
  <2>2. PICK j \in 0..(q - 1), w \in a..(b - 1) : r = <<j, w>>
    OBVIOUS
  <2>3. i * u + v = j * u + w
    BY <1>3, <2>1, <2>2
  <2> QED BY <1>1, <2>1, <2>2, <2>3
<1>4. ASSUME NEW c \in S PROVE \E p \in P : f[p] = c
  <2>0. c \in Nat /\ c <= q * u - 1
    BY <1>0
  <2>1. PICK i \in Nat, v \in 0..(u - 1) : i = c \div u /\ v = c % u /\ c = u * i + v
    BY <2>0, DivMod
  <2>2. v \in a..(b - 1)
    BY <2>1
  <2>3. i < q
    <3> SUFFICES ASSUME q <= i PROVE FALSE
      BY <2>1
    <3>1. PICK d \in Nat : i = q + d
      <4>1. i - q \in Nat /\ i = q + (i - q)
        OBVIOUS
      <4> QED BY <4>1
    <3>2. u * i = q * u + u * d /\ u * d \in Nat
      BY <3>1
    <3> QED BY <2>0, <2>1, <3>2, <1>0
  <2>4. u * i = i * u
    OBVIOUS
  <2>5. i \in 0..(q - 1)
    BY <2>1, <2>3
  <2>6. <<i, v>> \in P
    BY <2>2, <2>5
  <2>7. f[<<i, v>>] = i * u + v
    BY <2>6
  <2>8. i * u + v = c
    BY <2>1, <2>4
  <2> QED BY <2>6, <2>7, <2>8
<1>5. f \in Bijection(P, S)
  <2> HIDE DEF f, P, S
  <2> QED BY <1>2, <1>3, <1>4 DEF Bijection, Injection, Surjection, IsInjective
<1>6. IsFiniteSet(0..(q - 1)) /\ Cardinality(0..(q - 1)) = q - 0
  BY IntervalSize
<1>7. IsFiniteSet(a..(b - 1)) /\ Cardinality(a..(b - 1)) = b - a
  BY IntervalSize
<1>8. IsFiniteSet(P) /\ Cardinality(P) = q * (b - a)
  <2>1. IsFiniteSet(P) /\ Cardinality(P) = Cardinality(0..(q - 1)) * Cardinality(a..(b - 1))
    BY <1>6, <1>7, FS_Product
  <2>2. q - 0 = q
    OBVIOUS
  <2> QED BY <1>6, <1>7, <2>1, <2>2
<1>9. Cardinality(S) = Cardinality(P)
  <2>1. ExistsBijection(P, S)
    BY <1>5 DEF ExistsBijection
  <2> HIDE DEF P, S
  <2> QED BY <2>1, <1>8, FS_Bijection
<1>10. q * (b - a) = (b - a) * q
  OBVIOUS
<1> QED BY <1>8, <1>9, <1>10

-----------------------------------------------------------------------------
(* Cumulative weights.                                                     *)

\* The running totals are what their recursion says (the loops over the weights).
LEMMA CumulativeDef ==
    ASSUME NEW weights \in Seq(Nat)
    PROVE  /\ Cumulative(weights)[0] = 0
           /\ \A n \in 0..Len(weights) : Cumulative(weights)[n] \in Nat
           /\ \A n \in 1..Len(weights) :
                 Cumulative(weights)[n] = Cumulative(weights)[n - 1] + weights[n]
<1> DEFINE L == Len(weights)
           Body(g) == [n \in 0..L |-> IF n = 0 THEN 0 ELSE g[n - 1] + weights[n]]
           succ == [p \in Nat \X Nat |-> p[2] + (IF p[1] \in 1..L THEN weights[p[1]] ELSE 0)]
<1>1. L \in Nat /\ \A n \in 1..L : weights[n] \in Nat
  OBVIOUS
<1> HIDE DEF L
<1>2. succ \in [Nat \X Nat -> Nat]
  BY <1>1
<1>3. PICK f \in [Nat -> Nat] : f[0] = 0 /\ \A n \in Nat \ {0} : f[n] = succ[<<n, f[n - 1]>>]
  <2> HIDE DEF succ
  <2>1. 0 \in Nat
    OBVIOUS
  <2> QED BY <1>2, <2>1, Iterates
<1>4. ASSUME NEW n \in 1..L PROVE f[n] = f[n - 1] + weights[n]
  <2>1. n - 1 \in Nat /\ n \in Nat \ {0} /\ f[n - 1] \in Nat
    BY <1>1
  <2>2. f[n] = succ[<<n, f[n - 1]>>]
    BY <1>3, <2>1
  <2> QED BY <2>1, <2>2
<1> HIDE DEF succ
<1> DEFINE g == [n \in 0..L |-> f[n]]
<1>5. g = Body(g)
  <2>1. ASSUME NEW n \in 0..L PROVE g[n] = IF n = 0 THEN 0 ELSE g[n - 1] + weights[n]
    <3>1. CASE n = 0
      BY <3>1, <1>3
    <3>2. CASE n # 0
      <4>1. n \in 1..L /\ n - 1 \in 0..L
        BY <3>2, <1>1
      <4> QED BY <4>1, <3>2, <1>4
    <3> QED BY <3>1, <3>2
  <2> QED BY <2>1
<1>6. Cumulative(weights) = CHOOSE h : h = Body(h)
  BY DEF Cumulative, L
<1>7. PICK C : C = Cumulative(weights) /\ C = Body(C)
  <2> HIDE DEF Body, g
  <2> QED BY <1>5, <1>6
<1>8. C[0] = 0 /\ \A n \in 1..L : C[n] = C[n - 1] + weights[n]
  <2>1. 0 \in 0..L /\ \A n \in 1..L : n \in 0..L /\ n # 0
    BY <1>1
  <2>2. \A n \in 0..L : C[n] = IF n = 0 THEN 0 ELSE C[n - 1] + weights[n]
    BY <1>7
  <2> QED BY <2>1, <2>2
<1>9. \A n \in 0..L : C[n] \in Nat
  <2> DEFINE Bad == {n \in 0..L : C[n] \notin Nat}
  <2> SUFFICES ASSUME Bad # {} PROVE FALSE
    OBVIOUS
  <2>1. Bad \in SUBSET Nat
    BY <1>1
  <2>2. PICK n \in Bad : \A m \in Bad : n <= m
    <3> HIDE DEF Bad
    <3> QED BY <2>1, LeastMember
  <2>3. n \in 0..L /\ n # 0
    BY <1>8
  <2>4. n \in 1..L /\ n - 1 \in 0..L /\ ~(n <= n - 1)
    BY <2>3, <1>1
  <2>5. n - 1 \notin Bad
    <3> HIDE DEF Bad
    <3> QED BY <2>2, <2>4
  <2>6. C[n - 1] \in Nat /\ weights[n] \in Nat
    BY <2>4, <2>5, <1>1
  <2>7. C[n] = C[n - 1] + weights[n]
    BY <2>4, <1>8
  <2>8. PICK p \in Nat, w \in Nat : p = C[n - 1] /\ w = weights[n]
    BY <2>6
  <2>9. C[n] = p + w
    BY <2>7, <2>8
  <2>10. p + w \in Nat
    OBVIOUS
  <2> QED BY <2>9, <2>10
<1> QED BY <1>7, <1>8, <1>9 DEF L

\* They grow with every positive weight.
LEMMA CumulativeGrows ==
    ASSUME NEW weights \in Seq(Nat \ {0}), NEW m \in 0..Len(weights), NEW n \in 0..Len(weights), m < n
    PROVE  Cumulative(weights)[m] < Cumulative(weights)[n]
<1> DEFINE L == Len(weights)
           C == Cumulative(weights)
           Bad == {k \in 0..L : m < k /\ ~(C[m] < C[k])}
<1>0. weights \in Seq(Nat) /\ L \in Nat
  OBVIOUS
<1>1. /\ \A k \in 0..L : C[k] \in Nat
      /\ \A k \in 1..L : C[k] = C[k - 1] + weights[k] /\ weights[k] \in Nat \ {0}
  BY <1>0, CumulativeDef
<1> HIDE DEF C
<1> SUFFICES ASSUME Bad # {} PROVE FALSE
  BY DEF C
<1>2. Bad \in SUBSET Nat
  BY <1>0
<1>3. PICK k \in Bad : \A j \in Bad : k <= j
  <2> HIDE DEF Bad
  <2> QED BY <1>2, LeastMember
<1>4. k \in 1..L /\ k - 1 \in 0..L /\ ~(k <= k - 1) /\ m <= k - 1
  BY <1>0
<1>5. k - 1 \notin Bad
  <2> HIDE DEF Bad
  <2> QED BY <1>3, <1>4
<1>6. m = k - 1 \/ C[m] < C[k - 1]
  BY <1>4, <1>5
<1>7. C[k - 1] < C[k] /\ C[k - 1] \in Nat /\ C[k] \in Nat /\ C[m] \in Nat
  <2>1. C[k] = C[k - 1] + weights[k] /\ weights[k] \in Nat \ {0}
    BY <1>1, <1>4
  <2>2. C[k - 1] \in Nat /\ C[m] \in Nat
    BY <1>1, <1>4
  <2> QED BY <2>1, <2>2
<1> QED BY <1>6, <1>7

\* A value below the total lies between two of them.
LEMMA Between ==
    ASSUME NEW weights \in Seq(Nat \ {0}), NEW v \in 0..(Sum(weights) - 1)
    PROVE  \E k \in 1..Len(weights) : Cumulative(weights)[k - 1] <= v /\ v < Cumulative(weights)[k]
<1> DEFINE L == Len(weights)
           C == Cumulative(weights)
           Above == {k \in 0..L : v < C[k]}
<1>0. weights \in Seq(Nat) /\ L \in Nat
  OBVIOUS
<1>1. C[0] = 0 /\ \A k \in 0..L : C[k] \in Nat
  BY <1>0, CumulativeDef
<1>2. Sum(weights) = C[L] /\ L \in 0..L
  BY <1>0 DEF Sum
<1> HIDE DEF C
<1>3. v \in Nat /\ v < C[L]
  BY <1>1, <1>2
<1>4. L \in Above /\ Above \in SUBSET Nat
  BY <1>0, <1>2, <1>3
<1>5. PICK k \in Above : \A j \in Above : k <= j
  <2> HIDE DEF Above
  <2> QED BY <1>4, LeastMember
<1>6. k \in 0..L /\ v < C[k] /\ k # 0
  BY <1>1, <1>3
<1>7. k \in 1..L /\ k - 1 \in 0..L /\ ~(k <= k - 1)
  BY <1>0, <1>6
<1>8. k - 1 \notin Above
  <2> HIDE DEF Above
  <2> QED BY <1>5, <1>7
<1>9. C[k - 1] <= v
  BY <1>1, <1>3, <1>7, <1>8
<1> QED BY <1>6, <1>7, <1>9 DEF C

\* There the two searches meet.
LEMMA SearchesMeet ==
    ASSUME NEW weights \in Seq(Nat \ {0}), NEW v \in Nat, NEW k \in 1..Len(weights),
           Cumulative(weights)[k - 1] <= v, v < Cumulative(weights)[k]
    PROVE  Bisected(weights, v) = k /\ Looped(weights, v) = k
<1> DEFINE L == Len(weights)
           C == Cumulative(weights)
<1>0. weights \in Seq(Nat) /\ L \in Nat /\ DOMAIN weights = 1..L
  OBVIOUS
<1>1. \A j \in 0..L : C[j] \in Nat
  BY <1>0, CumulativeDef
<1>2. \A i, j \in 0..L : i < j => C[i] < C[j]
  BY CumulativeGrows
<1>3. C[k - 1] <= v /\ v < C[k]
  OBVIOUS
<1> HIDE DEF C
<1>4. ASSUME NEW j \in 1..L PROVE C[j] <= v <=> j < k
  <2>1. j \in 0..L /\ k \in 0..L /\ k - 1 \in 0..L
    BY <1>0
  <2>2. CASE j < k
    <3>1. j = k - 1 \/ j < k - 1
      BY <2>1, <2>2
    <3>2. PICK x \in Nat, y \in Nat : x = C[j] /\ y = C[k - 1]
      BY <2>1, <1>1
    <3>3. x <= y
      BY <3>1, <3>2, <2>1, <1>2
    <3>4. y <= v
      BY <3>2, <1>3
    <3> QED BY <3>2, <3>3, <3>4, <2>2
  <2>3. CASE ~(j < k)
    <3>1. j = k \/ k < j
      BY <2>1, <2>3
    <3>2. C[j] \in Nat /\ C[k] \in Nat
      BY <2>1, <1>1
    <3>3. C[k] <= C[j]
      BY <3>1, <3>2, <2>1, <1>2
    <3> QED BY <3>2, <3>3, <2>3, <1>3
  <2> QED BY <2>2, <2>3
<1>5. Bisected(weights, v) = k
  <2>1. {n \in DOMAIN weights : C[n] <= v} = 1..(k - 1)
    BY <1>0, <1>4
  <2>2. k \in Int /\ 1 \in Int /\ 1 <= k
    BY <1>0
  <2>3. Cardinality(1..(k - 1)) = k - 1
    BY <2>2, IntervalSize
  <2>4. Bisected(weights, v) = Cardinality({n \in DOMAIN weights : C[n] <= v}) + 1
    BY DEF Bisected, C
  <2>5. Bisected(weights, v) = (k - 1) + 1
    BY <2>1, <2>3, <2>4
  <2> QED BY <2>2, <2>5
<1>6. Looped(weights, v) = k
  <2> DEFINE above == {n \in DOMAIN weights : v < C[n]}
  <2>1. above = k..L
    <3>1. \A j \in 1..L : v < C[j] <=> k <= j
      <4> TAKE j \in 1..L
      <4>1. C[j] \in Nat
        BY <1>0, <1>1
      <4> QED BY <4>1, <1>4
    <3> QED BY <1>0, <3>1
  <2>2. k \in k..L /\ \A j \in k..L : k <= j
    BY <1>0
  <2>3. Min(k..L) = k
    BY <2>2 DEF Min
  <2>4. Looped(weights, v) = IF above = {} THEN 1 ELSE Min(above)
    BY DEF Looped, C
  <2> HIDE DEF above
  <2> QED BY <2>1, <2>2, <2>3, <2>4
<1> QED BY <1>5, <1>6

-----------------------------------------------------------------------------
(* Fairness.                                                               *)

\* The weights of a valid choice, and what is at their end.
LEMMA WeightsPositive ==
    ASSUME NEW call \in Calls, DomainValid(call), call.operation = "weighted"
    PROVE  /\ call.domain.weights \in Seq(Nat \ {0}) /\ Len(call.domain.weights) > 0
           /\ Sum(call.domain.weights) \in Nat \ {0}
<1> DEFINE weights == call.domain.weights
           L == Len(weights)
<1>1. weights \in Seq(Int)
  BY CallsAssumption
<1>2. /\ call.domain.values # <<>> /\ Len(call.domain.values) = L
      /\ \A n \in DOMAIN weights : weights[n] > 0
  BY DEF DomainValid
<1>3. L \in Nat /\ DOMAIN weights = 1..L
  BY <1>1
<1>4. L > 0
  BY <1>2, <1>3
<1>5. weights \in Seq(Nat \ {0})
  BY <1>1, <1>2
<1>6. Cumulative(weights)[0] < Cumulative(weights)[L]
  <2>1. 0 \in 0..L /\ L \in 0..L
    BY <1>3, <1>4
  <2> HIDE DEF L, weights
  <2> QED BY <2>1, <1>4, <1>5, CumulativeGrows DEF L
<1>7. Cumulative(weights)[0] = 0 /\ Cumulative(weights)[L] \in Nat
  BY <1>3, <1>5, CumulativeDef
<1> QED BY <1>4, <1>5, <1>6, <1>7 DEF Sum

\* The bound of a valid choice is positive.
LEMMA UpperPositive ==
    ASSUME NEW call \in Calls, DomainValid(call)
    PROVE  Upper(call) \in Nat \ {0}
<1>1. CASE call.operation = "bounded"
  BY <1>1, CallsAssumption DEF DomainValid, Upper
<1>2. CASE call.operation = "weighted"
  BY <1>2, WeightsPositive DEF Upper
<1>3. CASE call.operation = "ratio"
  BY <1>3, CallsAssumption DEF DomainValid, Upper
<1> QED BY <1>1, <1>2, <1>3, CallsAssumption

\* The candidates that are accepted come in whole rounds of the remainders.
LEMMA Rounds ==
    ASSUME NEW call \in Calls, DomainValid(call), NEW x,
           NEW a \in Nat, NEW b \in Nat, a <= b, b <= Upper(call),
           \A v \in 0..(Upper(call) - 1) : Selected(call, v) = x <=> v \in a..(b - 1)
    PROVE  Cardinality({c \in 0..(Limit(Upper(call)) - 1) : Selected(call, c % Upper(call)) = x})
             = (b - a) * (Space(Upper(call)) \div Upper(call))
<1>1. PICK u \in Nat \ {0} : u = Upper(call)
  BY UpperPositive
<1>2. PICK q \in Nat : q = Space(u) \div u /\ Limit(u) = q * u
  BY LimitDef
<1>3. ASSUME NEW c \in 0..(q * u - 1) PROVE Selected(call, c % u) = x <=> c % u \in a..(b - 1)
  <2>1. q * u \in Nat
    OBVIOUS
  <2>2. c \in Nat
    BY <2>1
  <2>3. c % u \in 0..(u - 1)
    BY <2>2, DivMod
  <2> QED BY <2>3, <1>1
<1>4. {c \in 0..(q * u - 1) : Selected(call, c % u) = x} = {c \in 0..(q * u - 1) : c % u \in a..(b - 1)}
  BY <1>3
<1>5. Cardinality({c \in 0..(q * u - 1) : c % u \in a..(b - 1)}) = (b - a) * q
  BY <1>1, RemaindersCount
<1> QED BY <1>1, <1>2, <1>4, <1>5

\* The index found for a value is the one whose total it stays below first.
LEMMA IndexOf ==
    ASSUME NEW weights \in Seq(Nat \ {0}), NEW v \in 0..(Sum(weights) - 1), NEW x \in 1..Len(weights)
    PROVE  /\ Bisected(weights, v) = Looped(weights, v)
           /\ Bisected(weights, v) = x <=> v \in Cumulative(weights)[x - 1]..(Cumulative(weights)[x] - 1)
<1> DEFINE L == Len(weights)
           C == Cumulative(weights)
<1>0. weights \in Seq(Nat) /\ L \in Nat
  OBVIOUS
<1>1. PICK k \in 1..L : C[k - 1] <= v /\ v < C[k]
  BY Between
<1>2. Sum(weights) \in Nat /\ v \in Nat
  <2>1. Sum(weights) \in Nat
    BY <1>0, CumulativeDef DEF Sum
  <2> QED BY <2>1
<1>3. Bisected(weights, v) = k /\ Looped(weights, v) = k
  BY <1>1, <1>2, SearchesMeet
<1>4. \A j \in 0..L : C[j] \in Nat
  BY <1>0, CumulativeDef
<1>5. \A i, j \in 0..L : i < j => C[i] < C[j]
  BY CumulativeGrows
<1> HIDE DEF C
<1>6. x \in 0..L /\ x - 1 \in 0..L /\ k \in 0..L /\ k - 1 \in 0..L
  BY <1>0
<1>7. PICK y \in Nat, z \in Nat : y = C[x - 1] /\ z = C[x]
  BY <1>4, <1>6
<1>8. PICK m \in Nat, n \in Nat : m = C[k - 1] /\ n = C[k]
  BY <1>4, <1>6
<1>9. ASSUME y <= v, v < z PROVE k = x
  <2>1. CASE k < x
    <3>1. k = x - 1 \/ k < x - 1
      BY <2>1, <1>6
    <3>2. C[k] = C[x - 1] \/ C[k] < C[x - 1]
      BY <3>1, <1>5, <1>6
    <3>3. n <= y
      BY <3>2, <1>7, <1>8
    <3> QED BY <3>3, <1>1, <1>2, <1>8, <1>9
  <2>2. CASE x < k
    <3>1. x = k - 1 \/ x < k - 1
      BY <2>2, <1>6
    <3>2. C[x] = C[k - 1] \/ C[x] < C[k - 1]
      BY <3>1, <1>5, <1>6
    <3>3. z <= m
      BY <3>2, <1>7, <1>8
    <3> QED BY <3>3, <1>1, <1>2, <1>8, <1>9
  <2> QED BY <2>1, <2>2, <1>6
<1>10. k = x <=> v \in y..(z - 1)
  BY <1>1, <1>2, <1>7, <1>9
<1> QED BY <1>3, <1>7, <1>10 DEF C

\* Every answer of a choice whose domain is valid has its share of the candidates.
LEMMA ValidIsFair ==
    ASSUME NEW call \in Calls, DomainValid(call)
    PROVE  Fair(call)
<1> DEFINE u == Upper(call)
           q == Space(u) \div u
<1>1. u \in Nat \ {0}
  BY UpperPositive
<1>2. q \in Nat /\ Limit(u) \in Nat /\ Space(u) <= 2 * Limit(u)
  BY <1>1, LimitDef
<1> DEFINE often(x) == Cardinality({c \in 0..(Limit(u) - 1) : Selected(call, c % u) = x})
<1>3. ASSUME NEW x, NEW a \in Nat, NEW b \in Nat, a <= b, b <= u,
             \A v \in 0..(u - 1) : Selected(call, v) = x <=> v \in a..(b - 1)
      PROVE  often(x) = (b - a) * q
  BY <1>3, Rounds, Zenon
<1> HIDE DEF often, u, q
<1>4. CASE call.operation = "bounded"
  <2>1. Shares(call) = [v \in 0..(u - 1) |-> 1] /\ \A v : Selected(call, v) = v
    BY <1>4 DEF Shares, Selected, Upper, u
  <2>2. ASSUME NEW x \in 0..(u - 1) PROVE often(x) = Shares(call)[x] * q
    <3>1. x \in Nat /\ x + 1 \in Nat /\ x <= x + 1 /\ x + 1 <= u
      BY <1>1
    <3>2. \A v \in 0..(u - 1) : Selected(call, v) = x <=> v \in x..((x + 1) - 1)
      BY <2>1
    <3>3. often(x) = ((x + 1) - x) * q
      BY <3>1, <3>2, <1>3
    <3>4. ((x + 1) - x) * q = q /\ 1 * q = q /\ Shares(call)[x] = 1
      BY <1>2, <2>1, <3>1
    <3> QED BY <3>3, <3>4
  <2> QED BY <1>1, <1>2, <1>4, <2>1, <2>2 DEF Fair, often, u, q
<1>5. CASE call.operation = "ratio"
  <2> DEFINE n == call.domain.numerator
  <2>1. n \in Nat /\ n <= u
    BY <1>5, CallsAssumption DEF DomainValid, Upper, u
  <2>2. /\ Shares(call) = [b \in BOOLEAN |-> IF b THEN n ELSE u - n]
        /\ \A v : Selected(call, v) = (v < n)
    BY <1>5 DEF Shares, Selected, Upper, u
  <2> HIDE DEF n
  <2>3. often(TRUE) = Shares(call)[TRUE] * q
    <3>1. ASSUME NEW v \in 0..(u - 1) PROVE Selected(call, v) = TRUE <=> v \in 0..(n - 1)
      <4>1. v < n <=> v \in 0..(n - 1)
        BY <2>1, <1>1
      <4> QED BY <4>1, <2>2, Zenon
    <3>2. 0 \in Nat /\ 0 <= n
      BY <2>1
    <3>3. often(TRUE) = (n - 0) * q
      BY <3>1, <3>2, <2>1, <1>3, Zenon
    <3>4. Shares(call)[TRUE] = n /\ n - 0 = n
      BY <2>1, <2>2
    <3> QED BY <3>3, <3>4
  <2>4. often(FALSE) = Shares(call)[FALSE] * q
    <3>1. ASSUME NEW v \in 0..(u - 1) PROVE Selected(call, v) = FALSE <=> v \in n..(u - 1)
      <4>1. ~(v < n) <=> v \in n..(u - 1)
        BY <2>1, <1>1
      <4>2. CASE v < n
        <5>1. Selected(call, v) = TRUE
          BY <4>2, <2>2, Zenon
        <5> QED BY <5>1, <4>1, <4>2
      <4>3. CASE ~(v < n)
        <5>1. Selected(call, v) = FALSE
          <6>1. (v < n) = FALSE
            BY <4>3
          <6>2. Selected(call, v) = (v < n)
            BY <2>2, Zenon
          <6> QED BY <6>1, <6>2, Zenon
        <5> QED BY <5>1, <4>1, <4>3
      <4> QED BY <4>2, <4>3
    <3>2. u \in Nat /\ u <= u
      BY <1>1
    <3>3. often(FALSE) = (u - n) * q
      BY <3>1, <3>2, <2>1, <1>3, Zenon
    <3>4. Shares(call)[FALSE] = u - n
      BY <2>1, <2>2
    <3> QED BY <3>3, <3>4
  <2>5. DOMAIN Shares(call) = BOOLEAN
    BY <2>2
  <2> QED BY <1>1, <1>2, <1>5, <2>3, <2>4, <2>5 DEF Fair, often, u, q
<1>6. CASE call.operation = "weighted"
  <2> DEFINE weights == call.domain.weights
             L == Len(weights)
             C == Cumulative(weights)
  <2>1. weights \in Seq(Nat \ {0}) /\ weights \in Seq(Nat) /\ L \in Nat /\ DOMAIN weights = 1..L
    BY <1>6, WeightsPositive
  <2>2. /\ Shares(call) = weights /\ u = Sum(weights)
        /\ \A v : Selected(call, v) = Bisected(weights, v)
    BY <1>6 DEF Shares, Selected, Upper, u
  <2> HIDE DEF weights
  <2>3. /\ \A j \in 0..L : C[j] \in Nat
        /\ \A j \in 1..L : C[j] = C[j - 1] + weights[j]
    BY <2>1, CumulativeDef
  <2>4. \A i, j \in 0..L : i < j => C[i] < C[j]
    BY <2>1, CumulativeGrows
  <2>5. C[L] = u
    BY <2>2 DEF Sum
  <2> HIDE DEF L, C
  <2>6. ASSUME NEW x \in 1..L PROVE often(x) = weights[x] * q
    <3>1. x \in 0..L /\ x - 1 \in 0..L /\ x - 1 < x /\ L \in 0..L /\ (x = L \/ x < L)
      BY <2>1
    <3>2. PICK y \in Nat, z \in Nat : y = C[x - 1] /\ z = C[x]
      BY <2>3, <3>1
    <3>3. y < z
      BY <2>4, <3>1, <3>2
    <3>4. C[x] = C[L] \/ C[x] < C[L]
      BY <2>4, <3>1
    <3>5. z <= u
      BY <1>1, <2>5, <3>2, <3>4
    <3>6. \A v \in 0..(u - 1) : Selected(call, v) = x <=> v \in y..(z - 1)
      BY <2>1, <2>2, <3>2, IndexOf DEF L, C
    <3>7. y <= z
      BY <3>3
    <3>8. often(x) = (z - y) * q
      BY <3>5, <3>6, <3>7, <1>3
    <3>9. z - y = weights[x]
      <4>1. weights[x] \in Nat
        BY <2>1
      <4>2. z = y + weights[x]
        BY <2>3, <3>2
      <4> QED BY <4>1, <4>2
    <3> QED BY <3>8, <3>9
  <2>7. ASSUME NEW c \in 0..(Limit(u) - 1) PROVE Selected(call, c % u) = Looped(weights, c % u)
    <3>1. c \in Nat
      BY <1>2
    <3>3. c % u \in 0..(u - 1)
      BY <1>1, <3>1, DivMod
    <3>4. L > 0
      BY <1>6, WeightsPositive DEF weights, L
    <3>5. 1 \in 1..L
      BY <2>1, <3>4
    <3> QED BY <2>1, <2>2, <3>3, <3>5, IndexOf DEF L
  <2> QED BY <1>1, <1>2, <2>1, <2>2, <2>6, <2>7 DEF Fair, often, weights, u, q
<1> QED BY <1>4, <1>5, <1>6, CallsAssumption

-----------------------------------------------------------------------------
(* Sorting.                                                                *)

\* Strictly ascending by the key of the elements.
Ascending(s, key) == \A m, n \in 1..Len(s) : m < n => key[s[m]] < key[s[n]]

\* No two places hold elements of one key.
OwnKeys(s, key) == \A m, n \in 1..Len(s) : key[s[m]] = key[s[n]] => m = n

\* sorted keeps the elements and puts them in order.
LEMMA ArrangedAscends ==
    ASSUME NEW R, NEW key \in [R -> Nat], NEW s \in Seq(R),
           OwnKeys(s, key), NEW keys, keys = [n \in DOMAIN s |-> key[s[n]]]
    PROVE  /\ Arranged(s, keys) \in Seq(R) /\ Len(Arranged(s, keys)) = Len(s)
           /\ Range(Arranged(s, keys)) = Range(s)
           /\ Ascending(Arranged(s, keys), key)
<1> DEFINE L == Len(s)
           before(m) == {j \in 1..L : keys[j] < keys[m] \/ (keys[j] = keys[m] /\ j < m)}
           rank(m) == Cardinality(before(m))
           at(n) == CHOOSE m \in 1..L : rank(m) = n - 1
           t == Arranged(s, keys)
<1>1. L \in Nat /\ DOMAIN s = 1..L /\ \A m \in 1..L : s[m] \in R
  OBVIOUS
<1>2. \A m \in 1..L : keys[m] \in Nat /\ keys[m] = key[s[m]]
  BY <1>1
<1>3. \A m, n \in 1..L : keys[m] = keys[n] => m = n
  BY <1>2 DEF OwnKeys
<1>4. t = [n \in 1..L |-> s[at(n)]]
  BY <1>1 DEF Arranged
<1> HIDE DEF t, L
<1>5. IsFiniteSet(1..L) /\ Cardinality(1..L) = L
  BY <1>1, FS_Interval
<1>6. ASSUME NEW m \in 1..L PROVE IsFiniteSet(before(m)) /\ rank(m) \in 0..(L - 1)
  <2>1. before(m) \subseteq (1..L) \ {m}
    BY <1>1, <1>2
  <2>2. IsFiniteSet((1..L) \ {m}) /\ Cardinality((1..L) \ {m}) = L - 1
    BY <1>5, FS_RemoveElement
  <2>3. IsFiniteSet(before(m)) /\ rank(m) <= L - 1
    <3> HIDE DEF before
    <3> QED BY <2>1, <2>2, FS_Subset
  <2>4. rank(m) \in Nat
    <3> HIDE DEF before
    <3> QED BY <2>3, FS_CardinalityType
  <2> QED BY <2>3, <2>4
<1>ranked. \A m \in 1..L : IsFiniteSet(before(m)) /\ rank(m) \in Nat /\ rank(m) <= L - 1
  <2> TAKE m \in 1..L
  <2>1. IsFiniteSet(before(m)) /\ rank(m) \in 0..(L - 1)
    BY <1>6
  <2> HIDE DEF rank, before
  <2> QED BY <1>1, <2>1
<1>7. ASSUME NEW m \in 1..L, NEW n \in 1..L, keys[m] < keys[n] PROVE rank(m) < rank(n)
  <2>1. before(m) \subseteq before(n) /\ m \in before(n) /\ m \notin before(m)
    BY <1>1, <1>2, <1>7
  <2>2. IsFiniteSet(before(n)) /\ IsFiniteSet(before(m)) /\ rank(m) \in Nat /\ rank(n) \in Nat
    BY <1>ranked
  <2> HIDE DEF before
  <2>3. rank(m) <= rank(n) /\ (rank(m) = rank(n) => before(m) = before(n))
    BY <2>1, <2>2, FS_Subset
  <2> QED BY <2>1, <2>2, <2>3
<1> HIDE DEF rank, before
<1>8. \A m, n \in 1..L : rank(m) = rank(n) => m = n
  <2> TAKE m, n \in 1..L
  <2>1. keys[m] \in Nat /\ keys[n] \in Nat /\ rank(m) \in Nat /\ rank(n) \in Nat
    BY <1>2, <1>ranked
  <2>2. keys[m] < keys[n] => rank(m) < rank(n)
    BY <1>7
  <2>3. keys[n] < keys[m] => rank(n) < rank(m)
    BY <1>7
  <2>4. keys[m] = keys[n] => m = n
    BY <1>3
  <2> QED BY <2>1, <2>2, <2>3, <2>4
<1>9. \A n \in 1..L : \E m \in 1..L : rank(m) = n - 1
  <2> DEFINE f == [m \in 1..L |-> rank(m) + 1]
  <2>1. f \in [1..L -> 1..L]
    BY <1>1, <1>ranked
  <2>2. \A m, n \in 1..L : f[m] = f[n] => m = n
    <3> TAKE m, n \in 1..L
    <3>1. rank(m) \in Nat /\ rank(n) \in Nat
      BY <1>ranked
    <3> QED BY <3>1, <1>8
  <2>3. f \in Injection(1..L, 1..L)
    <3> HIDE DEF f
    <3> QED BY <2>1, <2>2 DEF Injection, IsInjective
  <2>4. f \in Surjection(1..L, 1..L)
    <3> HIDE DEF f
    <3> QED BY <2>3, <1>5, FS_Injection
  <2>5. ASSUME NEW n \in 1..L PROVE \E m \in 1..L : rank(m) = n - 1
    <3>1. PICK m \in 1..L : f[m] = n
      <4> HIDE DEF f
      <4> QED BY <2>4 DEF Surjection
    <3>2. rank(m) \in Nat /\ rank(m) + 1 = n
      BY <3>1, <1>ranked
    <3> HIDE DEF f
    <3>3. PICK r \in Nat : r = rank(m) /\ r + 1 = n
      BY <3>2
    <3>4. r = n - 1
      BY <3>3
    <3> QED BY <3>3, <3>4
  <2> QED BY <2>5
<1>10. \A n \in 1..L : at(n) \in 1..L /\ rank(at(n)) = n - 1
  BY <1>9
<1> HIDE DEF at
<1>11. t \in [1..L -> R]
  BY <1>1, <1>4, <1>10
<1>12. t \in Seq(R) /\ Len(t) = L
  BY <1>1, <1>11
<1>13. Range(t) = Range(s)
  <2>1. \A n \in 1..L : t[n] \in Range(s)
    BY <1>1, <1>4, <1>10 DEF Range
  <2>2. ASSUME NEW m \in 1..L PROVE s[m] \in Range(t)
    <3>1. PICK n \in 1..L : n - 1 = rank(m)
      <4>1. rank(m) + 1 \in 1..L /\ (rank(m) + 1) - 1 = rank(m)
        BY <1>1, <1>ranked
      <4> QED BY <4>1
    <3>2. at(n) = m
      BY <3>1, <1>8, <1>10
    <3> QED BY <3>2, <1>4, <1>11 DEF Range
  <2> QED BY <1>1, <1>11, <2>1, <2>2 DEF Range
<1>14. Ascending(t, key)
  <2> SUFFICES ASSUME NEW i \in 1..L, NEW j \in 1..L, i < j PROVE key[t[i]] < key[t[j]]
    BY <1>12 DEF Ascending
  <2>1. PICK m \in 1..L, n \in 1..L : m = at(i) /\ n = at(j) /\ rank(m) = i - 1 /\ rank(n) = j - 1
    BY <1>10
  <2>2. key[t[i]] = keys[m] /\ key[t[j]] = keys[n]
    BY <1>2, <1>4, <2>1
  <2>3. PICK x \in Nat, y \in Nat : x = keys[m] /\ y = keys[n]
    BY <1>2
  <2>4. ~(y < x)
    <3> SUFFICES ASSUME y < x PROVE FALSE
      OBVIOUS
    <3>1. rank(n) < rank(m)
      BY <1>7, <2>3
    <3> QED BY <3>1, <2>1
  <2>5. x # y
    <3> SUFFICES ASSUME x = y PROVE FALSE
      OBVIOUS
    <3>1. m = n
      BY <1>3, <2>3
    <3> QED BY <3>1, <2>1
  <2> QED BY <2>2, <2>3, <2>4, <2>5
<1> QED BY <1>12, <1>13, <1>14 DEF t, L

\* Only one ascending sequence has given elements.
LEMMA AscendingUnique ==
    ASSUME NEW R, NEW key \in [R -> Nat], NEW s \in Seq(R), NEW t \in Seq(R),
           Range(s) = Range(t), Ascending(s, key), Ascending(t, key)
    PROVE  s = t
<1> DEFINE a(n) == key[s[n]]
           b(n) == key[t[n]]
<1>1. /\ Len(s) \in Nat /\ DOMAIN s = 1..Len(s) /\ \A n \in 1..Len(s) : s[n] \in R /\ a(n) \in Nat
      /\ Len(t) \in Nat /\ DOMAIN t = 1..Len(t) /\ \A n \in 1..Len(t) : t[n] \in R /\ b(n) \in Nat
  OBVIOUS
<1>2. /\ \A m, n \in 1..Len(s) : m < n => a(m) < a(n)
      /\ \A m, n \in 1..Len(t) : m < n => b(m) < b(n)
  BY DEF Ascending
<1>3. /\ \A n \in 1..Len(s) : \E m \in 1..Len(t) : s[n] = t[m]
      /\ \A n \in 1..Len(t) : \E m \in 1..Len(s) : t[n] = s[m]
  BY <1>1 DEF Range
<1> DEFINE Bad == {n \in 1..Len(s) : n \notin 1..Len(t) \/ s[n] # t[n]}
<1>4. Bad = {}
  <2> SUFFICES ASSUME Bad # {} PROVE FALSE
    OBVIOUS
  <2>1. Bad \in SUBSET Nat
    OBVIOUS
  <2>2. PICK n \in Bad : \A m \in Bad : n <= m
    <3> HIDE DEF Bad
    <3> QED BY <2>1, LeastMember
  <2>3. n \in 1..Len(s)
    OBVIOUS
  <2>4. \A m \in 1..(n - 1) : m \in 1..Len(s) /\ m \in 1..Len(t) /\ s[m] = t[m]
    <3> TAKE m \in 1..(n - 1)
    <3>1. m \in 1..Len(s) /\ ~(n <= m)
      BY <2>3
    <3>2. m \notin Bad
      <4> HIDE DEF Bad
      <4> QED BY <2>2, <3>1
    <3> QED BY <3>1, <3>2
  <2>5. PICK k \in 1..Len(t) : s[n] = t[k]
    BY <1>3, <2>3
  <2>6. ~(k < n)
    <3> SUFFICES ASSUME k < n PROVE FALSE
      OBVIOUS
    <3>1. k \in 1..(n - 1)
      BY <2>3
    <3>2. k \in 1..Len(s) /\ s[k] = s[n]
      BY <2>4, <2>5, <3>1
    <3>3. a(k) < a(n) /\ a(k) = a(n) /\ a(k) \in Nat
      BY <1>1, <1>2, <2>3, <3>2
    <3> QED BY <3>3
  <2>7. n \in 1..Len(t) /\ n <= k
    BY <1>1, <2>3, <2>6
  <2>8. n < k
    BY <2>5, <2>7, <2>3
  <2>9. PICK j \in 1..Len(s) : t[n] = s[j]
    BY <1>3, <2>7
  <2>10. a(j) = b(n) /\ b(n) < b(k) /\ b(k) = a(n)
    BY <1>2, <2>5, <2>7, <2>8, <2>9
  <2>11. j < n
    <3> SUFFICES ASSUME ~(j < n) PROVE FALSE
      OBVIOUS
    <3>1. j = n \/ n < j
      BY <2>3
    <3>2. a(n) \in Nat /\ a(j) \in Nat /\ a(j) < a(n)
      BY <1>1, <2>3, <2>9, <2>10
    <3> QED BY <3>1, <3>2, <1>2, <2>3
  <2>12. t[j] = t[n] /\ j \in 1..Len(t)
    BY <2>4, <2>9, <2>11
  <2>13. b(j) < b(n) /\ b(j) = b(n) /\ b(j) \in Nat
    BY <1>1, <1>2, <2>7, <2>11, <2>12
  <2> QED BY <2>13
<1>5. Len(s) <= Len(t) /\ \A n \in 1..Len(s) : s[n] = t[n]
  <2>1. \A n \in 1..Len(s) : n \in 1..Len(t) /\ s[n] = t[n]
    BY <1>4
  <2>2. CASE Len(s) = 0
    BY <1>1, <2>1, <2>2
  <2>3. CASE Len(s) # 0
    <3>1. Len(s) \in 1..Len(s)
      BY <1>1, <2>3
    <3> QED BY <1>1, <2>1, <3>1
  <2> QED BY <2>2, <2>3
<1>6. Len(t) = Len(s)
  <2>0. PICK k \in Nat, l \in Nat : k = Len(s) /\ l = Len(t) /\ k <= l
    BY <1>1, <1>5
  <2> SUFFICES ASSUME k < l PROVE FALSE
    BY <2>0
  <2>1. Len(t) \in 1..Len(t)
    BY <2>0
  <2>2. PICK m \in 1..Len(s) : t[Len(t)] = s[m]
    BY <1>3, <2>1
  <2>3. m \in 1..Len(t) /\ m < Len(t) /\ t[m] = t[Len(t)]
    BY <2>0, <1>5, <2>2
  <2>4. b(m) < b(Len(t)) /\ b(m) = b(Len(t)) /\ b(m) \in Nat
    BY <1>1, <1>2, <2>1, <2>3
  <2> QED BY <2>4
<1> QED BY <1>1, <1>5, <1>6

-----------------------------------------------------------------------------
(* The evidence of a session.                                              *)

\* Every record is that of a call the session could answer (_append_record).
RecordsAnswered ==
    \A n \in DOMAIN session.records :
        /\ session.records[n].call \in Calls /\ Answerable(Seed, session.records[n].call)
        /\ session.records[n] = Record(Seed, Namespace, session.records[n].call)

\* The identities requests can get.
Identities == {Derived(Seed, Namespace, request) : request \in Requests}

\* What an attempt allocated is distinct in request, digest and display (IdentityLedger).
IdentitiesDistinct ==
    /\ IsFiniteSet(identities) /\ identities \subseteq Identities
    /\ \A r, q \in identities :
          r.request = q.request \/ r.full = q.full \/ r.display = q.display => r = q

\* What a replay under the seed makes again.
LedgerMade(l) ==
    /\ l = Ledger(Seed, Namespace, l.attempt, Producer, Prefix, l.records)
    /\ LedgerValid(l)
    /\ \A n \in DOMAIN l.records :
          /\ Answerable(Seed, l.records[n].call)
          /\ l.records[n] = Record(Seed, Namespace, l.records[n].call)

\* Identities a replay derives again (replay_identity_records).
IdentitiesMade(ids) ==
    /\ ByRequest(ids) = ids
    /\ IsInjective([n \in DOMAIN ids |-> ids[n].request])
    /\ IsInjective([n \in DOMAIN ids |-> ids[n].full])
    /\ IsInjective([n \in DOMAIN ids |-> ids[n].display])
    /\ \A n \in DOMAIN ids : ids[n] = Derived(Seed, Namespace, ids[n].request)

\* A bundle the attempt made, of parts that are made (AttemptReplayBundle).
BundleMade(b) ==
    /\ b = Bundle(b.completion.status, b.ledger, b.identities) /\ BundleValid(b)
    /\ LedgerMade(b.ledger) /\ IdentitiesMade(b.identities)

\* The invariant: everything that can become evidence was made under the one seed.
EvidenceInv ==
    /\ SessionSafe /\ RecordsAnswered /\ IdentitiesDistinct
    /\ \A l \in frozen : LedgerMade(l)
    /\ \A b \in bundles : BundleMade(b)

-----------------------------------------------------------------------------
(* Records and identities in their orders.                                 *)

\* The place of a record or an identity in its order.
PathKey    == [r \in Records |-> Position(PathOrder, r.call.path)]
RequestKey == [r \in Identities |-> Position(RequestOrder, r.request)]

\* A member of a sequence has a position, and no other member has it.
LEMMA PositionOf ==
    ASSUME NEW order, order \in Seq(Range(order)), NEW x \in Range(order)
    PROVE  Position(order, x) \in Nat /\ order[Position(order, x)] = x
<1>1. \E n \in DOMAIN order : order[n] = x
  BY DEF Range
<1>2. Position(order, x) \in DOMAIN order /\ order[Position(order, x)] = x
  BY <1>1 DEF Position
<1> QED BY <1>2

\* Every recorded path has a place in the order of paths, its own.
LEMMA PathsPlaced ==
    /\ PathKey \in [Records -> Nat]
    /\ \A r, q \in Records : PathKey[r] = PathKey[q] => r.call.path = q.call.path
<1>1. \A r \in Records : r.call.path \in Range(PathOrder)
  BY RecordCall, OrdersAssumption DEF Records
<1>2. \A r \in Records : /\ Position(PathOrder, r.call.path) \in Nat
                         /\ PathOrder[Position(PathOrder, r.call.path)] = r.call.path
  BY <1>1, PositionOf, OrdersAssumption
<1> QED BY <1>2 DEF PathKey

\* Every request has a place in the order of requests, its own.
LEMMA RequestsPlaced ==
    /\ RequestKey \in [Identities -> Nat]
    /\ \A r, q \in Identities : RequestKey[r] = RequestKey[q] => r.request = q.request
<1>1. \A r \in Identities : r.request \in Range(RequestOrder)
  BY OrdersAssumption DEF Identities, Derived
<1>2. \A r \in Identities : /\ Position(RequestOrder, r.request) \in Nat
                            /\ RequestOrder[Position(RequestOrder, r.request)] = r.request
  BY <1>1, PositionOf, OrdersAssumption
<1> QED BY <1>2 DEF RequestKey

\* Elements in ascending order have different keys.
LEMMA AscendingDiffer ==
    ASSUME NEW R, NEW key \in [R -> Nat], NEW s \in Seq(R), Ascending(s, key),
           NEW m \in 1..Len(s), NEW n \in 1..Len(s), key[s[m]] = key[s[n]]
    PROVE  m = n
<1>1. s[m] \in R /\ key[s[m]] \in Nat
  OBVIOUS
<1>2. ~(m < n) /\ ~(n < m)
  BY <1>1 DEF Ascending
<1> QED BY <1>2

\* No path is recorded twice.
OwnPaths(s) == \A m, n \in 1..Len(s) : s[m].call.path = s[n].call.path => m = n

\* Sorting a ledger keeps its records and puts their paths in order.
LEMMA SortedAscends ==
    ASSUME NEW s \in Seq(Records), OwnPaths(s)
    PROVE  /\ Sorted(s) \in Seq(Records) /\ Len(Sorted(s)) = Len(s) /\ Range(Sorted(s)) = Range(s)
           /\ Ascending(Sorted(s), PathKey) /\ OwnPaths(Sorted(s))
<1> DEFINE keys == [n \in DOMAIN s |-> PathKey[s[n]]]
<1>1. DOMAIN s = 1..Len(s) /\ Len(s) \in Nat /\ \A n \in 1..Len(s) : s[n] \in Records
  OBVIOUS
<1>2. Sorted(s) = Arranged(s, keys)
  <2>1. keys = [n \in DOMAIN s |-> Position(PathOrder, s[n].call.path)]
    BY <1>1 DEF PathKey
  <2> HIDE DEF keys
  <2> QED BY <2>1 DEF Sorted
<1>3. OwnKeys(s, PathKey)
  BY <1>1, PathsPlaced DEF OwnPaths, OwnKeys
<1>4. /\ Sorted(s) \in Seq(Records) /\ Len(Sorted(s)) = Len(s) /\ Range(Sorted(s)) = Range(s)
      /\ Ascending(Sorted(s), PathKey)
  <2>1. keys = [n \in DOMAIN s |-> PathKey[s[n]]] /\ PathKey \in [Records -> Nat]
    BY PathsPlaced
  <2> HIDE DEF keys
  <2>2. /\ Arranged(s, keys) \in Seq(Records) /\ Len(Arranged(s, keys)) = Len(s)
        /\ Range(Arranged(s, keys)) = Range(s) /\ Ascending(Arranged(s, keys), PathKey)
    BY <1>3, <2>1, ArrangedAscends, Zenon
  <2> QED BY <1>2, <2>2
<1>5. OwnPaths(Sorted(s))
  <2>1. PICK t \in Seq(Records) : t = Sorted(s) /\ Ascending(t, PathKey)
    BY <1>4
  <2>2. ASSUME NEW m \in 1..Len(t), NEW n \in 1..Len(t), t[m].call.path = t[n].call.path
        PROVE  m = n
    <3>1. PathKey[t[m]] = PathKey[t[n]]
      BY <2>2 DEF PathKey
    <3> QED BY <2>1, <3>1, PathsPlaced, AscendingDiffer
  <2> QED BY <2>1, <2>2 DEF OwnPaths
<1> QED BY <1>4, <1>5

\* Records with the same elements are sorted to the same ledger.
LEMMA SortedSame ==
    ASSUME NEW s \in Seq(Records), NEW t \in Seq(Records), OwnPaths(s), OwnPaths(t), Range(s) = Range(t)
    PROVE  Sorted(s) = Sorted(t)
<1>1. PICK u \in Seq(Records), v \in Seq(Records) :
         /\ u = Sorted(s) /\ v = Sorted(t) /\ Range(u) = Range(v)
         /\ Ascending(u, PathKey) /\ Ascending(v, PathKey)
  BY SortedAscends
<1> QED BY <1>1, PathsPlaced, AscendingUnique

\* A sorted ledger stays as it is.
LEMMA SortedTwice ==
    ASSUME NEW s \in Seq(Records), OwnPaths(s)
    PROVE  Sorted(Sorted(s)) = Sorted(s)
BY SortedAscends, SortedSame

\* No request is allocated twice.
OwnRequests(s) == \A m, n \in 1..Len(s) : s[m].request = s[n].request => m = n

\* Sorting identities keeps them and puts their requests in order.
LEMMA ByRequestAscends ==
    ASSUME NEW s \in Seq(Identities), OwnRequests(s)
    PROVE  /\ ByRequest(s) \in Seq(Identities) /\ Len(ByRequest(s)) = Len(s)
           /\ Range(ByRequest(s)) = Range(s)
           /\ Ascending(ByRequest(s), RequestKey) /\ OwnRequests(ByRequest(s))
<1> DEFINE keys == [n \in DOMAIN s |-> RequestKey[s[n]]]
<1>1. DOMAIN s = 1..Len(s) /\ Len(s) \in Nat /\ \A n \in 1..Len(s) : s[n] \in Identities
  OBVIOUS
<1>2. ByRequest(s) = Arranged(s, keys)
  <2>1. keys = [n \in DOMAIN s |-> Position(RequestOrder, s[n].request)]
    BY <1>1 DEF RequestKey
  <2> HIDE DEF keys
  <2> QED BY <2>1 DEF ByRequest
<1>3. OwnKeys(s, RequestKey)
  BY <1>1, RequestsPlaced DEF OwnRequests, OwnKeys
<1>4. /\ ByRequest(s) \in Seq(Identities) /\ Len(ByRequest(s)) = Len(s)
      /\ Range(ByRequest(s)) = Range(s) /\ Ascending(ByRequest(s), RequestKey)
  <2>1. keys = [n \in DOMAIN s |-> RequestKey[s[n]]] /\ RequestKey \in [Identities -> Nat]
    BY RequestsPlaced
  <2> HIDE DEF keys
  <2>2. /\ Arranged(s, keys) \in Seq(Identities) /\ Len(Arranged(s, keys)) = Len(s)
        /\ Range(Arranged(s, keys)) = Range(s) /\ Ascending(Arranged(s, keys), RequestKey)
    BY <1>3, <2>1, ArrangedAscends, Zenon
  <2> QED BY <1>2, <2>2
<1>5. OwnRequests(ByRequest(s))
  <2>1. PICK t \in Seq(Identities) : t = ByRequest(s) /\ Ascending(t, RequestKey)
    BY <1>4
  <2>2. ASSUME NEW m \in 1..Len(t), NEW n \in 1..Len(t), t[m].request = t[n].request
        PROVE  m = n
    <3>1. RequestKey[t[m]] = RequestKey[t[n]]
      BY <2>2 DEF RequestKey
    <3> QED BY <2>1, <3>1, RequestsPlaced, AscendingDiffer
  <2> QED BY <2>1, <2>2 DEF OwnRequests
<1> QED BY <1>4, <1>5

\* Sorted identities stay as they are.
LEMMA ByRequestTwice ==
    ASSUME NEW s \in Seq(Identities), OwnRequests(s)
    PROVE  ByRequest(ByRequest(s)) = ByRequest(s)
<1>1. PICK t \in Seq(Identities) : t = ByRequest(s) /\ OwnRequests(t) /\ Ascending(t, RequestKey)
  BY ByRequestAscends
<1>2. PICK u \in Seq(Identities) : u = ByRequest(t) /\ Range(u) = Range(t) /\ Ascending(u, RequestKey)
  BY <1>1, ByRequestAscends
<1> QED BY <1>1, <1>2, RequestsPlaced, AscendingUnique

\* A finite set written as a sequence.
LEMMA Listed ==
    ASSUME NEW S, IsFiniteSet(S)
    PROVE  /\ SetToSeq(S) \in Seq(S) /\ Range(SetToSeq(S)) = S
           /\ \A m, n \in 1..Len(SetToSeq(S)) : SetToSeq(S)[m] = SetToSeq(S)[n] => m = n
<1> DEFINE C == Cardinality(S)
           f == SetToSeq(S)
<1>1. C \in Nat /\ ExistsBijection(1..C, S)
  BY FS_CardinalityType
<1>2. PICK g : g \in [1..C -> S] /\ IsInjective(g)
  BY <1>1 DEF ExistsBijection, Bijection, Injection
<1>3. f \in [1..C -> S] /\ IsInjective(f)
  BY <1>2 DEF SetToSeq
<1> HIDE DEF f
<1>4. f \in Injection(1..C, S)
  BY <1>3 DEF Injection
<1>5. Cardinality(1..C) = C
  BY <1>1, FS_Interval
<1>6. f \in Surjection(1..C, S)
  <2> HIDE DEF C
  <2> QED BY <1>4, <1>5, FS_Injection DEF C
<1>7. f \in Seq(S) /\ Len(f) = C
  BY <1>1, <1>3
<1>8. Range(f) = S
  BY <1>3, <1>6 DEF Range, Surjection
<1> QED BY <1>3, <1>7, <1>8 DEF f, IsInjective

-----------------------------------------------------------------------------
(* The three parts of EvidenceReplays.                                     *)

\* What a session recorded can be sorted into a ledger.
LEMMA RecordsSort ==
    ASSUME SessionSafe
    PROVE  /\ session.records \in Seq(Records) /\ OwnPaths(session.records)
           /\ Sorted(session.records) \in Seq(Records)
           /\ Len(Sorted(session.records)) = Len(session.records)
           /\ Range(Sorted(session.records)) = Range(session.records)
           /\ OwnPaths(Sorted(session.records))
           /\ Sorted(Sorted(session.records)) = Sorted(session.records)
<1>1. session.records \in Seq(Records)
  BY DEF SessionSafe, SessionType
<1>2. OwnPaths(session.records)
  <2>1. DOMAIN session.records = 1..Len(session.records)
    BY <1>1
  <2> QED BY <2>1 DEF SessionSafe, PathsOwned, OwnPaths
<1> QED BY <1>1, <1>2, SortedAscends, SortedTwice

\* A ledger of a session's records has whatever they have.
LEMMA RecordsIn ==
    ASSUME NEW s \in Seq(Records), NEW t \in Seq(Records), Range(t) = Range(s), NEW n \in DOMAIN t
    PROVE  \E m \in DOMAIN s : t[n] = s[m]
BY DEF Range

\* The ledger of a session passes the checks of freeze.
LEMMA SessionLedgerValid ==
    ASSUME SessionSafe
    PROVE  LedgerValid(LedgerOf(Sorted(session.records)))
<1> DEFINE s == session.records
           t == Sorted(s)
           l == LedgerOf(t)
<1>1. /\ s \in Seq(Records) /\ t \in Seq(Records) /\ Range(t) = Range(s)
      /\ OwnPaths(t) /\ Sorted(t) = t
  BY RecordsSort
<1>2. /\ l.records = t /\ l.attempt = session.attempt /\ l.seed = Seed /\ l.namespace = Namespace
      /\ l.prefix = Prefix
  BY DEF LedgerOf, Ledger
<1>3. \A m \in DOMAIN s : /\ s[m].call.path.attempt = session.attempt
                          /\ Declared(Prefix, s[m].call.path)
                          /\ s[m].seed = Seed /\ s[m].namespace = Namespace
  <2> TAKE m \in DOMAIN s
  <2>1. s[m] \in Records
    BY <1>1
  <2>2. s[m].seed = Seed /\ s[m].namespace = Namespace
    BY <2>1 DEF Records, Record
  <2> QED BY <2>2 DEF SessionSafe, PathsOwned
<1> HIDE DEF s, t, l
<1>4. \A n \in DOMAIN t : /\ t[n].call.path.attempt = session.attempt
                          /\ Declared(Prefix, t[n].call.path)
                          /\ t[n].seed = Seed /\ t[n].namespace = Namespace
  <2> TAKE n \in DOMAIN t
  <2>1. PICK m \in DOMAIN s : t[n] = s[m]
    BY <1>1, RecordsIn
  <2> QED BY <2>1, <1>3
<1>5. DOMAIN t = 1..Len(t)
  BY <1>1
<1>6. LedgerValid(l)
  BY <1>1, <1>2, <1>4, <1>5 DEF LedgerValid, OwnPaths
<1> QED BY <1>6 DEF l, t, s

\* What an open session recorded can be frozen (ChoiceSession.freeze).
LEMMA OpenSessionFreezes ==
    ASSUME SessionSafe
    PROVE  OpenFreezes
<1> SUFFICES ASSUME LedgerBytes(<<>>) <= MaxBytes
             PROVE  Freezable(LedgerOf(Sorted(session.records)))
  BY DEF OpenFreezes
<1>1. LedgerOf(Sorted(session.records)).records = Sorted(session.records)
  BY DEF LedgerOf, Ledger
<1>2. LedgerBytes(Sorted(session.records)) <= MaxBytes
  <2>1. CASE session.records = <<>>
    <3>1. Sorted(session.records) = <<>>
      <4>1. Len(session.records) = 0
        BY <2>1
      <4>2. PICK t \in Seq(Records) : t = Sorted(session.records) /\ Len(t) = 0
        BY <4>1, RecordsSort
      <4> QED BY <4>2
    <3> QED BY <3>1
  <2>2. CASE session.records # <<>>
    BY <2>2 DEF SessionSafe, BudgetKept
  <2> QED BY <2>1, <2>2
<1> QED BY <1>1, <1>2, SessionLedgerValid DEF Freezable

\* A frozen ledger depends on the calls answered and not on their order.
LEMMA FrozenIsCanonical ==
    ASSUME SessionSafe, RecordsAnswered
    PROVE  LedgerIsCanonical
<1> DEFINE s == session.records
           S == {Record(Seed, Namespace, c) : c \in answered}
           t == SetToSeq(S)
<1>1. s \in Seq(Records) /\ OwnPaths(s) /\ Len(s) \in Nat /\ DOMAIN s = 1..Len(s)
  BY RecordsSort
<1>2. S = Range(s)
  BY DEF SessionSafe, AnswersRecorded, RecordsAnswered, Range
<1> HIDE DEF s, S
<1>3. IsFiniteSet(S) /\ S \subseteq Records
  <2>1. s \in Surjection(1..Len(s), S)
    BY <1>1, <1>2 DEF Surjection, Range
  <2>2. IsFiniteSet(1..Len(s))
    BY <1>1, FS_Interval
  <2> QED BY <1>1, <1>2, <2>1, <2>2, FS_Surjection DEF Range
<1>4. /\ t \in Seq(S) /\ Range(t) = S
      /\ \A m, n \in 1..Len(t) : t[m] = t[n] => m = n
  BY <1>3, Listed
<1> HIDE DEF t
<1>5. t \in Seq(Records)
  BY <1>3, <1>4
<1>6. OwnPaths(t)
  <2>1. ASSUME NEW m \in 1..Len(t), NEW n \in 1..Len(t), t[m].call.path = t[n].call.path
        PROVE  m = n
    <3>1. PICK i \in 1..Len(s), j \in 1..Len(s) : t[m] = s[i] /\ t[n] = s[j]
      BY <1>1, <1>2, <1>4 DEF Range
    <3>2. i = j
      BY <1>1, <2>1, <3>1 DEF OwnPaths
    <3> QED BY <1>4, <3>1, <3>2
  <2> QED BY <2>1 DEF OwnPaths
<1>7. Sorted(s) = Sorted(t)
  BY <1>1, <1>2, <1>4, <1>5, <1>6, SortedSame
<1>8. \A l \in frozen : l.records = Sorted(s)
  BY DEF SessionSafe, LedgerKept, LedgerOf, Ledger, s
<1> QED BY <1>7, <1>8 DEF LedgerIsCanonical, t, S

\* A bundle that was made replays under the seed.
LEMMA MadeReplays ==
    ASSUME NEW b, BundleMade(b), NEW seed
    PROVE  Replays(seed, Namespace, b) <=> seed = Seed
<1> DEFINE l == b.ledger
           ids == b.identities
<1>1. /\ b = Bundle(b.completion.status, l, ids) /\ BundleValid(b)
      /\ LedgerMade(l) /\ IdentitiesMade(ids)
  BY DEF BundleMade
<1>2. l.seed = Seed /\ l.namespace = Namespace
  BY <1>1 DEF LedgerMade, Ledger
<1>3. b.completion.namespace = Namespace /\ b.completion.identities = ByRequest(ids)
  BY <1>1, <1>2 DEF Bundle, Completion
<1>4. ReplaysLedger(Seed, Namespace, l)
  <2>1. \A n \in DOMAIN l.records : l.records[n].seed = Seed /\ l.records[n].namespace = Namespace
    BY <1>1, <1>2 DEF LedgerMade, LedgerValid
  <2> QED BY <1>1, <1>2, <2>1 DEF ReplaysLedger, LedgerMade
<1>5. ReplaysIdentities(Seed, Namespace, ids, b.completion.identities)
  BY <1>1, <1>3 DEF ReplaysIdentities, IdentitiesMade
<1>6. Replays(Seed, Namespace, b)
  BY <1>1, <1>3, <1>4, <1>5 DEF Replays
<1>7. ASSUME Replays(seed, Namespace, b) PROVE seed = Seed
  BY <1>2, <1>7 DEF Replays, ReplaysLedger
<1> QED BY <1>6, <1>7

\* A mixture of bundles that replays is one of them.
LEMMA MixtureIsMade ==
    ASSUME \A b \in bundles : BundleMade(b), NEW b \in Recombined, Replays(Seed, Namespace, b)
    PROVE  b \in bundles
<1>1. PICK v \in bundles, w \in bundles, x \in bundles, y \in bundles, z \in bundles :
         b = [input |-> v.input, branch |-> w.branch, ledger |-> x.ledger,
              identities |-> y.identities, completion |-> z.completion]
  BY DEF Recombined
<1>2. BundleMade(y) /\ BundleMade(z)
  OBVIOUS
<1>3. /\ b.completion.input = b.input /\ b.completion.branch = b.branch
      /\ b.completion.ledger = b.ledger /\ b.completion.identities = ByRequest(b.identities)
  BY DEF Replays, BundleValid
<1>4. b.completion = z.completion /\ b.identities = y.identities
  BY <1>1
<1>5. /\ z = [input |-> z.input, branch |-> z.branch, ledger |-> z.ledger,
              identities |-> z.identities, completion |-> z.completion]
      /\ z.completion.input = z.input /\ z.completion.branch = z.branch
      /\ z.completion.ledger = z.ledger /\ z.completion.identities = ByRequest(z.identities)
  <2>1. z = Bundle(z.completion.status, z.ledger, z.identities) /\ BundleValid(z)
    BY <1>2 DEF BundleMade
  <2> QED BY <2>1 DEF Bundle, BundleValid
<1>6. ByRequest(y.identities) = y.identities /\ ByRequest(z.identities) = z.identities
  BY <1>2 DEF BundleMade, IdentitiesMade
<1>7. /\ b.input = z.input /\ b.branch = z.branch /\ b.ledger = z.ledger
      /\ b.identities = z.identities
  BY <1>3, <1>4, <1>5, <1>6
<1>8. b = [input |-> b.input, branch |-> b.branch, ledger |-> b.ledger,
           identities |-> b.identities, completion |-> b.completion]
  BY <1>1
<1>9. b = z
  BY <1>4, <1>5, <1>7, <1>8
<1> QED BY <1>9

\* The invariant gives the property: its three parts come from the lemmas above.
LEMMA EvidenceFollows == EvidenceInv => EvidenceReplays
<1> SUFFICES ASSUME EvidenceInv PROVE EvidenceReplays
  OBVIOUS
<1>1. OpenFreezes /\ LedgerIsCanonical
  BY OpenSessionFreezes, FrozenIsCanonical DEF EvidenceInv
<1>2. \A b \in bundles : BundleMade(b)
  BY DEF EvidenceInv
<1>3. \A b \in bundles, s \in Seeds : Replays(s, Namespace, b) <=> s = Seed
  BY <1>2, MadeReplays
<1>4. \A b \in Recombined : Replays(Seed, Namespace, b) => b \in bundles
  BY <1>2, MixtureIsMade
<1> QED BY <1>1, <1>3, <1>4 DEF EvidenceReplays, BundlesReplay

-----------------------------------------------------------------------------
(* The invariant.                                                          *)

\* A session that begins has recorded nothing.
LEMMA OpenedEvidence ==
    ASSUME NEW a, session' = Opened(a), frozen' = {}, identities' = {}
    PROVE  RecordsAnswered' /\ IdentitiesDistinct' /\ \A l \in frozen' : LedgerMade(l)
<1>1. session'.records = <<>>
  BY DEF Opened
<1>2. IsFiniteSet({})
  BY FS_EmptySet
<1> QED BY <1>1, <1>2 DEF RecordsAnswered, IdentitiesDistinct

\* What freeze returns replays.
LEMMA FrozenMade ==
    ASSUME SessionSafe, RecordsAnswered
    PROVE  LedgerMade(LedgerOf(Sorted(session.records)))
<1> DEFINE s == session.records
           t == Sorted(s)
           l == LedgerOf(t)
<1>1. /\ s \in Seq(Records) /\ t \in Seq(Records) /\ Range(t) = Range(s) /\ LedgerValid(l)
  BY RecordsSort, SessionLedgerValid
<1>2. l = Ledger(Seed, Namespace, l.attempt, Producer, Prefix, l.records) /\ l.records = t
  BY DEF LedgerOf, Ledger
<1>3. ASSUME NEW n \in DOMAIN t
      PROVE  Answerable(Seed, t[n].call) /\ t[n] = Record(Seed, Namespace, t[n].call)
  <2>1. PICK m \in DOMAIN s : t[n] = s[m]
    BY <1>1, RecordsIn
  <2>2. Answerable(Seed, s[m].call) /\ s[m] = Record(Seed, Namespace, s[m].call)
    BY DEF RecordsAnswered
  <2> QED BY <2>1, <2>2
<1> HIDE DEF t, l
<1> QED BY <1>1, <1>2, <1>3 DEF LedgerMade, l, t

\* The identities a bundle takes replay.
LEMMA AllocatedMade ==
    ASSUME IdentitiesDistinct
    PROVE  IdentitiesMade(ByRequest(SetToSeq(identities)))
<1> DEFINE s == SetToSeq(identities)
           t == ByRequest(s)
<1>1. /\ s \in Seq(identities) /\ Range(s) = identities
      /\ \A m, n \in 1..Len(s) : s[m] = s[n] => m = n
  BY Listed DEF IdentitiesDistinct
<1> HIDE DEF s
<1>2. s \in Seq(Identities)
  BY <1>1 DEF IdentitiesDistinct
<1>3. OwnRequests(s)
  <2>1. \A m \in 1..Len(s) : s[m] \in identities
    BY <1>1
  <2> QED BY <1>1, <2>1 DEF OwnRequests, IdentitiesDistinct
<1>4. /\ t \in Seq(Identities) /\ Range(t) = identities /\ OwnRequests(t) /\ ByRequest(t) = t
  BY <1>1, <1>2, <1>3, ByRequestAscends, ByRequestTwice
<1> HIDE DEF t
<1>5. DOMAIN t = 1..Len(t) /\ \A n \in 1..Len(t) : t[n] \in identities
  BY <1>4 DEF Range
<1>6. \A m, n \in DOMAIN t :
         t[m].request = t[n].request \/ t[m].full = t[n].full \/ t[m].display = t[n].display => m = n
  <2> TAKE m, n \in DOMAIN t
  <2>1. t[m].request = t[n].request => m = n
    BY <1>4, <1>5 DEF OwnRequests
  <2>2. t[m] \in identities /\ t[n] \in identities
    BY <1>5
  <2> QED BY <2>1, <2>2 DEF IdentitiesDistinct
<1>7. \A n \in DOMAIN t : t[n] = Derived(Seed, Namespace, t[n].request)
  <2> TAKE n \in DOMAIN t
  <2>1. PICK q \in Requests : t[n] = Derived(Seed, Namespace, q)
    BY <1>5 DEF IdentitiesDistinct, Identities
  <2>2. Derived(Seed, Namespace, q).request = q
    BY DEF Derived
  <2> QED BY <2>1, <2>2
<1>8. IdentitiesMade(t)
  BY <1>4, <1>6, <1>7 DEF IdentitiesMade, IsInjective
<1> QED BY <1>8 DEF t, s

\* An attempt starts with no evidence.
LEMMA EvidenceAtFirst ==
    ASSUME ExecutionInit
    PROVE  EvidenceInv
<1>1. PICK a \in Attempts : session = Opened(a) /\ frozen = {} /\ identities = {} /\ bundles = {}
  BY DEF ExecutionInit
<1>2. session.records = <<>> /\ IsFiniteSet({})
  BY <1>1, FS_EmptySet DEF Opened
<1>3. SessionSafe
  BY SafeAtFirst
<1> QED BY <1>1, <1>2, <1>3 DEF EvidenceInv, RecordsAnswered, IdentitiesDistinct

\* Whatever is called, allocated or completed next, all evidence was made under
\* the seed.
LEMMA EvidenceStep ==
    ASSUME EvidenceInv, [ExecutionNext]_executionVars
    PROVE  EvidenceInv'
<1>0. /\ SessionSafe /\ RecordsAnswered /\ IdentitiesDistinct
      /\ \A l \in frozen : LedgerMade(l)
      /\ \A b \in bundles : BundleMade(b)
  BY DEF EvidenceInv
<1>1. SessionSafe'
  BY <1>0, SafeStep
<1>2. ASSUME NEW a \in Attempts, Execute(a) PROVE EvidenceInv'
  <2>1. /\ session' = Opened(a) /\ frozen' = {} /\ identities' = {} /\ bundles' = bundles
    BY <1>2 DEF Execute
  <2>2. \A b \in bundles' : BundleMade(b)
    BY <1>0, <2>1
  <2>3. RecordsAnswered' /\ IdentitiesDistinct' /\ \A l \in frozen' : LedgerMade(l)
    BY <2>1, OpenedEvidence
  <2> QED BY <1>1, <2>2, <2>3 DEF EvidenceInv
<1>3. ASSUME NEW call \in Calls, Choose(call) PROVE EvidenceInv'
  <2> DEFINE new == Record(Seed, Namespace, call)
             old == session.records
  <2>1. /\ session'.records = Append(old, new) /\ Answerable(Seed, call)
        /\ frozen' = frozen /\ identities' = identities /\ bundles' = bundles
    BY <1>0, <1>3 DEF Choose, Committed, SessionSafe, SessionType
  <2>2. new.call = call /\ old \in Seq(Records)
    BY <1>0, RecordCall DEF SessionSafe, SessionType
  <2> HIDE DEF new
  <2>3. ASSUME NEW n \in DOMAIN Append(old, new)
        PROVE  LET r == Append(old, new)[n]
               IN  r.call \in Calls /\ Answerable(Seed, r.call) /\ r = Record(Seed, Namespace, r.call)
    <3>1. CASE n \in DOMAIN old
      <4>1. Append(old, new)[n] = old[n]
        BY <2>2, <3>1
      <4> QED BY <1>0, <3>1, <4>1 DEF RecordsAnswered
    <3>2. CASE n \notin DOMAIN old
      <4>1. Append(old, new)[n] = new
        BY <2>2, <3>2
      <4> QED BY <2>1, <2>2, <4>1 DEF new
    <3> QED BY <3>1, <3>2
  <2>4. RecordsAnswered'
    BY <2>1, <2>3 DEF RecordsAnswered
  <2>5. IdentitiesDistinct'
    BY <1>0, <2>1 DEF IdentitiesDistinct
  <2> QED BY <1>0, <1>1, <2>1, <2>4, <2>5 DEF EvidenceInv
<1>4. ASSUME NEW call \in Calls, Poison(call) PROVE EvidenceInv'
  <2>1. /\ session'.records = session.records /\ frozen' = frozen
        /\ identities' = identities /\ bundles' = bundles
    BY <1>0, <1>4 DEF Poison, SessionSafe, SessionType
  <2> QED BY <1>0, <1>1, <2>1 DEF EvidenceInv, RecordsAnswered, IdentitiesDistinct
<1>5. CASE Freeze
  <2>1. /\ session'.records = session.records /\ identities' = identities /\ bundles' = bundles
        /\ frozen' = frozen \/ frozen' = {LedgerOf(Sorted(session.records))}
    BY <1>0, <1>5 DEF Freeze, SessionSafe, SessionType
  <2>2. \A l \in frozen' : LedgerMade(l)
    BY <1>0, <2>1, FrozenMade
  <2> QED BY <1>0, <1>1, <2>1, <2>2 DEF EvidenceInv, RecordsAnswered, IdentitiesDistinct
<1>6. ASSUME NEW request \in Requests, Allocate(request) PROVE EvidenceInv'
  <2> DEFINE new == Derived(Seed, Namespace, request)
  <2>1. /\ Distinct(new) /\ identities' = identities \cup {new}
        /\ session' = session /\ frozen' = frozen /\ bundles' = bundles
    BY <1>6 DEF Allocate
  <2>2. new \in Identities
    BY DEF Identities
  <2> HIDE DEF new
  <2>3. IdentitiesDistinct'
    <3>1. IsFiniteSet(identities') /\ identities' \subseteq Identities
      BY <1>0, <2>1, <2>2, FS_AddElement DEF IdentitiesDistinct
    <3>2. \A r \in identities : r.request # new.request /\ r.full # new.full /\ r.display # new.display
      BY <2>1 DEF Distinct
    <3>3. ASSUME NEW r \in identities', NEW q \in identities',
                 r.request = q.request \/ r.full = q.full \/ r.display = q.display
          PROVE  r = q
      BY <1>0, <2>1, <3>2, <3>3 DEF IdentitiesDistinct
    <3> QED BY <3>1, <3>3 DEF IdentitiesDistinct
  <2>4. RecordsAnswered'
    BY <1>0, <2>1 DEF RecordsAnswered
  <2> QED BY <1>0, <1>1, <2>1, <2>3, <2>4 DEF EvidenceInv
<1>7. ASSUME NEW status, Complete(status) PROVE EvidenceInv'
  <2> DEFINE ids == ByRequest(SetToSeq(identities))
  <2>1. PICK l \in frozen : /\ BundleValid(Bundle(status, l, ids))
                            /\ bundles' = bundles \cup {Bundle(status, l, ids)}
    BY <1>7 DEF Complete
  <2>2. session' = session /\ frozen' = frozen /\ identities' = identities
    BY <1>7 DEF Complete
  <2>3. LedgerMade(l) /\ IdentitiesMade(ids)
    BY <1>0, AllocatedMade
  <2> HIDE DEF ids
  <2>4. /\ Bundle(status, l, ids).ledger = l /\ Bundle(status, l, ids).identities = ids
        /\ Bundle(status, l, ids).completion.status = status
    BY DEF Bundle, Completion
  <2>5. BundleMade(Bundle(status, l, ids))
    BY <2>1, <2>3, <2>4 DEF BundleMade
  <2>6. RecordsAnswered' /\ IdentitiesDistinct'
    BY <1>0, <2>2 DEF RecordsAnswered, IdentitiesDistinct
  <2>7. \A b \in bundles' : BundleMade(b)
    BY <1>0, <2>1, <2>5
  <2> QED BY <1>0, <1>1, <2>2, <2>6, <2>7 DEF EvidenceInv
<1>8. CASE UNCHANGED executionVars
  <2>1. /\ session' = session /\ frozen' = frozen /\ identities' = identities /\ bundles' = bundles
    BY <1>8 DEF executionVars
  <2> QED BY <1>0, <1>1, <2>1 DEF EvidenceInv, RecordsAnswered, IdentitiesDistinct
<1> QED BY <1>2, <1>3, <1>4, <1>5, <1>6, <1>7, <1>8 DEF ExecutionNext

\* The evidence an attempt completes with replays, under its seed alone, and no
\* mixture does; a ledger depends on the answered calls alone (ChoiceSession,
\* IdentityLedger, AttemptReplayBundle.validate).
THEOREM EvidenceAlwaysReplays == ExecutionSpec => []EvidenceReplays
BY EvidenceAtFirst, EvidenceStep, EvidenceFollows, PTL DEF ExecutionSpec

\* The calls a session answered had a valid domain.
AnswersValid == \A call \in answered : call \in Calls /\ DomainValid(call)

\* Only what can be answered is.
LEMMA AnswersStep ==
    ASSUME AnswersValid, [ExecutionNext]_executionVars
    PROVE  AnswersValid'
<1>1. ASSUME NEW a \in Attempts, Execute(a) PROVE AnswersValid'
  BY <1>1 DEF Execute, AnswersValid
<1>2. ASSUME NEW call \in Calls, Choose(call) PROVE AnswersValid'
  BY <1>2 DEF Choose, Committed, Answerable, AnswersValid
<1>3. ASSUME NEW call \in Calls, Poison(call) PROVE AnswersValid'
  BY <1>3 DEF Poison, AnswersValid
<1>4. CASE Freeze
  BY <1>4 DEF Freeze, AnswersValid
<1>5. ASSUME NEW request \in Requests, Allocate(request) PROVE AnswersValid'
  BY <1>5 DEF Allocate, AnswersValid
<1>6. ASSUME NEW status, Complete(status) PROVE AnswersValid'
  BY <1>6 DEF Complete, AnswersValid
<1>7. CASE UNCHANGED executionVars
  BY <1>7 DEF executionVars, AnswersValid
<1> QED BY <1>1, <1>2, <1>3, <1>4, <1>5, <1>6, <1>7 DEF ExecutionNext

\* Those are answered fairly.
LEMMA FairnessFollows == AnswersValid => ChoicesFair
BY ValidIsFair DEF AnswersValid, ChoicesFair

\* No answer is favoured, whatever the size of a byte (bounded_integer,
\* weighted_choice, choose_ratio).
THEOREM ChoicesAreFair == ExecutionSpec => []ChoicesFair
<1>1. ExecutionInit => AnswersValid
  BY DEF ExecutionInit, AnswersValid
<1> QED BY <1>1, AnswersStep, FairnessFollows, PTL DEF ExecutionSpec

-----------------------------------------------------------------------------
(* Publication.                                                            *)

\* The files a power loss leaves.
Durable == visible \ pending

\* An object of the plan p, or one that is durable.
Coming(v, p) == Object(v) \in Durable \/ \E n \in DOMAIN p : p[n] = Object(v)

\* What a file of a plan cites is durable or comes before it.
Orderly(p) ==
    \A n \in DOMAIN p : \A v \in Cited(p[n]) :
        Object(v) \in Durable \/ \E m \in 1..(n - 1) : p[m] = Object(v)

\* An object that was there before any claim, and will never have one.
Unclaimed(v) ==
    /\ Object(v) \in Durable
    /\ \A f \in visible : f.at = "claim" => f.of # v
    /\ \A w \in Workers : \A n \in DOMAIN plan[w] : plan[w][n].at = "claim" => plan[w][n].of # v

ClaimOn(v) == \E f \in Durable : f.at = "claim" /\ f.of = v

\* Receipts are of two kinds, and the last of an attempt names the first.
FirstReceipt(r) ==
    /\ r = Receipt(r.run, r.inventory, r.key, 0, r.how, None)
    /\ r.how \in {"published", "existing"}
LastReceipt(r) ==
    /\ r = Receipt(r.run, r.inventory, r.key, 1, r.how, r.previous)
    /\ r.how \in {"published", "existing"}
    /\ FirstReceipt(r.previous)
    /\ r.previous.run = r.run /\ r.previous.inventory = r.inventory /\ r.previous.key = r.key
    /\ r.inventory \in Inventories /\ r.key \in Keys(r.inventory)

\* The claim a receipt says it had or met.
ClaimOf(r) ==
    Claim(ReceiptObject(r), [run |-> r.run, inventory |-> r.inventory, key |-> r.key,
                             previous |-> r.previous])

Told(r) ==
    IF r.how = "published" THEN ClaimOf(r) \in Durable
    ELSE \/ \E f \in Durable : f.at = "claim" /\ f.of = ReceiptObject(r) /\ f # ClaimOf(r)
         \/ Unclaimed(ReceiptObject(r))

\* What an object may be, by its kind.
Genuine(v) ==
    /\ v.kind = "receipt" =>
          /\ Told(v)
          /\ FirstReceipt(v) \/ (LastReceipt(v) /\ Told(v.previous))
    /\ v.kind = "index" => \A e \in v.entries : LastReceipt(e)
    /\ v.kind = "manifest" => v.index.kind = "index" /\ \A e \in v.index.entries : LastReceipt(e)

Files == visible \cup UNION {Range(plan[w]) : w \in Workers}

ContentInv == \A f \in Files : f.at = "object" => Genuine(f.of)

\* One claim on an object at most, and before the object.
ClaimInv ==
    /\ \A f, g \in visible : f.at = "claim" /\ SamePath(f, g) => f = g
    /\ \A f \in visible :
          f.at = "object" /\ f.of.kind \in {"envelope", "reference"} => ClaimOn(f.of) \/ Unclaimed(f.of)

-----------------------------------------------------------------------------
(* What a worker relies on at its stage.                                   *)

\* The object a worker publishes at this stage.
Current(w) ==
    IF stage[w] = "envelope" THEN Envelope(Head(left[w]))
    ELSE Reference(job[w].inventory, Head(left[w]))
CurrentClaim(w) == Claim(Current(w), Owner(w, Head(left[w])))

\* Whether the claim of the stage has been answered, and how.
Answered(w) ==
    IF owned[w] THEN CurrentClaim(w) \in Durable
    ELSE \/ \E f \in Durable : f.at = "claim" /\ f.of = Current(w) /\ f # CurrentClaim(w)
         \/ Unclaimed(Current(w))

PlanInv(w) ==
    /\ Orderly(plan[w])
    /\ step[w] = "flush" => plan[w] # <<>> /\ Taken(Head(plan[w]))
    /\ \A n \in DOMAIN plan[w] :
          /\ plan[w][n].at = "claim" =>
                /\ n = 1 /\ stage[w] \in {"envelope", "reference"}
                /\ plan[w][n] = CurrentClaim(w)
          /\ plan[w][n].at = "object" /\ plan[w][n].of.kind \in {"envelope", "reference"} =>
                \/ ClaimOn(plan[w][n].of) \/ Unclaimed(plan[w][n].of)
                \/ \E m \in 1..(n - 1) : plan[w][m].at = "claim" /\ plan[w][m].of = plan[w][n].of

FirstOf(w, r) ==
    /\ FirstReceipt(r) /\ Told(r)
    /\ r.run = job[w].run /\ r.inventory = job[w].inventory /\ r.key = Head(left[w])

MemoryInv(w) ==
    /\ stage[w] \in {"envelope", "enveloped", "reference"} => left[w] # <<>>
    /\ stage[w] \notin {"enveloped", "reference"} => previous[w] = None
    /\ stage[w] = "envelope" => Coming(Envelope(Head(left[w])), plan[w])
    /\ stage[w] = "enveloped" =>
          /\ FirstOf(w, previous[w]) /\ Coming(previous[w], plan[w])
          /\ Object(Envelope(Head(left[w]))) \in Durable
    /\ stage[w] = "reference" =>
          /\ FirstOf(w, previous[w]) /\ Object(previous[w]) \in Durable
          /\ Coming(Reference(job[w].inventory, Head(left[w])), plan[w])
    /\ stage[w] = "indexed" => Coming(ShardIndex(w), plan[w])
    /\ \A r \in receipts[w] : LastReceipt(r) /\ Coming(r, plan[w])
    /\ stage[w] \in {"envelope", "reference"} /\ (\A n \in DOMAIN plan[w] : plan[w][n].at # "claim")
          => Answered(w)
    /\ stage[w] = "down" => plan[w] = <<>>

WorkerType(w) ==
    /\ plan[w] \in Seq(Range(plan[w]))
    /\ job[w].inventory \in Inventories
    /\ job[w].keys \in Seq(Keys(job[w].inventory))
    /\ left[w] \in Seq(Keys(job[w].inventory))

PublicationType ==
    /\ pending \subseteq visible /\ temps \subseteq Workers
    /\ stage \in [Workers -> Stages]
    /\ step \in [Workers -> {"look", "link", "flush"}]
    /\ owned \in [Workers -> BOOLEAN]
    /\ shard \in [Workers -> Nat]
    /\ plan = [w \in Workers |-> plan[w]]
    /\ left = [w \in Workers |-> left[w]]
    /\ previous = [w \in Workers |-> previous[w]]
    /\ receipts = [w \in Workers |-> receipts[w]]
    /\ failures \in Nat
    /\ \A w \in Workers : WorkerType(w)

PublicationInv ==
    /\ PublicationType
    /\ CitedIsDurable /\ ContentInv /\ ClaimInv
    /\ \A w \in Workers : PlanInv(w) /\ MemoryInv(w)

-----------------------------------------------------------------------------
(* Files and what they cite.                                               *)

\* A file says what it is; a path is shared by the claims on one object only.
LEMMA FileFields ==
    /\ \A v : /\ Object(v).at = "object" /\ Object(v).of = v
              /\ \A g : SamePath(Object(v), g) <=> g = Object(v)
    /\ \A v, o : /\ Claim(v, o).at = "claim" /\ Claim(v, o).of = v /\ Claim(v, o).owner = o
                 /\ \A g : SamePath(Claim(v, o), g) <=> g.at = "claim" /\ g.of = v
BY DEF Object, Claim, SamePath

\* A reference to an object in a category.
LEMMA RefFields ==
    ASSUME NEW cat \in Categories, NEW i, NEW n, NEW v
    PROVE  /\ Ref(cat, i, n, v).at = cat /\ Ref(cat, i, n, v).of = v
           /\ Ref(cat, i, n, v).at \notin {"object", "claim"}
           /\ Ref(cat, i, n, v).inventory = i /\ Ref(cat, i, n, v).shard = n
           /\ \A g : SamePath(Ref(cat, i, n, v), g) <=> g = Ref(cat, i, n, v)
           /\ Cited(Ref(cat, i, n, v)) = {v}
BY DEF Ref, Categories, SamePath, Cited

\* What the objects of a completion cite.
LEMMA CompletionCites ==
    ASSUME NEW i, NEW k
    PROVE  /\ Envelope(k).kind = "envelope" /\ Cited(Object(Envelope(k))) = {}
           /\ Reference(i, k).kind = "reference" /\ Cited(Object(Reference(i, k))) = {Envelope(k)}
BY DEF Envelope, Reference, Cited, Object, Categories

\* What a receipt cites: its object, and the receipt before it.
LEMMA ReceiptCites ==
    ASSUME NEW r, r.kind = "receipt"
    PROVE  Cited(Object(r)) = {ReceiptObject(r)} \cup ({r.previous} \ {None})
BY DEF Cited, Object, Categories

\* A claim cites the receipt before the one it is for.
LEMMA ClaimCites ==
    ASSUME NEW v, NEW o
    PROVE  Cited(Claim(v, o)) = IF o.previous = None THEN {} ELSE {o.previous}
BY DEF Cited, Claim, Categories

\* What indexes and manifests cite.
LEMMA ShardCites ==
    ASSUME NEW v
    PROVE  /\ v.kind = "index" => Cited(Object(v)) = v.entries
           /\ v.kind = "manifest" => Cited(Object(v)) = {v.index} \cup v.index.entries
BY DEF Cited, Object, Categories

\* The two receipts of an attempt, by their ordinals.
LEMMA ReceiptForms ==
    ASSUME NEW r
    PROVE  /\ FirstReceipt(r) =>
                /\ r.kind = "receipt" /\ r.ordinal = 0 /\ r.previous = None
                /\ ReceiptObject(r) = Envelope(r.key)
           /\ LastReceipt(r) =>
                /\ r.kind = "receipt" /\ r.ordinal = 1
                /\ ReceiptObject(r) = Reference(r.inventory, r.key)
<1>1. ASSUME FirstReceipt(r)
      PROVE  /\ r.kind = "receipt" /\ r.ordinal = 0 /\ r.previous = None
             /\ ReceiptObject(r) = Envelope(r.key)
  <2>1. r = Receipt(r.run, r.inventory, r.key, 0, r.how, None)
    BY <1>1 DEF FirstReceipt
  <2>2. /\ Receipt(r.run, r.inventory, r.key, 0, r.how, None).kind = "receipt"
        /\ Receipt(r.run, r.inventory, r.key, 0, r.how, None).ordinal = 0
        /\ Receipt(r.run, r.inventory, r.key, 0, r.how, None).previous = None
    BY DEF Receipt
  <2>3. r.kind = "receipt" /\ r.ordinal = 0 /\ r.previous = None
    BY <2>1, <2>2
  <2> QED BY <2>3 DEF ReceiptObject
<1>2. ASSUME LastReceipt(r)
      PROVE  /\ r.kind = "receipt" /\ r.ordinal = 1
             /\ ReceiptObject(r) = Reference(r.inventory, r.key)
  <2>1. r = Receipt(r.run, r.inventory, r.key, 1, r.how, r.previous)
    BY <1>2 DEF LastReceipt
  <2>2. /\ Receipt(r.run, r.inventory, r.key, 1, r.how, r.previous).kind = "receipt"
        /\ Receipt(r.run, r.inventory, r.key, 1, r.how, r.previous).ordinal = 1
    BY DEF Receipt
  <2>3. r.kind = "receipt" /\ r.ordinal = 1
    BY <2>1, <2>2
  <2> QED BY <2>3 DEF ReceiptObject
<1> QED BY <1>1, <1>2

\* A sequence and what is left of it after its first element.
LEMMA TailOf ==
    ASSUME NEW s, s \in Seq(Range(s)), s # <<>>
    PROVE  /\ Head(s) = s[1] /\ 1 \in DOMAIN s
           /\ DOMAIN s = 1..Len(s) /\ Len(s) \in Nat \ {0}
           /\ Tail(s) \in Seq(Range(Tail(s)))
           /\ DOMAIN Tail(s) = 1..(Len(s) - 1)
           /\ \A n \in DOMAIN Tail(s) : n + 1 \in DOMAIN s /\ Tail(s)[n] = s[n + 1]
           /\ Range(Tail(s)) \subseteq Range(s)
<1> DEFINE t == Tail(s)
<1>1. /\ Head(s) = s[1] /\ 1 \in DOMAIN s /\ DOMAIN s = 1..Len(s) /\ Len(s) \in Nat \ {0}
      /\ t \in Seq(Range(s)) /\ DOMAIN t = 1..(Len(s) - 1) /\ Len(t) = Len(s) - 1
      /\ \A n \in DOMAIN t : n + 1 \in DOMAIN s /\ t[n] = s[n + 1]
  <2>1. Len(s) \in Nat /\ DOMAIN s = 1..Len(s)
    BY LenProperties
  <2>2. Len(s) # 0
    BY EmptySeq
  <2>3. Head(s) = s[1]
    BY HeadTailProperties
  <2>4. t \in Seq(Range(s)) /\ Len(t) = Len(s) - 1 /\ \A n \in 1..Len(t) : t[n] = s[n + 1]
    BY HeadTailProperties
  <2>5. DOMAIN t = 1..Len(t)
    BY <2>4, LenProperties
  <2> QED BY <2>1, <2>2, <2>3, <2>4, <2>5
<1>2. t \in Seq(Range(t))
  BY <1>1, SeqOfRange
<1>3. Range(t) \subseteq Range(s)
  BY <1>1 DEF Range
<1> QED BY <1>1, <1>2, <1>3

-----------------------------------------------------------------------------
(* What a step keeps.                                                      *)

\* What is durable stays so, and what was unclaimed.
Grows == Durable \subseteq Durable' /\ \A v : Unclaimed(v) => Unclaimed(v)'

\* What is said of claims and receipts stays true.
LEMMA GrowsKeeps ==
    ASSUME Grows
    PROVE  /\ \A v : ClaimOn(v) => ClaimOn(v)'
           /\ \A r : Told(r) => Told(r)'
           /\ \A v : Genuine(v) => Genuine(v)'
<1>1. ASSUME NEW v, ClaimOn(v) PROVE ClaimOn(v)'
  BY <1>1 DEF Grows, ClaimOn
<1>2. ASSUME NEW r, Told(r) PROVE Told(r)'
  BY <1>2 DEF Grows, Told
<1>3. ASSUME NEW v, Genuine(v) PROVE Genuine(v)'
  BY <1>2, <1>3 DEF Genuine
<1> QED BY <1>1, <1>2, <1>3

\* A path that is taken stays so while nothing is lost.
LEMMA StaysTaken ==
    ASSUME visible \subseteq visible'
    PROVE  \A f : Taken(f) => Taken(f)'
BY DEF Taken

\* A worker whose plan and memory stay relies on what it relied on.
LEMMA OtherWorker ==
    ASSUME NEW w \in Workers, Grows, PlanInv(w), MemoryInv(w), WorkerType(w),
           step'[w] = "flush" => plan[w] # <<>> /\ Taken(Head(plan[w]))',
           job' = job, plan'[w] = plan[w], stage'[w] = stage[w],
           left'[w] = left[w], previous'[w] = previous[w], owned'[w] = owned[w],
           receipts'[w] = receipts[w], shard'[w] = shard[w]
    PROVE  PlanInv(w)' /\ MemoryInv(w)' /\ WorkerType(w)'
<1>1. /\ Current(w)' = Current(w) /\ CurrentClaim(w)' = CurrentClaim(w)
      /\ ShardIndex(w)' = ShardIndex(w)
  BY DEF Current, CurrentClaim, Owner, ShardIndex
<1>2. ASSUME NEW v, Coming(v, plan[w]) PROVE Coming(v, plan[w])'
  BY <1>2 DEF Coming, Grows
<1>3. Answered(w) => Answered(w)'
  BY <1>1 DEF Answered, Grows
<1>4. ASSUME NEW r, FirstOf(w, r) PROVE FirstOf(w, r)'
  BY <1>4, GrowsKeeps DEF FirstOf
<1>5. PlanInv(w)'
  <2>1. Orderly(plan[w])'
    BY DEF PlanInv, Orderly, Grows
  <2>2. (step[w] = "flush" => plan[w] # <<>> /\ Taken(Head(plan[w])))'
    BY DEF Taken
  <2>3. ASSUME NEW n \in DOMAIN plan[w], plan[w][n].at = "claim"
        PROVE  (n = 1 /\ stage[w] \in {"envelope", "reference"} /\ plan[w][n] = CurrentClaim(w))'
    BY <1>1, <2>3 DEF PlanInv
  <2>4. ASSUME NEW n \in DOMAIN plan[w], plan[w][n].at = "object",
               plan[w][n].of.kind \in {"envelope", "reference"}
        PROVE  (\/ ClaimOn(plan[w][n].of) \/ Unclaimed(plan[w][n].of)
                \/ \E m \in 1..(n - 1) : plan[w][m].at = "claim" /\ plan[w][m].of = plan[w][n].of)'
    BY <2>4, GrowsKeeps DEF PlanInv, Grows
  <2> QED BY <2>1, <2>2, <2>3, <2>4 DEF PlanInv
<1>6. MemoryInv(w)'
  <2>1. ASSUME stage[w] = "enveloped"
        PROVE  (FirstOf(w, previous[w]) /\ Coming(previous[w], plan[w])
                /\ Object(Envelope(Head(left[w]))) \in Durable)'
    BY <1>2, <1>4, <2>1 DEF MemoryInv, Grows
  <2>2. ASSUME stage[w] = "reference"
        PROVE  (FirstOf(w, previous[w]) /\ Object(previous[w]) \in Durable
                /\ Coming(Reference(job[w].inventory, Head(left[w])), plan[w]))'
    BY <1>2, <1>4, <2>2 DEF MemoryInv, Grows
  <2>3. (stage[w] = "envelope" => Coming(Envelope(Head(left[w])), plan[w]))'
    BY <1>2 DEF MemoryInv
  <2>4. (stage[w] = "indexed" => Coming(ShardIndex(w), plan[w]))'
    BY <1>1, <1>2 DEF MemoryInv
  <2>5. (\A r \in receipts[w] : LastReceipt(r) /\ Coming(r, plan[w]))'
    BY <1>2 DEF MemoryInv, LastReceipt, FirstReceipt
  <2> QED BY <1>3, <2>1, <2>2, <2>3, <2>4, <2>5 DEF MemoryInv
<1>7. WorkerType(w)'
  BY DEF WorkerType
<1> QED BY <1>5, <1>6, <1>7

\* A worker whose plan is empty takes up new files: nothing else changes but
\* what is pending, which gets less, and what the worker remembers.
Plans(w, files) ==
    /\ plan[w] = <<>> /\ plan' = [plan EXCEPT ![w] = files]
    /\ visible' = visible /\ pending' \subseteq pending
    /\ job' = job /\ temps' = temps /\ step' = step /\ failures' = failures
    /\ \A x \in Workers \ {w} :
          /\ stage'[x] = stage[x] /\ left'[x] = left[x] /\ previous'[x] = previous[x]
          /\ owned'[x] = owned[x] /\ receipts'[x] = receipts[x] /\ shard'[x] = shard[x]

\* All but what the worker w relies on.
Rest(w) ==
    /\ pending' \subseteq visible' /\ temps' \subseteq Workers /\ failures' \in Nat
    /\ step' \in [Workers -> {"look", "link", "flush"}]
    /\ plan' = [x \in Workers |-> plan'[x]]
    /\ CitedIsDurable' /\ ContentInv' /\ ClaimInv'
    /\ \A x \in Workers \ {w} : PlanInv(x)' /\ MemoryInv(x)' /\ WorkerType(x)'

\* The files are genuine and claim nothing that was there without a claim.
LEMMA NewPlan ==
    ASSUME PublicationInv, NEW w \in Workers, NEW files, Plans(w, files),
           files \in Seq(Range(files)),
           \A n \in DOMAIN files : /\ files[n].at = "claim" => ~Unclaimed(files[n].of)
                                   /\ files[n].at = "object" => Genuine(files[n].of)'
    PROVE  /\ Grows
           /\ Rest(w) /\ plan'[w] = files /\ step[w] # "flush"
<1>1. /\ plan' = [x \in Workers |-> plan'[x]] /\ plan'[w] = files
      /\ \A x \in Workers \ {w} : plan'[x] = plan[x]
      /\ step[w] # "flush"
  BY DEF Plans, PublicationInv, PublicationType, PlanInv
<1>2. Durable \subseteq Durable'
  BY DEF Durable, Plans
<1>3. ASSUME NEW v, Unclaimed(v) PROVE Unclaimed(v)'
  <2>1. \A n \in DOMAIN files : files[n].at = "claim" => files[n].of # v
    BY <1>3
  <2>2. \A x \in Workers : \A n \in DOMAIN plan'[x] : plan'[x][n].at = "claim" => plan'[x][n].of # v
    BY <1>1, <1>3, <2>1 DEF Unclaimed
  <2> QED BY <1>2, <1>3, <2>2 DEF Unclaimed, Plans
<1>4. Grows
  BY <1>2, <1>3 DEF Grows
<1>5. CitedIsDurable'
  BY <1>2 DEF PublicationInv, CitedIsDurable, Durable, Plans
<1>6. ContentInv'
  <2> SUFFICES ASSUME NEW f \in Files', f.at = "object" PROVE Genuine(f.of)'
    BY DEF ContentInv
  <2>1. f \in Files \/ f \in Range(files)
    BY <1>1 DEF Files, Plans
  <2>2. CASE f \in Files
    BY <1>4, <2>2, GrowsKeeps DEF ContentInv, PublicationInv
  <2>3. CASE f \in Range(files)
    BY <2>3 DEF Range
  <2> QED BY <2>1, <2>2, <2>3
<1>7. ClaimInv'
  <2>1. \A f, g \in visible' : f.at = "claim" /\ SamePath(f, g) => f = g
    BY DEF Plans, PublicationInv, ClaimInv
  <2>2. ASSUME NEW f \in visible', f.at = "object", f.of.kind \in {"envelope", "reference"}
        PROVE  ClaimOn(f.of)' \/ Unclaimed(f.of)'
    BY <1>3, <1>4, <2>2, GrowsKeeps DEF Plans, PublicationInv, ClaimInv
  <2> QED BY <2>1, <2>2 DEF ClaimInv
<1>8. ASSUME NEW x \in Workers \ {w} PROVE PlanInv(x)' /\ MemoryInv(x)' /\ WorkerType(x)'
  <2>1. step'[x] = "flush" => plan[x] # <<>> /\ Taken(Head(plan[x]))'
    BY StaysTaken DEF Plans, PublicationInv, PlanInv
  <2> QED BY <1>1, <1>4, <2>1, OtherWorker DEF Plans, PublicationInv, PublicationType
<1> QED BY <1>1, <1>4, <1>5, <1>6, <1>7, <1>8 DEF Rest, Plans, PublicationInv, PublicationType

\* Plans of one, two and three files.
LEMMA ShortPlans ==
    /\ \A a : <<a>> \in Seq(Range(<<a>>)) /\ DOMAIN <<a>> = {1} /\ <<a>>[1] = a
    /\ \A a, b : /\ <<a, b>> \in Seq(Range(<<a, b>>)) /\ DOMAIN <<a, b>> = {1, 2}
                 /\ <<a, b>>[1] = a /\ <<a, b>>[2] = b
    /\ \A a, b, c : /\ <<a, b, c>> \in Seq(Range(<<a, b, c>>)) /\ DOMAIN <<a, b, c>> = {1, 2, 3}
                    /\ <<a, b, c>>[1] = a /\ <<a, b, c>>[2] = b /\ <<a, b, c>>[3] = c
<1>1. ASSUME NEW a
      PROVE  <<a>> \in Seq(Range(<<a>>)) /\ DOMAIN <<a>> = {1} /\ <<a>>[1] = a
  <2>1. <<a>> \in Seq({a})
    OBVIOUS
  <2>2. DOMAIN <<a>> = {1} /\ <<a>>[1] = a
    OBVIOUS
  <2>3. \A S, s : s \in Seq(S) => s \in Seq(Range(s))
    BY SeqOfRange
  <2> QED BY <2>1, <2>2, <2>3
<1>2. ASSUME NEW a, NEW b
      PROVE  /\ <<a, b>> \in Seq(Range(<<a, b>>)) /\ DOMAIN <<a, b>> = {1, 2}
             /\ <<a, b>>[1] = a /\ <<a, b>>[2] = b
  <2>1. <<a, b>> \in Seq({a, b})
    OBVIOUS
  <2>2. DOMAIN <<a, b>> = {1, 2} /\ <<a, b>>[1] = a /\ <<a, b>>[2] = b
    OBVIOUS
  <2>3. \A S, s : s \in Seq(S) => s \in Seq(Range(s))
    BY SeqOfRange
  <2> QED BY <2>1, <2>2, <2>3
<1>3. ASSUME NEW a, NEW b, NEW c
      PROVE  /\ <<a, b, c>> \in Seq(Range(<<a, b, c>>)) /\ DOMAIN <<a, b, c>> = {1, 2, 3}
             /\ <<a, b, c>>[1] = a /\ <<a, b, c>>[2] = b /\ <<a, b, c>>[3] = c
  <2>1. <<a, b, c>> \in Seq({a, b, c})
    OBVIOUS
  <2>2. /\ DOMAIN <<a, b, c>> = {1, 2, 3}
        /\ <<a, b, c>>[1] = a /\ <<a, b, c>>[2] = b /\ <<a, b, c>>[3] = c
    OBVIOUS
  <2>3. \A S, s : s \in Seq(S) => s \in Seq(Range(s))
    BY SeqOfRange
  <2> QED BY <2>1, <2>2, <2>3
<1> QED BY <1>1, <1>2, <1>3

-----------------------------------------------------------------------------
(* The steps of a completion.                                              *)

\* An object is claimed unless it was there before any claim.
LEMMA Claims ==
    ASSUME PublicationInv, NEW v, NEW o, v.kind \in {"envelope", "reference"}
    PROVE  \/ ClaimAndPublish(v, o) = <<Object(v)>> /\ Unclaimed(v)
           \/ ClaimAndPublish(v, o) = <<Claim(v, o), Object(v)>> /\ ~Unclaimed(v)
<1>1. Claimed(v) <=> \E g \in visible : g.at = "claim" /\ g.of = v
  BY FileFields DEF Claimed, Taken
<1>2. CASE Readable(v) /\ ~Claimed(v)
  <2>1. ClaimOn(v) \/ Unclaimed(v)
    BY <1>2, FileFields DEF Readable, PublicationInv, ClaimInv
  <2>2. ~ClaimOn(v)
    BY <1>1, <1>2 DEF ClaimOn, Durable
  <2> QED BY <1>2, <2>1, <2>2 DEF ClaimAndPublish
<1>3. CASE ~(Readable(v) /\ ~Claimed(v))
  BY <1>1, <1>3 DEF ClaimAndPublish, Unclaimed, Readable, Durable
<1> QED BY <1>2, <1>3

\* Claiming an object and publishing it, with all it cites durable.
LEMMA ClaimAndPublishStep ==
    ASSUME PublicationInv, NEW w \in Workers, NEW v, v = Current(w)', NEW o,
           Claim(v, o) = CurrentClaim(w)',
           v.kind \in {"envelope", "reference"}, stage'[w] \in {"envelope", "reference"},
           Plans(w, ClaimAndPublish(v, o)), owned'[w] = FALSE,
           \A u \in Cited(Object(v)) \cup Cited(Claim(v, o)) : Object(u) \in Durable
    PROVE  /\ PlanInv(w)' /\ Coming(v, plan[w])' /\ plan'[w] \in Seq(Range(plan'[w]))
           /\ (\A n \in DOMAIN plan'[w] : plan'[w][n].at # "claim") => Answered(w)'
           /\ Grows
           /\ Rest(w)
<1>0. PICK files : files = ClaimAndPublish(v, o)
  OBVIOUS
<1>f. /\ Object(v).at = "object" /\ Object(v).of = v
      /\ Claim(v, o).at = "claim" /\ Claim(v, o).of = v
  BY FileFields
<1>1. Genuine(v)'
  BY DEF Genuine
<1>2. CASE files = <<Object(v)>> /\ Unclaimed(v)
  <2>1. /\ files \in Seq(Range(files)) /\ DOMAIN files = {1} /\ files[1] = Object(v)
    BY <1>2, ShortPlans
  <2>2. \A n \in DOMAIN files : /\ files[n].at = "claim" => ~Unclaimed(files[n].of)
                                /\ files[n].at = "object" => Genuine(files[n].of)'
    BY <1>1, <2>1, <1>f
  <2>3. /\ Grows /\ plan'[w] = files /\ step[w] # "flush"
        /\ Rest(w)
    <3>1. Plans(w, files)
      BY <1>0
    <3> QED BY <2>1, <2>2, <3>1, NewPlan
  <2>4. Unclaimed(v)'
    BY <1>2, <2>3 DEF Grows
  <2>5. \A n \in DOMAIN plan'[w] : n = 1 /\ plan'[w][n] = Object(v) /\ plan'[w][n].at = "object"
    BY <2>1, <2>3, <1>f
  <2>6. PlanInv(w)'
    <3>1. Orderly(plan[w])'
      BY <2>3, <2>5 DEF Orderly, Grows
    <3>2. step'[w] # "flush"
      BY <2>3 DEF Plans
    <3> QED BY <2>4, <2>5, <3>1, <3>2, <1>f DEF PlanInv
  <2>7. Answered(w)'
    BY <2>4 DEF Answered
  <2>8. Coming(v, plan[w])'
    BY <2>1, <2>3 DEF Coming
  <2> QED BY <2>1, <2>3, <2>6, <2>7, <2>8
<1>3. CASE files = <<Claim(v, o), Object(v)>> /\ ~Unclaimed(v)
  <2>1. /\ files \in Seq(Range(files)) /\ DOMAIN files = {1, 2}
        /\ files[1] = Claim(v, o) /\ files[2] = Object(v)
    BY <1>3, ShortPlans
  <2>2. \A n \in DOMAIN files : /\ files[n].at = "claim" => ~Unclaimed(files[n].of)
                                /\ files[n].at = "object" => Genuine(files[n].of)'
    BY <1>1, <1>3, <2>1, <1>f
  <2>3. /\ Grows /\ plan'[w] = files /\ step[w] # "flush"
        /\ Rest(w)
    <3>1. Plans(w, files)
      BY <1>0
    <3> QED BY <2>1, <2>2, <3>1, NewPlan
  <2>4. /\ plan'[w][1] = Claim(v, o) /\ plan'[w][1].at = "claim" /\ plan'[w][1].of = v
        /\ plan'[w][2] = Object(v) /\ plan'[w][2].at = "object" /\ plan'[w][2].of = v
        /\ DOMAIN plan'[w] = {1, 2}
    BY <2>1, <2>3, <1>f
  <2>5. PlanInv(w)'
    <3>1. Orderly(plan[w])'
      BY <2>3, <2>4 DEF Orderly, Grows
    <3>2. step'[w] # "flush"
      BY <2>3 DEF Plans
    <3>3. 1 \in 1..(2 - 1)
      OBVIOUS
    <3> QED BY <2>4, <3>1, <3>2, <3>3 DEF PlanInv
  <2>6. Coming(v, plan[w])'
    BY <2>4 DEF Coming
  <2> QED BY <2>1, <2>3, <2>4, <2>5, <2>6
<1> QED BY <1>0, <1>2, <1>3, Claims

\* The worker and all others are as they have to be.
LEMMA Assemble ==
    ASSUME NEW w \in Workers, PublicationInv,
           Rest(w),
           stage' \in [Workers -> Stages], owned' \in [Workers -> BOOLEAN], shard' \in [Workers -> Nat],
           left' = [x \in Workers |-> left'[x]],
           previous' = [x \in Workers |-> previous'[x]], receipts' = [x \in Workers |-> receipts'[x]],
           PlanInv(w)', MemoryInv(w)', WorkerType(w)'
    PROVE  PublicationInv'
BY DEF Rest, PublicationInv, PublicationType

\* A worker starts on an attempt: the plan of its envelope.
LEMMA PublishEnvelopeStep ==
    ASSUME NEW w \in Workers, PublicationInv, PublishEnvelope(w)
    PROVE  PublicationInv'
<1>0. PICK v, o : v = Envelope(Head(left[w])) /\ o = Owner(w, Head(left[w]))
  OBVIOUS
<1>1. /\ stage' = [stage EXCEPT ![w] = "envelope"] /\ owned' = [owned EXCEPT ![w] = FALSE]
      /\ stage[w] = "working" /\ left[w] # <<>> /\ previous[w] = None
      /\ UNCHANGED <<left, previous, receipts, shard, job>>
      /\ stage \in [Workers -> Stages] /\ owned \in [Workers -> BOOLEAN]
  BY DEF PublishEnvelope, Ready, Goto, PublicationInv, PublicationType, MemoryInv
<1>2. stage'[w] = "envelope" /\ owned'[w] = FALSE
  BY <1>1
<1>3. Plans(w, ClaimAndPublish(v, o))
  BY <1>0, <1>1 DEF PublishEnvelope, Ready, Goto, Plans
<1>4. v = Current(w)' /\ Claim(v, o) = CurrentClaim(w)'
  BY <1>0, <1>1, <1>2 DEF Current, CurrentClaim, Owner
<1>5. v.kind = "envelope" /\ Cited(Object(v)) = {} /\ Cited(Claim(v, o)) = {}
  BY <1>0, <1>1, CompletionCites, ClaimCites DEF Owner
<1>6. /\ PlanInv(w)' /\ Coming(v, plan[w])' /\ plan'[w] \in Seq(Range(plan'[w]))
      /\ (\A n \in DOMAIN plan'[w] : plan'[w][n].at # "claim") => Answered(w)'
      /\ Grows
      /\ Rest(w)
  BY <1>2, <1>3, <1>4, <1>5, ClaimAndPublishStep
<1>7. MemoryInv(w)'
  <2>1. \A r \in receipts'[w] : LastReceipt(r)' /\ Coming(r, plan[w])'
    BY <1>1, <1>3, <1>6 DEF PublicationInv, MemoryInv, Coming, Grows, Plans, LastReceipt, FirstReceipt
  <2> QED BY <1>0, <1>1, <1>2, <1>6, <2>1 DEF MemoryInv, Coming
<1>8. WorkerType(w)'
  BY <1>1, <1>6 DEF WorkerType, PublicationInv, PublicationType
<1>9. /\ stage' \in [Workers -> Stages] /\ owned' \in [Workers -> BOOLEAN] /\ shard' \in [Workers -> Nat]
      /\ left' = [x \in Workers |-> left'[x]] /\ previous' = [x \in Workers |-> previous'[x]]
      /\ receipts' = [x \in Workers |-> receipts'[x]]
  BY <1>1 DEF PublicationInv, PublicationType, Stages
<1> QED BY <1>6, <1>7, <1>8, <1>9, Assemble

\* A plan without claims, nor anything that is claimed.
LEMMA PlainPlan ==
    ASSUME PublicationInv, NEW w \in Workers, NEW files, Plans(w, files),
           files \in Seq(Range(files)), Orderly(files),
           \A n \in DOMAIN files :
              /\ files[n].at # "claim"
              /\ files[n].at = "object" =>
                    Genuine(files[n].of) /\ files[n].of.kind \notin {"envelope", "reference"}
    PROVE  /\ Grows /\ PlanInv(w)' /\ plan'[w] = files
           /\ Rest(w)
<1>0. Grows
  <2>1. Durable \subseteq Durable'
    BY DEF Plans, Durable
  <2>2. ASSUME NEW v, Unclaimed(v) PROVE Unclaimed(v)'
    <3>1. \A x \in Workers : plan'[x] = plan[x] \/ plan'[x] = files
      BY DEF Plans, PublicationInv, PublicationType
    <3>2. \A x \in Workers : \A n \in DOMAIN plan'[x] : plan'[x][n].at = "claim" => plan'[x][n].of # v
      BY <2>2, <3>1 DEF Unclaimed
    <3> QED BY <2>1, <2>2, <3>2 DEF Unclaimed, Plans
  <2> QED BY <2>1, <2>2 DEF Grows
<1>1. /\ Grows
      /\ Rest(w) /\ plan'[w] = files /\ step[w] # "flush"
  BY <1>0, GrowsKeeps, NewPlan
<1>2. Orderly(files)'
  BY <1>1 DEF Orderly, Grows
<1>3. step'[w] # "flush"
  BY <1>1 DEF Plans
<1>4. PlanInv(w)'
  BY <1>1, <1>2, <1>3 DEF PlanInv
<1> QED BY <1>1, <1>4

\* A worker without a plan relies on durable files only.
LEMMA NothingPlanned ==
    ASSUME NEW w \in Workers, PublicationInv, plan[w] = <<>>
    PROVE  /\ \A v : Coming(v, plan[w]) => Object(v) \in Durable
           /\ \A r \in receipts[w] : LastReceipt(r) /\ Object(r) \in Durable
           /\ stage[w] \in {"envelope", "reference"} => Answered(w)
           /\ stage[w] \in {"envelope", "enveloped", "reference"} => left[w] # <<>>
           /\ stage[w] \notin {"enveloped", "reference"} => previous[w] = None
           /\ stage[w] = "envelope" => Object(Envelope(Head(left[w]))) \in Durable
           /\ stage[w] = "enveloped" =>
                /\ FirstOf(w, previous[w]) /\ Object(previous[w]) \in Durable
                /\ Object(Envelope(Head(left[w]))) \in Durable
           /\ stage[w] = "reference" =>
                /\ FirstOf(w, previous[w]) /\ Object(previous[w]) \in Durable
                /\ Object(Reference(job[w].inventory, Head(left[w]))) \in Durable
           /\ stage[w] = "indexed" => Object(ShardIndex(w)) \in Durable
<1>1. \A n \in DOMAIN plan[w] : FALSE
  OBVIOUS
<1>2. \A v : Coming(v, plan[w]) => Object(v) \in Durable
  BY <1>1 DEF Coming
<1>3. MemoryInv(w)
  BY DEF PublicationInv
<1> QED BY <1>1, <1>2, <1>3 DEF MemoryInv

\* The receipt says how the claim was answered.
LEMMA ReceiptIsTold ==
    ASSUME NEW w \in Workers, NEW n \in {0, 1}, Answered(w),
           ReceiptObject(NextReceipt(w, n)) = Current(w)
    PROVE  Told(NextReceipt(w, n))
<1>1. /\ NextReceipt(w, n).run = job[w].run /\ NextReceipt(w, n).inventory = job[w].inventory
      /\ NextReceipt(w, n).key = Head(left[w]) /\ NextReceipt(w, n).previous = previous[w]
      /\ NextReceipt(w, n).how = IF owned[w] THEN "published" ELSE "existing"
  BY DEF NextReceipt, Receipt
<1>2. ClaimOf(NextReceipt(w, n)) = CurrentClaim(w)
  BY <1>1 DEF ClaimOf, CurrentClaim, Owner
<1> QED BY <1>1, <1>2 DEF Told, Answered

\* The first receipt of an attempt says how the claim on the envelope was answered.
LEMMA ReceiptEnvelopeStep ==
    ASSUME NEW w \in Workers, PublicationInv, ReceiptEnvelope(w)
    PROVE  PublicationInv'
<1>0. PICK r, f : r = NextReceipt(w, 0) /\ f = Object(r)
  OBVIOUS
<1>1. /\ stage' = [stage EXCEPT ![w] = "enveloped"] /\ previous' = [previous EXCEPT ![w] = r]
      /\ stage[w] = "envelope" /\ left[w] # <<>> /\ previous[w] = None /\ plan[w] = <<>>
      /\ UNCHANGED <<left, owned, receipts, shard, job>>
      /\ stage \in [Workers -> Stages] /\ previous = [x \in Workers |-> previous[x]]
      /\ Answered(w) /\ Object(Envelope(Head(left[w]))) \in Durable
      /\ \A q \in receipts[w] : LastReceipt(q) /\ Object(q) \in Durable
  BY <1>0, NothingPlanned DEF ReceiptEnvelope, Ready, Goto, PublicationInv, PublicationType
<1>2. stage'[w] = "enveloped" /\ previous'[w] = r
  BY <1>1
<1>3. Plans(w, <<f>>)
  BY <1>0, <1>1 DEF ReceiptEnvelope, Ready, Goto, Plans
<1>4. /\ r.kind = "receipt" /\ r.run = job[w].run /\ r.inventory = job[w].inventory
      /\ r.key = Head(left[w]) /\ r.ordinal = 0 /\ r.previous = None
      /\ r.how \in {"published", "existing"}
      /\ r = Receipt(r.run, r.inventory, r.key, 0, r.how, None)
  BY <1>0, <1>1 DEF NextReceipt, Receipt
<1>5. FirstReceipt(r) /\ ReceiptObject(r) = Envelope(Head(left[w]))
  BY <1>4 DEF FirstReceipt, ReceiptObject
<1>6. Told(r)
  BY <1>0, <1>1, <1>5, ReceiptIsTold DEF Current
<1>7. Cited(f) = {Envelope(Head(left[w]))}
  BY <1>0, <1>4, <1>5, ReceiptCites
<1>8. Genuine(r)
  BY <1>4, <1>5, <1>6 DEF Genuine
<1>9. /\ <<f>> \in Seq(Range(<<f>>)) /\ DOMAIN <<f>> = {1} /\ <<f>>[1] = f
      /\ f.at = "object" /\ f.of = r
  BY <1>0, ShortPlans, FileFields
<1>10. Orderly(<<f>>)
  BY <1>1, <1>7, <1>9 DEF Orderly
<1>11. /\ Grows /\ PlanInv(w)' /\ plan'[w] = <<f>>
       /\ Rest(w)
  BY <1>3, <1>4, <1>8, <1>9, <1>10, PlainPlan
<1>12. Told(r)'
  BY <1>6, <1>11, GrowsKeeps
<1>13. MemoryInv(w)'
  <2>1. \A q \in receipts'[w] : LastReceipt(q)' /\ Coming(q, plan[w])'
    BY <1>1, <1>11 DEF Coming, Grows, LastReceipt, FirstReceipt
  <2>2. FirstOf(w, previous[w])'
    BY <1>1, <1>2, <1>4, <1>5, <1>12 DEF FirstOf, FirstReceipt
  <2>3. Coming(previous[w], plan[w])'
    BY <1>0, <1>2, <1>9, <1>11 DEF Coming
  <2>4. (Object(Envelope(Head(left[w]))) \in Durable)'
    BY <1>1, <1>11 DEF Grows
  <2> QED BY <1>1, <1>2, <2>1, <2>2, <2>3, <2>4 DEF MemoryInv
<1>14. WorkerType(w)'
  BY <1>1, <1>9, <1>11 DEF WorkerType, PublicationInv, PublicationType
<1>15. /\ stage' \in [Workers -> Stages] /\ owned' \in [Workers -> BOOLEAN] /\ shard' \in [Workers -> Nat]
       /\ left' = [x \in Workers |-> left'[x]] /\ previous' = [x \in Workers |-> previous'[x]]
       /\ receipts' = [x \in Workers |-> receipts'[x]]
  BY <1>1 DEF PublicationInv, PublicationType, Stages
<1> QED BY <1>11, <1>13, <1>14, <1>15, Assemble

\* The reference cites the envelope, which is durable by now.
LEMMA PublishReferenceStep ==
    ASSUME NEW w \in Workers, PublicationInv, PublishReference(w)
    PROVE  PublicationInv'
<1>0. PICK v, o : v = Reference(job[w].inventory, Head(left[w])) /\ o = Owner(w, Head(left[w]))
  OBVIOUS
<1>1. /\ stage' = [stage EXCEPT ![w] = "reference"] /\ owned' = [owned EXCEPT ![w] = FALSE]
      /\ stage[w] = "enveloped" /\ left[w] # <<>> /\ plan[w] = <<>>
      /\ UNCHANGED <<left, previous, receipts, shard, job>>
      /\ stage \in [Workers -> Stages] /\ owned \in [Workers -> BOOLEAN]
      /\ FirstOf(w, previous[w]) /\ Object(previous[w]) \in Durable
      /\ Object(Envelope(Head(left[w]))) \in Durable
      /\ \A q \in receipts[w] : LastReceipt(q) /\ Object(q) \in Durable
  BY NothingPlanned DEF PublishReference, Ready, Goto, PublicationInv, PublicationType
<1>2. stage'[w] = "reference" /\ owned'[w] = FALSE
  BY <1>1
<1>3. Plans(w, ClaimAndPublish(v, o))
  BY <1>0, <1>1 DEF PublishReference, Ready, Goto, Plans
<1>4. v = Current(w)' /\ Claim(v, o) = CurrentClaim(w)'
  BY <1>0, <1>1, <1>2 DEF Current, CurrentClaim, Owner
<1>5. /\ v.kind = "reference" /\ Cited(Object(v)) = {Envelope(Head(left[w]))}
      /\ Cited(Claim(v, o)) \subseteq {previous[w]}
  BY <1>0, <1>1, CompletionCites, ClaimCites DEF Owner
<1>6. /\ PlanInv(w)' /\ Coming(v, plan[w])' /\ plan'[w] \in Seq(Range(plan'[w]))
      /\ (\A n \in DOMAIN plan'[w] : plan'[w][n].at # "claim") => Answered(w)'
      /\ Grows
      /\ Rest(w)
  BY <1>1, <1>2, <1>3, <1>4, <1>5, ClaimAndPublishStep
<1>7. MemoryInv(w)'
  <2>1. \A q \in receipts'[w] : LastReceipt(q)' /\ Coming(q, plan[w])'
    BY <1>1, <1>6 DEF Coming, Grows, LastReceipt, FirstReceipt
  <2>2. FirstOf(w, previous[w])'
    BY <1>1, <1>6, GrowsKeeps DEF FirstOf, FirstReceipt
  <2>3. (Object(previous[w]) \in Durable)'
    BY <1>1, <1>6 DEF Grows
  <2>4. Coming(Reference(job[w].inventory, Head(left[w])), plan[w])'
    BY <1>0, <1>1, <1>6 DEF Coming
  <2> QED BY <1>1, <1>2, <1>6, <2>1, <2>2, <2>3, <2>4 DEF MemoryInv
<1>8. WorkerType(w)'
  BY <1>1, <1>6 DEF WorkerType, PublicationInv, PublicationType
<1>9. /\ stage' \in [Workers -> Stages] /\ owned' \in [Workers -> BOOLEAN] /\ shard' \in [Workers -> Nat]
      /\ left' = [x \in Workers |-> left'[x]] /\ previous' = [x \in Workers |-> previous'[x]]
      /\ receipts' = [x \in Workers |-> receipts'[x]]
  BY <1>1 DEF PublicationInv, PublicationType, Stages
<1> QED BY <1>6, <1>7, <1>8, <1>9, Assemble

\* The last receipt cites the first, and the worker leaves the attempt.
LEMMA ReceiptReferenceStep ==
    ASSUME NEW w \in Workers, PublicationInv, ReceiptReference(w)
    PROVE  PublicationInv'
<1>0. PICK r, f : r = NextReceipt(w, 1) /\ f = Object(r)
  OBVIOUS
<1>1. /\ stage' = [stage EXCEPT ![w] = "working"] /\ previous' = [previous EXCEPT ![w] = None]
      /\ left' = [left EXCEPT ![w] = Tail(left[w])]
      /\ receipts' = [receipts EXCEPT ![w] = receipts[w] \cup {r}]
      /\ stage[w] = "reference" /\ left[w] # <<>> /\ plan[w] = <<>>
      /\ UNCHANGED <<owned, shard, job>>
      /\ stage \in [Workers -> Stages] /\ previous = [x \in Workers |-> previous[x]]
      /\ left = [x \in Workers |-> left[x]] /\ receipts = [x \in Workers |-> receipts[x]]
      /\ Answered(w) /\ FirstOf(w, previous[w]) /\ Object(previous[w]) \in Durable
      /\ Object(Reference(job[w].inventory, Head(left[w]))) \in Durable
      /\ \A q \in receipts[w] : LastReceipt(q) /\ Object(q) \in Durable
  BY <1>0, NothingPlanned DEF ReceiptReference, Ready, Goto, PublicationInv, PublicationType
<1>2. /\ stage'[w] = "working" /\ previous'[w] = None /\ left'[w] = Tail(left[w])
      /\ receipts'[w] = receipts[w] \cup {r}
  BY <1>1
<1>3. Plans(w, <<f>>)
  BY <1>0, <1>1 DEF ReceiptReference, Ready, Goto, Plans
<1>4. /\ r.kind = "receipt" /\ r.run = job[w].run /\ r.inventory = job[w].inventory
      /\ r.key = Head(left[w]) /\ r.ordinal = 1 /\ r.previous = previous[w]
      /\ r.how \in {"published", "existing"}
      /\ r = Receipt(r.run, r.inventory, r.key, 1, r.how, r.previous)
  BY <1>0, <1>1 DEF NextReceipt, Receipt
<1>5. /\ left[w] \in Seq(Keys(job[w].inventory)) /\ job[w].inventory \in Inventories
      /\ Head(left[w]) \in Keys(job[w].inventory)
      /\ Tail(left[w]) \in Seq(Keys(job[w].inventory))
  <2>1. left[w] \in Seq(Keys(job[w].inventory)) /\ job[w].inventory \in Inventories
    BY DEF PublicationInv, PublicationType, WorkerType
  <2> QED BY <1>1, <2>1, HeadTailProperties
<1>6. LastReceipt(r) /\ ReceiptObject(r) = Reference(job[w].inventory, Head(left[w]))
  <2>1. FirstReceipt(previous[w])
    BY <1>1 DEF FirstOf
  <2>2. previous[w].run = r.run /\ previous[w].inventory = r.inventory /\ previous[w].key = r.key
    BY <1>1, <1>4 DEF FirstOf
  <2> QED BY <1>4, <1>5, <2>1, <2>2 DEF LastReceipt, ReceiptObject
<1>7. Told(r) /\ Told(r.previous)
  BY <1>0, <1>1, <1>4, <1>6, ReceiptIsTold DEF Current, FirstOf
<1>8. Genuine(r)
  BY <1>4, <1>6, <1>7 DEF Genuine
<1>9. Cited(f) \subseteq {Reference(job[w].inventory, Head(left[w])), previous[w]}
  BY <1>0, <1>4, <1>6, ReceiptCites
<1>10. /\ <<f>> \in Seq(Range(<<f>>)) /\ DOMAIN <<f>> = {1} /\ <<f>>[1] = f
       /\ f.at = "object" /\ f.of = r
  BY <1>0, ShortPlans, FileFields
<1>11. Orderly(<<f>>)
  BY <1>1, <1>9, <1>10 DEF Orderly
<1>12. /\ Grows /\ PlanInv(w)' /\ plan'[w] = <<f>>
       /\ Rest(w)
  BY <1>3, <1>4, <1>8, <1>10, <1>11, PlainPlan
<1>13. MemoryInv(w)'
  <2>1. ASSUME NEW q \in receipts[w] PROVE LastReceipt(q)' /\ Coming(q, plan[w])'
    BY <1>1, <1>12 DEF Coming, Grows, LastReceipt, FirstReceipt
  <2>2. LastReceipt(r)' /\ Coming(r, plan[w])'
    BY <1>0, <1>6, <1>10, <1>12 DEF Coming, LastReceipt, FirstReceipt
  <2>3. \A q \in receipts'[w] : LastReceipt(q)' /\ Coming(q, plan[w])'
    BY <1>2, <2>1, <2>2
  <2> QED BY <1>2, <2>3 DEF MemoryInv
<1>14. WorkerType(w)'
  BY <1>1, <1>2, <1>5, <1>10, <1>12 DEF WorkerType, PublicationInv, PublicationType
<1>15. /\ stage' \in [Workers -> Stages] /\ owned' \in [Workers -> BOOLEAN] /\ shard' \in [Workers -> Nat]
       /\ left' = [x \in Workers |-> left'[x]] /\ previous' = [x \in Workers |-> previous'[x]]
       /\ receipts' = [x \in Workers |-> receipts'[x]]
  BY <1>1 DEF PublicationInv, PublicationType, Stages
<1> QED BY <1>12, <1>13, <1>14, <1>15, Assemble

-----------------------------------------------------------------------------
(* The steps of a shard.                                                   *)

\* The entries of the index a worker writes are receipts it wrote.
LEMMA IndexOfShard ==
    ASSUME NEW w \in Workers, PublicationInv, plan[w] = <<>>
    PROVE  /\ ShardIndex(w).kind = "index" /\ ShardIndex(w).entries \subseteq receipts[w]
           /\ \A r \in ShardIndex(w).entries : LastReceipt(r) /\ Object(r) \in Durable
<1>1. ShardIndex(w).kind = "index" /\ ShardIndex(w).entries \subseteq receipts[w]
  BY DEF ShardIndex, Index
<1> QED BY <1>1, NothingPlanned

\* An index cites last receipts, which are durable.
LEMMA PublishIndexStep ==
    ASSUME NEW w \in Workers, PublicationInv, PublishIndex(w)
    PROVE  PublicationInv'
<1>0. PICK v, f, g : v = ShardIndex(w) /\ f = Object(v)
                     /\ g = Ref("indexes", job[w].inventory, shard[w], v)
  OBVIOUS
<1>1. /\ stage' = [stage EXCEPT ![w] = "indexed"]
      /\ stage[w] = "working" /\ plan[w] = <<>> /\ previous[w] = None
      /\ UNCHANGED <<left, previous, receipts, owned, shard, job>>
      /\ stage \in [Workers -> Stages]
      /\ \A q \in receipts[w] : LastReceipt(q) /\ Object(q) \in Durable
  BY NothingPlanned DEF PublishIndex, Ready, Goto, memory, PublicationInv, PublicationType
<1>2. stage'[w] = "indexed"
  BY <1>1
<1>3. Plans(w, <<f, g>>)
  BY <1>0, <1>1 DEF PublishIndex, Ready, Goto, Plans
<1>4. /\ v.kind = "index" /\ \A r \in v.entries : LastReceipt(r) /\ Object(r) \in Durable
  BY <1>0, <1>1, IndexOfShard
<1>5. Genuine(v)
  BY <1>4 DEF Genuine
<1>6. /\ <<f, g>> \in Seq(Range(<<f, g>>)) /\ DOMAIN <<f, g>> = {1, 2}
      /\ <<f, g>>[1] = f /\ <<f, g>>[2] = g
      /\ f.at = "object" /\ f.of = v
  BY <1>0, ShortPlans, FileFields
<1>7. /\ Cited(f) = v.entries /\ Cited(g) = {v} /\ g.at \notin {"object", "claim"}
  <2>1. Cited(f) = v.entries
    BY <1>0, <1>4, ShardCites
  <2>2. "indexes" \in Categories
    BY DEF Categories
  <2> QED BY <1>0, <2>1, <2>2, RefFields
<1>8. Orderly(<<f, g>>)
  <2>1. 1 \in 1..(2 - 1)
    OBVIOUS
  <2> QED BY <1>0, <1>4, <1>6, <1>7, <2>1 DEF Orderly
<1>9. Grows /\ PlanInv(w)' /\ plan'[w] = <<f, g>> /\ Rest(w)
  BY <1>3, <1>4, <1>5, <1>6, <1>7, <1>8, PlainPlan
<1>10. MemoryInv(w)'
  <2>1. \A q \in receipts'[w] : LastReceipt(q)' /\ Coming(q, plan[w])'
    BY <1>1, <1>9 DEF Coming, Grows, LastReceipt, FirstReceipt
  <2>2. Coming(ShardIndex(w), plan[w])'
    <3>1. ShardIndex(w)' = v
      BY <1>0, <1>1 DEF ShardIndex
    <3> QED BY <1>0, <1>6, <1>9, <3>1 DEF Coming
  <2> QED BY <1>1, <1>2, <2>1, <2>2 DEF MemoryInv
<1>11. WorkerType(w)'
  BY <1>1, <1>6, <1>9 DEF WorkerType, PublicationInv, PublicationType
<1>12. /\ stage' \in [Workers -> Stages] /\ owned' \in [Workers -> BOOLEAN] /\ shard' \in [Workers -> Nat]
       /\ left' = [x \in Workers |-> left'[x]] /\ previous' = [x \in Workers |-> previous'[x]]
       /\ receipts' = [x \in Workers |-> receipts'[x]]
  BY <1>1 DEF PublicationInv, PublicationType, Stages
<1> QED BY <1>9, <1>10, <1>11, <1>12, Assemble

\* A seal comes after the manifest, and the manifest cites what was flushed.
LEMMA SealShardStep ==
    ASSUME NEW w \in Workers, PublicationInv, SealShard(w)
    PROVE  PublicationInv'
<1>0. PICK m, f, g, h : /\ m = Manifest(ShardIndex(w)) /\ f = Object(m)
                        /\ g = Ref("manifests", job[w].inventory, shard[w], m)
                        /\ h = Ref("seals", job[w].inventory, shard[w], m)
  OBVIOUS
<1>1. /\ stage[w] = "indexed" /\ plan[w] = <<>> /\ previous[w] = None
      /\ UNCHANGED <<left, previous, receipts, owned, job>>
      /\ stage \in [Workers -> Stages] /\ shard \in [Workers -> Nat]
      /\ \A q \in receipts[w] : LastReceipt(q) /\ Object(q) \in Durable
      /\ Object(ShardIndex(w)) \in Durable
  BY NothingPlanned DEF SealShard, Ready, PublicationInv, PublicationType
<1>2. CASE Sealable(w)
  <2>1. /\ stage' = [stage EXCEPT ![w] = "working"] /\ shard' = [shard EXCEPT ![w] = shard[w] + 1]
        /\ stage'[w] = "working" /\ Plans(w, <<f, g, h>>)
    BY <1>0, <1>1, <1>2 DEF SealShard, Ready, Goto, Plans
  <2>2. /\ m.kind = "manifest" /\ m.index = ShardIndex(w)
        /\ m.index.kind = "index"
        /\ \A r \in m.index.entries : LastReceipt(r) /\ Object(r) \in Durable
    BY <1>0, <1>1, IndexOfShard DEF Manifest
  <2>3. Genuine(m)
    BY <2>2 DEF Genuine
  <2>4. /\ <<f, g, h>> \in Seq(Range(<<f, g, h>>)) /\ DOMAIN <<f, g, h>> = {1, 2, 3}
        /\ <<f, g, h>>[1] = f /\ <<f, g, h>>[2] = g /\ <<f, g, h>>[3] = h
        /\ f.at = "object" /\ f.of = m
    BY <1>0, ShortPlans, FileFields
  <2>5. /\ Cited(f) = {m.index} \cup m.index.entries /\ Cited(g) = {m} /\ Cited(h) = {m}
        /\ g.at \notin {"object", "claim"} /\ h.at \notin {"object", "claim"}
    <3>1. Cited(f) = {m.index} \cup m.index.entries
      BY <1>0, <2>2, ShardCites
    <3>2. "manifests" \in Categories /\ "seals" \in Categories
      BY DEF Categories
    <3> QED BY <1>0, <3>1, <3>2, RefFields
  <2>6. Orderly(<<f, g, h>>)
    <3>1. 1 \in 1..(2 - 1) /\ 1 \in 1..(3 - 1)
      OBVIOUS
    <3> QED BY <1>0, <1>1, <2>2, <2>4, <2>5, <3>1 DEF Orderly
  <2>7. Grows /\ PlanInv(w)' /\ plan'[w] = <<f, g, h>> /\ Rest(w)
    BY <2>1, <2>2, <2>3, <2>4, <2>5, <2>6, PlainPlan
  <2>8. MemoryInv(w)'
    <3>1. \A q \in receipts'[w] : LastReceipt(q)' /\ Coming(q, plan[w])'
      BY <1>1, <2>7 DEF Coming, Grows, LastReceipt, FirstReceipt
    <3> QED BY <1>1, <2>1, <3>1 DEF MemoryInv
  <2>9. WorkerType(w)'
    BY <1>1, <2>4, <2>7 DEF WorkerType, PublicationInv, PublicationType
  <2>10. /\ stage' \in [Workers -> Stages] /\ owned' \in [Workers -> BOOLEAN] /\ shard' \in [Workers -> Nat]
         /\ left' = [x \in Workers |-> left'[x]] /\ previous' = [x \in Workers |-> previous'[x]]
         /\ receipts' = [x \in Workers |-> receipts'[x]]
    BY <1>1, <2>1 DEF PublicationInv, PublicationType, Stages
  <2> QED BY <2>7, <2>8, <2>9, <2>10, Assemble
<1>3. CASE ~Sealable(w)
  <2>1. /\ stage' = [stage EXCEPT ![w] = "unresolved"] /\ shard' = shard
        /\ stage'[w] = "unresolved" /\ Plans(w, <<>>)
    BY <1>1, <1>3 DEF SealShard, Ready, Goto, Plans
  <2>2. /\ <<>> \in Seq(Range(<<>>)) /\ DOMAIN <<>> = {}
    <3>1. <<>> \in Seq({}) /\ DOMAIN <<>> = {}
      OBVIOUS
    <3> QED BY <3>1, SeqOfRange
  <2>3. Grows /\ PlanInv(w)' /\ plan'[w] = <<>> /\ Rest(w)
    BY <2>1, <2>2, PlainPlan DEF Orderly
  <2>4. MemoryInv(w)'
    <3>1. \A q \in receipts'[w] : LastReceipt(q)' /\ Coming(q, plan[w])'
      BY <1>1, <2>3 DEF Coming, Grows, LastReceipt, FirstReceipt
    <3> QED BY <1>1, <2>1, <3>1 DEF MemoryInv
  <2>5. WorkerType(w)'
    BY <1>1, <2>2, <2>3 DEF WorkerType, PublicationInv, PublicationType
  <2>6. /\ stage' \in [Workers -> Stages] /\ owned' \in [Workers -> BOOLEAN] /\ shard' \in [Workers -> Nat]
        /\ left' = [x \in Workers |-> left'[x]] /\ previous' = [x \in Workers |-> previous'[x]]
        /\ receipts' = [x \in Workers |-> receipts'[x]]
    BY <1>1, <2>1 DEF PublicationInv, PublicationType, Stages
  <2> QED BY <2>3, <2>4, <2>5, <2>6, Assemble
<1> QED BY <1>2, <1>3

-----------------------------------------------------------------------------
(* Installing a file.                                                      *)

\* A step that changes no plan and no memory keeps every worker's part.
LEMMA OnlyFiles ==
    ASSUME PublicationInv, Grows,
           UNCHANGED <<job, stage, plan, left, previous, owned, receipts, shard>>,
           \A x \in Workers : step'[x] = "flush" => plan[x] # <<>> /\ Taken(Head(plan[x]))',
           pending' \subseteq visible', temps' \subseteq Workers, failures' \in Nat,
           step' \in [Workers -> {"look", "link", "flush"}],
           CitedIsDurable', ContentInv', ClaimInv'
    PROVE  PublicationInv'
<1>1. \A x \in Workers : PlanInv(x)' /\ MemoryInv(x)' /\ WorkerType(x)'
  BY OtherWorker DEF PublicationInv, PublicationType
<1>2. PublicationType'
  BY <1>1 DEF PublicationInv, PublicationType, Stages
<1> QED BY <1>1, <1>2 DEF PublicationInv

\* Looking at a path changes no file.
LEMMA LookStep ==
    ASSUME NEW w \in Workers, PublicationInv, Look(w)
    PROVE  PublicationInv'
<1>1. /\ UNCHANGED <<visible, pending, failures, job, stage, plan, left, previous, owned, receipts, shard>>
      /\ temps' \subseteq Workers /\ step' \in [Workers -> {"look", "link", "flush"}]
      /\ step'[w] = "flush" => plan[w] # <<>> /\ Taken(Head(plan[w]))
      /\ \A x \in Workers \ {w} : step'[x] = step[x]
  BY DEF Look, memory, PublicationInv, PublicationType
<1>2. Grows
  BY <1>1 DEF Grows, Durable, Unclaimed
<1>3. \A x \in Workers : step'[x] = "flush" => plan[x] # <<>> /\ Taken(Head(plan[x]))'
  BY <1>1, StaysTaken DEF PublicationInv, PlanInv
<1>4. CitedIsDurable' /\ ContentInv' /\ ClaimInv'
  <2>1. CitedIsDurable'
    BY <1>1 DEF PublicationInv, CitedIsDurable
  <2>2. ContentInv'
    BY <1>1, <1>2, GrowsKeeps DEF PublicationInv, ContentInv, Files
  <2>3. ClaimInv'
    BY <1>1, <1>2, GrowsKeeps DEF PublicationInv, ClaimInv, Grows
  <2> QED BY <2>1, <2>2, <2>3
<1> QED BY <1>1, <1>2, <1>3, <1>4, OnlyFiles DEF PublicationInv, PublicationType

\* A file that is installed is the first of its plan: what it cites is durable.
LEMMA LinkStep ==
    ASSUME NEW w \in Workers, PublicationInv, Link(w)
    PROVE  PublicationInv'
<1>0. PICK f : f = Head(plan[w])
  OBVIOUS
<1>1. /\ UNCHANGED <<temps, failures, job, stage, plan, left, previous, owned, receipts, shard>>
      /\ step' = [step EXCEPT ![w] = "flush"] /\ plan[w] # <<>>
      /\ \/ Taken(f) /\ visible' = visible /\ pending' = pending
         \/ ~Taken(f) /\ visible' = visible \cup {f} /\ pending' = pending \cup {f}
  BY <1>0 DEF Link, memory
<1>2. /\ pending \subseteq visible /\ pending' \subseteq visible' /\ visible \subseteq visible'
      /\ step' \in [Workers -> {"look", "link", "flush"}]
      /\ temps' \subseteq Workers /\ failures' \in Nat
      /\ \A x \in Workers \ {w} : step'[x] = step[x]
  BY <1>1 DEF PublicationInv, PublicationType
<1>3. f = plan[w][1] /\ 1 \in DOMAIN plan[w]
  BY <1>0, <1>1, TailOf DEF PublicationInv, PublicationType, WorkerType
<1>4. SamePath(f, f)
  BY DEF SamePath
<1>5. Durable' = Durable
  BY <1>1, <1>4 DEF Durable, Taken
<1>6. Grows
  <2>1. ASSUME NEW v, Unclaimed(v) PROVE Unclaimed(v)'
    <3>1. f.at = "claim" => f.of # v
      BY <1>3, <2>1 DEF Unclaimed
    <3> QED BY <1>1, <1>5, <2>1, <3>1 DEF Unclaimed
  <2> QED BY <1>5, <2>1 DEF Grows
<1>7. \A x \in Workers : step'[x] = "flush" => plan[x] # <<>> /\ Taken(Head(plan[x]))'
  <2>1. Taken(f)'
    BY <1>1, <1>4 DEF Taken
  <2> QED BY <1>0, <1>1, <1>2, <2>1, StaysTaken DEF PublicationInv, PlanInv
<1>8. CitedIsDurable'
  <2>1. \A v \in Cited(f) : Object(v) \in Durable
    <3>1. 1..(1 - 1) = {}
      OBVIOUS
    <3> QED BY <1>3, <3>1 DEF PublicationInv, PlanInv, Orderly
  <2>2. \A g \in visible' : \A v \in Cited(g) : Object(v) \in Durable
    BY <1>1, <2>1 DEF PublicationInv, CitedIsDurable, Durable
  <2> QED BY <1>5, <2>2 DEF CitedIsDurable, Durable
<1>9. ContentInv'
  <2>1. Files' \subseteq Files
    BY <1>1, <1>3 DEF Files, Range
  <2> QED BY <1>6, <2>1, GrowsKeeps DEF PublicationInv, ContentInv
<1>10. ClaimInv'
  <2>1. ASSUME NEW g \in visible', NEW h \in visible', g.at = "claim", SamePath(g, h) PROVE g = h
    <3>1. CASE g \in visible /\ h \in visible
      BY <2>1, <3>1 DEF PublicationInv, ClaimInv
    <3>2. CASE ~Taken(f) /\ g = f /\ h # f
      BY <1>1, <2>1, <3>2 DEF Taken
    <3>3. CASE ~Taken(f) /\ h = f /\ g # f
      BY <1>1, <2>1, <3>3 DEF Taken, SamePath
    <3> QED BY <1>1, <3>1, <3>2, <3>3
  <2>2. ASSUME NEW g \in visible', g.at = "object", g.of.kind \in {"envelope", "reference"}
        PROVE  ClaimOn(g.of) \/ Unclaimed(g.of)
    <3>1. CASE g \in visible
      BY <2>2, <3>1 DEF PublicationInv, ClaimInv
    <3>2. CASE g = f
      <4>1. 1..(1 - 1) = {}
        OBVIOUS
      <4> QED BY <1>3, <2>2, <3>2, <4>1 DEF PublicationInv, PlanInv
    <3> QED BY <1>1, <3>1, <3>2
  <2>3. \A g \in visible' : g.at = "object" /\ g.of.kind \in {"envelope", "reference"} => ClaimOn(g.of)' \/ Unclaimed(g.of)'
    BY <1>6, <2>2, GrowsKeeps DEF Grows
  <2> QED BY <2>1, <2>3 DEF ClaimInv
<1> QED BY <1>1, <1>2, <1>6, <1>7, <1>8, <1>9, <1>10, OnlyFiles

\* The directory of the first file of a plan is flushed: the file, or the claim
\* that was faster, is durable.
LEMMA FlushedFirst ==
    ASSUME NEW w \in Workers, PublicationInv, Flush(w), NEW f, f = Head(plan[w])
    PROVE  /\ Grows
           /\ f.at # "claim" => f \in Durable'
           /\ f.at = "claim" => \E g \in Durable' : g.at = "claim" /\ g.of = f.of
           /\ f.at = "claim" /\ f \in visible => f \in Durable'
           /\ f.at = "claim" /\ f \notin visible =>
                \E g \in Durable' : g.at = "claim" /\ g.of = f.of /\ g # f
<1>1. /\ visible' = visible /\ pending' = {g \in pending : ~SamePath(f, g)}
      /\ plan' = [plan EXCEPT ![w] = Tail(plan[w])] /\ plan[w] # <<>> /\ step[w] = "flush"
  BY DEF Flush, Flushed
<1>2. Taken(f)
  BY <1>1 DEF PublicationInv, PlanInv
<1>3. Durable' = Durable \cup {g \in visible : SamePath(f, g)}
  BY <1>1 DEF Durable
<1>4. Range(Tail(plan[w])) \subseteq Range(plan[w])
  BY <1>1, TailOf DEF PublicationInv, PublicationType, WorkerType
<1>5. ASSUME NEW v, Unclaimed(v) PROVE Unclaimed(v)'
  <2>1. ASSUME NEW x \in Workers, NEW n \in DOMAIN plan'[x], plan'[x][n].at = "claim"
        PROVE  plan'[x][n].of # v
    <3>1. plan'[x][n] \in Range(plan[x])
      <4>1. Range(plan'[x]) \subseteq Range(plan[x])
        BY <1>1, <1>4 DEF PublicationInv, PublicationType
      <4> QED BY <4>1 DEF Range
    <3> QED BY <1>5, <2>1, <3>1 DEF Unclaimed, Range
  <2> QED BY <1>1, <1>3, <1>5, <2>1 DEF Unclaimed
<1>6. Grows
  BY <1>3, <1>5 DEF Grows
<1>7. f.at # "claim" => f \in visible
  BY <1>2 DEF Taken, SamePath
<1>8. f.at # "claim" => SamePath(f, f)
  BY DEF SamePath
<1>9. f.at = "claim" => \A g : SamePath(f, g) <=> g.at = "claim" /\ g.of = f.of
  BY DEF SamePath
<1> QED BY <1>2, <1>3, <1>6, <1>7, <1>8, <1>9 DEF Taken

\* The first file of a plan becomes durable and leaves the plan.
LEMMA FlushStep ==
    ASSUME NEW w \in Workers, PublicationInv, Flush(w)
    PROVE  PublicationInv'
<1>0. PICK f, p, q : f = Head(plan[w]) /\ p = plan[w] /\ q = Tail(plan[w])
  OBVIOUS
<1>1. /\ visible' = visible /\ pending' \subseteq pending /\ temps' \subseteq temps
      /\ plan' = [plan EXCEPT ![w] = q] /\ p # <<>> /\ step[w] = "flush"
      /\ step' = [step EXCEPT ![w] = "look"]
      /\ owned' = [owned EXCEPT ![w] = IF f.at = "claim" THEN f \in visible ELSE owned[w]]
      /\ UNCHANGED <<job, stage, left, previous, receipts, shard, failures>>
      /\ plan = [x \in Workers |-> plan[x]] /\ owned \in [Workers -> BOOLEAN]
      /\ step \in [Workers -> {"look", "link", "flush"}]
  BY <1>0 DEF Flush, Flushed, PublicationInv, PublicationType
<1>2. /\ plan'[w] = q /\ step'[w] = "look"
      /\ \A x \in Workers \ {w} : plan'[x] = plan[x] /\ owned'[x] = owned[x] /\ step'[x] = step[x]
      /\ owned'[w] = IF f.at = "claim" THEN f \in visible ELSE owned[w]
      /\ plan' = [x \in Workers |-> plan'[x]]
      /\ owned' \in [Workers -> BOOLEAN] /\ step' \in [Workers -> {"look", "link", "flush"}]
  <2>1. (IF f.at = "claim" THEN f \in visible ELSE owned[w]) \in BOOLEAN
    <3>1. (f \in visible) \in BOOLEAN
      <4>1. CASE f \in visible
        BY <4>1
      <4>2. CASE f \notin visible
        BY <4>2
      <4> QED BY <4>1, <4>2
    <3>2. owned[w] \in BOOLEAN
      BY <1>1
    <3>3. CASE f.at = "claim"
      BY <3>1, <3>3, Zenon
    <3>4. CASE f.at # "claim"
      BY <3>2, <3>4, Zenon
    <3> QED BY <3>3, <3>4
  <2>2. owned' \in [Workers -> BOOLEAN]
    BY <1>1, <2>1
  <2>3. owned'[w] = IF f.at = "claim" THEN f \in visible ELSE owned[w]
    BY <1>1
  <2> QED BY <1>1, <2>2, <2>3
<1>3. /\ f = p[1] /\ 1 \in DOMAIN p /\ DOMAIN p = 1..Len(p) /\ Len(p) \in Nat
      /\ q \in Seq(Range(q)) /\ DOMAIN q = 1..(Len(p) - 1)
      /\ \A n \in DOMAIN q : n + 1 \in DOMAIN p /\ q[n] = p[n + 1]
      /\ Range(q) \subseteq Range(p)
  BY <1>0, <1>1, TailOf DEF PublicationInv, PublicationType, WorkerType
<1>4. /\ Grows
      /\ f.at # "claim" => f \in Durable'
      /\ f.at = "claim" => \E g \in Durable' : g.at = "claim" /\ g.of = f.of
      /\ f.at = "claim" /\ f \in visible => f \in Durable'
      /\ f.at = "claim" /\ f \notin visible =>
           \E g \in Durable' : g.at = "claim" /\ g.of = f.of /\ g # f
  BY <1>0, FlushedFirst
<1>5. CitedIsDurable' /\ ContentInv' /\ ClaimInv'
  <2>1. CitedIsDurable'
    BY <1>1, <1>4 DEF PublicationInv, CitedIsDurable, Grows, Durable
  <2>2. Files' \subseteq Files
    BY <1>0, <1>1, <1>2, <1>3 DEF Files
  <2>3. ContentInv'
    BY <1>4, <2>2, GrowsKeeps DEF PublicationInv, ContentInv
  <2>4. ClaimInv'
    <3>1. \A g, h \in visible' : g.at = "claim" /\ SamePath(g, h) => g = h
      BY <1>1 DEF PublicationInv, ClaimInv
    <3>2. \A g \in visible' : g.at = "object" /\ g.of.kind \in {"envelope", "reference"} => ClaimOn(g.of)' \/ Unclaimed(g.of)'
      BY <1>1, <1>4, GrowsKeeps DEF PublicationInv, ClaimInv, Grows
    <3> QED BY <3>1, <3>2 DEF ClaimInv
  <2> QED BY <2>1, <2>3, <2>4
<1>6. ASSUME NEW x \in Workers \ {w} PROVE PlanInv(x)' /\ MemoryInv(x)' /\ WorkerType(x)'
  <2>1. step'[x] = "flush" => plan[x] # <<>> /\ Taken(Head(plan[x]))'
    BY <1>1, <1>2, StaysTaken DEF PublicationInv, PlanInv
  <2> QED BY <1>1, <1>2, <1>4, <2>1, OtherWorker DEF PublicationInv, PublicationType
<1>7. Rest(w)
  BY <1>1, <1>2, <1>5, <1>6 DEF Rest, PublicationInv, PublicationType
<1>8. \A v : Coming(v, p) => Coming(v, q)'
  <2> SUFFICES ASSUME NEW v, Coming(v, p) PROVE Coming(v, q)'
    OBVIOUS
  <2>1. CASE Object(v) \in Durable
    BY <1>4, <2>1 DEF Coming, Grows
  <2>2. CASE \E n \in DOMAIN p : p[n] = Object(v)
    <3>1. PICK n \in DOMAIN p : p[n] = Object(v)
      BY <2>2
    <3>2. CASE n = 1
      BY <1>3, <1>4, <3>1, <3>2, FileFields DEF Coming
    <3>3. CASE n # 1
      <4>1. n - 1 \in DOMAIN q /\ q[n - 1] = p[n]
        BY <1>3, <3>3
      <4> QED BY <3>1, <4>1 DEF Coming
    <3> QED BY <3>2, <3>3
  <2> QED BY <2>1, <2>2 DEF Coming
<1>9. \A n \in DOMAIN q : q[n].at # "claim"
  <2> SUFFICES ASSUME NEW n \in DOMAIN q, q[n].at = "claim" PROVE FALSE
    OBVIOUS
  <2>1. n \in Nat \ {0} /\ n + 1 \in DOMAIN p /\ p[n + 1].at = "claim"
    BY <1>3
  <2>2. n + 1 = 1
    BY <1>0, <2>1 DEF PublicationInv, PlanInv
  <2> QED BY <2>1, <2>2
<1>10. PlanInv(w)'
  <2>1. Orderly(q)'
    <3> SUFFICES ASSUME NEW n \in DOMAIN q, NEW v \in Cited(q[n])
                 PROVE  Object(v) \in Durable' \/ \E m \in 1..(n - 1) : q[m] = Object(v)
      BY DEF Orderly
    <3>1. n + 1 \in DOMAIN p /\ q[n] = p[n + 1] /\ n \in Nat /\ n + 1 <= Len(p)
      BY <1>3
    <3>2. Object(v) \in Durable \/ \E m \in 1..n : p[m] = Object(v)
      <4>1. (n + 1) - 1 = n
        BY <3>1
      <4> QED BY <1>0, <3>1, <4>1 DEF PublicationInv, PlanInv, Orderly
    <3>3. CASE Object(v) \in Durable
      BY <1>4, <3>3 DEF Grows
    <3>4. CASE \E m \in 1..n : p[m] = Object(v)
      <4>1. PICK m \in 1..n : p[m] = Object(v)
        BY <3>4
      <4>2. CASE m = 1
        BY <1>3, <1>4, <4>1, <4>2, FileFields
      <4>3. CASE m # 1
        <5>1. m - 1 \in 1..(n - 1) /\ m - 1 \in DOMAIN q /\ (m - 1) + 1 = m
          BY <1>3, <3>1, <4>3
        <5>2. q[m - 1] = p[m]
          BY <1>3, <5>1
        <5> QED BY <4>1, <5>1, <5>2
      <4> QED BY <4>2, <4>3
    <3> QED BY <3>2, <3>3, <3>4
  <2>2. ASSUME NEW n \in DOMAIN q, q[n].at = "object", q[n].of.kind \in {"envelope", "reference"}
        PROVE  ClaimOn(q[n].of)' \/ Unclaimed(q[n].of)'
    <3>1. n + 1 \in DOMAIN p /\ q[n] = p[n + 1] /\ n \in Nat
      BY <1>3
    <3>2. \/ ClaimOn(q[n].of) \/ Unclaimed(q[n].of)
          \/ \E m \in 1..n : p[m].at = "claim" /\ p[m].of = q[n].of
      <4>1. (n + 1) - 1 = n
        BY <3>1
      <4> QED BY <1>0, <2>2, <3>1, <4>1 DEF PublicationInv, PlanInv
    <3>3. CASE \E m \in 1..n : p[m].at = "claim" /\ p[m].of = q[n].of
      <4>1. PICK m \in 1..n : p[m].at = "claim" /\ p[m].of = q[n].of
        BY <3>3
      <4>2. m \in DOMAIN p
        BY <1>3, <3>1
      <4>3. m = 1
        BY <1>0, <4>1, <4>2 DEF PublicationInv, PlanInv
      <4> QED BY <1>3, <1>4, <4>1, <4>3 DEF ClaimOn
    <3> QED BY <1>4, <3>2, <3>3, GrowsKeeps DEF Grows
  <2> QED BY <1>2, <1>9, <2>1, <2>2 DEF PlanInv
<1>11. stage[w] \in {"envelope", "reference"} => Answered(w)'
  <2>0. HAVE stage[w] \in {"envelope", "reference"}
  <2>1. Current(w)' = Current(w) /\ CurrentClaim(w)' = CurrentClaim(w)
    BY <1>1 DEF Current, CurrentClaim, Owner
  <2>2. CASE f.at = "claim"
    <3>1. f = CurrentClaim(w) /\ f.of = Current(w)
      BY <1>0, <1>3, <2>2, FileFields DEF PublicationInv, PlanInv, CurrentClaim
    <3>2. owned'[w] <=> f \in visible
      BY <1>2, <2>2
    <3> QED BY <1>4, <2>1, <2>2, <3>1, <3>2 DEF Answered
  <2>3. CASE f.at # "claim"
    <3>1. \A n \in DOMAIN plan[w] : plan[w][n].at # "claim"
      BY <1>0, <1>3, <2>3 DEF PublicationInv, PlanInv
    <3>2. Answered(w)
      BY <2>0, <3>1 DEF PublicationInv, MemoryInv
    <3>3. owned'[w] = owned[w]
      BY <1>2, <2>3
    <3> QED BY <1>4, <2>1, <3>2, <3>3 DEF Answered, Grows
  <2> QED BY <2>2, <2>3
<1>12. MemoryInv(w)'
  <2>0. MemoryInv(w)
    BY DEF PublicationInv
  <2>1. \A r \in receipts'[w] : LastReceipt(r)' /\ Coming(r, plan[w])'
    <3>1. \A r \in receipts[w] : LastReceipt(r)' /\ Coming(r, q)'
      BY <1>0, <1>8, <2>0 DEF MemoryInv, LastReceipt, FirstReceipt
    <3> QED BY <1>1, <1>2, <3>1 DEF Coming
  <2>2. stage[w] = "envelope" => Coming(Envelope(Head(left[w])), plan[w])'
    BY <1>0, <1>1, <1>2, <1>8, <2>0 DEF MemoryInv, Coming
  <2>3. stage[w] = "enveloped" =>
          (FirstOf(w, previous[w]) /\ Coming(previous[w], plan[w])
           /\ Object(Envelope(Head(left[w]))) \in Durable)'
    <3> HAVE stage[w] = "enveloped"
    <3>1. FirstOf(w, previous[w])'
      BY <1>1, <1>4, <2>0, GrowsKeeps DEF MemoryInv, FirstOf, FirstReceipt
    <3>2. Coming(previous[w], plan[w])'
      BY <1>0, <1>1, <1>2, <1>8, <2>0 DEF MemoryInv, Coming
    <3> QED BY <1>1, <1>4, <2>0, <3>1, <3>2 DEF MemoryInv, Grows
  <2>4. stage[w] = "reference" =>
          (FirstOf(w, previous[w]) /\ Object(previous[w]) \in Durable
           /\ Coming(Reference(job[w].inventory, Head(left[w])), plan[w]))'
    <3> HAVE stage[w] = "reference"
    <3>1. FirstOf(w, previous[w])'
      BY <1>1, <1>4, <2>0, GrowsKeeps DEF MemoryInv, FirstOf, FirstReceipt
    <3>2. Coming(Reference(job[w].inventory, Head(left[w])), plan[w])'
      BY <1>0, <1>1, <1>2, <1>8, <2>0 DEF MemoryInv, Coming
    <3> QED BY <1>1, <1>4, <2>0, <3>1, <3>2 DEF MemoryInv, Grows
  <2>5. stage[w] = "indexed" => Coming(ShardIndex(w), plan[w])'
    <3>1. ShardIndex(w)' = ShardIndex(w)
      BY <1>1 DEF ShardIndex
    <3> QED BY <1>0, <1>1, <1>2, <1>8, <2>0, <3>1 DEF MemoryInv, Coming
  <2>6. stage[w] # "down"
    BY <1>0, <1>1, <2>0 DEF MemoryInv
  <2> QED BY <1>1, <1>11, <2>0, <2>1, <2>2, <2>3, <2>4, <2>5, <2>6 DEF MemoryInv
<1>13. WorkerType(w)'
  BY <1>1, <1>2, <1>3 DEF WorkerType, PublicationInv, PublicationType
<1>14. /\ stage' \in [Workers -> Stages] /\ owned' \in [Workers -> BOOLEAN] /\ shard' \in [Workers -> Nat]
       /\ left' = [x \in Workers |-> left'[x]] /\ previous' = [x \in Workers |-> previous'[x]]
       /\ receipts' = [x \in Workers |-> receipts'[x]]
  BY <1>1, <1>2 DEF PublicationInv, PublicationType, Stages
<1> QED BY <1>7, <1>10, <1>12, <1>13, <1>14, Assemble

-----------------------------------------------------------------------------
(* Failures.                                                               *)

\* Workers that stop remember nothing; what is lost was not durable.
LEMMA StoppedStep ==
    ASSUME PublicationInv, NEW W \in SUBSET Workers, Stopped(W),
           visible' \subseteq visible, pending' \subseteq visible', Durable \subseteq Durable',
           \A x \in Workers \ W : visible' = visible \/ plan[x] = <<>>,
           failures' \in Nat
    PROVE  PublicationInv'
<1>1. /\ job' = job
      /\ \A x \in Workers \ W :
            /\ stage'[x] = stage[x] /\ plan'[x] = plan[x] /\ step'[x] = step[x]
            /\ left'[x] = left[x] /\ previous'[x] = previous[x] /\ owned'[x] = owned[x]
            /\ receipts'[x] = receipts[x] /\ shard'[x] = shard[x]
      /\ \A x \in W :
            /\ stage'[x] = "down" /\ plan'[x] = <<>> /\ step'[x] = "look"
            /\ left'[x] = job[x].keys /\ previous'[x] = None
            /\ receipts'[x] = {} /\ shard'[x] = 0
  BY DEF Stopped
<1>2. Grows
  <2>1. ASSUME NEW v, Unclaimed(v) PROVE Unclaimed(v)'
    <3>1. \A x \in Workers : plan'[x] = plan[x] \/ plan'[x] = <<>>
      BY <1>1
    <3>2. \A x \in Workers : \A n \in DOMAIN plan'[x] : plan'[x][n].at = "claim" => plan'[x][n].of # v
      BY <2>1, <3>1 DEF Unclaimed
    <3> QED BY <2>1, <3>2 DEF Unclaimed
  <2> QED BY <2>1 DEF Grows
<1>3. ASSUME NEW x \in Workers \ W PROVE PlanInv(x)' /\ MemoryInv(x)' /\ WorkerType(x)'
  <2>1. step'[x] = "flush" => plan[x] # <<>> /\ Taken(Head(plan[x]))'
    BY <1>1, StaysTaken DEF PublicationInv, PlanInv
  <2> QED BY <1>1, <1>2, <2>1, OtherWorker DEF PublicationInv, PublicationType
<1>4. ASSUME NEW x \in W PROVE PlanInv(x)' /\ MemoryInv(x)' /\ WorkerType(x)'
  <2>1. \A n \in DOMAIN plan'[x] : FALSE
    BY <1>1
  <2>2. PlanInv(x)'
    BY <1>1, <2>1 DEF PlanInv, Orderly
  <2>3. MemoryInv(x)'
    BY <1>1 DEF MemoryInv
  <2>4. <<>> \in Seq(Range(<<>>))
    <3>1. <<>> \in Seq({})
      OBVIOUS
    <3> QED BY <3>1, SeqOfRange
  <2>5. WorkerType(x)'
    BY <1>1, <2>4 DEF WorkerType, PublicationInv, PublicationType
  <2> QED BY <2>2, <2>3, <2>5
<1>5. CitedIsDurable'
  BY <1>2 DEF PublicationInv, CitedIsDurable, Grows, Durable
<1>6. ContentInv'
  <2>1. Files' \subseteq Files
    BY <1>1 DEF Files, Range
  <2> QED BY <1>2, <2>1, GrowsKeeps DEF PublicationInv, ContentInv
<1>7. ClaimInv'
  <2>1. \A g, h \in visible' : g.at = "claim" /\ SamePath(g, h) => g = h
    BY DEF PublicationInv, ClaimInv
  <2>2. \A g \in visible' : g.at = "object" /\ g.of.kind \in {"envelope", "reference"} => ClaimOn(g.of)' \/ Unclaimed(g.of)'
    BY <1>2, GrowsKeeps DEF PublicationInv, ClaimInv, Grows
  <2> QED BY <2>1, <2>2 DEF ClaimInv
<1>8. /\ stage' \in [Workers -> Stages] /\ step' \in [Workers -> {"look", "link", "flush"}]
      /\ shard' \in [Workers -> Nat] /\ temps' \subseteq Workers
  BY DEF Stopped, PublicationInv, PublicationType, Stages
<1>9. owned' \in [Workers -> BOOLEAN]
  BY DEF Stopped, PublicationInv, PublicationType
<1>10. /\ plan' = [x \in Workers |-> plan'[x]] /\ left' = [x \in Workers |-> left'[x]]
       /\ previous' = [x \in Workers |-> previous'[x]] /\ receipts' = [x \in Workers |-> receipts'[x]]
  BY DEF Stopped
<1> QED BY <1>3, <1>4, <1>5, <1>6, <1>7, <1>8, <1>9, <1>10 DEF PublicationInv, PublicationType

\* Deaths and power losses take nothing that is durable.
LEMMA FailureSteps ==
    ASSUME PublicationInv,
           PowerLoss \/ \E w \in Workers : Crash(w) \/ LinkFails(w)
    PROVE  PublicationInv'
<1>0. failures \in Nat /\ pending \subseteq visible
  BY DEF PublicationInv, PublicationType
<1>1. ASSUME NEW w \in Workers, Crash(w) PROVE PublicationInv'
  <2>1. /\ Stopped({w}) /\ visible' = visible /\ pending' = pending /\ failures' \in Nat
    BY <1>0, <1>1 DEF Crash, Fail
  <2> QED BY <1>0, <2>1, StoppedStep DEF Durable
<1>2. ASSUME NEW w \in Workers, LinkFails(w) PROVE PublicationInv'
  <2>1. /\ Stopped({w}) /\ visible' = visible /\ pending' = pending /\ failures' \in Nat
    BY <1>0, <1>2 DEF LinkFails
  <2> QED BY <1>0, <2>1, StoppedStep DEF Durable
<1>3. ASSUME PowerLoss PROVE PublicationInv'
  <2>1. /\ Stopped({w \in Workers : Working(w)}) /\ failures' \in Nat /\ pending' = {}
        /\ visible' \subseteq visible /\ visible \ pending \subseteq visible'
    BY <1>0, <1>3 DEF PowerLoss, Fail
  <2>2. ASSUME NEW x \in Workers, ~Working(x) PROVE plan[x] = <<>>
    BY <2>2 DEF Working, PublicationInv, MemoryInv
  <2>3. \A x \in Workers \ {w \in Workers : Working(w)} : plan[x] = <<>>
    BY <2>2
  <2> QED BY <2>1, <2>3, StoppedStep DEF Durable
<1> QED BY <1>1, <1>2, <1>3

\* A sweep only makes more files durable.
LEMMA RecoverStep ==
    ASSUME PublicationInv, Recover
    PROVE  PublicationInv'
<1>1. /\ UNCHANGED <<visible, job, stage, plan, step, left, previous, owned, receipts, shard>>
      /\ temps' \subseteq temps /\ pending' \subseteq pending /\ failures' \in Nat
  BY DEF Recover, Fail, memory, PublicationInv, PublicationType
<1>2. Grows
  BY <1>1 DEF Grows, Durable, Unclaimed
<1>3. \A x \in Workers : step'[x] = "flush" => plan[x] # <<>> /\ Taken(Head(plan[x]))'
  BY <1>1, StaysTaken DEF PublicationInv, PlanInv
<1>4. CitedIsDurable'
  BY <1>1, <1>2 DEF PublicationInv, CitedIsDurable, Grows, Durable
<1>5. ContentInv'
  BY <1>1, <1>2, GrowsKeeps DEF PublicationInv, ContentInv, Files
<1>6. ClaimInv'
  BY <1>1, <1>2, GrowsKeeps DEF PublicationInv, ClaimInv, Grows
<1> QED BY <1>1, <1>2, <1>3, <1>4, <1>5, <1>6, OnlyFiles DEF PublicationInv, PublicationType

\* A worker that starts again relies on nothing.
LEMMA RestartStep ==
    ASSUME NEW w \in Workers, PublicationInv, Restart(w)
    PROVE  PublicationInv'
<1>1. /\ stage' = [stage EXCEPT ![w] = "working"] /\ stage'[w] = "working"
      /\ stage[w] = "down" /\ plan[w] = <<>> /\ previous[w] = None
      /\ UNCHANGED <<left, previous, receipts, owned, shard, job>>
      /\ stage \in [Workers -> Stages]
      /\ \A q \in receipts[w] : LastReceipt(q) /\ Coming(q, plan[w])
  BY DEF Restart, Goto, memory, PublicationInv, PublicationType, MemoryInv
<1>2. Plans(w, <<>>)
  BY <1>1 DEF Restart, Goto, Plans
<1>3. /\ <<>> \in Seq(Range(<<>>)) /\ DOMAIN <<>> = {}
  <2>1. <<>> \in Seq({}) /\ DOMAIN <<>> = {}
    OBVIOUS
  <2> QED BY <2>1, SeqOfRange
<1>4. Grows /\ PlanInv(w)' /\ plan'[w] = <<>> /\ Rest(w)
  BY <1>2, <1>3, PlainPlan DEF Orderly
<1>5. MemoryInv(w)'
  <2>1. \A q \in receipts'[w] : LastReceipt(q)' /\ Coming(q, plan[w])'
    BY <1>1, <1>4 DEF Coming, Grows, LastReceipt, FirstReceipt
  <2> QED BY <1>1, <2>1 DEF MemoryInv
<1>6. WorkerType(w)'
  BY <1>1, <1>3, <1>4 DEF WorkerType, PublicationInv, PublicationType
<1>7. /\ stage' \in [Workers -> Stages] /\ owned' \in [Workers -> BOOLEAN] /\ shard' \in [Workers -> Nat]
      /\ left' = [x \in Workers |-> left'[x]] /\ previous' = [x \in Workers |-> previous'[x]]
      /\ receipts' = [x \in Workers |-> receipts'[x]]
  BY <1>1 DEF PublicationInv, PublicationType, Stages
<1> QED BY <1>4, <1>5, <1>6, <1>7, Assemble

\* The files an earlier tool left are complete, and never claimed.
LEMMA StartsWell ==
    ASSUME NEW a \in Assignments, Fresh, job = a.jobs, visible = {Object(v) : v \in a.earlier},
           left = [w \in Workers |-> a.jobs[w].keys], failures = a.failures
    PROVE  PublicationInv
<1>0. /\ \A w \in Workers : /\ a.jobs[w].inventory \in Inventories
                            /\ a.jobs[w].keys \in Seq(Keys(a.jobs[w].inventory))
      /\ \A v \in a.earlier : /\ v.kind \in {"envelope", "reference"}
                              /\ v.kind = "reference" => Envelope(v.key) \in a.earlier
      /\ a.failures \in Nat
  BY PublicationAssumption
<1>1. Durable = visible
  BY DEF Fresh, Durable
<1>2. \A f \in visible : f.at = "object" /\ f.of \in a.earlier /\ f = Object(f.of)
  BY FileFields
<1>3. \A w \in Workers : plan[w] = <<>> /\ \A n \in DOMAIN plan[w] : FALSE
  BY DEF Fresh
<1>4. \A f \in visible : Unclaimed(f.of)
  BY <1>1, <1>2, <1>3 DEF Unclaimed
<1>5. CitedIsDurable
  <2> SUFFICES ASSUME NEW f \in visible, NEW v \in Cited(f) PROVE Object(v) \in Durable
    BY DEF CitedIsDurable, Durable
  <2>1. f.at = "object" /\ f.of \in a.earlier
    BY <1>2
  <2>2. v = Envelope(f.of.key) /\ f.of.kind = "reference"
    BY <1>0, <2>1 DEF Cited, Categories
  <2> QED BY <1>0, <1>1, <2>1, <2>2
<1>6. ContentInv
  <2>1. Files = visible
    BY <1>3 DEF Files, Range
  <2> QED BY <1>0, <1>2, <2>1 DEF ContentInv, Genuine
<1>7. ClaimInv
  BY <1>2, <1>4 DEF ClaimInv
<1>8. <<>> \in Seq(Range(<<>>))
  <2>1. <<>> \in Seq({})
    OBVIOUS
  <2> QED BY <2>1, SeqOfRange
<1>9. ASSUME NEW w \in Workers PROVE PlanInv(w) /\ MemoryInv(w) /\ WorkerType(w)
  <2>1. stage[w] = "working" /\ step[w] = "look" /\ previous[w] = None /\ receipts[w] = {}
    BY DEF Fresh
  <2>2. PlanInv(w)
    BY <1>3, <2>1 DEF PlanInv, Orderly
  <2>3. MemoryInv(w)
    BY <2>1 DEF MemoryInv
  <2>4. WorkerType(w)
    BY <1>0, <1>3, <1>8 DEF WorkerType
  <2> QED BY <2>2, <2>3, <2>4
<1>10. PublicationType
  BY <1>0, <1>9 DEF PublicationType, Fresh, Stages
<1> QED BY <1>5, <1>6, <1>7, <1>9, <1>10 DEF PublicationInv

-----------------------------------------------------------------------------
(* Numbers and sequences.                                                  *)

\* Members of the same rank are the same.
LEMMA SameRank ==
    ASSUME NEW S \in SUBSET Nat, IsFiniteSet(S), NEW x \in S, NEW z \in S,
           Cardinality({y \in S : y <= x}) = Cardinality({y \in S : y <= z})
    PROVE  x = z
<1> DEFINE below(v) == {y \in S : y <= v}
<1>1. ASSUME NEW v \in S, NEW u \in S, v < u PROVE Cardinality(below(v)) # Cardinality(below(u))
  <2>0. v \in Nat /\ u \in Nat
    OBVIOUS
  <2>1. below(v) \subseteq below(u)
    <3> SUFFICES ASSUME NEW y \in S, y <= v PROVE y <= u
      OBVIOUS
    <3>1. y \in Nat
      OBVIOUS
    <3> QED BY <1>1, <2>0, <3>1
  <2>2. u \in below(u) /\ u \notin below(v)
    BY <1>1, <2>0
  <2>3. IsFiniteSet(below(u))
    BY FS_Subset
  <2> HIDE DEF below
  <2> QED BY <2>1, <2>2, <2>3, FS_Subset
<1>2. ~(x < z) /\ ~(z < x)
  BY <1>1
<1>3. x \in Nat /\ z \in Nat
  OBVIOUS
<1> QED BY <1>2, <1>3

\* Every number up to the size of a set is the rank of one of its members.
LEMMA NthMember ==
    ASSUME NEW S \in SUBSET Nat, IsFiniteSet(S), NEW n \in 1..Cardinality(S)
    PROVE  Nth(S, n) \in S /\ Cardinality({y \in S : y <= Nth(S, n)}) = n
<1> DEFINE C == Cardinality(S)
           below(x) == {y \in S : y <= x}
           rank == [x \in S |-> Cardinality(below(x))]
<1>0. C \in Nat
  BY FS_CardinalityType
<1>1. ASSUME NEW x \in S
      PROVE  IsFiniteSet(below(x)) /\ Cardinality(below(x)) \in 1..C
  <2>1. below(x) \in SUBSET S /\ x \in below(x)
    OBVIOUS
  <2> HIDE DEF below
  <2>2. IsFiniteSet(below(x)) /\ Cardinality(below(x)) <= C
    BY <2>1, FS_Subset
  <2>3. Cardinality(below(x)) \in Nat /\ Cardinality(below(x)) # 0
    BY <2>1, <2>2, FS_CardinalityType, FS_EmptySet
  <2> QED BY <1>0, <2>2, <2>3
<1>2. \A x, z \in S : rank[x] = rank[z] => x = z
  BY SameRank
<1>3. rank \in Injection(S, 1..C)
  <2> HIDE DEF below, C
  <2>1. rank \in [S -> 1..C]
    BY <1>1
  <2> HIDE DEF rank
  <2> QED BY <1>2, <2>1 DEF Injection, IsInjective
<1>4. IsFiniteSet(1..C) /\ Cardinality(1..C) = C
  BY <1>0, FS_Interval
<1>5. rank \in Surjection(S, 1..C)
  <2> HIDE DEF rank
  <2> QED BY <1>3, <1>4, FS_Injection
<1>6. \E x \in S : Cardinality(below(x)) = n
  <2>1. PICK x \in S : rank[x] = n
    BY <1>5 DEF Surjection
  <2> QED BY <2>1
<1> QED BY <1>6 DEF Nth

\* A greater number comes last, and changes no other rank.
LEMMA NthAdded ==
    ASSUME NEW S \in SUBSET Nat, IsFiniteSet(S), NEW n \in Nat, \A x \in S : x < n
    PROVE  /\ Cardinality(S \cup {n}) = Cardinality(S) + 1
           /\ \A k \in 1..Cardinality(S) : Nth(S \cup {n}, k) = Nth(S, k)
           /\ Nth(S \cup {n}, Cardinality(S) + 1) = n
<1>1. PICK T : T = S \cup {n}
  OBVIOUS
<1>2. /\ T \in SUBSET Nat /\ IsFiniteSet(T) /\ Cardinality(S) \in Nat
      /\ Cardinality(T) = Cardinality(S) + 1
  <2>1. n \notin S
    OBVIOUS
  <2> QED BY <1>1, <2>1, FS_AddElement, FS_CardinalityType
<1>3. ASSUME NEW x \in T, NEW k \in 1..Cardinality(T), Cardinality({y \in T : y <= x}) = k
      PROVE  Nth(T, k) = x
  <2>1. PICK z : z = Nth(T, k)
    OBVIOUS
  <2>2. z \in T /\ Cardinality({y \in T : y <= z}) = k
    BY <1>2, <2>1, NthMember
  <2> QED BY <1>2, <1>3, <2>1, <2>2, SameRank
<1>4. ASSUME NEW k \in 1..Cardinality(S) PROVE Nth(T, k) = Nth(S, k)
  <2>1. PICK x : x = Nth(S, k)
    OBVIOUS
  <2>2. x \in S /\ Cardinality({y \in S : y <= x}) = k
    BY <2>1, NthMember
  <2>3. {y \in T : y <= x} = {y \in S : y <= x}
    <3>1. x \in Nat /\ ~(n <= x)
      BY <2>2
    <3> QED BY <1>1, <3>1
  <2>4. k \in 1..Cardinality(T) /\ x \in T
    BY <1>1, <1>2, <2>2
  <2> QED BY <1>3, <2>1, <2>2, <2>3, <2>4
<1>5. Nth(T, Cardinality(S) + 1) = n
  <2>1. {y \in T : y <= n} = T
    <3>1. \A y \in T : y <= n
      BY <1>1
    <3> QED BY <3>1
  <2>2. n \in T /\ Cardinality(S) + 1 \in 1..Cardinality(T)
    BY <1>1, <1>2
  <2> QED BY <1>2, <1>3, <2>1, <2>2
<1> QED BY <1>1, <1>2, <1>4, <1>5

\* The members of an interval are their own ranks.
LEMMA NthOfInterval ==
    ASSUME NEW C \in Nat, NEW n \in 1..C
    PROVE  Nth(1..C, n) = n /\ Cardinality(1..C) = C /\ IsFiniteSet(1..C)
<1>1. Cardinality(1..C) = C /\ IsFiniteSet(1..C)
  BY FS_Interval
<1>2. PICK x : x = Nth(1..C, n)
  OBVIOUS
<1>3. x \in 1..C /\ Cardinality({y \in 1..C : y <= x}) = n
  <2>1. 1..C \in SUBSET Nat /\ n \in 1..Cardinality(1..C)
    BY <1>1
  <2> QED BY <1>1, <1>2, <2>1, NthMember
<1>4. {y \in 1..C : y <= x} = 1..x
  BY <1>3
<1>5. Cardinality(1..x) = x
  BY <1>3, FS_Interval
<1> QED BY <1>1, <1>2, <1>3, <1>4, <1>5

\* A function over an interval is a sequence.
LEMMA IntervalSeq ==
    ASSUME NEW C \in Nat, NEW f, f \in [1..C -> Range(f)]
    PROVE  f \in Seq(Range(f)) /\ Len(f) = C /\ DOMAIN f = 1..C
<1>1. f \in Seq(Range(f))
  BY SeqDef
<1>2. Len(f) \in Nat /\ DOMAIN f = 1..Len(f)
  BY <1>1, LenProperties
<1>3. DOMAIN f = 1..C
  OBVIOUS
<1> QED BY <1>1, <1>2, <1>3

\* Two sequences, one after the other.
LEMMA JoinedSeq ==
    ASSUME NEW s, s \in Seq(Range(s)), NEW t, t \in Seq(Range(t))
    PROVE  /\ s \o t \in Seq(Range(s \o t)) /\ Range(s \o t) = Range(s) \cup Range(t)
           /\ Len(s) \in Nat /\ Len(t) \in Nat /\ Len(s \o t) = Len(s) + Len(t)
           /\ DOMAIN s = 1..Len(s) /\ DOMAIN t = 1..Len(t)
           /\ DOMAIN (s \o t) = 1..(Len(s) + Len(t))
           /\ \A n \in 1..Len(s) : (s \o t)[n] = s[n]
           /\ \A n \in 1..Len(t) : (s \o t)[Len(s) + n] = t[n]
<1>1. PICK S : S = Range(s) \cup Range(t)
  OBVIOUS
<1>2. s \in Seq(S) /\ t \in Seq(S)
  BY <1>1, SeqMonotonic
<1>3. /\ s \o t \in Seq(S) /\ Len(s \o t) = Len(s) + Len(t)
      /\ \A i \in 1..Len(s) + Len(t) : (s \o t)[i] = IF i <= Len(s) THEN s[i] ELSE t[i - Len(s)]
  BY <1>2, ConcatProperties
<1>4. Len(s) \in Nat /\ Len(t) \in Nat /\ DOMAIN s = 1..Len(s) /\ DOMAIN t = 1..Len(t)
  BY <1>2, LenProperties
<1>5. s \o t \in Seq(Range(s \o t))
  BY <1>3, SeqOfRange
<1>6. DOMAIN (s \o t) = 1..(Len(s) + Len(t))
  BY <1>3, LenProperties
<1>7. Range(s \o t) = Range(s) \cup Range(t)
  BY <1>2, RangeConcatenation
<1>8. \A n \in 1..Len(s) : (s \o t)[n] = s[n]
  BY <1>3, <1>4
<1>9. \A n \in 1..Len(t) : (s \o t)[Len(s) + n] = t[n]
  <2> TAKE n \in 1..Len(t)
  <2>1. Len(s) + n \in 1..Len(s) + Len(t) /\ ~(Len(s) + n <= Len(s)) /\ (Len(s) + n) - Len(s) = n
    BY <1>4
  <2> QED BY <1>3, <2>1
<1> QED BY <1>3, <1>4, <1>5, <1>6, <1>7, <1>8, <1>9

\* A sequence and one element more.
LEMMA AppendedSeq ==
    ASSUME NEW s, s \in Seq(Range(s)), NEW e
    PROVE  /\ Append(s, e) \in Seq(Range(Append(s, e)))
           /\ Range(Append(s, e)) = Range(s) \cup {e}
           /\ Len(s) \in Nat /\ Len(Append(s, e)) = Len(s) + 1
           /\ DOMAIN s = 1..Len(s) /\ DOMAIN Append(s, e) = 1..(Len(s) + 1)
           /\ \A n \in 1..Len(s) : Append(s, e)[n] = s[n]
           /\ Append(s, e)[Len(s) + 1] = e
           /\ Last(Append(s, e)) = e
<1>1. PICK S, a : S = Range(s) \cup {e} /\ a = Append(s, e)
  OBVIOUS
<1>2. s \in Seq(S) /\ e \in S
  BY <1>1, SeqMonotonic
<1>3. /\ a \in Seq(S) /\ Len(a) = Len(s) + 1
      /\ \A i \in 1..Len(s) : a[i] = s[i] /\ a[Len(s) + 1] = e
      /\ a[Len(s) + 1] = e
  BY <1>1, <1>2, AppendProperties
<1>4. Len(s) \in Nat /\ DOMAIN s = 1..Len(s) /\ DOMAIN a = 1..(Len(s) + 1)
  BY <1>2, <1>3, LenProperties
<1>5. a \in Seq(Range(a))
  BY <1>3, SeqOfRange
<1>6. Range(a) = Range(s) \cup {e}
  <2>1. Range(a) \subseteq Range(s) \cup {e}
    <3> SUFFICES ASSUME NEW n \in DOMAIN a PROVE a[n] \in Range(s) \cup {e}
      BY DEF Range
    <3>1. n \in 1..Len(s) \/ n = Len(s) + 1
      BY <1>4
    <3> QED BY <1>3, <1>4, <3>1 DEF Range
  <2>2. Range(s) \subseteq Range(a)
    <3> SUFFICES ASSUME NEW n \in DOMAIN s PROVE s[n] \in Range(a)
      BY DEF Range
    <3>1. n \in DOMAIN a /\ a[n] = s[n]
      BY <1>3, <1>4
    <3> QED BY <3>1 DEF Range
  <2>3. e \in Range(a)
    <3>1. Len(s) + 1 \in DOMAIN a
      BY <1>4
    <3> QED BY <1>3, <3>1 DEF Range
  <2> QED BY <2>1, <2>2, <2>3
<1>7. Last(a) = e
  BY <1>3 DEF Last
<1> QED BY <1>1, <1>3, <1>4, <1>5, <1>6, <1>7

-----------------------------------------------------------------------------
(* What a reconciliation publishes.                                        *)

\* What the objects of a merge cite.
LEMMA MergeCites ==
    /\ \A k : Attestation(k).kind = "attestation" /\ Cited(Object(Attestation(k))) = {Envelope(k)}
    /\ \A k : /\ SemanticRecord(k).kind = "semantic"
              /\ Cited(Object(SemanticRecord(k))) =
                   {Attestation(a) : a \in Range([n \in 1..(k[2] - 1) |-> <<k[1], n>>]) \cup {k}}
    /\ \A i, s, sources, attempts, selected :
          /\ RunRecord(i, s, sources, attempts, selected).kind = "evidence"
          /\ Cited(Object(RunRecord(i, s, sources, attempts, selected))) =
               sources \cup {Attestation(a) : a \in Range(attempts)}
    /\ \A d, leaves :
          /\ Node(d, leaves).kind = "node" /\ Node(d, leaves).leaves = leaves
          /\ Cited(Object(Node(d, leaves))) = Range(leaves)
          /\ Root(d, leaves).kind = "root" /\ Root(d, leaves).leaves = leaves
          /\ Cited(Object(Root(d, leaves))) = Range(leaves)
    /\ \A r : /\ Corpus(r).kind = "corpus" /\ Corpus(r).root = r
              /\ Cited(Object(Corpus(r))) = {r}
    /\ \A i, sources, r : /\ RunEvidence(i, sources, r).kind = "run"
                          /\ Cited(Object(RunEvidence(i, sources, r))) = {r} \cup sources
    /\ \A i, c, r, sources : /\ MergeSeal(i, c, r, sources).kind = "merge"
                             /\ MergeSeal(i, c, r, sources).corpus = c
                             /\ Cited(Object(MergeSeal(i, c, r, sources))) = {c, r} \cup sources
<1>1. ASSUME NEW k
      PROVE  Attestation(k).kind = "attestation" /\ Cited(Object(Attestation(k))) = {Envelope(k)}
  BY DEF Attestation, Cited, Object, Categories
<1>2. ASSUME NEW k
      PROVE  /\ SemanticRecord(k).kind = "semantic"
             /\ Cited(Object(SemanticRecord(k))) =
                   {Attestation(a) : a \in Range([n \in 1..(k[2] - 1) |-> <<k[1], n>>]) \cup {k}}
  BY DEF SemanticRecord, Cited, Object, Categories
<1>3. ASSUME NEW i, NEW s, NEW sources, NEW attempts, NEW selected
      PROVE  /\ RunRecord(i, s, sources, attempts, selected).kind = "evidence"
             /\ Cited(Object(RunRecord(i, s, sources, attempts, selected))) =
                  sources \cup {Attestation(a) : a \in Range(attempts)}
  BY DEF RunRecord, Cited, Object, Categories
<1>4. ASSUME NEW d, NEW leaves
      PROVE  /\ Node(d, leaves).kind = "node" /\ Node(d, leaves).leaves = leaves
             /\ Cited(Object(Node(d, leaves))) = Range(leaves)
             /\ Root(d, leaves).kind = "root" /\ Root(d, leaves).leaves = leaves
             /\ Cited(Object(Root(d, leaves))) = Range(leaves)
  BY DEF Node, Root, Cited, Object, Categories
<1>5. ASSUME NEW r
      PROVE  Corpus(r).kind = "corpus" /\ Corpus(r).root = r /\ Cited(Object(Corpus(r))) = {r}
  BY DEF Corpus, Cited, Object, Categories
<1>6. ASSUME NEW i, NEW sources, NEW r
      PROVE  /\ RunEvidence(i, sources, r).kind = "run"
             /\ Cited(Object(RunEvidence(i, sources, r))) = {r} \cup sources
  BY DEF RunEvidence, Cited, Object, Categories
<1>7. ASSUME NEW i, NEW c, NEW r, NEW sources
      PROVE  /\ MergeSeal(i, c, r, sources).kind = "merge" /\ MergeSeal(i, c, r, sources).corpus = c
             /\ Cited(Object(MergeSeal(i, c, r, sources))) = {c, r} \cup sources
  BY DEF MergeSeal, Cited, Object, Categories
<1> QED BY <1>1, <1>2, <1>3, <1>4, <1>5, <1>6, <1>7

\* An object of a merge: nothing a receipt or a claim is about.
Merged(v) == v.kind \notin {"envelope", "reference", "receipt", "index", "manifest"}

\* What an object of the sequence cites is durable or comes before it.
Founded(s) ==
    \A n \in DOMAIN s : \A v \in Cited(Object(s[n])) :
        Object(v) \in Durable \/ \E m \in 1..(n - 1) : s[m] = v

\* The objects of t may also cite those of s.
FoundedOn(s, t) ==
    \A n \in DOMAIN t : \A v \in Cited(Object(t[n])) :
        Object(v) \in Durable \/ v \in Range(s) \/ \E m \in 1..(n - 1) : t[m] = v

\* Objects in order, and more that may cite them: all are in order.
LEMMA FoundedJoin ==
    ASSUME NEW s, s \in Seq(Range(s)), NEW t, t \in Seq(Range(t)), Founded(s), FoundedOn(s, t),
           \A v \in Range(s) \cup Range(t) : Merged(v)
    PROVE  /\ Founded(s \o t) /\ s \o t \in Seq(Range(s \o t))
           /\ Range(s \o t) = Range(s) \cup Range(t)
           /\ \A v \in Range(s \o t) : Merged(v)
<1>1. PICK u : u = s \o t
  OBVIOUS
<1>2. /\ u \in Seq(Range(u)) /\ Range(u) = Range(s) \cup Range(t)
      /\ Len(s) \in Nat /\ Len(t) \in Nat /\ DOMAIN s = 1..Len(s) /\ DOMAIN t = 1..Len(t)
      /\ DOMAIN u = 1..(Len(s) + Len(t))
      /\ \A n \in 1..Len(s) : u[n] = s[n]
      /\ \A n \in 1..Len(t) : u[Len(s) + n] = t[n]
  BY <1>1, JoinedSeq
<1>3. ASSUME NEW n \in DOMAIN u, NEW v \in Cited(Object(u[n]))
      PROVE  Object(v) \in Durable \/ \E m \in 1..(n - 1) : u[m] = v
  <2>1. CASE n <= Len(s)
    <3>1. n \in DOMAIN s /\ u[n] = s[n] /\ n \in Nat
      BY <1>2, <2>1
    <3>2. Object(v) \in Durable \/ \E m \in 1..(n - 1) : s[m] = v
      BY <1>3, <3>1 DEF Founded
    <3>3. \A m \in 1..(n - 1) : u[m] = s[m]
      BY <1>2, <2>1, <3>1
    <3> QED BY <3>2, <3>3
  <2>2. CASE n > Len(s)
    <3>1. PICK k : k = n - Len(s)
      OBVIOUS
    <3>2. k \in DOMAIN t /\ u[n] = t[k] /\ k \in Nat /\ n = Len(s) + k
      <4>1. k \in 1..Len(t) /\ n = Len(s) + k
        BY <1>2, <2>2, <3>1
      <4> QED BY <1>2, <4>1
    <3>3. Object(v) \in Durable \/ v \in Range(s) \/ \E m \in 1..(k - 1) : t[m] = v
      BY <1>3, <3>2 DEF FoundedOn
    <3>4. CASE v \in Range(s)
      <4>1. PICK m \in DOMAIN s : s[m] = v
        BY <3>4 DEF Range
      <4>2. m \in 1..(n - 1) /\ u[m] = v
        BY <1>2, <2>2, <4>1
      <4> QED BY <4>2
    <3>5. CASE \E m \in 1..(k - 1) : t[m] = v
      <4>1. PICK m \in 1..(k - 1) : t[m] = v
        BY <3>5
      <4>2. Len(s) + m \in 1..(n - 1) /\ m \in 1..Len(t)
        BY <1>2, <3>2
      <4>3. u[Len(s) + m] = v
        BY <1>2, <4>1, <4>2
      <4> QED BY <4>2, <4>3
    <3> QED BY <3>3, <3>4, <3>5
  <2> QED BY <1>2, <2>1, <2>2
<1> QED BY <1>1, <1>2, <1>3 DEF Founded

\* The record, then nodes over records that are there.
LEMMA AddedNodes ==
    ASSUME NEW d, NEW leaves, leaves \in Seq(Range(leaves)), leaves # <<>>
    PROVE  /\ Added(d, leaves) \in Seq(Range(Added(d, leaves)))
           /\ 1 \in DOMAIN Added(d, leaves) /\ DOMAIN Added(d, leaves) \subseteq Nat \ {0}
           /\ Added(d, leaves)[1] = Last(leaves)
           /\ \A n \in DOMAIN Added(d, leaves) \ {1} :
                 /\ Added(d, leaves)[n].kind = "node"
                 /\ Cited(Object(Added(d, leaves)[n])) \subseteq Range(leaves)
<1> DEFINE N == Len(leaves)
           levels == {l \in 1..N : \A m \in 1..l : Completes(N, m)}
           node(l) == Node(d, SubSeq(leaves, N - 2 ^ l + 1, N))
           nodes == [l \in 1..Cardinality(levels) |-> node(l)]
<1>1. N \in Nat \ {0} /\ DOMAIN leaves = 1..N
  <2>1. N \in Nat /\ DOMAIN leaves = 1..N
    BY LenProperties
  <2> QED BY <2>1, EmptySeq
<1>2. PICK k \in Nat : levels = 1..k
  <2>1. {l \in Nat : l + 1 \notin levels} # {}
    <3>1. N \in Nat /\ N + 1 \notin levels
      BY <1>1
    <3> QED BY <3>1
  <2>2. PICK k \in Nat : k + 1 \notin levels /\ \A l \in Nat : l + 1 \notin levels => k <= l
    <3>1. {l \in Nat : l + 1 \notin levels} \in SUBSET Nat
      OBVIOUS
    <3>2. PICK k \in {l \in Nat : l + 1 \notin levels} :
              \A l \in {l \in Nat : l + 1 \notin levels} : k <= l
      <4> HIDE DEF levels
      <4> QED BY <2>1, <3>1, LeastMember
    <3> QED BY <3>2
  <2>3. ASSUME NEW l \in 1..k PROVE l \in levels
    <3>1. l - 1 \in Nat /\ ~(k <= l - 1) /\ (l - 1) + 1 = l
      OBVIOUS
    <3> HIDE DEF levels
    <3> QED BY <2>2, <3>1
  <2>4. ASSUME NEW l \in levels, l > k PROVE FALSE
    <3>1. l \in 1..N /\ \A m \in 1..l : Completes(N, m)
      OBVIOUS
    <3>2. k + 1 \in 1..l /\ k + 1 \in 1..N /\ 1..(k + 1) \subseteq 1..l
      BY <1>1, <2>4, <3>1
    <3>3. k + 1 \in levels
      BY <3>1, <3>2
    <3> HIDE DEF levels
    <3> QED BY <2>2, <3>3
  <2>5. levels \subseteq 1..N
    OBVIOUS
  <2> HIDE DEF levels
  <2>6. levels \subseteq 1..k
    <3> SUFFICES ASSUME NEW l \in levels PROVE l \in 1..k
      OBVIOUS
    <3> QED BY <1>1, <2>4, <2>5
  <2> QED BY <2>3, <2>6
<1>3. Cardinality(levels) = k
  <2> HIDE DEF levels
  <2> QED BY <1>2, FS_Interval
<1>4. ASSUME NEW l \in 1..k
      PROVE  node(l).kind = "node" /\ Cited(Object(node(l))) \subseteq Range(leaves)
  <2>1. PICK p : p = 2 ^ l
    OBVIOUS
  <2>2. p \in 1..N
    <3>1. l \in 1..l
      OBVIOUS
    <3>2. l \in levels
      <4> HIDE DEF levels
      <4> QED BY <1>2
    <3>3. Completes(N, l)
      BY <3>1, <3>2
    <3> QED BY <2>1, <3>3 DEF Completes
  <2>3. PICK q : q = SubSeq(leaves, N - p + 1, N)
    OBVIOUS
  <2>4. /\ q \in Seq(Range(leaves))
    <3>1. N - p + 1 \in Int /\ N \in Int /\ \A j \in (N - p + 1)..N : j \in 1..N
      BY <1>1, <2>2
    <3>2. \A j \in (N - p + 1)..N : leaves[j] \in Range(leaves)
      BY <1>1, <3>1 DEF Range
    <3> HIDE DEF N
    <3> QED BY <2>3, <3>1, <3>2, SubSeqProperties
  <2>5. Range(q) \subseteq Range(leaves)
    BY <2>4, RangeOfSeq
  <2> QED BY <2>1, <2>3, <2>5, MergeCites
<1>5. /\ <<Last(leaves)>> \in Seq(Range(<<Last(leaves)>>)) /\ DOMAIN <<Last(leaves)>> = {1}
      /\ <<Last(leaves)>>[1] = Last(leaves)
  BY ShortPlans
<1>6. nodes \in Seq(Range(nodes)) /\ DOMAIN nodes = 1..k /\ \A l \in 1..k : nodes[l] = node(l)
  <2>1. DOMAIN nodes = 1..k /\ \A l \in 1..k : nodes[l] = node(l)
    BY <1>3
  <2>2. nodes \in [1..k -> Range(nodes)]
    BY <1>3, <2>1 DEF Range
  <2> HIDE DEF nodes, node
  <2>3. nodes \in Seq(Range(nodes))
    BY <1>2, <2>2, SeqDef
  <2> QED BY <2>1, <2>3
<1> HIDE DEF nodes, node, levels
<1>7. PICK a, b, c : a = <<Last(leaves)>> /\ b = nodes /\ c = a \o b
  OBVIOUS
<1>8. /\ c \in Seq(Range(c)) /\ Len(a) \in Nat /\ Len(b) \in Nat
      /\ DOMAIN a = 1..Len(a) /\ DOMAIN b = 1..Len(b) /\ DOMAIN c = 1..(Len(a) + Len(b))
      /\ \A n \in 1..Len(a) : c[n] = a[n]
      /\ \A n \in 1..Len(b) : c[Len(a) + n] = b[n]
  <2>1. a \in Seq(Range(a)) /\ b \in Seq(Range(b))
    BY <1>5, <1>6, <1>7
  <2>2. c = a \o b
    BY <1>7
  <2> QED BY <2>1, <2>2, JoinedSeq
<1>9. Len(a) = 1
  BY <1>7
<1>10. c = Added(d, leaves)
  BY <1>7 DEF Added, node, nodes, levels
<1>11. \A n \in DOMAIN c \ {1} : \E l \in 1..k : c[n] = node(l)
  <2> SUFFICES ASSUME NEW n \in DOMAIN c \ {1} PROVE \E l \in 1..k : c[n] = node(l)
    OBVIOUS
  <2>1. n - 1 \in 1..Len(b) /\ n = Len(a) + (n - 1)
    BY <1>8, <1>9
  <2>2. c[n] = b[n - 1] /\ n - 1 \in 1..k
    BY <1>6, <1>7, <1>8, <2>1
  <2> QED BY <1>6, <1>7, <2>2
<1>12. 1 \in DOMAIN c /\ DOMAIN c \subseteq Nat \ {0} /\ c[1] = Last(leaves)
  <2>1. 1 \in 1..Len(a) /\ 1 \in 1..(Len(a) + Len(b)) /\ 1..(Len(a) + Len(b)) \subseteq Nat \ {0}
    BY <1>8, <1>9
  <2>2. c[1] = a[1] /\ a[1] = Last(leaves)
    BY <1>5, <1>7, <1>8, <2>1
  <2> QED BY <1>8, <2>1, <2>2
<1> QED BY <1>4, <1>8, <1>10, <1>11, <1>12

\* The manifests that are merged are durable, and so are the envelopes of their entries.
Sound(sources) ==
    \A m \in sources :
        /\ Object(m) \in Durable
        /\ \A e \in m.index.entries : LastReceipt(e) /\ Object(Envelope(e.key)) \in Durable

\* The attempts of a sample that are found are among those it has.
LEMMA FoundAttempts ==
    ASSUME NEW sources, Sound(sources), NEW s \in Samples,
           NEW found, found = {e.key[2] : e \in EntriesOf(sources, s)}
    PROVE  /\ Len(Outcome[s]) \in Nat /\ DOMAIN Outcome[s] = 1..Len(Outcome[s])
           /\ found \subseteq DOMAIN Outcome[s] /\ found \in SUBSET Nat /\ IsFiniteSet(found)
           /\ Cardinality(found) \in Nat
           /\ \A x \in found : Object(Envelope(<<s, x>>)) \in Durable
<1>1. Len(Outcome[s]) \in Nat /\ DOMAIN Outcome[s] = 1..Len(Outcome[s])
  <2>1. Outcome[s] \in Seq({"accepted", "rejected"})
    BY ReconciliationAssumption
  <2> QED BY <2>1, LenProperties
<1>2. ASSUME NEW x \in found
      PROVE  x \in DOMAIN Outcome[s] /\ Object(Envelope(<<s, x>>)) \in Durable
  <2>1. PICK e \in EntriesOf(sources, s) : x = e.key[2]
    OBVIOUS
  <2>2. e.key[1] = s /\ \E m \in sources : e \in m.index.entries
    BY DEF EntriesOf
  <2>3. LastReceipt(e) /\ Object(Envelope(e.key)) \in Durable
    BY <2>2 DEF Sound
  <2>4. e.key \in Keys(e.inventory)
    BY <2>3 DEF LastReceipt
  <2>5. PICK z, n : n \in DOMAIN Outcome[z] /\ e.key = <<z, n>>
    BY <2>4 DEF Keys
  <2>6. z = s /\ n = x
    BY <2>1, <2>2, <2>5
  <2> QED BY <2>3, <2>5, <2>6
<1>3. found \subseteq DOMAIN Outcome[s]
  BY <1>2
<1>4. IsFiniteSet(1..Len(Outcome[s]))
  BY <1>1, FS_Interval
<1>5. IsFiniteSet(found)
  BY <1>1, <1>3, <1>4, FS_Subset
<1>6. Cardinality(found) \in Nat
  BY <1>5, FS_CardinalityType
<1>7. found \in SUBSET Nat
  BY <1>1, <1>3
<1> QED BY <1>1, <1>2, <1>3, <1>5, <1>6, <1>7

\* A prefix that is not refused is an interval; it is accepted with the first
\* attempt the sample accepts, exhausted when there is none.
LEMMA ResolutionIs ==
    ASSUME NEW s \in Samples, NEW found \in SUBSET Nat, found \subseteq DOMAIN Outcome[s],
           Cardinality(found) \in Nat,
           Len(Outcome[s]) \in Nat, DOMAIN Outcome[s] = 1..Len(Outcome[s])
    PROVE  /\ Resolution(s, found) \in {"refused", "accepted", "exhausted"}
           /\ Resolution(s, found) # "refused" => found = 1..Cardinality(found)
           /\ Resolution(s, found) = "accepted" =>
                /\ Acceptances(s) # {} /\ Min(Acceptances(s)) = Cardinality(found)
                /\ Cardinality(found) # 0
           /\ Resolution(s, found) = "exhausted" => Acceptances(s) = {}
<1> DEFINE accepted == {n \in found : Accepted(<<s, n>>)}
           C == Cardinality(found)
<1>1. /\ Resolution(s, found) \in {"refused", "accepted", "exhausted"}
      /\ Resolution(s, found) # "refused" => found = 1..C /\ \A n \in accepted : n = Max(found)
      /\ Resolution(s, found) = "accepted" => accepted # {}
      /\ Resolution(s, found) = "exhausted" => accepted = {} /\ ~(C < Len(Outcome[s]))
  BY DEF Resolution
<1>2. ASSUME Resolution(s, found) = "accepted"
      PROVE  Acceptances(s) # {} /\ Min(Acceptances(s)) = C /\ C # 0
  <2>1. PICK a \in accepted : a = Max(found)
    BY <1>1, <1>2
  <2>2. found = 1..C /\ a \in 1..C /\ a \in Acceptances(s)
    <3>1. found = 1..C
      BY <1>1, <1>2
    <3> QED BY <3>1 DEF Acceptances
  <2>3. C \in 1..C
    BY <2>2
  <2>4. Max(found) = C
    <3>1. C \in found /\ \A y \in found : C >= y
      BY <2>2, <2>3
    <3>2. \E x \in found : \A y \in found : x >= y
      BY <3>1
    <3>3. Max(found) \in found /\ \A y \in found : Max(found) >= y
      BY <3>2 DEF Max
    <3>4. Max(found) \in 1..C /\ C \in Nat
      BY <2>2, <3>3
    <3> QED BY <3>1, <3>3, <3>4
  <2>5. C \in Acceptances(s)
    BY <2>1, <2>2, <2>4
  <2>6. \A y \in Acceptances(s) : C <= y
    <3> SUFFICES ASSUME NEW y \in Acceptances(s), y < C PROVE FALSE
      BY DEF Acceptances
    <3>1. y \in accepted
      BY <2>2 DEF Acceptances
    <3>2. y = C
      BY <1>1, <1>2, <2>4, <3>1
    <3> QED BY <3>2
  <2>7. Min(Acceptances(s)) = C
    <3>1. \E x \in Acceptances(s) : \A y \in Acceptances(s) : x <= y
      BY <2>5, <2>6
    <3>2. /\ Min(Acceptances(s)) \in Acceptances(s)
          /\ \A y \in Acceptances(s) : Min(Acceptances(s)) <= y
      BY <3>1 DEF Min
    <3>3. Acceptances(s) \subseteq Nat
      BY DEF Acceptances
    <3> QED BY <2>5, <2>6, <3>2, <3>3
  <2> QED BY <2>3, <2>5, <2>7
<1>3. ASSUME Resolution(s, found) = "exhausted"
      PROVE  Acceptances(s) = {}
  <2>1. found = 1..C /\ accepted = {} /\ ~(C < Len(Outcome[s]))
    BY <1>1, <1>3
  <2>2. DOMAIN Outcome[s] \subseteq found
    BY <2>1
  <2> QED BY <2>1, <2>2 DEF Acceptances
<1> QED BY <1>1, <1>2, <1>3

\* What the resolution of the samples has made so far: the records of the corpus
\* and of the runs are among the objects.
Made(r) ==
    /\ r = [sound |-> r.sound, corpus |-> r.corpus, runs |-> r.runs, objects |-> r.objects]
    /\ r.objects \in Seq(Range(r.objects)) /\ Founded(r.objects)
    /\ r.corpus \in Seq(Range(r.corpus)) /\ r.runs \in Seq(Range(r.runs))
    /\ Range(r.corpus) \cup Range(r.runs) \subseteq Range(r.objects)
    /\ \A v \in Range(r.objects) : Merged(v)

\* The attempts of a sample, as they are found, and their attestations.
Attests(sources, s, found, attempts, attested) ==
    /\ found = {e.key[2] : e \in EntriesOf(sources, s)}
    /\ attempts = [n \in 1..Cardinality(found) |-> <<s, Nth(found, n)>>]
    /\ attested = [n \in DOMAIN attempts |-> Attestation(attempts[n])]

\* The attempts found are attested; when they are not refused, they are numbered through.
LEMMA AttestedAttempts ==
    ASSUME NEW sources, Sound(sources), NEW s \in Samples,
           NEW found, NEW attempts, NEW attested, Attests(sources, s, found, attempts, attested)
    PROVE  /\ attempts \in Seq(Range(attempts)) /\ attested \in Seq(Range(attested))
           /\ {Attestation(a) : a \in Range(attempts)} = Range(attested)
           /\ \A v \in Range(attested) : Merged(v)
           /\ \A n \in DOMAIN attested : \A v \in Cited(Object(attested[n])) : Object(v) \in Durable
           /\ found # {} => Cardinality(found) # 0
           /\ found = 1..Cardinality(found) => \A n \in 1..Cardinality(found) : attempts[n] = <<s, n>>
           /\ Len(attempts) = Cardinality(found) /\ Cardinality(found) \in Nat
           /\ DOMAIN attempts = 1..Cardinality(found)
<1>1. /\ found \in SUBSET Nat /\ IsFiniteSet(found) /\ Cardinality(found) \in Nat
      /\ \A x \in found : Object(Envelope(<<s, x>>)) \in Durable
  BY FoundAttempts DEF Attests
<1>2. PICK C \in Nat : C = Cardinality(found)
  BY <1>1
<1>3. \A n \in 1..C : Nth(found, n) \in found
  BY <1>1, <1>2, NthMember
<1>4. /\ DOMAIN attempts = 1..C /\ DOMAIN attested = 1..C
      /\ \A n \in 1..C : attempts[n] = <<s, Nth(found, n)>> /\ attested[n] = Attestation(attempts[n])
  BY <1>2 DEF Attests
<1>5. attempts \in [1..C -> Range(attempts)] /\ attested \in [1..C -> Range(attested)]
  BY <1>2, <1>4 DEF Range, Attests
<1>6. attempts \in Seq(Range(attempts)) /\ attested \in Seq(Range(attested)) /\ Len(attempts) = C
  <2>1. \A f : f \in [1..C -> Range(f)] => f \in Seq(Range(f)) /\ Len(f) = C
    BY IntervalSeq
  <2> QED BY <1>5, <2>1
<1>7. {Attestation(a) : a \in Range(attempts)} = Range(attested)
  <2>1. Range(attempts) = {attempts[n] : n \in 1..C}
    BY <1>4 DEF Range
  <2>2. Range(attested) = {attested[n] : n \in 1..C}
    BY <1>4 DEF Range
  <2>3. \A n \in 1..C : attested[n] = Attestation(attempts[n])
    BY <1>4
  <2>4. ASSUME NEW n \in 1..C
        PROVE  /\ attested[n] \in {Attestation(a) : a \in Range(attempts)}
               /\ Attestation(attempts[n]) \in Range(attested)
    BY <2>1, <2>2, <2>3, Zenon
  <2>5. Range(attested) \subseteq {Attestation(a) : a \in Range(attempts)}
    BY <2>2, <2>4
  <2>6. {Attestation(a) : a \in Range(attempts)} \subseteq Range(attested)
    <3> SUFFICES ASSUME NEW a \in Range(attempts) PROVE Attestation(a) \in Range(attested)
      OBVIOUS
    <3>1. PICK n \in 1..C : a = attempts[n]
      BY <2>1
    <3> QED BY <2>4, <3>1
  <2> QED BY <2>5, <2>6
<1>8. \A v \in Range(attested) : Merged(v)
  <2> SUFFICES ASSUME NEW n \in 1..C PROVE Merged(attested[n])
    BY <1>4 DEF Range
  <2>1. attested[n].kind = "attestation"
    BY <1>4, MergeCites
  <2> QED BY <2>1 DEF Merged
<1>9. ASSUME NEW n \in DOMAIN attested, NEW v \in Cited(Object(attested[n])) PROVE Object(v) \in Durable
  <2>1. attested[n] = Attestation(<<s, Nth(found, n)>>) /\ n \in 1..C
    BY <1>4
  <2>2. v = Envelope(<<s, Nth(found, n)>>)
    BY <1>9, <2>1, MergeCites
  <2> QED BY <1>1, <1>3, <2>1, <2>2
<1>10. found # {} => C # 0
  BY <1>1, <1>2, FS_EmptySet
<1>11. ASSUME found = 1..C, NEW n \in 1..C PROVE attempts[n] = <<s, n>>
  <2>1. Nth(found, n) = n
    BY <1>11, NthOfInterval
  <2> QED BY <1>4, <2>1
<1> QED BY <1>2, <1>4, <1>6, <1>7, <1>8, <1>9, <1>10, <1>11

Grown(s, leaves, d, e, grown, t) ==
    grown = Append(leaves, e) /\ t = s \o Added(d, grown)

\* A record is added, with the nodes it completes.
LEMMA RecordAdded ==
    ASSUME NEW s, s \in Seq(Range(s)), Founded(s), \A v \in Range(s) : Merged(v),
           NEW leaves, leaves \in Seq(Range(leaves)), Range(leaves) \subseteq Range(s),
           NEW e, Merged(e), \A v \in Cited(Object(e)) : Object(v) \in Durable \/ v \in Range(s),
           NEW d, NEW grown, NEW t, Grown(s, leaves, d, e, grown, t)
    PROVE  /\ t \in Seq(Range(t)) /\ Founded(t) /\ \A v \in Range(t) : Merged(v)
           /\ grown \in Seq(Range(grown)) /\ Range(grown) = Range(leaves) \cup {e}
           /\ Range(grown) \subseteq Range(t) /\ Range(s) \subseteq Range(t)
<1>1. /\ grown \in Seq(Range(grown)) /\ Range(grown) = Range(leaves) \cup {e}
      /\ Last(grown) = e /\ grown # <<>>
  <2>1. /\ grown \in Seq(Range(grown)) /\ Range(grown) = Range(leaves) \cup {e}
        /\ Last(grown) = e /\ DOMAIN grown = 1..(Len(leaves) + 1) /\ Len(leaves) \in Nat
    BY AppendedSeq DEF Grown
  <2>2. 1 \in DOMAIN grown
    BY <2>1
  <2> QED BY <2>1, <2>2
<1>2. PICK a : a = Added(d, grown)
  OBVIOUS
<1>3. /\ a \in Seq(Range(a)) /\ 1 \in DOMAIN a /\ DOMAIN a \subseteq Nat \ {0} /\ a[1] = e
      /\ \A n \in DOMAIN a \ {1} :
            a[n].kind = "node" /\ Cited(Object(a[n])) \subseteq Range(leaves) \cup {e}
  BY <1>1, <1>2, AddedNodes
<1>4. FoundedOn(s, a)
  <2> SUFFICES ASSUME NEW n \in DOMAIN a, NEW v \in Cited(Object(a[n]))
               PROVE  Object(v) \in Durable \/ v \in Range(s) \/ \E m \in 1..(n - 1) : a[m] = v
    BY DEF FoundedOn
  <2>1. CASE n = 1
    BY <1>3, <2>1
  <2>2. CASE n # 1
    <3>1. v \in Range(s) \/ v = e
      BY <1>3, <2>2
    <3>2. 1 \in 1..(n - 1)
      BY <1>3, <2>2
    <3> QED BY <1>3, <3>1, <3>2
  <2> QED BY <2>1, <2>2
<1>5. \A v \in Range(a) : Merged(v)
  <2> SUFFICES ASSUME NEW n \in DOMAIN a PROVE Merged(a[n])
    BY DEF Range
  <2> QED BY <1>3 DEF Merged
<1>6. t = s \o a
  BY <1>2 DEF Grown
<1>7. /\ Founded(t) /\ t \in Seq(Range(t)) /\ Range(t) = Range(s) \cup Range(a)
      /\ \A v \in Range(t) : Merged(v)
  BY <1>3, <1>4, <1>5, <1>6, FoundedJoin
<1>8. e \in Range(a)
  BY <1>3 DEF Range
<1> QED BY <1>1, <1>7, <1>8

\* Resolving one more sample keeps the order of the objects, and the corpus gets
\* the first attempt the sample accepts.
LEMMA SampleResolved ==
    ASSUME NEW i, NEW sources, Sound(sources), NEW s \in Samples, NEW r, Made(r),
           NEW next, next = ResolveSample(i, sources, r, s)
    PROVE  /\ Made(next)
           /\ next.sound =>
                /\ r.sound
                /\ next.corpus = IF Acceptances(s) = {} THEN r.corpus
                                 ELSE Append(r.corpus, SemanticRecord(<<s, Min(Acceptances(s))>>))
<1>1. PICK found, attempts, attested, verdict, selected, corpus, runs, record :
          /\ found = {e.key[2] : e \in EntriesOf(sources, s)}
          /\ attempts = [n \in 1..Cardinality(found) |-> <<s, Nth(found, n)>>]
          /\ attested = [n \in DOMAIN attempts |-> Attestation(attempts[n])]
          /\ verdict = Resolution(s, found)
          /\ selected = IF verdict = "accepted" THEN Last(attempts) ELSE None
          /\ corpus = IF verdict = "accepted"
                      THEN Append(r.corpus, SemanticRecord(selected)) ELSE r.corpus
          /\ record = RunRecord(i, s, SourcesOf(sources, s), attempts, selected)
          /\ runs = Append(r.runs, record)
  OBVIOUS
<1>2. next =
        IF ~r.sound \/ found = {} THEN [r EXCEPT !.sound = FALSE]
        ELSE IF verdict = "refused"
             THEN [r EXCEPT !.sound = FALSE, !.objects = r.objects \o attested]
        ELSE [sound   |-> TRUE, corpus |-> corpus, runs |-> runs,
              objects |-> r.objects \o attested
                            \o (IF verdict = "accepted" THEN Added("semantic", corpus) ELSE <<>>)
                            \o Added("run", runs)]
  BY <1>1 DEF ResolveSample
<1>3. /\ attempts \in Seq(Range(attempts)) /\ attested \in Seq(Range(attested))
      /\ {Attestation(a) : a \in Range(attempts)} = Range(attested)
      /\ \A v \in Range(attested) : Merged(v)
      /\ \A n \in DOMAIN attested : \A v \in Cited(Object(attested[n])) : Object(v) \in Durable
      /\ found # {} => Cardinality(found) # 0
      /\ found = 1..Cardinality(found) => \A n \in 1..Cardinality(found) : attempts[n] = <<s, n>>
      /\ Len(attempts) = Cardinality(found) /\ Cardinality(found) \in Nat
      /\ DOMAIN attempts = 1..Cardinality(found)
  <2>1. Attests(sources, s, found, attempts, attested)
    BY <1>1 DEF Attests
  <2> QED BY <2>1, AttestedAttempts
<1>4. /\ verdict \in {"refused", "accepted", "exhausted"}
      /\ verdict # "refused" => found = 1..Cardinality(found)
      /\ verdict = "accepted" =>
           /\ Acceptances(s) # {} /\ Min(Acceptances(s)) = Cardinality(found) /\ Cardinality(found) # 0
      /\ verdict = "exhausted" => Acceptances(s) = {}
  <2>1. /\ Len(Outcome[s]) \in Nat /\ DOMAIN Outcome[s] = 1..Len(Outcome[s])
        /\ found \subseteq DOMAIN Outcome[s] /\ found \in SUBSET Nat /\ Cardinality(found) \in Nat
    BY <1>1, FoundAttempts
  <2> QED BY <1>1, <2>1, ResolutionIs
<1>5. CASE ~r.sound \/ found = {}
  <2>1. /\ next = [sound |-> FALSE, corpus |-> r.corpus, runs |-> r.runs, objects |-> r.objects]
    BY <1>2, <1>5 DEF Made
  <2>2. /\ next.corpus = r.corpus /\ next.runs = r.runs /\ next.objects = r.objects
        /\ next.sound = FALSE
    BY <2>1
  <2> QED BY <2>1, <2>2 DEF Made
<1>6. PICK first : first = r.objects \o attested
  OBVIOUS
<1>7. /\ Founded(first) /\ first \in Seq(Range(first))
      /\ Range(first) = Range(r.objects) \cup Range(attested)
      /\ \A v \in Range(first) : Merged(v)
  <2>1. FoundedOn(r.objects, attested)
    BY <1>3 DEF FoundedOn
  <2> QED BY <1>3, <1>6, <2>1, FoundedJoin DEF Made
<1>8. CASE r.sound /\ found # {} /\ verdict = "refused"
  <2>1. next = [sound |-> FALSE, corpus |-> r.corpus, runs |-> r.runs, objects |-> first]
    BY <1>2, <1>6, <1>8 DEF Made
  <2>2. /\ next.corpus = r.corpus /\ next.runs = r.runs /\ next.objects = first
        /\ next.sound = FALSE
    BY <2>1
  <2> QED BY <1>7, <2>1, <2>2 DEF Made
<1>9. CASE r.sound /\ found # {} /\ verdict # "refused"
  <2>1. /\ found = 1..Cardinality(found) /\ Cardinality(found) \in Nat \ {0}
        /\ \A n \in 1..Cardinality(found) : attempts[n] = <<s, n>>
    BY <1>3, <1>4, <1>9
  <2>2. PICK second : second = IF verdict = "accepted" THEN first \o Added("semantic", corpus) ELSE first
    OBVIOUS
  <2>3. /\ second \in Seq(Range(second)) /\ Founded(second) /\ \A v \in Range(second) : Merged(v)
        /\ corpus \in Seq(Range(corpus)) /\ Range(corpus) \subseteq Range(second)
        /\ Range(first) \subseteq Range(second)
    <3>1. CASE verdict = "accepted"
      <4>1. PICK e : e = SemanticRecord(selected)
        OBVIOUS
      <4>2. selected = <<s, Cardinality(found)>>
        <5>1. selected = attempts[Len(attempts)]
          BY <1>1, <3>1 DEF Last
        <5> QED BY <1>3, <2>1, <5>1
      <4>3. \A v \in Cited(Object(e)) : v \in Range(first)
        <5> SUFFICES ASSUME NEW v \in Cited(Object(e)) PROVE v \in Range(attested)
          BY <1>7
        <5>1. PICK a \in Range([n \in 1..(selected[2] - 1) |-> <<selected[1], n>>]) \cup {selected} :
                  v = Attestation(a)
          BY <4>1, MergeCites
        <5>2. \E n \in 1..Cardinality(found) : a = <<s, n>>
          <6>1. CASE a = selected
            BY <2>1, <4>2, <6>1
          <6>2. CASE a \in Range([n \in 1..(selected[2] - 1) |-> <<selected[1], n>>])
            <7>1. selected[2] = Cardinality(found) /\ selected[1] = s
              BY <4>2
            <7>2. PICK n \in 1..(selected[2] - 1) : a = <<selected[1], n>>
              BY <6>2 DEF Range
            <7> QED BY <2>1, <7>1, <7>2
          <6> QED BY <5>1, <6>1, <6>2
        <5>3. a \in Range(attempts)
          BY <1>3, <2>1, <5>2 DEF Range
        <5> QED BY <1>3, <5>1, <5>3
      <4>4. Merged(e)
        <5>1. e.kind = "semantic"
          BY <4>1, MergeCites
        <5> QED BY <5>1 DEF Merged
      <4>5. Grown(first, r.corpus, "semantic", e, corpus, second)
        BY <1>1, <2>2, <3>1, <4>1 DEF Grown
      <4>6. r.corpus \in Seq(Range(r.corpus)) /\ Range(r.corpus) \subseteq Range(first)
        BY <1>7 DEF Made
      <4> QED BY <1>7, <4>3, <4>4, <4>5, <4>6, RecordAdded
    <3>2. CASE verdict # "accepted"
      <4>1. corpus = r.corpus /\ second = first
        BY <1>1, <2>2, <3>2
      <4> QED BY <1>7, <4>1 DEF Made
    <3> QED BY <3>1, <3>2
  <2>4. PICK third : third = second \o Added("run", runs)
    OBVIOUS
  <2>5. /\ third \in Seq(Range(third)) /\ Founded(third) /\ \A v \in Range(third) : Merged(v)
        /\ runs \in Seq(Range(runs)) /\ Range(runs) \subseteq Range(third)
        /\ Range(second) \subseteq Range(third)
    <3>1. record.kind = "evidence" /\ Cited(Object(record)) = SourcesOf(sources, s) \cup Range(attested)
      <4>1. /\ record.kind = "evidence"
            /\ Cited(Object(record)) = SourcesOf(sources, s) \cup {Attestation(a) : a \in Range(attempts)}
        <5>1. record = RunRecord(i, s, SourcesOf(sources, s), attempts, selected)
          BY <1>1
        <5> QED BY <5>1 DEF RunRecord, Cited, Object, Categories
      <4> QED BY <1>3, <4>1
    <3>2. \A v \in Cited(Object(record)) : Object(v) \in Durable \/ v \in Range(second)
      BY <1>7, <2>3, <3>1 DEF SourcesOf, Sound
    <3>3. Merged(record)
      BY <3>1 DEF Merged
    <3>4. r.runs \in Seq(Range(r.runs)) /\ Range(r.runs) \subseteq Range(second)
      BY <1>7, <2>3 DEF Made
    <3>5. Grown(second, r.runs, "run", record, runs, third)
      BY <1>1, <2>4 DEF Grown
    <3> QED BY <2>3, <3>2, <3>3, <3>4, <3>5, RecordAdded
  <2>6. next = [sound |-> TRUE, corpus |-> corpus, runs |-> runs, objects |-> third]
    <3>1. CASE verdict = "accepted"
      <4>1. third = r.objects \o attested \o Added("semantic", corpus) \o Added("run", runs)
        BY <1>6, <2>2, <2>4, <3>1
      <4>2. next = [sound   |-> TRUE, corpus |-> corpus, runs |-> runs,
                    objects |-> r.objects \o attested \o Added("semantic", corpus) \o Added("run", runs)]
        BY <1>2, <1>9, <3>1
      <4> QED BY <4>1, <4>2
    <3>2. CASE verdict # "accepted"
      <4>1. first \o <<>> = first
        BY <1>7, ConcatEmptySeq
      <4>2. third = r.objects \o attested \o <<>> \o Added("run", runs)
        BY <1>6, <2>2, <2>4, <3>2, <4>1
      <4>3. next = [sound   |-> TRUE, corpus |-> corpus, runs |-> runs,
                    objects |-> r.objects \o attested \o <<>> \o Added("run", runs)]
        BY <1>2, <1>9, <3>2
      <4> QED BY <4>2, <4>3
    <3> QED BY <3>1, <3>2
  <2>7. /\ next.sound = TRUE /\ next.corpus = corpus /\ next.runs = runs /\ next.objects = third
    BY <2>6
  <2>8. Made(next)
    BY <2>3, <2>5, <2>6, <2>7 DEF Made
  <2>9. corpus = IF Acceptances(s) = {} THEN r.corpus
                 ELSE Append(r.corpus, SemanticRecord(<<s, Min(Acceptances(s))>>))
    <3>1. CASE verdict = "accepted"
      <4>1. selected = <<s, Min(Acceptances(s))>>
        <5>1. selected = attempts[Len(attempts)]
          BY <1>1, <3>1 DEF Last
        <5> QED BY <1>3, <1>4, <2>1, <3>1, <5>1
      <4> QED BY <1>1, <1>4, <3>1, <4>1
    <3>2. CASE verdict = "exhausted"
      BY <1>1, <1>4, <3>2
    <3> QED BY <1>4, <1>9, <3>1, <3>2
  <2> QED BY <1>9, <2>7, <2>8, <2>9
<1> QED BY <1>4, <1>5, <1>8, <1>9

\* One function makes every step of the resolution.
IsMade(f, i, sources, n) ==
    f = [m \in 0..n |->
            IF m = 0 THEN [sound |-> TRUE, corpus |-> <<>>, runs |-> <<>>, objects |-> <<>>]
            ELSE ResolveSample(i, sources, f[m - 1], SamplesOf[i][m])]

\* The recursion of the resolution has a solution, of any length.
LEMMA MadeExists ==
    ASSUME NEW i, NEW sources, NEW n \in Nat
    PROVE  \E f : IsMade(f, i, sources, n)
<1> DEFINE S == {m \in Nat : ~ \E f : IsMade(f, i, sources, m)}
           start == [sound |-> TRUE, corpus |-> <<>>, runs |-> <<>>, objects |-> <<>>]
<1> SUFFICES ASSUME S # {} PROVE FALSE
  OBVIOUS
<1>1. PICK k \in S : \A m \in S : k <= m
  <2>1. S \in SUBSET Nat
    OBVIOUS
  <2> HIDE DEF S
  <2> QED BY <2>1, LeastMember
<1>2. k \in Nat /\ ~ \E f : IsMade(f, i, sources, k)
  OBVIOUS
<1>3. CASE k = 0
  <2>1. PICK f : f = [m \in 0..0 |-> start]
    OBVIOUS
  <2>2. \A m \in 0..0 : m = 0
    OBVIOUS
  <2>3. f = [m \in 0..0 |-> IF m = 0 THEN start ELSE ResolveSample(i, sources, f[m - 1], SamplesOf[i][m])]
    <3> HIDE DEF start
    <3> QED BY <2>1, <2>2
  <2>4. IsMade(f, i, sources, 0)
    BY <2>3 DEF IsMade
  <2> QED BY <1>2, <1>3, <2>4
<1>4. CASE k # 0
  <2>1. k - 1 \in Nat /\ k - 1 \notin S
    BY <1>1, <1>2, <1>4
  <2>2. PICK f : IsMade(f, i, sources, k - 1)
    BY <2>1
  <2>3. PICK g : g = [m \in 0..k |-> IF m < k THEN f[m] ELSE ResolveSample(i, sources, f[k - 1], SamplesOf[i][k])]
    OBVIOUS
  <2> HIDE DEF start, S
  <2>4. DOMAIN f = 0..(k - 1) /\ \A m \in 0..(k - 1) :
            f[m] = IF m = 0 THEN start ELSE ResolveSample(i, sources, f[m - 1], SamplesOf[i][m])
    BY <2>2 DEF IsMade, start
  <2>5. DOMAIN g = 0..k /\ g = [m \in 0..k |-> g[m]]
    BY <2>3
  <2>6. \A m \in 0..(k - 1) : g[m] = f[m]
    BY <1>2, <2>3
  <2>7. ASSUME NEW m \in 0..k
        PROVE  g[m] = IF m = 0 THEN start ELSE ResolveSample(i, sources, g[m - 1], SamplesOf[i][m])
    <3>1. CASE m = 0
      <4>1. m \in 0..(k - 1)
        BY <1>2, <1>4, <3>1
      <4> QED BY <2>4, <2>6, <3>1, <4>1
    <3>2. CASE m # 0 /\ m < k
      <4>1. m \in 0..(k - 1) /\ m - 1 \in 0..(k - 1)
        BY <1>2, <3>2
      <4>2. g[m] = f[m] /\ g[m - 1] = f[m - 1]
        BY <2>6, <4>1
      <4>3. f[m] = ResolveSample(i, sources, f[m - 1], SamplesOf[i][m])
        BY <2>4, <3>2, <4>1
      <4> QED BY <3>2, <4>2, <4>3
    <3>3. CASE m = k
      <4>1. g[k] = ResolveSample(i, sources, f[k - 1], SamplesOf[i][k])
        BY <1>2, <2>3
      <4>2. k - 1 \in 0..(k - 1)
        BY <2>1
      <4>3. g[k - 1] = f[k - 1]
        BY <2>6, <4>2
      <4> QED BY <1>4, <3>3, <4>1, <4>3
    <3> QED BY <1>2, <3>1, <3>2, <3>3
  <2>8. g = [m \in 0..k |-> IF m = 0 THEN start ELSE ResolveSample(i, sources, g[m - 1], SamplesOf[i][m])]
    BY <2>5, <2>7, Zenon
  <2>9. IsMade(g, i, sources, k)
    BY <2>8 DEF IsMade, start
  <2> QED BY <1>2, <2>9
<1> QED BY <1>3, <1>4

\* The steps of the resolution, one sample after the other.
LEMMA ResolvedSteps ==
    ASSUME NEW i \in Inventories, NEW sources, NEW made, made = Resolved(i, sources)
    PROVE  /\ Len(SamplesOf[i]) \in Nat /\ DOMAIN SamplesOf[i] = 1..Len(SamplesOf[i])
           /\ \A n \in 1..Len(SamplesOf[i]) : SamplesOf[i][n] \in Samples
           /\ made[0] = [sound |-> TRUE, corpus |-> <<>>, runs |-> <<>>, objects |-> <<>>]
           /\ \A n \in 1..Len(SamplesOf[i]) :
                 made[n] = ResolveSample(i, sources, made[n - 1], SamplesOf[i][n])
<1>1. SamplesOf[i] \in Seq(Samples)
  BY ReconciliationAssumption
<1>2. PICK L : L = Len(SamplesOf[i])
  OBVIOUS
<1>3. L \in Nat /\ DOMAIN SamplesOf[i] = 1..L /\ \A n \in 1..L : SamplesOf[i][n] \in Samples
  <2>1. L \in Nat /\ DOMAIN SamplesOf[i] = 1..L
    BY <1>1, <1>2, LenProperties
  <2>2. \A n \in 1..L : SamplesOf[i][n] \in Samples
    BY <1>1, <1>2, ElementOfSeq
  <2> QED BY <2>1, <2>2
<1>4. made = CHOOSE f : IsMade(f, i, sources, L)
  BY <1>2, Zenon DEF Resolved, IsMade
<1>5. IsMade(made, i, sources, L)
  <2>1. \E f : IsMade(f, i, sources, L)
    BY <1>3, MadeExists
  <2> QED BY <1>4, <2>1
<1> DEFINE start == [sound |-> TRUE, corpus |-> <<>>, runs |-> <<>>, objects |-> <<>>]
<1>6. \A n \in 0..L : made[n] = IF n = 0 THEN start
                                 ELSE ResolveSample(i, sources, made[n - 1], SamplesOf[i][n])
  BY <1>5 DEF IsMade
<1> HIDE DEF start
<1>7. made[0] = start
  <2>1. 0 \in 0..L
    BY <1>3
  <2> QED BY <1>6, <2>1
<1>8. ASSUME NEW n \in 1..L PROVE made[n] = ResolveSample(i, sources, made[n - 1], SamplesOf[i][n])
  <2>1. n \in 0..L /\ n # 0
    BY <1>3
  <2> QED BY <1>6, <2>1
<1> QED BY <1>2, <1>3, <1>7, <1>8 DEF start

\* Whatever part of the resolution is made, its objects are in order.
LEMMA AllMade ==
    ASSUME NEW i \in Inventories, NEW sources, Sound(sources), NEW made, made = Resolved(i, sources)
    PROVE  \A n \in 0..Len(SamplesOf[i]) : Made(made[n])
<1>1. PICK L : L = Len(SamplesOf[i])
  OBVIOUS
<1>2. /\ L \in Nat
      /\ \A n \in 1..L : SamplesOf[i][n] \in Samples
      /\ made[0] = [sound |-> TRUE, corpus |-> <<>>, runs |-> <<>>, objects |-> <<>>]
      /\ \A n \in 1..L : made[n] = ResolveSample(i, sources, made[n - 1], SamplesOf[i][n])
  BY <1>1, ResolvedSteps
<1> DEFINE S == {n \in 0..L : ~Made(made[n])}
<1>3. S \in SUBSET Nat
  BY <1>2
<1>4. SUFFICES ASSUME S # {} PROVE FALSE
  BY <1>1
<1>5. PICK k \in S : \A n \in S : k <= n
  <2> HIDE DEF S
  <2> QED BY <1>3, <1>4, LeastMember
<1>6. CASE k = 0
  <2>1. PICK e : e = <<>>
    OBVIOUS
  <2>2. e \in Seq(Range(e)) /\ DOMAIN e = {} /\ Range(e) = {}
    <3>1. e \in Seq({}) /\ DOMAIN e = {}
      BY <2>1
    <3> QED BY <3>1, SeqOfRange DEF Range
  <2>3. made[0] = [sound |-> TRUE, corpus |-> e, runs |-> e, objects |-> e]
    BY <1>2, <2>1
  <2>4. made[0].corpus = e /\ made[0].runs = e /\ made[0].objects = e /\ made[0].sound = TRUE
    BY <2>3
  <2>5. Made(made[0])
    BY <2>2, <2>3, <2>4 DEF Made, Founded
  <2> QED BY <1>5, <1>6, <2>5
<1>7. CASE k # 0
  <2>1. k \in 1..L /\ k - 1 \in 0..L /\ k - 1 \notin S
    BY <1>2, <1>5, <1>7
  <2>2. Made(made[k - 1])
    BY <2>1
  <2>3. made[k] = ResolveSample(i, sources, made[k - 1], SamplesOf[i][k]) /\ SamplesOf[i][k] \in Samples
    BY <1>2, <2>1
  <2>4. Made(made[k])
    BY <2>2, <2>3, SampleResolved
  <2> QED BY <1>5, <2>4
<1> QED BY <1>6, <1>7

\* The manifests of every shard, each of them sealed and readable.
ChosenSources(i, chosen) ==
    \A n \in 0..(ShardsOf[i] - 1) : chosen[n] \in Sealed(i, n) /\ Readable(chosen[n]) /\ Readable(chosen[n].index)

\* The manifests of sealed shards can be relied on.
LEMMA SourcesSound ==
    ASSUME PublicationInv, NEW i \in Inventories, NEW chosen,
           DOMAIN chosen = 0..(ShardsOf[i] - 1), ChosenSources(i, chosen)
    PROVE  Sound(Range(chosen))
<1> SUFFICES ASSUME NEW n \in 0..(ShardsOf[i] - 1), NEW m, m = chosen[n]
             PROVE  /\ Object(m) \in Durable
                    /\ \A e \in m.index.entries : LastReceipt(e) /\ Object(Envelope(e.key)) \in Durable
  BY DEF Sound, Range
<1>1. m \in Sealed(i, n) /\ Object(m) \in visible
  BY DEF ChosenSources, Readable
<1>2. PICK f \in visible : f.at = "seals" /\ f.of = m /\ m.kind = "manifest"
  BY <1>1 DEF Sealed
<1>3. m \in Cited(f)
  BY <1>2 DEF Cited, Categories
<1>4. Object(m) \in Durable
  BY <1>2, <1>3 DEF PublicationInv, CitedIsDurable, Durable
<1>5. ASSUME NEW e \in m.index.entries
      PROVE  LastReceipt(e) /\ Object(Envelope(e.key)) \in Durable
  <2>1. Genuine(m)
    BY <1>1, FileFields DEF PublicationInv, ContentInv, Files
  <2>2. LastReceipt(e)
    BY <1>2, <2>1 DEF Genuine
  <2>3. Object(e) \in Durable
    BY <1>1, <1>2, ShardCites DEF PublicationInv, CitedIsDurable, Durable
  <2>4. Object(Reference(e.inventory, e.key)) \in Durable
    <3>1. Reference(e.inventory, e.key) \in Cited(Object(e))
      BY <2>2, ReceiptForms, ReceiptCites
    <3> QED BY <2>3, <3>1 DEF PublicationInv, CitedIsDurable, Durable
  <2>5. Envelope(e.key) \in Cited(Object(Reference(e.inventory, e.key)))
    BY CompletionCites
  <2> QED BY <2>2, <2>4, <2>5 DEF PublicationInv, CitedIsDurable, Durable
<1> QED BY <1>4, <1>5

\* The objects of a merge are in order; its seal is the last of them.
LEMMA ReconciledIs ==
    ASSUME NEW i \in Inventories, NEW sources, Sound(sources),
           NEW made, made = Resolved(i, sources)[Len(SamplesOf[i])],
           NEW done, done = Reconciled(i, sources)
    PROVE  /\ done.sound = made.sound
           /\ done.objects \in Seq(Range(done.objects)) /\ Founded(done.objects)
           /\ \A v \in Range(done.objects) : Merged(v)
           /\ done.sound => /\ done.objects # <<>> /\ Last(done.objects).kind = "merge"
                            /\ Last(done.objects).corpus.root.leaves = made.corpus
<1>1. Made(made)
  <2>1. Len(SamplesOf[i]) \in 0..Len(SamplesOf[i])
    BY ResolvedSteps
  <2> QED BY <2>1, AllMade
<1>2. PICK root1, root2, corpus, run, seal, roots, tail :
          /\ root1 = Root("semantic", made.corpus) /\ root2 = Root("run", made.runs)
          /\ corpus = Corpus(root1) /\ run = RunEvidence(i, sources, root2)
          /\ seal = MergeSeal(i, corpus, run, sources)
          /\ roots = <<root1, root2>> /\ tail = <<corpus, run, seal>>
  OBVIOUS
<1>3. done = IF ~made.sound THEN made ELSE [made EXCEPT !.objects = made.objects \o roots \o tail]
  BY <1>2 DEF Reconciled
<1>4. CASE ~made.sound
  BY <1>1, <1>3, <1>4 DEF Made
<1>5. CASE made.sound
  <2>1. PICK first, second : first = made.objects \o roots /\ second = first \o tail
    OBVIOUS
  <2>2. done.objects = second /\ done.sound = made.sound
    <3>1. done = [sound |-> made.sound, corpus |-> made.corpus, runs |-> made.runs, objects |-> second]
      BY <1>1, <1>3, <1>5, <2>1 DEF Made
    <3> QED BY <3>1
  <2>3. /\ roots \in Seq(Range(roots)) /\ DOMAIN roots = {1, 2}
        /\ roots[1] = root1 /\ roots[2] = root2
    BY <1>2, ShortPlans
  <2>4. /\ tail \in Seq(Range(tail)) /\ DOMAIN tail = {1, 2, 3}
        /\ tail[1] = corpus /\ tail[2] = run /\ tail[3] = seal
    BY <1>2, ShortPlans
  <2>5. /\ root1.kind = "root" /\ Cited(Object(root1)) = Range(made.corpus) /\ root1.leaves = made.corpus
        /\ root2.kind = "root" /\ Cited(Object(root2)) = Range(made.runs)
        /\ corpus.kind = "corpus" /\ Cited(Object(corpus)) = {root1} /\ corpus.root = root1
        /\ run.kind = "run" /\ Cited(Object(run)) = {root2} \cup sources
        /\ seal.kind = "merge" /\ Cited(Object(seal)) = {corpus, run} \cup sources /\ seal.corpus = corpus
    BY <1>2 DEF Root, Corpus, RunEvidence, MergeSeal, Cited, Object, Categories
  <2>6. \A v \in Range(roots) \cup Range(tail) : Merged(v)
    BY <2>3, <2>4, <2>5 DEF Range, Merged
  <2>7. FoundedOn(made.objects, roots)
    BY <1>1, <2>3, <2>5 DEF FoundedOn, Made
  <2>8. /\ first \in Seq(Range(first)) /\ Founded(first)
        /\ Range(first) = Range(made.objects) \cup Range(roots)
        /\ \A v \in Range(first) : Merged(v)
    BY <1>1, <2>1, <2>3, <2>6, <2>7, FoundedJoin DEF Made
  <2>9. FoundedOn(first, tail)
    <3>1. root1 \in Range(first) /\ root2 \in Range(first)
      BY <2>3, <2>8 DEF Range
    <3>2. \A v \in sources : Object(v) \in Durable
      BY DEF Sound
    <3>3. 1 \in 1..(3 - 1) /\ 2 \in 1..(3 - 1)
      OBVIOUS
    <3> QED BY <2>4, <2>5, <3>1, <3>2, <3>3 DEF FoundedOn
  <2>10. /\ second \in Seq(Range(second)) /\ Founded(second)
         /\ \A v \in Range(second) : Merged(v)
    BY <2>1, <2>4, <2>6, <2>8, <2>9, FoundedJoin
  <2>11. Last(second) = seal /\ second # <<>>
    <3>1. Len(tail) = 3 /\ 3 \in 1..3
      BY <1>2
    <3>2. /\ Len(second) = Len(first) + 3 /\ Len(first) \in Nat
          /\ second[Len(first) + 3] = tail[3] /\ DOMAIN second = 1..(Len(first) + 3)
      <4>1. PICK u : u = first \o tail
        OBVIOUS
      <4>2. /\ Len(u) = Len(first) + Len(tail) /\ Len(first) \in Nat
            /\ DOMAIN u = 1..(Len(first) + Len(tail))
            /\ \A n \in 1..Len(tail) : u[Len(first) + n] = tail[n]
        BY <2>4, <2>8, <4>1, JoinedSeq
      <4>3. second = u
        BY <2>1, <4>1
      <4> QED BY <3>1, <4>2, <4>3
    <3>3. 1 \in DOMAIN second
      BY <3>2
    <3> QED BY <2>4, <3>2, <3>3 DEF Last
  <2> QED BY <2>2, <2>5, <2>10, <2>11
<1> QED BY <1>4, <1>5

\* The objects of a merge as files.
LEMMA MergeFiles ==
    ASSUME NEW objects, objects \in Seq(Range(objects)), Founded(objects),
           \A v \in Range(objects) : Merged(v),
           NEW files, files = [n \in DOMAIN objects |-> Object(objects[n])]
    PROVE  /\ files \in Seq(Range(files)) /\ Orderly(files)
           /\ \A f \in Range(files) : f.at = "object" /\ Merged(f.of)
           /\ \A v \in Range(objects) : Object(v) \in Range(files)
<1>1. PICK L : L = Len(objects)
  OBVIOUS
<1>2. L \in Nat /\ DOMAIN objects = 1..L
  BY <1>1, LenProperties
<1>3. /\ files \in Seq(Range(files)) /\ DOMAIN files = 1..L
      /\ \A n \in 1..L : files[n] = Object(objects[n])
  <2>1. files = [n \in 1..L |-> Object(objects[n])]
    BY <1>2
  <2>2. files \in [1..L -> Range(files)] /\ \A n \in 1..L : files[n] = Object(objects[n])
    BY <2>1 DEF Range
  <2> QED BY <1>2, <2>2, IntervalSeq
<1>4. ASSUME NEW f \in Range(files) PROVE f.at = "object" /\ Merged(f.of)
  <2>1. PICK n \in 1..L : f = Object(objects[n])
    BY <1>3 DEF Range
  <2>2. Object(objects[n]).at = "object" /\ Object(objects[n]).of = objects[n]
    BY FileFields
  <2>3. objects[n] \in Range(objects)
    BY <1>2 DEF Range
  <2> QED BY <2>1, <2>2, <2>3
<1>5. \A v \in Range(objects) : Object(v) \in Range(files)
  BY <1>2, <1>3 DEF Range
<1>6. ASSUME NEW n \in 1..L, NEW v \in Cited(files[n])
      PROVE  Object(v) \in Durable \/ \E m \in 1..(n - 1) : files[m] = Object(v)
  <2>1. Object(v) \in Durable \/ \E m \in 1..(n - 1) : objects[m] = v
    BY <1>2, <1>3, <1>6 DEF Founded
  <2>2. \A m \in 1..(n - 1) : m \in 1..L
    BY <1>2
  <2> QED BY <1>3, <2>1, <2>2
<1> QED BY <1>3, <1>4, <1>5, <1>6 DEF Orderly

\* A file that cites what the plan installs may come last in it.
LEMMA OrderlyAppend ==
    ASSUME NEW files, files \in Seq(Range(files)), Orderly(files),
           NEW last, \A v \in Cited(last) : Object(v) \in Range(files),
           NEW a, a = Append(files, last)
    PROVE  a \in Seq(Range(a)) /\ Orderly(a) /\ Range(a) = Range(files) \cup {last}
<1>1. PICK L : L = Len(files)
  OBVIOUS
<1>2. /\ a \in Seq(Range(a)) /\ Range(a) = Range(files) \cup {last}
      /\ L \in Nat /\ DOMAIN files = 1..L
      /\ DOMAIN a = 1..(L + 1) /\ a[L + 1] = last /\ \A n \in 1..L : a[n] = files[n]
  BY <1>1, AppendedSeq
<1>3. Orderly(a)
  <2> SUFFICES ASSUME NEW n \in 1..(L + 1), NEW v \in Cited(a[n])
               PROVE  Object(v) \in Durable \/ \E m \in 1..(n - 1) : a[m] = Object(v)
    BY <1>2 DEF Orderly
  <2>1. CASE n \in 1..L
    <3>1. Object(v) \in Durable \/ \E m \in 1..(n - 1) : files[m] = Object(v)
      BY <1>2, <2>1 DEF Orderly
    <3>2. \A m \in 1..(n - 1) : m \in 1..L
      BY <1>2, <2>1
    <3> QED BY <1>2, <3>1, <3>2
  <2>2. CASE n = L + 1
    <3>1. PICK m \in 1..L : files[m] = Object(v)
      BY <1>2, <2>2 DEF Range
    <3>2. m \in 1..(n - 1) /\ a[m] = Object(v)
      BY <1>2, <2>2, <3>1
    <3> QED BY <3>2
  <2> QED BY <1>2, <2>1, <2>2
<1> QED BY <1>2, <1>3

\* What is merged: the objects, and how the worker goes on.
Merging(w, chosen, done, files, last) ==
    /\ done = Reconciled(job[w].inventory, Range(chosen))
    /\ files = [n \in DOMAIN done.objects |-> Object(done.objects[n])]
    /\ last = Ref("seals", job[w].inventory, 0, Last(done.objects))

\* The corpus a resolution ends with.
Merges(w, chosen) == Resolved(job[w].inventory, Range(chosen))[Len(SamplesOf[job[w].inventory])]

\* The plan of a merge, and the shards it is from.
Reconciles(w, chosen, done, files, last, taken) ==
    /\ DOMAIN chosen = 0..(ShardsOf[job[w].inventory] - 1)
    /\ ChosenSources(job[w].inventory, chosen)
    /\ Merging(w, chosen, done, files, last)
    /\ taken = IF done.sound THEN Append(files, last) ELSE files
    /\ Goto(w, IF done.sound THEN "merged" ELSE "unresolved", taken)
    /\ pending' \subseteq pending

\* A merge plans objects in order, and a seal only where every sample was resolved.
LEMMA MergePlan ==
    ASSUME NEW w \in Workers, PublicationInv, NEW chosen, NEW done, NEW files, NEW last, NEW taken,
           Reconciles(w, chosen, done, files, last, taken)
    PROVE  /\ taken \in Seq(Range(taken)) /\ Orderly(taken)
           /\ \A f \in Range(taken) :
                 \/ f.at = "object" /\ Merged(f.of)
                 \/ /\ f = last /\ last.at = "seals" /\ last.inventory = job[w].inventory
                    /\ last.of.kind = "merge" /\ Merges(w, chosen).sound
                    /\ last.of.corpus.root.leaves = Merges(w, chosen).corpus
<1>1. PICK i, sources, made : /\ i = job[w].inventory /\ sources = Range(chosen)
                              /\ made = Resolved(i, sources)[Len(SamplesOf[i])]
  OBVIOUS
<1>2. i \in Inventories
  BY <1>1 DEF PublicationInv, PublicationType, WorkerType
<1>3. Sound(sources)
  BY <1>1, <1>2, SourcesSound DEF Reconciles
<1>4. done = Reconciled(i, sources) /\ made = Merges(w, chosen)
  BY <1>1 DEF Reconciles, Merging, Merges
<1>5. /\ done.sound = made.sound
      /\ done.objects \in Seq(Range(done.objects)) /\ Founded(done.objects)
      /\ \A v \in Range(done.objects) : Merged(v)
      /\ done.sound => /\ done.objects # <<>> /\ Last(done.objects).kind = "merge"
                       /\ Last(done.objects).corpus.root.leaves = made.corpus
  <2>1. made = Resolved(i, sources)[Len(SamplesOf[i])] /\ done = Reconciled(i, sources)
    BY <1>1, <1>4
  <2> QED BY <1>2, <1>3, <2>1, ReconciledIs
<1>6. PICK objects : objects = done.objects
  OBVIOUS
<1>7. files = [n \in DOMAIN objects |-> Object(objects[n])]
  BY <1>6 DEF Reconciles, Merging
<1>8. "seals" \in Categories
  BY DEF Categories
<1>9. PICK v : v = Last(objects)
  OBVIOUS
<1>10. last = Ref("seals", i, 0, v)
  BY <1>1, <1>6, <1>9 DEF Reconciles, Merging
<1>11. last.at = "seals" /\ last.of = v /\ last.inventory = i /\ Cited(last) = {v}
  BY <1>8, <1>10, RefFields
<1>12. /\ files \in Seq(Range(files)) /\ Orderly(files)
       /\ \A f \in Range(files) : f.at = "object" /\ Merged(f.of)
       /\ \A u \in Range(objects) : Object(u) \in Range(files)
  BY <1>5, <1>6, <1>7, MergeFiles
<1>13. CASE done.sound
  <2>1. v \in Range(objects)
    <3>1. Len(objects) \in Nat /\ DOMAIN objects = 1..Len(objects) /\ Len(objects) # 0
      BY <1>5, <1>6, <1>13, LenProperties, EmptySeq
    <3> QED BY <1>9, <3>1 DEF Last, Range
  <2>2. taken = Append(files, last)
    BY <1>13 DEF Reconciles
  <2>3. taken \in Seq(Range(taken)) /\ Orderly(taken) /\ Range(taken) = Range(files) \cup {last}
    BY <1>11, <1>12, <2>1, <2>2, OrderlyAppend
  <2>4. /\ last.of.kind = "merge" /\ made.sound
        /\ last.of.corpus.root.leaves = made.corpus
    BY <1>5, <1>6, <1>9, <1>11, <1>13
  <2> QED BY <1>1, <1>4, <1>11, <1>12, <2>3, <2>4
<1>14. CASE ~done.sound
  BY <1>12, <1>14 DEF Reconciles
<1> QED BY <1>13, <1>14

\* What the action chooses.
LEMMA ReconcilePlan ==
    ASSUME NEW w \in Workers, Reconcile(w)
    PROVE  \E chosen, done, files, last, taken : Reconciles(w, chosen, done, files, last, taken)
<1> DEFINE i == job[w].inventory
           shards == 0..(ShardsOf[i] - 1)
<1>2. PICK chosen \in [shards -> UNION {Sealed(i, n) : n \in shards}] :
          /\ \A n \in shards : /\ chosen[n] \in Sealed(i, n)
                               /\ Readable(chosen[n]) /\ Readable(chosen[n].index)
          /\ LET made == Reconciled(i, Range(chosen))
                 files == [n \in DOMAIN made.objects |-> Object(made.objects[n])]
             IN  IF made.sound
                 THEN Goto(w, "merged", Append(files, Ref("seals", i, 0, Last(made.objects))))
                 ELSE Goto(w, "unresolved", files)
          /\ pending' = pending \ {Ref("seals", i, n, chosen[n]) : n \in shards}
  BY Zenon DEF Reconcile
<1>3. PICK done : done = Reconciled(i, Range(chosen))
  OBVIOUS
<1>4. PICK files, last : /\ files = [n \in DOMAIN done.objects |-> Object(done.objects[n])]
                         /\ last = Ref("seals", i, 0, Last(done.objects))
  OBVIOUS
<1>5. PICK taken : taken = IF done.sound THEN Append(files, last) ELSE files
  OBVIOUS
<1>6. IF done.sound THEN Goto(w, "merged", Append(files, last)) ELSE Goto(w, "unresolved", files)
  BY <1>2, <1>3, <1>4, Zenon
<1>7. Goto(w, IF done.sound THEN "merged" ELSE "unresolved", taken)
  <2>1. CASE done.sound
    BY <1>5, <1>6, <2>1
  <2>2. CASE ~done.sound
    BY <1>5, <1>6, <2>2
  <2> QED BY <2>1, <2>2
<1>8. DOMAIN chosen = 0..(ShardsOf[i] - 1) /\ ChosenSources(i, chosen) /\ pending' \subseteq pending
  BY <1>2 DEF ChosenSources
<1>9. Merging(w, chosen, done, files, last)
  BY <1>3, <1>4, Zenon DEF Merging
<1>10. Reconciles(w, chosen, done, files, last, taken)
  BY <1>5, <1>7, <1>8, <1>9 DEF Reconciles
<1> QED BY <1>10

\* A merge plans nothing that a claim or a receipt is about.
LEMMA ReconcileStep ==
    ASSUME NEW w \in Workers, PublicationInv, Reconcile(w)
    PROVE  PublicationInv'
<1>1. PICK chosen, done, files, last, taken : Reconciles(w, chosen, done, files, last, taken)
  BY ReconcilePlan
<1>2. PICK to : to = IF done.sound THEN "merged" ELSE "unresolved"
  OBVIOUS
<1>3. /\ stage' = [stage EXCEPT ![w] = to] /\ to \in {"merged", "unresolved"} /\ plan[w] = <<>>
      /\ UNCHANGED <<left, previous, receipts, owned, shard, job>>
      /\ stage \in [Workers -> Stages] /\ previous[w] = None
      /\ \A q \in receipts[w] : LastReceipt(q) /\ Object(q) \in Durable
  BY <1>1, <1>2, NothingPlanned
     DEF Reconciles, Reconcile, Ready, Goto, memory, PublicationInv, PublicationType
<1>4. stage'[w] = to
  BY <1>3
<1>5. Plans(w, taken)
  BY <1>1, <1>3 DEF Reconciles, Reconcile, Goto, Plans
<1>6. /\ taken \in Seq(Range(taken)) /\ Orderly(taken)
      /\ \A f \in Range(taken) :
            (f.at = "object" /\ Merged(f.of)) \/ f.at = "seals"
  BY <1>1, MergePlan
<1>7. Grows /\ PlanInv(w)' /\ plan'[w] = taken /\ Rest(w)
  <2>1. ASSUME NEW n \in DOMAIN taken
        PROVE  /\ taken[n].at # "claim"
               /\ taken[n].at = "object" =>
                     Genuine(taken[n].of) /\ taken[n].of.kind \notin {"envelope", "reference"}
    <3>1. taken[n] \in Range(taken)
      BY DEF Range
    <3> QED BY <1>6, <3>1 DEF Genuine, Merged
  <2> QED BY <1>5, <1>6, <2>1, PlainPlan
<1>8. MemoryInv(w)'
  <2>1. \A q \in receipts'[w] : LastReceipt(q)' /\ Coming(q, plan[w])'
    BY <1>3, <1>7 DEF Coming, Grows, LastReceipt, FirstReceipt
  <2> QED BY <1>3, <1>4, <2>1 DEF MemoryInv
<1>9. WorkerType(w)'
  BY <1>3, <1>6, <1>7 DEF WorkerType, PublicationInv, PublicationType
<1>10. /\ stage' \in [Workers -> Stages] /\ owned' \in [Workers -> BOOLEAN] /\ shard' \in [Workers -> Nat]
       /\ left' = [x \in Workers |-> left'[x]] /\ previous' = [x \in Workers |-> previous'[x]]
       /\ receipts' = [x \in Workers |-> receipts'[x]]
  BY <1>3 DEF PublicationInv, PublicationType, Stages
<1> QED BY <1>7, <1>8, <1>9, <1>10, Assemble

-----------------------------------------------------------------------------
(* The invariant of the specification.                                     *)

\* Any assignment starts well.
LEMMA InitPublication == Init => PublicationInv
BY StartsWell DEF Init

\* Every step keeps the invariant.
LEMMA NextPublication == PublicationInv /\ [Next]_vars => PublicationInv'
<1> SUFFICES ASSUME PublicationInv, [Next]_vars PROVE PublicationInv'
  OBVIOUS
<1>1. ASSUME NEW w \in Workers, Look(w) PROVE PublicationInv'
  BY <1>1, LookStep
<1>2. ASSUME NEW w \in Workers, Link(w) PROVE PublicationInv'
  BY <1>2, LinkStep
<1>3. ASSUME NEW w \in Workers, Flush(w) PROVE PublicationInv'
  BY <1>3, FlushStep
<1>4. ASSUME NEW w \in Workers, PublishEnvelope(w) \/ ReceiptEnvelope(w) PROVE PublicationInv'
  BY <1>4, PublishEnvelopeStep, ReceiptEnvelopeStep
<1>5. ASSUME NEW w \in Workers, PublishReference(w) \/ ReceiptReference(w) PROVE PublicationInv'
  BY <1>5, PublishReferenceStep, ReceiptReferenceStep
<1>6. ASSUME NEW w \in Workers, PublishIndex(w) \/ SealShard(w) PROVE PublicationInv'
  BY <1>6, PublishIndexStep, SealShardStep
<1>7. ASSUME NEW w \in Workers, Reconcile(w) PROVE PublicationInv'
  BY <1>7, ReconcileStep
<1>8. ASSUME NEW w \in Workers, Restart(w) PROVE PublicationInv'
  BY <1>8, RestartStep
<1>9. ASSUME NEW w \in Workers, Crash(w) \/ LinkFails(w) PROVE PublicationInv'
  BY <1>9, FailureSteps
<1>10. ASSUME PowerLoss PROVE PublicationInv'
  BY <1>10, FailureSteps
<1>11. ASSUME Recover PROVE PublicationInv'
  BY <1>11, RecoverStep
<1>12. ASSUME UNCHANGED vars PROVE PublicationInv'
  <2>1. UNCHANGED <<visible, pending, temps, job, stage, plan, step, left, previous, owned, receipts,
                    shard, failures>>
    BY <1>12 DEF vars
  <2>2. Grows
    BY <2>1 DEF Grows, Durable, Unclaimed
  <2>3. \A x \in Workers : step'[x] = "flush" => plan[x] # <<>> /\ Taken(Head(plan[x]))'
    BY <2>1, StaysTaken DEF PublicationInv, PlanInv
  <2>4. CitedIsDurable'
    BY <2>1 DEF PublicationInv, CitedIsDurable
  <2>5. ContentInv'
    BY <2>1, <2>2, GrowsKeeps DEF PublicationInv, ContentInv, Files
  <2>6. ClaimInv'
    BY <2>1, <2>2, GrowsKeeps DEF PublicationInv, ClaimInv, Grows
  <2> QED BY <2>1, <2>2, <2>3, <2>4, <2>5, <2>6, OnlyFiles DEF PublicationInv, PublicationType
<1> QED BY <1>1, <1>2, <1>3, <1>4, <1>5, <1>6, <1>7, <1>8, <1>9, <1>10, <1>11, <1>12 DEF Next

\* Whatever fails, nothing that can be read cites what a power loss can take away.
THEOREM SealedIsComplete == Spec => []CitedIsDurable
<1>1. PublicationInv => CitedIsDurable
  BY DEF PublicationInv
<1> QED BY <1>1, InitPublication, NextPublication, PTL DEF Spec

\* The claim of a receipt is met in one way only.
LEMMA ToldOnce ==
    ASSUME PublicationInv, NEW r, NEW q, Told(r), Told(q), ClaimOf(r) = ClaimOf(q),
           r.how \in {"published", "existing"}, q.how \in {"published", "existing"}
    PROVE  r.how = q.how
<1>1. /\ ClaimOf(r).at = "claim" /\ ClaimOf(r).of = ReceiptObject(r) /\ ClaimOf(q).of = ReceiptObject(q)
  BY FileFields DEF ClaimOf
<1>2. ReceiptObject(r) = ReceiptObject(q)
  BY <1>1
<1>3. \A f \in Durable : f.at = "claim" /\ f.of = ReceiptObject(r) /\ ClaimOf(r) \in Durable => f = ClaimOf(r)
  BY <1>1 DEF Durable, PublicationInv, ClaimInv, SamePath
<1>4. ClaimOf(r) \in Durable => ~Unclaimed(ReceiptObject(r))
  BY <1>1 DEF Unclaimed, Durable
<1> QED BY <1>2, <1>3, <1>4 DEF Told

\* Receipts that are alike in what identifies them are one.
LEMMA FirstIsUnique ==
    ASSUME PublicationInv, NEW r, NEW q, FirstReceipt(r), FirstReceipt(q), Told(r), Told(q),
           r.run = q.run, r.inventory = q.inventory, r.key = q.key
    PROVE  r = q
<1>1. ClaimOf(r) = ClaimOf(q)
  BY ReceiptForms DEF ClaimOf
<1>2. r.how = q.how
  BY <1>1, ToldOnce DEF FirstReceipt
<1>3. /\ r = Receipt(r.run, r.inventory, r.key, 0, r.how, None)
      /\ q = Receipt(q.run, q.inventory, q.key, 0, q.how, None)
  BY DEF FirstReceipt
<1> QED BY <1>2, <1>3

\* So are the receipts that name them.
LEMMA LastIsUnique ==
    ASSUME PublicationInv, NEW r, NEW q, LastReceipt(r), LastReceipt(q), Told(r), Told(q),
           Told(r.previous), Told(q.previous),
           r.run = q.run, r.inventory = q.inventory, r.key = q.key
    PROVE  r = q
<1>1. r.previous = q.previous
  BY FirstIsUnique DEF LastReceipt
<1>2. ClaimOf(r) = ClaimOf(q)
  BY <1>1, ReceiptForms DEF ClaimOf
<1>3. r.how = q.how
  BY <1>2, ToldOnce DEF LastReceipt
<1>4. /\ r = Receipt(r.run, r.inventory, r.key, 1, r.how, r.previous)
      /\ q = Receipt(q.run, q.inventory, q.key, 1, q.how, q.previous)
  BY DEF LastReceipt
<1> QED BY <1>1, <1>3, <1>4

\* Receipts agree because a claim is installed once, and before its object.
LEMMA AgreementFromClaims == PublicationInv => ReceiptsAgree
<1> SUFFICES ASSUME PublicationInv, NEW r \in Receipts, NEW q \in Receipts
             PROVE  /\ (r.run = q.run /\ r.inventory = q.inventory /\ r.key = q.key /\ r.ordinal = q.ordinal)
                          => r = q
                    /\ (ReceiptObject(r) = ReceiptObject(q) /\ r.how = "published" /\ q.how = "published")
                          => r.run = q.run /\ r.inventory = q.inventory
  BY DEF ReceiptsAgree
<1>1. ASSUME NEW v \in Receipts
      PROVE  Told(v) /\ (FirstReceipt(v) \/ (LastReceipt(v) /\ Told(v.previous)))
  <2>1. PICK f \in visible : f.at = "object" /\ v = f.of
    BY <1>1 DEF Receipts, Published
  <2>2. v.kind = "receipt"
    BY <1>1 DEF Receipts
  <2>3. Genuine(v)
    BY <2>1 DEF PublicationInv, ContentInv, Files
  <2> QED BY <2>2, <2>3 DEF Genuine
<1>2. ASSUME r.run = q.run, r.inventory = q.inventory, r.key = q.key, r.ordinal = q.ordinal
      PROVE  r = q
  <2>1. CASE FirstReceipt(r) /\ FirstReceipt(q)
    BY <1>1, <1>2, <2>1, FirstIsUnique
  <2>2. CASE LastReceipt(r) /\ Told(r.previous) /\ LastReceipt(q) /\ Told(q.previous)
    BY <1>1, <1>2, <2>2, LastIsUnique
  <2>3. ~(FirstReceipt(r) /\ LastReceipt(q)) /\ ~(LastReceipt(r) /\ FirstReceipt(q))
    BY <1>2, ReceiptForms
  <2> QED BY <1>1, <2>1, <2>2, <2>3
<1>3. ASSUME ReceiptObject(r) = ReceiptObject(q), r.how = "published", q.how = "published"
      PROVE  r.run = q.run /\ r.inventory = q.inventory
  <2>1. ClaimOf(r) \in Durable /\ ClaimOf(q) \in Durable
    BY <1>1, <1>3 DEF Told
  <2>2. /\ ClaimOf(r).at = "claim" /\ ClaimOf(q).at = "claim" /\ ClaimOf(r).of = ClaimOf(q).of
        /\ ClaimOf(r).owner.run = r.run /\ ClaimOf(r).owner.inventory = r.inventory
        /\ ClaimOf(q).owner.run = q.run /\ ClaimOf(q).owner.inventory = q.inventory
    BY <1>3, FileFields DEF ClaimOf
  <2>3. ClaimOf(r) = ClaimOf(q)
    BY <2>1, <2>2 DEF Durable, PublicationInv, ClaimInv, SamePath
  <2> QED BY <2>2, <2>3
<1> QED BY <1>2, <1>3

\* A run that is repeated or started twice leaves one account of each attempt,
\* and at most one run says that it published an object.
THEOREM OneAccount == Spec => []ReceiptsAgree
BY InitPublication, NextPublication, AgreementFromClaims, PTL DEF Spec

-----------------------------------------------------------------------------
(* The corpus of a merge.                                                  *)

\* The corpus of the first n samples of an inventory.
CorpusUpTo(i, n) ==
    LET chosen == {p \in 1..n : Acceptances(SamplesOf[i][p]) # {}}
    IN  [k \in 1..Cardinality(chosen) |->
            SemanticRecord(<<SamplesOf[i][Nth(chosen, k)], Min(Acceptances(SamplesOf[i][Nth(chosen, k)]))>>)]

\* A sample that accepts an attempt adds its record, any other sample nothing.
LEMMA CorpusGrows ==
    ASSUME NEW i, NEW n \in Nat \ {0}, NEW s, s = SamplesOf[i][n]
    PROVE  CorpusUpTo(i, n) =
             IF Acceptances(s) = {} THEN CorpusUpTo(i, n - 1)
             ELSE Append(CorpusUpTo(i, n - 1), SemanticRecord(<<s, Min(Acceptances(s))>>))
<1> DEFINE record(p) == SemanticRecord(<<SamplesOf[i][p], Min(Acceptances(SamplesOf[i][p]))>>)
           some(p) == Acceptances(SamplesOf[i][p]) # {}
<1>1. PICK S, T : S = {p \in 1..(n - 1) : some(p)} /\ T = {p \in 1..n : some(p)}
  OBVIOUS
<1>2. PICK C : C = Cardinality(S)
  OBVIOUS
<1>3. PICK f, g : f = [k \in 1..C |-> record(Nth(S, k))] /\ g = [k \in 1..Cardinality(T) |-> record(Nth(T, k))]
  OBVIOUS
<1>4. CorpusUpTo(i, n - 1) = f /\ CorpusUpTo(i, n) = g
  BY <1>1, <1>2, <1>3, Zenon DEF CorpusUpTo
<1>5. PICK e : e = record(n)
  OBVIOUS
<1>6. e = SemanticRecord(<<s, Min(Acceptances(s))>>) /\ (some(n) <=> Acceptances(s) # {})
  BY <1>5
<1> HIDE DEF record, some
<1>7. S \in SUBSET Nat /\ IsFiniteSet(S) /\ C \in Nat /\ \A p \in S : p < n
  <2>1. S \subseteq 1..(n - 1) /\ IsFiniteSet(1..(n - 1))
    BY <1>1, FS_Interval
  <2>2. IsFiniteSet(S)
    BY <2>1, FS_Subset
  <2> QED BY <1>2, <2>1, <2>2, FS_CardinalityType
<1>8. CASE ~some(n)
  <2>1. S = T
    BY <1>1, <1>8
  <2> QED BY <1>2, <1>3, <1>4, <1>6, <1>8, <2>1
<1>9. CASE some(n)
  <2>1. T = S \cup {n}
    BY <1>1, <1>9
  <2>2. /\ Cardinality(T) = C + 1 /\ Nth(T, C + 1) = n
        /\ \A k \in 1..C : Nth(T, k) = Nth(S, k)
    BY <1>2, <1>7, <2>1, NthAdded
  <2>3. DOMAIN g = 1..(C + 1) /\ g[C + 1] = e /\ \A k \in 1..C : g[k] = f[k]
    BY <1>3, <1>5, <1>7, <2>2
  <2>4. f \in Seq(Range(f)) /\ Len(f) = C
    <3>1. f \in [1..C -> Range(f)]
      BY <1>3 DEF Range
    <3> QED BY <1>7, <3>1, IntervalSeq
  <2>5. PICK a : a = Append(f, e)
    OBVIOUS
  <2>6. /\ DOMAIN a = 1..(C + 1) /\ a[C + 1] = e /\ \A k \in 1..C : a[k] = f[k]
        /\ a \in Seq(Range(a))
    BY <2>4, <2>5, AppendedSeq
  <2>7. \A k \in 1..(C + 1) : a[k] = g[k]
    <3>1. \A k \in 1..(C + 1) : k \in 1..C \/ k = C + 1
      BY <1>7
    <3> QED BY <2>3, <2>6, <3>1
  <2>8. a = g
    <3>1. a = [k \in 1..(C + 1) |-> a[k]]
      BY <2>6, SeqDef
    <3>2. g = [k \in 1..(C + 1) |-> g[k]]
      BY <1>3, <2>2
    <3> QED BY <2>7, <3>1, <3>2
  <2> QED BY <1>4, <1>6, <1>9, <2>5, <2>8
<1> QED BY <1>8, <1>9

\* A resolution that is sound so far has made the corpus of the samples so far.
LEMMA CorpusIsCanonical ==
    ASSUME NEW i \in Inventories, NEW sources, Sound(sources), NEW made, made = Resolved(i, sources),
           made[Len(SamplesOf[i])].sound
    PROVE  made[Len(SamplesOf[i])].corpus = CorpusOf(i)
<1>1. PICK L : L = Len(SamplesOf[i])
  OBVIOUS
<1>2. /\ L \in Nat /\ DOMAIN SamplesOf[i] = 1..L
      /\ \A n \in 1..L : SamplesOf[i][n] \in Samples
      /\ made[0] = [sound |-> TRUE, corpus |-> <<>>, runs |-> <<>>, objects |-> <<>>]
      /\ \A n \in 1..L : made[n] = ResolveSample(i, sources, made[n - 1], SamplesOf[i][n])
  BY <1>1, ResolvedSteps
<1>3. \A n \in 0..L : Made(made[n])
  BY <1>1, AllMade
<1> DEFINE S == {n \in 0..L : made[n].sound /\ made[n].corpus # CorpusUpTo(i, n)}
<1>4. ASSUME S # {} PROVE FALSE
  <2>1. S \in SUBSET Nat
    BY <1>2
  <2>2. PICK k \in S : \A n \in S : k <= n
    <3> HIDE DEF S
    <3> QED BY <1>4, <2>1, LeastMember
  <2>3. CASE k = 0
    <3>1. made[0].corpus = <<>>
      BY <1>2
    <3>2. CorpusUpTo(i, 0) = <<>>
      <4>1. PICK chosen : chosen = {p \in 1..0 : Acceptances(SamplesOf[i][p]) # {}}
        OBVIOUS
      <4>2. chosen = {} /\ Cardinality(chosen) = 0
        BY <4>1, FS_EmptySet
      <4>3. PICK g : g = [m \in 1..Cardinality(chosen) |->
              SemanticRecord(<<SamplesOf[i][Nth(chosen, m)], Min(Acceptances(SamplesOf[i][Nth(chosen, m)]))>>)]
        OBVIOUS
      <4>4. g \in [1..0 -> Range(g)]
        <5>1. DOMAIN g = 1..0 /\ g = [m \in DOMAIN g |-> g[m]]
          BY <4>2, <4>3
        <5> QED BY <5>1 DEF Range
      <4>5. g \in Seq(Range(g)) /\ Len(g) = 0
        BY <4>4, IntervalSeq
      <4>6. g = <<>>
        BY <4>5, EmptySeq
      <4>7. CorpusUpTo(i, 0) = g
        BY <4>1, <4>3, Zenon DEF CorpusUpTo
      <4> QED BY <4>6, <4>7
    <3> QED BY <2>2, <2>3, <3>1, <3>2
  <2>4. CASE k # 0
    <3>1. /\ k \in Nat \ {0} /\ k \in 1..L /\ k - 1 \in 0..L /\ k - 1 \notin S
          /\ made[k].sound /\ made[k].corpus # CorpusUpTo(i, k)
      BY <1>2, <2>2, <2>4
    <3>2. PICK s, r, next : s = SamplesOf[i][k] /\ r = made[k - 1] /\ next = made[k]
      OBVIOUS
    <3>3. /\ r.sound
          /\ next.corpus = IF Acceptances(s) = {} THEN r.corpus
                           ELSE Append(r.corpus, SemanticRecord(<<s, Min(Acceptances(s))>>))
      <4>1. s \in Samples /\ Made(r) /\ next = ResolveSample(i, sources, r, s) /\ next.sound
        BY <1>2, <1>3, <3>1, <3>2
      <4> QED BY <4>1, SampleResolved
    <3>4. r.corpus = CorpusUpTo(i, k - 1)
      BY <3>1, <3>2, <3>3
    <3>5. CorpusUpTo(i, k) =
             IF Acceptances(s) = {} THEN CorpusUpTo(i, k - 1)
             ELSE Append(CorpusUpTo(i, k - 1), SemanticRecord(<<s, Min(Acceptances(s))>>))
      BY <3>1, <3>2, CorpusGrows
    <3> QED BY <3>1, <3>2, <3>3, <3>4, <3>5
  <2> QED BY <2>3, <2>4
<1>5. made[L].corpus = CorpusUpTo(i, L)
  <2>1. L \in 0..L
    BY <1>2
  <2> QED BY <1>1, <1>4, <2>1
<1>6. CorpusUpTo(i, L) = CorpusOf(i)
  BY <1>2, Zenon DEF CorpusUpTo, CorpusOf
<1> QED BY <1>1, <1>5, <1>6

\* A seal of a merge carries the corpus of its inventory.
Canonical(f) ==
    f.at = "seals" => (f.of.kind = "merge" => f.of.corpus.root.leaves = CorpusOf(f.inventory))

CorpusInv == \A f \in Files : Canonical(f)

\* Files that are new have to be canonical, no others.
LEMMA CanonicalFiles ==
    ASSUME CorpusInv, \A f \in Files' : f \in Files \/ Canonical(f)
    PROVE  CorpusInv'
BY DEF CorpusInv, Canonical

\* The files of a worker change, and nothing else.
LEMMA CanonicalPlan ==
    ASSUME PublicationInv, CorpusInv, NEW w \in Workers, NEW files, plan' = [plan EXCEPT ![w] = files],
           visible' = visible, \A n \in DOMAIN files : Canonical(files[n])
    PROVE  CorpusInv'
<1>1. \A x \in Workers : plan'[x] = plan[x] \/ plan'[x] = files
  BY DEF PublicationInv, PublicationType
<1>2. \A f \in Files' : f \in Files \/ f \in Range(files)
  BY <1>1 DEF Files
<1> QED BY <1>2, CanonicalFiles DEF Range

\* Objects and claims are not seals.
LEMMA NoSeals ==
    /\ \A v : Canonical(Object(v))
    /\ \A v, o : Canonical(Claim(v, o))
    /\ \A v, o : \A n \in DOMAIN ClaimAndPublish(v, o) : Canonical(ClaimAndPublish(v, o)[n])
    /\ \A i, n, v : Canonical(Ref("indexes", i, n, v)) /\ Canonical(Ref("manifests", i, n, v))
    /\ \A i, n, index : Canonical(Ref("seals", i, n, Manifest(index)))
<1>1. (\A v : Canonical(Object(v))) /\ \A v, o : Canonical(Claim(v, o))
  BY FileFields DEF Canonical
<1>2. \A v, o : \A n \in DOMAIN ClaimAndPublish(v, o) : Canonical(ClaimAndPublish(v, o)[n])
  BY <1>1 DEF ClaimAndPublish
<1>3. \A i, n, v : Canonical(Ref("indexes", i, n, v)) /\ Canonical(Ref("manifests", i, n, v))
  BY DEF Canonical, Ref
<1>4. \A i, n, index : Canonical(Ref("seals", i, n, Manifest(index)))
  BY DEF Canonical, Ref, Manifest
<1> QED BY <1>1, <1>2, <1>3, <1>4

\* What a completion or a shard plans is no merge.
LEMMA CanonicalShards ==
    ASSUME PublicationInv, CorpusInv, NEW w \in Workers,
           \/ PublishEnvelope(w) \/ ReceiptEnvelope(w) \/ PublishReference(w) \/ ReceiptReference(w)
           \/ PublishIndex(w) \/ SealShard(w) \/ Restart(w)
    PROVE  CorpusInv'
<1>1. ASSUME PublishEnvelope(w) \/ PublishReference(w) PROVE CorpusInv'
  <2>1. visible' = visible /\ \E v, o : plan' = [plan EXCEPT ![w] = ClaimAndPublish(v, o)]
    BY <1>1 DEF PublishEnvelope, PublishReference, Goto
  <2> QED BY <2>1, NoSeals, CanonicalPlan
<1>2. ASSUME ReceiptEnvelope(w) \/ ReceiptReference(w) PROVE CorpusInv'
  <2>1. PICK f : visible' = visible /\ plan' = [plan EXCEPT ![w] = <<f>>] /\ Canonical(f)
    BY <1>2, NoSeals DEF ReceiptEnvelope, ReceiptReference, Goto
  <2>2. \A n \in DOMAIN <<f>> : Canonical(<<f>>[n])
    BY <2>1
  <2> QED BY <2>1, <2>2, CanonicalPlan
<1>3. ASSUME PublishIndex(w) PROVE CorpusInv'
  <2>1. PICK f, g : visible' = visible /\ plan' = [plan EXCEPT ![w] = <<f, g>>] /\ Canonical(f) /\ Canonical(g)
    BY <1>3, NoSeals DEF PublishIndex, Goto
  <2>2. \A n \in DOMAIN <<f, g>> : Canonical(<<f, g>>[n])
    BY <2>1
  <2> QED BY <2>1, <2>2, CanonicalPlan
<1>4. ASSUME visible' = visible, plan' = [plan EXCEPT ![w] = <<>>] PROVE CorpusInv'
  <2>1. \A n \in DOMAIN <<>> : Canonical(<<>>[n])
    OBVIOUS
  <2> QED BY <1>4, <2>1, CanonicalPlan
<1>5. ASSUME SealShard(w) PROVE CorpusInv'
  <2>1. CASE Sealable(w)
    <3>1. PICK f, g, h : /\ visible' = visible /\ plan' = [plan EXCEPT ![w] = <<f, g, h>>]
                         /\ Canonical(f) /\ Canonical(g) /\ Canonical(h)
      BY <1>5, <2>1, NoSeals DEF SealShard, Goto
    <3>2. \A n \in DOMAIN <<f, g, h>> : Canonical(<<f, g, h>>[n])
      BY <3>1
    <3> QED BY <3>1, <3>2, CanonicalPlan
  <2>2. CASE ~Sealable(w)
    BY <1>4, <1>5, <2>2 DEF SealShard, Goto
  <2> QED BY <2>1, <2>2
<1>6. ASSUME Restart(w) PROVE CorpusInv'
  BY <1>4, <1>6 DEF Restart, Goto
<1> QED BY <1>1, <1>2, <1>3, <1>5, <1>6

\* A merge seal is planned only where the resolution made the whole corpus.
LEMMA CanonicalMerge ==
    ASSUME PublicationInv, CorpusInv, NEW w \in Workers, Reconcile(w)
    PROVE  CorpusInv'
<1>1. PICK chosen, done, files, last, taken : Reconciles(w, chosen, done, files, last, taken)
  BY ReconcilePlan
<1>2. PICK i, made : i = job[w].inventory /\ made = Resolved(i, Range(chosen))
  OBVIOUS
<1>3. \A f \in Range(taken) :
        \/ f.at = "object"
        \/ /\ f.inventory = i /\ made[Len(SamplesOf[i])].sound
           /\ f.of.corpus.root.leaves = made[Len(SamplesOf[i])].corpus
  BY <1>1, <1>2, MergePlan DEF Merges
<1>4. i \in Inventories
  BY <1>2 DEF PublicationInv, PublicationType, WorkerType
<1>5. Sound(Range(chosen))
  BY <1>1, <1>2, <1>4, SourcesSound DEF Reconciles
<1>6. made[Len(SamplesOf[i])].sound => made[Len(SamplesOf[i])].corpus = CorpusOf(i)
  BY <1>2, <1>4, <1>5, CorpusIsCanonical
<1>7. \A n \in DOMAIN taken : Canonical(taken[n])
  BY <1>3, <1>6 DEF Range, Canonical
<1>8. visible' = visible /\ plan' = [plan EXCEPT ![w] = taken]
  BY <1>1 DEF Reconcile, Reconciles, Goto
<1> QED BY <1>7, <1>8, CanonicalPlan

\* Every step keeps the seals canonical.
LEMMA NextCorpus == PublicationInv /\ CorpusInv /\ [Next]_vars => CorpusInv'
<1> SUFFICES ASSUME PublicationInv, CorpusInv, [Next]_vars PROVE CorpusInv'
  OBVIOUS
<1>0. plan = [w \in Workers |-> plan[w]] /\ \A w \in Workers : plan[w] \in Seq(Range(plan[w]))
  BY DEF PublicationInv, PublicationType, WorkerType
<1>1. ASSUME UNCHANGED <<visible, plan>> PROVE CorpusInv'
  BY <1>1, CanonicalFiles DEF Files
<1>2. ASSUME NEW w \in Workers, Link(w) PROVE CorpusInv'
  <2>1. Head(plan[w]) \in Files
    BY <1>0, <1>2, TailOf DEF Link, Files, Range
  <2>2. plan' = plan /\ \A f \in visible' : f \in visible \/ f = Head(plan[w])
    BY <1>2 DEF Link
  <2>3. \A f \in Files' : f \in Files
    BY <2>1, <2>2 DEF Files
  <2> QED BY <2>3, CanonicalFiles
<1>3. ASSUME NEW w \in Workers, Flush(w) PROVE CorpusInv'
  <2>1. visible' = visible /\ plan' = [plan EXCEPT ![w] = Tail(plan[w])] /\ plan[w] # <<>>
    BY <1>3 DEF Flush
  <2>2. Range(Tail(plan[w])) \subseteq Files
    BY <1>0, <2>1, TailOf DEF Files
  <2>3. \A n \in DOMAIN Tail(plan[w]) : Canonical(Tail(plan[w])[n])
    BY <2>2 DEF Range, CorpusInv
  <2> QED BY <2>1, <2>3, CanonicalPlan
<1>4. ASSUME NEW W, Stopped(W), visible' \subseteq visible PROVE CorpusInv'
  <2>1. \A w \in Workers : plan'[w] = plan[w] \/ plan'[w] = <<>>
    BY <1>4 DEF Stopped
  <2>2. Range(<<>>) = {}
    BY DEF Range
  <2>3. \A f \in Files' : f \in Files
    BY <1>4, <2>1, <2>2 DEF Files
  <2> QED BY <2>3, CanonicalFiles
<1>5. ASSUME PowerLoss PROVE CorpusInv'
  <2>1. visible' \subseteq visible /\ Stopped({w \in Workers : Working(w)})
    BY <1>5 DEF PowerLoss, PublicationInv, PublicationType
  <2> QED BY <1>4, <2>1
<1>6. ASSUME NEW w \in Workers, Crash(w) \/ LinkFails(w) PROVE CorpusInv'
  BY <1>4, <1>6 DEF Crash, LinkFails
<1>7. ASSUME Recover \/ (\E w \in Workers : Look(w)) \/ UNCHANGED vars PROVE CorpusInv'
  BY <1>1, <1>7 DEF Recover, Look, vars
<1> QED BY <1>2, <1>3, <1>5, <1>6, <1>7, CanonicalShards, CanonicalMerge DEF Next

\* There are no seals at first.
LEMMA InitCorpus == Init => CorpusInv
<1> SUFFICES ASSUME Init PROVE CorpusInv
  OBVIOUS
<1>1. \A f \in visible : f.at = "object"
  BY FileFields DEF Init
<1>2. \A w \in Workers : plan[w] = <<>> /\ Range(plan[w]) = {}
  BY DEF Init, Fresh, Range
<1> QED BY <1>1, <1>2 DEF CorpusInv, Canonical, Files

\* What can be read is among the files.
LEMMA CorpusInMerges == CorpusInv => CanonicalCorpus
BY DEF CorpusInv, Canonical, CanonicalCorpus, Files

\* Whoever merges, from whatever shards and however many, a merge seal carries
\* the corpus that the outcomes of the inventory define (StreamingReconciler).
THEOREM OneCorpus == Spec => []CanonicalCorpus
BY InitPublication, NextPublication, InitCorpus, NextCorpus, CorpusInMerges, PTL DEF Spec

-----------------------------------------------------------------------------
(* The pipeline: what publishes starts as the specification does.          *)

\* The same of the state after a step.
LEMMA InitAfter == Init' => PublicationInv' /\ CorpusInv'
BY InitPublication, InitCorpus, PTL

PipelineInv ==
    /\ publishing \in BOOLEAN
    /\ publishing => PublicationInv /\ CorpusInv
    /\ ~publishing => Fresh /\ visible = {}

\* Every step of the pipeline keeps its invariant.
LEMMA NextPipeline == PipelineInv /\ [PipelineNext]_pipelineVars => PipelineInv'
<1> SUFFICES ASSUME PipelineInv, [PipelineNext]_pipelineVars PROVE PipelineInv'
  OBVIOUS
<1>1. ASSUME ~publishing, UNCHANGED <<vars, publishing>> PROVE PipelineInv'
  BY <1>1 DEF PipelineInv, Fresh, vars
<1>2. ASSUME HandOver PROVE PipelineInv'
  <2>1. publishing' = TRUE /\ Init'
    BY <1>2 DEF HandOver, PipelineInv, Init, Fresh
  <2> QED BY <2>1, InitAfter DEF PipelineInv
<1>3. ASSUME publishing, [Next]_vars, UNCHANGED publishing PROVE PipelineInv'
  BY <1>3, NextPublication, NextCorpus DEF PipelineInv
<1>4. ASSUME UNCHANGED pipelineVars PROVE PipelineInv'
  <2>1. UNCHANGED <<vars, publishing>>
    BY <1>4 DEF pipelineVars
  <2> QED BY <1>1, <1>3, <2>1 DEF PipelineInv
<1> QED BY <1>1, <1>2, <1>3, <1>4 DEF PipelineNext

\* The same of the whole pipeline, from the execution of the attempts on.
THEOREM PipelineIsSafe == PipelineSpec => [](CitedIsDurable /\ ReceiptsAgree /\ CanonicalCorpus)
<1>1. PipelineInit => PipelineInv
  BY DEF PipelineInit, PipelineInv
<1>2. PipelineInv => CitedIsDurable /\ ReceiptsAgree /\ CanonicalCorpus
  <2>1. Fresh /\ visible = {} => CitedIsDurable /\ ReceiptsAgree /\ CanonicalCorpus
    BY DEF CitedIsDurable, ReceiptsAgree, Receipts, Published, CanonicalCorpus
  <2>2. PublicationInv => CitedIsDurable
    BY DEF PublicationInv
  <2> QED BY <2>1, <2>2, AgreementFromClaims, CorpusInMerges DEF PipelineInv
<1> QED BY <1>1, <1>2, NextPipeline, PTL DEF PipelineSpec

\* When an execution hands over, nothing of it is left that could be evidence.
LEMMA HandOverKeeps ==
    ASSUME EvidenceInv, HandOver
    PROVE  EvidenceInv' /\ AnswersValid'
<1>1. PICK a : a = CHOOSE b \in Attempts : TRUE
  OBVIOUS
<1>2. /\ session' = [Opened(a) EXCEPT !.state = "poisoned"]
      /\ frozen' = {} /\ identities' = {} /\ answered' = {} /\ bundles' = {}
  BY <1>1 DEF HandOver
<1>3. session.attempt \in Attempts
  BY DEF EvidenceInv, SessionSafe, SessionType
<1>4. a \in Attempts
  BY <1>1, <1>3
<1>5. session' = [state |-> "poisoned", attempt |-> a, reserved |-> {}, records |-> <<>>]
  BY <1>2 DEF Opened
<1>6. SessionSafe'
  <2>1. session'.records = <<>> /\ DOMAIN session'.records = {}
    BY <1>5
  <2>2. SessionType'
    BY <1>4, <1>5 DEF SessionType
  <2>3. PathsOwned' /\ BudgetKept'
    BY <2>1 DEF PathsOwned, BudgetKept
  <2>4. LedgerKept' /\ AnswersRecorded'
    BY <1>2, <2>1 DEF LedgerKept, AnswersRecorded
  <2> QED BY <2>2, <2>3, <2>4 DEF SessionSafe
<1>7. RecordsAnswered' /\ IdentitiesDistinct'
  BY <1>2, <1>5, FS_EmptySet DEF RecordsAnswered, IdentitiesDistinct
<1>8. AnswersValid'
  BY <1>2 DEF AnswersValid
<1> QED BY <1>2, <1>6, <1>7, <1>8 DEF EvidenceInv

\* The evidence of the whole pipeline replays, and its choices are fair: what is
\* published was executed under the one seed (ChoiceSession, AttemptReplayBundle).
THEOREM PipelineReplays == PipelineSpec => [](EvidenceReplays /\ ChoicesFair)
<1>1. PipelineInit => EvidenceInv /\ AnswersValid
  BY EvidenceAtFirst DEF PipelineInit, ExecutionInit, AnswersValid
<1>2. ASSUME EvidenceInv, AnswersValid, [PipelineNext]_pipelineVars
      PROVE  EvidenceInv' /\ AnswersValid'
  <2>1. CASE [ExecutionNext]_executionVars
    BY <1>2, <2>1, EvidenceStep, AnswersStep
  <2>2. CASE HandOver
    BY <1>2, <2>2, HandOverKeeps
  <2>3. UNCHANGED pipelineVars => [ExecutionNext]_executionVars
    BY DEF pipelineVars
  <2> QED BY <1>2, <2>1, <2>2, <2>3 DEF PipelineNext
<1> QED BY <1>1, <1>2, EvidenceFollows, FairnessFollows, PTL DEF PipelineSpec
=============================================================================
