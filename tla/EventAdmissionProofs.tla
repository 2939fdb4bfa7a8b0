------------------------- MODULE EventAdmissionProofs -------------------------
(***************************************************************************)
(* Proofs about EventAdmission for every number of engines, every set of   *)
(* requests and authorities, and every bound.                              *)
(*                                                                         *)
(* The argument: a file is in files before anything that needs it is       *)
(* linked, and flushed before the engine goes on; so what an accepted      *)
(* receipt cites is durable when the receipt appears, or comes before it   *)
(* among the files its engine has yet to install.                          *)
(***************************************************************************)
EXTENDS EventAdmission, FiniteSetTheorems, SequenceTheorems, TLAPS

\* What a file of each kind is: a parsed contract of a request, or a context.
Typed(f) ==
    /\ f.kind = "raw-event" => \E q \in Requests : f = q.raw /\ Parses(q.raw)
    /\ f.kind = "signature-set" => \E q \in Requests : f = q.signatures /\ Parses(q.signatures)
    /\ f.kind = "validation-policy" => \E q \in Requests : f = q.policy /\ Parses(q.policy)
    /\ f.kind = "context" => f \in Contexts

Bundle(q, c) == [raw |-> q.raw, signatures |-> q.signatures, policy |-> q.policy, context |-> c]

\* The receipt r accepts q in the committed context c, and rightly so.
Accepts(r, q, c) ==
    /\ Parses(q.raw) /\ Parses(q.signatures) /\ Parses(q.policy)
    /\ r.cites = [raw |-> q.raw.id, signatures |-> q.signatures.id, policy |-> q.policy.id, tick |-> c.tick]
    /\ c.committed
    /\ Warranted(Bundle(q, c))

\* All that the receipt r cites is among the given files.
Backed(r, from) ==
    \E q \in Requests, c \in Contexts :
        Accepts(r, q, c) /\ {q.raw, q.signatures, q.policy, c} \subseteq from

StoreInv ==
    /\ durable \subseteq files /\ answers \subseteq durable
    /\ \A f \in files : Typed(f)
    /\ \A f, g \in files : f.kind = "context" /\ g.kind = "context" /\ f.tick = g.tick => f = g
    /\ \A f \in files : f.kind = "validated-event" => Backed(f, durable)

Elements(s) == {s[n] : n \in 1..Len(s)}

\* What an engine has yet to install when the files of kept are durable: the
\* receipt last, each file typed, and an accepted receipt after what it cites.
Planned(todo, receipt, kept) ==
    /\ todo \in Seq(Elements(todo))
    /\ Len(todo) > 0 /\ todo[Len(todo)] = receipt
    /\ \A n \in 1..Len(todo) :
          /\ Typed(todo[n])
          /\ todo[n].kind = "validated-event"
               => Backed(todo[n], kept \cup {todo[m] : m \in 1..(n - 1)})

JobInv(p) ==
    /\ pc[p] = "resolve" => job[p].request \in Requests /\ job[p].tick \in 0..MaxTick
    /\ pc[p] \in {"install", "link", "flush"} =>
          /\ job[p] = [todo |-> job[p].todo, receipt |-> job[p].receipt]
          /\ Planned(job[p].todo, job[p].receipt, durable)
    /\ pc[p] = "flush" => Head(job[p].todo) \in files

EngineInv ==
    /\ pc \in [Admitters -> {"idle", "resolve", "install", "link", "flush"}]
    /\ job = [p \in Admitters |-> job[p]]
    /\ \A p \in Admitters : JobInv(p)

\* The inductive invariant.
AdmissionInv ==
    /\ known \in [0..MaxTick -> Contexts \cup {None}]
    /\ StoreInv
    /\ EngineInv

-----------------------------------------------------------------------------
(***************************************************************************)
(* The verdict.                                                            *)
(***************************************************************************)

\* When no check fails, all three inputs parse and the context is the committed
\* one of the tick.
LEMMA NoCodesInputs ==
    ASSUME NEW q \in Requests, NEW c \in Contexts \cup {None}, NEW t, NEW l,
           NEW found \in SUBSET Registered, FailureCodes(q, c, t, l, found) = {}
    PROVE  /\ Parses(q.raw) /\ Parses(q.signatures) /\ Parses(q.policy)
           /\ c \in Contexts /\ c.committed /\ c.tick = t
           /\ q.policy \in Registered /\ PolicyAdmissible(q, c, t, l, found)
           /\ PayloadCodes(q, c) = {} /\ SignatureCodes(q, c, TRUE) = {}
<1> DEFINE admissible == PolicyAdmissible(q, c, t, l, found)
<1>1. /\ When(q.raw.form = "digest", "RAW_DIGEST_MISMATCH") = {}
      /\ When(q.raw.form = "schema", "RAW_SCHEMA_REJECTED") = {}
      /\ When(~Parses(q.signatures), "SIGNATURE_INVALID") = {}
      /\ When(c = None, "VALIDATION_CONTEXT_UNAVAILABLE") = {}
      /\ When(c # None /\ ~ContextAdmissible(c, t, l), "VALIDATION_CONTEXT_NOT_COMMITTED") = {}
      /\ When(\/ ~Parses(q.policy)
              \/ q.policy \notin found
              \/ ContextAdmissible(c, t, l) /\ ~admissible, "VALIDATION_POLICY_NOT_ALLOWED") = {}
      /\ PayloadCodes(q, c) = {} /\ SignatureCodes(q, c, admissible) = {}
  BY DEF FailureCodes
<1>2. q.raw.form # "digest" /\ q.raw.form # "schema" /\ Parses(q.signatures) /\ c # None
  BY <1>1 DEF When
<1>3. Parses(q.raw)
  BY <1>2, AdmissionAssumption DEF Parses
<1>4. ContextAdmissible(c, t, l)
  BY <1>1, <1>2 DEF When
<1>5. Parses(q.policy) /\ q.policy \in found /\ q.policy \in Registered /\ admissible
  <2> HIDE DEF admissible
  <2> QED BY <1>1, <1>4 DEF When
<1>6. SignatureCodes(q, c, TRUE) = {}
  <2>1. admissible = TRUE
    BY <1>5 DEF PolicyAdmissible, ContextAdmissible, Parses, Allowed
  <2> QED BY <1>1, <2>1
<1>7. c \in Contexts /\ c.committed /\ c.tick = t
  BY <1>2, <1>4 DEF ContextAdmissible
<1> QED BY <1>1, <1>2, <1>3, <1>5, <1>6, <1>7

\* The signatures then are genuine, sign the event, and have authority; they
\* are by as many signers as the policy asks for.
LEMMA NoCodesSigners ==
    ASSUME NEW q \in Requests, NEW c,
           Parses(q.raw), Parses(q.signatures), Parses(q.policy),
           SignatureCodes(q, c, TRUE) = {}
    PROVE  LET list == q.signatures.list
               signers == {list[n].signer : n \in 1..Len(list)} IN
           /\ \A n \in 1..Len(list) :
                 /\ list[n].genuine /\ list[n].digest = q.raw.id
                 /\ list[n].algorithm \in q.policy.algorithms /\ Authorized(list[n], c)
           /\ Cardinality(signers) >= q.policy.minimum
<1> DEFINE list == q.signatures.list
           signers == {list[n].signer : n \in 1..Len(list)}
           codes(n) == When(Repeats(list, n) \/ ~list[n].genuine, "SIGNATURE_INVALID")
                       \cup When(list[n].digest # q.raw.id, "SIGNATURE_DIGEST_MISMATCH")
                       \cup When(list[n].algorithm \notin q.policy.algorithms, "SIGNATURE_ALGORITHM_NOT_ALLOWED")
                       \cup When(TRUE /\ (TRUE => ~Authorized(list[n], c)), "AUTHORITY_SCOPE_REJECTED")
           valid == {list[n].signer : n \in {n \in 1..Len(list) : codes(n) = {}}}
<1>1. /\ UNION {codes(n) : n \in 1..Len(list)} = {}
      /\ When(TRUE /\ Cardinality(valid) < q.policy.minimum, "SIGNATURE_THRESHOLD_NOT_MET") = {}
  BY DEF SignatureCodes
<1>2. \A n \in 1..Len(list) : codes(n) = {}
  <2> HIDE DEF codes
  <2> QED BY <1>1
<1>3. \A n \in 1..Len(list) :
         /\ list[n].genuine /\ list[n].digest = q.raw.id
         /\ list[n].algorithm \in q.policy.algorithms /\ Authorized(list[n], c)
  BY <1>2 DEF When
<1>4. valid = signers
  <2> HIDE DEF codes
  <2> QED BY <1>2
<1>5. Cardinality(signers) \in Nat
  <2>1. Len(list) \in Nat
    BY AdmissionAssumption
  <2>2. IsFiniteSet(1..Len(list))
    BY <2>1, FS_Interval
  <2>3. [n \in 1..Len(list) |-> list[n].signer] \in Surjection(1..Len(list), signers)
    BY DEF Surjection
  <2>4. IsFiniteSet(signers)
    BY <2>2, <2>3, FS_Surjection
  <2> QED BY <2>4, FS_CardinalityType
<1>6. ~(Cardinality(valid) < q.policy.minimum)
  <2> HIDE DEF valid
  <2> QED BY <1>1 DEF When
<1>7. q.policy.minimum \in Nat
  BY AdmissionAssumption
<1>8. Cardinality(signers) >= q.policy.minimum
  <2> HIDE DEF valid, signers
  <2> QED BY <1>4, <1>5, <1>6, <1>7
<1> QED BY <1>3, <1>8

\* An acceptance is warranted.
LEMMA NoCodesWarranted ==
    ASSUME NEW q \in Requests, NEW c \in Contexts \cup {None}, NEW t \in 0..MaxTick, NEW l,
           NEW found \in SUBSET Registered, FailureCodes(q, c, t, l, found) = {}
    PROVE  Warranted([raw |-> q.raw, signatures |-> q.signatures, policy |-> q.policy, context |-> c])
<1> DEFINE b == [raw |-> q.raw, signatures |-> q.signatures, policy |-> q.policy, context |-> c]
           list == q.signatures.list
           signers == {list[n].signer : n \in 1..Len(list)}
<1>1. /\ Parses(q.raw) /\ Parses(q.signatures) /\ Parses(q.policy)
      /\ c \in Contexts /\ c.committed /\ c.tick = t /\ q.policy \in Registered
      /\ PayloadCodes(q, c) = {} /\ SignatureCodes(q, c, TRUE) = {}
  BY NoCodesInputs
<1>2. c # None
  BY <1>1, AdmissionAssumption
<1>3. q.raw.submitted <= c.tick /\ q.raw.fits /\ q.raw.schema \in q.policy.schemas
  <2>1. ~(q.raw.submitted > c.tick) /\ q.raw.schema \in q.policy.schemas /\ q.raw.fits
    BY <1>1, <1>2 DEF PayloadCodes, When
  <2>2. q.raw.submitted \in Nat /\ c.tick \in Nat
    BY <1>1, AdmissionAssumption
  <2> QED BY <2>1, <2>2
<1>4. /\ \A n \in 1..Len(list) :
            /\ list[n].genuine /\ list[n].digest = q.raw.id
            /\ list[n].algorithm \in q.policy.algorithms /\ Authorized(list[n], c)
      /\ Cardinality(signers) >= q.policy.minimum
  BY <1>1, NoCodesSigners
<1>5. signers \in SUBSET {a.signer : a \in Authorities}
  BY <1>4 DEF Authorized
<1>6. \A x \in signers : \E n \in 1..Len(list) : list[n].signer = x
  OBVIOUS
<1> HIDE DEF signers
<1>7. \E S \in SUBSET {a.signer : a \in Authorities} :
         /\ Cardinality(S) >= b.policy.minimum
         /\ \A x \in S : \E n \in 1..Len(b.signatures.list) :
               LET s == b.signatures.list[n]
               IN  /\ s.signer = x /\ s.genuine /\ s.digest = b.raw.id
                   /\ s.algorithm \in b.policy.algorithms
                   /\ Authorized(s, b.context)
  <2> WITNESS signers \in SUBSET {a.signer : a \in Authorities}
  <2> QED BY <1>4, <1>6
<1> QED BY <1>1, <1>3, <1>7 DEF Warranted

-----------------------------------------------------------------------------
(***************************************************************************)
(* What an engine plans to install.                                        *)
(***************************************************************************)
\* More durable files back no less.
LEMMA BackedMore ==
    ASSUME NEW r, NEW from, NEW more, Backed(r, from), from \subseteq more
    PROVE  Backed(r, more)
BY DEF Backed

\* What a plan relies on stays there as more files are kept.
LEMMA PlannedMore ==
    ASSUME NEW todo, NEW receipt, NEW kept, NEW more,
           Planned(todo, receipt, kept), kept \subseteq more
    PROVE  Planned(todo, receipt, more)
<1>1. ASSUME NEW n \in 1..Len(todo), todo[n].kind = "validated-event"
      PROVE  Backed(todo[n], more \cup {todo[m] : m \in 1..(n - 1)})
  <2>1. Backed(todo[n], kept \cup {todo[m] : m \in 1..(n - 1)})
    BY <1>1 DEF Planned
  <2> QED BY <2>1, BackedMore
<1> QED BY <1>1 DEF Planned

\* The file to install next is backed by what is durable.
LEMMA PlannedHead ==
    ASSUME NEW todo, NEW receipt, NEW kept, Planned(todo, receipt, kept)
    PROVE  /\ Typed(Head(todo))
           /\ Head(todo).kind = "validated-event" => Backed(Head(todo), kept)
           /\ Len(todo) = 1 => Head(todo) = receipt
<1>1. Head(todo) = todo[1] /\ 1 \in 1..Len(todo)
  BY DEF Planned
<1>2. {todo[m] : m \in 1..(1 - 1)} = {}
  OBVIOUS
<1> QED BY <1>1, <1>2 DEF Planned

\* Once it is durable too, the rest remains planned.
LEMMA PlannedTail ==
    ASSUME NEW todo, NEW receipt, NEW kept, Planned(todo, receipt, kept), Len(todo) # 1
    PROVE  Planned(Tail(todo), receipt, kept \cup {Head(todo)})
<1> DEFINE S == Elements(todo)
           rest == Tail(todo)
<1>0. todo \in Seq(S) /\ Len(todo) > 0
  BY DEF Planned
<1> HIDE DEF S
<1>1. todo \in Seq(S) /\ todo # <<>> /\ Len(todo) > 1 /\ Len(todo) \in Nat
  <2>1. Len(todo) \in Nat
    BY <1>0, LenProperties
  <2>2. todo # <<>>
    BY <1>0, EmptySeq
  <2>3. PICK n \in Nat : n = Len(todo)
    BY <2>1, Zenon
  <2>4. n > 0 /\ n # 1
    BY <1>0, <2>3, Zenon
  <2>5. n > 1
    BY <2>4
  <2> QED BY <1>0, <2>2, <2>3, <2>5, Zenon
<1>2. /\ rest \in Seq(S) /\ Len(rest) = Len(todo) - 1 /\ Head(todo) = todo[1]
      /\ \A n \in 1..Len(rest) : rest[n] = todo[n + 1]
  BY <1>1, HeadTailProperties
<1> HIDE DEF rest
<1>3. rest \in Seq(Elements(rest))
  <2>1. rest \in [1..Len(rest) -> S] /\ Len(rest) \in Nat
    BY <1>2, LenProperties
  <2> QED BY <2>1 DEF Elements
<1>4. rest[Len(rest)] = receipt
  BY <1>1, <1>2 DEF Planned
<1>5. ASSUME NEW n \in 1..Len(rest)
      PROVE  /\ Typed(rest[n])
             /\ rest[n].kind = "validated-event"
                  => Backed(rest[n], (kept \cup {Head(todo)}) \cup {rest[m] : m \in 1..(n - 1)})
  <2>1. n + 1 \in 1..Len(todo) /\ rest[n] = todo[n + 1]
    BY <1>1, <1>2
  <2>2. {todo[m] : m \in 1..((n + 1) - 1)} \subseteq {Head(todo)} \cup {rest[m] : m \in 1..(n - 1)}
    <3>1. ASSUME NEW m \in 1..((n + 1) - 1), m # 1
          PROVE  m - 1 \in 1..(n - 1) /\ rest[m - 1] = todo[m]
      BY <1>2, <3>1
    <3> QED BY <1>2, <3>1
  <2>3. /\ Typed(todo[n + 1])
        /\ todo[n + 1].kind = "validated-event"
             => Backed(todo[n + 1], kept \cup {todo[m] : m \in 1..((n + 1) - 1)})
    BY <2>1 DEF Planned
  <2>4. kept \cup {todo[m] : m \in 1..((n + 1) - 1)}
          \subseteq (kept \cup {Head(todo)}) \cup {rest[m] : m \in 1..(n - 1)}
    BY <2>2
  <2> QED BY <2>1, <2>3, <2>4, BackedMore
<1>6. Len(rest) > 0
  BY <1>1, <1>2
<1>7. Planned(rest, receipt, kept \cup {Head(todo)})
  BY <1>3, <1>4, <1>5, <1>6 DEF Planned
<1> QED BY <1>7 DEF rest

\* What a concatenation is made of.
LEMMA ElementsOfConcat ==
    ASSUME NEW S, NEW s \in Seq(S), NEW u \in Seq(S)
    PROVE  s \o u \in Seq(S) /\ Elements(s \o u) = Elements(s) \cup Elements(u)
<1> DEFINE t == s \o u
<1>1. Len(s) \in Nat /\ Len(u) \in Nat
  BY LenProperties
<1>2. t \in Seq(S) /\ Len(t) = Len(s) + Len(u)
  BY ConcatProperties
<1>3. \A i \in 1..(Len(s) + Len(u)) : t[i] = IF i <= Len(s) THEN s[i] ELSE u[i - Len(s)]
  BY ConcatProperties
<1> HIDE DEF t
<1>4. ASSUME NEW n \in 1..Len(t) PROVE t[n] \in Elements(s) \cup Elements(u)
  <2>1. CASE n <= Len(s)
    BY <1>1, <1>2, <1>3, <2>1 DEF Elements
  <2>2. CASE ~(n <= Len(s))
    <3>1. n - Len(s) \in 1..Len(u) /\ t[n] = u[n - Len(s)]
      BY <1>1, <1>2, <1>3, <2>2
    <3> QED BY <3>1 DEF Elements
  <2> QED BY <2>1, <2>2
<1>5. ASSUME NEW n \in 1..Len(s) PROVE s[n] \in Elements(t)
  BY <1>1, <1>2, <1>3 DEF Elements
<1>6. ASSUME NEW n \in 1..Len(u) PROVE u[n] \in Elements(t)
  <2>1. n + Len(s) \in 1..Len(t) /\ t[n + Len(s)] = u[n]
    <3>1. n + Len(s) \in 1..(Len(s) + Len(u)) /\ ~(n + Len(s) <= Len(s)) /\ (n + Len(s)) - Len(s) = n
      BY <1>1
    <3> QED BY <1>2, <1>3, <3>1
  <2> QED BY <2>1 DEF Elements
<1>7. Elements(t) = Elements(s) \cup Elements(u)
  BY <1>4, <1>5, <1>6 DEF Elements
<1> QED BY <1>2, <1>7 DEF t

\* What admit installs is planned: an accepted receipt comes after the three
\* inputs and the context.
LEMMA InstallsPlanned ==
    ASSUME NEW q \in Requests, NEW c \in Contexts \cup {None}, NEW t \in 0..MaxTick, NEW l,
           NEW found \in SUBSET Registered, NEW kept
    PROVE  LET receipt == Receipt(q, c, t, l, found) IN
           Planned(Installs(q, c, receipt), receipt, kept)
<1> DEFINE receipt == Receipt(q, c, t, l, found)
           context == IF c = None THEN <<>> ELSE <<c>>
           inputs == Inputs(q, c)
           I == {f \in {q.raw, q.signatures, q.policy} : Parses(f)} \cup ({c} \ {None})
           S == I \cup {receipt}
           todo == Installs(q, c, receipt)
           k == Len(inputs)
<1>1. inputs \in Seq(S) /\ Elements(inputs) = I
  <2>1. \A f \in S : <<f>> \in Seq(S) /\ Elements(<<f>>) = {f}
    BY DEF Elements
  <2>2. <<>> \in Seq(S) /\ Elements(<<>>) = {}
    BY DEF Elements
  <2>3. /\ \A f \in {q.raw, q.signatures, q.policy} : Parses(f) => f \in S
        /\ c # None => c \in S
    OBVIOUS
  <2> HIDE DEF S, receipt
  <2>4. \A f \in {q.raw, q.signatures, q.policy} :
           Available(f) \in Seq(S) /\ Elements(Available(f)) = IF Parses(f) THEN {f} ELSE {}
    BY <2>1, <2>2, <2>3 DEF Available
  <2>5. context \in Seq(S) /\ Elements(context) = {c} \ {None}
    BY <2>1, <2>2, <2>3
  <2> HIDE DEF context
  <2> DEFINE two == Available(q.raw) \o Available(q.signatures)
             three == two \o Available(q.policy)
  <2>6. /\ two \in Seq(S)
        /\ Elements(two) = Elements(Available(q.raw)) \cup Elements(Available(q.signatures))
    BY <2>4, ElementsOfConcat
  <2> HIDE DEF two
  <2>7. three \in Seq(S) /\ Elements(three) = Elements(two) \cup Elements(Available(q.policy))
    BY <2>4, <2>6, ElementsOfConcat
  <2> HIDE DEF three
  <2>8. /\ three \o context \in Seq(S)
        /\ Elements(three \o context) = Elements(three) \cup Elements(context)
    BY <2>5, <2>7, ElementsOfConcat
  <2>9. inputs = three \o context
    BY DEF Inputs, context, three, two
  <2> HIDE DEF inputs
  <2> QED BY <2>4, <2>5, <2>6, <2>7, <2>8, <2>9
<1>2. todo = inputs \o <<receipt>> /\ <<receipt>> \in Seq(S) /\ Len(<<receipt>>) = 1
      /\ <<receipt>>[1] = receipt
  BY DEF Installs
<1> HIDE DEF todo, inputs, S
<1>3. k \in Nat
  BY <1>1, LenProperties
<1>4. /\ todo \in Seq(S) /\ Len(todo) = k + 1 /\ todo[k + 1] = receipt
      /\ \A n \in 1..k : todo[n] = inputs[n]
  <2>1. todo \in Seq(S) /\ Len(todo) = k + 1
    BY <1>1, <1>2, ConcatProperties
  <2>2. \A n \in 1..(k + 1) : todo[n] = IF n <= k THEN inputs[n] ELSE <<receipt>>[n - k]
    BY <1>1, <1>2, ConcatProperties
  <2> HIDE DEF k, receipt
  <2> QED BY <1>2, <1>3, <2>1, <2>2
<1> HIDE DEF k
<1>5. todo \in Seq(Elements(todo))
  <2>1. todo \in [1..Len(todo) -> S]
    BY <1>4, LenProperties
  <2> QED BY <1>3, <1>4, <2>1 DEF Elements
<1>6. receipt.kind \in {"validated-event", "event-validation-failure"}
  BY DEF Receipt
<1>7. \A f \in I : Typed(f) /\ f.kind # "validated-event"
  <2>1. q.raw.kind = "raw-event" /\ q.signatures.kind = "signature-set" /\ q.policy.kind = "validation-policy"
    BY AdmissionAssumption
  <2>2. c # None => c \in Contexts /\ c.kind = "context"
    BY DEF Contexts
  <2> QED BY <2>1, <2>2 DEF Typed
<1>8. Typed(receipt)
  BY <1>6 DEF Typed
<1> HIDE DEF receipt, I
<1>9. \A n \in 1..k : todo[n] \in I
  BY <1>1, <1>4 DEF Elements, k
<1>10. ASSUME receipt.kind = "validated-event"
       PROVE  Backed(receipt, I)
  <2>1. FailureCodes(q, c, t, l, found) = {}
    BY <1>10 DEF receipt, Receipt
  <2>2. /\ Parses(q.raw) /\ Parses(q.signatures) /\ Parses(q.policy)
        /\ c \in Contexts /\ c.committed /\ c.tick = t
    BY <2>1, NoCodesInputs
  <2>3. receipt.cites = [raw |-> q.raw.id, signatures |-> q.signatures.id,
                         policy |-> q.policy.id, tick |-> c.tick]
    BY <2>1, <2>2 DEF receipt, Receipt
  <2>4. Warranted(Bundle(q, c))
    BY <2>1, NoCodesWarranted DEF Bundle
  <2>5. c # None
    BY <2>2, AdmissionAssumption
  <2>6. {q.raw, q.signatures, q.policy, c} \subseteq I
    BY <2>2, <2>5 DEF I
  <2> QED BY <2>2, <2>3, <2>4, <2>6 DEF Backed, Accepts
<1>11. ASSUME NEW n \in 1..Len(todo)
       PROVE  /\ Typed(todo[n])
              /\ todo[n].kind = "validated-event"
                   => Backed(todo[n], kept \cup {todo[m] : m \in 1..(n - 1)})
  <2>1. CASE n \in 1..k
    BY <1>7, <1>9, <2>1
  <2>2. CASE n \notin 1..k
    <3>1. n = k + 1 /\ todo[n] = receipt /\ 1..(n - 1) = 1..k
      BY <1>3, <1>4, <2>2
    <3>2. {todo[m] : m \in 1..(n - 1)} = I
      BY <1>1, <1>4, <3>1 DEF Elements, k
    <3> QED BY <1>8, <1>10, <3>1, <3>2, BackedMore
  <2> QED BY <2>1, <2>2
<1>12. Len(todo) > 0 /\ todo[Len(todo)] = receipt
  BY <1>3, <1>4
<1>13. Planned(todo, receipt, kept)
  BY <1>5, <1>11, <1>12 DEF Planned
<1> QED BY <1>13 DEF todo, receipt

-----------------------------------------------------------------------------
(***************************************************************************)
(* The invariant.                                                          *)
(***************************************************************************)
\* Nothing is lost of what an engine relies on when its own job, the store's
\* files and its known contexts stay and more becomes durable.
LEMMA JobStays ==
    ASSUME NEW p \in Admitters, JobInv(p), pc'[p] = pc[p], job'[p] = job[p],
           files \subseteq files', durable \subseteq durable'
    PROVE  JobInv(p)'
BY PlannedMore DEF JobInv

\* An engine without a job relies on nothing.
LEMMA IdleJob ==
    ASSUME NEW p \in Admitters, pc'[p] = "idle"
    PROVE  JobInv(p)'
BY DEF JobInv

\* An admitter whose job ends leaves every other job what it relies on.
LEMMA LeaveJobs ==
    ASSUME EngineInv, NEW p \in Admitters, NEW how, Leave(p, how),
           files \subseteq files', durable \subseteq durable'
    PROVE  EngineInv'
<1>1. /\ pc' = [pc EXCEPT ![p] = "idle"] /\ job' = [job EXCEPT ![p] = None]
      /\ pc \in [Admitters -> {"idle", "resolve", "install", "link", "flush"}]
      /\ job = [e \in Admitters |-> job[e]]
  BY DEF Leave, EngineInv
<1>2. ASSUME NEW e \in Admitters PROVE JobInv(e)'
  <2>1. CASE e = p
    BY <1>1, <2>1, IdleJob
  <2>2. CASE e # p
    BY <1>1, <2>2, JobStays DEF EngineInv
  <2> QED BY <2>1, <2>2
<1> QED BY <1>1, <1>2 DEF EngineInv

\* One engine goes on, the others stay where they are.
LEMMA OneGoesOn ==
    ASSUME EngineInv, NEW p \in Admitters, JobInv(p)',
           NEW to \in {"idle", "resolve", "install", "link", "flush"}, NEW j,
           pc' = [pc EXCEPT ![p] = to], job' = [job EXCEPT ![p] = j],
           files \subseteq files', durable \subseteq durable'
    PROVE  EngineInv'
<1>1. ASSUME NEW e \in Admitters PROVE JobInv(e)'
  <2>1. CASE e # p
    BY <2>1, JobStays DEF EngineInv
  <2> QED BY <2>1
<1> QED BY <1>1 DEF EngineInv

\* Nothing is stored or known at first.
LEMMA InitAdmission == Init => AdmissionInv
<1> SUFFICES ASSUME Init PROVE AdmissionInv
  OBVIOUS
<1>1. known \in [0..MaxTick -> Contexts \cup {None}]
  BY AdmissionAssumption DEF Init, Contexts
<1>2. StoreInv
  BY DEF Init, StoreInv
<1>3. EngineInv
  BY DEF Init, EngineInv, JobInv
<1> QED BY <1>1, <1>2, <1>3 DEF AdmissionInv

\* Contexts are proposed and committed without touching the store.
LEMMA ContextSteps ==
    ASSUME AdmissionInv, ProposeContext \/ CommitContext
    PROVE  AdmissionInv'
<1>1. UNCHANGED <<files, durable, temps, pc, job, outcome, answers, calls, failures>>
  BY DEF ProposeContext, CommitContext
<1>2. StoreInv' /\ EngineInv'
  BY <1>1 DEF AdmissionInv, StoreInv, EngineInv, JobInv
<1>3. known' \in [0..MaxTick -> Contexts \cup {None}]
  <2> DEFINE next == LatestCommitted + 1
  <2>1. CASE ProposeContext
    <3>1. PICK root \in Roots :
             known' = [known EXCEPT ![next] =
                         [kind |-> "context", tick |-> next, root |-> root, committed |-> FALSE]]
      BY <2>1 DEF ProposeContext
    <3>2. next \in 0..MaxTick =>
             [kind |-> "context", tick |-> next, root |-> root, committed |-> FALSE] \in Contexts
      BY DEF Contexts
    <3> HIDE DEF next
    <3> QED BY <3>1, <3>2 DEF AdmissionInv
  <2>2. CASE CommitContext
    <3>1. known' = [known EXCEPT ![next].committed = TRUE] /\ known[next] # None
      BY <2>2 DEF CommitContext
    <3> HIDE DEF next
    <3>2. next \in 0..MaxTick => known[next] \in Contexts
      BY <3>1 DEF AdmissionInv
    <3>3. next \in 0..MaxTick => [known[next] EXCEPT !.committed = TRUE] \in Contexts
      BY <3>2 DEF Contexts
    <3> QED BY <3>1, <3>3 DEF AdmissionInv
  <2> QED BY <2>1, <2>2
<1> QED BY <1>2, <1>3 DEF AdmissionInv

\* A call takes up a request and plans what to install.
LEMMA CallSteps ==
    ASSUME AdmissionInv, NEW p \in Admitters, Admit(p) \/ Resolve(p) \/ Write(p)
    PROVE  AdmissionInv'
<1>1. UNCHANGED <<known, files, durable, answers>>
  BY DEF Admit, Resolve, Write, world
<1>2. StoreInv' /\ known' \in [0..MaxTick -> Contexts \cup {None}]
  BY <1>1 DEF AdmissionInv, StoreInv
<1>3. /\ EngineInv /\ JobInv(p) /\ job = [e \in Admitters |-> job[e]]
      /\ pc \in [Admitters -> {"idle", "resolve", "install", "link", "flush"}]
  BY DEF AdmissionInv, EngineInv
<1>4. CASE Admit(p)
  <2>1. PICK q \in Requests, t \in 0..MaxTick, l \in {LatestCommitted, None} :
           job' = [job EXCEPT ![p] = [request |-> q, tick |-> t, latest |-> l]]
    BY <1>4 DEF Admit
  <2>2. pc' = [pc EXCEPT ![p] = "resolve"]
    BY <1>4 DEF Admit
  <2>3. pc'[p] = "resolve" /\ job'[p].request = q /\ job'[p].tick = t
    BY <1>3, <2>1, <2>2
  <2>4. JobInv(p)'
    BY <2>3 DEF JobInv
  <2> QED BY <1>1, <1>2, <1>3, <2>1, <2>2, <2>4, OneGoesOn DEF AdmissionInv
<1>5. CASE Resolve(p)
  <2>0. PICK found \in {Registered, {}} :
           LET context == IF job[p].latest = None THEN None ELSE known[job[p].tick]
               receipt == Receipt(job[p].request, context, job[p].tick, job[p].latest, found)
           IN  job' = [job EXCEPT ![p] =
                          [todo |-> Installs(job[p].request, context, receipt), receipt |-> receipt]]
    BY <1>5 DEF Resolve
  <2> DEFINE q == job[p].request
             c == IF job[p].latest = None THEN None ELSE known[job[p].tick]
             r == Receipt(q, c, job[p].tick, job[p].latest, found)
             plan == [todo |-> Installs(q, c, r), receipt |-> r]
  <2>1. job' = [job EXCEPT ![p] = plan] /\ pc' = [pc EXCEPT ![p] = "install"] /\ pc[p] = "resolve"
    BY <1>5, <2>0 DEF Resolve
  <2>2. q \in Requests /\ job[p].tick \in 0..MaxTick /\ c \in Contexts \cup {None}
    BY <1>3, <2>1 DEF JobInv, AdmissionInv
  <2>3. Planned(Installs(q, c, r), r, durable)
    BY <2>2, InstallsPlanned
  <2> HIDE DEF q, c, r
  <2>4. pc'[p] = "install" /\ job'[p] = plan
    BY <1>3, <2>1
  <2>5. JobInv(p)'
    BY <1>1, <2>3, <2>4 DEF JobInv
  <2> HIDE DEF plan
  <2> QED BY <1>1, <1>2, <1>3, <2>1, <2>5, OneGoesOn DEF AdmissionInv
<1>6. CASE Write(p)
  <2>1. pc[p] = "install" /\ pc' = [pc EXCEPT ![p] = "link"] /\ job' = job
    BY <1>6 DEF Write
  <2>2. JobInv(p)'
    BY <1>1, <1>3, <2>1 DEF JobInv
  <2>3. job' = [job EXCEPT ![p] = job[p]]
    BY <1>3, <2>1
  <2> QED BY <1>1, <1>2, <1>3, <2>1, <2>2, <2>3, OneGoesOn DEF AdmissionInv
<1> QED BY <1>4, <1>5, <1>6

\* Linking the next file: it is the first of its path, or the same was there.
LEMMA LinkStep ==
    ASSUME AdmissionInv, NEW p \in Admitters, Link(p)
    PROVE  AdmissionInv'
<1> DEFINE next == Head(job[p].todo)
<1>1. /\ pc[p] = "link" /\ ~Clashes(next) /\ pc' = [pc EXCEPT ![p] = "flush"]
      /\ files' = (IF Installed(next) THEN files ELSE files \cup {next})
      /\ UNCHANGED <<known, durable, job, answers>>
  BY DEF Link, world
<1>2. /\ EngineInv /\ StoreInv /\ JobInv(p) /\ job = [e \in Admitters |-> job[e]]
      /\ pc \in [Admitters -> {"idle", "resolve", "install", "link", "flush"}]
  BY DEF AdmissionInv, EngineInv
<1>3. Planned(job[p].todo, job[p].receipt, durable)
  BY <1>1, <1>2 DEF JobInv
<1>4. Typed(next) /\ (next.kind = "validated-event" => Backed(next, durable))
  BY <1>3, PlannedHead
<1> HIDE DEF next
<1>5. next \in files' /\ files' \subseteq files \cup {next}
  BY <1>1 DEF Installed, Clashes
<1>6. StoreInv'
  <2>1. \A f, g \in files' : f.kind = "context" /\ g.kind = "context" /\ f.tick = g.tick => f = g
    <3>1. CASE Installed(next)
      BY <1>1, <1>2, <3>1 DEF StoreInv
    <3>2. CASE ~Installed(next)
      <4>1. \A f \in files : f.kind = "context" /\ next.kind = "context" => f.tick # next.tick
        BY <3>2 DEF Installed, SamePath
      <4> QED BY <1>2, <1>5, <4>1 DEF StoreInv
    <3> QED BY <3>1, <3>2
  <2>2. durable' \subseteq files' /\ answers' \subseteq durable'
    BY <1>1, <1>2 DEF StoreInv
  <2>3. \A f \in files' : Typed(f) /\ (f.kind = "validated-event" => Backed(f, durable'))
    BY <1>1, <1>2, <1>4, <1>5 DEF StoreInv
  <2> QED BY <2>1, <2>2, <2>3 DEF StoreInv
<1>7. JobInv(p)'
  BY <1>1, <1>2, <1>5 DEF JobInv, next
<1>8. job' = [job EXCEPT ![p] = job[p]]
  BY <1>1, <1>2
<1>9. files \subseteq files' /\ durable \subseteq durable'
  BY <1>1
<1>10. EngineInv'
  BY <1>1, <1>2, <1>7, <1>8, <1>9, OneGoesOn
<1>11. known' \in [0..MaxTick -> Contexts \cup {None}]
  BY <1>1 DEF AdmissionInv
<1> QED BY <1>6, <1>10, <1>11 DEF AdmissionInv

\* Going on to the next file keeps the receipt.
LEMMA NextFile ==
    ASSUME NEW earlier, earlier = [todo |-> earlier.todo, receipt |-> earlier.receipt], NEW rest
    PROVE  LET j == [earlier EXCEPT !.todo = rest] IN
           j.todo = rest /\ j.receipt = earlier.receipt /\ j = [todo |-> j.todo, receipt |-> j.receipt]
<1> DEFINE j == [earlier EXCEPT !.todo = rest]
<1>1. earlier \in [todo : {earlier.todo}, receipt : {earlier.receipt}]
  OBVIOUS
<1>2. j.todo = rest /\ j.receipt = earlier.receipt
  BY <1>1
<1>3. j \in [todo : {rest}, receipt : {earlier.receipt}]
  BY <1>1
<1> HIDE DEF j
<1>4. j = [todo |-> j.todo, receipt |-> j.receipt]
  BY <1>3
<1> QED BY <1>2, <1>4 DEF j

\* Flushing it, and going on to the next file, or answering.
LEMMA AdvanceStep ==
    ASSUME AdmissionInv, NEW p \in Admitters, Advance(p)
    PROVE  AdmissionInv'
<1> DEFINE todo == job[p].todo
           receipt == job[p].receipt
           next == Head(todo)
<1>1. /\ \/ pc[p] = "flush"
         \/ pc[p] = "install" /\ Installed(next) /\ ~Clashes(next)
      /\ durable' = durable \cup {next}
      /\ UNCHANGED <<known, files>>
  BY DEF Advance, Flushed, world
<1>2. /\ EngineInv /\ StoreInv /\ JobInv(p) /\ job = [e \in Admitters |-> job[e]]
      /\ pc \in [Admitters -> {"idle", "resolve", "install", "link", "flush"}]
  BY DEF AdmissionInv, EngineInv
<1>3. Planned(todo, receipt, durable) /\ job[p] = [todo |-> todo, receipt |-> receipt]
  BY <1>1, <1>2 DEF JobInv
<1>4. next \in files
  BY <1>1, <1>2 DEF JobInv, Installed, Clashes
<1>5. durable \subseteq durable' /\ durable' \subseteq files'
  BY <1>1, <1>2, <1>4 DEF StoreInv
<1>6. \A f \in files' : Typed(f) /\ (f.kind = "validated-event" => Backed(f, durable'))
  BY <1>1, <1>2, <1>5, BackedMore DEF StoreInv
<1>7. \A f, g \in files' : f.kind = "context" /\ g.kind = "context" /\ f.tick = g.tick => f = g
  BY <1>1, <1>2 DEF StoreInv
<1>8. known' \in [0..MaxTick -> Contexts \cup {None}]
  BY <1>1 DEF AdmissionInv
<1>9. CASE Len(todo) = 1
  <2>1. Leave(p, "none") /\ answers' = answers \cup {receipt}
    BY <1>9 DEF Advance
  <2>2. receipt = next
    BY <1>3, <1>9, PlannedHead
  <2>3. answers' \subseteq durable'
    BY <1>1, <1>2, <2>1, <2>2 DEF StoreInv
  <2>4. EngineInv'
    BY <1>1, <1>2, <1>5, <2>1, LeaveJobs
  <2> QED BY <1>5, <1>6, <1>7, <1>8, <2>3, <2>4 DEF AdmissionInv, StoreInv
<1>10. CASE Len(todo) # 1
  <2>1. /\ job' = [job EXCEPT ![p].todo = Tail(todo)] /\ pc' = [pc EXCEPT ![p] = "install"]
        /\ answers' = answers
    BY <1>10 DEF Advance
  <2>2. answers' \subseteq durable'
    BY <1>2, <1>5, <2>1 DEF StoreInv
  <2> DEFINE j == [job[p] EXCEPT !.todo = Tail(todo)]
  <2>3. job' = [job EXCEPT ![p] = j]
    BY <2>1
  <2>4. Planned(Tail(todo), receipt, durable')
    BY <1>1, <1>3, <1>10, PlannedTail
  <2>5. pc'[p] = "install" /\ job'[p] = j
    BY <1>2, <2>1, <2>3
  <2>6. j.todo = Tail(todo) /\ j.receipt = receipt /\ j = [todo |-> j.todo, receipt |-> j.receipt]
    BY <1>3, NextFile
  <2> HIDE DEF j
  <2>7. JobInv(p)'
    BY <2>4, <2>5, <2>6 DEF JobInv
  <2>8. files \subseteq files'
    BY <1>1
  <2>9. EngineInv'
    BY <1>2, <1>5, <2>1, <2>3, <2>7, <2>8, OneGoesOn
  <2> QED BY <1>5, <1>6, <1>7, <1>8, <2>2, <2>9 DEF AdmissionInv, StoreInv
<1> QED BY <1>9, <1>10

\* An engine gives up or dies, a temporary file is swept.
LEMMA GiveUpSteps ==
    ASSUME AdmissionInv, NEW p \in Admitters,
           Conflict(p) \/ LinkSwept(p) \/ Die(p) \/ Sweep(p)
    PROVE  AdmissionInv'
<1>1. UNCHANGED <<known, files, durable, answers>>
  BY DEF Conflict, LinkSwept, Die, Sweep, world
<1>2. StoreInv' /\ known' \in [0..MaxTick -> Contexts \cup {None}]
  BY <1>1 DEF AdmissionInv, StoreInv
<1>3. EngineInv'
  <2>1. CASE \E how : Leave(p, how)
    BY <1>1, <2>1, LeaveJobs DEF AdmissionInv
  <2>2. CASE Sweep(p)
    BY <1>1, <2>2 DEF Sweep, AdmissionInv, EngineInv, JobInv
  <2> QED BY <2>1, <2>2 DEF Conflict, LinkSwept, Die
<1> QED BY <1>2, <1>3 DEF AdmissionInv

\* A power loss keeps what is durable, which backs every accepted receipt.
LEMMA LosePowerStep ==
    ASSUME AdmissionInv, LosePower
    PROVE  AdmissionInv'
<1>1. PICK kept \in SUBSET (files \ durable) :
         files' = durable \cup kept /\ durable' = durable \cup kept
  BY DEF LosePower
<1>2. /\ UNCHANGED <<known, answers>> /\ pc' = [p \in Admitters |-> "idle"]
      /\ job' = [p \in Admitters |-> None]
  BY DEF LosePower
<1>3. files' \subseteq files /\ durable \subseteq durable' /\ StoreInv
  BY <1>1 DEF AdmissionInv, StoreInv
<1>4. \A f \in files' : f.kind = "validated-event" => Backed(f, durable')
  BY <1>3, BackedMore DEF StoreInv
<1>5. StoreInv'
  BY <1>1, <1>2, <1>3, <1>4 DEF StoreInv
<1>6. EngineInv'
  BY <1>2 DEF EngineInv, JobInv
<1> QED BY <1>2, <1>5, <1>6 DEF AdmissionInv

\* Every step keeps the invariant.
LEMMA NextAdmission == AdmissionInv /\ [Next]_vars => AdmissionInv'
<1> SUFFICES ASSUME AdmissionInv, [Next]_vars PROVE AdmissionInv'
  OBVIOUS
<1>1. CASE ProposeContext \/ CommitContext
  BY <1>1, ContextSteps
<1>2. CASE LosePower
  BY <1>2, LosePowerStep
<1>3. ASSUME NEW p \in Admitters, Admit(p) \/ Resolve(p) \/ Write(p) PROVE AdmissionInv'
  BY <1>3, CallSteps
<1>4. ASSUME NEW p \in Admitters, Link(p) PROVE AdmissionInv'
  BY <1>4, LinkStep
<1>5. ASSUME NEW p \in Admitters, Advance(p) PROVE AdmissionInv'
  BY <1>5, AdvanceStep
<1>6. ASSUME NEW p \in Admitters, Conflict(p) \/ LinkSwept(p) \/ Die(p) \/ Sweep(p)
      PROVE  AdmissionInv'
  BY <1>6, GiveUpSteps
<1>7. CASE UNCHANGED vars
  BY <1>7 DEF vars, AdmissionInv, StoreInv, EngineInv, JobInv
<1> QED BY <1>1, <1>2, <1>3, <1>4, <1>5, <1>6, <1>7 DEF Next

\* The inputs an accepted receipt cites are found whatever else is stored: the
\* digest identifies a contract, and the store holds one context for a tick.
LEMMA BackedReconstructs ==
    ASSUME StoreInv, NEW r \in files, NEW from, durable \subseteq from, from \subseteq files,
           NEW q \in Requests, NEW c \in Contexts,
           Accepts(r, q, c), {q.raw, q.signatures, q.policy, c} \subseteq durable
    PROVE  Reconstructed(r, from) = {Bundle(q, c)}
<1>1. /\ Parses(q.raw) /\ Parses(q.signatures) /\ Parses(q.policy) /\ c.committed
      /\ r.cites.raw = q.raw.id /\ r.cites.signatures = q.signatures.id
      /\ r.cites.policy = q.policy.id /\ r.cites.tick = c.tick
  BY DEF Accepts
<1>2. /\ q.raw.kind = "raw-event" /\ q.signatures.kind = "signature-set"
      /\ q.policy.kind = "validation-policy" /\ c.kind = "context"
  BY AdmissionAssumption DEF Contexts
<1>3. Bundle(q, c) \in Reconstructed(r, from)
  BY <1>1, <1>2 DEF Bundle, Reconstructed
<1>4. ASSUME NEW b \in Reconstructed(r, from) PROVE b = Bundle(q, c)
  <2>1. /\ b \in [raw : {f \in from : f.kind = "raw-event"},
                  signatures : {f \in from : f.kind = "signature-set"},
                  policy : {f \in from : f.kind = "validation-policy"},
                  context : {f \in from : f.kind = "context"}]
        /\ b.raw.id = q.raw.id /\ b.signatures.id = q.signatures.id
        /\ b.policy.id = q.policy.id /\ b.context.tick = c.tick
    BY <1>1 DEF Reconstructed
  <2>2. \A f \in files : Typed(f)
    BY DEF StoreInv
  <2>3. Identifies("raw") /\ Identifies("signatures") /\ Identifies("policy")
    BY AdmissionAssumption
  <2>4. b.raw = q.raw
    BY <1>1, <2>1, <2>2, <2>3 DEF Typed, Identifies
  <2>5. b.signatures = q.signatures
    BY <1>1, <2>1, <2>2, <2>3 DEF Typed, Identifies
  <2>6. b.policy = q.policy
    BY <1>1, <2>1, <2>2, <2>3 DEF Typed, Identifies
  <2>7. b.context = c
    BY <1>2, <2>1 DEF StoreInv
  <2> QED BY <2>1, <2>4, <2>5, <2>6, <2>7 DEF Bundle
<1> QED BY <1>3, <1>4

\* Whatever engines, sweeps, deaths and power losses do, an accepted receipt
\* that can be read is reconstructed from durable files to exactly one bundle,
\* that bundle warrants the acceptance, and every receipt returned is kept.
THEOREM AcceptanceReconstructs == Spec => []AcceptedReconstructs
<1>1. AdmissionInv => AcceptedReconstructs
  <2> SUFFICES ASSUME AdmissionInv, NEW r \in files, r.kind = "validated-event"
               PROVE  /\ Cardinality(Reconstructed(r, durable)) = 1
                      /\ Reconstructed(r, files) = Reconstructed(r, durable)
                      /\ \A b \in Reconstructed(r, durable) : Warranted(b)
    BY DEF AdmissionInv, StoreInv, AcceptedReconstructs
  <2>1. StoreInv /\ durable \subseteq files
    BY DEF AdmissionInv, StoreInv
  <2>2. PICK q \in Requests, c \in Contexts :
           Accepts(r, q, c) /\ {q.raw, q.signatures, q.policy, c} \subseteq durable
    BY <2>1 DEF StoreInv, Backed
  <2>3. Reconstructed(r, durable) = {Bundle(q, c)} /\ Reconstructed(r, files) = {Bundle(q, c)}
    BY <2>1, <2>2, BackedReconstructs
  <2>4. Warranted(Bundle(q, c))
    BY <2>2 DEF Accepts
  <2> QED BY <2>3, <2>4, FS_Singleton
<1> QED BY <1>1, InitAdmission, NextAdmission, PTL DEF Spec
=============================================================================
