--------------------------- MODULE ChoiceEvidence ----------------------------
(***************************************************************************)
(* Deterministic choices and identities, the evidence they leave and its   *)
(* independent replay (deterministic_choices.py, choice_records.py,        *)
(* choice_ledger.py, identities.py, replay.py, replay_bundle.py).          *)
(*                                                                         *)
(* A keyed hash is any function; a digest is modelled as the value it      *)
(* commits to.  What Python's exact-class and token checks exclude is left *)
(* out.  A namespace of a path is the sequence of its dotted components.   *)
(***************************************************************************)
EXTENDS Integers, Sequences, FiniteSets, SequencesExt, FiniteSetsExt

CONSTANTS Byte,               \* how many values a byte has
          BlockLength,        \* how many bytes one hash block has
          MaxDraw,            \* the last draw index (MAX_UINT64)
          Hash(_, _, _, _),   \* the block of a seed, a material, a draw and a block index
          IdentityHash(_, _, _), \* the digest of a seed, a namespace and a request
          Display(_),         \* the prefix of a digest that is displayed
          PathOrder,          \* the paths in the order of their canonical bytes
          RequestOrder,       \* the identity requests in theirs
          LedgerBytes(_)      \* the size of a ledger with these records

ASSUME ByteAssumption == Byte \in Nat \ {0, 1}

-----------------------------------------------------------------------------
(* Bounded integers: a candidate outside the largest multiple of the bound *)
(* is rejected and drawn again.                                            *)

\* 256 ** width: how many values so many bytes have.
Powers[w \in Nat] == IF w = 0 THEN 1 ELSE Byte * Powers[w - 1]

Width(upper) == CHOOSE w \in 1..upper : Powers[w] >= upper /\ (w > 1 => Powers[w - 1] < upper)
Space(upper) == Powers[Width(upper)]

\* Mutant: every candidate is taken.
WholeSpace(upper) == Space(upper)
Limit(upper)      == Space(upper) - (Space(upper) % upper)

Blocks(width) == (width + BlockLength - 1) \div BlockLength

CandidateBytes(seed, material, draw, width) ==
    SubSeq(FlattenSeq([b \in 1..Blocks(width) |-> Hash(seed, material, draw, b - 1)]), 1, width)

BigEndian(bytes) == FoldLeft(LAMBDA n, b : n * Byte + b, 0, bytes)

Candidate(seed, material, upper, draw) ==
    BigEndian(CandidateBytes(seed, material, draw, Width(upper)))

\* The draws that end the loop; it raises when there is none.
Accepting(seed, material, upper) ==
    {d \in 0..MaxDraw : Candidate(seed, material, upper, d) < Limit(upper)}

Ticket(seed, material, upper) ==
    LET last  == Min(Accepting(seed, material, upper))
        draws == [d \in 1..(last + 1) |-> Candidate(seed, material, upper, d - 1)]
    IN  [value |-> draws[last + 1] % upper, limit |-> Limit(upper), width |-> Width(upper),
         draws |-> draws, material |-> material]

\* BoundedIntegerEvidence.__post_init__.
TicketValid(t) ==
    /\ t.draws # <<>> /\ Last(t.draws) < t.limit
    /\ \A d \in DOMAIN Front(t.draws) : t.draws[d] >= t.limit

-----------------------------------------------------------------------------
(* The three operations.  A call is [operation, path, domain].             *)

\* The totals after so many weights, 0 before the first.
Cumulative(weights) ==
    LET total[n \in 0..Len(weights)] == IF n = 0 THEN 0 ELSE total[n - 1] + weights[n]
    IN  total

Sum(weights) == Cumulative(weights)[Len(weights)]

DomainValid(call) ==
    CASE call.operation = "bounded"  -> call.domain.upper > 0
      [] call.operation = "weighted" -> /\ call.domain.values # <<>>
                                        /\ Len(call.domain.values) = Len(call.domain.weights)
                                        /\ IsInjective(call.domain.values)
                                        /\ \A n \in DOMAIN call.domain.weights : call.domain.weights[n] > 0
      [] call.operation = "ratio"    -> /\ call.domain.denominator > 0
                                        /\ call.domain.numerator \in 0..call.domain.denominator

Upper(call) ==
    CASE call.operation = "bounded"  -> call.domain.upper
      [] call.operation = "weighted" -> Sum(call.domain.weights)
      [] call.operation = "ratio"    -> call.domain.denominator

\* bisect_right over the cumulative weights, counted from 1.
Bisected(weights, value) == Cardinality({n \in DOMAIN weights : Cumulative(weights)[n] <= value}) + 1

\* The loop WeightedChoiceRecord.__post_init__ finds the index with.
Looped(weights, value) ==
    LET above == {n \in DOMAIN weights : value < Cumulative(weights)[n]}
    IN  IF above = {} THEN 1 ELSE Min(above)

Selected(call, value) ==
    CASE call.operation = "bounded"  -> value
      [] call.operation = "weighted" -> Bisected(call.domain.weights, value)
      [] call.operation = "ratio"    -> value < call.domain.numerator

\* Everything but the seed that decides a choice (_choice_material).
Answerable(seed, call) == DomainValid(call) /\ Accepting(seed, call, Upper(call)) # {}

Record(seed, namespace, call) ==
    LET ticket == Ticket(seed, call, Upper(call))
    IN  [call |-> call, seed |-> seed, namespace |-> namespace, ticket |-> ticket,
         selected |-> Selected(call, ticket.value)]

RecordValid(r) ==
    /\ DomainValid(r.call) /\ TicketValid(r.ticket)
    /\ r.ticket.value \in 0..(Upper(r.call) - 1)
    /\ CASE r.call.operation = "bounded"  -> r.ticket.value = Last(r.ticket.draws) % r.call.domain.upper
         [] r.call.operation = "weighted" -> r.selected = Looped(r.call.domain.weights, r.ticket.value)
         [] r.call.operation = "ratio"    -> r.selected = (r.ticket.value < r.call.domain.numerator)

-----------------------------------------------------------------------------
(* The ledger of an attempt.                                               *)

Position(order, x) == CHOOSE n \in DOMAIN order : order[n] = x

\* sorted with these keys, which is stable: each place goes to the element that so
\* many come before.
Arranged(s, keys) ==
    LET before(m) == {j \in DOMAIN s : keys[j] < keys[m] \/ (keys[j] = keys[m] /\ j < m)}
    IN  [n \in DOMAIN s |-> s[CHOOSE m \in DOMAIN s : Cardinality(before(m)) = n - 1]]

Sorted(records) ==
    Arranged(records, [n \in DOMAIN records |-> Position(PathOrder, records[n].call.path)])

\* Declared namespaces: the prefix itself and what is below it.
Declared(prefix, path) == IsPrefix(prefix, path.namespace)

Ledger(seed, namespace, attempt, producer, prefix, records) ==
    [seed |-> seed, namespace |-> namespace, attempt |-> attempt, producer |-> producer,
     prefix |-> prefix, records |-> records]

\* ChoiceLedger.__post_init__.
LedgerValid(l) ==
    /\ l.records = Sorted(l.records)
    /\ \A m, n \in DOMAIN l.records : l.records[m].call.path = l.records[n].call.path => m = n
    /\ \A n \in DOMAIN l.records :
          /\ l.records[n].call.path.attempt = l.attempt
          /\ l.records[n].seed = l.seed /\ l.records[n].namespace = l.namespace
          /\ Declared(l.prefix, l.records[n].call.path)

\* replay_choice_ledger: every record is made again from its call.
ReplaysLedger(seed, namespace, l) ==
    /\ l.seed = seed /\ l.namespace = namespace
    /\ \A n \in DOMAIN l.records :
          /\ l.records[n].seed = seed /\ l.records[n].namespace = namespace
          /\ Answerable(seed, l.records[n].call)
          /\ Record(seed, namespace, l.records[n].call) = l.records[n]
    /\ LedgerValid(l)

-----------------------------------------------------------------------------
(* Identities: a request is [attempt, kind, role].                         *)

Derived(seed, namespace, request) ==
    LET full == IdentityHash(seed, namespace, request)
    IN  [request |-> request, kind |-> request.kind, full |-> full,
         display |-> <<request.kind, Display(full)>>, namespace |-> namespace]

ByRequest(records) ==
    Arranged(records, [n \in DOMAIN records |-> Position(RequestOrder, records[n].request)])

\* replay_identity_records, with the digest it expects.
ReplaysIdentities(seed, namespace, records, expected) ==
    /\ IsInjective([n \in DOMAIN records |-> records[n].request])
    /\ IsInjective([n \in DOMAIN records |-> records[n].full])
    /\ IsInjective([n \in DOMAIN records |-> records[n].display])
    /\ \A n \in DOMAIN records : records[n] = Derived(seed, namespace, records[n].request)
    /\ ByRequest(records) = expected

-----------------------------------------------------------------------------
(* The bundle of one attempt.  Payload, branch facts and result add        *)
(* nothing to what is bound, and are left out.                             *)

InputCommitment(ledger) ==
    [attempt |-> ledger.attempt, namespace |-> ledger.namespace, producer |-> ledger.producer]

BranchCommitment(ledger) ==
    [attempt |-> ledger.attempt, namespace |-> ledger.namespace,
     input |-> InputCommitment(ledger), ledger |-> ledger]

\* AttemptAccepted and AttemptRejected: a rejection is about the branch explored.
Completion(status, ledger, identities) ==
    [status |-> status, attempt |-> ledger.attempt, namespace |-> ledger.namespace,
     input |-> InputCommitment(ledger), branch |-> BranchCommitment(ledger), ledger |-> ledger,
     identities |-> ByRequest(identities)]

Bundle(status, ledger, identities) ==
    [input |-> InputCommitment(ledger), branch |-> BranchCommitment(ledger), ledger |-> ledger,
     identities |-> identities, completion |-> Completion(status, ledger, identities)]

\* AttemptReplayBundle.__post_init__.
BundleValid(b) ==
    /\ \A part \in {b.input, b.branch, b.ledger} :
          part.attempt = b.completion.attempt /\ part.namespace = b.completion.namespace
    /\ \A n \in DOMAIN b.identities :
          /\ b.identities[n].request.attempt = b.completion.attempt
          /\ b.identities[n].namespace = b.completion.namespace
    /\ b.input.producer = b.ledger.producer
    /\ b.completion.input = b.input /\ b.branch.input = b.input
    /\ b.completion.ledger = b.ledger /\ b.branch.ledger = b.ledger
    /\ b.completion.branch = b.branch
    /\ b.completion.identities = ByRequest(b.identities)

\* AttemptReplayBundle.validate of a bundle that could be built.
Replays(seed, namespace, b) ==
    /\ BundleValid(b) /\ namespace = b.completion.namespace
    /\ ReplaysLedger(seed, namespace, b.ledger)
    /\ ReplaysIdentities(seed, namespace, b.identities, b.completion.identities)
=============================================================================
