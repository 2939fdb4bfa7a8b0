--------------------------- MODULE Reconciliation ----------------------------
(***************************************************************************)
(* The objects the synthesis pipeline publishes (publication_protocol.py,  *)
(* publication_shards.py, reconciliation_records.py,                       *)
(* reconciliation_manifests.py) and the pure part of their reconciliation: *)
(* which samples an execution inventory resolves and which objects are     *)
(* published for them, in which order (reconciliation_protocol.py).        *)
(*                                                                         *)
(* An object stands for its canonical bytes and so for its digest; a       *)
(* digest inside it is modelled as the object it identifies.  Attempts are *)
(* numbered from 1.  What an attempt ends with is a function of its key:   *)
(* generation is deterministic, and replay attests exactly that.           *)
(***************************************************************************)
EXTENDS Integers, Sequences, FiniteSets, SequencesExt, FiniteSetsExt

CONSTANTS None,         \* no receipt, no attempt
          Samples,      \* the sample keys
          Outcome,      \* of each attempt in a sample's range
          Inventories,  \* the execution inventories
          SamplesOf,    \* the samples of an inventory, in ordinal order
          ShardsOf      \* how many logical shards an inventory has

ASSUME ReconciliationAssumption ==
    /\ Outcome \in [Samples -> Seq({"accepted", "rejected"}) \ {<<>>}]
    /\ \A i \in Inventories : SamplesOf[i] \in Seq(Samples) /\ IsInjective(SamplesOf[i])
    /\ ShardsOf \in [Inventories -> Nat \ {0}]

\* The attempts of an inventory: <<sample, attempt>>.
Keys(i) == UNION {{<<s, n>> : n \in DOMAIN Outcome[s]} : s \in Range(SamplesOf[i])}

Accepted(k)  == Outcome[k[1]][k[2]] = "accepted"
Place(i, s)  == CHOOSE p \in DOMAIN SamplesOf[i] : SamplesOf[i][p] = s

\* shard-policy-v1: the global ordinal counts from 0.
ShardFor(i, s) == (Place(i, s) - 1) % ShardsOf[i]

-----------------------------------------------------------------------------
(* The objects.                                                            *)

Envelope(k)      == [kind |-> "envelope", key |-> k]
Reference(i, k)  == [kind |-> "reference", inventory |-> i, key |-> k]

\* The receipt number `ordinal' of a run for one attempt: how the object came
\* to be there ("published" or "existing"), and the receipt before it.
Receipt(run, i, k, ordinal, how, previous) ==
    [kind |-> "receipt", run |-> run, inventory |-> i, key |-> k,
     ordinal |-> ordinal, how |-> how, previous |-> previous]

ReceiptObject(r) == IF r.ordinal = 0 THEN Envelope(r.key) ELSE Reference(r.inventory, r.key)

\* The entries of an index are the last receipts of its attempts: each fixes the
\* envelope and the reference.
Index(i, n, entries) == [kind |-> "index", inventory |-> i, shard |-> n, entries |-> entries]
Manifest(index)      == [kind |-> "manifest", index |-> index]

Attestation(k) == [kind |-> "attestation", key |-> k]
SemanticRecord(k) ==
    [kind |-> "semantic", accepted |-> k,
     prefix |-> [n \in 1..(k[2] - 1) |-> <<k[1], n>>]]
RunRecord(i, s, sources, attempts, selected) ==
    [kind |-> "evidence", inventory |-> i, sample |-> s, sources |-> sources,
     attempts |-> attempts, selected |-> selected]

Node(domain, leaves) == [kind |-> "node", domain |-> domain, leaves |-> leaves]
Root(domain, leaves) == [kind |-> "root", domain |-> domain, leaves |-> leaves]

Corpus(root)               == [kind |-> "corpus", root |-> root]
RunEvidence(i, sources, root) ==
    [kind |-> "run", inventory |-> i, sources |-> sources, root |-> root]
MergeSeal(i, corpus, run, sources) ==
    [kind |-> "merge", inventory |-> i, corpus |-> corpus, run |-> run, sources |-> sources]

-----------------------------------------------------------------------------
(* resolve_attempt_prefix, on the attempt numbers a sample has.            *)

\* Mutant: rejections alone exhaust a sample, however few.
ResolutionEarly(s, attempts) ==
    LET accepted == {n \in attempts : Accepted(<<s, n>>)}
    IN  IF \E n \in accepted : n # Max(attempts) THEN "refused"
        ELSE IF attempts # 1..Cardinality(attempts) THEN "refused"
        ELSE IF accepted # {} THEN "accepted" ELSE "exhausted"

Resolution(s, attempts) ==
    LET accepted == {n \in attempts : Accepted(<<s, n>>)}
    IN  IF \E n \in accepted : n # Max(attempts) THEN "refused"
        ELSE IF attempts # 1..Cardinality(attempts) THEN "refused"
        ELSE IF accepted # {} THEN "accepted"
        ELSE IF Cardinality(attempts) < Len(Outcome[s]) THEN "refused"
        ELSE "exhausted"

\* The last of n leaves completes a tree of 2 ^ l of them.
Completes(n, l) == 2 ^ l \in 1..n /\ n % 2 ^ l = 0

\* StreamingMerkleAccumulator.add_record: the record, then the nodes that the
\* last of `leaves' completes, until a level has no peak to join.
Added(domain, leaves) ==
    LET n      == Len(leaves)
        levels == {l \in 1..n : \A m \in 1..l : Completes(n, m)}
    IN  <<Last(leaves)>> \o
        [l \in 1..Cardinality(levels) |-> Node(domain, SubSeq(leaves, n - 2 ^ l + 1, n))]

\* _streams and the merge: what is known of one sample, from the manifest of
\* every shard.
EntriesOf(sources, s) == {e \in UNION {m.index.entries : m \in sources} : e.key[1] = s}
SourcesOf(sources, s) == {m \in sources : \E e \in m.index.entries : e.key[1] = s}

\* The n-th of a finite set of numbers.
Nth(S, n) == CHOOSE x \in S : Cardinality({y \in S : y <= x}) = n

\* _resolve_sample: the attestations are published before the prefix is judged.
ResolveSample(i, sources, made, s) ==
    LET found    == {e.key[2] : e \in EntriesOf(sources, s)}
        attempts == [n \in 1..Cardinality(found) |-> <<s, Nth(found, n)>>]
        attested == [n \in DOMAIN attempts |-> Attestation(attempts[n])]
        verdict  == Resolution(s, found)
        selected == IF verdict = "accepted" THEN Last(attempts) ELSE None
        corpus   == IF verdict = "accepted"
                    THEN Append(made.corpus, SemanticRecord(selected)) ELSE made.corpus
        runs     == Append(made.runs,
                           RunRecord(i, s, SourcesOf(sources, s), attempts, selected))
    IN  IF ~made.sound \/ found = {} THEN [made EXCEPT !.sound = FALSE]
        ELSE IF verdict = "refused"
             THEN [made EXCEPT !.sound = FALSE, !.objects = @ \o attested]
        ELSE [sound   |-> TRUE, corpus |-> corpus, runs |-> runs,
              objects |-> made.objects \o attested
                            \o (IF verdict = "accepted" THEN Added("semantic", corpus) ELSE <<>>)
                            \o Added("run", runs)]

\* The samples of an inventory are resolved one after the other.
Resolved(i, sources) ==
    LET made[n \in 0..Len(SamplesOf[i])] ==
            IF n = 0 THEN [sound |-> TRUE, corpus |-> <<>>, runs |-> <<>>, objects |-> <<>>]
            ELSE ResolveSample(i, sources, made[n-1], SamplesOf[i][n])
    IN  made

\* reconcile: the objects published, the merge seal last, and whether it got to
\* the seal.
Reconciled(i, sources) ==
    LET made  == Resolved(i, sources)[Len(SamplesOf[i])]
        roots == <<Root("semantic", made.corpus), Root("run", made.runs)>>
        corpus == Corpus(roots[1])
        run   == RunEvidence(i, sources, roots[2])
    IN  IF ~made.sound THEN made
        ELSE [made EXCEPT !.objects = @ \o roots \o <<corpus, run, MergeSeal(i, corpus, run, sources)>>]

-----------------------------------------------------------------------------
(* What the corpus of an inventory has to be, by the outcomes alone: the   *)
(* first attempt that is accepted of every sample that has one, in ordinal *)
(* order.                                                                  *)

Acceptances(s) == {n \in DOMAIN Outcome[s] : Accepted(<<s, n>>)}

CorpusOf(i) ==
    LET record(p) == LET s == SamplesOf[i][p] IN SemanticRecord(<<s, Min(Acceptances(s))>>)
        chosen    == {p \in DOMAIN SamplesOf[i] : Acceptances(SamplesOf[i][p]) # {}}
    IN  [n \in 1..Cardinality(chosen) |-> record(Nth(chosen, n))]
=============================================================================
