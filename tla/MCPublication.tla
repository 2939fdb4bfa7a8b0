---------------------------- MODULE MCPublication ----------------------------
(***************************************************************************)
(* The synthesis pipeline on small instances: one producer that executes   *)
(* two attempts, then the publication of small inventories: one sample in  *)
(* one shard, the same sample in two, one of two attempts, and three       *)
(* samples.                                                                *)
(***************************************************************************)
EXTENDS SynthesisPipeline

CONSTANTS a1, a2, seed, other

Path(a, namespace, n) == [attempt |-> a, namespace |-> namespace, segment |-> n]
Case == <<"case">>
Step == <<"case", "step">>
Plan == <<"plan">>

MCPathOrder == <<Path(a1, Case, 1), Path(a1, Case, 2), Path(a1, Step, 1), Path(a1, Plan, 1), Path(a2, Case, 1)>>

Bounded(path, upper)            == [operation |-> "bounded", path |-> path, domain |-> [upper |-> upper]]
Weighted(path, values, weights) == [operation |-> "weighted", path |-> path,
                                    domain |-> [values |-> values, weights |-> weights]]
Ratio(path, n, d)               == [operation |-> "ratio", path |-> path,
                                    domain |-> [numerator |-> n, denominator |-> d]]

\* One path twice, an empty domain, a namespace that is not declared, and a call
\* of the other attempt, whose bound takes three bytes of two values.
MCCalls ==
    {Bounded(Path(a1, Case, 1), 3), Ratio(Path(a1, Case, 1), 1, 2),
     Weighted(Path(a1, Case, 2), <<"x", "y", "z">>, <<2, 1, 3>>),
     Ratio(Path(a1, Step, 1), 2, 5), Bounded(Path(a1, Step, 1), 0),
     Bounded(Path(a1, Plan, 1), 2), Bounded(Path(a2, Case, 1), 7)}

\* With `other' no bound of 3 is ever met: every draw gives the same two bytes.
MCHash(s, material, draw, block) ==
    <<IF s = seed THEN (Len(material.path.namespace) + material.path.segment + draw + block) % 2 ELSE 1>>

\* The first two share what is displayed, the first and the last the digest.
MCRequestOrder ==
    <<[attempt |-> a1, kind |-> "plan", role |-> 1], [attempt |-> a1, kind |-> "plan", role |-> 2],
      [attempt |-> a2, kind |-> "control", role |-> 1]>>
MCRequests                == Range(MCRequestOrder)
MCIdentityHash(s, n, r)   == IF s = other THEN 7 ELSE IF r.role = 2 THEN 4 ELSE 5
MCDisplay(full)           == full \div 2

MCLedgerBytes(records) ==
    FoldLeft(LAMBDA n, r : n + (IF r.call.operation = "weighted" THEN 3 ELSE 2), 1, records)

CONSTANTS w1, w2, r1, r2, s1, s2, s3, single, double, gap, wide

MCOutcome   == s1 :> <<"rejected", "accepted">> @@ s2 :> <<"rejected">> @@ s3 :> <<"accepted">>
MCSamplesOf == single :> <<s3>> @@ double :> <<s3>> @@ gap :> <<s1>> @@ wide :> <<s3, s2, s1>>
MCShardsOf  == single :> 1 @@ double :> 2 @@ gap :> 1 @@ wide :> 2

Run(run, i, keys)           == [run |-> run, inventory |-> i, keys |-> keys]
Started(first, second, old, n) == [jobs |-> w1 :> first @@ w2 :> second, earlier |-> old, failures |-> n]

\* The same run twice; two runs of an inventory; one sample in two inventories,
\* with and without an envelope that an earlier tool left; two runs that each
\* lack an attempt; every sample, beside a run that shares one of them.
MCAssignments ==
    {Started(Run(r1, single, <<<<s3, 1>>>>), Run(r1, single, <<<<s3, 1>>>>), {}, 1),
     Started(Run(r1, single, <<<<s3, 1>>>>), Run(r2, single, <<<<s3, 1>>>>), {}, 0),
     Started(Run(r1, single, <<<<s3, 1>>>>), Run(r2, double, <<<<s3, 1>>>>), {}, 1),
     Started(Run(r1, single, <<<<s3, 1>>>>), Run(r2, double, <<<<s3, 1>>>>), {Envelope(<<s3, 1>>)}, 0),
     Started(Run(r1, gap, <<<<s1, 1>>>>), Run(r2, gap, <<<<s1, 2>>>>), {}, 1),
     Started(Run(r1, wide, <<<<s3, 1>>, <<s2, 1>>, <<s1, 1>>, <<s1, 2>>>>), Run(r2, single, <<<<s3, 1>>>>), {}, 0)}
=============================================================================
