---------------------------- MODULE Publication -----------------------------
(***************************************************************************)
(* Workers that publish completions, seal shards and reconcile them in one *)
(* content-addressed store (publication_store.py, publication_shards.py,   *)
(* reconciliation_protocol.py), with crashes, power loss and the recovery  *)
(* that sweeps temporary files.  Nothing is locked: every file is          *)
(* installed by a hard link that fails when the path is taken, and its     *)
(* directory is flushed before the next file is started.                   *)
(*                                                                         *)
(* A worker runs a program: the stage it is in, and the plan of files it   *)
(* still has to install for it.  The first file of a plan is looked for,   *)
(* linked and flushed; a stage goes on when its plan is empty.             *)
(***************************************************************************)
EXTENDS Reconciliation

CONSTANTS Workers,
          Assignments   \* [jobs, earlier, failures]: what each worker is started
                        \* with, the objects an earlier tool left without a claim,
                        \* and how many deaths, power losses and sweeps of live
                        \* temporary files there are at most

\* A worker is started for attempts of its inventory; what was left without a
\* claim is complete: the envelope of a reference is there too.
ASSUME PublicationAssumption ==
    \A a \in Assignments :
        /\ \A w \in Workers : /\ a.jobs[w].inventory \in Inventories
                              /\ a.jobs[w].keys \in Seq(Keys(a.jobs[w].inventory))
        /\ \A v \in a.earlier :
              /\ v.kind \in {"envelope", "reference"}
              /\ v.kind = "reference" => Envelope(v.key) \in a.earlier
        /\ a.failures \in Nat

VARIABLES visible,   \* the files that can be read
          pending,   \* those whose directory is not flushed yet
          temps,     \* the workers whose temporary file is there
          job,       \* per worker: [run, inventory, keys]
          stage, plan, step, left, previous, owned, receipts, shard, failures

vars == <<visible, pending, temps, job, stage, plan, step, left, previous, owned,
          receipts, shard, failures>>
memory == <<left, previous, owned, receipts, shard>>

Stages == {"working", "envelope", "enveloped", "reference", "indexed", "merged", "unresolved", "down"}

-----------------------------------------------------------------------------
(* Files.                                                                  *)

Categories == {"indexes", "manifests", "seals"}

Object(v)        == [at |-> "object", of |-> v]
Claim(v, owner)  == [at |-> "claim", of |-> v, owner |-> owner]
Ref(cat, i, n, v) == [at |-> cat, of |-> v, inventory |-> i, shard |-> n]

\* The path of a claim is that of its object: the owner is its content.
SamePath(f, g) == IF f.at = "claim" THEN g.at = "claim" /\ g.of = f.of ELSE f = g

Taken(f)      == \E g \in visible : SamePath(f, g)
Claimed(v)    == Taken(Claim(v, None))
Readable(v)   == Object(v) \in visible
Sealed(i, n)  == {f.of : f \in {g \in visible : /\ g.at = "seals"
                                                /\ g.inventory = i /\ g.shard = n
                                                /\ g.of.kind = "manifest"}}

Flushed(f) == pending' = {g \in pending : ~SamePath(f, g)}

-----------------------------------------------------------------------------
\* Every worker is at its beginning.
Fresh ==
    /\ pending = {} /\ temps = {}
    /\ stage = [w \in Workers |-> "working"]
    /\ plan = [w \in Workers |-> <<>>]
    /\ step = [w \in Workers |-> "look"]
    /\ previous = [w \in Workers |-> None]
    /\ owned = [w \in Workers |-> FALSE]
    /\ receipts = [w \in Workers |-> {}]
    /\ shard = [w \in Workers |-> 0]

Init ==
    /\ \E a \in Assignments :
          /\ job = a.jobs
          /\ visible = {Object(v) : v \in a.earlier}
          /\ left = [w \in Workers |-> a.jobs[w].keys]
          /\ failures = a.failures
    /\ Fresh

-----------------------------------------------------------------------------
(* Installing one file: claim_publication, publish_bytes and               *)
(* install_digest_reference are the same three steps.  A reference links   *)
(* the object itself and has no temporary file.                            *)

\* Is the path taken?  If not, the temporary file is written.
Look(w) ==
    /\ plan[w] # <<>> /\ step[w] = "look"
    /\ IF Taken(Head(plan[w]))
       THEN step' = [step EXCEPT ![w] = "flush"] /\ UNCHANGED temps
       ELSE /\ step' = [step EXCEPT ![w] = "link"]
            /\ temps' = IF Head(plan[w]).at \in Categories THEN temps ELSE temps \cup {w}
    /\ UNCHANGED <<visible, pending, job, stage, plan, memory, failures>>

\* os.link.  Where another worker was faster, its file is read instead.
Link(w) ==
    /\ plan[w] # <<>> /\ step[w] = "link"
    /\ Head(plan[w]).at \in Categories \/ w \in temps
    /\ LET new == IF Taken(Head(plan[w])) THEN {} ELSE {Head(plan[w])}
       IN  visible' = visible \cup new /\ pending' = pending \cup new
    /\ step' = [step EXCEPT ![w] = "flush"]
    /\ UNCHANGED <<temps, job, stage, plan, memory, failures>>

\* Mutant: the directory is not flushed before the next file.
FlushLater(w) ==
    /\ plan[w] # <<>> /\ step[w] = "flush"
    /\ temps' = temps \ {w}
    /\ owned' = [owned EXCEPT ![w] =
                    IF Head(plan[w]).at = "claim" THEN Head(plan[w]) \in visible ELSE @]
    /\ plan' = [plan EXCEPT ![w] = Tail(@)]
    /\ step' = [step EXCEPT ![w] = "look"]
    /\ UNCHANGED <<visible, pending, job, stage, left, previous, receipts, shard, failures>>

\* The directory is flushed and the temporary file removed.  The owner of a
\* claim is read from the file, whoever installed it.
Flush(w) ==
    /\ plan[w] # <<>> /\ step[w] = "flush"
    /\ Flushed(Head(plan[w]))
    /\ temps' = temps \ {w}
    /\ owned' = [owned EXCEPT ![w] =
                    IF Head(plan[w]).at = "claim" THEN Head(plan[w]) \in visible ELSE @]
    /\ plan' = [plan EXCEPT ![w] = Tail(@)]
    /\ step' = [step EXCEPT ![w] = "look"]
    /\ UNCHANGED <<visible, job, stage, left, previous, receipts, shard, failures>>

-----------------------------------------------------------------------------
(* publish_completion.                                                     *)

Ready(w, at) == stage[w] = at /\ plan[w] = <<>>

Goto(w, at, files) ==
    /\ stage' = [stage EXCEPT ![w] = at]
    /\ plan' = [plan EXCEPT ![w] = files]

\* _receipt_claim_owner_digest: a claim is owned by the receipt to be written.
Owner(w, k) == [run |-> job[w].run, inventory |-> job[w].inventory, key |-> k,
                previous |-> previous[w]]

\* Mutant: the object first.
PublishAndClaim(v, owner) ==
    IF Readable(v) /\ ~Claimed(v) THEN <<Object(v)>> ELSE <<Object(v), Claim(v, owner)>>

\* claim_and_publish_bytes: an object that was there before any claim is left
\* without one.
ClaimAndPublish(v, owner) ==
    IF Readable(v) /\ ~Claimed(v) THEN <<Object(v)>> ELSE <<Claim(v, owner), Object(v)>>

NextReceipt(w, ordinal) ==
    Receipt(job[w].run, job[w].inventory, Head(left[w]), ordinal,
            IF owned[w] THEN "published" ELSE "existing", previous[w])

PublishEnvelope(w) ==
    /\ Ready(w, "working") /\ left[w] # <<>>
    /\ Goto(w, "envelope", ClaimAndPublish(Envelope(Head(left[w])), Owner(w, Head(left[w]))))
    /\ owned' = [owned EXCEPT ![w] = FALSE]
    /\ UNCHANGED <<visible, pending, temps, job, step, left, previous, receipts, shard, failures>>

ReceiptEnvelope(w) ==
    /\ Ready(w, "envelope")
    /\ Goto(w, "enveloped", <<Object(NextReceipt(w, 0))>>)
    /\ previous' = [previous EXCEPT ![w] = NextReceipt(w, 0)]
    /\ UNCHANGED <<visible, pending, temps, job, step, left, owned, receipts, shard, failures>>

PublishReference(w) ==
    /\ Ready(w, "enveloped")
    /\ Goto(w, "reference", ClaimAndPublish(Reference(job[w].inventory, Head(left[w])),
                                            Owner(w, Head(left[w]))))
    /\ owned' = [owned EXCEPT ![w] = FALSE]
    /\ UNCHANGED <<visible, pending, temps, job, step, left, previous, receipts, shard, failures>>

ReceiptReference(w) ==
    /\ Ready(w, "reference")
    /\ Goto(w, "working", <<Object(NextReceipt(w, 1))>>)
    /\ receipts' = [receipts EXCEPT ![w] = @ \cup {NextReceipt(w, 1)}]
    /\ left' = [left EXCEPT ![w] = Tail(@)]
    /\ previous' = [previous EXCEPT ![w] = None]
    /\ UNCHANGED <<visible, pending, temps, job, step, owned, shard, failures>>

-----------------------------------------------------------------------------
(* publish_shard.                                                          *)

ShardIndex(w) ==
    Index(job[w].inventory, shard[w],
          {r \in receipts[w] : ShardFor(job[w].inventory, r.key[1]) = shard[w]})

PublishIndex(w) ==
    /\ Ready(w, "working") /\ left[w] = <<>>
    /\ shard[w] < ShardsOf[job[w].inventory]
    /\ Goto(w, "indexed", <<Object(ShardIndex(w)),
                            Ref("indexes", job[w].inventory, shard[w], ShardIndex(w))>>)
    /\ UNCHANGED <<visible, pending, temps, job, step, memory, failures>>

\* SealedShardManifest.seal: everything the manifest cites has to be there.
Sealable(w) ==
    /\ Readable(ShardIndex(w))
    /\ Taken(Ref("indexes", job[w].inventory, shard[w], ShardIndex(w)))
    /\ \A r \in ShardIndex(w).entries :
          /\ Readable(Envelope(r.key)) /\ Readable(Reference(r.inventory, r.key))
          /\ Readable(r) /\ Readable(r.previous)

SealShard(w) ==
    /\ Ready(w, "indexed")
    /\ LET m      == Manifest(ShardIndex(w))
           ref(c) == Ref(c, job[w].inventory, shard[w], m)
       IN  IF Sealable(w)
           THEN /\ Goto(w, "working", <<Object(m), ref("manifests"), ref("seals")>>)
                /\ shard' = [shard EXCEPT ![w] = @ + 1]
           ELSE Goto(w, "unresolved", <<>>) /\ UNCHANGED shard
    /\ UNCHANGED <<visible, pending, temps, job, step, left, previous, owned, receipts, failures>>

-----------------------------------------------------------------------------
(* StreamingReconciler: one sealed manifest for every shard, whoever       *)
(* sealed it.  _verify_shards flushes the directories of the seals.        *)

Reconcile(w) ==
    /\ Ready(w, "working") /\ left[w] = <<>>
    /\ shard[w] = ShardsOf[job[w].inventory]
    /\ LET i      == job[w].inventory
           shards == 0..(ShardsOf[i] - 1)
       IN  \E chosen \in [shards -> UNION {Sealed(i, n) : n \in shards}] :
              /\ \A n \in shards : /\ chosen[n] \in Sealed(i, n)
                                   /\ Readable(chosen[n]) /\ Readable(chosen[n].index)
              /\ LET made == Reconciled(i, Range(chosen))
                     files == [n \in DOMAIN made.objects |-> Object(made.objects[n])]
                 IN  IF made.sound
                     THEN Goto(w, "merged", Append(files, Ref("seals", i, 0, Last(made.objects))))
                     ELSE Goto(w, "unresolved", files)
              /\ pending' = pending \ {Ref("seals", i, n, chosen[n]) : n \in shards}
    /\ UNCHANGED <<visible, temps, job, step, memory, failures>>

-----------------------------------------------------------------------------
(* Failures.                                                               *)

Working(w) == stage[w] # "down" /\ ~(stage[w] \in {"merged", "unresolved"} /\ plan[w] = <<>>)

\* What a worker remembers is lost; a temporary file it leaves is never read.
Stopped(W) ==
    /\ stage' = [w \in Workers |-> IF w \in W THEN "down" ELSE stage[w]]
    /\ plan' = [w \in Workers |-> IF w \in W THEN <<>> ELSE plan[w]]
    /\ step' = [w \in Workers |-> IF w \in W THEN "look" ELSE step[w]]
    /\ left' = [w \in Workers |-> IF w \in W THEN job[w].keys ELSE left[w]]
    /\ previous' = [w \in Workers |-> IF w \in W THEN None ELSE previous[w]]
    /\ owned' = [w \in Workers |-> IF w \in W THEN FALSE ELSE owned[w]]
    /\ receipts' = [w \in Workers |-> IF w \in W THEN {} ELSE receipts[w]]
    /\ shard' = [w \in Workers |-> IF w \in W THEN 0 ELSE shard[w]]
    /\ temps' = temps \ W
    /\ UNCHANGED job

Fail == failures > 0 /\ failures' = failures - 1

Crash(w) == Fail /\ Working(w) /\ Stopped({w}) /\ UNCHANGED <<visible, pending>>

\* Of what was not flushed, any part survives.
PowerLoss ==
    /\ Fail
    /\ \E kept \in SUBSET pending : visible' = (visible \ pending) \cup kept
    /\ pending' = {}
    /\ Stopped({w \in Workers : Working(w)})

\* recover, run while workers publish: it takes the temporary files one after
\* the other, as far as it gets, and flushes the objects it finds installed
\* under their digests.
Recover ==
    /\ Fail
    /\ \E swept \in SUBSET temps :
          /\ swept # {} /\ temps' = temps \ swept
          /\ pending' = pending \ {Head(plan[w]) : w \in {x \in swept : Head(plan[x]).at = "object"}}
    /\ UNCHANGED <<visible, job, stage, plan, step, memory>>

\* os.link finds no temporary file: the call raises and the worker ends.
LinkFails(w) ==
    /\ plan[w] # <<>> /\ step[w] = "link"
    /\ Head(plan[w]).at \notin Categories /\ w \notin temps
    /\ Stopped({w}) /\ UNCHANGED <<visible, pending, failures>>

\* The same run is started again.
Restart(w) ==
    /\ stage[w] = "down"
    /\ Goto(w, "working", <<>>)
    /\ UNCHANGED <<visible, pending, temps, job, step, memory, failures>>

Next ==
    \/ \E w \in Workers :
          \/ Look(w) \/ Link(w) \/ Flush(w)
          \/ PublishEnvelope(w) \/ ReceiptEnvelope(w)
          \/ PublishReference(w) \/ ReceiptReference(w)
          \/ PublishIndex(w) \/ SealShard(w) \/ Reconcile(w)
          \/ Crash(w) \/ LinkFails(w) \/ Restart(w)
    \/ PowerLoss \/ Recover

Spec == Init /\ [][Next]_vars

-----------------------------------------------------------------------------
Published == {f.of : f \in {g \in visible : g.at = "object"}}
Receipts  == {v \in Published : v.kind = "receipt"}

(* Receipts are evidence: a run that is repeated after a crash, or started *)
(* twice, leaves one account of each attempt, and of all runs at most one  *)
(* says that it was the one to publish an object                           *)
(* (claim_and_publish_bytes, _receipt_claim_owner_digest).                 *)
ReceiptsAgree ==
    \A r, q \in Receipts :
        /\ (r.run = q.run /\ r.inventory = q.inventory /\ r.key = q.key /\ r.ordinal = q.ordinal)
              => r = q
        /\ (ReceiptObject(r) = ReceiptObject(q) /\ r.how = "published" /\ q.how = "published")
              => r.run = q.run /\ r.inventory = q.inventory

\* The objects a file names by their digests.
Cited(f) ==
    IF f.at \in Categories THEN {f.of}
    ELSE IF f.at = "claim" THEN IF f.owner.previous = None THEN {} ELSE {f.owner.previous}
    ELSE LET v == f.of
         IN  CASE v.kind = "envelope"    -> {}
               [] v.kind = "reference"   -> {Envelope(v.key)}
               [] v.kind = "receipt"     -> {ReceiptObject(v)} \cup ({v.previous} \ {None})
               [] v.kind = "index"       -> v.entries
               [] v.kind = "manifest"    -> {v.index} \cup v.index.entries
               [] v.kind = "attestation" -> {Envelope(v.key)}
               [] v.kind = "semantic"    -> {Attestation(k) : k \in Range(v.prefix) \cup {v.accepted}}
               [] v.kind = "evidence"    -> v.sources \cup {Attestation(k) : k \in Range(v.attempts)}
               [] v.kind \in {"node", "root"} -> Range(v.leaves)
               [] v.kind = "corpus"      -> {v.root}
               [] v.kind = "run"         -> {v.root} \cup v.sources
               [] v.kind = "merge"       -> {v.corpus, v.run} \cup v.sources

(* Nothing that can be read cites what can not be read, or what a power    *)
(* loss could still take away: a sealed shard and a sealed corpus are      *)
(* complete whenever they are found (SealedShardManifest.seal,             *)
(* _fsync_directory after every link).                                     *)
CitedIsDurable ==
    \A f \in visible : \A v \in Cited(f) : Object(v) \in visible \ pending

(* Whoever merges, from whatever shards and however many, a merge seal     *)
(* carries the corpus that the outcomes of the inventory define            *)
(* (reconcile, resolve_attempt_prefix).                                    *)
CanonicalCorpus ==
    \A f \in visible : f.at = "seals" =>
        (f.of.kind = "merge" => f.of.corpus.root.leaves = CorpusOf(f.inventory))
=============================================================================
