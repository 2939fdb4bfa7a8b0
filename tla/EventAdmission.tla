--------------------------- MODULE EventAdmission ---------------------------
(***************************************************************************)
(* Event admission of governance/v0_5 (admission.py) over its filesystem   *)
(* store (admission_store.py).  An engine checks an untrusted event, its   *)
(* signatures and its policy against the latest committed context, stores  *)
(* what it could parse and then the receipt.  Engines share the store      *)
(* without a lock; recover deletes temporary files at any time; the        *)
(* committed contexts advance meanwhile.                                   *)
(*                                                                         *)
(* A contract stands for its canonical bytes and its digest; one that does *)
(* not parse keeps the digest it declares.  Directories exist.             *)
(***************************************************************************)
EXTENDS Integers, Sequences, FiniteSets

CONSTANTS
    Admitters,      \* processes that call admit
    Requests,       \* what they ask for: [raw, signatures, policy]
    Registered,     \* the policies of the policy registry
    Authorities,    \* what the signer-authority resolver knows
    Roots,          \* roots a context may carry
    None,           \* no context, no tick
    MaxTick,        \* bound: contexts exist for ticks up to this one
    MaxCalls,       \* bound: calls of admit
    MaxFailures     \* bound: process deaths and power losses

Parses(input) == input.form = "ok"

Contexts == [kind : {"context"}, tick : 0..MaxTick, root : Roots, committed : BOOLEAN]

\* Among contracts of a kind that parse, the digest identifies the contract.
Identifies(field) ==
    \A q, r \in Requests :
        Parses(q[field]) /\ Parses(r[field]) /\ q[field].id = r[field].id => q[field] = r[field]

ASSUME AdmissionAssumption ==
    /\ MaxTick \in Nat /\ None \notin Contexts
    /\ \A field \in {"raw", "signatures", "policy"} : Identifies(field)
    /\ \A q \in Requests :
          /\ q.raw.kind = "raw-event" /\ q.raw.form \in {"ok", "digest", "schema"}
          /\ q.signatures.kind = "signature-set" /\ q.policy.kind = "validation-policy"
          /\ Parses(q.raw) => q.raw.submitted \in Nat
          /\ Parses(q.signatures) => Len(q.signatures.list) \in Nat
          /\ Parses(q.policy) => q.policy.minimum \in Nat

VARIABLES
    known,      \* the contexts the resolver knows, one per tick
    files,      \* what the store's directories show
    durable,    \* what of it a power loss leaves
    temps,      \* whose temporary file is there
    pc, job,    \* each admitter: where it is, what it is about
    outcome,    \* whether its last call met other bytes at a path
    answers,    \* receipts returned to callers
    calls,      \* calls of admit so far
    failures    \* deaths and power losses so far

vars == <<known, files, durable, temps, pc, job, outcome, answers, calls, failures>>
world == <<known, calls, failures>>

-----------------------------------------------------------------------------
(* The verdict: EventAdmissionEngine.admit. *)

When(condition, code) == IF condition THEN {code} ELSE {}

LatestCommitted ==
    LET ticks == {t \in 0..MaxTick : known[t] # None /\ (known[t] # None => known[t].committed)}
    IN  IF ticks = {} THEN None ELSE CHOOSE t \in ticks : \A u \in ticks : u <= t

ContextAdmissible(context, tick, latest) ==
    /\ context # None
    /\ context # None => context.committed /\ context.tick = tick
    /\ latest = tick

\* is_allowed of the reference registry.
Allowed(policy, context) == context.committed /\ policy \in Registered

\* `found' are the policies the registry answers for at this call: when its
\* resolve raises it finds none.
PolicyAdmissible(q, context, tick, latest, found) ==
    /\ Parses(q.policy) /\ ContextAdmissible(context, tick, latest)
    /\ Parses(q.policy) /\ context # None => q.policy \in found /\ Allowed(q.policy, context)

\* is_authorized of the reference resolver.
Authorized(s, context) ==
    \E a \in Authorities :
        /\ a.signer = s.signer
        /\ a.from <= context.tick /\ (a.through # None => context.tick <= a.through)
        /\ s.scope \in a.scopes /\ s.algorithm \in a.algorithms

\* A signer that signed before in the same set.
Repeats(signatures, n) == \E m \in 1..(n - 1) : signatures[m].signer = signatures[n].signer

PayloadCodes(q, context) ==
    IF ~Parses(q.raw) \/ context = None THEN {}
    ELSE When(q.raw.submitted > context.tick, "VALIDATION_CONTEXT_NOT_COMMITTED")
         \cup When(Parses(q.policy) /\ (Parses(q.policy) => ~(q.raw.schema \in q.policy.schemas /\ q.raw.fits)),
                   "RAW_SCHEMA_REJECTED")

\* Judged only when all three inputs parse.
SignatureCodes(q, context, admissible) ==
    IF ~(Parses(q.raw) /\ Parses(q.signatures) /\ Parses(q.policy)) THEN {}
    ELSE LET list == q.signatures.list
             codes(n) == When(Repeats(list, n) \/ ~list[n].genuine, "SIGNATURE_INVALID")
                         \cup When(list[n].digest # q.raw.id, "SIGNATURE_DIGEST_MISMATCH")
                         \cup When(list[n].algorithm \notin q.policy.algorithms, "SIGNATURE_ALGORITHM_NOT_ALLOWED")
                         \cup When(admissible /\ (admissible => ~Authorized(list[n], context)), "AUTHORITY_SCOPE_REJECTED")
             valid == {list[n].signer : n \in {n \in 1..Len(list) : codes(n) = {}}}
         IN  (UNION {codes(n) : n \in 1..Len(list)})
             \cup When(admissible /\ Cardinality(valid) < q.policy.minimum, "SIGNATURE_THRESHOLD_NOT_MET")

FailureCodes(q, context, tick, latest, found) ==
    LET admissible == PolicyAdmissible(q, context, tick, latest, found)
    IN  When(q.raw.form = "digest", "RAW_DIGEST_MISMATCH")
        \cup When(q.raw.form = "schema", "RAW_SCHEMA_REJECTED")
        \cup When(~Parses(q.signatures), "SIGNATURE_INVALID")
        \cup When(context = None, "VALIDATION_CONTEXT_UNAVAILABLE")
        \cup When(context # None /\ ~ContextAdmissible(context, tick, latest), "VALIDATION_CONTEXT_NOT_COMMITTED")
        \cup When(\/ ~Parses(q.policy)
                  \/ q.policy \notin found
                  \/ ContextAdmissible(context, tick, latest) /\ ~admissible, "VALIDATION_POLICY_NOT_ALLOWED")
        \cup PayloadCodes(q, context)
        \cup SignatureCodes(q, context, admissible)

Receipt(q, context, tick, latest, found) ==
    LET codes == FailureCodes(q, context, tick, latest, found)
        cites == [raw |-> q.raw.id, signatures |-> q.signatures.id, policy |-> q.policy.id, tick |-> tick]
    IN  IF codes = {} THEN [kind |-> "validated-event", cites |-> cites]
        ELSE [kind |-> "event-validation-failure", cites |-> cites, codes |-> codes]

-----------------------------------------------------------------------------
(* The store. *)

\* Contracts are stored under their digest, a context under its tick.
SamePath(f, g) ==
    IF "context" \in {f.kind, g.kind} THEN f.kind = g.kind /\ (f.kind = g.kind => f.tick = g.tick) ELSE f = g

\* Mutant: what is there already is taken for what is to be installed.
ClashesNever(file) == FALSE

Clashes(file) == \E f \in files : SamePath(f, file) /\ f # file

\* reconstruct_accepted, from the files given.
Reconstructed(receipt, from) ==
    {b \in [raw : {f \in from : f.kind = "raw-event"}, signatures : {f \in from : f.kind = "signature-set"},
            policy : {f \in from : f.kind = "validation-policy"}, context : {f \in from : f.kind = "context"}] :
        /\ b.raw.id = receipt.cites.raw /\ b.signatures.id = receipt.cites.signatures
        /\ b.policy.id = receipt.cites.policy
        /\ b.context.tick = receipt.cites.tick /\ b.context.committed}

-----------------------------------------------------------------------------
Init ==
    /\ \E root \in Roots :
          known = [t \in 0..MaxTick |->
                      IF t = 0 THEN [kind |-> "context", tick |-> 0, root |-> root, committed |-> TRUE] ELSE None]
    /\ files = {} /\ durable = {} /\ temps = {}
    /\ pc = [p \in Admitters |-> "idle"]
    /\ job = [p \in Admitters |-> None]
    /\ outcome = [p \in Admitters |-> "none"]
    /\ answers = {} /\ calls = 0 /\ failures = 0

\* The resolver's side: a successor context is proposed, then committed.
ProposeContext ==
    /\ LatestCommitted < MaxTick
    /\ \E root \in Roots :
          known' = [known EXCEPT ![LatestCommitted + 1] =
                       [kind |-> "context", tick |-> LatestCommitted + 1, root |-> root, committed |-> FALSE]]
    /\ UNCHANGED <<files, durable, temps, pc, job, outcome, answers, calls, failures>>

CommitContext ==
    /\ LatestCommitted < MaxTick /\ (LatestCommitted < MaxTick => known[LatestCommitted + 1] # None)
    /\ known' = [known EXCEPT ![LatestCommitted + 1].committed = TRUE]
    /\ UNCHANGED <<files, durable, temps, pc, job, outcome, answers, calls, failures>>

Leave(p, how) ==
    /\ pc' = [pc EXCEPT ![p] = "idle"]
    /\ job' = [job EXCEPT ![p] = None]
    /\ outcome' = [outcome EXCEPT ![p] = how]

\* admit reads the latest committed tick ...
Admit(p) ==
    /\ pc[p] = "idle"
    /\ calls < MaxCalls /\ calls' = calls + 1
    /\ \E request \in Requests, tick \in 0..MaxTick, latest \in {LatestCommitted, None} :
          job' = [job EXCEPT ![p] = [request |-> request, tick |-> tick, latest |-> latest]]
    /\ pc' = [pc EXCEPT ![p] = "resolve"]
    /\ outcome' = [outcome EXCEPT ![p] = "none"]
    /\ UNCHANGED <<known, failures, files, durable, temps, answers>>

Available(input) == IF Parses(input) THEN <<input>> ELSE <<>>

\* _persist_available_inputs.
Inputs(q, context) ==
    Available(q.raw) \o Available(q.signatures) \o Available(q.policy)
        \o (IF context = None THEN <<>> ELSE <<context>>)

\* Mutant: the receipt is installed before what it cites.
ReceiptFirst(q, context, receipt) == <<receipt>> \o Inputs(q, context)

\* ... then the receipt.
Installs(q, context, receipt) == Inputs(q, context) \o <<receipt>>

\* ... and then resolves the context; when either call raises there is none, and
\* a policy registry that raises has no policy.
Resolve(p) ==
    /\ pc[p] = "resolve"
    /\ \E found \in {Registered, {}} :
          LET q == job[p].request
              context == IF job[p].latest = None THEN None ELSE known[job[p].tick]
              receipt == Receipt(q, context, job[p].tick, job[p].latest, found)
          IN  job' = [job EXCEPT ![p] = [todo |-> Installs(q, context, receipt), receipt |-> receipt]]
    /\ pc' = [pc EXCEPT ![p] = "install"]
    /\ UNCHANGED <<world, files, durable, temps, outcome, answers>>

Installed(file) == \E f \in files : SamePath(f, file)

\* _atomic_install: what is not there yet is written to a temporary file of
\* one's own.
Write(p) ==
    /\ pc[p] = "install" /\ ~Installed(Head(job[p].todo))
    /\ temps' = temps \cup {p}
    /\ pc' = [pc EXCEPT ![p] = "link"]
    /\ UNCHANGED <<world, files, durable, job, outcome, answers>>

\* The immutable path holds other bytes.
Conflict(p) ==
    /\ pc[p] \in {"install", "link"} /\ Clashes(Head(job[p].todo))
    /\ pc[p] = "link" => p \in temps
    /\ Leave(p, "conflict")
    /\ temps' = temps \ {p}
    /\ UNCHANGED <<world, files, durable, answers>>

\* os.link, unless somebody else was first with the same bytes.
Link(p) ==
    /\ pc[p] = "link" /\ p \in temps /\ ~Clashes(Head(job[p].todo))
    /\ files' = IF Installed(Head(job[p].todo)) THEN files ELSE files \cup {Head(job[p].todo)}
    /\ pc' = [pc EXCEPT ![p] = "flush"]
    /\ UNCHANGED <<world, durable, temps, job, outcome, answers>>

\* os.link fails when the temporary file was swept.
LinkSwept(p) ==
    /\ pc[p] = "link" /\ p \notin temps
    /\ Leave(p, "none")
    /\ UNCHANGED <<world, files, durable, temps, answers>>

\* Mutant: only what was just linked is flushed, not what was there already.
FlushedLinked(p) == durable \cup (IF pc[p] = "flush" THEN {Head(job[p].todo)} ELSE {})

\* The directory is flushed, whoever linked the file.
Flushed(p) == durable \cup {Head(job[p].todo)}

\* Linked now or found there with the same bytes: flush, then the next file;
\* after the receipt admit returns.
Advance(p) ==
    /\ \/ pc[p] = "flush"
       \/ pc[p] = "install" /\ Installed(Head(job[p].todo)) /\ ~Clashes(Head(job[p].todo))
    /\ durable' = Flushed(p)
    /\ temps' = temps \ {p}
    /\ IF Len(job[p].todo) = 1
       THEN /\ Leave(p, "none")
            /\ answers' = answers \cup {job[p].receipt}
       ELSE /\ job' = [job EXCEPT ![p].todo = Tail(@)]
            /\ pc' = [pc EXCEPT ![p] = "install"]
            /\ UNCHANGED <<outcome, answers>>
    /\ UNCHANGED <<world, files>>

\* recover unlinks a temporary file, of a live engine included.
Sweep(p) ==
    /\ p \in temps
    /\ temps' = temps \ {p}
    /\ UNCHANGED <<world, files, durable, pc, job, outcome, answers>>

\* A process dies; nobody uses its temporary file again.
Die(p) ==
    /\ failures < MaxFailures /\ pc[p] # "idle"
    /\ failures' = failures + 1
    /\ Leave(p, "none")
    /\ temps' = temps \ {p}
    /\ UNCHANGED <<known, calls, files, durable, answers>>

\* A power loss ends every process; an entry that was not flushed is kept or
\* lost.
LosePower ==
    /\ failures < MaxFailures
    /\ failures' = failures + 1
    /\ \E kept \in SUBSET (files \ durable) : files' = durable \cup kept /\ durable' = durable \cup kept
    /\ temps' = {}
    /\ pc' = [p \in Admitters |-> "idle"]
    /\ job' = [p \in Admitters |-> None]
    /\ outcome' = [p \in Admitters |-> "none"]
    /\ UNCHANGED <<known, calls, answers>>

Next ==
    \/ ProposeContext \/ CommitContext \/ LosePower
    \/ \E p \in Admitters :
          \/ Admit(p) \/ Resolve(p)
          \/ Write(p) \/ Conflict(p) \/ Link(p) \/ LinkSwept(p) \/ Advance(p)
          \/ Sweep(p) \/ Die(p)

Spec == Init /\ [][Next]_vars

-----------------------------------------------------------------------------
(* The event is signed, under an algorithm of the policy, by as many       *)
(* different signers as the policy asks for, each with authority at the    *)
(* tick of the context.                                                    *)
Warranted(b) ==
    /\ b.policy \in Registered /\ b.context.committed
    /\ b.raw.submitted <= b.context.tick /\ b.raw.fits /\ b.raw.schema \in b.policy.schemas
    /\ \E signers \in SUBSET {a.signer : a \in Authorities} :
          /\ Cardinality(signers) >= b.policy.minimum
          /\ \A x \in signers : \E n \in 1..Len(b.signatures.list) :
                LET s == b.signatures.list[n]
                IN  /\ s.signer = x /\ s.genuine /\ s.digest = b.raw.id
                    /\ s.algorithm \in b.policy.algorithms
                    /\ Authorized(s, b.context)

(* An accepted receipt that any reducer can read is reconstructed, now and *)
(* after any power loss, to exactly one bundle, and that bundle warrants   *)
(* the acceptance; a receipt a caller got is still there                   *)
(* (reconstruct_accepted, docs/EVENT_ADMISSION_v0.5.md "Persistence and    *)
(* reconstruction").                                                       *)
AcceptedReconstructs ==
    /\ answers \subseteq durable
    /\ \A r \in files : r.kind = "validated-event" =>
          /\ Cardinality(Reconstructed(r, durable)) = 1
          /\ Reconstructed(r, files) = Reconstructed(r, durable)
          /\ \A b \in Reconstructed(r, durable) : Warranted(b)

(* docs/EVENT_ADMISSION_v0.5.md, step 7: "Persist the reconstructable      *)
(* inputs and emit exactly one accepted or failure receipt."  No call ends *)
(* without a receipt because of what the store holds already.              *)
EveryRequestAnswered == \A p \in Admitters : outcome[p] # "conflict"

TypeOK ==
    /\ durable \subseteq files /\ temps \subseteq Admitters
    /\ pc \in [Admitters -> {"idle", "resolve", "install", "link", "flush"}]
    /\ outcome \in [Admitters -> {"none", "conflict"}]
    /\ failures \in 0..MaxFailures
=============================================================================
