------------------------- MODULE PolicyPublication ---------------------------
(***************************************************************************)
(* FilesystemAssumptionPolicyPublisher: one authoritative ledger file,     *)
(* replaced atomically under an advisory lock, with the clients that       *)
(* prepare, publish, retry, read and resolve.                              *)
(*                                                                         *)
(* The file system keeps two copies of the directory: what processes see   *)
(* (`file') and what a power loss leaves (`durable').  A rename reaches    *)
(* the second one at a directory fsync, or on its own at any time.         *)
(***************************************************************************)
EXTENDS PolicyActivation

CONSTANTS Clients,
          Requests,       \* the requests a grant is selected for
          MaxEntries      \* bound: publications stop at this many entries

ASSUME ClientsAssumption == None \notin Clients

\* The file, and what it holds.
Absent    == [made |-> FALSE, entries |-> <<>>]
Stored(L) == [made |-> TRUE, entries |-> L]

VARIABLES file,      \* the file every process sees
          durable,   \* the file a power loss leaves
          temps,     \* the clients one of whose temporary files is in the root
          lock,      \* the client that holds publication.lock, or None
          pc,        \* where each client is
          cand,      \* the entry each client prepared last, or None
          expected,  \* the ledger state each client observed last
          intended,  \* what each client is about to install, or Absent
          told,      \* the entries answered COMMITTED
          ruling     \* the grant decision answered last, or None

vars == <<file, durable, temps, lock, pc, cand, expected, intended,
          told, ruling>>

Init ==
    /\ file = Absent /\ durable = Absent
    /\ temps = {} /\ lock = None
    /\ pc = [p \in Clients |-> "idle"]
    /\ cand = [p \in Clients |-> None]
    /\ expected = [p \in Clients |-> <<>>]
    /\ intended = [p \in Clients |-> Absent]
    /\ told = {}
    /\ ruling = None

-----------------------------------------------------------------------------
(* The decision of a publish: compare_and_append_policy_entry_v3. *)

StateMismatch(L, seen, e) ==
    IF (seen # <<>> \/ e.prev # None) /\ L # <<>> /\ e.prev # Tip(L)
    THEN "CHAIN_FORK" ELSE "STATE_MISMATCH"

Decision(L, seen, e) ==
    IF \E n \in 1..Len(L) : L[n] = e THEN "IDEMPOTENT_APPEND"
    ELSE IF \E n \in 1..Len(L) : CommitOf(L[n]) = CommitOf(e) THEN "DIVERGENCE"
    ELSE IF seen # L THEN StateMismatch(L, seen, e)
    ELSE IF ~Succeeds(L, e) THEN "NOT_A_SUCCESSOR"
    ELSE "COMMITTED"

-----------------------------------------------------------------------------
(* A client outside the lock. *)

\* prepare, with the head the client observed as the predecessor.
Prepare(p) ==
    /\ pc[p] = "idle" /\ Len(expected[p]) < MaxEntries
    /\ \E x \in Proposals :
          LET prev == Tip(expected[p])
              sigs == {[signer |-> s.signer, sound |-> s.sound,
                        target |-> Payload(x.policy, prev, x.from)] : s \in x.sigs}
          IN  \E e \in Prepared(x.policy, prev, x.from, sigs, x.up) :
                 cand' = [cand EXCEPT ![p] = e]
    /\ UNCHANGED <<file, durable, temps, lock, pc, expected, intended, told, ruling>>

\* read_state, read_ledger: what a later publish is compared with, and a
\* later selection made over.
ReadState(p) ==
    /\ pc[p] = "idle" /\ lock = None /\ file # Absent
    /\ expected' = [expected EXCEPT ![p] = file.entries]
    /\ UNCHANGED <<file, durable, temps, lock, pc, cand, intended, told, ruling>>

\* The sweep every locked operation that may write begins with.  It flushes the
\* directory only when it removed something.
Swept == durable' = IF temps = {} THEN durable ELSE file

\* open: sweep and reconstruct.
OpenStore(p) ==
    /\ pc[p] = "idle" /\ lock = None
    /\ temps' = {} /\ Swept
    /\ UNCHANGED <<file, lock, pc, cand, expected, intended, told, ruling>>

\* A sweep that fails has removed some files, and the operation ends there.
SweepFails(p) ==
    /\ pc[p] = "idle" /\ lock = None /\ temps # {}
    /\ \E left \in SUBSET temps : temps' = left
    /\ durable' \in {durable, file}
    /\ UNCHANGED <<file, lock, pc, cand, expected, intended, told, ruling>>

-----------------------------------------------------------------------------
(* create and publish under the lock. *)

\* The locked part before the temporary file, when there is something to write.
Enter(p, L) ==
    /\ lock' = p
    /\ pc' = [pc EXCEPT ![p] = "writing"]
    /\ intended' = [intended EXCEPT ![p] = Stored(L)]

Create(p) ==
    /\ pc[p] = "idle" /\ lock = None
    /\ temps' = {} /\ Swept
    /\ IF file = Absent THEN Enter(p, <<>>) ELSE UNCHANGED <<lock, pc, intended>>
    /\ UNCHANGED <<file, cand, expected, told, ruling>>

Publish(p) ==
    /\ pc[p] = "idle" /\ lock = None
    /\ cand[p] # None /\ file # Absent
    /\ temps' = {} /\ Swept
    /\ LET what == Decision(file.entries, expected[p], cand[p])
       IN  IF what = "COMMITTED" THEN Enter(p, Append(file.entries, cand[p]))
                                 ELSE UNCHANGED <<lock, pc, intended>>
    /\ UNCHANGED <<file, cand, expected, told, ruling>>

Release(p) ==
    /\ lock' = None
    /\ pc' = [pc EXCEPT ![p] = "idle"]
    /\ intended' = [intended EXCEPT ![p] = Absent]

WriteTemp(p) ==
    /\ pc[p] = "writing"
    /\ temps' = temps \cup {p}
    /\ pc' = [pc EXCEPT ![p] = "written"]
    /\ UNCHANGED <<file, durable, lock, cand, expected, intended, told, ruling>>

\* A failure before the rename returned; the temporary file may stay behind.
PreCommitFails(p) ==
    /\ pc[p] \in {"writing", "written"}
    /\ \/ temps' = temps \ {p}   /\ Release(p)
       \/ temps' = temps \cup {p} /\ Release(p)
    /\ UNCHANGED <<file, durable, cand, expected, told, ruling>>

Replace(p) ==
    /\ pc[p] = "written" /\ p \in temps
    /\ file' = intended[p]
    /\ temps' = temps \ {p}
    /\ pc' = [pc EXCEPT ![p] = "replaced"]
    /\ UNCHANGED <<durable, lock, cand, expected, intended, told, ruling>>

\* Mutant: no directory flush before COMMITTED is answered.
VerifyUnflushed(p) ==
    /\ pc[p] = "replaced"
    /\ told' = IF file.entries = <<>> THEN told ELSE told \cup {cand[p]}
    /\ Release(p)
    /\ UNCHANGED <<file, durable, temps, cand, expected, ruling>>

\* The directory is flushed, the bytes are read back and verified.
FlushAndVerify(p) ==
    /\ pc[p] = "replaced"
    /\ file = intended[p]
    /\ durable' = file
    /\ told' = IF file.entries = <<>> THEN told ELSE told \cup {cand[p]}
    /\ Release(p)
    /\ UNCHANGED <<file, temps, cand, expected, ruling>>

\* The flush or the read-back fails: OUTCOME_UNCERTAIN, and no rollback.
Uncertain(p) ==
    /\ pc[p] = "replaced"
    /\ durable' \in {durable, file}
    /\ Release(p)
    /\ UNCHANGED <<file, temps, cand, expected, told, ruling>>

-----------------------------------------------------------------------------
(* Faults.  A client that restarts still has the entry it prepared. *)

Crash(p) ==
    /\ pc[p] # "idle"
    /\ Release(p)
    /\ UNCHANGED <<file, durable, temps, cand, expected, told, ruling>>

PowerLoss ==
    /\ \E L \in {file, durable} : file' = L /\ durable' = L
    /\ temps' \in SUBSET temps
    /\ lock' = None
    /\ pc' = [p \in Clients |-> "idle"]
    /\ intended' = [p \in Clients |-> Absent]
    /\ UNCHANGED <<cand, expected, told, ruling>>

-----------------------------------------------------------------------------
(* Grant selection.  A decision records the ledger it was made over.  The  *)
(* last one stands for any: nothing depends on it, and none need follow.   *)

\* resolve_at: a resolution names the ledger it was made from by its root.
Resolution(L, at) == [at |-> at, root |-> L, entry |-> ResolvedAt(L, at)]

\* select_applicable_grant_v3.
Answer(L, r, q) ==
    /\ Authoritative(L, r) /\ ValidRequest(q)
    /\ ruling' = [request |-> q, kind |-> Selection(r.entry.policy, q),
                  entry |-> r.entry, shown |-> L]

\* Outside the lock: the ledger this client read last, and a resolution made
\* from one that this client or another read, earlier or later.
Select(p, q) ==
    /\ pc[p] = "idle"
    /\ \E c \in Clients : Answer(expected[p], Resolution(expected[c], q.at), q)
    /\ UNCHANGED <<file, durable, temps, lock, pc, cand, expected, intended, told>>

\* resolve_policy_and_select_grant_at: both under one lock, from one snapshot.
SelectNow(p, q) ==
    /\ pc[p] = "idle" /\ lock = None /\ file # Absent
    /\ Answer(file.entries, Resolution(file.entries, q.at), q)
    /\ UNCHANGED <<file, durable, temps, lock, pc, cand, expected, intended, told>>

-----------------------------------------------------------------------------
Next ==
    \/ \E p \in Clients :
          \/ Prepare(p) \/ ReadState(p) \/ OpenStore(p) \/ SweepFails(p)
          \/ Create(p) \/ Publish(p) \/ Crash(p)
          \/ WriteTemp(p) \/ PreCommitFails(p)
          \/ Replace(p) \/ FlushAndVerify(p) \/ Uncertain(p)
          \/ \E q \in Requests : Select(p, q) \/ SelectNow(p, q)
    \/ PowerLoss

Spec == Init /\ [][Next]_vars

-----------------------------------------------------------------------------
(* Properties. *)

\* The types of the publisher's state.
TypeOK ==
    /\ file.made \in BOOLEAN /\ durable.made \in BOOLEAN
    /\ temps \subseteq Clients
    /\ lock \in Clients \cup {None}
    /\ pc \in [Clients -> {"idle", "writing", "written", "replaced"}]
    /\ \A p \in Clients : intended[p] # Absent <=> pc[p] # "idle"

\* The store holds a chain: one genesis, each entry naming its predecessor's
\* commit and taking effect later, whatever was published, retried or lost.
LedgerIsChain ==
    /\ IsLedger(file.entries) /\ IsLedger(durable.entries)

\* Two processes are never between the read of the ledger and the end of its
\* replacement, so an installed ledger extends the one it was computed from.
OneWriter ==
    \A p \in Clients :
        pc[p] # "idle" => /\ lock = p
                          /\ pc[p] = "written" => p \in temps
                          /\ pc[p] # "replaced" /\ file # Absent =>
                                 intended[p] = Stored(Append(file.entries, cand[p]))

Holds(f, e) == \E n \in 1..Len(f.entries) : f.entries[n] = e

\* An entry answered COMMITTED is in the ledger, also after a power loss.
CommittedSurvives ==
    \A e \in told : Holds(file, e) /\ Holds(durable, e)

\* Every published policy was approved by the rule of its own class, with
\* signers whose authority holds at the sequence it takes effect from.
PublishedApproved ==
    \A n \in 1..Len(file.entries) :
        LET e == file.entries[n]
            rule == Approval[IF e.policy.exceptions = {} THEN "STANDARD" ELSE "DUTY_EXCEPTION"]
        IN  /\ Cardinality(e.valid) >= rule.count /\ rule.required \subseteq e.valid
            /\ \A s \in e.valid : /\ s \in rule.eligible
                                  /\ Authority[s] # None
                                  /\ Authority[s] # None => InWindow(Authority[s], e.from)

\* No request meets two grants of a published policy.
NeverAmbiguous ==
    \A n \in 1..Len(file.entries) : \A q \in Requests :
        ValidRequest(q) => Selection(file.entries[n].policy, q) # "AMBIGUOUS_GRANTS"

\* A duty exception that waives a rule for a request that resolves no
\* challenge never outlives or outreaches the grant it stands on.
ExceptionBacked ==
    \A n \in 1..Len(file.entries) : \A q \in Requests :
        LET pol == file.entries[n].policy
        IN  (/\ ValidRequest(q) /\ q.action \notin ResolutionActions
             /\ \E x \in pol.exceptions, r \in pol.rules :
                   x.assumptions = {} /\ ExceptionApplies(x, r, q, None))
            => Selection(pol, q) = "SELECTED"

\* Entry n governs the sequence `at': the half-open interval from its own
\* sequence to its successor's.
Governs(L, n, at) == L[n].from <= at /\ (n < Len(L) => at < L[n + 1].from)

\* A grant decision stands: later publications, retries and power losses leave
\* its sequence governed by the policy that decided it, unless a policy took
\* over that takes effect later, yet by that sequence, and that the ledger the
\* decision was made over did not hold.  Only a decision made from an entry
\* nobody was told COMMITTED can lose its policy, with the rename of that entry.
RulingStands ==
    ruling # None /\ (ruling.entry \in told \/ Holds(file, ruling.entry)) =>
        \E n \in 1..Len(file.entries) :
            LET e == file.entries[n]
            IN  /\ Governs(file.entries, n, ruling.request.at)
                /\ \/ e = ruling.entry
                   \/ /\ e.from > ruling.entry.from
                      /\ \A k \in 1..Len(ruling.shown) : ruling.shown[k] # e

\* The store is the append-only register that keeps what it acknowledged.
Register == INSTANCE PolicyRegister WITH
                ledger <- file.entries, kept <- told
RegisterSpec == Register!Spec
=============================================================================
