-------------------------- MODULE AttemptExecution ---------------------------
(***************************************************************************)
(* One producer executes attempts, one after the other: a choice session   *)
(* and an identity ledger each (ChoiceSession of choice_ledger.py,         *)
(* IdentityLedger of identities.py), and the bundle it completes with      *)
(* (replay_bundle.py).  The producer is external to the source: it makes   *)
(* any calls in any order, goes on after an exception, freezes when it     *)
(* likes and may give an attempt up and execute it again.                  *)
(***************************************************************************)
EXTENDS ChoiceEvidence

CONSTANTS Seed, Namespace, Producer, Prefix,  \* what the sessions are opened with
          Seeds,        \* the seeds a replay is tried with
          Attempts, Calls, Requests,
          MaxChoices, MaxBytes,  \* the choice budget
          MaxBundles    \* bound: bundles that are completed

\* The orders of canonical bytes hold every path and request there can be.
ASSUME OrdersAssumption ==
    /\ PathOrder \in Seq(Range(PathOrder)) /\ RequestOrder \in Seq(Range(RequestOrder))
    /\ {call.path : call \in Calls} \subseteq Range(PathOrder)
    /\ Requests \subseteq Range(RequestOrder)

\* A call with anything else than integers raises at once (_require_integer) and is left out.
ASSUME CallsAssumption ==
    \A call \in Calls :
        /\ call.operation \in {"bounded", "weighted", "ratio"}
        /\ call.operation = "bounded"  => call.domain.upper \in Int
        /\ call.operation = "weighted" => call.domain.weights \in Seq(Int)
        /\ call.operation = "ratio"    => call.domain.numerator \in Int /\ call.domain.denominator \in Int

VARIABLES session,     \* [state, attempt, reserved, records]
          frozen,      \* the ledger the session was frozen to, if it was
          identities,  \* the identity ledger
          answered,    \* history: the calls of this session that returned a value
          bundles      \* what was completed

executionVars == <<session, frozen, identities, answered, bundles>>

Opened(a) == [state |-> "open", attempt |-> a, reserved |-> {}, records |-> <<>>]

ExecutionInit ==
    /\ \E a \in Attempts : session = Opened(a)
    /\ frozen = {} /\ identities = {} /\ answered = {} /\ bundles = {}

\* Another session, of the same attempt or another; the identity ledger is new too.
Execute(a) ==
    /\ session.state # "open" /\ Cardinality(bundles) < MaxBundles
    /\ session' = Opened(a)
    /\ frozen' = {} /\ identities' = {} /\ answered' = {}
    /\ UNCHANGED bundles

-----------------------------------------------------------------------------
(* The session.                                                            *)

\* Mutant: a path may be used again for another operation.
ReservableTwice(call) ==
    /\ call.path.attempt = session.attempt
    /\ Declared(Prefix, call.path)
    /\ <<call.path, call.operation>> \notin {<<r.call.path, r.call.operation>> : r \in Range(session.records)}

\* _require_open_path of an open session.
Reservable(call) ==
    /\ call.path.attempt = session.attempt
    /\ Declared(Prefix, call.path)
    /\ call.path \notin session.reserved

\* _preflight_choice_count, the primitive, the record's checks and _commit.
Committed(call) ==
    /\ Len(session.records) + 1 <= MaxChoices
    /\ Answerable(Seed, call)
    /\ RecordValid(Record(Seed, Namespace, call))
    /\ LedgerBytes(Sorted(Append(session.records, Record(Seed, Namespace, call)))) <= MaxBytes

\* bounded_integer, weighted_choice and choose_ratio.  A session that is not open
\* refuses and stays as it is.
Choose(call) ==
    /\ session.state = "open"
    /\ Reservable(call) /\ Committed(call)
    /\ session' = [session EXCEPT !.reserved = @ \cup {call.path},
                                  !.records = Append(@, Record(Seed, Namespace, call))]
    /\ answered' = answered \cup {call}
    /\ UNCHANGED <<frozen, identities, bundles>>

\* Any exception poisons the session; a path that was reserved stays so.
Poison(call) ==
    /\ session.state = "open"
    /\ ~Reservable(call) \/ ~Committed(call)
    /\ session' = [session EXCEPT !.state = "poisoned",
                                  !.reserved = IF Reservable(call) THEN @ \cup {call.path} ELSE @]
    /\ UNCHANGED <<frozen, identities, answered, bundles>>

LedgerOf(records) == Ledger(Seed, Namespace, session.attempt, Producer, Prefix, records)
Freezable(l)      == LedgerValid(l) /\ LedgerBytes(l.records) <= MaxBytes

Freeze ==
    /\ session.state = "open"
    /\ LET l == LedgerOf(Sorted(session.records))
       IN  IF Freezable(l)
           THEN /\ frozen' = {l}
                /\ session' = [session EXCEPT !.state = "frozen"]
           ELSE /\ session' = [session EXCEPT !.state = "poisoned"]
                /\ UNCHANGED frozen
    /\ UNCHANGED <<identities, answered, bundles>>

-----------------------------------------------------------------------------
(* Identities and the completion.                                          *)

\* The checks of _record_identity: a role is allocated once, digests and
\* displayed identifiers belong to one role.
Distinct(new) ==
    \A r \in identities : r.request # new.request /\ r.full # new.full /\ r.display # new.display

\* allocate; an exception leaves the ledger as it was.
Allocate(request) ==
    /\ Distinct(Derived(Seed, Namespace, request))
    /\ identities' = identities \cup {Derived(Seed, Namespace, request)}
    /\ UNCHANGED <<session, frozen, answered, bundles>>

\* The completion and its bundle, which refuses what does not belong together.
Complete(status) ==
    /\ Cardinality(bundles) < MaxBundles
    /\ \E l \in frozen :
          LET b == Bundle(status, l, ByRequest(SetToSeq(identities)))
          IN  BundleValid(b) /\ bundles' = bundles \cup {b}
    /\ UNCHANGED <<session, frozen, identities, answered>>

ExecutionNext ==
    \/ \E a \in Attempts : Execute(a)
    \/ \E call \in Calls : Choose(call) \/ Poison(call)
    \/ Freeze
    \/ \E request \in Requests : Allocate(request)
    \/ \E status \in {"accepted", "rejected"} : Complete(status)

ExecutionSpec == ExecutionInit /\ [][ExecutionNext]_executionVars

-----------------------------------------------------------------------------
\* A session that is still open can be frozen: the limits were kept with every
\* choice, so the checks of freeze never find anything (a budget below the size
\* of an empty ledger aside, which freeze alone would find).
OpenFreezes ==
    session.state = "open" /\ LedgerBytes(<<>>) <= MaxBytes =>
        Freezable(LedgerOf(Sorted(session.records)))

\* The ledger is that of the calls that were answered, whatever their order and
\* whatever else was tried.
LedgerIsCanonical ==
    \A l \in frozen :
        l.records = Sorted(SetToSeq({Record(Seed, Namespace, c) : c \in answered}))

\* Bundles put together from the parts of others.
Recombined ==
    {[input |-> v.input, branch |-> w.branch, ledger |-> x.ledger, identities |-> y.identities,
      completion |-> z.completion] : v, w, x, y, z \in bundles}

\* A completed bundle replays, under its seed alone; no mixture of bundles does.
BundlesReplay ==
    /\ \A b \in bundles, s \in Seeds : Replays(s, Namespace, b) <=> s = Seed
    /\ \A b \in Recombined : Replays(Seed, Namespace, b) => b \in bundles

(* Whatever a producer does, the evidence it completes with is the one     *)
(* that independent replay makes again, and no other (ChoiceSession,       *)
(* IdentityLedger, AttemptReplayBundle.validate).                          *)
EvidenceReplays == OpenFreezes /\ LedgerIsCanonical /\ BundlesReplay

\* How often each answer to a call is to come, against the others.
Shares(call) ==
    CASE call.operation = "bounded"  -> [v \in 0..(call.domain.upper - 1) |-> 1]
      [] call.operation = "weighted" -> call.domain.weights
      [] call.operation = "ratio"    ->
             [b \in BOOLEAN |-> IF b THEN call.domain.numerator
                                     ELSE call.domain.denominator - call.domain.numerator]

\* Over all candidates that are not rejected an answer comes exactly as often as
\* its share of the bound says, whichever of the two ways finds its index, and at
\* least half of the candidates are accepted.
Fair(call) ==
    LET upper    == Upper(call)
        accepted == 0..(Limit(upper) - 1)
    IN  /\ Space(upper) <= 2 * Limit(upper)
        /\ \A x \in DOMAIN Shares(call) :
              Cardinality({c \in accepted : Selected(call, c % upper) = x})
                = Shares(call)[x] * (Space(upper) \div upper)
        /\ call.operation = "weighted" =>
              \A c \in accepted :
                  Selected(call, c % upper) = Looped(call.domain.weights, c % upper)

(* No answer is favoured, by the width, the rejection or the search for    *)
(* the index (_bounded_integer_for_domain, weighted_choice, choose_ratio). *)
ChoicesFair == \A call \in answered : Fair(call)
=============================================================================
