------------------------- MODULE AssumptionLifecycle -------------------------
(***************************************************************************)
(* The lifecycle of one assumption: reduce_assumption and the fold over an *)
(* event chain (src/csd_foundry/governance/v0_5/assumption.py).            *)
(*                                                                         *)
(* The digest of an event covers the event and its predecessor's digest,   *)
(* so a digest names the whole history that ends in the event: a digest is *)
(* that history here, a sequence of events, oldest first.  An operation is *)
(* a partial function: the set of the states it leads to, empty when the   *)
(* code raises.                                                            *)
(***************************************************************************)
EXTENDS Integers, Sequences, SequencesExt

CONSTANT None

Materialities     == {"ADVISORY", "MATERIAL", "CRITICAL"}
ActiveStandings   == {"ADMITTED", "CONFIRMED"}
TerminalStandings == {"REJECTED", "EXPIRED", "SUPERSEDED"}
OpenStandings     == {"PROPOSED"} \cup ActiveStandings

\* The state before the first event of a history.
NoState == [standing |-> "ABSENT", status |-> "ABSENT"]

When(allowed, next) == IF allowed THEN {next} ELSE {}

(***************************************************************************)
(* An event is [op, by, clock, arg]: the operation, the authority its      *)
(* payload names, the committed clock and the other payload fields.        *)
(***************************************************************************)
\* Assumption.__post_init__ on what a proposal declares.
WellFormed(id, e) ==
    /\ e.clock >= 1 /\ e.arg.validFrom >= e.clock
    /\ e.arg.expires # None => e.arg.expires > e.arg.validFrom
    /\ id \notin e.arg.deps
    /\ e.arg.scopes # {}
    /\ e.arg.materiality \in Materialities

Propose(id, e) ==
    When(WellFormed(id, e),
         [id |-> id, standing |-> "PROPOSED", declared |-> e.arg,
          proposedBy |-> e.by, admittedBy |-> None, confirmedBy |-> None,
          challenges |-> {}, replacedBy |-> None, seq |-> 1, clock |-> e.clock])

\* replace() keeps every field not named; the replacement is always reset.
Advance(s, e) == [s EXCEPT !.seq = s.seq + 1, !.clock = e.clock, !.replacedBy = None]

Admit(s, e) ==
    When(s.standing = "PROPOSED",
         [Advance(s, e) EXCEPT !.standing = "ADMITTED", !.admittedBy = e.by])

Confirm(s, e) ==
    When(s.standing = "ADMITTED" /\ s.challenges = {},
         [Advance(s, e) EXCEPT !.standing = "CONFIRMED", !.confirmedBy = e.by])

ActiveIds(s) == {c.challenge : c \in s.challenges}

Challenge(s, e) ==
    When(s.standing \in ActiveStandings /\ e.arg.challenge \notin ActiveIds(s),
         [Advance(s, e) EXCEPT !.challenges = @ \cup
             {[challenge |-> e.arg.challenge, reason |-> e.arg.reason,
               by |-> e.by, openedAt |-> e.clock]}])

\* A resolution may name a part of the active challenges.  CONFIRM leaves the
\* others open and names no confirming authority; REJECT and SUPERSEDE close all.
Outcome(o) == [RETURN_TO_ADMITTED |-> "ADMITTED", CONFIRM |-> "CONFIRMED",
               REJECT |-> "REJECTED", SUPERSEDE |-> "SUPERSEDED"][o]

ResolveChallenges(s, e) ==
    When(/\ s.standing \in ActiveStandings
         /\ e.arg.resolved # {}
         /\ e.arg.resolved \subseteq ActiveIds(s)
         /\ IF e.arg.outcome = "SUPERSEDE"
            THEN e.arg.replacement \notin {None, s.id}
            ELSE e.arg.replacement = None,
         [Advance(s, e) EXCEPT
             !.standing   = Outcome(e.arg.outcome),
             !.replacedBy = e.arg.replacement,
             !.challenges = IF e.arg.outcome \in {"REJECT", "SUPERSEDE"} THEN {}
                            ELSE {c \in @ : c.challenge \notin e.arg.resolved}])

Reject(s, e) ==
    When(s.standing \in OpenStandings,
         [Advance(s, e) EXCEPT !.standing = "REJECTED", !.challenges = {}])

Expire(s, e) ==
    When(/\ s.standing \in ActiveStandings
         /\ s.declared.expires # None
         /\ s.declared.expires # None => e.clock >= s.declared.expires,
         [Advance(s, e) EXCEPT !.standing = "EXPIRED", !.challenges = {}])

Supersede(s, e) ==
    When(s.standing \in OpenStandings /\ e.arg.replacement # s.id,
         [Advance(s, e) EXCEPT !.standing = "SUPERSEDED", !.challenges = {},
                               !.replacedBy = e.arg.replacement])

\* The operation of an event on a state that is neither absent nor terminal.
Operation(s, e) ==
    CASE e.op = "ADMIT"              -> Admit(s, e)
      [] e.op = "CONFIRM"            -> Confirm(s, e)
      [] e.op = "CHALLENGE"          -> Challenge(s, e)
      [] e.op = "RESOLVE_CHALLENGES" -> ResolveChallenges(s, e)
      [] e.op = "REJECT"             -> Reject(s, e)
      [] e.op = "EXPIRE"             -> Expire(s, e)
      [] e.op = "SUPERSEDE"          -> Supersede(s, e)
      [] OTHER                       -> {}

\* One step of the fold over a history whose links are those of the chain.
ReduceAssumption(id, s, e) ==
    IF s = NoState THEN IF e.op = "PROPOSE" THEN Propose(id, e) ELSE {}
    ELSE IF s.standing \in TerminalStandings \/ e.clock <= s.clock THEN {}
    ELSE Operation(s, e)

\* The states the fold leaves: one, or none when some event is refused.
AssumptionStates(id, history) ==
    LET states[n \in 0..Len(history)] ==
            IF n = 0 THEN {NoState}
            ELSE UNION {ReduceAssumption(id, s, history[n]) : s \in states[n - 1]}
    IN  states[Len(history)]

LegalAssumption(id, history) == AssumptionStates(id, history) # {}
AssumptionAt(id, history)    == CHOOSE s \in AssumptionStates(id, history) : TRUE

\* The externally visible status: an active challenge hides the standing.
Status(s) == IF s.challenges # {} THEN "CHALLENGED" ELSE s.standing

Digests(history) == {SubSeq(history, 1, n) : n \in 1..Len(history)}
=============================================================================
