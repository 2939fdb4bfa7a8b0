---------------------------- MODULE EntityJournal ----------------------------
(***************************************************************************)
(* What the registries promise: each entity has one history, and a history *)
(* only grows, by one event its lifecycle allows.  Registry implements it. *)
(***************************************************************************)
EXTENDS Integers, Sequences

CONSTANTS Ids,
          Allowed(_, _, _)  \* may this entity's history be extended by this event?

VARIABLE journal    \* the history of every entity

Init == journal = [id \in Ids |-> <<>>]

Extend(id) ==
    /\ Len(journal'[id]) = Len(journal[id]) + 1
    /\ SubSeq(journal'[id], 1, Len(journal[id])) = journal[id]
    /\ Allowed(id, journal[id], journal'[id][Len(journal'[id])])
    /\ journal' = [journal EXCEPT ![id] = journal'[id]]

Next == \E id \in Ids : Extend(id)

Spec == Init /\ [][Next]_journal
=============================================================================
