-------------------------- MODULE MCEventAdmission --------------------------
(***************************************************************************)
(* Two engines, the ticks 0 and 1, and requests that are admissible at one *)
(* of them only, or at none.                                               *)
(***************************************************************************)
EXTENDS EventAdmission, TLC

CONSTANTS e1, e2, alice, bob

Symmetry == Permutations(Admitters)

Event(id, submitted) ==
    [kind |-> "raw-event", form |-> "ok", id |-> id, schema |-> "clock", fits |-> TRUE, submitted |-> submitted]
Malformed == [kind |-> "raw-event", form |-> "digest", id |-> "e"]

Signed(signer, id) == [signer |-> signer, digest |-> id, algorithm |-> "ed25519", scope |-> "events", genuine |-> TRUE]
Signatures(id, list) == [kind |-> "signature-set", form |-> "ok", id |-> id, list |-> list]

Policy(id, minimum) ==
    [kind |-> "validation-policy", form |-> "ok", id |-> id, schemas |-> {"clock"},
     algorithms |-> {"ed25519"}, minimum |-> minimum]

Both  == Signatures("both", <<Signed(alice, "e"), Signed(bob, "e")>>)
Alone == Signatures("alone", <<Signed(alice, "f")>>)
Twice == Signatures("twice", <<Signed(alice, "e"), Signed(alice, "e")>>)

MCRequests ==
    {[raw |-> Event("e", 0), signatures |-> Both, policy |-> Policy("two", 2)],
     [raw |-> Event("e", 0), signatures |-> Twice, policy |-> Policy("two", 2)],
     [raw |-> Event("f", 1), signatures |-> Alone, policy |-> Policy("one", 1)],
     [raw |-> Malformed, signatures |-> Both, policy |-> Policy("three", 3)]}

MCRegistered == {Policy("two", 2), Policy("one", 1)}

MCAuthorities ==
    {[signer |-> alice, scopes |-> {"events"}, algorithms |-> {"ed25519"}, from |-> 0, through |-> None],
     [signer |-> bob, scopes |-> {"events"}, algorithms |-> {"ed25519"}, from |-> 1, through |-> None]}
=============================================================================
