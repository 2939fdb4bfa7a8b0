------------------------ MODULE MCPolicyPublication --------------------------
(* A small store: two clients, two signers, a plain policy, one with an     *)
(* exception and one whose grants overlap.                                  *)
EXTENDS PolicyPublication

CONSTANTS p1, p2

Grant(id, action, by, S, from, until) ==
    [id |-> id, action |-> action, by |-> by, scopes |-> S, levels |-> {"MATERIAL"},
     challenges |-> {}, from |-> from, until |-> until]

Rule == [id |-> "r", action |-> "ADMIT", roles |-> {"PROPOSER"}, scopes |-> {GlobalScope},
         levels |-> {"MATERIAL"}]

Waiver == [id |-> "x", rule |-> "r", action |-> "ADMIT", by |-> "a", roles |-> {"PROPOSER"},
           scopes |-> {"s"}, assumptions |-> {}, levels |-> {"MATERIAL"}, from |-> 1, until |-> 2]

Plain     == [id |-> "plain", rules |-> {Rule}, exceptions |-> {},
              grants |-> {Grant("g", "ADMIT", "a", {"s"}, 0, None)}]
Waived    == [id |-> "waived", rules |-> {Rule}, exceptions |-> {Waiver},
              grants |-> {Grant("g", "ADMIT", "a", {"s"}, 0, 2), Grant("h", "ADMIT", "a", {"s"}, 2, None)}]
Outlived  == [Waived EXCEPT !.id = "outlived", !.grants = {Grant("g", "ADMIT", "a", {"s"}, 0, 1)}]
Ambiguous == [id |-> "ambiguous", rules |-> {}, exceptions |-> {},
              grants |-> {Grant("g", "ADMIT", "a", {"s"}, 0, None),
                          Grant("h", "ADMIT", "a", {GlobalScope}, 1, None)}]

MCClients   == {p1, p2}
Both == {[signer |-> "u", sound |-> TRUE], [signer |-> "v", sound |-> TRUE]}

Proposal(p, from, up) == [policy |-> p, from |-> from, sigs |-> Both, up |-> up]

MCProposals == {Proposal(Plain, 0, {"u", "v"}), Proposal(Plain, 0, {"u"}),
                Proposal(Waived, 1, {"u", "v"}), Proposal(Waived, 1, {"u"}),
                Proposal(Outlived, 1, {"u", "v"}), Proposal(Ambiguous, 0, {"u", "v"})}
MCRequests  == {[action |-> "ADMIT", by |-> "a", scope |-> "s", level |-> "MATERIAL",
                 challenge |-> None, at |-> t] : t \in 0..1}

MCApproval  == [STANDARD |-> [eligible |-> {"u", "v"}, count |-> 1, required |-> {}],
                DUTY_EXCEPTION |-> [eligible |-> {"u", "v"}, count |-> 2, required |-> {"u"}]]
MCAuthority == [u |-> [from |-> 0, until |-> None, revoked |-> None],
                v |-> [from |-> 1, until |-> 2, revoked |-> None]]
Symmetry == Permutations(MCClients)
=============================================================================
