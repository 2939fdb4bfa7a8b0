------------------------------ MODULE MCRegistry ------------------------------
(***************************************************************************)
(* Assumption asmA depends on assumption asmB and evidence evV.            *)
(***************************************************************************)
EXTENDS Registry

CONSTANTS asmA, asmB, evV, admitter, proposer

MCIdOrder     == <<asmA, asmB, evV>>
MCAssumptions == {asmA, asmB}
MCMaterial(r) == r
MCGrants      == {[op |-> op, by |-> admitter, scopes |-> {"s"}] : op \in {"REGISTER", "VERIFY", "INVALIDATE"}}
MCRule        == [id |-> "r", action |-> "ADMIT", roles |-> {"PROPOSER"}, scopes |-> {GlobalScope},
                  levels |-> {"MATERIAL"}]
MCPolicy      == [id |-> "p", grants |-> {[id |-> "g", action |-> "ADMIT", by |-> admitter,
                     scopes |-> {"s"}, levels |-> {"MATERIAL"}, challenges |-> {},
                     from |-> 0, until |-> None]},
                  rules |-> {MCRule}, exceptions |-> {}]
MCPolicyAt    == [t \in 0..3 |-> MCPolicy]

Ev(op, by, clock, arg) == [op |-> op, by |-> by, clock |-> clock, arg |-> arg]

Proposal(scope, deps, evidence) ==
    [validFrom |-> 1, expires |-> None, deps |-> deps, evidence |-> evidence,
     scopes |-> {scope}, materiality |-> "MATERIAL", proposition |-> "p", reuse |-> 1,
     limitations |-> {}]

Unit == [validFrom |-> 1, expires |-> None, deps |-> {}, scopes |-> {"s"},
         proposition |-> "p", reuse |-> 1, limitations |-> {}]

MCOffers ==
    [id \in {asmA, asmB, evV} |->
        CASE id = asmA -> {Ev("PROPOSE", proposer, 1, Proposal("s", {asmB}, {evV}))}
          [] id = asmB -> {Ev("PROPOSE", proposer, 1, Proposal("t", {}, {})), Ev("REJECT", admitter, 2, None)}
          [] OTHER     -> {Ev("REGISTER", admitter, 1, Unit), Ev("VERIFY", admitter, 2, None),
                           Ev("VERIFY", proposer, 2, None)}]

MCCloned == {{evV}}
MCNeeded == {{asmA, evV}}

Symmetry == Permutations(Clients)
=============================================================================
