------------------------- MODULE MCGovernanceQueries -------------------------
(***************************************************************************)
(* Three assumptions with every dependency graph and two evidence units;   *)
(* or one alternative model with every history of up to five events next   *)
(* to another one.                                                         *)
(***************************************************************************)
EXTENDS GovernanceQueries

CONSTANTS asmA, asmB, asmC, evV, evW, modM, modN, auth

MCIdOrder     == <<asmB, asmA, asmC, evV, evW>>
MCAssumptions == {asmA, asmB, asmC}
MCClocks      == {3, 5}
MCRequired    == {{asmA}, {asmB, asmC}}
MCGrants      == {[op |-> op, by |-> auth, scopes |-> {}] : op \in {"REGISTER", "VERIFY", "EXPIRE", "INVALIDATE"}}
MCGrant       == [id |-> "g", action |-> "ADMIT", by |-> auth, scopes |-> {GlobalScope},
                  levels |-> {"MATERIAL"}, challenges |-> {}, from |-> 0, until |-> None]
MCPolicyAt    == [t \in 0..5 |-> [id |-> "p", grants |-> {MCGrant}, rules |-> {}, exceptions |-> {}]]
MCMaterial(r) == r

Ev(op, clock, arg) == [op |-> op, by |-> auth, clock |-> clock, arg |-> arg]

MCIntents == {Ev("INVALIDATE", 5, None), Ev("REJECT", 5, None),
              Ev("CHALLENGE", 5, [challenge |-> "j", reason |-> TRUE])}

Proposal(deps, evidence, expires) ==
    [validFrom |-> 1, expires |-> expires, deps |-> deps, evidence |-> evidence,
     scopes |-> {"s"}, materiality |-> "MATERIAL", proposition |-> "p", reuse |-> 1,
     limitations |-> {}]

Histories(others, evidence) ==
    LET propose(d, x) == Ev("PROPOSE", 1, Proposal(d, evidence, x))
        challenge == Ev("CHALLENGE", 3, [challenge |-> "k", reason |-> TRUE])
    IN  {<<>>}
        \cup {<<propose(d, None)>> : d \in SUBSET others}
        \cup {<<propose(d, x), Ev("ADMIT", 2, None)>> : d \in SUBSET others, x \in {None, 4}}
        \cup {<<propose(d, None), Ev("ADMIT", 2, None), challenge>> : d \in {{}, others}}
        \cup {<<propose(others, None), Ev("CONFIRM", 2, None)>>}

Unit(deps, expires) ==
    [validFrom |-> 1, expires |-> expires, deps |-> deps, scopes |-> {"s"},
     proposition |-> "p", reuse |-> 1, limitations |-> {}]

Verified(deps, expires) == <<Ev("REGISTER", 1, Unit(deps, expires)), Ev("VERIFY", 2, None)>>
Registered              == <<Ev("REGISTER", 1, Unit({}, None))>>

\* asmC is absent, or depends on nothing or on the others.
Sink == {h \in Histories({asmA, asmB}, {}) :
            Len(h) <= 2 /\ \A n \in 1..Len(h) :
                h[n].op = "PROPOSE" => h[n].arg.deps \in {{}, {asmA}, {asmA, asmB}} /\ h[n].arg.expires = None}

MCEntities ==
    {[x \in {asmA, asmB, asmC, evV, evW} |-> CASE x = asmA -> p[1] [] x = asmB -> p[2] [] x = asmC -> p[3]
                                  [] x = evV -> p[4][1] [] OTHER -> p[4][2]] :
        p \in Histories({asmB, asmC}, {evV}) \X Histories({asmA, asmC}, {evV, evW}) \X Sink
              \X {<<Verified({}, None), Verified({evV}, 4)>>, <<Verified({evW}, None), Verified({evV}, None)>>,
                  <<Verified({}, None), Registered>>}}

-----------------------------------------------------------------------------
MCModelOrder == <<modM, modN>>

\* Two leaves, one of them of a keyword family.
MCKeyword == [scope |-> "SCOPE"]
Graph(scope, node) == [scope |-> scope, node |-> node]
Small == [scope |-> 0]
MCGraphs == {Graph(0, 0), Graph(0, 1), Graph(0, 2), Small}
MCUses   == {[clock |-> c, scope |-> s, reuse |-> r] : c \in {4, 6}, s \in {"s", "t"}, r \in {1, 2}}

Shadow(graph, difference, expires) ==
    Ev("PROPOSE", 1, [validFrom |-> 1, expires |-> expires, scopes |-> {"s"}, materiality |-> "MATERIAL",
                      reuse |-> 1, graph |-> graph, difference |-> difference])

\* The events a model may meet at a clock.
ModelEvents(clock) ==
    {Ev(op, clock, None) : op \in {"CONFIRM", "REJECT", "EXPIRE"} \cup (IF clock = 2 THEN {"ADMIT"} ELSE {})}
    \cup {Ev("CHALLENGE", clock, [challenge |-> c, reason |-> TRUE]) : c \in {"j", "k"}}
    \cup {Ev("RESOLVE_CHALLENGES", clock, [outcome |-> o, resolved |-> r, replacement |-> None]) :
               o \in {"UPHOLD", "INVALIDATE"}, r \in {{"k"}, {"j", "k"}}}
    \cup {Ev("SUPERSEDE", clock, [replacement |-> modN])}

Candidates == {<<Shadow(Graph(0, 1), Difference(Graph(0, 0), Graph(0, 1)), x)>> : x \in {None, 5}}

\* Every legal history of up to n events, one event at each clock.
ModelHistories ==
    LET grown[n \in 1..5] ==
            IF n = 1 THEN Candidates
            ELSE grown[n - 1] \cup
                 {h \in {Append(g, e) : g \in {g \in grown[n - 1] : Len(g) = n - 1}, e \in ModelEvents(n)} :
                     LegalModel(modM, h)}
    IN  grown[5]

\* The other model: not there, proposed, admitted, or proposed without a difference.
OtherModel ==
    LET proposed == Shadow(Small, Difference(Graph(0, 0), Small), 4)
    IN  {<<>>, <<proposed>>, <<proposed, Ev("ADMIT", 2, None)>>,
         <<Shadow(Graph(0, 0), Difference(Graph(0, 0), Graph(0, 0)), None)>>}

NoModels   == [x \in {modM, modN} |-> <<>>]
NoEntities == [x \in {asmA, asmB, asmC, evV, evW} |-> <<>>]

MCRegistries ==
    {[entities |-> h, models |-> NoModels] : h \in MCEntities}
    \cup {[entities |-> NoEntities, models |-> [x \in {modM, modN} |-> IF x = modM THEN h ELSE o]] :
               h \in ModelHistories, o \in OtherModel}
=============================================================================
