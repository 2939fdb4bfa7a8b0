--------------------------- MODULE DependencyWalk ----------------------------
(***************************************************************************)
(* The depth-first walk over assumption dependencies that admission        *)
(* (_assumption_dependency_validator.py) and use                           *)
(* (_assumption_use_admissibility.py) both make, and the replay by which   *)
(* the receipt of such a walk checks itself.  The two are written twice    *)
(* in the code and must agree: a receipt that refuses what its producer    *)
(* computed turns a verdict into an exception.                             *)
(*                                                                         *)
(* A walk stops at the first failure.  Its record is [id, code, deps]; the *)
(* code of a node that passed every gate is PRESENT.                       *)
(***************************************************************************)
EXTENDS Integers, Sequences, FiniteSets, SequencesExt

CONSTANT IdOrder    \* the identities in canonical order

ASSUME IdOrderAssumption == IdOrder \in Seq(Range(IdOrder)) /\ IsInjective(IdOrder)

Ids == Range(IdOrder)

Position(s, x) == CHOOSE n \in 1..Len(s) : s[n] = x

\* The members of S in the order R, a set of pairs: each has its rank.
InOrder(S, R) ==
    [n \in 1..Cardinality(S) |-> CHOOSE x \in S : Cardinality({y \in S : <<y, x>> \in R}) = n - 1]

EarlierId == {p \in Ids \X Ids : Position(IdOrder, p[1]) < Position(IdOrder, p[2])}

\* A canonical tuple of identities, and the first of them.
Ordered(S) == InOrder(S, EarlierId)
Least(S)   == CHOOSE x \in S : \A y \in S : Position(IdOrder, x) <= Position(IdOrder, y)

\* canonical_cycle_witness: the ring turned so that its smallest identity is
\* first, and closed.
Witness(ring) ==
    LET least  == Position(ring, Least(Range(ring)))
        turned == SubSeq(ring, least, Len(ring)) \o SubSeq(ring, 1, least - 1)
    IN  Append(turned, turned[1])

\* The ring a walk closes that reaches `node' with this stack.
RingAt(stack, node) == SubSeq(stack, Position(stack, node), Len(stack))

Record(Codes) == [id : Ids, code : Codes, deps : SUBSET Ids]

\* Where a walk is: the children of the path that are still to visit, in
\* canonical order, and the state it is in.
Points(nodes, States)  == [kids : SUBSET nodes, stack : Seq(Ids), state : States]
At(kids, stack, state) == [kids |-> kids, stack |-> stack, state |-> state]

-----------------------------------------------------------------------------
(* The walk.  Its state is what the closure of _dfs keeps; code is PRESENT  *)
(* until a failure ends the walk, and calls counts the edges it follows.   *)
(* gate and deps are functions of the identities a walk can meet.          *)

WalkState(Codes) ==
    [visited : SUBSET Ids, trail : Seq(Record(Codes)), code : Codes \cup {"CYCLE"},
     cycle : Seq(Ids), calls : Nat]

WalkStart == [visited |-> {}, trail |-> <<>>, code |-> "PRESENT", cycle |-> <<>>, calls |-> 0]

\* A node whose children all passed is done with, on this and on later paths.
Finish(v, node) == IF v.code = "PRESENT" THEN [v EXCEPT !.visited = @ \cup {node}] ELSE v

\* One call of _dfs for the first child, then those for the others.
WalkStep(visit, gate, deps, p) ==
    LET node == Least(p.kids)
        w    == [p.state EXCEPT !.calls = @ + 1]
        seen == [w EXCEPT !.code = gate[node],
                          !.trail = Append(@, [id |-> node, code |-> gate[node], deps |-> deps[node]])]
        met  == IF node \in Range(p.stack)
                THEN [w EXCEPT !.code = "CYCLE", !.cycle = Witness(RingAt(p.stack, node))]
                ELSE IF node \in w.visited THEN w
                ELSE IF gate[node] # "PRESENT" THEN seen
                ELSE Finish(visit[At(deps[node], Append(p.stack, node), seen)], node)
    IN  IF p.kids = {} \/ p.state.code # "PRESENT" THEN p.state
        ELSE visit[At(p.kids \ {node}, p.stack, met)]

Walk(root, first, gate, deps, Codes) ==
    LET visit[p \in Points(DOMAIN deps, WalkState(Codes))] == WalkStep(visit, gate, deps, p)
    IN  visit[At(first, <<root>>, WalkStart)]

-----------------------------------------------------------------------------
(* The replay of a receipt [root, deps, trail, cycle, code].  `next' counts *)
(* the records consumed, `edges' the edges followed; a replay that does not *)
(* fit the records is refused.                                             *)

ReplayState(Codes) ==
    [visited : SUBSET Ids, next : Nat, edges : Nat, code : Codes \cup {"CYCLE"},
     cycle : Seq(Ids), fits : BOOLEAN]

ReplayStart == [visited |-> {}, next |-> 0, edges |-> 0, code |-> "PRESENT",
                cycle |-> <<>>, fits |-> TRUE]

ReplayStep(visit, trail, p) ==
    LET node == Least(p.kids)
        r    == p.state
        w    == [r EXCEPT !.edges = @ + 1]
        rec  == trail[r.next + 1]
        read == [w EXCEPT !.next = @ + 1, !.fits = (rec.id = node), !.code = rec.code]
        met  == IF node \in Range(p.stack)
                THEN [w EXCEPT !.code = "CYCLE", !.cycle = Witness(RingAt(p.stack, node))]
                ELSE IF node \in r.visited THEN w
                ELSE IF r.next >= Len(trail) THEN [r EXCEPT !.fits = FALSE]
                ELSE IF rec.code # "PRESENT" THEN read
                ELSE Finish(visit[At(rec.deps, Append(p.stack, node), read)], node)
    IN  IF p.kids = {} \/ ~r.fits \/ r.code # "PRESENT" THEN r
        ELSE visit[At(p.kids \ {node}, p.stack, met)]

Replay(root, deps, trail, Codes) ==
    LET visit[p \in Points(Ids, ReplayState(Codes))] == ReplayStep(visit, trail, p)
    IN  visit[At(deps, <<root>>, ReplayStart)]

\* Every record is consumed and the replay ends the way the receipt says.
ReplayAgrees(root, deps, trail, cycle, code, Codes) ==
    LET r == Replay(root, deps, trail, Codes)
    IN  /\ r.fits /\ r.next = Len(trail)
        /\ r.code = code /\ r.cycle = cycle

-----------------------------------------------------------------------------
(* What a walk is for: the identities it must reach, and the cycles.       *)

\* The identities that a path of any length leads to from S.
Reached(S, deps) ==
    LET within[n \in 0..Cardinality(Ids)] ==
            IF n = 0 THEN S
            ELSE LET R == within[n - 1] IN R \cup UNION {deps[x] : x \in R \cap DOMAIN deps}
    IN  within[Cardinality(Ids)]

OnCycle(x, deps) == x \in Reached(deps[x], deps)
=============================================================================
