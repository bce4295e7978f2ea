---------------------------- MODULE LowerBounds -----------------------------
(***************************************************************************)
(* How many moves a node is still away, as the searches estimate it from   *)
(* the pruning tables (src/src/solver.cpp, phase1.cpp, phase2.cpp).        *)
(*                                                                         *)
(* A table is named by the coordinates it is looked up by, and its index   *)
(* is the tuple of their values.  The tables have up to 140 million        *)
(* entries, so only those within Radius moves of the goal are computed,    *)
(* with the move tables, as the builders do; any other entry counts as     *)
(* Radius + 1, which is never more than what the table holds.              *)
(***************************************************************************)
EXTENDS Coordinates, LargestLookup

CONSTANT Radius
ASSUME RadiusAssumption == Radius \in Nat

Phase1Tables ==
    << <<"cornerOrientation">>, <<"edgeOrientation">>, <<"sliceEdges">>,
       <<"cornerOrientation", "sliceEdges">>, <<"edgeOrientation", "sliceEdges">> >>

BaseTables ==
    << <<"cornerOrientation">>, <<"edgeOrientation">>, <<"sliceEdges">>, <<"cornerPermutation">>,
       <<"upEdgePermutation">>, <<"downEdgePermutation">>,
       <<"cornerOrientation", "sliceEdges">>, <<"edgeOrientation", "sliceEdges">>,
       <<"cornerPermutation", "sliceEdges">> >>

Phase2PairTables ==
    << <<"cornerPermutation", "sliceEdgePermutation">>, <<"upEdgePermutation", "sliceEdgePermutation">>,
       <<"downEdgePermutation", "sliceEdgePermutation">> >>

Phase2Tables ==
    << <<"cornerPermutation">>, <<"upEdgePermutation">>, <<"downEdgePermutation">>,
       <<"sliceEdgePermutation">> >> \o Phase2PairTables

Profile == {"Embedded", "Standard", "Performance", "LargeLocal"}

\* The tables nodeLowerBoundWithoutThreePhase1 adds for a profile, in the order it looks them up,
\* in an optimal solve without an experimental variable in the environment.
ProfileTables(profile) ==
    (IF profile \in {"Performance", "LargeLocal"}
     THEN << <<"upEdgePermutation", "downEdgePermutation">> >> ELSE <<>>)
    \o << <<"cornerOrientation", "cornerPermutation">> >>
    \o (IF profile = "LargeLocal"
        THEN << <<"cornerPermutation", "upEdgePermutation">>, <<"cornerPermutation", "downEdgePermutation">> >>
        ELSE <<>>)
    \o (IF profile # "Embedded"
        THEN << <<"cornerPermutation", "edgeOrientation">>, <<"cornerOrientation", "upEdgePermutation">>,
                <<"cornerOrientation", "downEdgePermutation">>, <<"edgeOrientation", "upEdgePermutation">>,
                <<"edgeOrientation", "downEdgePermutation">> >>
        ELSE <<>>)

SearchTable == Range(BaseTables) \cup UNION {Range(ProfileTables(profile)) : profile \in Profile}

-----------------------------------------------------------------------------
(* The tables near the goal, and the lookups. *)

\* What each builder tries from a state: the phase-2 tables know the phase-2 moves only.
SomeMoves(table) == Phase2Move                             \* mutant: the builder of the other phase
TableMoves(table) == IF table \in Range(Phase2PairTables) \cup {<<"sliceEdgePermutation">>}
                     THEN Phase2Move ELSE Move

MovedIndex(table, index, move) ==
    [i \in DOMAIN table |-> MovedCoordinate(table[i], index[i], move)]

\* The indices whose entry is at most d.
Near ==
    [table \in SearchTable \cup Range(Phase2Tables) |->
        LET reached[d \in 0..Radius] ==
                IF d = 0 THEN {[i \in DOMAIN table |-> 0]}
                ELSE LET before == reached[d - 1]
                     IN  before \cup {MovedIndex(table, index, move) :
                                        index \in before, move \in TableMoves(table)}
        IN  Tabulated(reached)]

\* An entry: how many of the sets leave the index out.
Looked(table, node) ==
    LET index == [i \in DOMAIN table |-> node[table[i]]]
    IN  Cardinality({d \in 0..Radius : index \notin Near[table][d]})

Lookups(tables, node) == [i \in DOMAIN tables |-> Looked(tables[i], node)]

Phase1CoordinateLowerBound(coordinates, pruneAbove) ==
    EarlyReturn(Lookups(Phase1Tables, coordinates), pruneAbove)

NodeThreePhase1LowerBound(node, pruneAbove) ==
    EarlyReturn([d \in 1..2 |-> Phase1CoordinateLowerBound(node.extra[d], pruneAbove)], pruneAbove)

NodeBaseLowerBound(node, pruneAbove) == EarlyReturn(Lookups(BaseTables, node), pruneAbove)

NodeLowerBoundWithoutThreePhase1(node, profile, pruneAbove) ==
    EarlyReturn(<<NodeBaseLowerBound(node, pruneAbove)>> \o Lookups(ProfileTables(profile), node), pruneAbove)

Larger(a, b) == IF a > b THEN a ELSE b
NoLimit == Radius + 1

\* phase1LowerBound of the phase-1 search, which has no limit.
Phase1LowerBound(node) == Phase1CoordinateLowerBound(node, NoLimit)

\* nodeLowerBound: what the first depth of a search, and the order of the moves, are chosen by.
NodeLowerBound(node, profile) ==
    Larger(NodeLowerBoundWithoutThreePhase1(node, profile, NoLimit), NodeThreePhase1LowerBound(node, NoLimit))

\* The test of a node at a depth: first without the two other directions, then, when that does not
\* prune, with them.
Pruned(node, profile, pruneAbove) ==
    LET cheap == NodeLowerBoundWithoutThreePhase1(node, profile, pruneAbove)
    IN  \/ cheap > pruneAbove
        \/ Larger(cheap, NodeThreePhase1LowerBound(node, pruneAbove)) > pruneAbove

AddedUp(node) ==                                           \* mutant: each table's moves counted apart
    Summed(Lookups(Phase2Tables, node))
Phase2LowerBound(node) == EarlyReturn(Lookups(Phase2Tables, node), NoLimit)

\* nodePhase2OrderingLowerBound: -1 outside the group the second phase works in.
NodePhase2OrderingLowerBound(node) ==
    IF node.cornerOrientation # 0 \/ node.edgeOrientation # 0 \/ node.sliceEdges # 0 THEN -1
    ELSE LET inGroup == [cornerPermutation |-> node.cornerPermutation,
                         upEdgePermutation |-> node.upEdgePermutation,
                         downEdgePermutation |-> node.downEdgePermutation,
                         sliceEdgePermutation |-> SliceEdgePermutation(node.cube)]
         IN  EarlyReturn(Lookups(Phase2PairTables, inGroup), NoLimit)
=============================================================================
