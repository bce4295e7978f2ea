---------------------------- MODULE MCCoordinates ----------------------------
(* Tables small enough for TLC: at their real size those of the slice edges, of the slice edges *)
(* reduced by the rotations that keep the slice, and of the slice permutation in phase 2; pairs *)
(* of coordinates, and their reduction, on the small puzzle.  TLC evaluates these values before *)
(* the module that uses them when this one comes first among those extended.                    *)
EXTENDS Coordinates, CoordinateGraphs

\* The move table of a coordinate under some moves, in order.
MoveTable(name, moves) ==
    Tabulated([v \in Values(Count[name]) |-> Tabulated([i \in DOMAIN moves |-> MovedCoordinate(name, v, moves[i])])])
InOrderOfMoves == [i \in 1..18 |-> i - 1]
SliceEdgeTable == MoveTable("sliceEdges", InOrderOfMoves)
SlicePermutationTable == MoveTable("sliceEdgePermutation", SelectSeq(InOrderOfMoves, LAMBDA m : m \in Phase2Move))

\* The small puzzle of MCPuzzle: U, U', D, R, R2, R', and for each place whose piece comes there.
PuzzleTurn ==
    <<<<2, 3, 1, 4, 5>>, <<3, 1, 2, 4, 5>>, <<1, 2, 3, 5, 4>>,
      <<4, 5, 3, 2, 1>>, <<2, 1, 3, 5, 4>>, <<5, 4, 3, 1, 2>>>>

\* The place of one of its pieces, from where the piece belongs, and where the moves take it.
FromHome(home, place) == (place + 5 - home) % 5
PlaceTable(home, moves) ==
    Tabulated([v \in Values(5) |-> Tabulated([i \in DOMAIN moves |->
        FromHome(home, CHOOSE p \in 1..5 : FromHome(home, PuzzleTurn[moves[i]][p]) = v)])])
AllMoves == <<1, 2, 3, 4, 5, 6>>
G1Moves == <<1, 2, 3, 5>>
Pair(moves) == Tabulated(Paired(PlaceTable(3, moves), PlaceTable(4, moves), 5))

\* Exchanging the first two places of the puzzle makes of each move a move.
Mirrored(home, v) == FromHome(home, <<2, 1, 3, 4, 5>>[CHOOSE p \in 1..5 : FromHome(home, p) = v])
PairImages ==
    Tabulated([v \in Values(25) |-> {v, PairIndex(Mirrored(3, v \div 5), Mirrored(4, v % 5), 5)}])
SliceImages ==
    Tabulated([v \in Values(495) |-> {SymmetryImage("sliceEdges", v, k) : k \in UdSlicePreservingSymmetries}])

OrbitIndex(images) == Tabulated(OrbitNumber(Tabulated(FirstMet(Tabulated(CanonicalState(images))))))
Itself(n) == Tabulated([v \in Values(n) |-> v])

Tables == {"sliceEdges", "sliceOrbits", "slicePermutation", "pair", "pairPhase2", "pairOrbits"}
NeighboursOf ==
    [sliceEdges |-> SliceEdgeTable, sliceOrbits |-> SliceEdgeTable, slicePermutation |-> SlicePermutationTable,
     pair |-> Pair(AllMoves), pairPhase2 |-> Pair(G1Moves), pairOrbits |-> Pair(AllMoves)]
OrbitOf ==
    [sliceEdges |-> Itself(495), sliceOrbits |-> OrbitIndex(SliceImages), slicePermutation |-> Itself(24),
     pair |-> Itself(25), pairPhase2 |-> Itself(25), pairOrbits |-> OrbitIndex(PairImages)]
ValueCount == Tabulated([j \in Tables |-> Cardinality(DOMAIN NeighboursOf[j])])
EntryCount == Tabulated([j \in Tables |-> Cardinality(Range(OrbitOf[j]))])
Reduced == {"sliceOrbits", "pairOrbits"}
FollowOf ==
    Tabulated([j \in Tables |-> IF j \in Reduced THEN Tabulated(Quotient(NeighboursOf[j], OrbitOf[j]))
                               ELSE NeighboursOf[j]])

\* Distances layer by layer, up to the furthest value.
Layered(moves) ==
    LET Out(reached) == UNION {Range(moves[v]) : v \in reached}
        layers[n \in 0..9] ==
            IF n = 0 THEN <<{0}>>
            ELSE LET before == layers[n - 1]
                 IN  Append(before, Out(before[n]) \ UNION Range(before))
        all == layers[9]
    IN  Tabulated([v \in DOMAIN moves |-> IF \E n \in 0..9 : v \in all[n + 1]
                                          THEN CHOOSE n \in 0..9 : v \in all[n + 1] ELSE 255])
DistanceOf == Tabulated([j \in Tables |-> Layered(NeighboursOf[j])])
=============================================================================
