---------------------------- MODULE Coordinates -----------------------------
(***************************************************************************)
(* The numbers a cube is looked up by (src/src/coordinates.cpp), how a     *)
(* move changes each of them without the cube (src/src/move_tables.cpp),   *)
(* and their images and orbits under the rotations of the whole cube       *)
(* (src/src/symmetry_coordinates.cpp).                                     *)
(*                                                                         *)
(* A coordinate is named as its move table is.  An entry of a move table   *)
(* is computed as the code fills it: the representative of the state is    *)
(* turned and encoded again.                                               *)
(***************************************************************************)
EXTENDS Cubies

FR == 8   \* the first edge of the middle slice
UR == 0   \* the first edge of the upper layer
DR == 4   \* the first edge of the lower layer

Factorial == [n \in 0..8 |-> <<1, 1, 2, 6, 24, 120, 720, 5040, 40320>>[n + 1]]
Binomial(n, k) == IF k > n THEN 0
                  ELSE <<1, n, (n * (n - 1)) \div 2, (n * (n - 1) * (n - 2)) \div 6>>[k + 1]

Summed(f) == FoldFunction(+, 0, f)

\* permutationRank: the place of a permutation, given as a sequence, in lexical order.
PermutationRank(p) ==
    Summed([i \in DOMAIN p |->
        Cardinality({j \in DOMAIN p : j > i /\ p[j] < p[i]}) * Factorial[Len(p) - i]])

\* The same, read backwards: the code takes the selected one of the values not yet used.
PermutationFromRank(rank, values) ==
    FoldLeft(LAMBDA acc, i :
                LET divisor == Factorial[Len(values) - i]
                    selected == (acc.rank \div divisor) + 1
                IN  [rank |-> acc.rank % divisor, taken |-> Append(acc.taken, acc.left[selected]),
                     left |-> RemoveAt(acc.left, selected)],
             [rank |-> rank, taken |-> <<>>, left |-> values],
             [i \in DOMAIN values |-> i]).taken

\* combinationRank: the place, in lexical order, of a set of four of the twelve edge places.
CombinationRank(places) ==
    LET ordered == SetToSortSeq(places, <)
        Skipped(i) == {c \in Edge : c < ordered[i] /\ (i > 1 => c > ordered[i - 1])}
    IN  Summed([i \in 1..4 |-> Summed([c \in Skipped(i) |-> Binomial(11 - c, 4 - i)])])

FourPlaces == kSubset(4, Edge)
CombinationRankOf == Tabulated([places \in FourPlaces |-> CombinationRank(places)])

-----------------------------------------------------------------------------
(* The encoders. *)

Digits(f, base) == FoldLeft(LAMBDA index, i : index * base + f[i - 1], 0, [i \in 1..Cardinality(DOMAIN f) - 1 |-> i])

AllDigits(c) == Digits([p \in 0..8 |-> c.co[p % 8]], 3)   \* mutant: the last corner counts too
CornerOrientation(c) == Digits(c.co, 3)
EdgeOrientation(c) == Digits(c.eo, 2)
CornerPermutation(c) == PermutationRank([i \in 1..8 |-> c.cp[i - 1]])

PlacesOf(c, firstEdge) == {p \in Edge : c.ep[p] \in firstEdge..firstEdge + 3}

SliceCombination(places) == 494 - CombinationRankOf[places]
SliceEdges(c) == SliceCombination(PlacesOf(c, FR))

\* The subtraction is of bytes: an edge of another layer in the slice gives a number above four.
SliceEdgePermutation(c) == PermutationRank([i \in 1..4 |-> (c.ep[FR + i - 1] - FR) % 256])

NormalizedCombination(places, firstEdge) ==
    (CombinationRankOf[places] + 495 - CombinationRankOf[firstEdge..firstEdge + 3]) % 495

\* The edges of the group, in the order of their places.
EdgeGroupPermutation(c, firstEdge) ==
    LET places == PlacesOf(c, firstEdge)
        ordered == SetToSortSeq(places, <)
    IN  NormalizedCombination(places, firstEdge) * 24 + PermutationRank([i \in 1..4 |-> c.ep[ordered[i]]])

UpEdgePermutation(c) == EdgeGroupPermutation(c, UR)
DownEdgePermutation(c) == EdgeGroupPermutation(c, DR)

-----------------------------------------------------------------------------
(* The representatives: a cube for every value of a coordinate. *)

\* The orientations of all but the last, in base 2 or 3, and the last one that balances the sum.
OrientationFromIndex(index, base, count) ==
    LET Power == [k \in 0..11 |-> base ^ k]
        digit == [i \in 0..count - 2 |-> (index \div Power[count - 2 - i]) % base]
    IN  [i \in 0..count - 1 |-> IF i < count - 1 THEN digit[i] ELSE (base - (Summed(digit) % base)) % base]

Permuted(cp) == CubieOf([p \in Corner |-> cp[p + 1]], SolvedCubie.co, SolvedCubie.ep, SolvedCubie.eo)
EdgesPlaced(ep) == CubieOf(SolvedCubie.cp, SolvedCubie.co, ep, SolvedCubie.eo)

CubeFromCornerOrientation(index) ==
    CubieOf(SolvedCubie.cp, OrientationFromIndex(index, 3, 8), SolvedCubie.ep, SolvedCubie.eo)
CubeFromEdgeOrientation(index) ==
    CubieOf(SolvedCubie.cp, SolvedCubie.co, SolvedCubie.ep, OrientationFromIndex(index, 2, 12))
CubeFromCornerPermutation(index) == Permuted(PermutationFromRank(index, <<0, 1, 2, 3, 4, 5, 6, 7>>))

\* The edges of a group put in the given order on the given places, the others in order elsewhere.
WithGroupOn(places, firstEdge, order) ==
    LET Before(p, set) == Cardinality({q \in set : q < p})
        others == [i \in 1..8 |-> IF i - 1 < firstEdge THEN i - 1 ELSE i + 3]
    IN  EdgesPlaced([p \in Edge |-> IF p \in places THEN firstEdge + order[Before(p, places) + 1]
                                    ELSE others[Before(p, Edge \ places) + 1]])

InOrder == <<0, 1, 2, 3>>

\* The places for each value of the combination part: the code fills the representatives by
\* encoding each of them.
Listed(codes) == Tabulated([index \in 0..494 |-> (CHOOSE code \in codes : code[1] = index)[2]])
SlicePlaces == Listed({<<SliceCombination(places), places>> : places \in FourPlaces})
CubeFromSliceEdges(index) == WithGroupOn(SlicePlaces[index], FR, InOrder)

GroupPlaces ==
    Tabulated([firstEdge \in {UR, DR} |->
        Listed({<<NormalizedCombination(places, firstEdge), places>> : places \in FourPlaces})])
CubeFromEdgeGroup(index, firstEdge) ==
    WithGroupOn(GroupPlaces[firstEdge][index \div 24], firstEdge, PermutationFromRank(index % 24, InOrder))

CubeFromSliceEdgePermutation(index) == WithGroupOn(8..11, FR, PermutationFromRank(index, InOrder))

-----------------------------------------------------------------------------
(* The coordinates by name, their sizes, and the move tables. *)

Coordinate == {"cornerOrientation", "edgeOrientation", "sliceEdges", "cornerPermutation",
               "upEdgePermutation", "downEdgePermutation", "sliceEdgePermutation"}

Count ==
    [cornerOrientation |-> 2187, edgeOrientation |-> 2048, sliceEdges |-> 495, cornerPermutation |-> 40320,
     upEdgePermutation |-> 11880, downEdgePermutation |-> 11880, sliceEdgePermutation |-> 24]

Encoded(name, c) ==
    CASE name = "cornerOrientation" -> CornerOrientation(c)
      [] name = "edgeOrientation" -> EdgeOrientation(c)
      [] name = "sliceEdges" -> SliceEdges(c)
      [] name = "cornerPermutation" -> CornerPermutation(c)
      [] name = "upEdgePermutation" -> UpEdgePermutation(c)
      [] name = "downEdgePermutation" -> DownEdgePermutation(c)
      [] name = "sliceEdgePermutation" -> SliceEdgePermutation(c)

Representative(name, index) ==
    CASE name = "cornerOrientation" -> CubeFromCornerOrientation(index)
      [] name = "edgeOrientation" -> CubeFromEdgeOrientation(index)
      [] name = "sliceEdges" -> CubeFromSliceEdges(index)
      [] name = "cornerPermutation" -> CubeFromCornerPermutation(index)
      [] name = "upEdgePermutation" -> CubeFromEdgeGroup(index, UR)
      [] name = "downEdgePermutation" -> CubeFromEdgeGroup(index, DR)
      [] name = "sliceEdgePermutation" -> CubeFromSliceEdgePermutation(index)

\* isPhase2Move: turns of U and D, and half turns.
Phase2Move == {move \in Move : FaceOf(move) \in {U, D} \/ QuarterTurns(move) = 2}

\* An entry of a move table.  That of the slice permutation has no entry for the moves that
\* leave the slice: the code writes the state itself.
MovedCoordinate(name, index, move) ==
    IF name = "sliceEdgePermutation" /\ move \notin Phase2Move THEN index
    ELSE Encoded(name, CubieTurned(Representative(name, index), move))
-----------------------------------------------------------------------------
(* The images of a coordinate under the rotations of the whole cube (symmetry_coordinates.cpp). *)

\* The representative to rotate.  Rotating goes by way of a parse, which wants permutations of like
\* parity, so the code exchanges two corners where the edges of the slice are out of order.
RotatedRepresentative(name, index) ==
    LET c == Representative(name, index)
    IN  IF name = "sliceEdges" /\ Parity(c.ep) # Parity(c.cp)
        THEN [c EXCEPT !.cp = Permuted(<<1, 0, 2, 3, 4, 5, 6, 7>>).cp] ELSE c

\* buildSymmetryTable.
SymmetryImage(name, index, k) == Encoded(name, CubieRotated(RotatedRepresentative(name, index), k))

\* udSlicePreservingSymmetries: the rotations that keep the middle slice in its place.
UdSlicePreservingSymmetries == {k \in DOMAIN Symmetries : PreservesUdSlice(k)}

-----------------------------------------------------------------------------
(* The other two axes (solver.cpp). *)

\* phase1DirectionSymmetries: the first rotation that turns the vertical axis to each of the others.
DirectionSymmetry ==
    Tabulated([d \in 1..2 |-> FirstOf({k \in 0..23 : MatrixEntry(Symmetries[k], 2, 2 * d - 1) # 0})])

\* The move that does to the rotated cube what the move does to the cube.
DirectionMove ==
    Tabulated([d \in 1..2 |-> Tabulated([move \in Move |->
        CHOOSE candidate \in Move :
            Turned(SolvedStickers, candidate) = Rotated(Turned(SolvedStickers, move), DirectionSymmetry[d])])])
=============================================================================
