------------------------------ MODULE CubeFacts ------------------------------
(***************************************************************************)
(* What the tables of the cube say, case by case: the facelets and colours *)
(* of the cubies, the eighteen moves, the rotations that stand another     *)
(* axis upright, and the coordinates with their representatives.           *)
(*                                                                         *)
(* No CONSTANT occurs here and every quantifier is bounded, so TLC examines*)
(* each assumption completely when it evaluates it; SearchNodesProofs      *)
(* proves from them what holds of every cube and after any moves.          *)
(***************************************************************************)
EXTENDS Coordinates

-----------------------------------------------------------------------------
(* Facelets and colours. *)

\* The sticker of a cubie of n stickers that shows at an index of its place, turned so often.
Shown(index, turn, n) == ((index - 1 - turn + n) % n) + 1

Centre(face) == face * 9 + 4

\* Every facelet is one of a corner place, one of an edge place or a centre, and PlaceOf says which.
ASSUME FaceletsOfThePlaces ==
    /\ CornerFacelets \in [Corner -> [1..3 -> Facelet]]
    /\ EdgeFacelets \in [Edge -> [1..2 -> Facelet]]
    /\ \A p \in Corner, i \in 1..3 :
          PlaceOf[CornerFacelets[p][i]] = [kind |-> "corner", place |-> p, index |-> i]
    /\ \A p \in Edge, i \in 1..2 :
          PlaceOf[EdgeFacelets[p][i]] = [kind |-> "edge", place |-> p, index |-> i]
    /\ \A face \in Face : PlaceOf[Centre(face)].kind = "centre"
    /\ \A i \in Facelet :
          \/ \E p \in Corner, k \in 1..3 : i = CornerFacelets[p][k]
          \/ \E p \in Edge, k \in 1..2 : i = EdgeFacelets[p][k]
          \/ \E face \in Face : i = Centre(face)

UpOrDown(color) == color \in {U, D}
OneUpDown(colors) ==
    \E i \in 1..3 : UpOrDown(colors[i]) /\ \A k \in 1..3 : UpOrDown(colors[k]) => k = i

CornerWritten(c, turn) == [i \in 1..3 |-> Written(CornerColors[c], turn, i)]
EdgeWritten(e, turn) == [i \in 1..2 |-> Written(EdgeColors[e], turn, i)]

\* A corner is read, with one sticker of U or D, whatever the other two are; turned in its place
\* it is read as the same corner turned further.
ASSUME CornersAreRead ==
    /\ CornerColors \in [Corner -> [1..3 -> Face]]
    /\ \A c \in Corner : Len(CornerColors[c]) = 3
    /\ \A c \in Corner, turn \in 0..2 :
          /\ CornerOf(CornerWritten(c, turn)) = [error |-> "None", cubie |-> c, turn |-> turn]
          /\ OneUpDown(CornerWritten(c, turn))
    /\ \A colors \in [1..3 -> Face] :
          LET read == CornerOf(colors)
          IN  /\ read.error \in {"None", "InvalidCornerOrientation", "InvalidCornerPermutation"}
              /\ read.error = "None" =>
                    /\ read = [error |-> "None", cubie |-> read.cubie, turn |-> read.turn]
                    /\ read.cubie \in Corner
                    /\ read.turn \in 0..2
                    /\ \E i \in 1..3 : UpOrDown(colors[i])
                    /\ OneUpDown(colors) =>
                          /\ \A i \in 1..3 :
                                Written(CornerColors[read.cubie], read.turn, i) # colors[i] =>
                                    {Written(CornerColors[read.cubie], read.turn, i), colors[i]} \cap {U, D} = {}
                          /\ \A turn \in 0..2 :
                                CornerOf([i \in 1..3 |-> colors[Shown(i, turn, 3)]]) =
                                    [error |-> "None", cubie |-> read.cubie, turn |-> (read.turn + turn) % 3]

\* An edge is read only as the colours it has.
ASSUME EdgesAreRead ==
    /\ EdgeColors \in [Edge -> [1..2 -> Face]]
    /\ \A e \in Edge : Len(EdgeColors[e]) = 2
    /\ \A e \in Edge, turn \in 0..1 :
          EdgeOf(EdgeWritten(e, turn)) = [error |-> "None", cubie |-> e, turn |-> turn]
    /\ \A colors \in [1..2 -> Face] :
          LET read == EdgeOf(colors)
          IN  /\ read.error \in {"None", "InvalidEdgePermutation"}
              /\ read.error = "None" =>
                    /\ read = [error |-> "None", cubie |-> read.cubie, turn |-> read.turn]
                    /\ read.cubie \in Edge
                    /\ read.turn \in 0..1
                    /\ colors = EdgeWritten(read.cubie, read.turn)
                    /\ \A turn \in 0..1 :
                          EdgeOf([i \in 1..2 |-> colors[Shown(i, turn, 2)]]) =
                              [error |-> "None", cubie |-> read.cubie, turn |-> (read.turn + turn) % 2]

\* The edges of the slice show no sticker of U or D, each other edge one.
ASSUME UpDownOfTheEdges ==
    /\ \A e \in 0..7, turn \in 0..1 :
          \E i \in 1..2 : \A k \in 1..2 : UpOrDown(Written(EdgeColors[e], turn, k)) <=> k = i
    /\ \A e \in 8..11, turn \in 0..1, i \in 1..2 : ~UpOrDown(Written(EdgeColors[e], turn, i))

\* The solved cube is accepted, as what it is.
ASSUME SolvedIsAccepted ==
    /\ SolvedStickers \in [Facelet -> Face]
    /\ StickersError(SolvedStickers) = "None"
    /\ FromStickers(SolvedStickers).cube = SolvedCubie
    /\ ToStickers(SolvedCubie) = SolvedStickers

-----------------------------------------------------------------------------
(* The moves. *)

\* A move brings the stickers of a place together to another place, turned alike, and leaves the
\* centres; it is a cube that validation accepts, and its inverse takes it back.
ASSUME MovesOfTheCube ==
    /\ MoveSources \in [Move -> [Facelet -> Facelet]]
    /\ MoveTransform \in [Move -> Cubie]
    /\ \A move \in Move :
          LET t == MoveTransform[move]
          IN  /\ CubieError(t) = "None"
              /\ IsPermutation(MoveSources[move])
              /\ \A p \in Corner, i \in 1..3 :
                    MoveSources[move][CornerFacelets[p][i]] = CornerFacelets[t.cp[p]][Shown(i, t.co[p], 3)]
              /\ \A p \in Edge, i \in 1..2 :
                    MoveSources[move][EdgeFacelets[p][i]] = EdgeFacelets[t.ep[p]][Shown(i, t.eo[p], 2)]
              /\ \A face \in Face : MoveSources[move][Centre(face)] = Centre(face)
              /\ Inverted(move) \in Move
              /\ Transformed(t, MoveTransform[Inverted(move)]) = SolvedCubie
    /\ Phase2Move \subseteq Move
    /\ \A move \in Phase2Move :
          LET t == MoveTransform[move]
          IN  /\ Inverted(move) \in Phase2Move
              /\ t.co = SolvedCubie.co /\ t.eo = SolvedCubie.eo
              /\ \A p \in Edge : t.ep[p] \in 8..11 <=> p \in 8..11

-----------------------------------------------------------------------------
(* The rotations that stand another axis upright. *)

\* Where a rotated cube takes the stickers of a place from: which place, and which of its stickers.
CornerFrom(k, p) == PlaceOf[SymmetrySources[k][CornerFacelets[p][1]]].place
CornerIndexFrom(k, p, i) == PlaceOf[SymmetrySources[k][CornerFacelets[p][i]]].index
EdgeFrom(k, p) == PlaceOf[SymmetrySources[k][EdgeFacelets[p][1]]].place
EdgeIndexFrom(k, p, i) == PlaceOf[SymmetrySources[k][EdgeFacelets[p][i]]].index

\* What is read at a place of the rotated cube of a cubie in the place it is taken from.
RotatedCorner(k, p, c, turn) ==
    CornerOf([i \in 1..3 |-> ColorMap[k][Written(CornerColors[c], turn, CornerIndexFrom(k, p, i))]])
RotatedEdge(k, p, e, turn) ==
    EdgeOf([i \in 1..2 |-> ColorMap[k][Written(EdgeColors[e], turn, EdgeIndexFrom(k, p, i))]])

\* Which cubie a cubie becomes, and how much further it is turned than the first one would be.
CornerTo == Tabulated([k \in 0..23 |-> Tabulated([c \in Corner |-> RotatedCorner(k, 0, c, 0).cubie])])
EdgeTo == Tabulated([k \in 0..23 |-> Tabulated([e \in Edge |-> RotatedEdge(k, 0, e, 0).cubie])])
CornerTwist ==
    Tabulated([k \in 0..23 |-> Tabulated([c \in Corner |-> RotatedCorner(k, CornerTo[k][0], c, 0).turn])])
EdgeTwist == Tabulated([k \in 0..23 |-> Tabulated([e \in Edge |-> RotatedEdge(k, EdgeTo[k][0], e, 0).turn])])

\* The cubies of the rotated cube, without its stickers.
RotatedCubies(c, k) ==
    CubieOf([p \in Corner |-> CornerTo[k][c.cp[CornerFrom(k, p)]]],
            [p \in Corner |-> (c.co[CornerFrom(k, p)] + (CornerTwist[k][c.cp[CornerFrom(k, p)]]
                                    + (3 - CornerTwist[k][CornerFrom(k, p)]))) % 3],
            [p \in Edge |-> EdgeTo[k][c.ep[EdgeFrom(k, p)]]],
            [p \in Edge |-> (c.eo[EdgeFrom(k, p)] + (EdgeTwist[k][c.ep[EdgeFrom(k, p)]]
                                    + (2 - EdgeTwist[k][EdgeFrom(k, p)]))) % 2])

Direction == {DirectionSymmetry[d] : d \in 1..2}

ASSUME DirectionTables ==
    \A k \in Direction :
        /\ SymmetrySources[k] \in [Facelet -> Facelet] /\ ColorMap[k] \in [Face -> Face]
        /\ CornerTo[k] \in [Corner -> Corner] /\ IsPermutation(CornerTo[k])
        /\ EdgeTo[k] \in [Edge -> Edge] /\ IsPermutation(EdgeTo[k])
        /\ CornerTwist[k] \in [Corner -> 0..2]
        /\ EdgeTwist[k] \in [Edge -> 0..1]

\* The places are exchanged, and the cubies, the corners as oddly as the edges; and as far as the
\* cubies are turned, the places turn them back.
ASSUME DirectionPlaces ==
    \A k \in Direction :
        LET corners == [p \in Corner |-> CornerFrom(k, p)]
            edges == [p \in Edge |-> EdgeFrom(k, p)]
        IN  /\ corners \in [Corner -> Corner] /\ IsPermutation(corners)
            /\ edges \in [Edge -> Edge] /\ IsPermutation(edges)
            /\ (Parity(CornerTo[k]) + Parity(corners)) % 2 = (Parity(EdgeTo[k]) + Parity(edges)) % 2

ASSUME DirectionTotals ==
    \A k \in Direction :
        /\ Total([c \in Corner |-> 3 - CornerTwist[k][c]]) + Total(CornerTwist[k]) = 24
        /\ Total([e \in Edge |-> 2 - EdgeTwist[k][e]]) + Total(EdgeTwist[k]) = 24

\* The stickers of a place are taken from one place.
ASSUME DirectionStickers ==
    \A k \in Direction :
        /\ \A p \in Corner, i \in 1..3 :
              LET at == PlaceOf[SymmetrySources[k][CornerFacelets[p][i]]]
              IN  at.kind = "corner" /\ at.place = CornerFrom(k, p) /\ at.index \in 1..3
        /\ \A p \in Edge, i \in 1..2 :
              LET at == PlaceOf[SymmetrySources[k][EdgeFacelets[p][i]]]
              IN  at.kind = "edge" /\ at.place = EdgeFrom(k, p) /\ at.index \in 1..2

\* What is read there depends on the cubie and the place as RotatedCubies has it.
ASSUME DirectionReads ==
    \A k \in Direction :
        /\ \A p \in Corner, c \in Corner, turn \in 0..2 :
              /\ RotatedCorner(k, p, c, turn) =
                     [error |-> "None", cubie |-> CornerTo[k][c],
                      turn |-> (turn + (CornerTwist[k][c] + (3 - CornerTwist[k][CornerFrom(k, p)]))) % 3]
              /\ OneUpDown([i \in 1..3 |-> ColorMap[k][Written(CornerColors[c], turn, CornerIndexFrom(k, p, i))]])
        /\ \A p \in Edge, e \in Edge, turn \in 0..1 :
              RotatedEdge(k, p, e, turn) =
                  [error |-> "None", cubie |-> EdgeTo[k][e],
                   turn |-> (turn + (EdgeTwist[k][e] + (2 - EdgeTwist[k][EdgeFrom(k, p)]))) % 2]

\* The solved cube is solved from every side, and a move before a rotation is another move after it.
ASSUME DirectionMoves ==
    /\ \A k \in Direction : CubieRotated(SolvedCubie, k) = SolvedCubie
    /\ \A d \in 1..2, move \in Move :
          /\ DirectionMove[d][move] \in Move
          /\ \A i \in Facelet :
                MoveSources[move][SymmetrySources[DirectionSymmetry[d]][i]]
                    = SymmetrySources[DirectionSymmetry[d]][MoveSources[DirectionMove[d][move]][i]]

-----------------------------------------------------------------------------
(* The coordinates.  The representative of an index has what the index was made from. *)

ASSUME OrientationsAreIndexed ==
    /\ \A co \in [Corner -> 0..2] : Total(co) % 3 = 0 =>
          /\ Digits(co, 3) \in 0..Count["cornerOrientation"] - 1
          /\ OrientationFromIndex(Digits(co, 3), 3, 8) = co
    /\ \A eo \in [Edge -> 0..1] : Total(eo) % 2 = 0 =>
          /\ Digits(eo, 2) \in 0..Count["edgeOrientation"] - 1
          /\ OrientationFromIndex(Digits(eo, 2), 2, 12) = eo

\* Of the slice edges, where they are.
ASSUME SlicePlacesAreIndexed ==
    \A places \in FourPlaces :
        /\ SliceCombination(places) \in 0..Count["sliceEdges"] - 1
        /\ SliceCombination(places) = 0 <=> places = 8..11
        /\ PlacesOf(CubeFromSliceEdges(SliceCombination(places)), FR) = places

\* Of the corners, their order: whichever comes first, and then next of those left.
OrderIsIndexed(order) ==
    /\ PermutationRank(order) \in 0..Count["cornerPermutation"] - 1
    /\ PermutationFromRank(PermutationRank(order), <<0, 1, 2, 3, 4, 5, 6, 7>>) = order
From7(a, b, c, d, e, f, g) == \A h \in Corner \ {a, b, c, d, e, f, g} : OrderIsIndexed(<<a, b, c, d, e, f, g, h>>)
From6(a, b, c, d, e, f) == \A g \in Corner \ {a, b, c, d, e, f} : From7(a, b, c, d, e, f, g)
From5(a, b, c, d, e) == \A f \in Corner \ {a, b, c, d, e} : From6(a, b, c, d, e, f)
From4(a, b, c, d) == \A e \in Corner \ {a, b, c, d} : From5(a, b, c, d, e)
From3(a, b, c) == \A d \in Corner \ {a, b, c} : From4(a, b, c, d)
From2(a, b) == \A c \in Corner \ {a, b} : From3(a, b, c)
From1(a) == \A b \in Corner \ {a} : From2(a, b)
ASSUME CornerOrdersAreIndexed == \A a \in Corner : From1(a)

\* Of the edges of a layer, where each of them is; their places are taken in order.
ASSUME PlacesAreOrdered ==
    \A places \in FourPlaces : SetToSortSeq(places, <) \in [1..4 -> places]

Placed(order, places, firstEdge) ==
    [p \in Edge |-> IF p \in places THEN order[p] ELSE (firstEdge + 4) % 12]
GroupIsIndexed(order, places, firstEdge) ==
    LET index == EdgeGroupPermutation([ep |-> Placed(order, places, firstEdge)], firstEdge)
        found == CubeFromEdgeGroup(index, firstEdge).ep
    IN  /\ \A name \in {"upEdgePermutation", "downEdgePermutation"} : index \in 0..Count[name] - 1
        /\ \A p \in Edge : IF p \in places THEN found[p] = order[p] ELSE found[p] \notin firstEdge..firstEdge + 3
ASSUME EdgeGroupsAreIndexed ==
    \A firstEdge \in {UR, DR}, places \in FourPlaces :
    \A order \in [places -> firstEdge..firstEdge + 3] :
        IsPermutation(order) => GroupIsIndexed(order, places, firstEdge)

\* Of the slice edges in the slice, their order.
ASSUME SliceOrdersAreIndexed ==
    \A order \in [8..11 -> 8..11] : IsPermutation(order) =>
        LET index == PermutationRank([i \in 1..4 |-> (order[FR + i - 1] - FR) % 256])
        IN  /\ index \in 0..Count["sliceEdgePermutation"] - 1
            /\ \A p \in 8..11 : CubeFromSliceEdgePermutation(index).ep[p] = order[p]

\* The solved cube has the index nought.
ASSUME SolvedIsNought == \A name \in Coordinate : Encoded(name, SolvedCubie) = 0
=============================================================================
