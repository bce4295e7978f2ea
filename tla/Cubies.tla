------------------------------- MODULE Cubies -------------------------------
(***************************************************************************)
(* The cube as eight corners and twelve edges (src/src/cubie_cube.cpp):    *)
(* reading it off the stickers, writing it back, turning it, validating    *)
(* it; and the sticker checks of src/src/cube.cpp in front of it.          *)
(*                                                                         *)
(* cp[p] and ep[p] name the cubie at place p, co[p] and eo[p] how it is    *)
(* turned there.  A parse gives an error code of CubeErrorCode, "None"     *)
(* when there is none.                                                     *)
(***************************************************************************)
EXTENDS Facelets, SequencesExt

Corner == 0..7
Edge == 0..11

CornerFacelets ==
    [p \in Corner |-> << <<8, 9, 20>>, <<6, 18, 38>>, <<0, 36, 47>>, <<2, 45, 11>>,
                         <<29, 26, 15>>, <<27, 44, 24>>, <<33, 53, 42>>, <<35, 17, 51>> >>[p + 1]]
CornerColors ==
    [c \in Corner |-> << <<U, R, F>>, <<U, F, L>>, <<U, L, B>>, <<U, B, R>>,
                         <<D, F, R>>, <<D, L, F>>, <<D, B, L>>, <<D, R, B>> >>[c + 1]]
EdgeFacelets ==
    [p \in Edge |-> << <<5, 10>>, <<7, 19>>, <<3, 37>>, <<1, 46>>, <<32, 16>>, <<28, 25>>,
                       <<30, 43>>, <<34, 52>>, <<23, 12>>, <<21, 41>>, <<50, 39>>, <<48, 14>> >>[p + 1]]
EdgeColors ==
    [e \in Edge |-> << <<U, R>>, <<U, F>>, <<U, L>>, <<U, B>>, <<D, R>>, <<D, F>>,
                       <<D, L>>, <<D, B>>, <<F, R>>, <<F, L>>, <<B, L>>, <<B, R>> >>[e + 1]]

Cubie == [cp : [Corner -> Corner], co : [Corner -> 0..2], ep : [Edge -> Edge], eo : [Edge -> 0..1]]

CubieOf(cp, co, ep, eo) ==
    [cp |-> Tabulated(cp), co |-> Tabulated(co), ep |-> Tabulated(ep), eo |-> Tabulated(eo)]

SolvedCubie ==
    CubieOf([p \in Corner |-> p], [p \in Corner |-> 0], [p \in Edge |-> p], [p \in Edge |-> 0])

-----------------------------------------------------------------------------
(* Validation. *)

\* parity: of the number of pairs out of order.
Parity(permutation) ==
    LET places == DOMAIN permutation
    IN  Cardinality({pair \in places \X places :
            pair[1] < pair[2] /\ permutation[pair[1]] > permutation[pair[2]]}) % 2

IsPermutation(f) == \A p, q \in DOMAIN f : p # q => f[p] # f[q]

Total(f) == FoldFunction(+, 0, f)

\* CubieCube::validate, in the order of its checks.
ErrorBarParity(c) ==                                       \* mutant: permutations of unlike parity pass
    CASE ~IsPermutation(c.cp) -> "InvalidCornerPermutation"
      [] OTHER -> CASE ~IsPermutation(c.ep) -> "InvalidEdgePermutation"
      [] OTHER -> CASE Total(c.co) % 3 # 0 -> "InvalidCornerOrientation"
      [] OTHER -> CASE Total(c.eo) % 2 # 0 -> "InvalidEdgeOrientation" [] OTHER -> "None"
CubieError(c) ==
    CASE ~IsPermutation(c.cp) -> "InvalidCornerPermutation"
      [] OTHER -> CASE ~IsPermutation(c.ep) -> "InvalidEdgePermutation"
      [] OTHER -> CASE Total(c.co) % 3 # 0 -> "InvalidCornerOrientation"
      [] OTHER -> CASE Total(c.eo) % 2 # 0 -> "InvalidEdgeOrientation"
      [] OTHER -> CASE Parity(c.cp) # Parity(c.ep) -> "InvalidParity"
      [] OTHER -> "None"

-----------------------------------------------------------------------------
(* Reading the cubies off the stickers. *)

ColorsAt(stickers, facelets) == [i \in DOMAIN facelets |-> stickers[facelets[i]]]

\* sameCornerCubie compares colours, not their order round the corner.
SameCornerCubie(a, b) == \A i \in DOMAIN a : \E j \in DOMAIN b : a[i] = b[j]

FirstOf(set) == CHOOSE x \in set : \A y \in set : x <= y

\* What the loops over the places find where they read some colours: which cubie, and how it is
\* turned.
CornerOf(colors) ==
    LET upDown == {i \in 1..3 : colors[i] \in {U, D}}
        cubies == {c \in Corner : SameCornerCubie(colors, CornerColors[c])}
    IN  CASE upDown = {} -> [error |-> "InvalidCornerOrientation"]
          [] upDown # {} /\ cubies = {} -> [error |-> "InvalidCornerPermutation"]
          [] OTHER -> [error |-> "None", cubie |-> FirstOf(cubies), turn |-> FirstOf(upDown) - 1]
CornerRead(stickers, p) == CornerOf(ColorsAt(stickers, CornerFacelets[p]))

EdgeOf(colors) ==
    LET edges == {e \in Edge : EdgeColors[e] \in {colors, Reverse(colors)}}
    IN  IF edges = {} THEN [error |-> "InvalidEdgePermutation"]
        ELSE LET e == FirstOf(edges)
             IN  [error |-> "None", cubie |-> e, turn |-> IF EdgeColors[e] = colors THEN 0 ELSE 1]
EdgeRead(stickers, p) == EdgeOf(ColorsAt(stickers, EdgeFacelets[p]))

\* CubieCube::fromStickers: the first place in error decides, then the whole is validated.
Judged(error, cube) == [error |-> error, cube |-> IF error = "None" THEN cube ELSE SolvedCubie]
Checked(cube) == Judged(CubieError(cube), cube)
Assembled(corners, edges) ==
    LET Bad(reads) == {p \in DOMAIN reads : reads[p].error # "None"}
        FirstError(reads) == reads[FirstOf(Bad(reads))].error
    IN  CASE Bad(corners) # {} -> Judged(FirstError(corners), SolvedCubie)
          [] Bad(corners) = {} /\ Bad(edges) # {} -> Judged(FirstError(edges), SolvedCubie)
          [] OTHER -> Checked(CubieOf([p \in Corner |-> corners[p].cubie], [p \in Corner |-> corners[p].turn],
                                      [p \in Edge |-> edges[p].cubie], [p \in Edge |-> edges[p].turn]))
FromStickers(stickers) ==
    Assembled(Tabulated([p \in Corner |-> CornerRead(stickers, p)]),
              Tabulated([p \in Edge |-> EdgeRead(stickers, p)]))

\* validateStickers, for a pattern of the six colours: how many of each, the centres, the cubies.
StickersError(stickers) ==
    CASE \E color \in Face : Cardinality({i \in Facelet : stickers[i] = color}) # 9 -> "InvalidColorCount"
      [] OTHER -> CASE \E face \in Face : stickers[face * 9 + 4] # face -> "InvalidCenterConfiguration"
      [] OTHER -> FromStickers(stickers).error

\* Cube::isSolved: every sticker has the colour of its face.
StickersSolved(stickers) == stickers = SolvedStickers

-----------------------------------------------------------------------------
(* Writing the stickers, and turning. *)

\* Where a facelet is: on which corner or edge place, and which of its stickers.
PlaceOf ==
    Tabulated([i \in Facelet |->
        LET corners == {at \in Corner \X (1..3) : CornerFacelets[at[1]][at[2]] = i}
            edges == {at \in Edge \X (1..2) : EdgeFacelets[at[1]][at[2]] = i}
            Of(kind, at) == [kind |-> kind, place |-> at[1], index |-> at[2]]
        IN  CASE corners # {} -> Of("corner", CHOOSE at \in corners : TRUE)
              [] edges # {} -> Of("edge", CHOOSE at \in edges : TRUE)
              [] OTHER -> Of("centre", <<0, 1>>)])

\* toCube: the colours of a cubie go round its place from the sticker its turn names.
Written(colors, turn, index) == colors[((index - 1 - turn + Len(colors)) % Len(colors)) + 1]

ToStickers(c) ==
    LET Colour(i) ==
            LET p == PlaceOf[i].place
                k == PlaceOf[i].index
            IN  CASE PlaceOf[i].kind = "corner" -> Written(CornerColors[c.cp[p]], c.co[p], k)
                  [] PlaceOf[i].kind = "edge" -> Written(EdgeColors[c.ep[p]], c.eo[p], k)
                  [] PlaceOf[i].kind = "centre" -> SolvedStickers[i]
    IN  Tabulated([i \in Facelet |-> Colour(i)])

\* moveTransform: the cubies of the solved cube after the move.
MoveTransform == Tabulated([move \in Move |-> FromStickers(Turned(SolvedStickers, move)).cube])

\* CubieCube::apply.
TransformedInPlace(c, t) ==                                \* mutant: the turn of the cubie that leaves
    CubieOf([p \in Corner |-> c.cp[t.cp[p]]], [p \in Corner |-> (c.co[p] + t.co[p]) % 3],
            [p \in Edge |-> c.ep[t.ep[p]]], [p \in Edge |-> (c.eo[p] + t.eo[p]) % 2])
Transformed(c, t) ==
    CubieOf([p \in Corner |-> c.cp[t.cp[p]]],
            [p \in Corner |-> (c.co[t.cp[p]] + t.co[p]) % 3],
            [p \in Edge |-> c.ep[t.ep[p]]],
            [p \in Edge |-> (c.eo[t.ep[p]] + t.eo[p]) % 2])
CubieTurned(c, move) == Transformed(c, MoveTransform[move])

\* applySymmetry of a cubie cube goes by way of the stickers.
CubieRotated(c, k) == FromStickers(Rotated(ToStickers(c), k)).cube
=============================================================================
