------------------------------ MODULE Facelets ------------------------------
(***************************************************************************)
(* The cube as 54 stickers (src/src/cube.cpp), the face turns              *)
(* (src/src/move.cpp) and the 24 rotations of the whole cube               *)
(* (src/src/symmetry.cpp), at their real size.                             *)
(*                                                                         *)
(* A colour is named by the face whose centre carries it, in the order     *)
(* U, R, F, D, L, B of solved_colors; a vector is a triple <<x, y, z>>; a  *)
(* pattern of stickers is a function on 0..53.  Everything here is a       *)
(* constant of the program, so TLC computes each table once.               *)
(***************************************************************************)
EXTENDS Integers, Sequences, FiniteSets, FiniteSetsExt, TLC

U == 0
R == 1
F == 2
D == 3
L == 4
B == 5
Face == 0..5
Facelet == 0..53

\* The function f itself.  TLC leaves a function unevaluated where it is applied; to compare it,
\* it computes the values, once.
Tabulated(f) == CHOOSE g \in {f} : g = f

\* Where the sticker of a face in a row and a column sits, and which way it looks.
StickerGeometry(face, row, col) ==
    LET a == col - 1
        b == 1 - row
        At(position, normal) == [position |-> position, normal |-> normal]
    IN  CASE face = U -> At(<<a, 1, row - 1>>, <<0, 1, 0>>)
          [] face = R -> At(<<1, b, 1 - col>>, <<1, 0, 0>>)
          [] face = F -> At(<<a, b, 1>>, <<0, 0, 1>>)
          [] face = D -> At(<<a, -1, 1 - row>>, <<0, -1, 0>>)
          [] face = L -> At(<<-1, b, col - 1>>, <<-1, 0, 0>>)
          [] face = B -> At(<<1 - col, b, -1>>, <<0, 0, -1>>)

Geometry == Tabulated([i \in Facelet |-> StickerGeometry(i \div 9, (i % 9) \div 3, i % 3)])

FaceFromNormal(n) ==
    CASE n[2] = 1 -> U [] n[1] = 1 -> R [] n[3] = 1 -> F
      [] n[2] = -1 -> D [] n[1] = -1 -> L [] OTHER -> B

IndexFromGeometry(sticker) ==
    LET x == sticker.position[1]
        y == sticker.position[2]
        z == sticker.position[3]
        face == FaceFromNormal(sticker.normal)
        row == CASE face = U -> z + 1 [] face = D -> 1 - z [] OTHER -> 1 - y
        col == CASE face \in {U, F, D} -> x + 1 [] face = R -> 1 - z
                 [] face = L -> z + 1 [] face = B -> 1 - x
    IN  face * 9 + row * 3 + col

-----------------------------------------------------------------------------
(* The turns. *)

RotateClockwise(v, face) ==
    LET x == v[1]
        y == v[2]
        z == v[3]
    IN  CASE face = U -> <<z, y, -x>> [] face = D -> <<-z, y, x>>
          [] face = R -> <<x, -z, y>> [] face = L -> <<x, z, -y>>
          [] face = F -> <<y, -x, z>> [] face = B -> <<-y, x, z>>

InTurnLayer(sticker, face) ==
    LET normal == StickerGeometry(face, 1, 1).normal
    IN  \E axis \in 1..3 : normal[axis] # 0 /\ sticker.position[axis] = normal[axis]

\* Where each facelet's sticker comes from, when f says where each goes.
Sources(f) ==
    LET target == Tabulated(f)
    IN  Tabulated([i \in Facelet |-> CHOOSE source \in Facelet : target[source] = i])

\* permutationFor: for each face, the facelet whose sticker a quarter turn brings to each place.
QuarterTurnSources ==
    Tabulated([face \in Face |->
        Sources([source \in Facelet |->
            LET sticker == Geometry[source]
            IN  IF InTurnLayer(sticker, face)
                THEN IndexFromGeometry([position |-> RotateClockwise(sticker.position, face),
                                        normal |-> RotateClockwise(sticker.normal, face)])
                ELSE source])])

\* The eighteen moves, numbered as Move is: three for each face, by quarter turns.
Move == 0..17
FaceOf(move) == move \div 3
QuarterTurns(move) == (move % 3) + 1
Inverted(move) == 3 * FaceOf(move) + 2 - (move % 3)

Repeated(sources, turns) ==
    Tabulated([i \in Facelet |->
        CASE turns = 1 -> sources[i]
          [] turns = 2 -> sources[sources[i]]
          [] turns = 3 -> sources[sources[sources[i]]]])

MoveSources ==
    Tabulated([move \in Move |-> Repeated(QuarterTurnSources[FaceOf(move)], QuarterTurns(move))])

SolvedStickers == [i \in Facelet |-> i \div 9]

Turned(stickers, move) == Tabulated([i \in Facelet |-> stickers[MoveSources[move][i]]])

-----------------------------------------------------------------------------
(* The rotations of the whole cube: signed permutation matrices of determinant 1. *)

AxisPermutations == << <<1, 2, 3>>, <<1, 3, 2>>, <<2, 1, 3>>, <<2, 3, 1>>, <<3, 1, 2>>, <<3, 2, 1>> >>
DeterminantSign(axes) ==
    IF Cardinality({p \in (1..3) \X (1..3) : p[1] < p[2] /\ axes[p[1]] > axes[p[2]]}) % 2 = 0
    THEN 1 ELSE -1

SignTriples == [k \in 0..7 |-> << 2 * (k \div 4) - 1, 2 * ((k \div 2) % 2) - 1, 2 * (k % 2) - 1 >>]

\* A symmetry: row i of the matrix has signs[i] in column axes[i].
Identity == [axes |-> <<1, 2, 3>>, signs |-> <<1, 1, 1>>]

\* buildSymmetries: in order of permutation, then of signs; the identity is then swapped to place 0.
Symmetries ==
    LET Candidate(k) == [axes |-> AxisPermutations[k \div 8 + 1], signs |-> SignTriples[k % 8]]
        Proper(s) == DeterminantSign(s.axes) * s.signs[1] * s.signs[2] * s.signs[3] = 1
        listed == SelectSeq(Tabulated([k \in 1..48 |-> Candidate(k - 1)]), Proper)
        identityAt == CHOOSE k \in 1..24 : listed[k] = Identity
    IN  Tabulated([k \in 0..23 |-> IF k = 0 THEN Identity
                                   ELSE IF k + 1 = identityAt THEN listed[1] ELSE listed[k + 1]])

RotatedVector(s, v) == [i \in 1..3 |-> s.signs[i] * v[s.axes[i]]]

MatrixEntry(s, row, col) == IF s.axes[row] = col THEN s.signs[row] ELSE 0

PreservesUdSlice(k) == MatrixEntry(Symmetries[k], 2, 2) # 0

\* applySymmetry: the stickers move with the cube, and each colour becomes that of the face its
\* own face is carried to.
ColorMap == Tabulated([k \in 0..23 |-> Tabulated([face \in Face |->
    FaceFromNormal(RotatedVector(Symmetries[k], StickerGeometry(face, 1, 1).normal))])])

SymmetrySources == Tabulated([k \in 0..23 |-> Sources([source \in Facelet |->
    IndexFromGeometry([position |-> RotatedVector(Symmetries[k], Geometry[source].position),
                       normal |-> RotatedVector(Symmetries[k], Geometry[source].normal)])])])

Rotated(stickers, k) == Tabulated([i \in Facelet |-> ColorMap[k][stickers[SymmetrySources[k][i]]]])
=============================================================================
