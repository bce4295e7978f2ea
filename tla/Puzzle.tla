------------------------------- MODULE Puzzle -------------------------------
(***************************************************************************)
(* The puzzle the searches work on, as they see it: cubes, moves with      *)
(* their inverses, faces and axes, and the canonical order of moves that   *)
(* solver.cpp, phase1.cpp and phase2.cpp each define for themselves in the *)
(* same words.                                                             *)
(***************************************************************************)
EXTENDS Integers, Sequences

CONSTANTS
    Cube, Solved,
    Move,
    Moved,      \* Moved[c][m]: cube c after move m
    InverseOf,  \* InverseOf[m]
    FaceOf,     \* FaceOf[m]: the face m turns
    AxisOf,     \* AxisOf[f]: the axis of face f
    FaceOrder   \* FaceOrder[f]: its place on that axis

ASSUME PuzzleAssumption ==
    /\ Solved \in Cube
    /\ Moved \in [Cube -> [Move -> Cube]]
    /\ InverseOf \in [Move -> Move]
    /\ \A c \in Cube, m \in Move : Moved[Moved[c][m]][InverseOf[m]] = c
    /\ DOMAIN FaceOf = Move
    /\ \A m \in Move : FaceOf[m] \in DOMAIN AxisOf /\ FaceOf[m] \in DOMAIN FaceOrder
    /\ \A f \in DOMAIN FaceOrder : FaceOrder[f] \in {0, 1}

\* With each move the moves have its inverse and, of two turns of a face, the turn they make.
Closed(moves) ==
    \A m \in moves :
        /\ InverseOf[m] \in moves
        /\ FaceOf[InverseOf[m]] = FaceOf[m]
        /\ \A k \in moves : FaceOf[m] = FaceOf[k] =>
              \A c \in Cube : \/ Moved[Moved[c][m]][k] = c
                             \/ \E turn \in moves : /\ FaceOf[turn] = FaceOf[m]
                                                   /\ Moved[Moved[c][m]][k] = Moved[c][turn]

\* What the canonical order rests on: two turns of a face are one or none, turns of two faces of
\* an axis commute, and an axis has a face of each order at most.
ASSUME TurnsAssumption ==
    /\ Closed(Move)
    /\ \A m, k \in Move : AxisOf[FaceOf[m]] = AxisOf[FaceOf[k]] =>
          /\ \A c \in Cube : Moved[Moved[c][m]][k] = Moved[Moved[c][k]][m]
          /\ FaceOrder[FaceOf[m]] = FaceOrder[FaceOf[k]] => FaceOf[m] = FaceOf[k]

Path == Seq(Move)

\* Cube::apply: cube c after the moves of p.
After(c, p) ==
    LET after[i \in 0 .. Len(p)] == IF i = 0 THEN c ELSE Moved[after[i - 1]][p[i]]
    IN after[Len(p)]

\* The cubes that n of the moves or fewer bring into goal: the reference for what
\* is shortest.
Ball(goal, moves, n) ==
    LET ball[k \in 0 .. n] ==
            IF k = 0 THEN goal
            ELSE LET inner == ball[k - 1]
                 IN inner \cup {Moved[c][InverseOf[m]] : c \in inner, m \in moves}
    IN ball[n]

Within(n) == Ball({Solved}, Move, n)

(* Slip: moves on the same axis are tried in neither order. *)
NoSameAxis(previous, m) == AxisOf[FaceOf[previous]] = AxisOf[FaceOf[m]]

\* Two turns of a face are one; turns of opposite faces commute.
IsRedundant(previous, m) ==
    \/ FaceOf[previous] = FaceOf[m]
    \/ /\ AxisOf[FaceOf[previous]] = AxisOf[FaceOf[m]]
       /\ FaceOrder[FaceOf[previous]] > FaceOrder[FaceOf[m]]
=============================================================================
