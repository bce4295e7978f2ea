------------------------------ MODULE MCPuzzle ------------------------------
(***************************************************************************)
(* A small puzzle for TLC with all the searches rely on: two faces on one  *)
(* axis whose turns commute, U (of three places, two turns) and D (of two  *)
(* places), and a face R across them with three turns.  R's half turn, U   *)
(* and D generate G1, the 12 cubes that keep U's pieces in U's places.     *)
(* The cubes are the permutations of five places, numbered from 1 for the  *)
(* solved one.  TLC evaluates these values before the modules that use     *)
(* them when this module comes first among those extended.                 *)
(***************************************************************************)
EXTENDS Integers, Sequences, FiniteSetsExt, Functions, TLC

Places == 1 .. 5
Arrangements == Permutations(Places)
Digits(c) == 10000 * c[1] + 1000 * c[2] + 100 * c[3] + 10 * c[4] + c[5]
NumberOf == [c \in Arrangements |-> Cardinality({d \in Arrangements : Digits(d) <= Digits(c)})]

MCCube == 1 .. 120
MCSolved == 1
Arrangement == [n \in MCCube |-> CHOOSE c \in Arrangements : NumberOf[c] = n]

\* U, U', D, R, R2, R' in the order of enum Move: for each place, whose piece
\* comes there.
MCMove == 1 .. 6
Turn ==
    <<<<2, 3, 1, 4, 5>>, <<3, 1, 2, 4, 5>>, <<1, 2, 3, 5, 4>>,
      <<4, 5, 3, 2, 1>>, <<2, 1, 3, 5, 4>>, <<5, 4, 3, 1, 2>>>>
MCMoved ==
    [n \in MCCube |-> [m \in MCMove |-> NumberOf[[i \in Places |-> Arrangement[n][Turn[m][i]]]]]]
MCInverseOf == <<2, 1, 3, 6, 5, 4>>
MCFaceOf == <<"U", "U", "D", "R", "R", "R">>
MCAxisOf == [U |-> 0, D |-> 0, R |-> 1]
MCFaceOrder == [U |-> 0, D |-> 1, R |-> 0]

Up == {1, 2, 3}
MCG1 == {c \in MCCube : \A i \in Up : Arrangement[c][i] \in Up}
MCPhase2Move == {1, 2, 3, 5}

\* The place of a piece in each cube.
Place(piece) == [n \in MCCube |-> CHOOSE i \in Places : Arrangement[n][i] = piece]

\* Distances to a goal by some moves, layer by layer; Far is
\* further than any.
Far == 20
Distances(goal, moves) ==
    LET layers[n \in 0 .. Far] ==
            IF n = 0 THEN <<goal>>
            ELSE LET before == layers[n - 1]
                     next == {c \in MCCube : \E m \in moves : MCMoved[c][m] \in before[n]}
                 IN Append(before, next \ UNION Range(before))
        all == layers[Far]
    IN [c \in MCCube |-> IF \E n \in 0 .. Far : c \in all[n + 1]
                           THEN CHOOSE n \in 0 .. Far : c \in all[n + 1] ELSE Far]

\* A pruning table: it sees of a cube its coordinate only, and knows the distance
\* of the nearest cube that has the same.
Pruning(distance, coordinate) ==
    LET table == [x \in Range(coordinate) |-> Min({distance[c] : c \in {d \in MCCube : coordinate[d] = x}})]
    IN [c \in MCCube |-> table[coordinate[c]]]

Distance == Distances({MCSolved}, MCMove)
Phase1Distance == Distances(MCG1, MCMove)
Phase2Distance == Distances({MCSolved}, MCPhase2Move)

\* nodeLowerBound sees the places of two pieces, phase 1 where a piece of D is,
\* phase 2 the two pieces again, the order of its candidates only one.
Corners == [c \in MCCube |-> <<Place(1)[c], Place(4)[c]>>]
MCBound == Pruning(Distance, Corners)
MCPhase1Bound == Pruning(Phase1Distance, Place(4))
MCPhase2Bound == Pruning(Phase2Distance, Corners)
MCCandidateBound == Pruning(Phase2Distance, Place(1))
=============================================================================
