---------------------------- MODULE SearchNodes -----------------------------
(***************************************************************************)
(* From the stickers a caller enters to the nodes the searches walk over   *)
(* (src/src/solver.cpp, phase2.cpp, over cube.cpp, cubie_cube.cpp,         *)
(* coordinates.cpp and move_tables.cpp).                                   *)
(*                                                                         *)
(* The stickers are validated, parsed into cubies and encoded into the     *)
(* coordinates of a root node; a move then turns the cubies and, apart     *)
(* from them, takes every coordinate through its move table.  Two further  *)
(* sets of phase-1 coordinates are those of the cube seen along the other  *)
(* two axes.  The caller's cube is turned by the same moves, as a solution *)
(* is tried out on it.  In the group the second phase works in, the walk   *)
(* may go on from a node of that phase.                                    *)
(***************************************************************************)
EXTENDS LowerBounds

CONSTANTS Starts,     \* what a caller may enter: [moves, kind, exchanged]
          MaxMoves,   \* bound: moves walked from a cube entered as it came from the moves
          None

ASSUME StartsAssumption ==
    \A begin \in Starts :
        /\ begin.moves \in Seq(Move)
        /\ DOMAIN begin.exchanged \subseteq Facelet
        /\ \A i \in DOMAIN begin.exchanged : begin.exchanged[i] \in Facelet
        /\ begin.kind = "none" => DOMAIN begin.exchanged = {}
ASSUME MaxMovesAssumption == MaxMoves \in Nat

VARIABLES start,         \* what was entered, and how: the properties refer to it
          callerCube,    \* the stickers of the caller's cube
          verdict,       \* what validation said, "unchecked" before
          searchNode,    \* the SearchNode, None before the search starts
          phase2Node,    \* the Phase2Node, None in the first phase
          moveCount      \* how many moves were walked

vars == <<start, callerCube, verdict, searchNode, phase2Node, moveCount>>

\* The stickers of the moves applied to the solved cube, those of start.exchanged then taken from
\* other places: "none" a cube as it came, "legal" one taken apart and put together right, other
\* kinds a mistake.
Entered(begin) ==
    LET turned[n \in 0..Len(begin.moves)] ==
            IF n = 0 THEN SolvedStickers ELSE Turned(turned[n - 1], begin.moves[n])
        from == begin.exchanged
    IN  Tabulated([i \in Facelet |->
            turned[Len(begin.moves)][IF i \in DOMAIN from THEN from[i] ELSE i]])

-----------------------------------------------------------------------------
(* Nodes. *)

Phase1Coordinates(c) == [name \in {"cornerOrientation", "edgeOrientation", "sliceEdges"} |-> Encoded(name, c)]

MakeExtraPhase1DirectionCoordinates(c) ==
    [d \in 1..2 |-> Phase1Coordinates(CubieRotated(c, DirectionSymmetry[d]))]

MakeSearchNode(c) ==
    [cube |-> c,
     cornerOrientation |-> CornerOrientation(c),
     edgeOrientation |-> EdgeOrientation(c),
     sliceEdges |-> SliceEdges(c),
     cornerPermutation |-> CornerPermutation(c),
     upEdgePermutation |-> UpEdgePermutation(c),
     downEdgePermutation |-> DownEdgePermutation(c),
     extra |-> MakeExtraPhase1DirectionCoordinates(c)]

MovedPhase1Coordinates(coordinates, move) ==
    [name \in DOMAIN coordinates |-> MovedCoordinate(name, coordinates[name], move)]

UnturnedDirections(n, move) ==                             \* mutant: the move as seen from above
    [d \in 1..2 |-> MovedPhase1Coordinates(n.extra[d], move)]
MovedExtraPhase1Directions(n, move) ==
    [d \in 1..2 |-> MovedPhase1Coordinates(n.extra[d], DirectionMove[d][move])]

\* Each coordinate has a move table of its own; the cube is turned beside them.
Moved(n, move) ==
    [n EXCEPT !.cube = CubieTurned(n.cube, move),
              !.cornerOrientation = MovedCoordinate("cornerOrientation", @, move),
              !.edgeOrientation = MovedCoordinate("edgeOrientation", @, move),
              !.sliceEdges = MovedCoordinate("sliceEdges", @, move),
              !.cornerPermutation = MovedCoordinate("cornerPermutation", @, move),
              !.upEdgePermutation = MovedCoordinate("upEdgePermutation", @, move),
              !.downEdgePermutation = MovedCoordinate("downEdgePermutation", @, move),
              !.extra = MovedExtraPhase1Directions(n, move)]

Phase1Solved(n) == n.cornerOrientation = 0 /\ n.edgeOrientation = 0 /\ n.sliceEdges = 0

MakePhase2Node(c) ==
    [cube |-> c,
     cornerPermutation |-> CornerPermutation(c),
     upEdgePermutation |-> UpEdgePermutation(c),
     downEdgePermutation |-> DownEdgePermutation(c),
     sliceEdgePermutation |-> SliceEdgePermutation(c)]

MovedPhase2(n, move) ==
    [n EXCEPT !.cube = CubieTurned(n.cube, move),
              !.cornerPermutation = MovedCoordinate("cornerPermutation", @, move),
              !.upEdgePermutation = MovedCoordinate("upEdgePermutation", @, move),
              !.downEdgePermutation = MovedCoordinate("downEdgePermutation", @, move),
              !.sliceEdgePermutation = MovedCoordinate("sliceEdgePermutation", @, move)]

Phase2Solved(n) ==
    /\ n.cornerPermutation = 0 /\ n.upEdgePermutation = 0
    /\ n.downEdgePermutation = 0 /\ n.sliceEdgePermutation = 0

-----------------------------------------------------------------------------
Init ==
    /\ start \in Starts
    /\ callerCube = Entered(start)
    /\ verdict = "unchecked"
    /\ searchNode = None
    /\ phase2Node = None
    /\ moveCount = 0

\* Cube::validate, which every entry point asks first.
Validate ==
    /\ verdict = "unchecked"
    /\ verdict' = StickersError(callerCube)
    /\ UNCHANGED <<start, callerCube, searchNode, phase2Node, moveCount>>

\* A search of a valid cube parses it and makes the root.
StartSearch ==
    /\ verdict = "None"
    /\ searchNode = None
    /\ searchNode' = MakeSearchNode(FromStickers(callerCube).cube)
    /\ UNCHANGED <<start, callerCube, verdict, phase2Node, moveCount>>

\* Bound: a cube entered with an exchange is walked one move.
CanMove == moveCount < IF start.kind = "none" THEN MaxMoves ELSE 1

ApplyMove(move) ==
    /\ searchNode # None
    /\ phase2Node = None
    /\ CanMove
    /\ searchNode' = Moved(searchNode, move)
    /\ callerCube' = Turned(callerCube, move)
    /\ moveCount' = moveCount + 1
    /\ UNCHANGED <<start, verdict, phase2Node>>

\* The second phase is given the cube the first one led to, and parses it anew.
StartPhase2 ==
    /\ searchNode # None
    /\ phase2Node = None
    /\ Phase1Solved(searchNode)
    /\ phase2Node' = MakePhase2Node(FromStickers(callerCube).cube)
    /\ UNCHANGED <<start, callerCube, verdict, searchNode, moveCount>>

\* The node of the first phase goes along, to compare the two.
ApplyPhase2Move(move) ==
    /\ phase2Node # None
    /\ CanMove
    /\ phase2Node' = MovedPhase2(phase2Node, move)
    /\ searchNode' = Moved(searchNode, move)
    /\ callerCube' = Turned(callerCube, move)
    /\ moveCount' = moveCount + 1
    /\ UNCHANGED <<start, verdict>>

Next ==
    \/ Validate
    \/ StartSearch
    \/ \E move \in Move : ApplyMove(move)
    \/ StartPhase2
    \/ \E move \in Phase2Move : ApplyPhase2Move(move)

Spec == Init /\ [][Next]_vars

-----------------------------------------------------------------------------
(* Properties. *)

\* Every coordinate stays within the table it is used to look up (the arrays are not checked).
TypeOK ==
    /\ start \in Starts
    /\ callerCube \in [Facelet -> Face]
    /\ verdict \in {"unchecked", "None", "InvalidColorCount", "InvalidCenterConfiguration",
                  "InvalidCornerPermutation", "InvalidCornerOrientation",
                  "InvalidEdgePermutation", "InvalidEdgeOrientation", "InvalidParity"}
    /\ moveCount \in 0..Larger(MaxMoves, 1)
    /\ searchNode # None =>
         /\ searchNode.cube \in Cubie
         /\ \A name \in Coordinate \cap DOMAIN searchNode : searchNode[name] \in 0..Count[name] - 1
         /\ \A d \in 1..2 : \A name \in DOMAIN searchNode.extra[d] : searchNode.extra[d][name] \in 0..Count[name] - 1
    /\ phase2Node # None =>
         \A name \in Coordinate \cap DOMAIN phase2Node : phase2Node[name] \in 0..Count[name] - 1

\* Turning the cubies and turning the stickers commute: after any moves the parse of the caller's
\* cube is the cube of the node, and no turn makes an accepted cube one validation would refuse
\* (CubieCube::apply beside Cube::apply).
CubieFollowsStickers ==
    searchNode # None => FromStickers(callerCube) = [error |-> "None", cube |-> searchNode.cube]

\* A node reached by moves is the node its cube would be given anew (movedCoordinates, moved of
\* phase 2): the move tables, whose entries are computed on other cubes, the representatives, never
\* lead a coordinate away from the cube; nor do the rotated moves those along the other two axes,
\* for which the cube itself is never rotated again.  And the rotated cube, whose parse is only
\* asserted, is one a parse accepts.
CoordinatesFollowCube ==
    /\ searchNode # None =>
         /\ searchNode = MakeSearchNode(searchNode.cube)
         /\ \A d \in 1..2 : FromStickers(Rotated(ToStickers(searchNode.cube), DirectionSymmetry[d])).error = "None"
    /\ phase2Node # None => phase2Node = MakePhase2Node(searchNode.cube)

\* No lookup promises more moves than are needed: of a cube that was moved n times from the solved
\* one, no bound of any profile is above n, and no test prunes it that has n moves left; so a
\* search never loses its shortest solution.  The four coordinates of the second phase are zero for
\* the solved cube only, its bound is zero there, and the bound its moves are ordered by is never
\* above the one they are pruned by.
PruningIsSafe ==
    LET walked == Len(start.moves) + moveCount
    IN  /\ searchNode # None /\ start.kind = "none" =>
             /\ \A profile \in Profile :
                  /\ NodeLowerBound(searchNode, profile) <= walked
                  /\ \A pruneAbove \in walked..Radius : ~Pruned(searchNode, profile, pruneAbove)
             /\ Phase1LowerBound(searchNode) <= walked
        /\ phase2Node # None =>
             /\ Phase2Solved(phase2Node) = (searchNode.cube = SolvedCubie)
             /\ Phase2Solved(phase2Node) => Phase2LowerBound(phase2Node) = 0
             /\ NodePhase2OrderingLowerBound(searchNode) \in 0..Phase2LowerBound(phase2Node)

\* One move takes no more than one from a bound, of any profile and in either phase, from whatever
\* cube: a child pruned at the next limit but one could not have been the only way to the goal.
BoundsAreConsistent ==
    [][moveCount' = moveCount + 1 =>
        /\ \A profile \in Profile : NodeLowerBound(searchNode, profile) <= NodeLowerBound(searchNode', profile) + 1
        /\ Phase1LowerBound(searchNode) <= Phase1LowerBound(searchNode') + 1
        /\ phase2Node # None => Phase2LowerBound(phase2Node) <= Phase2LowerBound(phase2Node') + 1]_vars

\* What an accepted pattern is parsed to keeps the edges, the centres and the up and down stickers of
\* the corners, though a corner may have been entered with two colours of another
\* (CubieCube::fromStickers); turning loses none of it.
ParseKeepsStickers ==
    searchNode # None =>
         LET written == ToStickers(searchNode.cube)
         IN  \A i \in Facelet : written[i] # callerCube[i] =>
                 PlaceOf[i].kind = "corner" /\ {written[i], callerCube[i]} \cap {U, D} = {}

\* A cube put together as the moves leave it: every cubie has one place, the twists and the flips
\* cancel, and the corners are in an even order when the edges are.
Physical(c) ==
    /\ c \in Cubie
    /\ IsPermutation(c.cp) /\ IsPermutation(c.ep)
    /\ Total(c.co) % 3 = 0 /\ Total(c.eo) % 2 = 0
    /\ Parity(c.cp) = Parity(c.ep)

\* What a place of a pattern can be taken for.  The order of the colours round a corner is not looked
\* at, only where the one of U or D is.
ShowsCorner(stickers, p, c, turn) ==
    /\ stickers[CornerFacelets[p][turn + 1]] = CornerColors[c][1]
    /\ \A i \in 1..3 : \E k \in 1..3 : stickers[CornerFacelets[p][i]] = CornerColors[c][k]
ShowsEdge(stickers, p, e, turn) ==
    \A i \in 1..2 : stickers[EdgeFacelets[p][i]] = Written(EdgeColors[e], turn, i)
ShowsCentres(stickers) == \A face \in Face : stickers[face * 9 + 4] = face

\* Of the patterns a caller may enter, those of a cube that can be turned to the solved one are
\* accepted, and a twisted corner, a flipped edge, two cubies exchanged or a centre out of place
\* are not (Cube::validate).  Corners with the wrong colours have a property of their own; of all
\* others a cube is solved by its stickers exactly when it is by its cubies.
EntriesJudged ==
    /\ verdict # "unchecked" /\ start.kind # "miscoloured" =>
         (verdict = "None") = (start.kind \in {"none", "legal"})
    /\ ParseKeepsStickers
    /\ searchNode # None /\ start.kind # "miscoloured" =>
         StickersSolved(callerCube) = (searchNode.cube = SolvedCubie)

\* README.md:440 says fromStickers validates the corner cubies: a pattern it accepts is one the
\* cubies it parsed to can show.
AcceptedIsPhysical ==
    searchNode # None => ToStickers(searchNode.cube) = callerCube
=============================================================================
