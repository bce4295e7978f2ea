--------------------------- MODULE MCSearchNodes ----------------------------
(* The solved cube and a scrambled one, patterns made from the solved one by exchanging     *)
(* stickers, and two moves from each.                                                       *)
EXTENDS SearchNodes

\* Each sticker of one sequence of places exchanged with that of another.
Exchange(places, with) ==
    [i \in Range(places) |-> with[CHOOSE k \in DOMAIN places : places[k] = i]]

Start(begin, kind, exchanged) == [moves |-> begin, kind |-> kind, exchanged |-> exchanged]
Scramble == <<3, 2, 7, 15, 13>>      \* R U' F2 B L2
Untouched == Exchange(<<>>, <<>>)

\* A corner, and how it is exchanged with another, turned in its place, or with two of its colours.
Corners == Exchange(<<8, 9, 20, 6, 18, 38>>, <<6, 18, 38, 8, 9, 20>>)
Twist == Exchange(<<8, 9, 20>>, <<9, 20, 8>>)
Twists == Exchange(<<8, 9, 20, 6, 18, 38>>, <<9, 20, 8, 38, 6, 18>>)
Mirror == Exchange(<<9, 20>>, <<20, 9>>)
Doubled == Exchange(<<20, 15>>, <<15, 20>>)

\* The same of edges; the edges of the slice exchanged crosswise; an edge's colour with a corner's.
Edges == Exchange(<<5, 10, 7, 19>>, <<7, 19, 5, 10>>)
Flip == Exchange(<<5, 10>>, <<10, 5>>)
Flips == Exchange(<<5, 10, 7, 19>>, <<10, 5, 19, 7>>)
Slice == Exchange(<<23, 12, 50, 39, 21, 41, 48, 14>>, <<50, 39, 23, 12, 48, 14, 21, 41>>)
Mixed == Exchange(<<9, 19>>, <<19, 9>>)
Both == Exchange(<<8, 9, 20, 6, 18, 38, 5, 10, 7, 19>>, <<6, 18, 38, 8, 9, 20, 7, 19, 5, 10>>)
Centre == Exchange(<<4, 13>>, <<13, 4>>)

Legal == {Twists, Flips, Slice, Both}
Mistake == {Corners, Twist, Edges, Flip, Mixed, Centre}
Miscoloured == {Mirror, Doubled}

AllStarts ==
    {Start(<<>>, "none", Untouched), Start(Scramble, "none", Untouched)}
    \cup {Start(<<>>, "legal", e) : e \in Legal}
    \cup {Start(<<>>, "mistake", e) : e \in Mistake}
    \cup {Start(<<>>, "miscoloured", e) : e \in Miscoloured}

\* The moves of the cube, and those of phase 2, do what Puzzle's TurnsAssumption and FastSolve's
\* FastAssumption say of them, with axisOf and faceOrder as solver.cpp has them.
Through(m, k) == Tabulated([i \in Facelet |-> MoveSources[m][MoveSources[k][i]]])
Untouching == [i \in Facelet |-> i]
AxisOfFace(face) == face % 3
OrderOfFace(face) == face \div 3

TurnsClosed(moves) ==
    \A m \in moves :
        /\ Inverted(m) \in moves
        /\ FaceOf(Inverted(m)) = FaceOf(m)
        /\ Through(m, Inverted(m)) = Untouching
        /\ \A k \in moves : FaceOf(m) = FaceOf(k) =>
              \/ Through(m, k) = Untouching
              \/ \E turn \in moves : FaceOf(turn) = FaceOf(m) /\ Through(m, k) = MoveSources[turn]

ASSUME TurnsOfTheCube ==
    /\ TurnsClosed(Move)
    /\ TurnsClosed(Phase2Move)
    /\ \A m, k \in Move : AxisOfFace(FaceOf(m)) = AxisOfFace(FaceOf(k)) =>
          /\ Through(m, k) = Through(k, m)
          /\ OrderOfFace(FaceOf(m)) = OrderOfFace(FaceOf(k)) => FaceOf(m) = FaceOf(k)

\* The labels of the patterns are true: a legal one shows one cube, which is physical; a mistake shows
\* no cube at all, or one edge twice, or one cube, which is not physical.
CornersShown(s, p) == {at \in Corner \X (0..2) : ShowsCorner(s, p, at[1], at[2])}
EdgesShown(s, p) == {at \in Edge \X (0..1) : ShowsEdge(s, p, at[1], at[2])}
ShowsNone(s) ==
    \/ ~ShowsCentres(s)
    \/ \E p \in Corner : CornersShown(s, p) = {}
    \/ \E p \in Edge : EdgesShown(s, p) = {}
ShowsTwice(s) ==
    \E p, q \in Edge, e \in Edge :
        p # q /\ \A at \in EdgesShown(s, p) \cup EdgesShown(s, q) : at[1] = e
ShowsOne(s) ==
    /\ \A p \in Corner : Cardinality(CornersShown(s, p)) = 1
    /\ \A p \in Edge : Cardinality(EdgesShown(s, p)) = 1
CubeShown(s) ==
    LET CornerAt(p) == CHOOSE at \in CornersShown(s, p) : TRUE
        EdgeAt(p) == CHOOSE at \in EdgesShown(s, p) : TRUE
    IN  CubieOf([p \in Corner |-> CornerAt(p)[1]], [p \in Corner |-> CornerAt(p)[2]],
                [p \in Edge |-> EdgeAt(p)[1]], [p \in Edge |-> EdgeAt(p)[2]])

ASSUME KindsOfTheStarts ==
    \A begin \in AllStarts :
        LET s == Entered(begin)
        IN  /\ begin.kind \in {"none", "legal"} =>
                  ShowsOne(s) /\ Physical(CubeShown(s)) /\ s = ToStickers(CubeShown(s))
            /\ begin.kind = "mistake" =>
                  ShowsNone(s) \/ ShowsTwice(s) \/ (ShowsOne(s) /\ ~Physical(CubeShown(s)))
            /\ begin.kind \in {"none", "legal", "mistake", "miscoloured"}
=============================================================================
