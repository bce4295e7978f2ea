----------------------------- MODULE MCFastSolve -----------------------------
(* The fast mode on the small puzzle of MCPuzzle. *)
EXTENDS MCPuzzle, FastSolve

MCQuickLimit == [p \in Profile |-> IF p = "Performance" THEN 2 ELSE 1]
MCFullLimit == [p \in Profile |-> IF p = "Performance" THEN 4 ELSE 3]
MCWidth == [Embedded |-> 2, Default |-> 4, Performance |-> 12]

\* The requests: cubes at every distance, some in G1; a depth that just suffices
\* and one that does not; a face blocked, and the one across the axis.
Starts == {7, 27, 40, 42, 63, 70, 91}
MCRequests ==
    [start : Starts, depth : {3, 5}, profile : Profile, blocked : {{}, {"D"}, {"R"}},
     timed : {TRUE}]
    \cup [start : Starts, depth : {5}, profile : {"Default"}, blocked : {{}, {"U", "D"}},
          timed : {FALSE}]
=============================================================================
