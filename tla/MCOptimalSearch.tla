--------------------------- MODULE MCOptimalSearch ---------------------------
(* The optimal mode on the small puzzle of MCPuzzle. *)
EXTENDS MCPuzzle, OptimalSearch

\* One entry of the pruning table is lost to a hole in the cache file (TableCache):
\* the bound is admissible, neither exact nor consistent.
HoledBound == [c \in MCCube |-> IF Corners[c] = <<2, 5>> THEN 0 ELSE MCBound[c]]

\* Cubes one to four moves from the goal, with a depth that suffices and
\* one that does not; the turns of U and D commute in 32.
Near == {2, 31, 96, 8, 25, 32, 66, 93}
MCRequests ==
    [start : Near, depth : {1, 3}, radius : {0, 2}, split : 0 .. 2, timed : {FALSE}]
    \cup [start : {5, 18, 27}, depth : {2, 4}, radius : {0, 2}, split : {0, 1}, timed : {FALSE}]
    \cup [start : {5, 18, 17}, depth : {4}, radius : {2}, split : {2}, timed : {FALSE}]
    \cup [start : {8}, depth : {3}, radius : {0, 2}, split : 0 .. 2, timed : {TRUE}]
=============================================================================
