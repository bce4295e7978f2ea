--------------------------- MODULE MCPruningBuild ----------------------------
(* The builders on the tables of MCCoordinates, each by another name: TLC keeps the value of a  *)
(* definition it reads, not of one it puts in place of a constant.                              *)
EXTENDS MCCoordinates, CubeFacts, PruningBuild

MCJob == Tables
MCSize == ValueCount
MCEntries == EntryCount
MCEntryOf == OrbitOf
MCNeighbours == NeighboursOf
MCFollow == FollowOf
MCDistance == DistanceOf

\* The rotations and the exchange lose nothing here: only values equally far share an orbit.
ASSUME \A j \in MCJob : Uniform(j)
=============================================================================
