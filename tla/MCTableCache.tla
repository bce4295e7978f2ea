---------------------------- MODULE MCTableCache ----------------------------
(***************************************************************************)
(* A table of two states at distances 1 and 2, so that a hole, which reads *)
(* as zero, differs from every true entry.                                 *)
(***************************************************************************)
EXTENDS TableCache
MCDistance == <<1, 2>>
MCInode == 0 .. 4
=============================================================================
