------------------------ MODULE MCParallelRootSearch ------------------------
(***************************************************************************)
(* Small calls: up to three tasks of at most two nodes, up to two or three *)
(* threads; for the deep split, tasks that share a root.                   *)
(***************************************************************************)
EXTENDS ParallelRootSearch

Shapes == {<<1, 0>>, <<2, 0>>, <<1, 1>>, <<2, 2>>}

Lists(n) == [1 .. n -> Shapes]

TasksOf(shapes, roots) ==
    [i \in DOMAIN shapes |->
        [size |-> shapes[i][1], solvedAt |-> shapes[i][2], root |-> roots[i]]]

RootSplit(n) ==
    {[tasks |-> TasksOf(l, [i \in 1 .. n |-> i]), deep |-> FALSE,
      threads |-> k, rootSolved |-> FALSE] :
        l \in Lists(n), k \in 2 .. MaxThreads}

\* Two tasks under the first root, one under the second.
DeepSplit ==
    {[tasks |-> TasksOf(l, <<1, 1, 2>>), deep |-> TRUE,
      threads |-> k, rootSolved |-> FALSE] :
        l \in Lists(3), k \in 2 .. MaxThreads}

SolvedRoot ==
    {[tasks |-> TasksOf(<< <<1, 0>> >>, <<1>>), deep |-> d,
      threads |-> 2, rootSolved |-> TRUE] : d \in BOOLEAN}

MCCalls == UNION {RootSplit(n) : n \in 0 .. 3} \cup DeepSplit \cup SolvedRoot
=============================================================================
