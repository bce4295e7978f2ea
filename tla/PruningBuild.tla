---------------------------- MODULE PruningBuild -----------------------------
(***************************************************************************)
(* How a pruning table is computed: breadth first from the solved value    *)
(* (buildPruningTable, buildCombinedPruningTable and                       *)
(* buildPhase2CombinedPruningTable of src/src/pruning_tables.cpp,          *)
(* slicePermutationDistances of src/src/phase2.cpp, and the reduced tables *)
(* of src/src/symmetry_pruning.cpp, whose entries are orbits of values).   *)
(*                                                                         *)
(* A behaviour builds one table.  Its entries are bytes, 255 those not     *)
(* reached yet, so a distance has to stay below 255.                       *)
(***************************************************************************)
EXTENDS Integers, Sequences, Functions

CONSTANTS
    Job,          \* the tables
    Size,         \* for each, the number of coordinate values
    Entries,      \* and of entries
    EntryOf,      \* the entry of a value: itself, or its orbit
    Neighbours,   \* the values a value is moved to, in the order of the moves
    Follow,       \* the entries the builder looks at from an entry, in its order
    Distance      \* how many moves a value is from the solved one; 255 if no moves lead there

Unvisited == 255
Byte == 0..255
Value(j) == 0..Size[j] - 1
Entry(j) == 0..Entries[j] - 1
Start(j) == EntryOf[j][0]

\* The entries of values that can be solved at all.
Reachable(j) == {EntryOf[j][v] : v \in {w \in Value(j) : Distance[j][w] # Unvisited}}

\* No entry holds values of different distances: always so when each value has its own entry.
Uniform(j) == \A v, w \in Value(j) : EntryOf[j][v] = EntryOf[j][w] => Distance[j][v] = Distance[j][w]

ASSUME TableAssumption ==
    \A j \in Job :
        /\ Size[j] \in Nat \ {0}
        /\ Entries[j] \in Nat
        /\ EntryOf[j] \in [Value(j) -> Entry(j)]
        /\ Neighbours[j] \in [Value(j) -> Seq(Value(j))]
        /\ Follow[j] \in [Entry(j) -> Seq(Entry(j))]

\* The builder looks at the entries of all the values an entry's values are moved to, and at no
\* other; from an entry with a value that can be solved it gets to such entries only.
LedTo(j, v) == {EntryOf[j][n] : n \in Range(Neighbours[j][v])}
ValuesOf(j, e) == {v \in Value(j) : EntryOf[j][v] = e}

ASSUME FollowAssumption ==
    \A j \in Job :
        /\ \A e \in Entry(j) : Range(Follow[j][e]) = UNION {LedTo(j, v) : v \in ValuesOf(j, e)}
        /\ \A e \in Reachable(j) : Range(Follow[j][e]) \subseteq Reachable(j)

\* What a distance is: nought for the solved value alone; one move changes it by one at most; and
\* unless it is nought some move makes it less.  Those that occur fit in a byte.
ASSUME DistanceAssumption ==
    \A j \in Job :
        /\ Distance[j] \in [Value(j) -> Byte]
        /\ \A v \in Value(j) : Distance[j][v] = 0 <=> v = 0
        /\ \A v \in Value(j) : Distance[j][v] # Unvisited =>
               /\ \A n \in Range(Neighbours[j][v]) :
                      Distance[j][n] # Unvisited /\ Distance[j][n] <= Distance[j][v] + 1
               /\ v # 0 => \E p \in Value(j) : Distance[j][p] + 1 = Distance[j][v] /\ v \in Range(Neighbours[j][p])

VARIABLES
    job,        \* the table being built
    table,      \* its entries
    frontier,   \* the queue of entries to expand
    expanding,  \* in the loop over the moves of an entry
    current,    \* that entry
    nextDepth,  \* one more than its distance
    next        \* the place of the entry to look at next in Follow

vars == <<job, table, frontier, expanding, current, nextDepth, next>>

Init ==
    /\ job \in Job
    /\ table = [e \in Entry(job) |-> IF e = Start(job) THEN 0 ELSE Unvisited]
    /\ frontier = <<Start(job)>>
    /\ expanding = FALSE
    /\ current = Start(job)
    /\ nextDepth = 0
    /\ next = 1

DepthAfter(depth) == (depth + 1) % 256

\* Mutant: a stack in place of the queue.
PopBack ==
    /\ ~expanding
    /\ frontier # <<>>
    /\ current' = frontier[Len(frontier)]
    /\ frontier' = SubSeq(frontier, 1, Len(frontier) - 1)
    /\ nextDepth' = DepthAfter(table[frontier[Len(frontier)]])
    /\ next' = 1
    /\ expanding' = TRUE
    /\ UNCHANGED <<job, table>>

\* The outer loop takes the front of the queue.
Pop ==
    /\ ~expanding
    /\ frontier # <<>>
    /\ current' = Head(frontier)
    /\ frontier' = Tail(frontier)
    /\ nextDepth' = DepthAfter(table[Head(frontier)])
    /\ next' = 1
    /\ expanding' = TRUE
    /\ UNCHANGED <<job, table>>

\* Mutant: an entry queued and left to be written when it is taken.
LookUnwritten ==
    /\ expanding
    /\ next <= Len(Follow[job][current])
    /\ next' = next + 1
    /\ LET seen == Follow[job][current][next]
       IN  \/ table[seen] = Unvisited /\ frontier' = Append(frontier, seen)
           \/ table[seen] # Unvisited /\ UNCHANGED frontier
    /\ UNCHANGED <<job, table, expanding, current, nextDepth>>

\* The inner loop looks at one entry more, and writes and queues it if it is not visited.
Look ==
    /\ expanding
    /\ next <= Len(Follow[job][current])
    /\ next' = next + 1
    /\ LET seen == Follow[job][current][next]
       IN  \/ /\ table[seen] = Unvisited
              /\ table' = [table EXCEPT ![seen] = nextDepth]
              /\ frontier' = Append(frontier, seen)
           \/ /\ table[seen] # Unvisited
              /\ UNCHANGED <<table, frontier>>
    /\ UNCHANGED <<job, expanding, current, nextDepth>>

\* The inner loop ends.
Expanded ==
    /\ expanding
    /\ next > Len(Follow[job][current])
    /\ expanding' = FALSE
    /\ UNCHANGED <<job, table, frontier, current, nextDepth, next>>

Next == Pop \/ Look \/ Expanded
Spec == Init /\ [][Next]_vars

Done == ~expanding /\ frontier = <<>>

-----------------------------------------------------------------------------
(* Properties. *)

\* The variables stay in their types: in particular no distance overflows its byte and none is
\* taken for that of an entry not visited (the byte arithmetic of nextDepth, pruning_tables.cpp:142).
TypeOK ==
    /\ job \in Job
    /\ table \in [Entry(job) -> Byte]
    /\ frontier \in Seq(Entry(job))
    /\ expanding \in BOOLEAN
    /\ current \in Entry(job)
    /\ nextDepth \in Byte
    /\ next \in 1..Len(Follow[job][current]) + 1
    /\ \A i \in DOMAIN frontier : table[frontier[i]] # Unvisited

\* A table just built never claims more moves than a value needs, reduced by symmetry or not, so
\* that no bound read from it prunes a solution; where an entry's values are equally far it tells
\* just how far, and an entry left at 255 holds no value that can be solved
\* (buildPruningTable, pruning_tables.cpp:129-151, and the builders of the same shape).
TableIsTrue ==
    Done => /\ \A v \in Value(job) : table[EntryOf[job][v]] <= Distance[job][v]
            /\ Uniform(job) => \A v \in Value(job) : table[EntryOf[job][v]] = Distance[job][v]
=============================================================================
