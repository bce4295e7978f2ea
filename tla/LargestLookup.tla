--------------------------- MODULE LargestLookup ----------------------------
(* How the bounds of src/src/solver.cpp and phase2.cpp take the largest of several lookups.   *)
EXTENDS Integers, Sequences

\* The largest of the values looked up one after the other, or, when one before the last is above
\* the limit, the largest so far: the code returns at once.
EarlyReturn(values, pruneAbove) ==
    LET largest[n \in 0..Len(values)] ==
            IF n = 0 THEN 0
            ELSE LET bound == largest[n - 1]
                 IN  IF bound > pruneAbove \/ values[n] <= bound THEN bound ELSE values[n]
    IN  largest[Len(values)]
=============================================================================
