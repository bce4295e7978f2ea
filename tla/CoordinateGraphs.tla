-------------------------- MODULE CoordinateGraphs ---------------------------
(***************************************************************************)
(* The graphs the pruning tables are distances in: of one coordinate under *)
(* the moves, of two coordinates together (src/src/pruning_tables.cpp),    *)
(* and of the orbits a symmetry reduction puts in place of the values      *)
(* (src/src/symmetry_coordinates.cpp, src/src/symmetry_pruning.cpp).       *)
(*                                                                         *)
(* A graph is a function on 0..n-1: for each value the sequence of values  *)
(* it is moved to, in the order of the moves.                              *)
(***************************************************************************)
EXTENDS Integers, Sequences, FiniteSets, SequencesExt, Functions

Values(n) == 0..n - 1

\* A pair of values as one: its index in the table of both.
PairIndex(first, second, secondSize) == first * secondSize + second

\* Two graphs moved together by the same moves.
Paired(firstMoves, secondMoves, secondSize) ==
    [state \in Values(Cardinality(DOMAIN firstMoves) * secondSize) |->
        LET first == firstMoves[state \div secondSize]
            second == secondMoves[state % secondSize]
        IN  [i \in DOMAIN first |-> PairIndex(first[i], second[i], secondSize)]]

-----------------------------------------------------------------------------
(* Symmetry reduction.  images[state] is the set of the images of a state under the symmetries, *)
(* the state itself among them.                                                                 *)

Least(set) == CHOOSE x \in set : \A y \in set : x <= y

\* The state an orbit goes by: the least of the images.
CanonicalState(images) == [state \in DOMAIN images |-> Least(images[state])]

\* The first state of the same orbit, and the orbits numbered as their first states are met.
FirstMet(canonical) ==
    [state \in DOMAIN canonical |-> Least({s \in DOMAIN canonical : canonical[s] = canonical[state]})]
OrbitNumber(first) ==
    [state \in DOMAIN first |-> Cardinality({s \in DOMAIN first : first[s] = s /\ s < first[state]})]

\* The orbits an orbit is moved to: those of every state of it under every move, in order.
Quotient(moves, orbitIndex) ==
    LET StatesOf(orbit) == SelectSeq([i \in 1..Cardinality(DOMAIN moves) |-> i - 1], LAMBDA s : orbitIndex[s] = orbit)
        FromState(s) == [i \in DOMAIN moves[s] |-> orbitIndex[moves[s][i]]]
    IN  [orbit \in Range(orbitIndex) |->
            FoldLeft(LAMBDA orbits, s : orbits \o FromState(s), <<>>, StatesOf(orbit))]
=============================================================================
