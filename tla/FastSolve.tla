------------------------------ MODULE FastSolve ------------------------------
(***************************************************************************)
(* The fast mode of Solver::solve once a request is accepted: two attempts *)
(* of the two-phase search, of which the second collects more candidates   *)
(* or completes more of them, then a beam search.  Phase 1 collects ways   *)
(* into the subgroup G1, phase 2 completes them inside it                  *)
(* (src/solver.cpp, src/phase1.cpp, src/phase2.cpp,                        *)
(* src/move_restrictions.cpp).                                             *)
(*                                                                         *)
(* One action is one iteration of a phase, or one layer of the beam.  The  *)
(* phases have time budgets of their own, fixed before the first attempt   *)
(* and never zero, so either may run out of time at any moment, in a       *)
(* request without time-out too, and may go on after the request's own     *)
(* deadline, which is only looked at between them.                         *)
(***************************************************************************)
EXTENDS Puzzle, SequencesExt

CONSTANTS
    G1,              \* the cubes phase 1 looks for
    Phase2Move,      \* phase2Moves
    Bound,           \* Bound[c]: nodeLowerBound
    Phase1Bound,     \* Phase1Bound[c]: phase1LowerBound
    Phase2Bound,     \* Phase2Bound[c]: phase2LowerBound
    CandidateBound,  \* CandidateBound[c]: phase2CandidateLowerBound
    Phase1Depth,     \* the phase 1 depth attempts stop at, 12
    QuickLimit,      \* QuickLimit[profile]: the smaller number of candidates
    FullLimit,       \* FullLimit[profile]: the larger one
    Width,           \* Width[profile]: beamWidth
    MaxDepth,        \* bound on options.maxDepth
    Requests         \* the searches considered, see RequestType

Profile == {"Embedded", "Default", "Performance"}

\* The sets of blocked faces allowedMovesForBlockedFaces accepts: none, one, or
\* two on one axis.
Face == DOMAIN AxisOf
Restriction == {{}} \cup UNION {{{f, g} : g \in {h \in Face : AxisOf[h] = AxisOf[f]}} : f \in Face}

\* depth: options.maxDepth; timed: does the request have a timeout?
RequestType ==
    [start : Cube \ {Solved}, depth : 0 .. MaxDepth, profile : Profile, blocked : Restriction,
     timed : BOOLEAN]

Admissible(bound, goal, moves) ==
    /\ DOMAIN bound = Cube
    /\ \A c \in Cube : bound[c] \in Nat /\ (bound[c] > 0 => c \notin Ball(goal, moves, bound[c] - 1))

\* Moves are numbered in the order of enum Move.
ASSUME FastAssumption ==
    /\ IsFiniteSet(Move) /\ Move = 1 .. Cardinality(Move)
    /\ Phase1Depth \in Nat /\ MaxDepth \in Nat
    /\ Phase2Move \subseteq Move /\ Closed(Phase2Move)
    /\ {Solved} \subseteq G1 /\ G1 \subseteq Cube
    /\ \A c \in G1, m \in Phase2Move : Moved[c][m] \in G1
    /\ \A blocked \in Restriction : \E m \in Phase2Move : FaceOf[m] \notin blocked
    /\ \A limits \in {QuickLimit, FullLimit, Width} : limits \in [Profile -> Nat \ {0}]
    /\ Requests \subseteq RequestType

\* What the pruning tables promise.
ASSUME BoundsAssumption ==
    /\ Admissible(Bound, {Solved}, Move)
    /\ Admissible(Phase1Bound, G1, Move)
    /\ \A c \in G1 : \A bound \in {Phase2Bound, CandidateBound} :
          bound[c] \in Nat /\ (bound[c] > 0 => c \notin Ball({Solved}, Phase2Move, bound[c] - 1))

VARIABLES
    request,     \* the arguments, constant
    expired,     \* the request's Deadline::expired()
    attempt,     \* the attempt that runs, 0 before the first
    pc,          \* "attempt", "phase1", "complete", "phase2", "beam", "done"
    limit,       \* the depth limit of the phase's iteration
    candidates,  \* phase 1's, in the order found; then ranked, those to complete
    best,        \* bestSolution, empty for none
    beam,        \* the paths the beam goes on from
    trimmed,     \* history: has the beam dropped a path for its width?
    answer       \* status and moves, set by the return

vars == <<request, expired, attempt, pc, limit, candidates, best, beam, trimmed, answer>>

-----------------------------------------------------------------------------
\* allowedMovesForBlockedFaces.
AllowedWithout(blocked) == {m \in Move : FaceOf[m] \notin blocked}
AllowedMoves == AllowedWithout(request.blocked)

\* The attempts: how many candidates phase 1 collects, how many phase 2 completes.
Attempts ==
    LET quick == QuickLimit[request.profile]
        full == FullLimit[request.profile]
    IN IF request.profile = "Embedded"
         THEN <<[collected |-> full, completed |-> quick], [collected |-> full, completed |-> full]>>
         ELSE <<[collected |-> quick, completed |-> quick], [collected |-> full, completed |-> full]>>

\* The elements of s that are chosen, in the order of s.
Kept(s, Chosen(_)) == FlattenSeq([i \in DOMAIN s |-> IF Chosen(s[i]) THEN <<s[i]>> ELSE <<>>])

allMoves == [m \in 1 .. Cardinality(Move) |-> m]

\* The lexicographic order of std::vector<Move>.
Precedes(p, q) ==
    \/ IsStrictPrefix(p, q)
    \/ \E i \in 1 .. Len(p) :
          i <= Len(q) /\ SubSeq(p, 1, i - 1) = SubSeq(q, 1, i - 1) /\ p[i] < q[i]

\* The order of phase 1's candidates and of the beam: by the moves a path needs
\* at least, by those it still needs, by the moves themselves.
Promises(bound, p, q) ==
    \E restP \in {bound[After(request.start, p)]}, restQ \in {bound[After(request.start, q)]} :
        \/ Len(p) + restP < Len(q) + restQ
        \/ /\ Len(p) + restP = Len(q) + restQ
           /\ restP < restQ \/ (restP = restQ /\ Precedes(p, q))

(* Slip: the list is cut one path late. *)
TruncatedLate(n) == [paths \in Seq(Path) |-> SubSeq(paths, 1, IF Len(paths) <= n THEN Len(paths) ELSE n + 1)]

\* The first n of the paths, or all.
Truncated(n) == [paths \in Seq(Path) |-> SubSeq(paths, 1, IF Len(paths) < n THEN Len(paths) ELSE n)]

\* Insertion by that order.
Sorted(bound) ==
    LET inserted(p) ==
            [s \in Seq(Path) |-> InsertAt(s, Cardinality({j \in DOMAIN s : Promises(bound, s[j], p)}) + 1, p)]
    IN [paths \in Seq(Path) |->
            LET sorted[n \in 0 .. Len(paths)] ==
                    IF n = 0 THEN <<>> ELSE inserted(paths[n])[sorted[n - 1]]
            IN sorted[Len(paths)]]

-----------------------------------------------------------------------------
(* The depth-first searches of both phases, as tables of what they find. *)

\* The moves of the set worth in the order the searches try them on cube c: least
\* bound first, then the order of the moves.
Tried(c, bound, worth) ==
    LET inserted(m) ==
            [s \in Seq(Move) |->
                IF m \notin worth THEN s
                ELSE InsertAt(s, Cardinality({j \in DOMAIN s : bound[Moved[c][s[j]]] <= bound[Moved[c][m]]}) + 1, m)]
        tried[m \in 0 .. Cardinality(Move)] == IF m = 0 THEN <<>> ELSE inserted(m)[tried[m - 1]]
    IN tried[Cardinality(Move)]

\* phase1CandidatesDfs and phase2Dfs: Ways(...)[n + 1][c][last] are the ways from
\* c into goal with n moves or fewer, after the move `last' (0 for none), in the
\* order of the search.
Ways(cubes, goal, bound, moves) ==
    LET worth(c, last, n) ==
            {m \in moves : (last # 0 => ~IsRedundant(last, m)) /\ 1 + bound[Moved[c][m]] <= n}
        through(m, rest) == [i \in DOMAIN rest |-> <<m>> \o rest[i]]
        tables[n \in 0 .. MaxDepth + 1] ==
            IF n = 0 THEN <<>>
            ELSE LET shorter == tables[n - 1]
                 IN Append(shorter, [c \in cubes |-> [last \in {0} \cup moves |->
                        IF c \in goal THEN <<<<>>>>
                        ELSE LET next == Tried(c, bound, worth(c, last, n - 1))
                             IN FlattenSeq([i \in DOMAIN next |->
                                    through(next[i], shorter[n - 1][Moved[c][next[i]]][next[i]])])]])
    IN tables[MaxDepth + 1]

\* Each with the faces that are blocked.
Phase1Ways ==
    [blocked \in Restriction |-> Ways(Cube, G1, Phase1Bound, AllowedWithout(blocked))]
Phase2Ways ==
    [blocked \in Restriction |->
        Ways(G1, {Solved}, Phase2Bound, AllowedWithout(blocked) \cap Phase2Move)]

-----------------------------------------------------------------------------
Init ==
    /\ request \in Requests
    /\ expired = FALSE
    /\ attempt = 0
    /\ pc = "attempt"
    /\ limit = 0
    /\ candidates = <<>>
    /\ best = <<>>
    /\ beam = <<>>
    /\ trimmed = FALSE
    /\ answer = [status |-> "running", moves |-> <<>>]

DeadlineExpires ==
    /\ request.timed
    /\ ~expired
    /\ expired' = TRUE
    /\ UNCHANGED <<request, attempt, pc, limit, candidates, best, beam, trimmed, answer>>

Return(status, moves) ==
    /\ pc' = "done"
    /\ answer' = [status |-> status, moves |-> moves]
    /\ UNCHANGED <<request, expired, attempt, limit, candidates, best, beam, trimmed>>

(* Slip: the search comes back to the attempt it has just made. *)
SameAttempt == IF attempt = 0 THEN 1 ELSE attempt

\* The next of the attempts.
NextAttempt == attempt + 1

\* A cube in G1 has one candidate, the empty path.
BeginAttempt ==
    /\ pc = "attempt"
    /\ ~expired
    /\ attempt < Len(Attempts)
    /\ attempt' = NextAttempt
    /\ best' = <<>>
    /\ limit' = Phase1Bound[request.start]
    /\ IF request.start \in G1
         THEN pc' = "complete" /\ candidates' = <<<<>>>>
         ELSE pc' = "phase1" /\ candidates' = <<>>
    /\ UNCHANGED <<request, expired, beam, trimmed, answer>>

\* The beam starts from the root.
AttemptsEnd ==
    /\ pc = "attempt"
    /\ expired \/ attempt = Len(Attempts)
    /\ pc' = "beam"
    /\ beam' = <<<<>>>>
    /\ UNCHANGED <<request, expired, attempt, limit, candidates, best, trimmed, answer>>

\* The attempt is over without a solution.
AttemptFails ==
    /\ pc' = "attempt"
    /\ UNCHANGED <<request, expired, attempt, limit, candidates, best, beam, trimmed, answer>>

-----------------------------------------------------------------------------
(* Phase 1: findPhase1Candidates *)

(* Slip: the paths of earlier limits are collected again. *)
CollectAgain(found) ==
    Truncated(Attempts[attempt].collected)[candidates \o found]

\* The search stops at maxCandidates; later limits find the paths of earlier ones
\* again, which containsCandidate leaves out.
Collect(found) ==
    LET new == Kept(found, LAMBDA p : ~Contains(candidates, p))
    IN Truncated(Attempts[attempt].collected)[candidates \o new]

\* twoPhaseAttempt: the candidates phase 2 completes.
Ranked(collected) ==
    Truncated(Attempts[attempt].completed)[Sorted(CandidateBound)[collected]]

Phase1Last == IF request.depth < Phase1Depth THEN request.depth ELSE Phase1Depth

Phase1Found == Phase1Ways[request.blocked][limit + 1][request.start][0]

\* Phase 1 has what it collected, if anything.
Phase1Returns(collected) ==
    IF collected = <<>> THEN AttemptFails
    ELSE /\ pc' = "complete"
         /\ candidates' = Ranked(collected)
         /\ UNCHANGED <<request, expired, attempt, limit, best, beam, trimmed, answer>>

Deepen == limit + 1

Phase1Iteration ==
    /\ pc = "phase1"
    /\ limit <= Phase1Last
    /\ LET collected == Collect(Phase1Found)
       IN IF Len(collected) >= Attempts[attempt].collected
            THEN Phase1Returns(collected)
            ELSE /\ candidates' = collected
                 /\ limit' = Deepen
                 /\ UNCHANGED <<request, expired, attempt, pc, best, beam, trimmed, answer>>

\* Phase 1's own deadline passes somewhere in the iteration.
Phase1Expires ==
    /\ pc = "phase1"
    /\ limit <= Phase1Last
    /\ LET found == Phase1Found
       IN \E k \in 0 .. Len(found) : Phase1Returns(Collect(SubSeq(found, 1, k)))

Phase1Ends ==
    /\ pc = "phase1"
    /\ limit > Phase1Last
    /\ Phase1Returns(candidates)

-----------------------------------------------------------------------------
(* Phase 2: solvePhase2 for each candidate *)

Candidate == Head(candidates)
CandidateCube == After(request.start, Candidate)

\* The best solution is replaced by a shorter one only.
Improved(solution) == IF best = <<>> \/ Len(solution) < Len(best) THEN solution ELSE best

NextCandidate ==
    /\ pc = "complete"
    /\ candidates # <<>>
    /\ ~expired
    /\ IF CandidateCube = Solved
         THEN /\ best' = Improved(Candidate)
              /\ candidates' = Tail(candidates)
              /\ UNCHANGED <<request, expired, attempt, pc, limit, beam, trimmed, answer>>
         ELSE /\ pc' = "phase2"
              /\ limit' = Phase2Bound[CandidateCube]
              /\ UNCHANGED <<request, expired, attempt, candidates, best, beam, trimmed, answer>>

(* Slip: phase 2 may use the whole depth again. *)
WholeDepth == request.depth

\* What the candidate leaves of the depth.
Phase2Depth == request.depth - Len(Candidate)

Phase2Iteration ==
    /\ pc = "phase2"
    /\ limit <= Phase2Depth
    /\ LET found == Phase2Ways[request.blocked][limit + 1][CandidateCube][0]
       IN IF found = <<>>
            THEN /\ limit' = Deepen
                 /\ UNCHANGED <<request, expired, attempt, pc, candidates, best, beam, trimmed, answer>>
            ELSE /\ best' = Improved(Candidate \o Head(found))
                 /\ candidates' = Tail(candidates)
                 /\ pc' = "complete"
                 /\ UNCHANGED <<request, expired, attempt, limit, beam, trimmed, answer>>

\* The depth is used up, or phase 2's own deadline passes: the candidate is left.
Phase2GivesUp ==
    /\ pc = "phase2"
    /\ candidates' = Tail(candidates)
    /\ pc' = "complete"
    /\ UNCHANGED <<request, expired, attempt, limit, best, beam, trimmed, answer>>

AttemptEnds ==
    /\ pc = "complete"
    /\ expired \/ candidates = <<>>
    /\ IF best = <<>> THEN AttemptFails ELSE Return("Found", best)

-----------------------------------------------------------------------------
(* fastBeamSearch *)

\* Path p may go on with move m.
Follows(p, m) == p # <<>> => ~IsRedundant(Last(p), m)

Depth == Len(Head(beam))

\* In the order the loops meet them.
Children ==
    LET longer(p) ==
            LET next == Kept(allMoves, LAMBDA m : m \in AllowedMoves /\ Follows(p, m))
            IN [i \in DOMAIN next |-> Append(p, next[i])]
    IN FlattenSeq([i \in DOMAIN beam |-> longer(beam[i])])

(* Slip: a path that needs all of the depth is dropped. *)
FitsShort(p) == Len(p) + Bound[After(request.start, p)] < request.depth

Fits(p) == Len(p) + Bound[After(request.start, p)] <= request.depth

\* The best of the paths, as many as the beam is wide.
Widest(paths) ==
    Truncated(Width[request.profile])[Sorted(Bound)[paths]]

BeamExpires ==
    /\ pc = "beam"
    /\ Depth < request.depth
    /\ expired
    /\ Return("Timeout", <<>>)

\* A layer: the first child that is solved is the answer, else the children that
\* may still make it are the next beam.
BeamLayer ==
    /\ pc = "beam"
    /\ Depth < request.depth
    /\ ~expired
    /\ \E children \in {Children} :
          LET solved == Kept(children, LAMBDA p : After(request.start, p) = Solved)
              fitting == Kept(children, Fits)
          IN CASE solved # <<>> -> Return("Found", Head(solved))
               [] solved = <<>> /\ fitting = <<>> -> Return("DepthLimitExceeded", <<>>)
               [] solved = <<>> /\ fitting # <<>> ->
                     /\ beam' = Widest(fitting)
                     /\ trimmed' = (trimmed \/ Len(fitting) > Width[request.profile])
                     /\ UNCHANGED <<request, expired, attempt, pc, limit, candidates, best, answer>>

BeamEnds ==
    /\ pc = "beam"
    /\ Depth = request.depth
    /\ Return("DepthLimitExceeded", <<>>)

-----------------------------------------------------------------------------
Step ==
    \/ BeginAttempt \/ AttemptsEnd
    \/ Phase1Iteration \/ Phase1Expires \/ Phase1Ends
    \/ NextCandidate \/ Phase2Iteration \/ Phase2GivesUp \/ AttemptEnds
    \/ BeamExpires \/ BeamLayer \/ BeamEnds

Next == Step \/ DeadlineExpires

Spec == Init /\ [][Next]_vars

\* The search keeps running.
FairSpec == Spec /\ WF_vars(Step)

-----------------------------------------------------------------------------
(* Properties. *)

\* The state's types, and the attempt's limits on the number of candidates: phase 1
\* goes on only while it has too few, phase 2 completes only as many as it may.
TypeOK ==
    /\ request \in Requests
    /\ expired \in BOOLEAN
    /\ attempt \in 0 .. Len(Attempts)
    /\ pc \in {"attempt", "phase1", "complete", "phase2", "beam", "done"}
    /\ limit \in Nat
    /\ candidates \in Seq(Path)
    /\ best \in Path
    /\ beam \in Seq(Path)
    /\ trimmed \in BOOLEAN
    /\ answer \in [status : {"running", "Found", "Timeout", "DepthLimitExceeded"}, moves : Path]
    /\ pc \in {"phase1", "complete", "phase2"} => attempt > 0
    /\ pc = "phase1" => Len(candidates) < Attempts[attempt].collected
    /\ pc \in {"complete", "phase2"} => Len(candidates) <= Attempts[attempt].completed
    /\ pc = "phase2" => candidates # <<>>

\* Whatever of the three searches finds it, whatever ran out of time before: the
\* moves returned solve the cube within maxDepth and turn no blocked face.  And
\* Timeout is said only after the request's own deadline, not when a phase has
\* used up its budget.
AnswerIsTrue ==
    /\ answer.status = "Found" =>
         /\ After(request.start, answer.moves) = Solved
         /\ Len(answer.moves) \in 1 .. request.depth
         /\ ToSet(answer.moves) \subseteq AllowedMoves
    /\ answer.status = "Timeout" => expired

\* Phase 2's work is not spent twice: the candidates are different paths, each of
\* which enters G1 with its last move and not before.
CandidatesAreEntries ==
    pc \in {"phase1", "complete"} =>
        /\ IsInjective(candidates)
        /\ \A p \in ToSet(candidates) :
              \A k \in 0 .. Len(p) : After(request.start, SubSeq(p, 1, k)) \in G1 <=> k = Len(p)

\* The references: for each set of blocked faces and number n, the cubes n moves
\* or fewer from G1, from the goal, and from the goal by moves of phase 2.
WithinOfG1 ==
    [blocked \in Restriction |-> [n \in 0 .. MaxDepth |-> Ball(G1, AllowedWithout(blocked), n)]]
WithinOfGoal ==
    [blocked \in Restriction |-> [n \in 0 .. MaxDepth |-> Ball({Solved}, AllowedWithout(blocked), n)]]
WithinOfGoalByPhase2 ==
    [blocked \in Restriction |->
        [n \in 0 .. MaxDepth |-> Ball({Solved}, AllowedWithout(blocked) \cap Phase2Move, n)]]

\* Deepening never steps over the length of a shortest way: while phase 1 has no
\* candidate, none is shorter than its limit; nor is a way phase 2 looks for.
NoLengthSkipped ==
    /\ pc = "phase1" /\ candidates = <<>> /\ limit \in 1 .. MaxDepth + 1 =>
           request.start \notin WithinOfG1[request.blocked][limit - 1]
    /\ pc = "phase2" /\ limit \in 1 .. MaxDepth =>
           CandidateCube \notin WithinOfGoalByPhase2[request.blocked][limit - 1]

\* As long as the beam has dropped nothing for its width, it is a breadth-first
\* search: what it finds is as short as can be without the blocked faces, and
\* DepthLimitExceeded says that there is nothing to find.
BeamIsExhaustive ==
    ~trimmed /\ beam # <<>> =>
        /\ answer.status = "Found" =>
               request.start \notin WithinOfGoal[request.blocked][Len(answer.moves) - 1]
        /\ answer.status = "DepthLimitExceeded" =>
               request.start \notin WithinOfGoal[request.blocked][request.depth]

\* Every request is answered, with a time-out or without.
Answers == <>(pc = "done")
=============================================================================
