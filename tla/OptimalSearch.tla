---------------------------- MODULE OptimalSearch ----------------------------
(***************************************************************************)
(* The optimal mode of Solver::solve once a request is accepted: iterative *)
(* deepening over dfs, with the lower bound of the pruning tables, the     *)
(* canonical order of isRedundant and the optional exact goal table, run   *)
(* from the root or split into tasks of one or two moves (src/solver.cpp). *)
(*                                                                         *)
(* The puzzle is a parameter: any cubes and moves on which isRedundant and *)
(* the bound make sense.  Candidate moves are tried in any order, which    *)
(* covers every ordering mode; the tasks of a split are searched one after *)
(* the other in any order, which is what ParallelRootSearch shows of the   *)
(* threads that share them.  One action is one call of dfs, or one turn of *)
(* its loop.                                                               *)
(***************************************************************************)
EXTENDS Puzzle

CONSTANTS
    Bound,     \* Bound[c]: what the pruning tables say of c
    Requests,  \* the searches considered, see RequestType
    MaxRadius  \* bound on the radius of the goal table

\* depth: options.maxDepth; radius: of the goal table, 0 for none; split: moves
\* a task starts with, 0 for a single dfs; timed: does the request have a timeout?
RequestType ==
    [start : Cube \ {Solved}, depth : Nat, radius : 0 .. MaxRadius, split : 0 .. 2,
     timed : BOOLEAN]

ASSUME SearchAssumption ==
    /\ Bound \in [Cube -> Nat]
    /\ MaxRadius \in Nat
    /\ Requests \subseteq RequestType

\* What the pruning tables promise, whole or with holes (TableCache): a cube is
\* never nearer than its bound.
ASSUME BoundAssumption == \A c \in Cube : Bound[c] > 0 => c \notin Within(Bound[c] - 1)

VARIABLES
    request,  \* the arguments, constant
    expired,  \* Deadline::expired()
    limit,    \* the iteration's depth limit
    tasks,    \* tasks of the iteration not searched yet, as sequences of moves
    path,     \* dfs's path
    frames,   \* the calls of dfs in their loops: their path, the moves left to try
    pc,       \* "limit", "task", "visit", "loop", "done"
    answer    \* status and moves, set by the return

vars == <<request, expired, limit, tasks, path, frames, pc, answer>>

-----------------------------------------------------------------------------
(* Slip: a candidate needs one move more than it does. *)
CandidatesShort(c, p, n) ==
    {m \in Move :
        /\ p # <<>> => ~IsRedundant(p[Len(p)], m)
        /\ Len(p) + 1 + Bound[Moved[c][m]] < n}

\* collectCandidateMoves: the moves worth trying from cube c, reached by path p,
\* under limit n.
Candidates(c, p, n) ==
    {m \in Move :
        /\ p # <<>> => ~IsRedundant(p[Len(p)], m)
        /\ Len(p) + 1 + Bound[Moved[c][m]] <= n}

\* buildGoalTable and reconstructGoalTableSuffix, for each radius: the cubes
\* within r moves of the goal, each with the moves that lead back to it.  An
\* entry notes the inverse of the move that found it and its parent.
GoalTables ==
    LET table[n \in 0 .. MaxRadius] ==
            IF n = 0
              THEN [c \in {Solved} |-> <<>>]
              ELSE LET inner == table[n - 1]
                       found == {Moved[c][m] : c \in DOMAIN inner, m \in Move}
                       first(c) == CHOOSE e \in (DOMAIN inner) \X Move : Moved[e[1]][e[2]] = c
                   IN [c \in DOMAIN inner \cup found |->
                          IF c \in DOMAIN inner THEN inner[c]
                          ELSE <<InverseOf[first(c)[2]]>> \o inner[first(c)[1]]]
    IN [r \in 0 .. MaxRadius |-> table[r]]
GoalTable == GoalTables[request.radius]

UsesGoalTable(remaining) == request.radius > 0 /\ remaining <= request.radius

(* Slip: an entry deeper than what is left of the limit is taken. *)
GoalTableHitDeep(c, remaining) == c \in DOMAIN GoalTable

GoalTableHit(c, remaining) ==
    /\ c \in DOMAIN GoalTable
    /\ Len(GoalTable[c]) <= remaining

-----------------------------------------------------------------------------
Running == [status |-> "running", moves |-> <<>>]

Init ==
    /\ request \in Requests
    /\ expired = FALSE
    /\ limit = Bound[request.start]
    /\ tasks = {}
    /\ path = <<>>
    /\ frames = <<>>
    /\ pc = "limit"
    /\ answer = Running

DeadlineExpires ==
    /\ request.timed
    /\ ~expired
    /\ expired' = TRUE
    /\ UNCHANGED <<request, limit, tasks, path, frames, pc, answer>>

Return(status, moves) ==
    /\ pc' = "done"
    /\ answer' = [status |-> status, moves |-> moves]
    /\ tasks' = {}
    /\ frames' = <<>>
    /\ UNCHANGED <<request, expired, limit, path>>

\* parallelRootDfs: a task per candidate move.
RootTasks == {<<m>> : m \in Candidates(request.start, <<>>, limit)}

\* parallelDeepRootDfs: a task per candidate pair, or the one move that has none.
DeepTasks ==
    UNION {LET children == Candidates(After(request.start, t), t, limit)
           IN IF children = {} THEN {t} ELSE {Append(t, m) : m \in children} : t \in RootTasks}

SplitTasks ==
    CASE request.split = 0 -> {<<>>}
      [] request.split = 1 -> RootTasks
      [] request.split = 2 -> DeepTasks

\* The next iteration begins; a split looks at the deadline before anything else.
BeginIteration ==
    /\ pc = "limit"
    /\ limit <= request.depth
    /\ IF request.split > 0 /\ expired
         THEN Return("Timeout", <<>>)
         ELSE /\ tasks' = SplitTasks
              /\ pc' = "task"
              /\ UNCHANGED <<request, expired, limit, path, frames, answer>>

DepthExhausted ==
    /\ pc = "limit"
    /\ limit > request.depth
    /\ Return("DepthLimitExceeded", <<>>)

NextTask ==
    /\ pc = "task"
    /\ \E t \in tasks : path' = t /\ tasks' = tasks \ {t}
    /\ pc' = "visit"
    /\ UNCHANGED <<request, expired, limit, frames, answer>>

(* Slip: the limit stays as it is. *)
SameLimit(n) == n

NextLimit(n) == n + 1

\* NotFound: every task was searched to its end.
EndIteration ==
    /\ pc = "task"
    /\ tasks = {}
    /\ limit' = NextLimit(limit)
    /\ pc' = "limit"
    /\ UNCHANGED <<request, expired, tasks, path, frames, answer>>

-----------------------------------------------------------------------------
(* dfs *)

Here == After(request.start, path)
Remaining == limit - Len(path)

(* Slip: there is always a loop to go on with. *)
ResumeLoop(calls) == "loop"

\* Where NotFound is returned to when calls of dfs are left.
Resume(calls) == IF calls = 0 THEN "task" ELSE "loop"

BackUp ==
    /\ pc' = Resume(Len(frames))
    /\ UNCHANGED <<request, expired, limit, tasks, path, frames, answer>>

VisitExpired ==
    /\ pc = "visit"
    /\ expired
    /\ Return("Timeout", <<>>)

VisitSolved ==
    /\ pc = "visit"
    /\ ~expired
    /\ Here = Solved
    /\ Return("Optimal", path)

VisitGoalTable ==
    /\ pc = "visit"
    /\ ~expired
    /\ Here # Solved
    /\ UsesGoalTable(Remaining)
    /\ IF GoalTableHit(Here, Remaining)
         THEN Return("Optimal", path \o GoalTable[Here])
         ELSE BackUp

RootPruned == path = <<>> /\ Bound[Here] > limit

Visit ==
    /\ pc = "visit"
    /\ ~expired
    /\ Here # Solved
    /\ ~UsesGoalTable(Remaining)
    /\ IF RootPruned
         THEN BackUp
         ELSE /\ frames' = Append(frames, [path |-> path, todo |-> Candidates(Here, path, limit)])
              /\ pc' = "loop"
              /\ UNCHANGED <<request, expired, limit, tasks, path, answer>>

Top == frames[Len(frames)]

\* The loop's next move: path.push_back(move), and dfs on the cube it leads to.
TryMove ==
    /\ pc = "loop"
    /\ \E m \in Top.todo :
          /\ path' = Append(Top.path, m)
          /\ frames' = [frames EXCEPT ![Len(frames)].todo = @ \ {m}]
    /\ pc' = "visit"
    /\ UNCHANGED <<request, expired, limit, tasks, answer>>

\* The loop is through: NotFound.
LoopEnds ==
    /\ pc = "loop"
    /\ Top.todo = {}
    /\ frames' = SubSeq(frames, 1, Len(frames) - 1)
    /\ path' = Top.path
    /\ pc' = Resume(Len(frames) - 1)
    /\ UNCHANGED <<request, expired, limit, tasks, answer>>

-----------------------------------------------------------------------------
Step ==
    \/ BeginIteration \/ DepthExhausted \/ NextTask \/ EndIteration
    \/ VisitExpired \/ VisitSolved \/ VisitGoalTable \/ Visit \/ TryMove \/ LoopEnds

Next == Step \/ DeadlineExpires

Spec == Init /\ [][Next]_vars

\* The search keeps running.
FairSpec == Spec /\ WF_vars(Step)

-----------------------------------------------------------------------------
(* Properties. *)

TypeOK ==
    /\ request \in Requests
    /\ expired \in BOOLEAN
    /\ limit \in Nat
    /\ tasks \subseteq Path
    /\ path \in Path
    /\ frames \in Seq([path : Path, todo : SUBSET Move])
    /\ pc \in {"limit", "task", "visit", "loop", "done"}
    /\ answer \in [status : {"running", "Optimal", "Timeout", "DepthLimitExceeded"}, moves : Path]
    /\ pc = "loop" => frames # <<>>

\* "Optimal" is: the moves solve the cube and no fewer would, whatever the bound,
\* the canonical order, the goal table and the split prune away.
AnswerIsOptimal ==
    answer.status = "Optimal" =>
        /\ After(request.start, answer.moves) = Solved
        /\ answer.moves # <<>>
        /\ request.start \notin Within(Len(answer.moves) - 1)

\* DepthLimitExceeded is a proof that no solution of maxDepth moves or fewer
\* exists: no limit was stepped over and no branch given up on the way.
DepthLimitIsTrue ==
    answer.status = "DepthLimitExceeded" => request.start \notin Within(request.depth)

\* Every search returns.
Answers == <>(pc = "done")
=============================================================================
