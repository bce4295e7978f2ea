------------------------ MODULE ParallelRootSearch -------------------------
(***************************************************************************)
(* One depth-limited iteration of the optimal solver run by several        *)
(* threads: parallelRootDfs and parallelDeepRootDfs of src/solver.cpp.     *)
(* Both divide the tree below the root into tasks, let the workers claim   *)
(* tasks from an atomic counter, search each with dfs, and stop everybody  *)
(* through a relaxed atomic flag once one of them has an answer.           *)
(*                                                                         *)
(* A task's subtree is abstracted to the number of nodes a full depth-     *)
(* first search of it visits and the place, in that order, of its first    *)
(* solved node (0: none).  A node visit is one step: between two visits    *)
(* every other thread may run.                                             *)
(***************************************************************************)
EXTENDS Naturals, Sequences, Functions

CONSTANTS
    Calls,       \* the calls considered, see CallType
    MaxThreads,  \* bound on options.threads
    None         \* no task, no answer

(***************************************************************************)
(* A call: its tasks in search order (`root' is the index of the root      *)
(* candidate a task lies under), whether it is the deep split, the thread  *)
(* count asked for, and whether the root cube is itself solved.            *)
(***************************************************************************)
TaskType == [size : Nat \ {0}, solvedAt : Nat, root : Nat \ {0}]
CallType == [tasks : Seq(TaskType), deep : BOOLEAN, threads : Nat, rootSolved : BOOLEAN]

WellFormed(c) ==
    /\ c \in CallType
    /\ c.threads \in 2 .. MaxThreads    \* one thread calls dfs directly
    /\ \A i \in DOMAIN c.tasks :
          /\ c.tasks[i].solvedAt <= c.tasks[i].size
          /\ ~c.deep => c.tasks[i].root = i
          /\ c.tasks[i].root <= Len(c.tasks)

ASSUME CallsAssumption ==
    /\ MaxThreads \in Nat \ {0, 1}
    /\ \A c \in Calls : WellFormed(c)
    /\ None \notin Nat

RootPath == 0    \* the empty solution; a task is the other kind of answer

VARIABLES
    call,             \* the arguments of this call, constant
    deadlineExpired,  \* Deadline::expired(), turns TRUE at most once
    mainPc,           \* calling thread: "start", "threads", "done"
    spawned,          \* workers created so far
    result,           \* "running" or the SearchState returned
    solution,         \* the `solution' out-parameter
    nodesExpanded,    \* the `nodesExpanded' out-parameter of this call
    nextTask,         \* std::atomic_int nextCandidate / nextTask
    stopRequested,    \* std::atomic_bool
    timedOut,         \* std::atomic_bool
    foundSolution,    \* guarded by resultMutex
    totalWorkerNodes, \* guarded by resultMutex
    rootProfile,      \* per root: state, visited, nodesExpanded
    workerProfile,    \* per worker: rootsVisited, nodesExpanded
    pc,               \* pc[w]: where worker w is
    task,             \* task[w]: index of the task it holds
    visited,          \* visited[w]: nodes of that task it has visited
    state,            \* state[w]: what dfs returned for that task
    localNodes,       \* localNodes[w]: nodes counted by w
    localRoots,       \* localRoots[w]: tasks finished by w
    sawStop           \* sawStop[w]: w has already read stopRequested as TRUE

mainVars   == <<mainPc, spawned, result, solution, nodesExpanded>>
sharedVars == <<nextTask, stopRequested, timedOut, foundSolution, totalWorkerNodes>>
profiles   == <<rootProfile, workerProfile>>
localVars  == <<task, visited, state, localNodes, localRoots, sawStop>>
vars == <<call, deadlineExpired, mainVars, sharedVars, profiles, pc, localVars>>

Worker == 0 .. MaxThreads - 1
Task   == DOMAIN call.tasks
Size(t)     == call.tasks[t].size
SolvedAt(t) == call.tasks[t].solvedAt
RootOf(t)   == call.tasks[t].root
Roots == {RootOf(t) : t \in Task}

SearchState == {"Found", "NotFound", "Timeout"}

\* max(1, min(threads, tasks))
WorkerCount ==
    IF call.threads < 1 THEN 1
    ELSE IF call.threads < Len(call.tasks) THEN call.threads
    ELSE Len(call.tasks)

Init ==
    /\ call \in Calls
    /\ deadlineExpired = FALSE
    /\ mainPc = "start"
    /\ spawned = 0
    /\ result = "running"
    /\ solution = None
    /\ nodesExpanded = 0
    /\ nextTask = 1
    /\ stopRequested = FALSE
    /\ timedOut = FALSE
    /\ foundSolution = None
    /\ totalWorkerNodes = 0
    /\ rootProfile = [r \in {} |-> None]
    /\ workerProfile = [w \in {} |-> None]
    /\ pc = [w \in Worker |-> "unspawned"]
    /\ task = [w \in Worker |-> None]
    /\ visited = [w \in Worker |-> 0]
    /\ state = [w \in Worker |-> "NotFound"]
    /\ localNodes = [w \in Worker |-> 0]
    /\ localRoots = [w \in Worker |-> 0]
    /\ sawStop = [w \in Worker |-> FALSE]

DeadlineExpires ==
    /\ ~deadlineExpired
    /\ deadlineExpired' = TRUE
    /\ UNCHANGED <<call, mainVars, sharedVars, profiles, pc, localVars>>

-----------------------------------------------------------------------------
(* The calling thread. *)

Return(r, s) ==
    /\ mainPc' = "done"
    /\ result' = r
    /\ solution' = s
    /\ UNCHANGED spawned

\* The tests before any thread exists, in the code's order: deadline,
\* solved root, no candidate move.
StartReturns ==
    /\ mainPc = "start"
    /\ nodesExpanded' = nodesExpanded + 1
    /\ IF deadlineExpired THEN Return("Timeout", None)
       ELSE IF call.rootSolved THEN Return("Found", RootPath)
       ELSE Task = {} /\ Return("NotFound", None)
    /\ UNCHANGED <<call, deadlineExpired, sharedVars, profiles, pc, localVars>>

StartSearch ==
    /\ mainPc = "start"
    /\ ~deadlineExpired
    /\ ~call.rootSolved
    /\ Task # {}
    /\ nodesExpanded' = nodesExpanded + 1
    /\ mainPc' = "threads"
    /\ rootProfile' = [r \in Roots |-> [nodes |-> 0, state |-> "NotFound", visited |-> FALSE]]
    /\ workerProfile' = [w \in 0 .. WorkerCount - 1 |-> [roots |-> 0, nodes |-> 0]]
    /\ UNCHANGED <<call, deadlineExpired, spawned, result, solution, sharedVars, pc, localVars>>

\* threads.emplace_back: earlier workers already run while later ones are created.
Spawn ==
    /\ mainPc = "threads"
    /\ spawned < WorkerCount
    /\ pc' = [pc EXCEPT ![spawned] = "loop"]
    /\ spawned' = spawned + 1
    /\ UNCHANGED <<call, deadlineExpired, mainPc, result, solution, nodesExpanded,
                   sharedVars, profiles, localVars>>

(* Slip: join returns once some worker has exited. *)
AnyJoined ==
    /\ mainPc = "threads"
    /\ spawned = WorkerCount
    /\ \E w \in Worker : w < WorkerCount /\ pc[w] = "exited"

AllJoined ==
    /\ mainPc = "threads"
    /\ spawned = WorkerCount
    /\ \A w \in Worker : w < WorkerCount => pc[w] = "exited"

(* Slip: the two flags tested in the wrong order. *)
OutcomeTimeoutFirst ==
    IF timedOut THEN "Timeout"
    ELSE IF foundSolution # None THEN "Found"
    ELSE "NotFound"

Outcome ==
    IF foundSolution # None THEN "Found"
    ELSE IF timedOut THEN "Timeout"
    ELSE "NotFound"

Join ==
    /\ AllJoined
    /\ nodesExpanded' = nodesExpanded + totalWorkerNodes
    /\ Return(Outcome, foundSolution)
    /\ UNCHANGED <<call, deadlineExpired, sharedVars, profiles, pc, localVars>>

-----------------------------------------------------------------------------
(* A worker's loop. *)

Goto(w, l) == pc' = [pc EXCEPT ![w] = l]

\* stopRequested is loaded relaxed: a worker may still read FALSE after another
\* has stored TRUE, but never FALSE again once it has itself read TRUE.
ReadsStop(w) == stopRequested /\ sawStop' = [sawStop EXCEPT ![w] = TRUE]
ReadsGo(w)   == ~sawStop[w] /\ UNCHANGED sawStop

\* while (!stopRequested.load())
LoopTest(w) ==
    /\ pc[w] = "loop"
    /\ \/ ReadsStop(w) /\ Goto(w, "exit")
       \/ ReadsGo(w) /\ Goto(w, "claim")
    /\ UNCHANGED <<call, deadlineExpired, mainVars, sharedVars, profiles,
                   task, visited, state, localNodes, localRoots>>

(* Slip: a load of the counter and a later store, instead of fetch_add. *)
LoadedCounter == {nextTask, nextTask + 1}

FetchAdd == {nextTask + 1}

\* nextTask.fetch_add(1)
ClaimTask(w) ==
    /\ pc[w] = "claim"
    /\ nextTask \in Task
    /\ nextTask' \in FetchAdd
    /\ Goto(w, "dfs")
    /\ task' = [task EXCEPT ![w] = nextTask]
    /\ visited' = [visited EXCEPT ![w] = 0]
    /\ UNCHANGED <<call, deadlineExpired, mainVars, stopRequested, timedOut, foundSolution,
                   totalWorkerNodes, profiles, state, localNodes, localRoots, sawStop>>

(* Slip: with no task left the worker waits for the stop flag. *)
WaitForStop(w) ==
    /\ pc[w] = "claim"
    /\ nextTask \notin Task
    /\ Goto(w, "loop")
    /\ UNCHANGED <<call, deadlineExpired, mainVars, sharedVars, profiles, localVars>>

\* if (index >= count) break; the counter has been incremented all the same.
NoTaskLeft(w) ==
    /\ pc[w] = "claim"
    /\ nextTask \notin Task
    /\ nextTask' \in FetchAdd
    /\ Goto(w, "exit")
    /\ UNCHANGED <<call, deadlineExpired, mainVars, stopRequested, timedOut, foundSolution,
                   totalWorkerNodes, profiles, localVars>>

DfsReturns(w, s) ==
    /\ Goto(w, "profile")
    /\ state' = [state EXCEPT ![w] = s]
    /\ localRoots' = [localRoots EXCEPT ![w] = @ + 1]

CountNodes(w, n) ==
    /\ visited' = [visited EXCEPT ![w] = @ + n]
    /\ localNodes' = [localNodes EXCEPT ![w] = @ + n]

DfsUnchanged ==
    UNCHANGED <<call, deadlineExpired, mainVars, sharedVars, profiles, task>>

\* ++nodesExpanded, then the stop flag is seen: NotFound.  The callers up the
\* recursion still try each remaining sibling, which counts itself and returns
\* NotFound on the same flag.
VisitStopped(w) ==
    /\ pc[w] = "dfs"
    /\ ReadsStop(w)
    /\ \E n \in 1 .. Size(task[w]) - visited[w] : CountNodes(w, n)
    /\ DfsReturns(w, "NotFound")
    /\ DfsUnchanged

VisitExpired(w) ==
    /\ pc[w] = "dfs"
    /\ ReadsGo(w)
    /\ deadlineExpired
    /\ CountNodes(w, 1)
    /\ DfsReturns(w, "Timeout")
    /\ DfsUnchanged

VisitSolved(w) ==
    /\ pc[w] = "dfs"
    /\ ReadsGo(w)
    /\ ~deadlineExpired
    /\ SolvedAt(task[w]) = visited[w] + 1
    /\ CountNodes(w, 1)
    /\ DfsReturns(w, "Found")
    /\ DfsUnchanged

\* The last node of the subtree: the search of this task is exhausted.
VisitLast(w) ==
    /\ pc[w] = "dfs"
    /\ ReadsGo(w)
    /\ ~deadlineExpired
    /\ SolvedAt(task[w]) # visited[w] + 1
    /\ visited[w] + 1 = Size(task[w])
    /\ CountNodes(w, 1)
    /\ DfsReturns(w, "NotFound")
    /\ DfsUnchanged

VisitInner(w) ==
    /\ pc[w] = "dfs"
    /\ ReadsGo(w)
    /\ ~deadlineExpired
    /\ SolvedAt(task[w]) # visited[w] + 1
    /\ visited[w] + 1 < Size(task[w])
    /\ CountNodes(w, 1)
    /\ UNCHANGED <<pc, state, localRoots>>
    /\ DfsUnchanged

AfterProfile(s) ==
    CASE s = "Found"    -> "publish"
      [] s = "Timeout"  -> "expired"
      [] s = "NotFound" -> "loop"

(* Slip: the deep split keeps the root split's assignment. *)
ProfileEntryOverwritten(entry, nodes, s) == [nodes |-> nodes, state |-> s, visited |-> TRUE]

\* The per-root entry: assigned by the root split, where a root is one task;
\* accumulated by the deep split, where only Found, or Timeout over anything
\* but Found, replaces the state.
ProfileEntry(entry, nodes, s) ==
    IF ~call.deep
    THEN [nodes |-> nodes, state |-> s, visited |-> TRUE]
    ELSE [nodes   |-> entry.nodes + nodes,
          state   |-> IF s = "Found" \/ (s = "Timeout" /\ entry.state # "Found")
                      THEN s ELSE entry.state,
          visited |-> TRUE]

UpdateProfile(w) ==
    /\ pc[w] = "profile"
    /\ rootProfile' = [rootProfile EXCEPT ![RootOf(task[w])] =
                          ProfileEntry(@, visited[w], state[w])]
    /\ Goto(w, AfterProfile(state[w]))
    /\ UNCHANGED <<call, deadlineExpired, mainVars, sharedVars, workerProfile, localVars>>

(* Slip: the shared counter is stored instead of the claimed index. *)
KeepCounter(w) == IF foundSolution = None THEN nextTask ELSE foundSolution

(* Slip: the last finder wins. *)
KeepLast(w) == task[w]

\* Under resultMutex: only the first solution is kept.
KeepFirst(w) == IF foundSolution = None THEN task[w] ELSE foundSolution

Publish(w) ==
    /\ pc[w] = "publish"
    /\ foundSolution' = KeepFirst(w)
    /\ Goto(w, "stop")
    /\ UNCHANGED <<call, deadlineExpired, mainVars, nextTask, stopRequested, timedOut,
                   totalWorkerNodes, profiles, localVars>>

(* Slip: the time-out is not recorded, only the stop. *)
RecordNothing == UNCHANGED timedOut

RecordTimeout == timedOut' = TRUE

Expired(w) ==
    /\ pc[w] = "expired"
    /\ RecordTimeout
    /\ Goto(w, "stop")
    /\ UNCHANGED <<call, deadlineExpired, mainVars, nextTask, stopRequested, foundSolution,
                   totalWorkerNodes, profiles, localVars>>

Stop(w) ==
    /\ pc[w] = "stop"
    /\ stopRequested' = TRUE
    /\ Goto(w, "exit")
    /\ UNCHANGED <<call, deadlineExpired, mainVars, nextTask, timedOut, foundSolution,
                   totalWorkerNodes, profiles, localVars>>

TotalWith(w) == totalWorkerNodes + localNodes[w]

\* Under resultMutex, on the way out.
Exit(w) ==
    /\ pc[w] = "exit"
    /\ totalWorkerNodes' = TotalWith(w)
    /\ workerProfile' = [workerProfile EXCEPT ![w] =
                            [roots |-> localRoots[w], nodes |-> localNodes[w]]]
    /\ Goto(w, "exited")
    /\ UNCHANGED <<call, deadlineExpired, mainVars, nextTask, stopRequested, timedOut,
                   foundSolution, rootProfile, localVars>>

Main == StartReturns \/ StartSearch \/ Spawn \/ Join

Dfs(w) == VisitStopped(w) \/ VisitExpired(w) \/ VisitSolved(w) \/ VisitLast(w) \/ VisitInner(w)

Work(w) ==
    \/ LoopTest(w) \/ ClaimTask(w) \/ NoTaskLeft(w) \/ Dfs(w) \/ UpdateProfile(w)
    \/ Publish(w) \/ Expired(w) \/ Stop(w) \/ Exit(w)

Returned == mainPc = "done" /\ UNCHANGED vars

Next ==
    \/ DeadlineExpires
    \/ Main
    \/ \E w \in Worker : Work(w)
    \/ Returned

Spec == Init /\ [][Next]_vars

\* The operating system runs every thread; nothing makes the deadline pass.
Fairness == WF_vars(Main) /\ \A w \in Worker : WF_vars(Work(w))

FairSpec == Spec /\ Fairness
-----------------------------------------------------------------------------
(* Properties. *)

Holding == {"dfs", "profile", "publish", "expired", "stop"}

ProfilesOK ==
    mainPc = "threads" =>
        /\ rootProfile \in [Roots -> [nodes : Nat, state : SearchState, visited : BOOLEAN]]
        /\ workerProfile \in [0 .. WorkerCount - 1 -> [roots : Nat, nodes : Nat]]

TypeOK ==
    /\ call \in Calls
    /\ deadlineExpired \in BOOLEAN
    /\ mainPc \in {"start", "threads", "done"}
    /\ spawned \in Nat
    /\ result \in SearchState \cup {"running"}
    /\ solution \in Task \cup {RootPath, None}
    /\ nodesExpanded \in Nat
    /\ nextTask \in Nat \ {0}
    /\ stopRequested \in BOOLEAN
    /\ timedOut \in BOOLEAN
    /\ foundSolution \in Task \cup {None}
    /\ totalWorkerNodes \in Nat
    /\ ProfilesOK
    /\ pc \in [Worker -> Holding \cup {"unspawned", "loop", "claim", "exit", "exited"}]
    /\ task \in [Worker -> Task \cup {None}]
    /\ visited \in [Worker -> Nat]
    /\ state \in [Worker -> SearchState]
    /\ localNodes \in [Worker -> Nat]
    /\ localRoots \in [Worker -> Nat]
    /\ sawStop \in [Worker -> BOOLEAN]

\* The answers that would be right: the tasks with a solved node, or the root.
GenuineSolutions ==
    IF call.rootSolved THEN {RootPath} ELSE {t \in Task : SolvedAt(t) # 0}

Started == rootProfile # <<>>
SumOver(S, f(_)) == FoldFunction(LAMBDA a, b : a + b, 0, [x \in S |-> f(x)])
NodesOfRoot(r)   == rootProfile[r].nodes
NodesOfWorker(w) == workerProfile[w].nodes

\* NotFound is a proof that this depth holds no solution, which is what lets
\* the caller try the next depth and call the result optimal: no task was left
\* unclaimed or cut short with a solution in it, whatever the interleaving of
\* claims, stops and time-outs.
NotFoundIsExhaustive == result = "NotFound" => GenuineSolutions = {}

\* Timeout is returned only after the deadline, and never over a solution some
\* worker had already published.
TimeoutIsHonest ==
    result = "Timeout" => deadlineExpired /\ foundSolution = None

\* No two workers ever search the same task.
TasksClaimedOnce ==
    \A v, w \in Worker :
        v # w /\ pc[v] \in Holding /\ pc[w] \in Holding => task[v] # task[w]

\* The nodes the caller is told about are those of the per-root profile and
\* those of the per-worker profile, plus the root: no task's nodes are lost or
\* counted twice when several workers, or several tasks of one root, add up.
\* A search that ends NotFound has visited every node of every subtree once.
\* And the per-root profile agrees with the outcome: the root of the returned
\* solution is reported Found even when another task of that root was cut
\* short or timed out later, and a Timeout shows at some root.
ProfilesAgree ==
    mainPc = "done" /\ Started =>
        /\ nodesExpanded = 1 + SumOver(DOMAIN rootProfile, NodesOfRoot)
        /\ nodesExpanded = 1 + SumOver(DOMAIN workerProfile, NodesOfWorker)
        /\ result = "NotFound" => nodesExpanded = 1 + SumOver(Task, Size)
        /\ result = "Found" => rootProfile[RootOf(solution)].state = "Found"
        /\ result = "Timeout" => \E r \in Roots : rootProfile[r].state = "Timeout"
        /\ result = "NotFound" => \A r \in Roots : rootProfile[r].visited

\* Once a worker has published a solution nobody replaces it.
SolutionWrittenOnce ==
    [][foundSolution # None => foundSolution' = foundSolution]_vars

\* Every call returns, even if a worker reads a stale stop flag for ever.
Terminates == <>(mainPc = "done")

-----------------------------------------------------------------------------
(* The inductive invariant behind these properties. *)

\* Worker w carries an outcome that will end the search.
Carries(w, s) == pc[w] = "profile" /\ state[w] = s
CarriesSolution(w) == Carries(w, "Found") \/ pc[w] = "publish"
CarriesTimeout(w)  == Carries(w, "Timeout") \/ pc[w] = "expired"

Recorded == foundSolution # None \/ timedOut
Decided  == Recorded \/ \E w \in Worker : CarriesSolution(w) \/ CarriesTimeout(w)

\* The calling thread's stages.
MainInv ==
    /\ mainPc = "start" => spawned = 0 /\ foundSolution = None /\ ~timedOut
    /\ mainPc = "threads" => Task # {} /\ ~call.rootSolved /\ spawned <= WorkerCount
    /\ mainPc # "done" <=> result = "running"
    /\ result # "Found" => solution = None

\* A worker exists once spawned; what it holds is a claimed task nobody else holds.
WorkerInv ==
    \A w \in Worker :
        /\ pc[w] = "unspawned" <=> spawned <= w
        /\ pc[w] \in Holding => task[w] \in Task /\ task[w] < nextTask
        /\ pc[w] = "dfs" => visited[w] < Size(task[w])

\* Outcomes are carried and recorded only with cause.
CauseInv ==
    /\ \A w \in Worker : CarriesSolution(w) => SolvedAt(task[w]) # 0
    /\ foundSolution # None => SolvedAt(foundSolution) # 0
    /\ \A w \in Worker : CarriesTimeout(w) => deadlineExpired
    /\ timedOut => deadlineExpired

\* Nobody stops, or leaves with tasks unclaimed, before an outcome is recorded.
StopInv ==
    /\ stopRequested => Recorded
    /\ \A w \in Worker : pc[w] = "stop" => Recorded
    /\ \A w \in Worker :
          pc[w] \in {"exit", "exited"} => Recorded \/ nextTask \notin Task

\* A claimed task with a solution is still being searched towards it, unless
\* the search is already decided.
PendingInv ==
    \A t \in Task :
        t < nextTask /\ SolvedAt(t) # 0 =>
            \/ Decided
            \/ \E w \in Worker : pc[w] = "dfs" /\ task[w] = t /\ visited[w] < SolvedAt(t)

\* What has been returned.
ResultInv ==
    /\ result = "NotFound" => GenuineSolutions = {}
    /\ result = "Found" => solution \in GenuineSolutions
    /\ result = "Timeout" => deadlineExpired /\ foundSolution = None
    /\ mainPc = "done" => \A w \in Worker : pc[w] \in {"unspawned", "exited"}

IInv ==
    /\ TypeOK
    /\ MainInv
    /\ WorkerInv
    /\ TasksClaimedOnce
    /\ CauseInv
    /\ StopInv
    /\ PendingInv
    /\ ResultInv

-----------------------------------------------------------------------------
Outcomes == INSTANCE RootSearchOutcome WITH
    Answers <- Nat, solvable <- GenuineSolutions, answer <- solution

\* The threads together keep the promise of a sequential search.
ImplementsOutcome == Outcomes!Spec
=============================================================================
