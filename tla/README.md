# Verification of rubik-cube-library

TLA+ models of this library's solver and of what it stands on: the threads of
the parallel search, iterative deepening with its pruning, the fast mode with its
two phases and its beam, the cube from its stickers to the coordinates and bounds
of a search node, the computation of the pruning tables, the cache files that
processes share, and the planning, cache preparation and table initialisation
around `Solver::solve`. TLC checks them on small instances (the cube itself at
its real size); TLAPS proves, for every instance, every safety property the
passing runs check.

All code references are to `src/` files of the library (`solver.cpp` is
`src/src/solver.cpp`, and so on).

## Inventory

| Component | Code | State | Operations | What makes it correct |
|---|---|---|---|---|
| Parallel root search | `solver.cpp` `parallelRootDfs`, `parallelDeepRootDfs` | task counter, stop and time-out flags (relaxed atomics), solution, counts and profiles under a mutex, one dfs per worker | claim, visit, publish, stop, join | `NotFound` is exhaustive, `Timeout` true, counts add up, every call returns |
| Optimal search | `solver.cpp` `Solver::solve` (optimal branch), `dfs`, `collectCandidateMoves`, `isRedundant`, `GoalTable` | limit, path, recursion, tasks | one iteration per limit; visit, prune, look up, backtrack | `Optimal` and `DepthLimitExceeded` are proofs |
| Lower bounds | `solver.cpp` `nodeLowerBound`, `phase1.cpp` and `phase2.cpp` bounds | none (tables are constant once built) | maximum over tables, early return, the two other axes | never above the distance, one apart over one move |
| Pruning-table cache | `pruning_tables.cpp` `cachedPruningTable`, `loadFromCache`, `saveToCache`, `cacheEntryReady` | files in the cache directory; per process a descriptor, an offset, a buffer | check, load, build, write, rename | a loaded table is admissible; a published file is whole |
| Table singletons | `pruning_tables.cpp` accessors | a function-local static per table | initialise once, others wait | nobody waits for ever, one file per table |
| Request admission and planning | `solver.cpp`, `auto_plan.cpp`, `optimal_plan.cpp`, `table_profiles.cpp`, `cache_status.cpp` | the request; reads files and environment | plan, validate, check warmth, estimate memory | the tables announced are the tables used |
| Cache preparation | `cache.cpp` `prepareCache`, `ScopedCacheDirectory` | `RUBIK_TABLE_CACHE_DIR` (process-wide) | relocate, inspect, warm, inspect again, restore | the selected directory ends up warm, the variable is given back |
| Fast search | `solver.cpp` `twoPhaseAttempt`, `fastBeamSearch`; `phase1.cpp`, `phase2.cpp`, `move_restrictions.cpp` | budgets, candidates, beam | attempts in turn, then the beam | a returned solution solves, within `maxDepth`, with allowed faces only |
| Table construction | `pruning_tables.cpp` builders, `symmetry_pruning.cpp`, `phase2.cpp` `slicePermutationDistances` | frontier queue, table of bytes | pop, look, write and push | the table holds the distances, or less where symmetry reduces it |
| Cube model | `cube.cpp`, `cubie_cube.cpp`, `move.cpp` | stickers, cubies | validate, parse, convert, turn | turning stickers and cubies agrees; what is accepted is what can be turned to the solved cube |
| Coordinates and move tables | `coordinates.cpp`, `move_tables.cpp` | a coordinate per aspect of a cube | encode, represent, move | moving a coordinate is moving the cube; every index is inside its table |
| Symmetry | `symmetry*.cpp` | rotations, orbits | rotate, reduce, prune | a rotated cube parses; reduction keeps tables admissible |
| Reporting, tools, scripts | profile formatting in `solver.cpp`, `apps/`, `scripts/` | none | parse, print, analyse | text only |

### How the parts interact

An application thread calls `Solver::solve`. The request is planned (an `Auto`
profile becomes a concrete one, depending on the budget and on which files are
in the cache directory), validated, possibly refused for a cold cache or for
memory, and then searched. The search touches the pruning tables; the first
thread to touch one initialises it, from its file or by building and saving it,
and every other thread waits. Files are looked up in the directory that
`RUBIK_TABLE_CACHE_DIR` names at that moment, which `prepareCache` may be
changing. Processes meet only through the files. The optimal search runs
iteration after iteration; each is a recursive `dfs` or a set of tasks that
worker threads claim. A search node carries the cubies and, beside them, every
coordinate, each moved through its own table; the bounds are read from the pruning
tables at these coordinates, so a coordinate that drifted away from its cube would
give the bound of another.

### What is hard here

* *Concurrency inside a process*: relaxed atomics, a mutex, joins; statics
  initialised while others wait; an environment variable read at several
  instants and changed by another thread.
* *Concurrency between processes*: writers share one temporary name, and a
  rename publishes whatever has that name.
* *Failure*: reads, writes, closes, renames and removes fail; processes are
  killed; the machine stops with unsynced data.
* *Time*: a deadline can pass between any two node visits, and race with a
  solution.
* *Pruning*: bound, canonical move order, goal table and task split each cut
  branches; together they must not cut the last shortest solution.
* *Knowledge kept in several places*: the set of tables of a profile is written
  down four times (planning, warmth, preparation, estimate) and once more,
  implicitly, in the search.
* *Several representations of one cube*: stickers, cubies, coordinates along
  three axes, and the nodes of the two phases, each moved by code of its own.
* *Several deadlines*: in Fast mode each phase has a budget of its own, the
  request has its deadline, and the answer must not confuse them.

`PROJECT.json` lists each hazard at its line, with the properties about it.

## The modules

| Module | Models |
|---|---|
| `RootSearchOutcome` | abstract: what one depth-limited search promises its caller |
| `ParallelRootSearch` | the worker threads; implements `RootSearchOutcome` |
| `ParallelRootSearchProofs` | theorems about it |
| `Puzzle` | cubes, moves, the canonical order of moves; shared by the searches |
| `PuzzleProofs` | paths, distances, and that the canonical order loses no shortest way |
| `OptimalSearch` | iterative deepening, dfs, pruning, goal table, split |
| `OptimalSearchProofs` | theorems about it, EXTENDS `PuzzleProofs` |
| `FastSolve` | Fast mode: attempts, phase 1, phase 2, beam |
| `FastSolveProofs` | theorems about it, EXTENDS `PuzzleProofs` |
| `TableCache` | one table and its file, shared by processes |
| `TableCacheProofs` | theorems about it |
| `SolvePlanning` | pure: plans, profiles, sizes |
| `SolveRequest` | requests and preparations of one process, EXTENDS `SolvePlanning` |
| `SolveRequestProofs` | theorems about it |
| `Facelets` | stickers, geometry, turns, rotations of the whole cube |
| `Cubies` | parse, validation, turns of cubies, EXTENDS `Facelets` |
| `Coordinates` | encoders, representatives, move tables, images under rotations, EXTENDS `Cubies` |
| `LargestLookup` | pure: the largest of several lookups, cut short at a limit |
| `LowerBounds` | the bounds of a node in every profile and phase, EXTENDS `Coordinates` and `LargestLookup` |
| `SearchNodes` | state machine: a caller's pattern validated, parsed, searched; composes the modules from `Facelets` on |
| `CubeFacts` | finite facts about the tables of the cube, as assumptions TLC evaluates completely, EXTENDS `Coordinates` |
| `SearchNodesProofs` | theorems about `SearchNodes`, EXTENDS `SearchNodes` and `CubeFacts` |
| `CoordinateGraphs` | pure: pairs of coordinates, orbits, quotient graphs |
| `PruningBuild` | state machine: the breadth-first builders |
| `PruningBuildProofs` | theorems about it |
| `MCPuzzle`, `MCCoordinates` | a small puzzle, and the tables small enough to build, for the instances |
| other `MC...` | the instances TLC checks |

Operators a comment calls a slip or a mutant are plausible coding mistakes;
nothing uses them, they are put in a definition's place to see that a property
notices.

### ParallelRootSearch

One call of `parallelRootDfs` or `parallelDeepRootDfs`. A *task* is a root
candidate or, in the deep split, a pair of moves; its subtree is reduced to the
number of nodes and the position of the first solved one. One node visit is one
step, so everything can happen between two visits. `stopRequested` is a relaxed
atomic: a worker may read FALSE after another stored TRUE (`ReadsGo`), but not
again after it has itself read TRUE (`ReadsStop`, per-variable coherence). The
mutex-protected blocks are one action each. A stopped `dfs` counts a few more
nodes on its way up, any number of those left (`VisitStopped`). The deadline
passes at any moment or never.

### Puzzle

The cubes and moves are parameters. `IsRedundant` is the test that `solver.cpp`,
`phase1.cpp` and `phase2.cpp` each write out; `TurnsAssumption` names what it rests
on: two turns of a face are a turn of it or none (`Closed`), turns on one axis
commute, and an axis has at most one face of each order. TLC evaluates it on the
small puzzle of the runs, and the same of the eighteen moves of the real cube, and
of the ten of phase 2, on their 54 stickers (`TurnsOfTheCube` in `MCSearchNodes`).

### OptimalSearch

The loop over limits and the recursion of `dfs`. `frames` holds the calls that
are in their loops; a call that returns `NotFound` gives control to the frame
above (`Resume`). The puzzle is a parameter, and the candidate moves of a frame
are tried in any order, which covers every ordering mode. The bound is a
parameter with one assumption, admissibility (`BoundAssumption`): it need not
be consistent, because a hole in a cache file can make it jump (see
`TableCache`). Tasks of a split are searched one after the other in any order:
what threads add to that is the subject of `ParallelRootSearch`, whose
`NotFoundIsExhaustive` and `ImplementsOutcome` say that the threads together
answer as a sequential search of the tasks would.

### FastSolve

The fast branch of `Solver::solve`. `attempt` runs through `Attempts`; an
attempt is phase 1 (`Phase1Iteration`, one depth limit each), the ranking of its
candidates (`Ranked`), and phase 2 for each of them (`NextCandidate`,
`Phase2Iteration`); then comes the beam, a layer per action. The depth-first
searches have no state that outlives an iteration, so they are tables: `Ways`
gives what a search with a given limit finds from a cube, in the order it finds
it, which matters because phase 1 stops at its candidate limit and phase 2 at
its first solution. The phases' budgets are never zero (the code clamps them to
1 ms; the clamp itself is not in the model), so `Phase1Expires` and `Phase2GivesUp` are always possible; a phase 1
that expires keeps any prefix of what the iteration would have found. The
request's deadline passes at any moment if it has one and is looked at where the
code looks: between attempts, between candidates, between layers. The bounds are
parameters assumed admissible (`BoundsAssumption`), each for its own goal and
moves. `trimmed` is a ghost variable: the beam has dropped a path for its width.
Ties in the sorts end with the order of the paths, which all differ, so `sort`
and `nth_element` have one result and `Widest` is exact; `Sorted` inserts one path
after the other by that order, `Tried` the moves of a node by theirs (a stable sort),
and `Kept` is a loop that keeps what passes a test. One oddity of the code
is without effect and not in the model: a `BeamEntry`'s `.score` is computed
from `path.size()` after `.path` was initialised by `std::move(path)`
(`solver.cpp:1115`), hence without the length; the paths of a layer have equal
lengths, so the order is the same.

### TableCache

`files` maps file identities to cells; `path` and `tmp` are names. A descriptor
keeps referring to its file when the name moves on, which is what makes the
races interesting: create truncates the file another process is writing, that
process goes on at its own offset, and the cells between read as zero. The
header is cell 1; the payload has one cell per entry. `MachineCrash` leaves of
the published file any prefix with any cells zeroed, and forgets all processes.

Every call that reports an error may fail: the create, a write, the close, and
each rename for any reason (access, I/O, a destination in use), also when the
temporary file is in place. A first rename that fails leads to `Unlink` and
`RenameAgain`; the removes ignore their error, so the name may also stay. If the
second rename fails, or the process is killed before it, the table is under no
name but the temporary one, which the next writer truncates. So `saveToCache` can
take the final name away. What holds is `OnlyDamageIsReplaced`: under the lock a
process saves only because its load failed, so what a rename or the remove takes
away is a damaged file, and a whole replacement is under the temporary name at
that moment. Without the lock this is false (two cold processes both build; the
slower one can remove the file of the faster), and only `Served` and
`LoadedIsAdmissible` are claimed. `ReadErrors` says whether opening or reading a
file may fail though it is there and whole: TRUE in `cache_race`, FALSE in
`cache_locked`, because with such errors a `RequireWarm` request builds after its
check (`StrictWarm`), and a whole file may be saved over.

`ExternalLock` is the discipline `docs/runtime.md` asks of deployments, taken
more broadly than its words: it serialises every use of the table, later repairs
included, and not only the first warm-up.

### SolvePlanning and SolveRequest

The tables that the code always uses together are one element of `Table`. Their
sizes are parameters. `SolvePlanning` has the pure decisions; `SolveRequest` the
threads. A step of a thread is the code between two accesses of shared state:
planning, argument checks, warmth check, memory check, and then, table by table,
the accessor (wait, initialise, load or build and save). `todo` is the set of tables
a thread has yet to touch, `TableOrder` their order; `NextTable` is the first of them. `origin` is a ghost
variable: where the file of a loaded table is. `SearchEnds` stands for the
search itself. `CheckWarm` and the inspection of a directory are one step
although the code looks at one file after the other: files are never removed
while threads of this process run, so the answer is that of one moment.

### Facelets, Cubies, Coordinates, LowerBounds and SearchNodes

These are at the real size: 54 stickers, 18 moves, 8 corners and 12 edges, and
every coordinate with the count the code gives it. A sequence of turns derives
its sources from the geometry of the stickers, as `cube.cpp` does. A move table
is not computed whole: `MovedCoordinate` is an entry of it, the encoding of the
moved representative, as `buildTable` computes it, on demand. The slice
permutation has no entry for the moves that leave the slice; the code writes the
state itself there, and so does the model. The pruning tables have up to 140
million entries, so `Near` computes what lies within `Radius` moves of the goal
and counts every other entry as `Radius + 1`, which is never more than the table
holds.

`SearchNodes` puts them together. A behaviour enters a pattern (`Init`),
validates it, parses it into a root node, and walks moves; at a node of G1 the
second phase may start with a parse of its own and walk on beside the node of the
first. The caller's stickers are turned by the same moves. Parsing and moving are
those of the code; the properties compare the representations. A caller's pattern
is the solved cube or a scramble of five moves with stickers exchanged: corners
or edges twisted, flipped, exchanged, centres out of place, colours mirrored or
doubled. The moves of a pattern are a sequence and its exchange any function on
facelets (`StartsAssumption`); its `kind` is the label by which `EntriesJudged`
knows what validation should say. That the labels of the run are true is an
assumption TLC evaluates (`KindsOfTheStarts`), from what each place of the pattern
shows and without the code's parse or validation.

The rotations of `DirectionSymmetry` and the moves under them (`DirectionMove`)
are static tables of `solver.cpp`; they stand in `Coordinates` because `CubeFacts`
is about them too. `Tabulated` is the function it is given: it makes TLC compute a
table once.

### CubeFacts

What can be read off the tables of the cube case by case: how facelets make up
places, how each corner and each edge is read from the colours at its place, how
each of the eighteen moves takes stickers and cubies along, what the two
rotations do to them, and that the representative of each coordinate's index has
what the index was made from. Each is an `ASSUME` without any constant and with
bounded quantifiers (the 40320 orders of the corners are the most cases), so that
TLC examines it completely, in run `pruning_build`, whose module extends
`CubeFacts`. It is not in `search_nodes` because it says nothing about what a
caller enters. None of them speaks of a whole cube but the solved one and the
eighteen of the moves: what holds of the 43 quintillion others is proved.

### CoordinateGraphs and PruningBuild

One behaviour of `PruningBuild` is one builder: `Pop` is the outer loop, `Look`
one iteration of the inner, `Expanded` its end. Depths are bytes: `DepthAfter` is
addition modulo 256, and 255 is the unvisited entry, so a distance of 255 would be
taken for none. What differs between the builders is the graph they walk:
`Follow` gives the entries a builder looks at from an entry, in its order. For a
single coordinate that is the move table, for a pair the product (`Paired`), for
a reduced table the orbits of all moves of all the values of an orbit
(`Quotient`). `Distance` is defined by `DistanceAssumption` alone: nought for the
solved value, one apart over a move, and one less over some move.

## The runs

| Run | Question | Bounds | Shows |
|---|---|---|---|
| `parallel_search` | does the team of threads answer once, truthfully and always? | 2 threads, up to 3 tasks of 1 or 2 nodes, root and deep split, solved root | all eight properties, and that it implements `RootSearchOutcome` |
| `optimal_search` | are the answers of iterative deepening proofs? | permutations of 5 places, 12 cubes 1 to 4 moves away, maxDepth 1 to 4, radius 0 or 2, split 0..2 | optimality, completeness, termination |
| `fast_search` | does Fast mode return solutions only, and always answer? | the same puzzle, 7 cubes, maxDepth 3 or 5, 3 profiles, a face or an axis blocked, candidate limits 1 to 4, beam 2 to 12 wide | all six properties |
| `search_nodes` | do the representations of a cube agree, are the bounds safe, is the right cube accepted? | the real cube, 14 patterns, `MaxMoves` 2 from a cube as it came and 1 from an exchanged one, `Radius` 2 | all six properties |
| `pruning_build` | does a built table hold the distances? | slice edges (495 values, 18 moves), the same reduced by 8 rotations (72 orbits), slice permutation (24, phase 2), pairs of the small puzzle, plain, in phase 2 and reduced | `TableIsTrue`, `TypeOK`; it also evaluates `CubeFacts` |
| `cache_race` | what can processes do to each other without a lock? | 2 processes, 3 starts, kills, 1 machine crash, any call failing, table of 2 entries | never an inadmissible table; everyone is served |
| `cache_locked` | what does the recommended lock give? | 2 processes, 4 starts, kills, 1 machine crash, any call but reads failing | whole files; only damaged ones are replaced or removed; what is published is whole |
| `requests` | does what a solve touches fit its plan, alone and beside another? | 1 thread with every option combination, or 2 threads with 2 calls; cold, half-warm and warm; saves may fail | memory, strict warmth, true refusals, the window of `Auto`, no blocking |
| `preparation` | does `prepareCache` do what it says beside a solve? | 2 threads, one prepares, 2 directories | warmth and restoration |
| `fast_require_warm`, `disabled_policy`, `mirrored_corner` | three promises of the documents | 1 thread; 1 thread; the 14 patterns, no moves | violations, see below |

Why the bounds are enough to be interesting. Three tasks for two threads is the
least where a worker claims again after finishing while another is still busy;
a subtree of two nodes with the solution in either place is the least where the
search is interrupted before and after it. In the deep split two tasks share a
root, which is what the merged profile needs. The puzzle of `MCPuzzle` has
two commuting faces on one axis, one of them with two turns, and a face across
with three, whose half turn alone belongs to phase 2; the cubes of G1 are 12 of
120. Each clause of `isRedundant` prunes something, some cubes have no shortest
solution without two turns on one axis, and the bounds are projections like the
real tables; that of `optimal_search` has a hole in it, so it is neither exact
nor consistent. In `fast_search` the beam is narrow enough to drop paths for two
profiles and wide enough not to for the third, both phases fail by depth and by
time, some requests have no solution within their depth or without their blocked
faces, and some start inside G1. The last task split is left out for cubes three
moves away without goal table: the order of its tasks alone makes a million
states, and cubes nearer show the same. A table of two entries at
distances 1 and 2 tells a hole from either entry, and two writers are what the
races over one temporary name take. In `search_nodes` two moves are
the least after which a coordinate has been moved from a value that is itself the
result of a table, and after which turns of two faces have mixed corners and
edges; from the scramble every coordinate starts away from its solved value, and
the scramble keeps the moves off the representatives the tables are computed on.
`Radius` 2 is the largest number of moves walked, so every bound of a node walked
to is one the real tables have too. The two slice tables of `pruning_build` are
real tables of the library (the second as a factor of one); the wider tables have
the same builders and graphs of the same two kinds, and the theorem covers them.
Every counter that is bounded is bounded in
a guard: `MaxRuns`, `MaxMachineCrashes`, the calls of a session, `MaxMoves`; the limit of
`OptimalSearch` is bounded by `maxDepth`, as in the code.

`CHECK_DEADLOCK FALSE` is used where the system rightly stops: all calls made,
all starts used up, all moves walked, the pattern refused, the table built, or
the search has returned. `parallel_search` checks
deadlock: the only state without a step of its own is the returned one.

### Fairness

`FairSpec` assumes that a running thread keeps running: weak fairness of the
steps of each worker and of the main thread (`ParallelRootSearch`), of a process
inside the cache code (`TableCache`), of a caller (`SolveRequest`), of the
search (`OptimalSearch`, `FastSolve`). That is what an operating system's scheduler gives.
Nothing assumes that a deadline passes, that a call is made, that a process
starts or ends, or that a relaxed store is ever seen: `Terminates` holds even if
a worker reads the stop flag as FALSE for ever, because its tasks are finite. A
thread that waits for another's static initialiser needs no strong fairness:
once initialised a table stays so.

### Findings

Three runs show a disagreement between a document and the code.

* `fast_require_warm`: `RequireWarm` does not look for the phase-2 tables, which
  a Fast solve builds and saves.
* `disabled_policy`: `CachePolicy::Disabled` does not keep a solve from reading
  and writing the cache.
* `mirrored_corner`: a pattern with the colours of a corner in mirrored order, or
  with one colour of a corner doubled, passes validation, and its parse is the
  solved cube (`sameCornerCubie` compares sets of colours).

Two further edges are stated exactly by properties that hold. `AutoRefusal`: an
`Auto` request that the smaller profile would fit is refused only with a budget
between the payload of LargeLocal and payload plus overhead. `StrictWarm` and
`PublishesComplete`: a `RequireWarm` request never builds until the machine
crashes or a read fails (nothing is synced, and the readiness check reads a header only); what is
published after a crash is whole again.

## The proofs

`ParallelRootSearchProofs` proves, for any calls, any number of threads and any
stale reads, from `CallsAssumption` only: `TypeCorrect`, `NotFoundExhaustive`,
`TimeoutHonest`, `ClaimedOnce`, `WrittenOnce` and `Refinement`.
`NotFoundIsExhaustive` is far from inductive. `IInv` adds the reason: a claimed
task that holds a solution is still being searched *before* its solution, or
some outcome has been recorded or is being carried to the point where it will be
(`PendingInv`); nobody stops, or leaves with tasks unclaimed, before an outcome
is recorded (`StopInv`); outcomes are carried only with cause (`CauseInv`). When
all workers have left without an outcome, no task is unclaimed and none is
pending, hence none has a solution. The refinement follows from the same
invariant: `Join` is the one step that answers, and every other step leaves the
abstract state alone.

`ProfilesAlwaysAgree` goes further: the node counts that the
workers keep, that the roots show and that the caller gets agree, with each
other and with the outcome. It follows the nodes through the run (`ProfilesInv`,
on top of `IInv`): what a worker has counted is in a root's entry or about to be
entered (`NodesBalance`), it reaches the total and the worker's profile at once
(`WorkersAddUp`), and until some outcome is on its way no task has been cut
short (`NothingCutShort`), which makes the counts of a `NotFound` the size of
all tasks. That a solution or a time-out shows at a root (`SolutionShown`,
`TimeoutShown`) needs that in the deep split a later task never replaces Found
by another state, or a time-out by NotFound (`ProfileEntry`). The sums are folds
over finite sets; the module proves what it needs of them (`SumIs`, `SumAdds`)
from the recursion, with least counterexamples in place of induction.

`PuzzleProofs` is about paths and distances in any puzzle with
`TurnsAssumption`. `CanonicalWay` is the reason `isRedundant` is safe: a cube
within n moves of a goal is within n moves of which none is redundant after the
one before, for any goal and any moves closed under inverses and turns of a
face, so also for phase 2 and with blocked faces. A shortest way is put in order
by exchanging moves of one axis; two turns of a face next to each other would
make a shorter way.

`OptimalSearchProofs` proves `TypeCorrect`, `OptimalIsTrue` and
`DepthLimitIsProof`, for any admissible bound, any radius of the goal table and
any split. `AnswerIsOptimal` and `DepthLimitIsTrue` speak of the answer; `IInv`
says why it will be right. No solution is shorter than the limit
(`NoneIsShorter`), and while an iteration runs, if a solution of `limit` moves
exists, a canonical one is still open (`NothingIsLost`): the rest of it goes on
from a task not begun, from the call of dfs that is beginning or from a move
that a loop on the stack has not tried. Each cut keeps that: the bound because
it is admissible, `isRedundant` because the open solution is canonical, the goal
table because it answers where a solution fits (`GoalTablesAreShortest`), the
split because its tasks begin every canonical solution. The stack is empty when
an iteration ends, so nothing is open and nothing is missed.

`FastSolveProofs` proves all five safety properties of Fast mode: `TypeCorrect`,
`FastAnswersAreTrue`, `CandidatesAlwaysEnter`, `DeepeningSkipsNothing` and
`WideBeamIsOptimal`. Its first half is about data: what insertion, joining,
sorting, truncation and filtering keep of a sequence, and `WaysAreRight`, that
the table of a depth-first search has exactly the canonical ways that first
enter the goal with their last move, each once. With `CanonicalWay` an empty
iteration means that the goal is out of reach of its limit (`NothingFound`),
which is the step from one limit to the next (`LimitsAreSafe`). The other
conjuncts of `IInv` carry the properties between the searches: candidates enter
G1 within the depth (`CandidatesEnter`), the best solution solves
(`BestSolves`), the beam has paths of one length (`BeamHolds`). Of the beam,
`BeamHolds` also says why it is exhaustive until it drops a path: every
canonical solution within the depth is longer than the beam's paths and begins
with one of them. A layer keeps that, since the solution's next move is one of
the children, and no bound throws it out (`SolutionGoesOn`).

`SolveRequestProofs` proves, for any callers, directories, sizes and requests,
from `PlanningAssumption` and `RequestAssumption`: `TypeCorrect`,
`MemoryIsRespected` and `AutoRefusedByOverhead`. The memory theorem needs that
what a solve has touched and has left to touch is always within what was charged
before it began (`TouchesWithinCharge`), although planning and search list the
tables in two different places; the guards of the statics belong to the thread
that initialises, one each (`GuardsHeld`). Three more theorems have a
hypothesis, because without it the code does not keep the promise:
`NotReadyWasCold` assumes `DirectoryKept`, that no preparation selects another
directory (a solve that runs beside one would look at two directories);
`StrictNeverBuilds` also `StrictIsOptimal`, that RequireWarm is not asked of a
Fast solve (the finding `fast_require_warm`); `PreparationLeavesFiles` assumes
`OnePreparer` or `DirectoryKept` (two overlapping preparations would give back
each other's directory). Run `requests` satisfies the first two, run
`preparation` `OnePreparer`.

`TableCacheProofs` proves, from `CacheAssumption`: `TypeCorrect` and
`Admissibility` without any discipline, for any number of processes, restarts
and crashes; and, assuming `ExternalLock`, `PublishedWhole`, `WholeIsKept`,
`RepairIsWhole` and, if `~ReadErrors`, `StrictWarmKept`. Admissibility rests on one observation,
`FilesInv`: every writer writes the same image at the same offsets, so whatever
the interleaving a file is a prefix of the image with zeros in it, and zero is a
lower bound of anything; `ReaderInv` carries that to the buffer of a reader.
`LockInv` adds that one process is busy at a time, that the temporary file is
exactly as long as its writer has written and whole from the first rename to the
second, that the published file is not the one under construction (so either
rename publishes a whole file), and that nobody builds or saves while a whole file
is published, unless reads fail (so none is replaced or removed).

`PruningBuildProofs` proves, from `TableAssumption`, `FollowAssumption` and
`DistanceAssumption`: `TypeCorrect` (no byte overflows, and none written is 255)
and `TableIsTrueAlways`. `TableIsTrue` says nothing before the end; `IInv` says
why it will hold there. The queue is in order of depth and spans two depths
(`FrontierInOrder`), the entry being expanded is the shallowest
(`CurrentComesFirst`), a visited entry is queued, being expanded or expanded
(`NothingLost`), and no entry was written deeper than any of its values is
(`NoDeeper`). The heart is `SeenInTime`: when an entry is first seen, at depth
d, no value of it can be nearer than d. For the nearest value not visited has a
visited, unfinished predecessor one move nearer (`NearerUnfinished`, by the
least element of a set of naturals), that is in the queue or current, and so no
shallower than the current entry. Nothing is assumed of the symmetries but that
values which can be solved are not led by them to entries without any
(`FollowAssumption`, idle when every value can be solved): whatever the
equivalence, the table never exceeds a distance, so a reduction that went wrong
would make bounds weaker and never unsound. Where the values of an entry are
equally far (`Uniform`, trivially so in an unreduced table) the table is exact
(`NoShallower`); that the rotations used have this property is checked by TLC
for the slice edges, as an assumption of `MCPruningBuild`.

Three theorems go on from the tables to the searches of `Puzzle`.
`BoundIsAdmissible`: read at a cube's coordinate, a finished table never exceeds
how far the cube is from the goal (`CoordinateIsNearer`, by the least distance
where it would fail). `TablesAreAdmissible`: a bound looked up in any number of
true tables, at the coordinates of the cube or of its rotations, is admissible;
so is one from tables with zeros in them, which is what a damaged cache file
leaves (`Admissibility` of `TableCacheProofs`). Its conclusion is the
`BoundAssumption` of `OptimalSearch` when the cubes and moves are all, and each
part of the `BoundsAssumption` of `FastSolve` with the goal, moves and cubes of
a phase. `EarlyReturnPrunesAlike`: the maximum that returns at once above
`pruneAbove` is one of the lookups or nought (hence looked up itself, also where
one maximum is a value of the next, `LargestIsLookedUp`), and it exceeds
`pruneAbove` exactly when some lookup does. The hypotheses of the first two: the
coordinate is 0 at the goal, a move of the cube is one of the coordinate
(`IsCoordinate`), and the moves have their inverses and lead to no other cubes
(`IsSearched`).

`SearchNodesProofs` is about the cube itself: for any set of patterns
(`StartsAssumption`), any number of moves (`MaxMovesAssumption`) and any radius
of the tables (`RadiusAssumption`), and from `CubeFacts`. It proves
`CoordinatesStayInRange`, `CubiesFollow`, `CoordinatesFollow`,
`PruningStaysSafe`, `BoundsStayConsistent`, `StickersAreKept`,
`ReachableStaysAccepted`, `ValidationIsRight` and `EntriesAreJudged`. The provers
cannot compute with 54 stickers or factorial ranks; so what is finite and about
one place, one cubie or one move is a fact TLC has examined, and the proofs are
about what these facts make of any cube.

* *Validation is kept by turning.* A cube is two permutations and the turns of
  its cubies; it is valid by their sums and parities (`ValidMeans`). A move is a valid cube too, so turning is composition: the twists
  add up (`TurnsBalance`, sums over a permutation of the places), and the parity
  of a composition is the sum of the parities (`ParityAdds`, by counting
  inversions), hence `TurnedIsValid`. `TurnedBack` undoes a move.
* *Stickers and cubies.* `Reads` says that each place is read as the cubie and
  turn the cube has there. A pattern is parsed to a cube exactly when it reads so
  (`ReadIsParsed`, `ParsedIsRead`); turned stickers read as the turned cube
  (`TurnedReads`); a cube's own stickers read as it (`WrittenIsRead`). Accepted
  patterns with miscoloured corners still read, provided every corner shows one
  sticker of U or D. That every accepted pattern does is a counting argument
  (`CornersShowUpOrDown`, `AcceptedShowsUpDown`): there are eighteen stickers of
  U or D, the centres have two and the edges eight, and no corner has none.
* *What is accepted.* A cube is `Physical` if every cubie has one place, twists and
  flips cancel and the orders of corners and edges have one parity. Its stickers
  are those of the solved cube in other places (`StickersAreExchanged`), so the
  colours are nine of each and it is accepted (`PhysicalIsAccepted`). Conversely an
  accepted pattern `Shows` a physical cube (`AcceptedShows`): its edges and centres,
  and at each corner no colour that the corner of the cube has not, that of U or D
  where the cube has it. The order of the other two is not looked at, which is
  the finding `mirrored_corner`; so `Shows` cannot be made equality.
* *The other two axes.* A rotated cube reads as `RotatedCubies`, which is valid
  (`RotatedIsParsed`), and rotating after a move is the rotated move after
  rotating (`RotatedTurned`).
* *Coordinates.* Two cubes are `Alike` for a coordinate if they agree in what it
  encodes. Alike cubes have the same index (`EncodedAlike`) and stay alike under a
  move (`TurnedAlike`); the representative of a cube's index is alike to the cube
  (`CubesAreIndexed`). So an entry computed on the representative is right for the
  cube (`CoordinateFollows`), for every coordinate, every valid cube and every move
  its table has; the coordinates of the node, of the two rotated ones and of
  phase 2 follow (`NodeFollows`, `Phase2NodeFollows`).
* *Bounds.* The cubes within n moves of the solved one have indices in the n-th
  layer of `Near` (`IndexFollows`, `TurnedIsNear`), so no lookup is above n, and
  one move changes a lookup by at most one (`LookedNear`, `LookedOneLess`). The
  maxima of each profile with their early returns keep both (`BoundsAreBelow`,
  `BoundsOneLess`, `Phase2OneLess`).

`IInv` has four parts beside the types. An accepted pattern reads as the cube
searched (`AcceptedIsFollowed`): the properties speak of the node, but a turn
keeps them only because the caller's stickers still read as its cube, one sticker
of U or D at each corner. The nodes are those made anew of that cube
(`SearchNodeIsMade`, `Phase2NodeIsMade`, the latter with the cube inside G1, which
the ten moves never leave). A cube that came by moves was never refused, shows its
cube's own stickers and lies as near the solved one as it was moved
(`EntryIsReached`). `ReachableStaysAccepted` reads off that a cube as moves bring
it about is never refused, is parsed to exactly what it shows, and is solved by
its stickers when it is by its cubies: validation has no false alarms, for any
scramble. `ValidationIsRight` says more, of any pattern: the stickers of a
physical cube are accepted, what is accepted shows one, and the verdict remains
true of the cube as it is turned (`VerdictHolds`). `EntriesAreJudged` is the property
of the run, with the hypothesis that the labels are true (`KindsAreTrue`: a legal
pattern is a physical cube's, a mistake shows none). Of the run's patterns
`KindsOfTheStarts` establishes it: a legal one is the stickers of the cube it
shows, and this is physical; each mistake leaves some place without a cubie to
show, shows one edge in two places, or shows one cube only, which is not physical.

Only model-checked are:

* all liveness (`Terminates`, `Answers`, `Served`, `EveryCallReturns`), which is
  out of the prover's reach;
* the facts of `CubeFacts`, the labels of the patterns, and that the real turns
  satisfy `TurnsAssumption` and `Closed` (`TurnsOfTheCube`), which are finite and
  evaluated completely.

## Not modelled

The reasons stand in `PROJECT.json`, component by component. In short: pure
string handling, the command-line tools, scripts and developers' diagnostics
carry no state worth a model; root ordering decides only an order, and
`OptimalSearch` allows every order. Within Fast mode, node counts and the length
of the time budgets are left out; of the cube, its text form and the notation of
moves; of the bounds and the symmetry code, what only experimental environment
variables switch on or only tests call (the symmetry bounds, tables beside their
profile, composition and inverses of rotations, the canonical symmetry of a state).

What the models assume and do not check. The searches take any puzzle with
`TurnsAssumption` and any admissible bounds (`BoundAssumption`,
`BoundsAssumption`); the runs give them a small one. Of the real cube,
`TurnsOfTheCube` checks the turns completely. Its bounds are admissible by
`BoundIsAdmissible`, `TablesAreAdmissible` and `EarlyReturnPrunesAlike`,
provided each move of the cube is a move of each coordinate and the solved cube
has the index nought (`IsCoordinate`). Of each coordinate of the real cube the
lemma `CoordinateFollows` proves the one and the fact `SolvedIsNought` states the
other; there is no single theorem across the two modules, since one takes cubes
as a parameter and the other has them. `PruningStaysSafe` proves the same of the bounds of `LowerBounds`
themselves, with tables cut off at `Radius`. `TableCache`
takes the table built in memory as exact (`Distance`). Further: the experimental
environment flags are unset, and two preparations do not overlap.

## Plan

1. The orbits of the symmetry-reduced tables at their real size: that the
   rotations used keep `Uniform` is evaluated for the slice edges only.
2. That every `Physical` cube can be turned to the solved one, which takes the
   generation of the group from its moves: it would make `ReachableStaysAccepted`
   and `ValidationIsRight` one theorem.

The documents' promises already shown violated keep one run each; runs that
share an instance are merged before new ones are added.
