---------------------------- MODULE SolveRequest ----------------------------
(***************************************************************************)
(* The threads of one process that call Solver::solve up to its search,    *)
(* and prepareCache.  They share what a request is decided on: the         *)
(* environment variable naming the cache directory, the files in it, and   *)
(* the tables the process has loaded, each a static that the first thread  *)
(* to touch it initialises while the others wait.                          *)
(***************************************************************************)
EXTENDS SolvePlanning

CONSTANTS
    Caller,         \* application threads
    Preparer,       \* those that may call prepareCache
    Dir,            \* cache directories
    Home,           \* the directory named when the process starts
    InitialFiles,   \* the sets of tables a directory may hold at the start
    Session,        \* uses of the library, by name: the callers, the options they call solve and
                    \* prepareCache with, and a bound on the calls
    SavesMayFail,   \* may saveToCache fail (disk full, permissions)?
    None

ASSUME RequestAssumption ==
    /\ Preparer \subseteq Caller
    /\ Home \in Dir
    /\ InitialFiles \subseteq SUBSET Table
    /\ \A use \in DOMAIN Session :
          /\ Session[use].callers \subseteq Caller
          /\ Session[use].options \subseteq SolveOptions
          /\ \A s \in Session[use].setups :
                s.options \in SolveOptions /\ s.dir \in Dir \cup {None} /\ s.dryRun \in BOOLEAN
          /\ Session[use].calls \in Nat
    /\ SavesMayFail \in BOOLEAN
    /\ None \notin Dir \cup Caller \cup {"unsaved"}
    /\ "unsaved" \notin Dir

VARIABLES
    directory,      \* the directory RUBIK_TABLE_CACHE_DIR names
    files,          \* files[d]: the tables with a file in d
    loaded,         \* tables this process has in memory
    initialising,   \* initialising[t]: the caller running t's initialiser
    origin,         \* origin[t]: where the file of a loaded t is, for the properties
    pc,             \* pc[c]: where caller c is
    call,           \* call[c]: c's last call, its plan and its status
    todo,           \* todo[c]: the tables c has yet to touch
    calls,          \* calls made so far
    session         \* the use the process makes of the library

shared == <<directory, files, loaded, initialising, origin>>
vars == <<shared, pc, call, todo, calls, session>>

NoCall == [kind |-> "none", touched |-> {}]

Init ==
    /\ directory = Home
    /\ files \in [Dir -> InitialFiles]
    /\ loaded = {}
    /\ initialising = [t \in Table |-> None]
    /\ origin = [t \in Table |-> None]
    /\ pc = [c \in Caller |-> "idle"]
    /\ call = [c \in Caller |-> NoCall]
    /\ todo = [c \in Caller |-> {}]
    /\ calls = 0
    /\ session \in DOMAIN Session

\* Whether a caller may make another call.
MayCall(c) == pc[c] = "idle" /\ c \in Session[session].callers /\ calls < Session[session].calls

Goto(c, l) == pc' = [pc EXCEPT ![c] = l]
Return(c, status) == Goto(c, "idle") /\ call' = [call EXCEPT ![c].status = status]

(* Slip: the tables of the smallest profile are looked for whatever the profile. *)
MissingSmallest(d, profile) == ProfileTables("Embedded") \ files[d]

(* Slip: the large tables are looked for whatever the profile. *)
MissingWithLarge(d, profile) == (ProfileTables(profile) \cup {"cornerEdges"}) \ files[d]

\* missingCacheBytes and profileCacheWarm, for a directory.  The files are
\* looked at one by one, but none ever goes away, so the answer is that of one
\* moment of the loop: its end if all are there, its start if one is missing.
MissingTables(d, profile) == ProfileTables(profile) \ files[d]
ProfileCacheWarm(profile) == MissingTables(directory, profile) = {}
WarmProfiles == {p \in Profile : ProfileCacheWarm(p)}

-----------------------------------------------------------------------------
(* Solver::solve *)

\* kind, options and cube are the arguments; the rest is what solve works out,
\* and, for the properties, what the request saw and did: warm (the profiles
\* whose cache was warm when it was called), touched, built, read and saved.
SolveCall(options, cube) ==
    [kind |-> "solve", status |-> "running", options |-> options, cube |-> cube,
     plan |-> Decision(FALSE, "InternalError", options.profile, options.memory, ""),
     warm |-> {p \in Profile : ProfileTables(p) \subseteq files[directory]},
     touched |-> {}, built |-> {}, read |-> {}, saved |-> {}]

CallSolve(c) ==
    /\ MayCall(c)
    /\ calls' = calls + 1
    /\ \E o \in Session[session].options, cube \in {"invalid", "solved", "scrambled"} :
          call' = [call EXCEPT ![c] = SolveCall(o, cube)]
    /\ Goto(c, "plan")
    /\ UNCHANGED <<shared, todo>>

\* detail::makeOptimalPlan(options)
Plan(c) ==
    /\ pc[c] = "plan"
    /\ call[c].kind = "solve"
    /\ LET plan == MakeOptimalPlan(call[c].options, WarmProfiles)
           status == IF plan.supported THEN "running" ELSE plan.status
       IN /\ call' = [call EXCEPT ![c].plan = plan, ![c].status = status]
          /\ Goto(c, IF plan.supported THEN "arguments" ELSE "idle")
    /\ UNCHANGED <<shared, todo, calls>>

Unsupported(options) ==
    \/ options.mode = "Balanced"
    \/ options.metric # "HTM"
    \/ options.blocked = "illegal"
    \/ options.blocked = "legal" /\ options.mode # "Fast"

CheckArguments(c) ==
    /\ pc[c] = "arguments"
    /\ CASE Unsupported(call[c].options) -> Return(c, "UnsupportedOptions")
         [] ~Unsupported(call[c].options) /\ call[c].cube = "invalid" ->
                Return(c, "InvalidCube")
         [] ~Unsupported(call[c].options) /\ call[c].cube = "solved" ->
                Return(c, "Solved")
         [] OTHER -> Goto(c, "warm") /\ UNCHANGED call
    /\ UNCHANGED <<shared, todo, calls>>

\* RequireWarm: return CacheNotReady before entering search.
CheckWarm(c) ==
    /\ pc[c] = "warm"
    /\ IF call[c].options.policy = "RequireWarm" /\ ~ProfileCacheWarm(call[c].plan.profile)
         THEN Return(c, "CacheNotReady")
         ELSE Goto(c, "memory") /\ UNCHANGED call
    /\ UNCHANGED <<shared, todo, calls>>

ExceedsMemory(plan, charged) == plan.memory > 0 /\ Bytes(charged) + Overhead > plan.memory

\* The order of nodeLowerBound on the root, then of phase 2.
SearchOrder == <<"base", "upDown", "cornerState", "cornerEdges", "combined", "phase2">>

\* The estimate, and the tables the search that follows will touch.  A Fast
\* solve may end before its second phase.
CheckMemory(c) ==
    /\ pc[c] = "memory"
    /\ LET plan == call[c].plan
           mode == call[c].options.mode
           needed == ChargedOptimal(mode, plan.profile)
       IN IF ExceedsMemory(plan, ChargedTables(mode, plan.profile))
            THEN Return(c, "MemoryLimitExceeded") /\ UNCHANGED todo
            ELSE /\ \E more \in IF mode = "Fast" THEN {{}, {"phase2"}} ELSE {{}} :
                       todo' = [todo EXCEPT ![c] = needed \cup more]
                 /\ Goto(c, "touch")
                 /\ UNCHANGED call
    /\ UNCHANGED <<shared, calls>>

\* Every table has been touched; what the search answers is modelled elsewhere.
SearchEnds(c) ==
    /\ pc[c] = "touch"
    /\ call[c].kind = "solve"
    /\ todo[c] = {}
    /\ Return(c, "Searched")
    /\ UNCHANGED <<shared, todo, calls>>

-----------------------------------------------------------------------------
(* A table accessor of pruning_tables: a function-local static. *)

\* warmCacheTables goes through the profile's list first.
SetupOrder == <<"base", "combined", "upDown", "cornerState", "cornerEdges">>

TableOrder(c) == IF call[c].kind = "solve" THEN SearchOrder ELSE SetupOrder

\* The first table of c's order that it has yet to touch.
NextTable(c, t) ==
    /\ t \in todo[c]
    /\ \E i \in DOMAIN TableOrder(c) :
          TableOrder(c)[i] = t /\ \A k \in 1..i - 1 : TableOrder(c)[k] \notin todo[c]

Touched(c, t) ==
    /\ todo' = [todo EXCEPT ![c] = @ \ {t}]
    /\ Goto(c, "touch")

\* The table is there: no lock, no environment.
TouchLoaded(c, t) ==
    /\ pc[c] = "touch"
    /\ NextTable(c, t)
    /\ t \in loaded
    /\ Touched(c, t)
    /\ call' = [call EXCEPT ![c].touched = @ \cup {t}]
    /\ UNCHANGED <<shared, calls>>

\* The first thread to come runs the initialiser, the others wait for it:
\* loadFromCache looks in the directory the environment names now.
BeginInitialise(c, t) ==
    /\ pc[c] = "touch"
    /\ NextTable(c, t)
    /\ t \notin loaded
    /\ initialising[t] = None
    /\ initialising' = [initialising EXCEPT ![t] = c]
    /\ Goto(c, IF t \in files[directory] THEN "load" ELSE "build")
    /\ call' = [call EXCEPT ![c].touched = @ \cup {t}]
    /\ origin' = IF t \in files[directory] THEN [origin EXCEPT ![t] = directory] ELSE origin
    /\ UNCHANGED <<directory, files, loaded, todo, calls>>

(* Slip: a save that fails leaves the guard of the static taken. *)
InitialisedIfSaved(t, saved) ==
    /\ loaded' = IF saved THEN loaded \cup {t} ELSE loaded
    /\ initialising' = IF saved THEN [initialising EXCEPT ![t] = None] ELSE initialising

\* The static is initialised, whether its file was saved or not.
Initialised(t, saved) ==
    /\ loaded' = loaded \cup {t}
    /\ initialising' = [initialising EXCEPT ![t] = None]

FinishLoad(c, t) ==
    /\ pc[c] = "load"
    /\ initialising[t] = c
    /\ call' = [call EXCEPT ![c].read = @ \cup {t}]
    /\ Initialised(t, TRUE)
    /\ Touched(c, t)
    /\ UNCHANGED <<directory, files, origin, calls>>

\* The table is built, but not visible to other threads before it is saved.
BuildTable(c, t) ==
    /\ pc[c] = "build"
    /\ initialising[t] = c
    /\ call' = [call EXCEPT ![c].built = @ \cup {t}]
    /\ Goto(c, "save")
    /\ UNCHANGED <<shared, todo, calls>>

\* saveToCache asks the environment again.
SaveTable(c, t) ==
    /\ pc[c] = "save"
    /\ initialising[t] = c
    /\ \/ /\ files' = [files EXCEPT ![directory] = @ \cup {t}]
          /\ call' = [call EXCEPT ![c].saved = @ \cup {t}]
          /\ origin' = [origin EXCEPT ![t] = directory]
          /\ Initialised(t, TRUE)
       \/ /\ SavesMayFail
          /\ origin' = [origin EXCEPT ![t] = "unsaved"]
          /\ Initialised(t, FALSE)
          /\ UNCHANGED <<files, call>>
    /\ Touched(c, t)
    /\ UNCHANGED <<directory, calls>>

-----------------------------------------------------------------------------
(* prepareCache *)

\* plan, warm, previous are set on the way; touched, built, read and saved as
\* for a solve.
SetupCall(s) ==
    [kind |-> "prepare", status |-> "running",
     options |-> s.options, dir |-> s.dir, dryRun |-> s.dryRun,
     plan |-> Decision(FALSE, "InternalError", s.options.profile, s.options.memory, ""),
     previous |-> None, ready |-> FALSE, cacheWarm |-> FALSE,
     touched |-> {}, built |-> {}, read |-> {}, saved |-> {}]

\* The call, and ScopedCacheDirectory's getenv.
CallPrepare(c) ==
    /\ c \in Preparer
    /\ MayCall(c)
    /\ calls' = calls + 1
    /\ \E s \in Session[session].setups :
          IF s.dir = None
            THEN call' = [call EXCEPT ![c] = SetupCall(s)] /\ Goto(c, "plan")
            ELSE /\ call' = [call EXCEPT ![c] = [SetupCall(s) EXCEPT !.previous = directory]]
                 /\ Goto(c, "relocate")
    /\ UNCHANGED <<shared, todo>>

\* ScopedCacheDirectory's setenv.
Relocate(c) ==
    /\ pc[c] = "relocate"
    /\ directory' = call[c].dir
    /\ Goto(c, "plan")
    /\ UNCHANGED <<files, loaded, initialising, origin, call, todo, calls>>

\* RequireWarm is planned as AllowBuild, so that a cold cache does not refuse.
SetupOptions(options) ==
    IF options.policy = "RequireWarm" THEN [options EXCEPT !.policy = "AllowBuild"] ELSE options

SelectedDirectory(c) == IF call[c].dir # None THEN call[c].dir ELSE directory

CacheEnabled(c) == call[c].options.policy # "Disabled"

WarmNow(c, profile) == CacheEnabled(c) /\ MissingTables(SelectedDirectory(c), profile) = {}

(* Slip: the large tables of LargeLocal are forgotten. *)
WarmWithoutLarge(profile) == OptimalTables(profile) \cup {"cornerState"}

\* The tables warmCacheTables touches.
WarmCacheTables(profile) == ProfileTables(profile)

\* Plan, look at the directory, and decide whether to build.
InspectCache(c) ==
    /\ pc[c] = "plan"
    /\ call[c].kind = "prepare"
    /\ LET plan == MakeOptimalPlan(SetupOptions(call[c].options), WarmProfiles)
           warm == plan.supported /\ WarmNow(c, plan.profile)
           refused == \/ ~plan.supported
                      \/ ~call[c].dryRun /\ CacheEnabled(c)
                           /\ call[c].options.policy = "RequireWarm" /\ ~warm
           builds == ~refused /\ ~call[c].dryRun /\ CacheEnabled(c)
       IN /\ call' = [call EXCEPT ![c].plan = plan, ![c].ready = ~refused, ![c].cacheWarm = warm]
          /\ todo' = [todo EXCEPT ![c] = IF builds THEN WarmCacheTables(plan.profile) ELSE {}]
          /\ Goto(c, IF builds THEN "touch" ELSE "restore")
    /\ UNCHANGED <<shared, calls>>

\* warmCacheTables is through: look at the directory again.
Reinspect(c) ==
    /\ pc[c] = "touch"
    /\ call[c].kind = "prepare"
    /\ todo[c] = {}
    /\ call' = [call EXCEPT ![c].cacheWarm = WarmNow(c, call[c].plan.profile)]
    /\ Goto(c, "restore")
    /\ UNCHANGED <<shared, todo, calls>>

\* ~ScopedCacheDirectory
RestoreDirectory(c) ==
    directory' = IF call[c].previous = None THEN directory ELSE call[c].previous

PrepareEnds(c) ==
    /\ pc[c] = "restore"
    /\ RestoreDirectory(c)
    /\ Return(c, "Prepared")
    /\ UNCHANGED <<files, loaded, initialising, origin, todo, calls>>

-----------------------------------------------------------------------------
Touch(c) ==
    \E t \in Table : \/ TouchLoaded(c, t) \/ BeginInitialise(c, t) \/ FinishLoad(c, t)
                     \/ BuildTable(c, t) \/ SaveTable(c, t)

Step(c) ==
    \/ Plan(c) \/ CheckArguments(c) \/ CheckWarm(c) \/ CheckMemory(c) \/ SearchEnds(c)
    \/ Touch(c)
    \/ Relocate(c) \/ InspectCache(c) \/ Reinspect(c) \/ PrepareEnds(c)

Next ==
    /\ \E c \in Caller : CallSolve(c) \/ CallPrepare(c) \/ Step(c)
    /\ UNCHANGED session

Spec == Init /\ [][Next]_vars

\* A running thread keeps running, and the initialiser lets one waiting
\* thread after another through.
FairSpec == Spec /\ \A c \in Caller : WF_vars(Step(c) /\ UNCHANGED session)

-----------------------------------------------------------------------------
(* Properties. *)

SolveStatus == {"running", "Searched", "Solved", "InvalidCube", "UnsupportedOptions",
                "MemoryLimitExceeded", "CacheNotReady", "InternalError"}

Solving(c) == call[c].kind = "solve"
Preparing(c) == call[c].kind = "prepare"
Working(c) == pc[c] # "idle"

TypeOK ==
    /\ directory \in Dir
    /\ files \in [Dir -> SUBSET Table]
    /\ loaded \subseteq Table
    /\ initialising \in [Table -> Caller \cup {None}]
    /\ origin \in [Table -> Dir \cup {None, "unsaved"}]
    /\ pc \in [Caller -> {"idle", "plan", "arguments", "warm", "memory", "touch", "load",
                          "build", "save", "relocate", "restore"}]
    /\ todo \in [Caller -> SUBSET Table]
    /\ session \in DOMAIN Session /\ calls \in 0 .. Session[session].calls
    /\ \A c \in Caller :
          /\ call[c].kind \in {"none", "solve", "prepare"}
          /\ call[c].kind # "none" =>
                /\ call[c].options \in SolveOptions
                /\ call[c].plan.profile \in Profile /\ call[c].plan.memory \in Nat
                /\ UNION {call[c].touched, call[c].built, call[c].read, call[c].saved} \subseteq Table
          /\ Solving(c) => call[c].status \in SolveStatus
          /\ Preparing(c) => call[c].status \in {"running", "Prepared"}

\* A solve with RequireWarm never builds a table: the check of the plan's
\* profile covers every table its search touches, whatever others load or save.
StrictWarmRequest ==
    \A c \in Caller : Solving(c) /\ call[c].options.policy = "RequireWarm" => call[c].built = {}

\* CacheNotReady is returned only if the cache of the profile the request
\* planned with was cold when it was made.
NotReadyIsTrue ==
    \A c \in Caller :
        Solving(c) /\ call[c].status = "CacheNotReady" => call[c].plan.profile \notin call[c].warm

\* The tables a solve touches, with the overhead, fit in the memory the plan
\* grants it: the estimate, made before, misses none.
MemoryRespected ==
    \A c \in Caller :
        Solving(c) /\ call[c].plan.memory > 0 /\ call[c].touched # {} =>
            Bytes(call[c].touched) + Overhead <= call[c].plan.memory

\* A preparation that has run warmCacheTables to its end.
BuiltCache(c) ==
    /\ Preparing(c) /\ call[c].status = "Prepared"
    /\ call[c].ready /\ ~call[c].dryRun /\ CacheEnabled(c)

\* A preparation leaves no table without a file in its directory, other threads'
\* tables included (it waits for their files), except one the process already had
\* from another directory or could not save.  And the directory is the process's own
\* again whenever no preparation is under way (one at a time: two that overlap restore
\* in the wrong order).
PreparationWarms ==
    /\ (\A c \in Caller : Working(c) => ~Preparing(c)) => directory = Home
    /\ \A c \in Caller :
        BuiltCache(c) =>
            /\ \A t \in MissingTables(SelectedDirectory(c), call[c].plan.profile) :
                  origin[t] \notin {None, SelectedDirectory(c)}
            /\ call[c].cacheWarm => MissingTables(SelectedDirectory(c), call[c].plan.profile) = {}

\* Every call returns: threads that wait for each other's tables do not block.
EveryCallReturns == \A c \in Caller : Working(c) ~> ~Working(c)

\* docs/api-stability-3.0.0.md: "`Disabled`: do not use disk cache data for the
\* solve."
DisabledLeavesDisk ==
    \A c \in Caller :
        Solving(c) /\ call[c].options.policy = "Disabled" => call[c].read \cup call[c].saved = {}

\* docs/local-optimal-profiles.md says that Auto "falls back to the performance table set" when the
\* large path does not fit.  It is refused although that set fits only by the overhead, which the
\* plan leaves out and the solve counts.
AutoRefusal ==
    \A c \in Caller :
        LET plan == call[c].plan IN
        (/\ Solving(c)
         /\ call[c].options.profile = "Auto"
         /\ call[c].status = "MemoryLimitExceeded"
         /\ ~ExceedsMemory(plan, ChargedTables("Optimal", "Performance"))) =>
            /\ plan.profile = "LargeLocal"
            /\ Bytes(ChargedTables("Optimal", "LargeLocal")) \in plan.memory - Overhead + 1 .. plan.memory
=============================================================================
