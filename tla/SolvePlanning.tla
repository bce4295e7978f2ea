---------------------------- MODULE SolvePlanning ----------------------------
(***************************************************************************)
(* What one request plans and charges: makeAutoPlan (auto_plan.cpp),       *)
(* makeOptimalPlan (optimal_plan.cpp), the table profiles                  *)
(* (table_profiles.cpp) and the memory estimate of Solver::solve.          *)
(*                                                                         *)
(* Tables that the code always uses together are one table here; sizes are *)
(* parameters, scaled.  The RUBIK_EXPERIMENTAL_* and RUBIK_DISABLE_* flags *)
(* are unset.                                                              *)
(***************************************************************************)
EXTENDS Integers, FiniteSetsExt

CONSTANTS
    Size,           \* Size[t]: payload bytes of table t
    Overhead,       \* sizeof(Solver) + sizeof(Cube)
    DefaultBudget,  \* auto_default_memory_bytes
    TightTimeout    \* auto_tight_timeout_threshold

Table == {"base",        \* the nine tables of every profile
          "combined",    \* the five that Embedded leaves out
          "upDown",      \* up_down_edge_permutation
          "cornerState", \* corner_orientation_permutation
          "cornerEdges", \* the two corner/edge-group tables of LargeLocal
          "phase2"}      \* the three phase-2 tables

ASSUME PlanningAssumption ==
    /\ Size \in [Table -> Nat \ {0}]
    /\ Overhead \in Nat \ {0}
    /\ DefaultBudget \in Nat \ {0}
    /\ TightTimeout \in Nat \ {0}

Profile == {"Embedded", "Default", "Performance", "LargeLocal", "Auto"}
Policy == {"Auto", "RequireWarm", "AllowBuild", "Disabled"}

\* SolveOptions; 0 is "no limit" for memory and timeout, blocked tells whether
\* blockedFaces is empty, a legal set or an illegal one.
SolveOptions ==
    [mode : {"Optimal", "Fast", "Balanced"}, metric : {"HTM", "QTM"}, profile : Profile,
     policy : Policy, memory : Nat, timeout : Nat, maxDepth : Nat,
     blocked : {"none", "legal", "illegal"}]

Bytes(tables) == MapThenSumSet(LAMBDA t : Size[t], tables)

OptimalTables(profile) ==
    CASE profile = "Embedded" -> {"base"}
      [] profile = "Default"  -> {"base", "combined"}
      [] OTHER                -> {"base", "combined", "upDown"}

\* What estimatedPayloadForProfile charges, missingCacheBytes looks for and
\* warmCacheTables builds: the code writes this set four times.
ProfileTables(profile) ==
    OptimalTables(profile) \cup {"cornerState"}
        \cup (IF profile = "LargeLocal" THEN {"cornerEdges"} ELSE {})

(* Slip: the phase-2 tables of a Fast solve are not charged. *)
ChargedOptimal(mode, profile) ==
    OptimalTables(profile) \cup {"cornerState"}
        \cup (IF mode = "Optimal" /\ profile = "LargeLocal" THEN {"cornerEdges"} ELSE {})

\* What Solver::solve charges against maxMemoryBytes before it searches.
ChargedTables(mode, profile) ==
    OptimalTables(profile) \cup {"cornerState"}
        \cup (IF mode = "Fast" THEN {"phase2"} ELSE {})
        \cup (IF mode = "Optimal" /\ profile = "LargeLocal" THEN {"cornerEdges"} ELSE {})

-----------------------------------------------------------------------------
(* makeAutoPlan; isWarm tells whether the cache of the profile it would choose is warm. *)

FitsMemoryBudget(profile, budget) == Bytes(ProfileTables(profile)) <= budget

AutoEffectiveProfile(options) ==
    IF options.maxDepth <= 13 THEN "Performance" ELSE "LargeLocal"

(* Slip: the overhead is taken off a budget that may be smaller. *)
AutoBudgetLessOverhead(options) ==
    (IF options.memory # 0 THEN options.memory ELSE DefaultBudget) - Overhead

AutoMemoryBudget(options) == IF options.memory # 0 THEN options.memory ELSE DefaultBudget

ShouldAvoidColdLargeLocal(options, profile, isWarm) ==
    /\ options.policy # "RequireWarm"
    /\ profile = "LargeLocal"
    /\ ~isWarm
    /\ options.timeout \in 1 .. TightTimeout

Decision(supported, status, profile, budget, strategy) ==
    [supported |-> supported, status |-> status, profile |-> profile, memory |-> budget,
     strategy |-> strategy]

(* Slip: a budget too small for the profile is refused at once. *)
NoFallback(options, isWarm) ==
    LET profile == AutoEffectiveProfile(options)
        budget == AutoMemoryBudget(options)
    IN  IF FitsMemoryBudget(profile, budget) THEN Decision(TRUE, "Found", profile, budget, "")
        ELSE Decision(FALSE, "MemoryLimitExceeded", profile, budget, "")

MakeAutoPlan(options, isWarm) ==
    LET profile == AutoEffectiveProfile(options)
        budget == AutoMemoryBudget(options)
        strategy == IF profile = "LargeLocal" THEN "auto_desktop_tail" ELSE "auto_shallow_optimal"
        fits == FitsMemoryBudget(profile, budget)
        performanceFits == FitsMemoryBudget("Performance", budget)
        refused(status) == Decision(FALSE, status, profile, budget, strategy)
        fallback(name) == Decision(TRUE, "Found", "Performance", budget, name)
        avoid == ShouldAvoidColdLargeLocal(options, profile, isWarm)
        cold == options.policy = "RequireWarm" /\ ~isWarm
    IN CASE options.mode # "Optimal" \/ options.metric # "HTM" ->
                Decision(FALSE, "UnsupportedOptions", "Default", 0, "")
         [] OTHER ->
       CASE ~fits /\ performanceFits  -> fallback("auto_memory_fallback")
         [] ~fits /\ ~performanceFits -> refused("MemoryLimitExceeded")
         [] fits /\ avoid             -> fallback("auto_timeout_fallback")
         [] fits /\ cold              -> refused("CacheNotReady")
         [] OTHER                     -> Decision(TRUE, "Found", profile, budget, strategy)

\* makeOptimalPlan: the first plan assumes a warm cache (the default argument),
\* the second looks at the cache of the profile the first one chose.
\* warmProfiles: the profiles whose cache is warm.
MakeOptimalPlan(options, warmProfiles) ==
    IF options.profile # "Auto"
      THEN Decision(TRUE, "Found", options.profile, options.memory, "manual_profile")
      ELSE LET first == MakeAutoPlan(options, TRUE)
           IN IF first.supported /\ (options.policy = "RequireWarm" \/ options.timeout > 0)
                THEN MakeAutoPlan(options, options.policy # "Disabled" /\ first.profile \in warmProfiles)
                ELSE first
=============================================================================
