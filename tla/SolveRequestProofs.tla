------------------------- MODULE SolveRequestProofs -------------------------
(***************************************************************************)
(* Proofs about SolveRequest, for every set of threads, directories and    *)
(* requests, and every size of the tables.                                 *)
(***************************************************************************)
EXTENDS SolveRequest, FiniteSetTheorems, WellFoundedInduction, TLAPS

-----------------------------------------------------------------------------
(* The inductive invariant. *)

Strategy == {"", "manual_profile", "auto_desktop_tail", "auto_shallow_optimal",
             "auto_memory_fallback", "auto_timeout_fallback"}

PlanRecord ==
    [supported : BOOLEAN, status : {"Found", "InternalError", "UnsupportedOptions",
                                    "MemoryLimitExceeded", "CacheNotReady"},
     profile : Profile, memory : Nat, strategy : Strategy]

SolveRecord ==
    [kind : {"solve"}, status : SolveStatus, options : SolveOptions,
     cube : {"invalid", "solved", "scrambled"},
     plan : PlanRecord, warm : SUBSET Profile, touched : SUBSET Table, built : SUBSET Table,
     read : SUBSET Table, saved : SUBSET Table]

PrepareRecord ==
    [kind : {"prepare"}, status : {"running", "Prepared"}, options : SolveOptions,
     dir : Dir \cup {None}, dryRun : BOOLEAN, plan : PlanRecord, previous : Dir \cup {None},
     ready : BOOLEAN, cacheWarm : BOOLEAN, touched : SUBSET Table, built : SUBSET Table,
     read : SUBSET Table, saved : SUBSET Table]

CallRecord == {NoCall} \cup SolveRecord \cup PrepareRecord

Label == {"idle", "plan", "arguments", "warm", "memory", "touch", "load", "build", "save",
          "relocate", "restore"}
Initialising == {"load", "build", "save"}
Touching == {"touch"} \cup Initialising

\* TypeOK, with the fields of a call.
Typed ==
    /\ directory \in Dir
    /\ files \in [Dir -> SUBSET Table]
    /\ loaded \in SUBSET Table
    /\ initialising \in [Table -> Caller \cup {None}]
    /\ origin \in [Table -> Dir \cup {None, "unsaved"}]
    /\ pc \in [Caller -> Label]
    /\ call \in [Caller -> CallRecord]
    /\ todo \in [Caller -> SUBSET Table]
    /\ session \in DOMAIN Session
    /\ calls \in Nat /\ calls <= Session[session].calls

\* Where a thread is tells what it has been called with, and what it has left to do.
CallsFollowSession ==
    \A c \in Caller :
        /\ Solving(c) => call[c].options \in Session[session].options
        /\ Preparing(c) => /\ c \in Preparer
                           /\ \E s \in Session[session].setups :
                                 call[c].options = s.options /\ call[c].dir = s.dir

PhasesFollowKinds ==
    \A c \in Caller :
        /\ pc[c] \in {"arguments", "warm", "memory"} => Solving(c)
        /\ pc[c] \in {"relocate", "restore"} => Preparing(c)
        /\ pc[c] = "relocate" => call[c].dir # None
        /\ pc[c] \in Touching \cup {"plan"} => Solving(c) \/ Preparing(c)
        /\ pc[c] \notin Touching => todo[c] = {}
        /\ Preparing(c) /\ pc[c] # "idle" => call[c].status = "running"

\* The guard of a static is held by the thread that runs its initialiser, one at a time.
GuardsHeld ==
    /\ \A t \in Table, c \in Caller : initialising[t] = c => pc[c] \in Initialising /\ t \in todo[c]
    /\ \A t, u \in Table : initialising[t] = initialising[u] /\ initialising[t] # None => t = u

\* What a solve touches was charged, and the charge fitted.
WithinCharge(c) ==
    LET charged == ChargedTables(call[c].options.mode, call[c].plan.profile) IN
    /\ call[c].touched \cup todo[c] \subseteq charged
    /\ ~ExceedsMemory(call[c].plan, charged)

TouchesWithinCharge ==
    \A c \in Caller :
        Solving(c) =>
            /\ pc[c] \in Touching \/ call[c].touched # {} => WithinCharge(c)
            /\ pc[c] \in {"plan", "arguments", "warm", "memory"} => call[c].touched = {}

\* A plan of Auto that is granted fits; one refused for memory leaves no room for the
\* tables of Performance.
AutoGranted(options, plan) ==
    /\ options.mode = "Optimal"
    /\ plan.memory > 0
    /\ plan.profile \in {"Performance", "LargeLocal"}
    /\ FitsMemoryBudget(plan.profile, plan.memory)

AutoRefused(plan) == plan.memory > 0 /\ ~FitsMemoryBudget("Performance", plan.memory)

AutoPlans ==
    \A c \in Caller :
        Solving(c) /\ call[c].options.profile = "Auto" =>
            /\ pc[c] \notin {"idle", "plan"} => AutoGranted(call[c].options, call[c].plan)
            /\ call[c].status = "MemoryLimitExceeded" =>
                  \/ AutoRefused(call[c].plan)
                  \/ /\ AutoGranted(call[c].options, call[c].plan)
                     /\ ExceedsMemory(call[c].plan, ChargedTables("Optimal", call[c].plan.profile))

\* A table in memory came from a directory that still has its file, or could not be saved.
OriginsFiled ==
    /\ \A t \in Table : origin[t] \in Dir => t \in files[origin[t]]
    /\ \A t \in loaded : origin[t] # None
    /\ \A t \in Table, c \in Caller : initialising[t] = c /\ pc[c] = "load" => origin[t] # None

\* A preparation that builds leaves its profile's tables loaded.
PreparationProgress ==
    \A c \in Caller :
        Preparing(c) /\ call[c].ready /\ ~call[c].dryRun /\ CacheEnabled(c) =>
            ProfileTables(call[c].plan.profile) \subseteq loaded \cup todo[c]

\* Three ways to use the library, for which more holds.
\* No preparation moves the process to another directory.
DirectoryKept ==
    \A use \in DOMAIN Session : \A s \in Session[use].setups : s.dir \in {None, Home}

\* No two preparations overlap: one thread makes them all.
OnePreparer == \A c, d \in Preparer : c = d

\* RequireWarm is not asked of a Fast solve.
StrictIsOptimal ==
    \A use \in DOMAIN Session : \A o \in Session[use].options :
        o.policy = "RequireWarm" => o.mode # "Fast"

DirectoryStays ==
    DirectoryKept =>
        /\ directory = Home
        /\ \A c \in Caller :
              Preparing(c) => call[c].dir \in {None, Home} /\ call[c].previous \in {None, Home}

\* The directory is Home, or the one a preparation has set.
Away(c) == Preparing(c) /\ pc[c] \notin {"idle", "relocate"} /\ call[c].dir # None

DirectoryGivenBack ==
    OnePreparer =>
        /\ (\A c \in Caller : ~Away(c)) => directory = Home
        /\ \A c \in Caller :
              Preparing(c) => call[c].previous = IF call[c].dir = None THEN None ELSE Home

\* A preparation that reports a warm cache has one.
WarmReported ==
    OnePreparer \/ DirectoryKept =>
        \A c \in Caller :
            Preparing(c) /\ call[c].cacheWarm =>
                MissingTables(SelectedDirectory(c), call[c].plan.profile) = {}

\* A cache once warm stays warm, and CacheNotReady is true of the one that was cold.
WarmStays ==
    DirectoryKept =>
        \A c \in Caller :
            Solving(c) =>
                /\ \A p \in call[c].warm : MissingTables(directory, p) = {}
                /\ call[c].status = "CacheNotReady" => call[c].plan.profile \notin call[c].warm

\* Past the check of a RequireWarm solve, the tables it has yet to touch have files.
WarmOnly ==
    DirectoryKept /\ StrictIsOptimal =>
        \A c \in Caller :
            Solving(c) /\ call[c].options.policy = "RequireWarm" =>
                /\ call[c].built = {}
                /\ pc[c] \notin {"build", "save"}
                /\ pc[c] = "memory" => MissingTables(directory, call[c].plan.profile) = {}
                /\ todo[c] \subseteq files[directory]

IInv ==
    /\ Typed
    /\ CallsFollowSession
    /\ PhasesFollowKinds
    /\ GuardsHeld
    /\ TouchesWithinCharge
    /\ AutoPlans
    /\ OriginsFiled
    /\ PreparationProgress
    /\ DirectoryStays
    /\ DirectoryGivenBack
    /\ WarmReported
    /\ WarmStays
    /\ WarmOnly

-----------------------------------------------------------------------------
(* The bytes of a set of tables. *)

LEMMA LeastNatural ==
    ASSUME NEW S \in SUBSET Nat, S # {}
    PROVE  \E m \in S : \A k \in S : m <= k
<1> DEFINE Less == OpToRel(<, Nat)
<1>1. IsWellFoundedOn(Less, Nat)
    BY NatLessThanWellFounded
<1>2. \A k, m \in Nat : k < m => <<k, m>> \in Less
    BY DEF OpToRel
<1> HIDE DEF Less
<1>3. \E m \in S : \A k \in S : ~(<<k, m>> \in Less)
    BY <1>1, WFMin
<1>4. PICK m \in S : \A k \in S : ~(<<k, m>> \in Less)
    BY <1>3
<1>5. \A k \in S : ~(k < m)
    BY <1>2, <1>4
<1>6. \A k \in S : m <= k
    BY <1>5
<1> QED BY <1>4, <1>6

\* The sum that Bytes folds, written out.
Charge(t, tables) == IF t \in tables THEN Size[t] ELSE 0
Total(tables) ==
    Charge("base", tables) + Charge("combined", tables) + Charge("upDown", tables)
        + Charge("cornerState", tables) + Charge("cornerEdges", tables) + Charge("phase2", tables)

LEMMA Charges ==
    ASSUME NEW t \in Table, NEW S \in SUBSET Table
    PROVE  Charge(t, S) \in Nat
BY PlanningAssumption DEF Charge

LEMMA TotalIsNat ==
    ASSUME NEW S \in SUBSET Table
    PROVE  Total(S) \in Nat
BY Charges DEF Total, Table

LEMMA TotalStep ==
    ASSUME NEW S \in SUBSET Table, NEW x \in S
    PROVE  Total(S) = Size[x] + Total(S \ {x})
<1>1. \A t \in Table : Size[t] \in Nat
    BY PlanningAssumption
<1>2. \A t \in Table : t # x => Charge(t, S) = Charge(t, S \ {x})
    BY DEF Charge
<1>3. Charge(x, S) = Size[x] /\ Charge(x, S \ {x}) = 0
    BY DEF Charge
<1>4. \A t \in Table : Charge(t, S) \in Int /\ Charge(t, S \ {x}) \in Int
    BY Charges, S \ {x} \in SUBSET Table
<1>5. Size[x] \in Int
    BY <1>1
<1>6. x \in {"base", "combined", "upDown", "cornerState", "cornerEdges", "phase2"}
    BY DEF Table
<1> QED BY <1>2, <1>3, <1>4, <1>5, <1>6 DEF Total, Table

LEMMA TableIsFinite == IsFiniteSet(Table)
<1> DEFINE Two == {"base"} \cup {"combined"}
           Three == Two \cup {"upDown"}
           Four == Three \cup {"cornerState"}
           Five == Four \cup {"cornerEdges"}
<1>1. IsFiniteSet({"base"})
    BY FS_Singleton
<1>2. IsFiniteSet(Two)
    BY <1>1, FS_AddElement
<1>3. IsFiniteSet(Three)
    BY <1>2, FS_AddElement
<1>4. IsFiniteSet(Four)
    BY <1>3, FS_AddElement
<1>5. IsFiniteSet(Five)
    BY <1>4, FS_AddElement
<1>6. IsFiniteSet(Five \cup {"phase2"})
    BY <1>5, FS_AddElement
<1>7. Table = Five \cup {"phase2"}
    BY DEF Table
<1> QED BY <1>6, <1>7

LEMMA BytesIsTotal ==
    ASSUME NEW S \in SUBSET Table
    PROVE  Bytes(S) = Total(S)
<1> DEFINE Any(s) == CHOOSE x \in s : TRUE
           Fold(g, s) == IF s = {} THEN 0 ELSE Size[Any(s)] + g[s \ {Any(s)}]
           Iter == CHOOSE g : g = [s \in SUBSET S |-> Fold(g, s)]
           W == [s \in SUBSET S |-> Total(s)]
<1>1. Bytes(S) = Iter[S]
    BY DEF Bytes, MapThenSumSet, MapThenFoldSet
<1>2. ASSUME NEW s \in SUBSET S PROVE W[s] = Fold(W, s)
    <2>1. CASE s = {}
        BY <2>1 DEF Total, Charge
    <2>2. CASE s # {}
        <3>1. Any(s) \in s
            BY <2>2
        <3>2. Total(s) = Size[Any(s)] + Total(s \ {Any(s)})
            BY <3>1, TotalStep
        <3> QED BY <2>2, <3>2
    <2> QED BY <2>1, <2>2
<1>3. W = [s \in SUBSET S |-> Fold(W, s)]
    BY <1>2
<1> HIDE DEF W, Fold
<1>4. Iter = [s \in SUBSET S |-> Fold(Iter, s)]
    BY <1>3
<1> HIDE DEF Iter
<1>5. \A s \in SUBSET S : Iter[s] = Fold(Iter, s)
    BY <1>4
<1>6. SUFFICES ASSUME NEW s0 \in SUBSET S, Iter[s0] # Total(s0) PROVE FALSE
    BY <1>1
<1> DEFINE Wrong == {s \in SUBSET S : Iter[s] # Total(s)}
           Sizes == {n \in Nat : \E s \in Wrong : Cardinality(s) = n}
<1>7. \A s \in SUBSET S : IsFiniteSet(s) /\ Cardinality(s) \in Nat
    BY TableIsFinite, FS_Subset, FS_CardinalityType
<1>8. Sizes # {}
    BY <1>6, <1>7
<1>9. PICK m \in Sizes : \A k \in Sizes : m <= k
    BY <1>8, LeastNatural
<1>10. PICK s \in Wrong : Cardinality(s) = m
    BY <1>9
<1>11. CASE s = {}
    <2>1. Total({}) = 0
        BY DEF Total, Charge
    <2>2. Iter[s] = 0
        BY <1>5, <1>10, <1>11 DEF Fold
    <2> QED BY <1>10, <1>11, <2>1, <2>2
<1>12. CASE s # {}
    <2>1. Any(s) \in s
        BY <1>12
    <2> HIDE DEF Any
    <2> DEFINE rest == s \ {Any(s)}
    <2>2. Total(s) = Size[Any(s)] + Total(rest)
        BY <1>10, <2>1, TotalStep
    <2>3. Iter[s] = Size[Any(s)] + Iter[rest]
        BY <1>5, <1>10, <1>12 DEF Fold
    <2>4. rest \in Wrong
        BY <1>10, <2>2, <2>3
    <2>5. Cardinality(rest) = Cardinality(s) - 1
        BY <1>7, <1>10, <2>1, FS_RemoveElement
    <2>6. Cardinality(rest) \in Sizes /\ m \in Nat
        BY <1>7, <1>9, <2>4
    <2> HIDE DEF rest, Sizes
    <2>7. Cardinality(rest) \in Nat
        BY <1>7, <2>4 DEF Wrong
    <2>8. m <= Cardinality(rest)
        BY <1>9, <2>6
    <2> QED BY <1>10, <2>5, <2>6, <2>7, <2>8
<1> QED BY <1>11, <1>12

LEMMA BytesMonotone ==
    ASSUME NEW S \in SUBSET Table, NEW T \in SUBSET S
    PROVE  Bytes(T) \in Nat /\ Bytes(S) \in Nat /\ Bytes(T) <= Bytes(S)
<1>1. T \in SUBSET Table
    OBVIOUS
<1>2. \A t \in Table : Charge(t, T) <= Charge(t, S)
    BY PlanningAssumption DEF Charge
<1>3. \A t \in Table : Charge(t, S) \in Nat /\ Charge(t, T) \in Nat
    BY <1>1, Charges
<1>4. Total(T) <= Total(S)
    BY <1>2, <1>3 DEF Total, Table
<1> QED BY <1>1, <1>4, BytesIsTotal, TotalIsNat
-----------------------------------------------------------------------------
(* Plans. *)

LEMMA BudgetIsPositive ==
    ASSUME NEW o \in SolveOptions
    PROVE  AutoMemoryBudget(o) \in Nat /\ AutoMemoryBudget(o) > 0
BY PlanningAssumption DEF AutoMemoryBudget, SolveOptions

LEMMA EffectiveProfile ==
    ASSUME NEW o \in SolveOptions
    PROVE  AutoEffectiveProfile(o) \in {"Performance", "LargeLocal"}
BY DEF AutoEffectiveProfile

LEMMA ProfileTablesAre ==
    ASSUME NEW p \in Profile
    PROVE  /\ ProfileTables(p) \in SUBSET Table
           /\ ChargedTables("Optimal", p) = ProfileTables(p)
           /\ \A mode : mode # "Fast" => ChargedTables(mode, p) \subseteq ProfileTables(p)
           /\ \A mode : ChargedTables(mode, p) \in SUBSET Table
           /\ ProfileTables("Performance") \in SUBSET ProfileTables("LargeLocal")
BY DEF ProfileTables, ChargedTables, OptimalTables, Table, Profile

LEMMA LargeFitsPerformanceFits ==
    ASSUME NEW budget \in Nat, NEW p \in {"Performance", "LargeLocal"}, FitsMemoryBudget(p, budget)
    PROVE  FitsMemoryBudget("Performance", budget)
<1>1. ProfileTables(p) \in SUBSET Table /\ ProfileTables("Performance") \in SUBSET ProfileTables(p)
    BY ProfileTablesAre DEF Profile
<1>2. /\ Bytes(ProfileTables("Performance")) \in Nat
      /\ Bytes(ProfileTables(p)) \in Nat
      /\ Bytes(ProfileTables("Performance")) <= Bytes(ProfileTables(p))
    BY <1>1, BytesMonotone
<1> QED BY <1>2 DEF FitsMemoryBudget

LEMMA AutoStrategies == "auto_memory_fallback" \in Strategy /\ "auto_timeout_fallback" \in Strategy
BY DEF Strategy

\* The decisions of makeAutoPlan, one by one.
LEMMA AutoDecisions ==
    ASSUME NEW o \in SolveOptions, NEW warm \in BOOLEAN
    PROVE  LET budget == AutoMemoryBudget(o)
               profile == AutoEffectiveProfile(o)
               plan == MakeAutoPlan(o, warm)
           IN  \/ plan = Decision(FALSE, "UnsupportedOptions", "Default", 0, "")
               \/ /\ o.mode = "Optimal"
                  /\ \/ /\ FitsMemoryBudget("Performance", budget)
                        /\ \E name \in Strategy : plan = Decision(TRUE, "Found", "Performance", budget, name)
                     \/ /\ ~FitsMemoryBudget("Performance", budget)
                        /\ \E name \in Strategy :
                              plan = Decision(FALSE, "MemoryLimitExceeded", profile, budget, name)
                     \/ /\ FitsMemoryBudget(profile, budget)
                        /\ o.policy = "RequireWarm" /\ ~warm
                        /\ \E name \in Strategy : plan = Decision(FALSE, "CacheNotReady", profile, budget, name)
                     \/ /\ FitsMemoryBudget(profile, budget)
                        /\ \E name \in Strategy : plan = Decision(TRUE, "Found", profile, budget, name)
<1> DEFINE budget == AutoMemoryBudget(o)
           profile == AutoEffectiveProfile(o)
           fits == FitsMemoryBudget(profile, budget)
           performanceFits == FitsMemoryBudget("Performance", budget)
           avoid == ShouldAvoidColdLargeLocal(o, profile, warm)
           cold == o.policy = "RequireWarm" /\ ~warm
           strategy == IF profile = "LargeLocal" THEN "auto_desktop_tail" ELSE "auto_shallow_optimal"
<1>1. fits => performanceFits
    BY BudgetIsPositive, EffectiveProfile, LargeFitsPerformanceFits
<1>2. /\ fits \in BOOLEAN
      /\ performanceFits \in BOOLEAN
      /\ avoid \in BOOLEAN
      /\ avoid => ~cold
    BY DEF FitsMemoryBudget, ShouldAvoidColdLargeLocal
<1>5. strategy \in Strategy
    BY DEF Strategy
<1>3. CASE o.mode # "Optimal" \/ o.metric # "HTM"
    BY <1>3 DEF MakeAutoPlan
<1>4. CASE o.mode = "Optimal" /\ o.metric = "HTM"
    <2>1. CASE ~fits /\ performanceFits
        <3>1. MakeAutoPlan(o, warm) = Decision(TRUE, "Found", "Performance", budget, "auto_memory_fallback")
            BY <1>2, <1>4, <2>1 DEF MakeAutoPlan
        <3> QED BY <1>1, <1>4, <1>5, AutoStrategies, <2>1, <3>1
    <2>2. CASE ~fits /\ ~performanceFits
        <3>1. MakeAutoPlan(o, warm) = Decision(FALSE, "MemoryLimitExceeded", profile, budget, strategy)
            BY <1>2, <1>4, <2>2 DEF MakeAutoPlan
        <3> QED BY <1>1, <1>4, <1>5, AutoStrategies, <2>2, <3>1
    <2>3. CASE fits /\ avoid
        <3>1. MakeAutoPlan(o, warm) = Decision(TRUE, "Found", "Performance", budget, "auto_timeout_fallback")
            BY <1>2, <1>4, <2>3 DEF MakeAutoPlan
        <3> QED BY <1>1, <1>4, <1>5, AutoStrategies, <2>3, <3>1
    <2>4. CASE fits /\ ~avoid /\ cold
        <3>1. MakeAutoPlan(o, warm) = Decision(FALSE, "CacheNotReady", profile, budget, strategy)
            BY <1>2, <1>4, <2>4 DEF MakeAutoPlan
        <3> QED BY <1>1, <1>4, <1>5, AutoStrategies, <2>4, <3>1
    <2>5. CASE fits /\ ~avoid /\ ~cold
        <3>1. MakeAutoPlan(o, warm) = Decision(TRUE, "Found", profile, budget, strategy)
            BY <1>2, <1>4, <2>5 DEF MakeAutoPlan
        <3> QED BY <1>1, <1>4, <1>5, AutoStrategies, <2>5, <3>1
    <2> QED BY <1>2, <2>1, <2>2, <2>3, <2>4, <2>5
<1> QED BY <1>3, <1>4

\* What a decision of makeAutoPlan says of the request, whatever the cache.
Sound(o, warm, plan) ==
    /\ plan \in PlanRecord
    /\ plan.supported => AutoGranted(o, plan)
    /\ plan.supported <=> plan.status = "Found"
    /\ plan.status = "MemoryLimitExceeded" => AutoRefused(plan)
    /\ plan.status = "CacheNotReady" =>
          /\ ~warm /\ o.policy = "RequireWarm"
          /\ plan.profile = AutoEffectiveProfile(o)
          /\ FitsMemoryBudget(AutoEffectiveProfile(o), AutoMemoryBudget(o))

LEMMA AutoPlanMeans ==
    ASSUME NEW o \in SolveOptions, NEW warm \in BOOLEAN
    PROVE  Sound(o, warm, MakeAutoPlan(o, warm))
<1> DEFINE budget == AutoMemoryBudget(o)
           profile == AutoEffectiveProfile(o)
           plan == MakeAutoPlan(o, warm)
<1>1. budget \in Nat /\ budget > 0
    BY BudgetIsPositive
<1>2. profile \in {"Performance", "LargeLocal"} /\ profile \in Profile
    BY EffectiveProfile DEF Profile
<1>3. "" \in Strategy /\ "Default" \in Profile /\ "Performance" \in Profile
    BY DEF Strategy, Profile
<1> HIDE DEF budget, profile, plan
<1>4. ASSUME plan = Decision(FALSE, "UnsupportedOptions", "Default", 0, "")
      PROVE  Sound(o, warm, plan)
    <2>1. plan.status = "UnsupportedOptions" /\ ~plan.supported /\ plan \in PlanRecord
        BY <1>3, <1>4 DEF Decision, PlanRecord
    <2> QED BY <2>1 DEF Sound
<1>6. ASSUME o.mode = "Optimal", FitsMemoryBudget("Performance", budget), NEW name \in Strategy,
             plan = Decision(TRUE, "Found", "Performance", budget, name)
      PROVE  Sound(o, warm, plan)
    BY <1>1, <1>3, <1>6 DEF Decision, PlanRecord, Sound, AutoGranted
<1>7. ASSUME o.mode = "Optimal", ~FitsMemoryBudget("Performance", budget), NEW name \in Strategy,
             plan = Decision(FALSE, "MemoryLimitExceeded", profile, budget, name)
      PROVE  Sound(o, warm, plan)
    BY <1>1, <1>2, <1>7 DEF Decision, PlanRecord, Sound, AutoRefused
<1>8. ASSUME FitsMemoryBudget(profile, budget), o.policy = "RequireWarm", ~warm, NEW name \in Strategy,
             plan = Decision(FALSE, "CacheNotReady", profile, budget, name)
      PROVE  Sound(o, warm, plan)
    BY <1>1, <1>2, <1>8 DEF Decision, PlanRecord, Sound, profile, budget
<1>9. ASSUME o.mode = "Optimal", FitsMemoryBudget(profile, budget), NEW name \in Strategy,
             plan = Decision(TRUE, "Found", profile, budget, name)
      PROVE  Sound(o, warm, plan)
    BY <1>1, <1>2, <1>9 DEF Decision, PlanRecord, Sound, AutoGranted
<1> QED BY <1>4, <1>6, <1>7, <1>8, <1>9, AutoDecisions DEF plan, budget, profile

\* What makeOptimalPlan decides: a profile named is taken as it is, Auto is decided twice and
\* its CacheNotReady is about the cache that was looked at.
LEMMA PlanMeans ==
    ASSUME NEW o \in SolveOptions, NEW warm \in SUBSET Profile
    PROVE  LET plan == MakeOptimalPlan(o, warm) IN
           /\ plan \in PlanRecord
           /\ plan.supported <=> plan.status = "Found"
           /\ o.profile = "Auto" => /\ plan.supported => AutoGranted(o, plan)
                                    /\ plan.status = "MemoryLimitExceeded" => AutoRefused(plan)
           /\ plan.status = "CacheNotReady" => plan.profile \notin warm
<1> DEFINE plan == MakeOptimalPlan(o, warm)
           first == MakeAutoPlan(o, TRUE)
           isWarm == o.policy # "Disabled" /\ first.profile \in warm
           second == MakeAutoPlan(o, isWarm)
<1>1. CASE o.profile # "Auto"
    <2>1. plan = Decision(TRUE, "Found", o.profile, o.memory, "manual_profile")
        BY <1>1 DEF MakeOptimalPlan
    <2>2. o.profile \in Profile /\ o.memory \in Nat
        BY DEF SolveOptions
    <2> QED BY <1>1, <2>1, <2>2 DEF Decision, PlanRecord, Strategy
<1>2. CASE o.profile = "Auto"
    <2>1. plan = first \/ (plan = second /\ first.supported)
        BY <1>2 DEF MakeOptimalPlan
    <2>2. Sound(o, TRUE, first) /\ Sound(o, isWarm, second)
        BY AutoPlanMeans
    <2>3. first.status # "CacheNotReady"
        BY <2>2 DEF Sound
    <2>4. ASSUME second.status = "CacheNotReady", first.supported PROVE second.profile \notin warm
        <3>1. /\ ~isWarm
              /\ o.policy = "RequireWarm"
              /\ second.profile = AutoEffectiveProfile(o)
              /\ FitsMemoryBudget(AutoEffectiveProfile(o), AutoMemoryBudget(o))
            BY <2>2, <2>4 DEF Sound
        <3>2. first.profile \notin warm
            BY <3>1
        <3>3. o.mode = "Optimal" /\ o.metric = "HTM"
            <4>1. SUFFICES ASSUME o.mode # "Optimal" \/ o.metric # "HTM" PROVE ~first.supported
                BY <2>4
            <4> QED BY <4>1 DEF MakeAutoPlan, Decision
        <3>4. ~ShouldAvoidColdLargeLocal(o, AutoEffectiveProfile(o), TRUE)
            BY DEF ShouldAvoidColdLargeLocal
        <3>5. first.profile = AutoEffectiveProfile(o)
            BY <3>1, <3>3, <3>4 DEF MakeAutoPlan, Decision
        <3> QED BY <3>1, <3>2, <3>5
    <2> HIDE DEF plan, first, second, isWarm
    <2> QED BY <1>2, <2>1, <2>2, <2>3, <2>4 DEF Sound, plan
<1> QED BY <1>1, <1>2

-----------------------------------------------------------------------------
(* Calls and their records. *)

LEMMA KindOf ==
    ASSUME NEW r \in CallRecord
    PROVE  /\ r.kind = "solve" => r \in SolveRecord
           /\ r.kind = "prepare" => r \in PrepareRecord
           /\ r.kind \in {"solve", "prepare", "none"}
           /\ r.kind = "none" => r = NoCall
BY DEF CallRecord, SolveRecord, PrepareRecord, NoCall

\* What no step on the way of a call changes of it.
SameRequest(c) ==
    /\ call'[c].kind = call[c].kind
    /\ call'[c].options = call[c].options
    /\ call'[c].plan = call[c].plan
    /\ Solving(c) => call'[c].warm = call[c].warm
    /\ Preparing(c) => /\ call'[c].dir = call[c].dir
                       /\ call'[c].dryRun = call[c].dryRun
                       /\ call'[c].ready = call[c].ready
                       /\ call'[c].cacheWarm = call[c].cacheWarm
                       /\ call'[c].previous = call[c].previous

Others(c) == Caller \ {c}

LEMMA Goes ==
    ASSUME Typed, NEW c \in Caller, NEW l \in Label, Goto(c, l)
    PROVE  /\ pc' \in [Caller -> Label]
           /\ pc'[c] = l
           /\ \A d \in Others(c) : pc'[d] = pc[d]
BY DEF Typed, Goto, Others

LEMMA Calls ==
    ASSUME Typed, NEW c \in Caller, NEW r \in CallRecord, call' = [call EXCEPT ![c] = r]
    PROVE  /\ call' \in [Caller -> CallRecord]
           /\ call'[c] = r
           /\ \A d \in Others(c) : call'[d] = call[d]
BY DEF Typed, Others

LEMMA StatusSet ==
    ASSUME Typed, NEW c \in Caller, NEW s, call' = [call EXCEPT ![c].status = s],
           (Solving(c) /\ s \in SolveStatus) \/ (Preparing(c) /\ s = "Prepared")
    PROVE  /\ call' \in [Caller -> CallRecord]
           /\ SameRequest(c)
           /\ call'[c].status = s
           /\ call'[c].touched = call[c].touched
           /\ call'[c].built = call[c].built
           /\ \A d \in Others(c) : call'[d] = call[d]
<1> DEFINE r == [call[c] EXCEPT !.status = s]
<1>1. call' = [call EXCEPT ![c] = r]
    OBVIOUS
<1>2. call[c] \in CallRecord
    BY DEF Typed
<1>3. CASE Solving(c)
    <2>1. call[c] \in SolveRecord /\ s \in SolveStatus
        BY <1>2, <1>3, KindOf DEF Solving, Preparing
    <2>2. /\ r \in SolveRecord
          /\ r.kind = "solve"
          /\ r.options = call[c].options
          /\ r.plan = call[c].plan
          /\ r.warm = call[c].warm
          /\ r.status = s
          /\ r.touched = call[c].touched
          /\ r.built = call[c].built
        BY <2>1 DEF SolveRecord
    <2> HIDE DEF r
    <2>3. /\ call' \in [Caller -> CallRecord]
          /\ call'[c] = r
          /\ \A d \in Others(c) : call'[d] = call[d]
        BY <1>1, <2>2, Calls DEF CallRecord
    <2> QED BY <1>3, <2>2, <2>3 DEF SameRequest, Solving, Preparing
<1>4. CASE Preparing(c)
    <2>1. call[c] \in PrepareRecord /\ s = "Prepared"
        BY <1>2, <1>4, KindOf DEF Solving, Preparing
    <2>2. /\ r \in PrepareRecord
          /\ r.kind = "prepare"
          /\ r.options = call[c].options
          /\ r.plan = call[c].plan
          /\ r.dir = call[c].dir
          /\ r.dryRun = call[c].dryRun
          /\ r.ready = call[c].ready
          /\ r.cacheWarm = call[c].cacheWarm
          /\ r.previous = call[c].previous
          /\ r.status = s
          /\ r.touched = call[c].touched
          /\ r.built = call[c].built
        BY <2>1 DEF PrepareRecord
    <2> HIDE DEF r
    <2>3. /\ call' \in [Caller -> CallRecord]
          /\ call'[c] = r
          /\ \A d \in Others(c) : call'[d] = call[d]
        BY <1>1, <2>2, Calls DEF CallRecord
    <2> QED BY <1>4, <2>2, <2>3 DEF SameRequest, Solving, Preparing
<1> QED BY <1>3, <1>4
LEMMA TableNoted ==
    ASSUME Typed, NEW c \in Caller, Solving(c) \/ Preparing(c), NEW t \in Table,
           NEW r, call' = [call EXCEPT ![c] = r],
           \/ r = [call[c] EXCEPT !.touched = @ \cup {t}]
           \/ r = [call[c] EXCEPT !.read = @ \cup {t}]
           \/ r = [call[c] EXCEPT !.saved = @ \cup {t}]
    PROVE  /\ call' \in [Caller -> CallRecord]
           /\ SameRequest(c)
           /\ call'[c].status = call[c].status
           /\ call'[c].touched \in {call[c].touched, call[c].touched \cup {t}}
           /\ call'[c].built = call[c].built
           /\ \A d \in Others(c) : call'[d] = call[d]
<1>2. call[c] \in CallRecord
    BY DEF Typed
<1>3. CASE Solving(c)
    <2>1. call[c] \in SolveRecord
        BY <1>2, <1>3, KindOf DEF Solving, Preparing
    <2>2. /\ r \in SolveRecord
          /\ r.kind = call[c].kind
          /\ r.options = call[c].options
          /\ r.plan = call[c].plan
          /\ r.warm = call[c].warm
          /\ r.status = call[c].status
          /\ r.touched \in {call[c].touched, call[c].touched \cup {t}}
          /\ r.built = call[c].built
        BY <2>1 DEF SolveRecord
    <2>3. /\ call' \in [Caller -> CallRecord]
          /\ call'[c] = r
          /\ \A d \in Others(c) : call'[d] = call[d]
        BY <2>2, Calls DEF CallRecord
    <2> QED BY <1>3, <2>2, <2>3 DEF SameRequest, Solving, Preparing
<1>4. CASE Preparing(c)
    <2>1. call[c] \in PrepareRecord
        BY <1>2, <1>4, KindOf DEF Solving, Preparing
    <2>2. /\ r \in PrepareRecord
          /\ r.kind = call[c].kind
          /\ r.options = call[c].options
          /\ r.plan = call[c].plan
          /\ r.dir = call[c].dir
          /\ r.dryRun = call[c].dryRun
          /\ r.ready = call[c].ready
          /\ r.cacheWarm = call[c].cacheWarm
          /\ r.previous = call[c].previous
          /\ r.status = call[c].status
          /\ r.touched \in {call[c].touched, call[c].touched \cup {t}}
          /\ r.built = call[c].built
        BY <2>1 DEF PrepareRecord
    <2>3. /\ call' \in [Caller -> CallRecord]
          /\ call'[c] = r
          /\ \A d \in Others(c) : call'[d] = call[d]
        BY <2>2, Calls DEF CallRecord
    <2> QED BY <1>4, <2>2, <2>3 DEF SameRequest, Solving, Preparing
<1> QED BY <1>3, <1>4

LEMMA TableBuilt ==
    ASSUME Typed, NEW c \in Caller, Solving(c) \/ Preparing(c), NEW t \in Table,
           NEW r, call' = [call EXCEPT ![c] = r],
           r = [call[c] EXCEPT !.built = @ \cup {t}]
    PROVE  /\ call' \in [Caller -> CallRecord]
           /\ SameRequest(c)
           /\ call'[c].status = call[c].status
           /\ call'[c].touched = call[c].touched
           /\ call'[c].built = call[c].built \cup {t}
           /\ \A d \in Others(c) : call'[d] = call[d]
<1>2. call[c] \in CallRecord
    BY DEF Typed
<1>3. CASE Solving(c)
    <2>1. call[c] \in SolveRecord
        BY <1>2, <1>3, KindOf DEF Solving, Preparing
    <2>2. /\ r \in SolveRecord
          /\ r.kind = call[c].kind
          /\ r.options = call[c].options
          /\ r.plan = call[c].plan
          /\ r.warm = call[c].warm
          /\ r.status = call[c].status
          /\ r.touched = call[c].touched
          /\ r.built = call[c].built \cup {t}
        BY <2>1 DEF SolveRecord
    <2>3. /\ call' \in [Caller -> CallRecord]
          /\ call'[c] = r
          /\ \A d \in Others(c) : call'[d] = call[d]
        BY <2>2, Calls DEF CallRecord
    <2> QED BY <1>3, <2>2, <2>3 DEF SameRequest, Solving, Preparing
<1>4. CASE Preparing(c)
    <2>1. call[c] \in PrepareRecord
        BY <1>2, <1>4, KindOf DEF Solving, Preparing
    <2>2. /\ r \in PrepareRecord
          /\ r.kind = call[c].kind
          /\ r.options = call[c].options
          /\ r.plan = call[c].plan
          /\ r.dir = call[c].dir
          /\ r.dryRun = call[c].dryRun
          /\ r.ready = call[c].ready
          /\ r.cacheWarm = call[c].cacheWarm
          /\ r.previous = call[c].previous
          /\ r.status = call[c].status
          /\ r.touched = call[c].touched
          /\ r.built = call[c].built \cup {t}
        BY <2>1 DEF PrepareRecord
    <2>3. /\ call' \in [Caller -> CallRecord]
          /\ call'[c] = r
          /\ \A d \in Others(c) : call'[d] = call[d]
        BY <2>2, Calls DEF CallRecord
    <2> QED BY <1>4, <2>2, <2>3 DEF SameRequest, Solving, Preparing
<1> QED BY <1>3, <1>4

-----------------------------------------------------------------------------
(* What each step does. *)

LEMMA CallSolveEffect ==
    ASSUME Typed, NEW c \in Caller, CallSolve(c)
    PROVE  /\ call' \in [Caller -> CallRecord]
           /\ \A d \in Others(c) : call'[d] = call[d]
           /\ \E o \in Session[session].options :
                 /\ o \in SolveOptions
                 /\ call'[c].kind = "solve" /\ call'[c].status = "running"
                 /\ call'[c].options = o
                 /\ call'[c].warm = {p \in Profile : MissingTables(directory, p) = {}}
                 /\ call'[c].touched = {} /\ call'[c].built = {}
           /\ calls' \in Nat /\ calls' <= Session[session].calls
<1>1. PICK o \in Session[session].options, cube \in {"invalid", "solved", "scrambled"} :
           call' = [call EXCEPT ![c] = SolveCall(o, cube)]
    BY DEF CallSolve
<1> DEFINE r == SolveCall(o, cube)
<1>2. o \in SolveOptions
    BY RequestAssumption DEF Typed
<1>3. /\ r \in SolveRecord
      /\ r.kind = "solve" /\ r.status = "running" /\ r.options = o
      /\ r.warm = {p \in Profile : ProfileTables(p) \subseteq files[directory]}
      /\ r.touched = {} /\ r.built = {}
    <2>1. Decision(FALSE, "InternalError", o.profile, o.memory, "") \in PlanRecord
        BY <1>2 DEF Decision, PlanRecord, Strategy, SolveOptions
    <2> QED BY <1>2, <2>1 DEF SolveCall, SolveRecord, SolveStatus
<1>4. r.warm = {p \in Profile : MissingTables(directory, p) = {}}
    BY <1>3 DEF MissingTables
<1> HIDE DEF r
<1>5. /\ call' \in [Caller -> CallRecord]
      /\ call'[c] = r
      /\ \A d \in Others(c) : call'[d] = call[d]
    BY <1>1, <1>3, Calls DEF CallRecord, r
<1>6. calls' \in Nat /\ calls' <= Session[session].calls
    BY RequestAssumption DEF Typed, CallSolve, MayCall
<1> QED BY <1>2, <1>3, <1>4, <1>5, <1>6

LEMMA CallPrepareEffect ==
    ASSUME Typed, NEW c \in Caller, CallPrepare(c)
    PROVE  /\ call' \in [Caller -> CallRecord]
           /\ \A d \in Others(c) : call'[d] = call[d]
           /\ \E s \in Session[session].setups :
                 /\ call'[c].kind = "prepare" /\ call'[c].status = "running"
                 /\ call'[c].options = s.options
                 /\ call'[c].dir = s.dir
                 /\ call'[c].previous = IF s.dir = None THEN None ELSE directory
                 /\ ~call'[c].ready /\ ~call'[c].cacheWarm
                 /\ Goto(c, IF s.dir = None THEN "plan" ELSE "relocate")
           /\ calls' \in Nat /\ calls' <= Session[session].calls
<1>1. PICK s \in Session[session].setups :
          IF s.dir = None
            THEN call' = [call EXCEPT ![c] = SetupCall(s)] /\ Goto(c, "plan")
            ELSE /\ call' = [call EXCEPT ![c] = [SetupCall(s) EXCEPT !.previous = directory]]
                 /\ Goto(c, "relocate")
    BY DEF CallPrepare
<1> DEFINE r == IF s.dir = None THEN SetupCall(s) ELSE [SetupCall(s) EXCEPT !.previous = directory]
<1>2. s.options \in SolveOptions /\ s.dir \in Dir \cup {None} /\ s.dryRun \in BOOLEAN
    BY RequestAssumption DEF Typed
<1>3. /\ r \in PrepareRecord
      /\ r.kind = "prepare" /\ r.status = "running" /\ r.options = s.options
      /\ r.dir = s.dir
      /\ r.previous = IF s.dir = None THEN None ELSE directory
      /\ ~r.ready /\ ~r.cacheWarm
    <2>1. Decision(FALSE, "InternalError", s.options.profile, s.options.memory, "") \in PlanRecord
        BY <1>2 DEF Decision, PlanRecord, Strategy, SolveOptions
    <2>2. directory \in Dir
        BY DEF Typed
    <2> QED BY <1>2, <2>1, <2>2 DEF SetupCall, PrepareRecord
<1>4. call' = [call EXCEPT ![c] = r] /\ Goto(c, IF s.dir = None THEN "plan" ELSE "relocate")
    BY <1>1
<1> HIDE DEF r
<1>5. /\ call' \in [Caller -> CallRecord]
      /\ call'[c] = r
      /\ \A d \in Others(c) : call'[d] = call[d]
    BY <1>3, <1>4, Calls DEF CallRecord
<1>6. calls' \in Nat /\ calls' <= Session[session].calls
    BY RequestAssumption DEF Typed, CallPrepare, MayCall
<1> QED BY <1>3, <1>4, <1>5, <1>6

LEMMA PlanEffect ==
    ASSUME Typed, NEW c \in Caller, Plan(c)
    PROVE  LET plan == MakeOptimalPlan(call[c].options, WarmProfiles) IN
           /\ Solving(c)
           /\ plan \in PlanRecord
           /\ call' \in [Caller -> CallRecord]
           /\ \A d \in Others(c) : call'[d] = call[d]
           /\ call'[c].kind = "solve"
           /\ call'[c].options = call[c].options
           /\ call'[c].warm = call[c].warm
           /\ call'[c].touched = call[c].touched
           /\ call'[c].built = call[c].built
           /\ call'[c].plan = plan
           /\ call'[c].status = IF plan.supported THEN "running" ELSE plan.status
<1> DEFINE plan == MakeOptimalPlan(call[c].options, WarmProfiles)
           status == IF plan.supported THEN "running" ELSE plan.status
           r == [call[c] EXCEPT !.plan = plan, !.status = status]
<1>1. call' = [call EXCEPT ![c] = r] /\ Solving(c)
    BY DEF Plan, Solving
<1>2. call[c] \in SolveRecord
    BY <1>1, KindOf DEF Typed, Solving
<1>3. plan \in PlanRecord
    <2>1. call[c].options \in SolveOptions /\ WarmProfiles \in SUBSET Profile
        BY <1>2 DEF SolveRecord, WarmProfiles
    <2> QED BY <2>1, PlanMeans
<1> HIDE DEF plan
<1>4. status \in SolveStatus
    <2>1. plan.supported <=> plan.status = "Found"
        BY <1>2, PlanMeans DEF plan, SolveRecord, WarmProfiles
    <2>2. plan.status \in {"Found", "InternalError", "UnsupportedOptions", "MemoryLimitExceeded", "CacheNotReady"}
        BY <1>3 DEF PlanRecord
    <2> QED BY <2>1, <2>2 DEF SolveStatus
<1> HIDE DEF status
<1>5. /\ r \in SolveRecord
      /\ r.kind = "solve" /\ r.options = call[c].options /\ r.warm = call[c].warm
      /\ r.touched = call[c].touched /\ r.built = call[c].built
      /\ r.plan = plan /\ r.status = status
    BY <1>2, <1>3, <1>4 DEF SolveRecord
<1> HIDE DEF r
<1>6. /\ call' \in [Caller -> CallRecord]
      /\ call'[c] = r
      /\ \A d \in Others(c) : call'[d] = call[d]
    BY <1>1, <1>5, Calls DEF CallRecord
<1> QED BY <1>1, <1>3, <1>5, <1>6 DEF plan, status

LEMMA SetupOptionsTyped ==
    ASSUME NEW o \in SolveOptions
    PROVE  SetupOptions(o) \in SolveOptions
BY DEF SetupOptions, SolveOptions, Policy

LEMMA InspectCacheEffect ==
    ASSUME Typed, NEW c \in Caller, InspectCache(c)
    PROVE  /\ call' \in [Caller -> CallRecord]
           /\ \A d \in Others(c) : call'[d] = call[d]
           /\ Preparing(c)
           /\ call'[c].kind = "prepare"
           /\ call'[c].options = call[c].options
           /\ call'[c].dir = call[c].dir
           /\ call'[c].dryRun = call[c].dryRun
           /\ call'[c].previous = call[c].previous
           /\ call'[c].status = call[c].status
           /\ call'[c].plan.profile \in Profile
           /\ call'[c].cacheWarm => MissingTables(SelectedDirectory(c), call'[c].plan.profile) = {}
           /\ \E builds \in BOOLEAN :
                 /\ call'[c].ready /\ ~call[c].dryRun /\ CacheEnabled(c) => builds
                 /\ todo' = [todo EXCEPT ![c] = IF builds THEN WarmCacheTables(call'[c].plan.profile) ELSE {}]
                 /\ Goto(c, IF builds THEN "touch" ELSE "restore")
<1> DEFINE plan == MakeOptimalPlan(SetupOptions(call[c].options), WarmProfiles)
           warm == plan.supported /\ WarmNow(c, plan.profile)
           refused == \/ ~plan.supported
                      \/ ~call[c].dryRun /\ CacheEnabled(c)
                           /\ call[c].options.policy = "RequireWarm" /\ ~warm
           builds == ~refused /\ ~call[c].dryRun /\ CacheEnabled(c)
           r == [call[c] EXCEPT !.plan = plan, !.ready = ~refused, !.cacheWarm = warm]
<1>1. /\ call' = [call EXCEPT ![c] = r]
      /\ todo' = [todo EXCEPT ![c] = IF builds THEN WarmCacheTables(plan.profile) ELSE {}]
      /\ Goto(c, IF builds THEN "touch" ELSE "restore")
      /\ Preparing(c)
    BY DEF InspectCache, Preparing
<1>2. call[c] \in PrepareRecord
    BY <1>1, KindOf DEF Typed, Preparing
<1>3. plan \in PlanRecord
    <2>1. call[c].options \in SolveOptions /\ WarmProfiles \in SUBSET Profile
        BY <1>2 DEF PrepareRecord, WarmProfiles
    <2> QED BY <2>1, SetupOptionsTyped, PlanMeans
<1>4. plan.supported \in BOOLEAN /\ plan.profile \in Profile
    BY <1>3 DEF PlanRecord
<1> HIDE DEF plan
<1>5. warm \in BOOLEAN /\ refused \in BOOLEAN /\ builds \in BOOLEAN
    BY <1>4 DEF WarmNow, CacheEnabled
<1>6. warm => MissingTables(SelectedDirectory(c), plan.profile) = {}
    BY DEF WarmNow
<1>7. ~refused /\ ~call[c].dryRun /\ CacheEnabled(c) => builds
    OBVIOUS
<1> HIDE DEF warm, refused, builds
<1>8. /\ r \in PrepareRecord
      /\ r.kind = "prepare" /\ r.options = call[c].options /\ r.dir = call[c].dir
      /\ r.dryRun = call[c].dryRun /\ r.previous = call[c].previous /\ r.status = call[c].status
      /\ r.plan = plan /\ r.ready = ~refused /\ r.cacheWarm = warm
    BY <1>2, <1>3, <1>5 DEF PrepareRecord
<1> HIDE DEF r
<1>9. /\ call' \in [Caller -> CallRecord]
      /\ call'[c] = r
      /\ \A d \in Others(c) : call'[d] = call[d]
    BY <1>1, <1>8, Calls DEF CallRecord
<1> QED BY <1>1, <1>4, <1>5, <1>6, <1>7, <1>8, <1>9

LEMMA ReinspectEffect ==
    ASSUME Typed, NEW c \in Caller, Reinspect(c)
    PROVE  /\ call' \in [Caller -> CallRecord]
           /\ \A d \in Others(c) : call'[d] = call[d]
           /\ Preparing(c)
           /\ call'[c].kind = "prepare"
           /\ call'[c].options = call[c].options
           /\ call'[c].dir = call[c].dir
           /\ call'[c].dryRun = call[c].dryRun
           /\ call'[c].previous = call[c].previous
           /\ call'[c].status = call[c].status
           /\ call'[c].plan = call[c].plan
           /\ call'[c].ready = call[c].ready
           /\ call'[c].cacheWarm => MissingTables(SelectedDirectory(c), call[c].plan.profile) = {}
<1> DEFINE warm == WarmNow(c, call[c].plan.profile)
           r == [call[c] EXCEPT !.cacheWarm = warm]
<1>1. call' = [call EXCEPT ![c] = r] /\ Preparing(c)
    BY DEF Reinspect, Preparing
<1>2. call[c] \in PrepareRecord
    BY <1>1, KindOf DEF Typed, Preparing
<1>3. warm \in BOOLEAN /\ (warm => MissingTables(SelectedDirectory(c), call[c].plan.profile) = {})
    BY DEF WarmNow, CacheEnabled
<1> HIDE DEF warm
<1>4. /\ r \in PrepareRecord
      /\ r.kind = "prepare" /\ r.options = call[c].options /\ r.dir = call[c].dir
      /\ r.dryRun = call[c].dryRun /\ r.previous = call[c].previous /\ r.status = call[c].status
      /\ r.plan = call[c].plan /\ r.ready = call[c].ready /\ r.cacheWarm = warm
    BY <1>2, <1>3 DEF PrepareRecord
<1> HIDE DEF r
<1>5. /\ call' \in [Caller -> CallRecord]
      /\ call'[c] = r
      /\ \A d \in Others(c) : call'[d] = call[d]
    BY <1>1, <1>4, Calls DEF CallRecord
<1> QED BY <1>1, <1>3, <1>4, <1>5

\* A step that leaves the directory alone, and whether a preparation is away.
LEMMA GivenBackKept ==
    ASSUME DirectoryGivenBack, NEW c \in Caller, directory' = directory,
           \A d \in Others(c) : call'[d] = call[d] /\ pc'[d] = pc[d],
           Away(c)' <=> Away(c),
           Preparing(c)' => /\ Preparing(c)
                            /\ call'[c].previous = call[c].previous
                            /\ call'[c].dir = call[c].dir
    PROVE  DirectoryGivenBack'
<1> SUFFICES ASSUME OnePreparer PROVE DirectoryGivenBack'
    BY DEF DirectoryGivenBack
<1>1. \A d \in Others(c) : (Away(d)' <=> Away(d)) /\ (Preparing(d)' <=> Preparing(d))
    BY DEF Away, Preparing
<1>2. \A d \in Caller : Away(d)' <=> Away(d)
    BY <1>1 DEF Others
<1>3. \A d \in Caller : Preparing(d)' => /\ Preparing(d)
                                         /\ call'[d].previous = call[d].previous
                                         /\ call'[d].dir = call[d].dir
    BY <1>1 DEF Others
<1> QED BY <1>2, <1>3 DEF DirectoryGivenBack

\* A step that leaves the directory alone, takes no file away, and reports no cold cache as warm.
LEMMA ReportKept ==
    ASSUME Typed, WarmReported, NEW c \in Caller, directory' = directory,
           \A d \in Dir : files[d] \subseteq files'[d],
           \A d \in Others(c) : call'[d] = call[d],
           Preparing(c)' /\ call'[c].cacheWarm =>
               \/ /\ Preparing(c) /\ call[c].cacheWarm
                  /\ call'[c].dir = call[c].dir /\ call'[c].plan = call[c].plan
               \/ MissingTables(SelectedDirectory(c), call[c].plan.profile)' = {}
    PROVE  WarmReported'
<1> SUFFICES ASSUME OnePreparer \/ DirectoryKept, NEW d \in Caller, Preparing(d)', call'[d].cacheWarm
             PROVE  MissingTables(SelectedDirectory(d), call[d].plan.profile)' = {}
    BY DEF WarmReported
<1>1. CASE /\ Preparing(d) /\ call[d].cacheWarm
           /\ call'[d].dir = call[d].dir /\ call'[d].plan = call[d].plan
    <2>2. SelectedDirectory(d) \in Dir
        BY <1>1, KindOf DEF Typed, Preparing, PrepareRecord, SelectedDirectory
    <2>3. SelectedDirectory(d)' = SelectedDirectory(d)
        BY <1>1 DEF SelectedDirectory
    <2>4. MissingTables(SelectedDirectory(d), call[d].plan.profile) = {}
        BY <1>1 DEF WarmReported
    <2> QED BY <1>1, <2>2, <2>3, <2>4 DEF MissingTables
<1> QED BY <1>1 DEF Others, Preparing
-----------------------------------------------------------------------------
(* Each step keeps the invariant. *)

LEMMA CallSolveStep ==
    ASSUME IInv, NEW c \in Caller, CallSolve(c), session' = session
    PROVE  IInv'
<1> USE DEF Others
<1>1. /\ pc[c] = "idle"
      /\ UNCHANGED <<directory, files, loaded, initialising, origin, todo>>
      /\ Goto(c, "plan")
    BY DEF CallSolve, MayCall, shared
<1>2. /\ pc' \in [Caller -> Label]
      /\ pc'[c] = "plan"
      /\ \A d \in Others(c) : pc'[d] = pc[d]
    BY <1>1, Goes DEF IInv, Label
<1>3. /\ call' \in [Caller -> CallRecord]
      /\ \A d \in Others(c) : call'[d] = call[d]
      /\ \E o \in Session[session].options :
            /\ call'[c].kind = "solve" /\ call'[c].status = "running"
            /\ call'[c].options = o
            /\ call'[c].warm = {p \in Profile : MissingTables(directory, p) = {}}
            /\ call'[c].touched = {} /\ call'[c].built = {}
      /\ calls' \in Nat /\ calls' <= Session[session].calls
    BY CallSolveEffect DEF IInv
<1>4. todo[c] = {}
    BY <1>1 DEF IInv, PhasesFollowKinds, Touching, Initialising
<1>5. Typed'
    BY <1>1, <1>2, <1>3 DEF IInv, Typed
<1>6. CallsFollowSession'
    BY <1>3 DEF IInv, CallsFollowSession, Solving, Preparing
<1>7. PhasesFollowKinds'
    BY <1>1, <1>2, <1>3, <1>4 DEF IInv, PhasesFollowKinds, Solving, Preparing
<1>8. GuardsHeld'
    BY <1>1, <1>2, <1>4 DEF IInv, GuardsHeld
<1>9. TouchesWithinCharge'
    BY <1>1, <1>2, <1>3 DEF IInv, TouchesWithinCharge, WithinCharge, Touching, Initialising,
       Solving
<1>10. AutoPlans'
    BY <1>2, <1>3 DEF IInv, AutoPlans, Solving
<1>11. OriginsFiled'
    BY <1>1, <1>2 DEF IInv, OriginsFiled
<1>12. PreparationProgress'
    BY <1>1, <1>3 DEF IInv, PreparationProgress, CacheEnabled, Preparing
<1>13. DirectoryStays'
    BY <1>1, <1>3 DEF IInv, DirectoryStays, Preparing
<1>14. DirectoryGivenBack'
    <2>1. Away(c)' <=> Away(c)
        BY <1>1, <1>3 DEF Away, Preparing
    <2>2. Preparing(c)' => /\ Preparing(c)
                          /\ call'[c].previous = call[c].previous
                          /\ call'[c].dir = call[c].dir
        BY <1>3 DEF Preparing
    <2> QED BY <1>1, <1>2, <1>3, <2>1, <2>2, GivenBackKept DEF IInv
<1>15. WarmReported'
    <2>1. Preparing(c)' /\ call'[c].cacheWarm =>
              \/ /\ Preparing(c) /\ call[c].cacheWarm
                 /\ call'[c].dir = call[c].dir /\ call'[c].plan = call[c].plan
              \/ MissingTables(SelectedDirectory(c), call[c].plan.profile)' = {}
        BY <1>3 DEF Preparing
    <2>2. directory' = directory /\ \A d \in Dir : files[d] \subseteq files'[d]
        BY <1>1
    <2>3. \A d \in Others(c) : call'[d] = call[d]
        BY <1>3
    <2> QED BY <2>1, <2>2, <2>3, ReportKept DEF IInv
<1>16. WarmStays'
    BY <1>1, <1>3 DEF IInv, WarmStays, MissingTables, Solving
<1>17. WarmOnly'
    BY <1>1, <1>2, <1>3, <1>4 DEF IInv, WarmOnly, MissingTables, Solving
<1> QED BY <1>5, <1>6, <1>7, <1>8, <1>9, <1>10, <1>11, <1>12, <1>13, <1>14, <1>15, <1>16, <1>17 DEF
           IInv

LEMMA CallPrepareStep ==
    ASSUME IInv, NEW c \in Caller, CallPrepare(c), session' = session
    PROVE  IInv'
<1> USE DEF Others
<1>1. /\ pc[c] = "idle" /\ c \in Preparer
      /\ UNCHANGED <<directory, files, loaded, initialising, origin, todo>>
    BY DEF CallPrepare, MayCall, shared
<1>2. /\ call' \in [Caller -> CallRecord]
      /\ \A d \in Others(c) : call'[d] = call[d]
      /\ call'[c].kind = "prepare" /\ call'[c].status = "running" /\ ~call'[c].ready /\ ~call'[c].cacheWarm
      /\ call'[c].previous = IF call'[c].dir = None THEN None ELSE directory
      /\ \E s \in Session[session].setups : call'[c].options = s.options /\ call'[c].dir = s.dir
      /\ calls' \in Nat /\ calls' <= Session[session].calls
    BY CallPrepareEffect DEF IInv
<1>3. Goto(c, IF call'[c].dir = None THEN "plan" ELSE "relocate")
    BY CallPrepareEffect DEF IInv
<1>4. /\ pc' \in [Caller -> Label]
      /\ pc'[c] = IF call'[c].dir = None THEN "plan" ELSE "relocate"
      /\ \A d \in Others(c) : pc'[d] = pc[d]
    BY <1>3, Goes DEF IInv, Label
<1>5. DirectoryKept => call'[c].dir \in {None, Home}
    BY <1>2 DEF IInv, Typed, DirectoryKept
<1>6. Typed'
    BY <1>1, <1>2, <1>4 DEF IInv, Typed
<1>7. CallsFollowSession'
    BY <1>1, <1>2 DEF IInv, CallsFollowSession, Solving, Preparing
<1>8. PhasesFollowKinds'
    BY <1>1, <1>2, <1>4 DEF IInv, PhasesFollowKinds, Touching, Initialising, Solving, Preparing
<1>9. GuardsHeld'
    BY <1>1, <1>4 DEF IInv, GuardsHeld, Initialising
<1>10. TouchesWithinCharge'
    BY <1>1, <1>2, <1>4 DEF IInv, TouchesWithinCharge, WithinCharge, Solving
<1>11. AutoPlans'
    BY <1>2, <1>4 DEF IInv, AutoPlans, Solving
<1>12. OriginsFiled'
    BY <1>1, <1>4 DEF IInv, OriginsFiled
<1>13. PreparationProgress'
    BY <1>1, <1>2 DEF IInv, PreparationProgress, CacheEnabled, Preparing
<1>14. DirectoryStays'
    BY <1>1, <1>2, <1>5 DEF IInv, DirectoryStays, Preparing
<1>15. DirectoryGivenBack'
    <2> SUFFICES ASSUME OnePreparer PROVE DirectoryGivenBack'
        BY DEF DirectoryGivenBack
    <2>1. \A d \in Others(c) : ~Preparing(d)
        BY <1>1 DEF IInv, CallsFollowSession, OnePreparer
    <2>2. directory = Home
        BY <1>1, <2>1 DEF IInv, Away, DirectoryGivenBack
    <2>3. \A d \in Caller : Preparing(d)' => d = c
        BY <1>2, <2>1 DEF Preparing
    <2> QED BY <1>1, <1>2, <2>2, <2>3 DEF DirectoryGivenBack
<1>16. WarmReported'
    <2>1. Preparing(c)' /\ call'[c].cacheWarm =>
              \/ /\ Preparing(c) /\ call[c].cacheWarm
                 /\ call'[c].dir = call[c].dir /\ call'[c].plan = call[c].plan
              \/ MissingTables(SelectedDirectory(c), call[c].plan.profile)' = {}
        BY <1>2
    <2>2. directory' = directory /\ \A d \in Dir : files[d] \subseteq files'[d]
        BY <1>1
    <2>3. \A d \in Others(c) : call'[d] = call[d]
        BY <1>2
    <2> QED BY <2>1, <2>2, <2>3, ReportKept DEF IInv
<1>17. WarmStays'
    BY <1>1, <1>2 DEF IInv, WarmStays, MissingTables, Solving
<1>18. WarmOnly'
    BY <1>1, <1>2, <1>4 DEF IInv, WarmOnly, MissingTables, Solving
<1> QED BY <1>6, <1>7, <1>8, <1>9, <1>10, <1>11, <1>12, <1>13, <1>14, <1>15, <1>16, <1>17, <1>18
           DEF IInv

LEMMA PlanStep ==
    ASSUME IInv, NEW c \in Caller, Plan(c), session' = session
    PROVE  IInv'
<1> USE DEF Others
<1>1. /\ pc[c] = "plan" /\ Solving(c)
      /\ UNCHANGED <<directory, files, loaded, initialising, origin, todo, calls>>
      /\ Goto(c, IF call'[c].plan.supported THEN "arguments" ELSE "idle")
    BY PlanEffect DEF IInv, Plan, shared
<1>2. /\ pc' \in [Caller -> Label]
      /\ pc'[c] = IF call'[c].plan.supported THEN "arguments" ELSE "idle"
      /\ \A d \in Others(c) : pc'[d] = pc[d]
    BY <1>1, Goes DEF IInv, Label
<1>3. /\ call' \in [Caller -> CallRecord]
      /\ \A d \in Others(c) : call'[d] = call[d]
      /\ call'[c].kind = "solve"
      /\ call'[c].options = call[c].options
      /\ call'[c].warm = call[c].warm
      /\ call'[c].touched = call[c].touched
      /\ call'[c].built = call[c].built
      /\ call'[c].status = IF call'[c].plan.supported THEN "running" ELSE call'[c].plan.status
    BY PlanEffect DEF IInv
<1>4. /\ call'[c].plan = MakeOptimalPlan(call[c].options, WarmProfiles)
      /\ call[c].options \in SolveOptions
      /\ WarmProfiles \in SUBSET Profile
    BY PlanEffect, KindOf DEF IInv, Solving, SolveRecord, WarmProfiles
<1>5. call[c].options.profile = "Auto" =>
          /\ call'[c].plan.supported => AutoGranted(call[c].options, call'[c].plan)
          /\ call'[c].plan.status = "MemoryLimitExceeded" => AutoRefused(call'[c].plan)
    BY <1>4, PlanMeans
<1>6. call'[c].status = "CacheNotReady" => MissingTables(directory, call'[c].plan.profile) # {}
    <2>1. call'[c].status = "CacheNotReady" => call'[c].plan.profile \notin WarmProfiles
        BY <1>3, <1>4, PlanMeans
    <2>2. call'[c].plan.profile \in Profile
        BY <1>4, PlanMeans DEF PlanRecord
    <2> QED BY <2>1, <2>2 DEF WarmProfiles, ProfileCacheWarm
<1>7. Typed'
    BY <1>1, <1>2, <1>3 DEF IInv, Typed
<1>8. CallsFollowSession'
    BY <1>1, <1>3 DEF IInv, CallsFollowSession, Solving, Preparing
<1>9. PhasesFollowKinds'
    BY <1>1, <1>2, <1>3 DEF IInv, PhasesFollowKinds, Touching, Initialising, Solving, Preparing
<1>10. GuardsHeld'
    BY <1>1, <1>2 DEF IInv, GuardsHeld, Initialising
<1>11. TouchesWithinCharge'
    BY <1>1, <1>2, <1>3 DEF IInv, TouchesWithinCharge, WithinCharge, Touching, Initialising,
       Solving
<1>12. AutoPlans'
    BY <1>2, <1>3, <1>5 DEF IInv, AutoPlans, Solving
<1>13. OriginsFiled'
    BY <1>1, <1>2 DEF IInv, OriginsFiled
<1>14. PreparationProgress'
    BY <1>1, <1>3 DEF IInv, PreparationProgress, CacheEnabled, Preparing
<1>15. DirectoryStays'
    BY <1>1, <1>3 DEF IInv, DirectoryStays, Preparing
<1>16. DirectoryGivenBack'
    <2>1. Away(c)' <=> Away(c)
        BY <1>1, <1>3 DEF Away, Preparing, Solving
    <2>2. Preparing(c)' => /\ Preparing(c)
                          /\ call'[c].previous = call[c].previous
                          /\ call'[c].dir = call[c].dir
        BY <1>3 DEF Preparing
    <2> QED BY <1>1, <1>2, <1>3, <2>1, <2>2, GivenBackKept DEF IInv
<1>17. WarmReported'
    <2>1. Preparing(c)' /\ call'[c].cacheWarm =>
              \/ /\ Preparing(c) /\ call[c].cacheWarm
                 /\ call'[c].dir = call[c].dir /\ call'[c].plan = call[c].plan
              \/ MissingTables(SelectedDirectory(c), call[c].plan.profile)' = {}
        BY <1>3 DEF Preparing
    <2>2. directory' = directory /\ \A d \in Dir : files[d] \subseteq files'[d]
        BY <1>1
    <2>3. \A d \in Others(c) : call'[d] = call[d]
        BY <1>3
    <2> QED BY <2>1, <2>2, <2>3, ReportKept DEF IInv
<1>18. WarmStays'
    BY <1>1, <1>3, <1>6 DEF IInv, WarmStays, MissingTables, Solving
<1>19. WarmOnly'
    BY <1>1, <1>2, <1>3 DEF IInv, WarmOnly, MissingTables, Solving
<1> QED BY <1>7, <1>8, <1>9, <1>10, <1>11, <1>12, <1>13, <1>14, <1>15, <1>16, <1>17, <1>18, <1>19
           DEF IInv

LEMMA CheckArgumentsStep ==
    ASSUME IInv, NEW c \in Caller, CheckArguments(c), session' = session
    PROVE  IInv'
<1> USE DEF Others
<1>1. /\ pc[c] = "arguments" /\ Solving(c)
      /\ UNCHANGED <<directory, files, loaded, initialising, origin, todo, calls>>
    BY DEF IInv, CheckArguments, PhasesFollowKinds, shared
<1>2. \/ \E s \in SolveStatus \ {"MemoryLimitExceeded"} :
            /\ Return(c, s)
            /\ s = "CacheNotReady" => MissingTables(directory, call[c].plan.profile) # {}
      \/ /\ Goto(c, "warm") /\ call' = call
    BY DEF CheckArguments, SolveStatus
<1>3. /\ pc' \in [Caller -> Label]
      /\ pc'[c] \in {"warm", "idle"}
      /\ \A d \in Others(c) : pc'[d] = pc[d]
    BY <1>2, Goes DEF IInv, Return, Label
<1>4. /\ call' \in [Caller -> CallRecord]
      /\ \A d \in Others(c) : call'[d] = call[d]
      /\ SameRequest(c)
      /\ call'[c].touched = call[c].touched
      /\ call'[c].built = call[c].built
      /\ \/ call'[c].status = call[c].status
         \/ /\ call'[c].status # "MemoryLimitExceeded"
            /\ call'[c].status = "CacheNotReady" => MissingTables(directory, call[c].plan.profile) # {}
    <2>1. ASSUME NEW s \in SolveStatus \ {"MemoryLimitExceeded"}, Return(c, s),
                 s = "CacheNotReady" => MissingTables(directory, call[c].plan.profile) # {}
          PROVE  /\ call' \in [Caller -> CallRecord]
                 /\ \A d \in Others(c) : call'[d] = call[d]
                 /\ SameRequest(c)
                 /\ call'[c].touched = call[c].touched
                 /\ call'[c].built = call[c].built
                 /\ call'[c].status # "MemoryLimitExceeded"
                 /\ call'[c].status = "CacheNotReady" => MissingTables(directory, call[c].plan.profile) # {}
        BY <1>1, <2>1, StatusSet DEF IInv, Return
    <2>2. CASE call' = call
        BY <2>2 DEF IInv, Typed, SameRequest
    <2> QED BY <1>2, <2>1, <2>2
<1>5. Typed'
    BY <1>1, <1>3, <1>4 DEF IInv, Typed
<1>6. CallsFollowSession'
    BY <1>4 DEF IInv, CallsFollowSession, Solving, Preparing, SameRequest
<1>7. PhasesFollowKinds'
    BY <1>1, <1>3, <1>4 DEF IInv, PhasesFollowKinds, Touching, Initialising, Solving, Preparing,
       SameRequest
<1>8. GuardsHeld'
    BY <1>1, <1>3 DEF IInv, GuardsHeld, Initialising
<1>9. TouchesWithinCharge'
    BY <1>1, <1>3, <1>4 DEF IInv, TouchesWithinCharge, WithinCharge, Touching, Initialising,
       Solving
<1>10. AutoPlans'
    BY <1>1, <1>3, <1>4 DEF IInv, AutoPlans, Solving, SameRequest
<1>11. OriginsFiled'
    BY <1>1, <1>3 DEF IInv, OriginsFiled
<1>12. PreparationProgress'
    BY <1>1, <1>4 DEF IInv, PreparationProgress, CacheEnabled, Preparing, SameRequest
<1>13. DirectoryStays'
    BY <1>1, <1>4 DEF IInv, DirectoryStays, Preparing, SameRequest
<1>14. DirectoryGivenBack'
    <2>1. Away(c)' <=> Away(c)
        BY <1>1, <1>4 DEF Away, Preparing, Solving, SameRequest
    <2>2. Preparing(c)' => /\ Preparing(c)
                          /\ call'[c].previous = call[c].previous
                          /\ call'[c].dir = call[c].dir
        BY <1>4 DEF Preparing, SameRequest
    <2> QED BY <1>1, <1>3, <1>4, <2>1, <2>2, GivenBackKept DEF IInv
<1>15. WarmReported'
    <2>1. Preparing(c)' /\ call'[c].cacheWarm =>
              \/ /\ Preparing(c) /\ call[c].cacheWarm
                 /\ call'[c].dir = call[c].dir /\ call'[c].plan = call[c].plan
              \/ MissingTables(SelectedDirectory(c), call[c].plan.profile)' = {}
        BY <1>4 DEF Preparing, SameRequest
    <2>2. directory' = directory /\ \A d \in Dir : files[d] \subseteq files'[d]
        BY <1>1
    <2>3. \A d \in Others(c) : call'[d] = call[d]
        BY <1>4
    <2> QED BY <2>1, <2>2, <2>3, ReportKept DEF IInv
<1>16. WarmStays'
    BY <1>1, <1>4 DEF IInv, WarmStays, MissingTables, Solving, SameRequest
<1>17. WarmOnly'
    BY <1>1, <1>3, <1>4 DEF IInv, WarmOnly, MissingTables, Solving, SameRequest
<1> QED BY <1>5, <1>6, <1>7, <1>8, <1>9, <1>10, <1>11, <1>12, <1>13, <1>14, <1>15, <1>16, <1>17 DEF
           IInv

LEMMA CheckWarmStep ==
    ASSUME IInv, NEW c \in Caller, CheckWarm(c), session' = session
    PROVE  IInv'
<1> USE DEF Others
<1>1. /\ pc[c] = "warm" /\ Solving(c)
      /\ UNCHANGED <<directory, files, loaded, initialising, origin, todo, calls>>
    BY DEF IInv, CheckWarm, PhasesFollowKinds, shared
<1>2. \/ \E s \in SolveStatus \ {"MemoryLimitExceeded"} :
            /\ Return(c, s)
            /\ s = "CacheNotReady" => MissingTables(directory, call[c].plan.profile) # {}
      \/ /\ Goto(c, "memory") /\ call' = call
         /\ call[c].options.policy = "RequireWarm" => MissingTables(directory, call[c].plan.profile) = {}
    BY DEF CheckWarm, SolveStatus, ProfileCacheWarm
<1>3. /\ pc' \in [Caller -> Label]
      /\ pc'[c] \in {"memory", "idle"}
      /\ \A d \in Others(c) : pc'[d] = pc[d]
    BY <1>2, Goes DEF IInv, Return, Label
<1>4. /\ call' \in [Caller -> CallRecord]
      /\ \A d \in Others(c) : call'[d] = call[d]
      /\ SameRequest(c)
      /\ call'[c].touched = call[c].touched
      /\ call'[c].built = call[c].built
      /\ \/ call'[c].status = call[c].status
         \/ /\ call'[c].status # "MemoryLimitExceeded"
            /\ call'[c].status = "CacheNotReady" => MissingTables(directory, call[c].plan.profile) # {}
    <2>1. ASSUME NEW s \in SolveStatus \ {"MemoryLimitExceeded"}, Return(c, s),
                 s = "CacheNotReady" => MissingTables(directory, call[c].plan.profile) # {}
          PROVE  /\ call' \in [Caller -> CallRecord]
                 /\ \A d \in Others(c) : call'[d] = call[d]
                 /\ SameRequest(c)
                 /\ call'[c].touched = call[c].touched
                 /\ call'[c].built = call[c].built
                 /\ call'[c].status # "MemoryLimitExceeded"
                 /\ call'[c].status = "CacheNotReady" => MissingTables(directory, call[c].plan.profile) # {}
        BY <1>1, <2>1, StatusSet DEF IInv, Return
    <2>2. CASE call' = call
        BY <2>2 DEF IInv, Typed, SameRequest
    <2> QED BY <1>2, <2>1, <2>2
<1>5. pc'[c] = "memory" /\ call[c].options.policy = "RequireWarm" =>
          MissingTables(directory, call[c].plan.profile) = {}
    BY <1>2 DEF IInv, Typed, Return, Goto
<1>6. Typed'
    BY <1>1, <1>3, <1>4 DEF IInv, Typed
<1>7. CallsFollowSession'
    BY <1>4 DEF IInv, CallsFollowSession, Solving, Preparing, SameRequest
<1>8. PhasesFollowKinds'
    BY <1>1, <1>3, <1>4 DEF IInv, PhasesFollowKinds, Touching, Initialising, Solving, Preparing,
       SameRequest
<1>9. GuardsHeld'
    BY <1>1, <1>3 DEF IInv, GuardsHeld, Initialising
<1>10. TouchesWithinCharge'
    BY <1>1, <1>3, <1>4 DEF IInv, TouchesWithinCharge, WithinCharge, Touching, Initialising,
       Solving
<1>11. AutoPlans'
    BY <1>1, <1>3, <1>4 DEF IInv, AutoPlans, Solving, SameRequest
<1>12. OriginsFiled'
    BY <1>1, <1>3 DEF IInv, OriginsFiled
<1>13. PreparationProgress'
    BY <1>1, <1>4 DEF IInv, PreparationProgress, CacheEnabled, Preparing, SameRequest
<1>14. DirectoryStays'
    BY <1>1, <1>4 DEF IInv, DirectoryStays, Preparing, SameRequest
<1>15. DirectoryGivenBack'
    <2>1. Away(c)' <=> Away(c)
        BY <1>1, <1>4 DEF Away, Preparing, Solving, SameRequest
    <2>2. Preparing(c)' => /\ Preparing(c)
                          /\ call'[c].previous = call[c].previous
                          /\ call'[c].dir = call[c].dir
        BY <1>4 DEF Preparing, SameRequest
    <2> QED BY <1>1, <1>3, <1>4, <2>1, <2>2, GivenBackKept DEF IInv
<1>16. WarmReported'
    <2>1. Preparing(c)' /\ call'[c].cacheWarm =>
              \/ /\ Preparing(c) /\ call[c].cacheWarm
                 /\ call'[c].dir = call[c].dir /\ call'[c].plan = call[c].plan
              \/ MissingTables(SelectedDirectory(c), call[c].plan.profile)' = {}
        BY <1>4 DEF Preparing, SameRequest
    <2>2. directory' = directory /\ \A d \in Dir : files[d] \subseteq files'[d]
        BY <1>1
    <2>3. \A d \in Others(c) : call'[d] = call[d]
        BY <1>4
    <2> QED BY <2>1, <2>2, <2>3, ReportKept DEF IInv
<1>17. WarmStays'
    BY <1>1, <1>4 DEF IInv, WarmStays, MissingTables, Solving, SameRequest
<1>18. WarmOnly'
    BY <1>1, <1>3, <1>4, <1>5 DEF IInv, WarmOnly, MissingTables, Solving, SameRequest
<1> QED BY <1>6, <1>7, <1>8, <1>9, <1>10, <1>11, <1>12, <1>13, <1>14, <1>15, <1>16, <1>17, <1>18
           DEF IInv

LEMMA SearchEndsStep ==
    ASSUME IInv, NEW c \in Caller, SearchEnds(c), session' = session
    PROVE  IInv'
<1> USE DEF Others
<1>1. /\ pc[c] = "touch" /\ Solving(c)
      /\ UNCHANGED <<directory, files, loaded, initialising, origin, todo, calls>>
      /\ todo[c] = {}
    BY DEF SearchEnds, Solving, shared
<1>2. \/ \E s \in SolveStatus \ {"MemoryLimitExceeded"} :
            /\ Return(c, s)
            /\ s = "CacheNotReady" => MissingTables(directory, call[c].plan.profile) # {}
    BY DEF SearchEnds, SolveStatus
<1>3. /\ pc' \in [Caller -> Label]
      /\ pc'[c] \in {"idle"}
      /\ \A d \in Others(c) : pc'[d] = pc[d]
    BY <1>2, Goes DEF IInv, Return, Label
<1>4. /\ call' \in [Caller -> CallRecord]
      /\ \A d \in Others(c) : call'[d] = call[d]
      /\ SameRequest(c)
      /\ call'[c].touched = call[c].touched
      /\ call'[c].built = call[c].built
      /\ \/ call'[c].status = call[c].status
         \/ /\ call'[c].status # "MemoryLimitExceeded"
            /\ call'[c].status = "CacheNotReady" => MissingTables(directory, call[c].plan.profile) # {}
    <2>1. ASSUME NEW s \in SolveStatus \ {"MemoryLimitExceeded"}, Return(c, s),
                 s = "CacheNotReady" => MissingTables(directory, call[c].plan.profile) # {}
          PROVE  /\ call' \in [Caller -> CallRecord]
                 /\ \A d \in Others(c) : call'[d] = call[d]
                 /\ SameRequest(c)
                 /\ call'[c].touched = call[c].touched
                 /\ call'[c].built = call[c].built
                 /\ call'[c].status # "MemoryLimitExceeded"
                 /\ call'[c].status = "CacheNotReady" => MissingTables(directory, call[c].plan.profile) # {}
        BY <1>1, <2>1, StatusSet DEF IInv, Return
    <2> QED BY <1>2, <2>1
<1>5. Typed'
    BY <1>1, <1>3, <1>4 DEF IInv, Typed
<1>6. CallsFollowSession'
    BY <1>4 DEF IInv, CallsFollowSession, Solving, Preparing, SameRequest
<1>7. PhasesFollowKinds'
    BY <1>1, <1>3, <1>4 DEF IInv, PhasesFollowKinds, Touching, Initialising, Solving, Preparing
<1>8. GuardsHeld'
    BY <1>1, <1>3 DEF IInv, GuardsHeld
<1>9. TouchesWithinCharge'
    BY <1>1, <1>3, <1>4 DEF IInv, TouchesWithinCharge, WithinCharge, Touching, Solving, SameRequest
<1>10. AutoPlans'
    BY <1>3, <1>4 DEF IInv, AutoPlans, Solving, SameRequest
<1>11. OriginsFiled'
    BY <1>1, <1>3 DEF IInv, OriginsFiled
<1>12. PreparationProgress'
    BY <1>1, <1>4 DEF IInv, PreparationProgress, CacheEnabled, Preparing, SameRequest
<1>13. DirectoryStays'
    BY <1>1, <1>4 DEF IInv, DirectoryStays, Preparing, SameRequest
<1>14. DirectoryGivenBack'
    <2>1. Away(c)' <=> Away(c)
        BY <1>1, <1>3 DEF Away, Preparing, Solving
    <2>2. Preparing(c)' => /\ Preparing(c)
                          /\ call'[c].previous = call[c].previous
                          /\ call'[c].dir = call[c].dir
        BY <1>4 DEF Preparing, SameRequest
    <2> QED BY <1>1, <1>3, <1>4, <2>1, <2>2, GivenBackKept DEF IInv
<1>15. WarmReported'
    <2>1. Preparing(c)' /\ call'[c].cacheWarm =>
              \/ /\ Preparing(c) /\ call[c].cacheWarm
                 /\ call'[c].dir = call[c].dir /\ call'[c].plan = call[c].plan
              \/ MissingTables(SelectedDirectory(c), call[c].plan.profile)' = {}
        BY <1>4 DEF Preparing, SameRequest
    <2>2. directory' = directory /\ \A d \in Dir : files[d] \subseteq files'[d]
        BY <1>1
    <2>3. \A d \in Others(c) : call'[d] = call[d]
        BY <1>4
    <2> QED BY <2>1, <2>2, <2>3, ReportKept DEF IInv
<1>16. WarmStays'
    BY <1>1, <1>4 DEF IInv, WarmStays, MissingTables, Solving, SameRequest
<1>17. WarmOnly'
    BY <1>1, <1>3, <1>4 DEF IInv, WarmOnly, MissingTables, Solving, SameRequest
<1> QED BY <1>5, <1>6, <1>7, <1>8, <1>9, <1>10, <1>11, <1>12, <1>13, <1>14, <1>15, <1>16, <1>17 DEF
           IInv

LEMMA CheckMemoryStep ==
    ASSUME IInv, NEW c \in Caller, CheckMemory(c), session' = session
    PROVE  IInv'
<1> USE DEF Others
<1>1. /\ pc[c] = "memory" /\ Solving(c)
      /\ UNCHANGED <<directory, files, loaded, initialising, origin, calls>>
    BY DEF IInv, CheckMemory, PhasesFollowKinds, shared
<1>2. \/ /\ Return(c, "MemoryLimitExceeded") /\ todo' = todo
         /\ ExceedsMemory(call[c].plan, ChargedTables(call[c].options.mode, call[c].plan.profile))
      \/ /\ Goto(c, "touch") /\ call' = call
         /\ ~ExceedsMemory(call[c].plan, ChargedTables(call[c].options.mode, call[c].plan.profile))
         /\ \E tables : /\ tables \subseteq ChargedTables(call[c].options.mode, call[c].plan.profile)
                         /\ todo' = [todo EXCEPT ![c] = tables]
    BY DEF CheckMemory, ChargedOptimal, ChargedTables
<1>3. /\ pc' \in [Caller -> Label]
      /\ (pc'[c] = "idle" /\ todo' = todo) \/ (pc'[c] = "touch" /\ call' = call)
      /\ \A d \in Others(c) : pc'[d] = pc[d]
    BY <1>2, Goes DEF IInv, Return, Label
<1>4. /\ call' \in [Caller -> CallRecord]
      /\ \A d \in Others(c) : call'[d] = call[d]
      /\ SameRequest(c)
      /\ call'[c].touched = call[c].touched
      /\ call'[c].built = call[c].built
      /\ \/ call'[c].status = call[c].status
         \/ /\ call'[c].status = "MemoryLimitExceeded"
            /\ ExceedsMemory(call[c].plan, ChargedTables(call[c].options.mode, call[c].plan.profile))
    <2>1. CASE Return(c, "MemoryLimitExceeded") /\ ExceedsMemory(call[c].plan, ChargedTables(call[c].options.mode, call[c].plan.profile))
        BY <1>1, <2>1, StatusSet DEF IInv, Return, SolveStatus
    <2>2. CASE call' = call
        BY <2>2 DEF IInv, Typed, SameRequest
    <2> QED BY <1>2, <2>1, <2>2
<1>5. ChargedTables(call[c].options.mode, call[c].plan.profile) \in SUBSET Table
    BY <1>1, KindOf, ProfileTablesAre DEF IInv, Typed, Solving, SolveRecord, PlanRecord
<1>6. /\ todo' \in [Caller -> SUBSET Table]
      /\ \A d \in Others(c) : todo'[d] = todo[d]
      /\ todo'[c] = todo[c] \/ /\ pc'[c] = "touch"
                               /\ todo'[c] \subseteq ChargedTables(call[c].options.mode, call[c].plan.profile)
                               /\ ~ExceedsMemory(call[c].plan, ChargedTables(call[c].options.mode, call[c].plan.profile))
    BY <1>2, <1>3, <1>5 DEF IInv, Typed
<1>7. pc'[c] = "touch" =>
          /\ todo'[c] \subseteq ChargedTables(call[c].options.mode, call[c].plan.profile)
          /\ ~ExceedsMemory(call[c].plan, ChargedTables(call[c].options.mode, call[c].plan.profile))
    BY <1>2 DEF IInv, Typed, Return, Goto
<1>8. call[c].options.mode # "Fast" =>
          ChargedTables(call[c].options.mode, call[c].plan.profile) \subseteq ProfileTables(call[c].plan.profile)
    BY <1>1, KindOf, ProfileTablesAre DEF IInv, Typed, Solving, SolveRecord, PlanRecord
<1>9. directory \in Dir
    BY DEF IInv, Typed
<1>10. Typed'
    BY <1>1, <1>2, <1>3, <1>4, <1>5 DEF IInv, Typed
<1>11. CallsFollowSession'
    BY <1>4 DEF IInv, CallsFollowSession, Solving, Preparing, SameRequest
<1>12. PhasesFollowKinds'
    BY <1>1, <1>3, <1>4, <1>6 DEF IInv, PhasesFollowKinds, Touching, Initialising, Solving,
       Preparing
<1>13. GuardsHeld'
    BY <1>1, <1>3, <1>6 DEF IInv, GuardsHeld, Initialising
<1>14. TouchesWithinCharge'
    BY <1>1, <1>3, <1>4, <1>6, <1>7 DEF IInv, TouchesWithinCharge, WithinCharge, Touching,
       Initialising, Solving
<1>15. AutoPlans'
    BY <1>1, <1>3, <1>4 DEF IInv, AutoPlans, Solving, SameRequest, AutoGranted
<1>16. OriginsFiled'
    BY <1>1, <1>3 DEF IInv, OriginsFiled
<1>17. PreparationProgress'
    BY <1>1, <1>4, <1>6 DEF IInv, PreparationProgress, CacheEnabled, Preparing, SameRequest,
       Solving
<1>18. DirectoryStays'
    BY <1>1, <1>4 DEF IInv, DirectoryStays, Preparing, SameRequest
<1>19. DirectoryGivenBack'
    <2>1. Away(c)' <=> Away(c)
        BY <1>1, <1>3 DEF Away, Preparing, Solving
    <2>2. Preparing(c)' => /\ Preparing(c)
                          /\ call'[c].previous = call[c].previous
                          /\ call'[c].dir = call[c].dir
        BY <1>4 DEF Preparing, SameRequest
    <2> QED BY <1>1, <1>3, <1>4, <2>1, <2>2, GivenBackKept DEF IInv
<1>20. WarmReported'
    <2>1. Preparing(c)' /\ call'[c].cacheWarm =>
              \/ /\ Preparing(c) /\ call[c].cacheWarm
                 /\ call'[c].dir = call[c].dir /\ call'[c].plan = call[c].plan
              \/ MissingTables(SelectedDirectory(c), call[c].plan.profile)' = {}
        BY <1>4 DEF Preparing, SameRequest
    <2>2. directory' = directory /\ \A d \in Dir : files[d] \subseteq files'[d]
        BY <1>1
    <2>3. \A d \in Others(c) : call'[d] = call[d]
        BY <1>4
    <2> QED BY <2>1, <2>2, <2>3, ReportKept DEF IInv
<1>21. WarmStays'
    BY <1>1, <1>4 DEF IInv, WarmStays, MissingTables, Solving, SameRequest
<1>22. WarmOnly'
    BY <1>1, <1>2, <1>3, <1>4, <1>8 DEF IInv, WarmOnly, MissingTables, Solving, SameRequest,
       CallsFollowSession, StrictIsOptimal, Typed
<1> QED BY <1>10, <1>11, <1>12, <1>13, <1>14, <1>15, <1>16, <1>17, <1>18, <1>19, <1>20, <1>21,
           <1>22 DEF IInv

LEMMA RelocateStep ==
    ASSUME IInv, NEW c \in Caller, Relocate(c), session' = session
    PROVE  IInv'
<1> USE DEF Others
<1>1. /\ pc[c] = "relocate" /\ Preparing(c)
      /\ directory' = call[c].dir /\ call[c].dir # None
      /\ UNCHANGED <<files, loaded, initialising, origin, call, todo, calls>>
      /\ Goto(c, "plan")
    BY DEF IInv, Relocate, PhasesFollowKinds
<1>2. /\ pc' \in [Caller -> Label]
      /\ pc'[c] = "plan"
      /\ \A d \in Others(c) : pc'[d] = pc[d]
    BY <1>1, Goes DEF IInv, Label
<1>3. directory' \in Dir
    BY <1>1, KindOf DEF IInv, Typed, Preparing, PrepareRecord
<1>4. DirectoryKept => directory' = directory
    BY <1>1 DEF IInv, DirectoryStays
<1>5. Typed'
    BY <1>1, <1>2, <1>3 DEF IInv, Typed
<1>6. CallsFollowSession'
    BY <1>1 DEF IInv, CallsFollowSession, Solving, Preparing
<1>7. PhasesFollowKinds'
    BY <1>1, <1>2 DEF IInv, PhasesFollowKinds, Touching, Initialising, Solving, Preparing
<1>8. GuardsHeld'
    BY <1>1, <1>2 DEF IInv, GuardsHeld, Initialising
<1>9. TouchesWithinCharge'
    BY <1>1, <1>2 DEF IInv, TouchesWithinCharge, WithinCharge, Solving, Preparing
<1>10. AutoPlans'
    BY <1>1, <1>2 DEF IInv, AutoPlans, Solving
<1>11. OriginsFiled'
    BY <1>1, <1>2 DEF IInv, OriginsFiled
<1>12. PreparationProgress'
    BY <1>1 DEF IInv, PreparationProgress, CacheEnabled, Preparing
<1>13. DirectoryStays'
    BY <1>1 DEF IInv, DirectoryStays, Preparing
<1>14. DirectoryGivenBack'
    <2>1. Away(c)'
        BY <1>1, <1>2 DEF Away, Preparing
    <2> QED BY <1>1, <2>1 DEF IInv, DirectoryGivenBack, Preparing
<1>15. WarmReported'
    <2>1. CASE DirectoryKept
        <3>1. directory' = directory /\ files' = files /\ \A d \in Others(c) : call'[d] = call[d]
            BY <1>1, <1>4, <2>1
        <3>2. Preparing(c)' /\ call'[c].cacheWarm => /\ Preparing(c) /\ call[c].cacheWarm
                                                    /\ call'[c].dir = call[c].dir
                                                    /\ call'[c].plan = call[c].plan
            BY <1>1
        <3> QED BY <3>1, <3>2, ReportKept DEF IInv
    <2>2. CASE OnePreparer
        <3>1. SelectedDirectory(c)' = SelectedDirectory(c)
            BY <1>1 DEF SelectedDirectory
        <3>2. \A d \in Caller : Preparing(d)' => d = c
            BY <1>1, <2>2 DEF IInv, CallsFollowSession, OnePreparer, Preparing
        <3>3. call'[c].cacheWarm => MissingTables(SelectedDirectory(c), call[c].plan.profile) = {}
            BY <1>1, <2>2 DEF IInv, WarmReported
        <3>4. call'[c].plan = call[c].plan
            BY <1>1
        <3> QED BY <1>1, <3>1, <3>2, <3>3 DEF WarmReported, MissingTables
    <2> QED BY <2>1, <2>2 DEF WarmReported
<1>16. WarmStays'
    BY <1>1, <1>4 DEF IInv, WarmStays, MissingTables, Solving
<1>17. WarmOnly'
    BY <1>1, <1>2, <1>4 DEF IInv, WarmOnly, MissingTables, Solving
<1> QED BY <1>5, <1>6, <1>7, <1>8, <1>9, <1>10, <1>11, <1>12, <1>13, <1>14, <1>15, <1>16, <1>17 DEF
           IInv

LEMMA InspectCacheStep ==
    ASSUME IInv, NEW c \in Caller, InspectCache(c), session' = session
    PROVE  IInv'
<1> USE DEF Others
<1>1. /\ pc[c] = "plan" /\ Preparing(c)
      /\ UNCHANGED <<directory, files, loaded, initialising, origin, calls>>
    BY InspectCacheEffect DEF IInv, InspectCache, shared
<1>2. /\ call' \in [Caller -> CallRecord]
      /\ \A d \in Others(c) : call'[d] = call[d]
      /\ call'[c].kind = "prepare"
      /\ call'[c].options = call[c].options
      /\ call'[c].dir = call[c].dir
      /\ call'[c].dryRun = call[c].dryRun
      /\ call'[c].previous = call[c].previous
      /\ call'[c].status = call[c].status
      /\ call'[c].cacheWarm => MissingTables(SelectedDirectory(c), call'[c].plan.profile) = {}
      /\ call'[c].plan.profile \in Profile
    BY InspectCacheEffect DEF IInv
<1>3. PICK builds \in BOOLEAN :
          /\ call'[c].ready /\ ~call[c].dryRun /\ CacheEnabled(c) => builds
          /\ todo' = [todo EXCEPT ![c] = IF builds THEN WarmCacheTables(call'[c].plan.profile) ELSE {}]
          /\ Goto(c, IF builds THEN "touch" ELSE "restore")
    BY InspectCacheEffect DEF IInv
<1>4. /\ pc' \in [Caller -> Label]
      /\ pc'[c] = IF builds THEN "touch" ELSE "restore"
      /\ \A d \in Others(c) : pc'[d] = pc[d]
    BY <1>3, Goes DEF IInv, Label
<1>5. /\ todo' \in [Caller -> SUBSET Table]
      /\ \A d \in Others(c) : todo'[d] = todo[d]
      /\ todo'[c] = IF builds THEN ProfileTables(call'[c].plan.profile) ELSE {}
    BY <1>2, <1>3, ProfileTablesAre DEF IInv, Typed, WarmCacheTables
<1>6. Typed'
    BY <1>1, <1>2, <1>4, <1>5 DEF IInv, Typed
<1>7. CallsFollowSession'
    BY <1>1, <1>2 DEF IInv, CallsFollowSession, Solving, Preparing
<1>8. PhasesFollowKinds'
    BY <1>1, <1>2, <1>4, <1>5 DEF IInv, PhasesFollowKinds, Touching, Solving, Preparing
<1>9. GuardsHeld'
    BY <1>1, <1>3, <1>4 DEF IInv, GuardsHeld, Initialising
<1>10. TouchesWithinCharge'
    BY <1>2, <1>3, <1>4 DEF IInv, TouchesWithinCharge, WithinCharge, Solving
<1>11. AutoPlans'
    BY <1>2, <1>4 DEF IInv, AutoPlans, Solving
<1>12. OriginsFiled'
    BY <1>1, <1>4 DEF IInv, OriginsFiled
<1>13. PreparationProgress'
    BY <1>1, <1>2, <1>3, <1>5 DEF IInv, PreparationProgress, CacheEnabled, Preparing
<1>14. DirectoryStays'
    BY <1>1, <1>2 DEF IInv, DirectoryStays, Preparing
<1>15. DirectoryGivenBack'
    <2>1. Away(c)' <=> Away(c)
        BY <1>1, <1>2, <1>4 DEF Away, Preparing
    <2>2. Preparing(c)' => /\ Preparing(c)
                          /\ call'[c].previous = call[c].previous
                          /\ call'[c].dir = call[c].dir
        BY <1>1, <1>2
    <2> QED BY <1>1, <1>2, <1>4, <2>1, GivenBackKept DEF IInv
<1>16. WarmReported'
    <2>1. Preparing(c)' /\ call'[c].cacheWarm =>
              \/ /\ Preparing(c) /\ call[c].cacheWarm
                 /\ call'[c].dir = call[c].dir /\ call'[c].plan = call[c].plan
              \/ MissingTables(SelectedDirectory(c), call[c].plan.profile)' = {}
        BY <1>1, <1>2 DEF MissingTables, SelectedDirectory
    <2>2. directory' = directory /\ \A d \in Dir : files[d] \subseteq files'[d]
        BY <1>1
    <2>3. \A d \in Others(c) : call'[d] = call[d]
        BY <1>2
    <2> QED BY <2>1, <2>2, <2>3, ReportKept DEF IInv
<1>17. WarmStays'
    BY <1>1, <1>2 DEF IInv, WarmStays, MissingTables, Solving
<1>18. WarmOnly'
    BY <1>1, <1>2, <1>3, <1>4 DEF IInv, WarmOnly, MissingTables, Solving
<1> QED BY <1>6, <1>7, <1>8, <1>9, <1>10, <1>11, <1>12, <1>13, <1>14, <1>15, <1>16, <1>17, <1>18
           DEF IInv

LEMMA ReinspectStep ==
    ASSUME IInv, NEW c \in Caller, Reinspect(c), session' = session
    PROVE  IInv'
<1> USE DEF Others
<1>1. /\ pc[c] = "touch" /\ Preparing(c) /\ todo[c] = {}
      /\ UNCHANGED <<directory, files, loaded, initialising, origin, todo, calls>>
      /\ Goto(c, "restore")
    BY DEF Reinspect, Preparing, shared
<1>2. /\ pc' \in [Caller -> Label]
      /\ pc'[c] = "restore"
      /\ \A d \in Others(c) : pc'[d] = pc[d]
    BY <1>1, Goes DEF IInv, Label
<1>3. /\ call' \in [Caller -> CallRecord]
      /\ \A d \in Others(c) : call'[d] = call[d]
      /\ call'[c].kind = "prepare"
      /\ call'[c].options = call[c].options
      /\ call'[c].dir = call[c].dir
      /\ call'[c].dryRun = call[c].dryRun
      /\ call'[c].previous = call[c].previous
      /\ call'[c].status = call[c].status
      /\ call'[c].cacheWarm => MissingTables(SelectedDirectory(c), call[c].plan.profile) = {}
      /\ call'[c].plan = call[c].plan
      /\ call'[c].ready = call[c].ready
    BY ReinspectEffect DEF IInv
<1>4. Typed'
    BY <1>1, <1>2, <1>3 DEF IInv, Typed
<1>5. CallsFollowSession'
    BY <1>1, <1>3 DEF IInv, CallsFollowSession, Solving, Preparing
<1>6. PhasesFollowKinds'
    BY <1>1, <1>2, <1>3 DEF IInv, PhasesFollowKinds, Solving, Preparing
<1>7. GuardsHeld'
    BY <1>1, <1>2 DEF IInv, GuardsHeld
<1>8. TouchesWithinCharge'
    BY <1>1, <1>2, <1>3 DEF IInv, TouchesWithinCharge, WithinCharge, Solving
<1>9. AutoPlans'
    BY <1>2, <1>3 DEF IInv, AutoPlans, Solving
<1>10. OriginsFiled'
    BY <1>1, <1>2 DEF IInv, OriginsFiled
<1>11. PreparationProgress'
    BY <1>1, <1>3 DEF IInv, PreparationProgress, CacheEnabled, Preparing
<1>12. DirectoryStays'
    BY <1>1, <1>3 DEF IInv, DirectoryStays, Preparing
<1>13. DirectoryGivenBack'
    <2>1. Away(c)' <=> Away(c)
        BY <1>1, <1>2, <1>3 DEF Away, Preparing
    <2>2. Preparing(c)' => /\ Preparing(c)
                          /\ call'[c].previous = call[c].previous
                          /\ call'[c].dir = call[c].dir
        BY <1>1, <1>3
    <2> QED BY <1>1, <1>2, <1>3, <2>1, GivenBackKept DEF IInv
<1>14. WarmReported'
    <2>1. Preparing(c)' /\ call'[c].cacheWarm =>
              \/ /\ Preparing(c) /\ call[c].cacheWarm
                 /\ call'[c].dir = call[c].dir /\ call'[c].plan = call[c].plan
              \/ MissingTables(SelectedDirectory(c), call[c].plan.profile)' = {}
        BY <1>1, <1>3 DEF MissingTables, SelectedDirectory
    <2>2. directory' = directory /\ \A d \in Dir : files[d] \subseteq files'[d]
        BY <1>1
    <2>3. \A d \in Others(c) : call'[d] = call[d]
        BY <1>3
    <2> QED BY <2>1, <2>2, <2>3, ReportKept DEF IInv
<1>15. WarmStays'
    BY <1>1, <1>3 DEF IInv, WarmStays, MissingTables, Solving
<1>16. WarmOnly'
    BY <1>1, <1>2, <1>3 DEF IInv, WarmOnly, MissingTables, Solving
<1> QED BY <1>4, <1>5, <1>6, <1>7, <1>8, <1>9, <1>10, <1>11, <1>12, <1>13, <1>14, <1>15, <1>16 DEF
           IInv

LEMMA PrepareEndsStep ==
    ASSUME IInv, NEW c \in Caller, PrepareEnds(c), session' = session
    PROVE  IInv'
<1> USE DEF Others
<1>1. /\ pc[c] = "restore" /\ Preparing(c)
      /\ directory' = IF call[c].previous = None THEN directory ELSE call[c].previous
      /\ UNCHANGED <<files, loaded, initialising, origin, todo, calls>>
      /\ Return(c, "Prepared")
    BY DEF IInv, PrepareEnds, RestoreDirectory, PhasesFollowKinds
<1>2. /\ pc' \in [Caller -> Label]
      /\ pc'[c] = "idle"
      /\ \A d \in Others(c) : pc'[d] = pc[d]
    BY <1>1, Goes DEF IInv, Return, Label
<1>3. /\ call' \in [Caller -> CallRecord]
      /\ \A d \in Others(c) : call'[d] = call[d]
      /\ SameRequest(c)
      /\ call'[c].touched = call[c].touched
    BY <1>1, StatusSet DEF IInv, Return
<1>4. directory' \in Dir
    BY <1>1, KindOf DEF IInv, Typed, Preparing, PrepareRecord
<1>5. DirectoryKept => directory' = directory
    BY <1>1 DEF IInv, DirectoryStays
<1>6. directory \in Dir
    BY DEF IInv, Typed
<1>7. Typed'
    BY <1>1, <1>2, <1>3, <1>4 DEF IInv, Typed
<1>8. CallsFollowSession'
    BY <1>3 DEF IInv, CallsFollowSession, Solving, Preparing, SameRequest
<1>9. PhasesFollowKinds'
    BY <1>1, <1>2, <1>3 DEF IInv, PhasesFollowKinds, Touching, Initialising, Solving, Preparing
<1>10. GuardsHeld'
    BY <1>1, <1>2 DEF IInv, GuardsHeld, Initialising
<1>11. TouchesWithinCharge'
    BY <1>1, <1>2, <1>3 DEF IInv, TouchesWithinCharge, WithinCharge, Touching, Initialising,
       Solving, SameRequest
<1>12. AutoPlans'
    BY <1>1, <1>2, <1>3 DEF IInv, AutoPlans, Solving, SameRequest, Preparing
<1>13. OriginsFiled'
    BY <1>1, <1>2 DEF IInv, OriginsFiled
<1>14. PreparationProgress'
    BY <1>1, <1>3 DEF IInv, PreparationProgress, CacheEnabled, Preparing, SameRequest
<1>15. DirectoryStays'
    BY <1>1, <1>3 DEF IInv, DirectoryStays, Preparing, SameRequest
<1>16. DirectoryGivenBack'
    <2> SUFFICES ASSUME OnePreparer PROVE DirectoryGivenBack'
        BY DEF DirectoryGivenBack
    <2>1. \A d \in Others(c) : ~Preparing(d) /\ ~Preparing(d)'
        BY <1>1, <1>3 DEF IInv, CallsFollowSession, OnePreparer, Preparing
    <2>2. call[c].previous = IF call[c].dir = None THEN None ELSE Home
        BY <1>1 DEF IInv, DirectoryGivenBack
    <2>3. CASE call[c].dir = None
        <3>1. \A d \in Caller : ~Away(d)
            BY <2>1, <2>3 DEF Away
        <3>2. directory = Home
            BY <3>1 DEF IInv, DirectoryGivenBack
        <3> QED BY <1>1, <1>3, <2>1, <2>2, <3>2 DEF DirectoryGivenBack, SameRequest
    <2>4. CASE call[c].dir # None
        BY <1>1, <1>3, <2>1, <2>2, <2>4, RequestAssumption DEF DirectoryGivenBack, SameRequest
    <2> QED BY <2>3, <2>4
<1>17. WarmReported'
    <2>1. CASE DirectoryKept
        <3>1. directory' = directory /\ files' = files /\ \A d \in Others(c) : call'[d] = call[d]
            BY <1>1, <1>3, <1>5, <2>1
        <3>2. Preparing(c)' /\ call'[c].cacheWarm => /\ Preparing(c) /\ call[c].cacheWarm
                                                    /\ call'[c].dir = call[c].dir
                                                    /\ call'[c].plan = call[c].plan
            BY <1>1, <1>3 DEF SameRequest
        <3> QED BY <3>1, <3>2, ReportKept DEF IInv
    <2>2. CASE OnePreparer
        <3>1. SelectedDirectory(c)' = SelectedDirectory(c)
            BY <1>1, <1>3, <2>2 DEF IInv, SelectedDirectory, SameRequest, DirectoryGivenBack
        <3>2. \A d \in Caller : Preparing(d)' => d = c
            BY <1>1, <1>3, <2>2 DEF IInv, CallsFollowSession, OnePreparer, Preparing
        <3>3. call'[c].cacheWarm => MissingTables(SelectedDirectory(c), call[c].plan.profile) = {}
            BY <1>1, <1>3, <2>2 DEF IInv, WarmReported, SameRequest
        <3>4. call'[c].plan = call[c].plan
            BY <1>3 DEF SameRequest
        <3> QED BY <1>1, <3>1, <3>2, <3>3, <3>4 DEF WarmReported, MissingTables
    <2> QED BY <2>1, <2>2 DEF WarmReported
<1>18. WarmStays'
    BY <1>1, <1>3, <1>5 DEF IInv, WarmStays, MissingTables, Solving, Preparing, SameRequest
<1>19. WarmOnly'
    BY <1>1, <1>2, <1>3, <1>5 DEF IInv, WarmOnly, MissingTables, Solving, SameRequest, Preparing
<1> QED BY <1>7, <1>8, <1>9, <1>10, <1>11, <1>12, <1>13, <1>14, <1>15, <1>16, <1>17, <1>18, <1>19
           DEF IInv

LEMMA TouchLoadedStep ==
    ASSUME IInv, NEW c \in Caller, NEW t \in Table, TouchLoaded(c, t), session' = session
    PROVE  IInv'
<1> USE DEF Others
<1>1. /\ pc[c] = "touch" /\ t \in todo[c] /\ t \in loaded
      /\ UNCHANGED <<directory, files, loaded, initialising, origin, calls>>
      /\ Goto(c, "touch")
    BY DEF TouchLoaded, Touched, NextTable, shared
<1>2. Solving(c) \/ Preparing(c)
    BY <1>1 DEF IInv, PhasesFollowKinds
<1>3. /\ pc' \in [Caller -> Label]
      /\ pc'[c] = "touch"
      /\ \A d \in Others(c) : pc'[d] = pc[d]
    BY <1>1, Goes DEF IInv, Label
<1>4. /\ todo' \in [Caller -> SUBSET Table]
      /\ todo'[c] = todo[c] \ {t}
      /\ \A d \in Others(c) : todo'[d] = todo[d]
    BY DEF IInv, Typed, TouchLoaded, Touched
<1>5. /\ call' \in [Caller -> CallRecord]
      /\ \A d \in Others(c) : call'[d] = call[d]
      /\ SameRequest(c)
      /\ call'[c].status = call[c].status
      /\ call'[c].built = call[c].built
      /\ call'[c].touched \in {call[c].touched, call[c].touched \cup {t}}
    BY <1>2, TableNoted DEF IInv, TouchLoaded
<1>6. Typed'
    BY <1>1, <1>3, <1>4, <1>5 DEF IInv, Typed
<1>7. CallsFollowSession'
    BY <1>5 DEF IInv, CallsFollowSession, Solving, Preparing, SameRequest
<1>8. PhasesFollowKinds'
    BY <1>1, <1>3, <1>4, <1>5 DEF IInv, PhasesFollowKinds, Solving, Preparing, SameRequest
<1>9. GuardsHeld'
    BY <1>1, <1>3, <1>4 DEF IInv, GuardsHeld, Initialising
<1>10. TouchesWithinCharge'
    BY <1>1, <1>3, <1>4, <1>5 DEF IInv, TouchesWithinCharge, WithinCharge, Touching, Solving,
       SameRequest
<1>11. AutoPlans'
    BY <1>1, <1>3, <1>5 DEF IInv, AutoPlans, Solving, SameRequest
<1>12. OriginsFiled'
    BY <1>1, <1>3 DEF IInv, OriginsFiled
<1>13. PreparationProgress'
    BY <1>1, <1>4, <1>5 DEF IInv, PreparationProgress, CacheEnabled, Preparing, SameRequest
<1>14. DirectoryStays'
    BY <1>1, <1>5 DEF IInv, DirectoryStays, Preparing, SameRequest
<1>15. DirectoryGivenBack'
    <2>1. Away(c)' <=> Away(c)
        BY <1>1, <1>3, <1>5 DEF Away, Preparing, SameRequest
    <2>2. Preparing(c)' => /\ Preparing(c)
                          /\ call'[c].previous = call[c].previous
                          /\ call'[c].dir = call[c].dir
        BY <1>5 DEF Preparing, SameRequest
    <2> QED BY <1>1, <1>3, <1>5, <2>1, <2>2, GivenBackKept DEF IInv
<1>16. WarmReported'
    <2>1. Preparing(c)' /\ call'[c].cacheWarm =>
              \/ /\ Preparing(c) /\ call[c].cacheWarm
                 /\ call'[c].dir = call[c].dir /\ call'[c].plan = call[c].plan
              \/ MissingTables(SelectedDirectory(c), call[c].plan.profile)' = {}
        BY <1>5 DEF Preparing, SameRequest
    <2>2. directory' = directory /\ \A d \in Dir : files[d] \subseteq files'[d]
        BY <1>1
    <2>3. \A d \in Others(c) : call'[d] = call[d]
        BY <1>5
    <2> QED BY <2>1, <2>2, <2>3, ReportKept DEF IInv
<1>17. WarmStays'
    BY <1>1, <1>5 DEF IInv, WarmStays, MissingTables, Solving, SameRequest
<1>18. WarmOnly'
    BY <1>1, <1>3, <1>4, <1>5 DEF IInv, WarmOnly, MissingTables, Solving, SameRequest
<1> QED BY <1>6, <1>7, <1>8, <1>9, <1>10, <1>11, <1>12, <1>13, <1>14, <1>15, <1>16, <1>17, <1>18
           DEF IInv

LEMMA BeginInitialiseStep ==
    ASSUME IInv, NEW c \in Caller, NEW t \in Table, BeginInitialise(c, t), session' = session
    PROVE  IInv'
<1> USE DEF Others
<1>1. /\ pc[c] = "touch" /\ t \in todo[c] /\ initialising[t] = None
      /\ initialising' = [initialising EXCEPT ![t] = c]
      /\ origin' = IF t \in files[directory] THEN [origin EXCEPT ![t] = directory] ELSE origin
      /\ UNCHANGED <<directory, files, loaded, todo, calls>>
      /\ Goto(c, IF t \in files[directory] THEN "load" ELSE "build")
    BY DEF BeginInitialise, NextTable
<1>2. Solving(c) \/ Preparing(c)
    BY <1>1 DEF IInv, PhasesFollowKinds
<1>3. /\ pc' \in [Caller -> Label]
      /\ pc'[c] = IF t \in files[directory] THEN "load" ELSE "build"
      /\ \A d \in Others(c) : pc'[d] = pc[d]
    BY <1>1, Goes DEF IInv, Label
<1>4. /\ call' \in [Caller -> CallRecord]
      /\ \A d \in Others(c) : call'[d] = call[d]
      /\ SameRequest(c)
      /\ call'[c].status = call[c].status
      /\ call'[c].built = call[c].built
      /\ call'[c].touched \in {call[c].touched, call[c].touched \cup {t}}
    BY <1>2, TableNoted DEF IInv, BeginInitialise
<1>5. directory \in Dir
    BY DEF IInv, Typed
<1>6. Typed'
    BY <1>1, <1>3, <1>4 DEF IInv, Typed
<1>7. CallsFollowSession'
    BY <1>4 DEF IInv, CallsFollowSession, Solving, Preparing, SameRequest
<1>8. PhasesFollowKinds'
    BY <1>1, <1>3, <1>4 DEF IInv, PhasesFollowKinds, Touching, Initialising, Solving, Preparing,
       SameRequest
<1>9. GuardsHeld'
    BY <1>1, <1>3 DEF IInv, GuardsHeld, Initialising
<1>10. TouchesWithinCharge'
    BY <1>1, <1>3, <1>4 DEF IInv, TouchesWithinCharge, WithinCharge, Touching, Solving, SameRequest
<1>11. AutoPlans'
    BY <1>1, <1>3, <1>4 DEF IInv, AutoPlans, Solving, SameRequest
<1>12. OriginsFiled'
    <2>1. /\ origin' \in [Table -> Dir \cup {None, "unsaved"}]
          /\ \A u \in Table \ {t} : origin'[u] = origin[u]
          /\ origin'[t] = IF t \in files[directory] THEN directory ELSE origin[t]
        BY <1>1 DEF IInv, Typed
    <2>2. directory \in Dir /\ directory # None
        BY RequestAssumption DEF IInv, Typed
    <2>3. \A u \in Table, d \in Caller :
              initialising'[u] = d => \/ u = t /\ d = c
                                      \/ u # t /\ d # c /\ initialising[u] = d
        BY <1>1 DEF IInv, Typed, GuardsHeld, Initialising
    <2> QED BY <1>1, <1>3, <2>1, <2>2, <2>3 DEF IInv, OriginsFiled
<1>13. PreparationProgress'
    BY <1>1, <1>4 DEF IInv, PreparationProgress, CacheEnabled, Preparing, SameRequest
<1>14. DirectoryStays'
    BY <1>1, <1>4 DEF IInv, DirectoryStays, Preparing, SameRequest
<1>15. DirectoryGivenBack'
    <2>1. Away(c)' <=> Away(c)
        BY <1>1, <1>3, <1>4 DEF Away, Preparing, SameRequest
    <2>2. Preparing(c)' => /\ Preparing(c)
                          /\ call'[c].previous = call[c].previous
                          /\ call'[c].dir = call[c].dir
        BY <1>4 DEF Preparing, SameRequest
    <2> QED BY <1>1, <1>3, <1>4, <2>1, <2>2, GivenBackKept DEF IInv
<1>16. WarmReported'
    <2>1. Preparing(c)' /\ call'[c].cacheWarm =>
              \/ /\ Preparing(c) /\ call[c].cacheWarm
                 /\ call'[c].dir = call[c].dir /\ call'[c].plan = call[c].plan
              \/ MissingTables(SelectedDirectory(c), call[c].plan.profile)' = {}
        BY <1>4 DEF Preparing, SameRequest
    <2>2. directory' = directory /\ \A d \in Dir : files[d] \subseteq files'[d]
        BY <1>1
    <2>3. \A d \in Others(c) : call'[d] = call[d]
        BY <1>4
    <2> QED BY <2>1, <2>2, <2>3, ReportKept DEF IInv
<1>17. WarmStays'
    BY <1>1, <1>4 DEF IInv, WarmStays, MissingTables, Solving, SameRequest
<1>18. WarmOnly'
    BY <1>1, <1>3, <1>4 DEF IInv, WarmOnly, MissingTables, Solving, SameRequest
<1> QED BY <1>6, <1>7, <1>8, <1>9, <1>10, <1>11, <1>12, <1>13, <1>14, <1>15, <1>16, <1>17, <1>18
           DEF IInv

LEMMA FinishLoadStep ==
    ASSUME IInv, NEW c \in Caller, NEW t \in Table, FinishLoad(c, t), session' = session
    PROVE  IInv'
<1> USE DEF Others
<1>1. /\ pc[c] = "load" /\ initialising[t] = c
      /\ initialising' = [initialising EXCEPT ![t] = None]
      /\ loaded' = loaded \cup {t}
      /\ UNCHANGED <<directory, files, origin, calls>>
      /\ Goto(c, "touch")
    BY DEF FinishLoad, Initialised, Touched
<1>2. (Solving(c) \/ Preparing(c)) /\ t \in todo[c]
    BY <1>1 DEF IInv, PhasesFollowKinds, GuardsHeld
<1>3. /\ pc' \in [Caller -> Label]
      /\ pc'[c] = "touch"
      /\ \A d \in Others(c) : pc'[d] = pc[d]
    BY <1>1, Goes DEF IInv, Label
<1>4. /\ todo' \in [Caller -> SUBSET Table]
      /\ todo'[c] = todo[c] \ {t}
      /\ \A d \in Others(c) : todo'[d] = todo[d]
    BY DEF IInv, Typed, FinishLoad, Touched
<1>5. /\ call' \in [Caller -> CallRecord]
      /\ \A d \in Others(c) : call'[d] = call[d]
      /\ SameRequest(c)
      /\ call'[c].status = call[c].status
      /\ call'[c].built = call[c].built
      /\ call'[c].touched \in {call[c].touched, call[c].touched \cup {t}}
    BY <1>2, TableNoted DEF IInv, FinishLoad
<1>6. directory \in Dir
    BY DEF IInv, Typed
<1>7. Typed'
    BY <1>1, <1>3, <1>4, <1>5 DEF IInv, Typed
<1>8. CallsFollowSession'
    BY <1>5 DEF IInv, CallsFollowSession, Solving, Preparing, SameRequest
<1>9. PhasesFollowKinds'
    BY <1>1, <1>2, <1>3, <1>4, <1>5 DEF IInv, PhasesFollowKinds, Touching, Solving, Preparing,
       SameRequest
<1>10. GuardsHeld'
    BY <1>1, <1>3, <1>4, RequestAssumption DEF IInv, Typed, GuardsHeld
<1>11. TouchesWithinCharge'
    BY <1>1, <1>2, <1>3, <1>4, <1>5 DEF IInv, TouchesWithinCharge, WithinCharge, Touching,
       Initialising, Solving, SameRequest
<1>12. AutoPlans'
    BY <1>1, <1>3, <1>5 DEF IInv, AutoPlans, Solving, SameRequest
<1>13. OriginsFiled'
    BY <1>1, <1>3 DEF IInv, OriginsFiled
<1>14. PreparationProgress'
    BY <1>1, <1>4, <1>5 DEF IInv, PreparationProgress, CacheEnabled, Preparing, SameRequest
<1>15. DirectoryStays'
    BY <1>1, <1>5 DEF IInv, DirectoryStays, Preparing, SameRequest
<1>16. DirectoryGivenBack'
    <2>1. Away(c)' <=> Away(c)
        BY <1>1, <1>3, <1>5 DEF Away, Preparing, SameRequest
    <2>2. Preparing(c)' => /\ Preparing(c)
                          /\ call'[c].previous = call[c].previous
                          /\ call'[c].dir = call[c].dir
        BY <1>5 DEF Preparing, SameRequest
    <2> QED BY <1>1, <1>3, <1>5, <2>1, <2>2, GivenBackKept DEF IInv
<1>17. WarmReported'
    <2>1. Preparing(c)' /\ call'[c].cacheWarm =>
              \/ /\ Preparing(c) /\ call[c].cacheWarm
                 /\ call'[c].dir = call[c].dir /\ call'[c].plan = call[c].plan
              \/ MissingTables(SelectedDirectory(c), call[c].plan.profile)' = {}
        BY <1>5 DEF Preparing, SameRequest
    <2>2. directory' = directory /\ \A d \in Dir : files[d] \subseteq files'[d]
        BY <1>1
    <2>3. \A d \in Others(c) : call'[d] = call[d]
        BY <1>5
    <2> QED BY <2>1, <2>2, <2>3, ReportKept DEF IInv
<1>18. WarmStays'
    BY <1>1, <1>5 DEF IInv, WarmStays, MissingTables, Solving, SameRequest
<1>19. WarmOnly'
    BY <1>1, <1>3, <1>4, <1>5 DEF IInv, WarmOnly, MissingTables, Solving, SameRequest
<1> QED BY <1>7, <1>8, <1>9, <1>10, <1>11, <1>12, <1>13, <1>14, <1>15, <1>16, <1>17, <1>18, <1>19
           DEF IInv

LEMMA BuildTableStep ==
    ASSUME IInv, NEW c \in Caller, NEW t \in Table, BuildTable(c, t), session' = session
    PROVE  IInv'
<1> USE DEF Others
<1>1. /\ pc[c] = "build" /\ initialising[t] = c
      /\ UNCHANGED <<directory, files, loaded, initialising, origin, todo, calls>>
      /\ Goto(c, "save")
    BY DEF BuildTable, shared
<1>2. Solving(c) \/ Preparing(c)
    BY <1>1 DEF IInv, PhasesFollowKinds, Touching, Initialising
<1>3. /\ pc' \in [Caller -> Label]
      /\ pc'[c] = "save"
      /\ \A d \in Others(c) : pc'[d] = pc[d]
    BY <1>1, Goes DEF IInv, Label
<1>4. /\ call' \in [Caller -> CallRecord]
      /\ \A d \in Others(c) : call'[d] = call[d]
      /\ SameRequest(c)
      /\ call'[c].status = call[c].status
      /\ call'[c].touched = call[c].touched
    BY <1>2, TableBuilt DEF IInv, BuildTable
<1>5. Typed'
    BY <1>1, <1>3, <1>4 DEF IInv, Typed
<1>6. CallsFollowSession'
    BY <1>4 DEF IInv, CallsFollowSession, Solving, Preparing, SameRequest
<1>7. PhasesFollowKinds'
    BY <1>1, <1>3, <1>4 DEF IInv, PhasesFollowKinds, Touching, Initialising, Solving, Preparing,
       SameRequest
<1>8. GuardsHeld'
    BY <1>1, <1>3 DEF IInv, GuardsHeld, Initialising
<1>9. TouchesWithinCharge'
    BY <1>1, <1>3, <1>4 DEF IInv, TouchesWithinCharge, WithinCharge, Touching, Initialising,
       Solving, SameRequest
<1>10. AutoPlans'
    BY <1>1, <1>3, <1>4 DEF IInv, AutoPlans, Solving, SameRequest
<1>11. OriginsFiled'
    BY <1>1, <1>3 DEF IInv, OriginsFiled
<1>12. PreparationProgress'
    BY <1>1, <1>4 DEF IInv, PreparationProgress, CacheEnabled, Preparing, SameRequest
<1>13. DirectoryStays'
    BY <1>1, <1>4 DEF IInv, DirectoryStays, Preparing, SameRequest
<1>14. DirectoryGivenBack'
    <2>1. Away(c)' <=> Away(c)
        BY <1>1, <1>3, <1>4 DEF Away, Preparing, SameRequest
    <2>2. Preparing(c)' => /\ Preparing(c)
                          /\ call'[c].previous = call[c].previous
                          /\ call'[c].dir = call[c].dir
        BY <1>4 DEF Preparing, SameRequest
    <2> QED BY <1>1, <1>3, <1>4, <2>1, <2>2, GivenBackKept DEF IInv
<1>15. WarmReported'
    <2>1. Preparing(c)' /\ call'[c].cacheWarm =>
              \/ /\ Preparing(c) /\ call[c].cacheWarm
                 /\ call'[c].dir = call[c].dir /\ call'[c].plan = call[c].plan
              \/ MissingTables(SelectedDirectory(c), call[c].plan.profile)' = {}
        BY <1>4 DEF Preparing, SameRequest
    <2>2. directory' = directory /\ \A d \in Dir : files[d] \subseteq files'[d]
        BY <1>1
    <2>3. \A d \in Others(c) : call'[d] = call[d]
        BY <1>4
    <2> QED BY <2>1, <2>2, <2>3, ReportKept DEF IInv
<1>16. WarmStays'
    BY <1>1, <1>4 DEF IInv, WarmStays, MissingTables, Solving, SameRequest
<1>17. WarmOnly'
    BY <1>1, <1>3, <1>4 DEF IInv, WarmOnly, MissingTables, Solving, SameRequest
<1> QED BY <1>5, <1>6, <1>7, <1>8, <1>9, <1>10, <1>11, <1>12, <1>13, <1>14, <1>15, <1>16, <1>17 DEF
           IInv

LEMMA SaveTableStep ==
    ASSUME IInv, NEW c \in Caller, NEW t \in Table, SaveTable(c, t), session' = session
    PROVE  IInv'
<1> USE DEF Others
<1>1. /\ pc[c] = "save" /\ initialising[t] = c
      /\ initialising' = [initialising EXCEPT ![t] = None]
      /\ loaded' = loaded \cup {t}
      /\ UNCHANGED <<directory, calls>>
      /\ Goto(c, "touch")
    BY DEF SaveTable, Initialised, Touched
<1>2. (Solving(c) \/ Preparing(c)) /\ t \in todo[c]
    BY <1>1 DEF IInv, PhasesFollowKinds, GuardsHeld
<1>3. /\ pc' \in [Caller -> Label]
      /\ pc'[c] = "touch"
      /\ \A d \in Others(c) : pc'[d] = pc[d]
    BY <1>1, Goes DEF IInv, Label
<1>4. /\ todo' \in [Caller -> SUBSET Table]
      /\ todo'[c] = todo[c] \ {t}
      /\ \A d \in Others(c) : todo'[d] = todo[d]
    BY DEF IInv, Typed, SaveTable, Touched
<1>5. /\ call' \in [Caller -> CallRecord]
      /\ \A d \in Others(c) : call'[d] = call[d]
      /\ SameRequest(c)
      /\ call'[c].status = call[c].status
      /\ call'[c].built = call[c].built
      /\ call'[c].touched \in {call[c].touched, call[c].touched \cup {t}}
    <2>1. CASE call' = [call EXCEPT ![c].saved = @ \cup {t}]
        BY <1>2, <2>1, TableNoted DEF IInv
    <2>2. CASE call' = call
        BY <2>2 DEF IInv, Typed, SameRequest
    <2> QED BY <2>1, <2>2 DEF SaveTable
<1>6. \/ /\ files' = [files EXCEPT ![directory] = @ \cup {t}]
         /\ origin' = [origin EXCEPT ![t] = directory]
      \/ files' = files /\ origin' = [origin EXCEPT ![t] = "unsaved"]
    BY DEF SaveTable
<1>7. /\ files' \in [Dir -> SUBSET Table]
      /\ origin' \in [Table -> Dir \cup {None, "unsaved"}]
      /\ origin'[t] # None
      /\ origin'[t] \in Dir => t \in files'[origin'[t]]
      /\ \A u \in Table \ {t} : origin'[u] = origin[u]
      /\ \A d \in Dir : files[d] \subseteq files'[d]
    BY <1>6, RequestAssumption DEF IInv, Typed
<1>8. directory \in Dir
    BY DEF IInv, Typed
<1>9. Typed'
    BY <1>1, <1>3, <1>4, <1>5, <1>6 DEF IInv, Typed
<1>10. CallsFollowSession'
    BY <1>5 DEF IInv, CallsFollowSession, Solving, Preparing, SameRequest
<1>11. PhasesFollowKinds'
    BY <1>1, <1>2, <1>3, <1>4, <1>5 DEF IInv, PhasesFollowKinds, Touching, Solving, Preparing,
       SameRequest
<1>12. GuardsHeld'
    BY <1>1, <1>3, <1>4, RequestAssumption DEF IInv, Typed, GuardsHeld
<1>13. TouchesWithinCharge'
    BY <1>1, <1>2, <1>3, <1>4, <1>5 DEF IInv, TouchesWithinCharge, WithinCharge, Touching,
       Initialising, Solving, SameRequest
<1>14. AutoPlans'
    BY <1>1, <1>3, <1>5 DEF IInv, AutoPlans, Solving, SameRequest
<1>15. OriginsFiled'
    BY <1>1, <1>3, <1>7 DEF IInv, Typed, OriginsFiled
<1>16. PreparationProgress'
    BY <1>1, <1>4, <1>5 DEF IInv, PreparationProgress, CacheEnabled, Preparing, SameRequest
<1>17. DirectoryStays'
    BY <1>1, <1>5 DEF IInv, DirectoryStays, Preparing, SameRequest
<1>18. DirectoryGivenBack'
    <2>1. Away(c)' <=> Away(c)
        BY <1>1, <1>3, <1>5 DEF Away, Preparing, SameRequest
    <2>2. Preparing(c)' => /\ Preparing(c)
                          /\ call'[c].previous = call[c].previous
                          /\ call'[c].dir = call[c].dir
        BY <1>5 DEF Preparing, SameRequest
    <2> QED BY <1>1, <1>3, <1>5, <2>1, <2>2, GivenBackKept DEF IInv
<1>19. WarmReported'
    <2>1. Preparing(c)' /\ call'[c].cacheWarm =>
              \/ /\ Preparing(c) /\ call[c].cacheWarm
                 /\ call'[c].dir = call[c].dir /\ call'[c].plan = call[c].plan
              \/ MissingTables(SelectedDirectory(c), call[c].plan.profile)' = {}
        BY <1>5 DEF Preparing, SameRequest
    <2>2. directory' = directory /\ \A d \in Dir : files[d] \subseteq files'[d]
        BY <1>1, <1>7
    <2>3. \A d \in Others(c) : call'[d] = call[d]
        BY <1>5
    <2> QED BY <2>1, <2>2, <2>3, ReportKept DEF IInv
<1>20. WarmStays'
    BY <1>1, <1>5, <1>7, <1>8 DEF IInv, WarmStays, MissingTables, Solving, SameRequest
<1>21. WarmOnly'
    BY <1>1, <1>3, <1>4, <1>5, <1>7, <1>8 DEF IInv, WarmOnly, MissingTables, Solving, SameRequest
<1> QED BY <1>9, <1>10, <1>11, <1>12, <1>13, <1>14, <1>15, <1>16, <1>17, <1>18, <1>19, <1>20, <1>21
           DEF IInv

LEMMA Inductive ==
    ASSUME IInv, [Next]_vars
    PROVE  IInv'
<1>1. CASE Next
    <2> SUFFICES ASSUME NEW c \in Caller, CallSolve(c) \/ CallPrepare(c) \/ Step(c), session' = session
                 PROVE  IInv'
        BY <1>1 DEF Next
    <2>1. CASE CallSolve(c)
        BY <2>1, CallSolveStep
    <2>2. CASE CallPrepare(c)
        BY <2>2, CallPrepareStep
    <2>3. CASE Plan(c)
        BY <2>3, PlanStep
    <2>4. CASE CheckArguments(c)
        BY <2>4, CheckArgumentsStep
    <2>5. CASE CheckWarm(c)
        BY <2>5, CheckWarmStep
    <2>6. CASE CheckMemory(c)
        BY <2>6, CheckMemoryStep
    <2>7. CASE SearchEnds(c)
        BY <2>7, SearchEndsStep
    <2>8. ASSUME NEW t \in Table, TouchLoaded(c, t) PROVE IInv'
        BY <2>8, TouchLoadedStep
    <2>9. ASSUME NEW t \in Table, BeginInitialise(c, t) PROVE IInv'
        BY <2>9, BeginInitialiseStep
    <2>10. ASSUME NEW t \in Table, FinishLoad(c, t) PROVE IInv'
        BY <2>10, FinishLoadStep
    <2>11. ASSUME NEW t \in Table, BuildTable(c, t) PROVE IInv'
        BY <2>11, BuildTableStep
    <2>12. ASSUME NEW t \in Table, SaveTable(c, t) PROVE IInv'
        BY <2>12, SaveTableStep
    <2>13. CASE Relocate(c)
        BY <2>13, RelocateStep
    <2>14. CASE InspectCache(c)
        BY <2>14, InspectCacheStep
    <2>15. CASE Reinspect(c)
        BY <2>15, ReinspectStep
    <2>16. CASE PrepareEnds(c)
        BY <2>16, PrepareEndsStep
    <2> QED BY <2>1, <2>2, <2>3, <2>4, <2>5, <2>6, <2>7, <2>8, <2>9, <2>10, <2>11, <2>12, <2>13,
               <2>14, <2>15, <2>16 DEF Step, Touch
<1>2. CASE UNCHANGED vars
    <2>1. /\ UNCHANGED <<directory, files, loaded, initialising, origin>>
          /\ UNCHANGED <<pc, call, todo, calls, session>>
        BY <1>2 DEF vars, shared
    <2>2. Typed' /\ CallsFollowSession' /\ PhasesFollowKinds' /\ GuardsHeld'
        BY <2>1 DEF IInv, Typed, CallsFollowSession, PhasesFollowKinds, GuardsHeld, Solving,
           Preparing
    <2>3. TouchesWithinCharge' /\ AutoPlans' /\ OriginsFiled' /\ PreparationProgress'
        BY <2>1 DEF IInv, TouchesWithinCharge, WithinCharge, AutoPlans, OriginsFiled,
           PreparationProgress, Solving, Preparing, CacheEnabled
    <2>4. DirectoryStays' /\ DirectoryGivenBack'
        BY <2>1 DEF IInv, DirectoryStays, DirectoryGivenBack, Away, Preparing
    <2>5. WarmReported' /\ WarmStays' /\ WarmOnly'
        BY <2>1 DEF IInv, WarmReported, WarmStays, WarmOnly, MissingTables, SelectedDirectory,
           Solving, Preparing
    <2> QED BY <2>2, <2>3, <2>4, <2>5 DEF IInv
<1> QED BY <1>1, <1>2

LEMMA Initially == Init => IInv
<1> SUFFICES ASSUME Init PROVE IInv
    OBVIOUS
<1>1. \A c \in Caller : ~Solving(c) /\ ~Preparing(c) /\ pc[c] = "idle" /\ todo[c] = {}
    BY DEF Init, NoCall, Solving, Preparing
<1>2. \A t \in Table : initialising[t] = None /\ origin[t] = None
    BY DEF Init
<1>3. None \notin Caller /\ None \notin Dir /\ Home \in Dir
    BY RequestAssumption
<1>4. Typed
    <2>1. files \in [Dir -> SUBSET Table]
        BY RequestAssumption DEF Init
    <2>2. calls \in Nat /\ calls <= Session[session].calls
        BY RequestAssumption DEF Init
    <2> QED BY <1>3, <2>1, <2>2 DEF Init, Typed, Label, CallRecord
<1>5. CallsFollowSession /\ PhasesFollowKinds /\ TouchesWithinCharge /\ AutoPlans /\ PreparationProgress
    BY <1>1 DEF CallsFollowSession, PhasesFollowKinds, TouchesWithinCharge, AutoPlans,
       PreparationProgress, Touching, Initialising
<1>6. GuardsHeld /\ OriginsFiled
    BY <1>3 DEF Init, GuardsHeld, OriginsFiled
<1>7. DirectoryStays /\ DirectoryGivenBack /\ WarmReported /\ WarmStays /\ WarmOnly
    BY <1>1 DEF Init, DirectoryStays, DirectoryGivenBack, WarmReported, WarmStays, WarmOnly
<1> QED BY <1>4, <1>5, <1>6, <1>7 DEF IInv

LEMMA InvariantHolds == Spec => []IInv
<1>1. Init => IInv
    BY Initially
<1>2. IInv /\ [Next]_vars => IInv'
    BY Inductive
<1> QED BY <1>1, <1>2, PTL DEF Spec

-----------------------------------------------------------------------------
(* The theorems. *)

\* Every variable keeps its type, and every status a call reports is one that
\* Solver::solve or prepareCache returns.
THEOREM TypeCorrect == Spec => []TypeOK
<1>1. IInv => TypeOK
    <2> SUFFICES ASSUME IInv PROVE TypeOK
        OBVIOUS
    <2>1. Typed
        BY DEF IInv
    <2>2. ASSUME NEW c \in Caller
          PROVE  /\ call[c].kind \in {"none", "solve", "prepare"}
                 /\ call[c].kind # "none" =>
                       /\ call[c].options \in SolveOptions
                       /\ call[c].plan.profile \in Profile /\ call[c].plan.memory \in Nat
                       /\ UNION {call[c].touched, call[c].built, call[c].read, call[c].saved} \subseteq Table
                 /\ Solving(c) => call[c].status \in SolveStatus
                 /\ Preparing(c) => call[c].status \in {"running", "Prepared"}
        <3>1. call[c] \in CallRecord
            BY <2>1 DEF Typed
        <3>2. CASE call[c] \in SolveRecord
            BY <3>2 DEF SolveRecord, PlanRecord, Preparing
        <3>3. CASE call[c] \in PrepareRecord
            BY <3>3 DEF PrepareRecord, PlanRecord, Solving
        <3> QED BY <3>1, <3>2, <3>3 DEF CallRecord, NoCall, Solving, Preparing
    <2>3. calls \in 0 .. Session[session].calls
        BY <2>1 DEF Typed
    <2> QED BY <2>1, <2>2 DEF TypeOK, Typed, Label
<1> QED BY <1>1, InvariantHolds, PTL

\* The estimate of Solver::solve, made before the search, counts every table the search
\* touches, whatever it touches and in whatever order the threads take their turns.
THEOREM MemoryIsRespected == Spec => []MemoryRespected
<1>1. IInv => MemoryRespected
    <2> SUFFICES ASSUME IInv, NEW c \in Caller,
                        Solving(c), call[c].plan.memory > 0, call[c].touched # {}
                 PROVE  Bytes(call[c].touched) + Overhead <= call[c].plan.memory
        BY DEF MemoryRespected
    <2> DEFINE charged == ChargedTables(call[c].options.mode, call[c].plan.profile)
    <2>1. call[c] \in SolveRecord
        BY KindOf DEF IInv, Typed, Solving
    <2>2. call[c].touched \subseteq charged /\ ~ExceedsMemory(call[c].plan, charged)
        BY DEF IInv, TouchesWithinCharge, WithinCharge
    <2>3. charged \in SUBSET Table
        BY <2>1, ProfileTablesAre DEF SolveRecord, PlanRecord
    <2> HIDE DEF charged
    <2>4. Bytes(call[c].touched) <= Bytes(charged) /\ Bytes(call[c].touched) \in Nat /\ Bytes(charged) \in Nat
        BY <2>2, <2>3, BytesMonotone
    <2>5. Bytes(charged) + Overhead <= call[c].plan.memory
        BY <2>1, <2>2, <2>4, PlanningAssumption DEF ExceedsMemory, SolveRecord, PlanRecord
    <2> QED BY <2>1, <2>4, <2>5, PlanningAssumption DEF SolveRecord, PlanRecord
<1> QED BY <1>1, InvariantHolds, PTL

\* makeAutoPlan's fall-back leaves exactly the overhead of the solver: a request with profile
\* Auto is refused for memory that would hold Performance only in that margin.
THEOREM AutoRefusedByOverhead == Spec => []AutoRefusal
<1>1. IInv => AutoRefusal
    <2> SUFFICES ASSUME IInv, NEW c \in Caller, Solving(c), call[c].options.profile = "Auto",
                        call[c].status = "MemoryLimitExceeded",
                        ~ExceedsMemory(call[c].plan, ChargedTables("Optimal", "Performance"))
                 PROVE  /\ call[c].plan.profile = "LargeLocal"
                        /\ Bytes(ChargedTables("Optimal", "LargeLocal"))
                               \in call[c].plan.memory - Overhead + 1 .. call[c].plan.memory
        BY DEF AutoRefusal
    <2> DEFINE small == Bytes(ProfileTables("Performance"))
               large == Bytes(ProfileTables("LargeLocal"))
               plan == call[c].plan
    <2>1. call[c] \in SolveRecord
        BY KindOf DEF IInv, Typed, Solving
    <2>2. /\ ChargedTables("Optimal", "Performance") = ProfileTables("Performance")
          /\ ChargedTables("Optimal", "LargeLocal") = ProfileTables("LargeLocal")
        BY DEF ChargedTables, ProfileTables
    <2>3. /\ small \in Nat /\ large \in Nat /\ Overhead \in Nat
          /\ plan.memory \in Nat
        BY <2>1, ProfileTablesAre, BytesIsTotal, TotalIsNat, PlanningAssumption DEF SolveRecord,
           PlanRecord, Profile
    <2>4. \/ AutoRefused(plan)
          \/ /\ AutoGranted(call[c].options, plan)
             /\ ExceedsMemory(plan, ChargedTables("Optimal", plan.profile))
        BY DEF IInv, AutoPlans
    <2>5. ~(plan.memory > 0 /\ small + Overhead > plan.memory)
        BY <2>2 DEF ExceedsMemory
    <2>6. ~AutoRefused(plan)
        <3>1. AutoRefused(plan) => plan.memory > 0 /\ ~(small <= plan.memory)
            BY DEF AutoRefused, FitsMemoryBudget
        <3> HIDE DEF small, plan
        <3> QED BY <2>3, <2>5, <3>1
    <2>7. plan.profile = "LargeLocal" /\ large <= plan.memory /\ plan.memory > 0
        BY <2>4, <2>6 DEF AutoGranted, FitsMemoryBudget
    <2>8. large + Overhead > plan.memory
        BY <2>2, <2>4, <2>6, <2>7 DEF ExceedsMemory
    <2> HIDE DEF small, large
    <2>9. large \in plan.memory - Overhead + 1 .. plan.memory
        BY <2>3, <2>7, <2>8
    <2> QED BY <2>2, <2>7, <2>9 DEF large
<1> QED BY <1>1, InvariantHolds, PTL

\* Where no preparation moves the process to another directory, CacheNotReady is true: the
\* cache of the profile the request planned with was cold when it was made, although
\* makeOptimalPlan and Solver::solve look at it later, while other threads save tables.
THEOREM NotReadyWasCold ==
    ASSUME DirectoryKept
    PROVE  Spec => []NotReadyIsTrue
<1>1. IInv => NotReadyIsTrue
    BY DEF IInv, WarmStays, NotReadyIsTrue
<1> QED BY <1>1, InvariantHolds, PTL

\* And a RequireWarm solve that passes the check of its profile builds no table: those it
\* touches stay in the directory where the check saw them.  A Fast solve is excluded: it
\* touches the phase-2 tables, which the check leaves out.
THEOREM StrictNeverBuilds ==
    ASSUME DirectoryKept, StrictIsOptimal
    PROVE  Spec => []StrictWarmRequest
<1>1. IInv => StrictWarmRequest
    BY DEF IInv, WarmOnly, StrictWarmRequest
<1> QED BY <1>1, InvariantHolds, PTL

\* prepareCache leaves every table of its profile in its directory, but those the process
\* had from elsewhere or failed to save, and ScopedCacheDirectory gives the directory back.
THEOREM PreparationLeavesFiles ==
    ASSUME OnePreparer \/ DirectoryKept
    PROVE  Spec => []PreparationWarms
<1>1. IInv => PreparationWarms
    <2> SUFFICES ASSUME IInv PROVE PreparationWarms
        OBVIOUS
    <2>1. (\A c \in Caller : Working(c) => ~Preparing(c)) => directory = Home
        <3>1. CASE DirectoryKept
            BY <3>1 DEF IInv, DirectoryStays
        <3>2. CASE OnePreparer
            BY <3>2 DEF IInv, DirectoryGivenBack, Away, Working
        <3> QED BY <3>1, <3>2
    <2>2. ASSUME NEW c \in Caller, BuiltCache(c)
          PROVE  /\ \A t \in MissingTables(SelectedDirectory(c), call[c].plan.profile) :
                        origin[t] \notin {None, SelectedDirectory(c)}
                 /\ call[c].cacheWarm => MissingTables(SelectedDirectory(c), call[c].plan.profile) = {}
        <3>1. SelectedDirectory(c) \in Dir
            BY <2>2, KindOf DEF IInv, Typed, BuiltCache, Preparing, PrepareRecord,
               SelectedDirectory
        <3>2. pc[c] = "idle" /\ todo[c] = {}
            BY <2>2 DEF IInv, PhasesFollowKinds, BuiltCache, Touching, Initialising
        <3>3. ProfileTables(call[c].plan.profile) \subseteq loaded
            BY <2>2, <3>2 DEF IInv, PreparationProgress, BuiltCache
        <3>4. \A t \in loaded : t \in Table /\ origin[t] # None
            BY DEF IInv, Typed, OriginsFiled
        <3>5. \A t \in Table : origin[t] = SelectedDirectory(c) => t \in files[SelectedDirectory(c)]
            BY <3>1 DEF IInv, OriginsFiled
        <3>6. call[c].cacheWarm => MissingTables(SelectedDirectory(c), call[c].plan.profile) = {}
            BY <2>2 DEF IInv, WarmReported, BuiltCache
        <3> QED BY <3>3, <3>4, <3>5, <3>6 DEF MissingTables
    <2> QED BY <2>1, <2>2 DEF PreparationWarms
<1> QED BY <1>1, InvariantHolds, PTL
====
