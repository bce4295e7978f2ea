--------------------------- MODULE MCSolveRequest ---------------------------
(***************************************************************************)
(* Sizes in a scaled unit: the Performance set needs 4, LargeLocal's 7,    *)
(* and the overhead is 2.  So a budget of 6 is answered by the fallback of *)
(* Auto, 7 and 8 hold the payload of LargeLocal only, and 9 holds it all.  *)
(***************************************************************************)
EXTENDS SolveRequest

CONSTANTS c1, c2

MCSize == [t \in Table |-> IF t = "cornerEdges" THEN 3 ELSE 1]

Options(modes, metrics, profiles, policies, memories, timeouts, depths, blocked) ==
    [mode : modes, metric : metrics, profile : profiles, policy : policies, memory : memories,
     timeout : timeouts, maxDepth : depths, blocked : blocked]

\* Every kind of request.  A Fast one with RequireWarm has a session of its own.
EveryOption ==
    Options({"Optimal"}, {"HTM"}, Profile, Policy, {0, 1, 4, 6, 7, 8, 9}, {0, 2, 3}, {13, 14}, {"none"})
    \cup Options({"Fast"}, {"HTM"}, Profile, Policy \ {"RequireWarm"}, {0, 1, 4, 6, 7, 8, 9}, {0}, {13},
                 {"none", "legal"})
    \cup Options({"Optimal", "Balanced", "Fast"}, {"HTM", "QTM"}, {"Auto", "Default"}, {"Auto"}, {0}, {0}, {13},
                 {"none", "legal", "illegal"})

\* The optimal requests that differ in what they look for and build.
FewOptions ==
    Options({"Optimal"}, {"HTM"}, {"Embedded", "LargeLocal"}, {"RequireWarm", "AllowBuild"}, {0}, {0},
            {14}, {"none"})

SharedOptions ==
    FewOptions \cup Options({"Optimal"}, {"HTM"}, {"Auto"}, {"AllowBuild"}, {0}, {0}, {14}, {"none"})

FastOptions ==
    Options({"Fast"}, {"HTM"}, {"Embedded"}, {"RequireWarm"}, {0}, {0}, {14}, {"none"})

DisabledOptions ==
    Options({"Optimal"}, {"HTM"}, {"Embedded"}, {"Disabled"}, {0}, {0}, {14}, {"none"})

Setups(profiles, policies, dirs, dry) ==
    [options : Options({"Optimal"}, {"HTM"}, profiles, policies, {0}, {0}, {20}, {"none"}),
     dir : dirs, dryRun : dry]

AllSetups ==
    Setups({"Embedded"}, Policy, {None}, BOOLEAN)
    \cup Setups({"Embedded", "LargeLocal"}, {"AllowBuild", "RequireWarm"}, {None, "away"}, {FALSE})

Use(callers, options, setups, n) ==
    [callers |-> callers, options |-> options, setups |-> setups, calls |-> n]

\* One thread with any request, or two with two requests between them.
Solves ==
    [alone |-> Use({c1}, EveryOption, {}, 1), shared |-> Use({c1, c2}, SharedOptions, {}, 2)]
Preparations == [prepare |-> Use({c1, c2}, FewOptions, AllSetups, 2)]
FastSolves == [fast |-> Use({c1}, FastOptions, {}, 1)]
DisabledSolves == [disabled |-> Use({c1}, DisabledOptions, {}, 1)]

ColdOrWarm == {{}, {"base", "cornerState"}, Table}
=============================================================================
