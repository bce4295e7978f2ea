------------------------- MODULE RootSearchOutcome -------------------------
(***************************************************************************)
(* What one depth-limited search promises its caller, whatever number of   *)
(* threads it uses (parallelRootDfs, parallelDeepRootDfs): it answers      *)
(* once, with a solution that exists, with a timeout that really happened, *)
(* or with "there is none within the limit".                               *)
(***************************************************************************)
CONSTANTS
    Answers,     \* everything a search could return as a solution
    None         \* no answer; not in Answers

VARIABLES
    solvable,         \* the answers that are genuine solutions of this call
    deadlineExpired,  \* has the caller's deadline passed?
    result,           \* "running", or the SearchState returned
    answer            \* the solution returned, None unless "Found"

vars == <<solvable, deadlineExpired, result, answer>>

Init ==
    /\ solvable \in SUBSET Answers
    /\ deadlineExpired = FALSE
    /\ result = "running"
    /\ answer = None

DeadlineExpires ==
    /\ ~deadlineExpired
    /\ deadlineExpired' = TRUE
    /\ UNCHANGED <<solvable, result, answer>>

AnswerFound ==
    /\ result = "running"
    /\ result' = "Found"
    /\ answer' \in solvable
    /\ UNCHANGED <<solvable, deadlineExpired>>

AnswerNotFound ==
    /\ result = "running"
    /\ solvable = {}
    /\ result' = "NotFound"
    /\ UNCHANGED <<solvable, deadlineExpired, answer>>

AnswerTimeout ==
    /\ result = "running"
    /\ deadlineExpired
    /\ result' = "Timeout"
    /\ UNCHANGED <<solvable, deadlineExpired, answer>>

Next == DeadlineExpires \/ AnswerFound \/ AnswerNotFound \/ AnswerTimeout

Spec == Init /\ [][Next]_vars
=============================================================================
