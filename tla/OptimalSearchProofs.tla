------------------------ MODULE OptimalSearchProofs ------------------------
(***************************************************************************)
(* What the optimal mode answers is true, for every puzzle, every bound    *)
(* the tables may give, every radius of the goal table and every split.    *)
(*                                                                         *)
(* While an iteration runs, no solution is shorter than its limit, and if  *)
(* one is as short, a canonical one is still open: the rest of it goes on  *)
(* from a task not searched yet, from the call of dfs that is beginning,   *)
(* or from a move one of the loops has not tried.                          *)
(***************************************************************************)
EXTENDS OptimalSearch, PuzzleProofs

\* A canonical solution of n moves or fewer begins with p.
Open(start, n, p) == Finishable(After(start, p), n - Len(p), p)

StackEmpties == pc \in {"limit", "task"} => frames = <<>>

PathsFit ==
    /\ pc = "visit" => Len(path) <= limit
    /\ \A t \in tasks : Len(t) <= limit
    /\ \A i \in 1 .. Len(frames) : \A m \in frames[i].todo : Len(frames[i].path) + 1 <= limit

NoneIsShorter ==
    pc # "done" /\ limit > 0 => request.start \notin Within(limit - 1)

SomethingIsOpen ==
    \/ \E t \in tasks : Open(request.start, limit, t)
    \/ pc = "visit" /\ Open(request.start, limit, path)
    \/ \E i \in 1 .. Len(frames) : \E m \in frames[i].todo :
          Open(request.start, limit, Append(frames[i].path, m))

NothingIsLost ==
    pc \in {"task", "visit", "loop"} /\ request.start \in Within(limit) => SomethingIsOpen

IInv ==
    /\ TypeOK
    /\ StackEmpties
    /\ PathsFit
    /\ NoneIsShorter
    /\ NothingIsLost
    /\ AnswerIsOptimal
    /\ DepthLimitIsTrue

-----------------------------------------------------------------------------
(* Requests, the bound, and the candidates of a cube. *)

LEMMA RequestFields ==
    ASSUME NEW r \in Requests
    PROVE  /\ r.start \in Cube /\ r.start # Solved
           /\ r.depth \in Nat
           /\ r.radius \in 0 .. MaxRadius
           /\ r.split \in {0, 1, 2}
BY SearchAssumption DEF RequestType

LEMMA BoundIsSafe ==
    ASSUME NEW c \in Cube, NEW n \in Nat, c \in Within(n)
    PROVE  Bound[c] \in Nat /\ Bound[c] <= n
<1>1. Bound[c] \in Nat
    BY SearchAssumption
<1>2. SUFFICES ASSUME Bound[c] > n PROVE FALSE
    BY <1>1
<1>3. n <= Bound[c] - 1 /\ Bound[c] - 1 \in Nat /\ Bound[c] > 0
    BY <1>1, <1>2
<1>4. c \in Within(Bound[c] - 1)
    BY <1>3, WithinGrows
<1> QED BY <1>3, <1>4, BoundAssumption

LEMMA CandidatesFit ==
    ASSUME NEW c \in Cube, NEW p \in Path, NEW n \in Nat, NEW m \in Candidates(c, p, n)
    PROVE  m \in Move /\ Len(p) + 1 <= n
<1>1. m \in Move /\ Len(p) + 1 + Bound[Moved[c][m]] <= n
    BY DEF Candidates
<1>2. Moved[c][m] \in Cube
    BY <1>1, PuzzleAssumption
<1>3. Bound[Moved[c][m]] \in Nat /\ Len(p) \in Nat
    BY <1>2, SearchAssumption, PathMoves
<1> QED BY <1>1, <1>3

\* An open path that is no solution goes on with a candidate: neither the canonical order nor the
\* bound gives it up.
LEMMA OpenGoesOn ==
    ASSUME NEW start \in Cube, NEW n \in Nat, NEW p \in Path, Len(p) <= n,
           Open(start, n, p), After(start, p) # Solved
    PROVE  \E m \in Candidates(After(start, p), p, n) : Open(start, n, Append(p, m))
<1> DEFINE c == After(start, p)
<1>1. c \in Cube /\ Len(p) \in Nat /\ n - Len(p) \in Nat
    BY AfterIsCube, PathMoves
<1>2. Finishable(c, n - Len(p), p) /\ c # Solved
    BY DEF Open
<1> HIDE DEF c
<1>3. (n - Len(p)) - 1 \in Nat
    BY <1>1, <1>2, FinishableStep
<1>4. PICK m \in Move : /\ p # <<>> => ~IsRedundant(p[Len(p)], m)
                        /\ Finishable(Moved[c][m], (n - Len(p)) - 1, Append(p, m))
    BY <1>1, <1>2, FinishableStep
<1>5. Moved[c][m] \in Cube
    BY <1>1, PuzzleAssumption
<1>6. Moved[c][m] \in Within((n - Len(p)) - 1)
    BY <1>3, <1>4, <1>5, FinishableIsNear
<1>7. Bound[Moved[c][m]] \in Nat /\ Bound[Moved[c][m]] <= (n - Len(p)) - 1
    BY <1>3, <1>5, <1>6, BoundIsSafe
<1>8. Len(p) + 1 + Bound[Moved[c][m]] <= n
    BY <1>1, <1>7
<1>9. m \in Candidates(c, p, n)
    BY <1>4, <1>8 DEF Candidates
<1>10. After(start, Append(p, m)) = Moved[c][m] /\ Len(Append(p, m)) = Len(p) + 1
    BY AfterAppend DEF c
<1>11. n - Len(Append(p, m)) = (n - Len(p)) - 1
    BY <1>1, <1>10
<1>12. Open(start, n, Append(p, m))
    BY <1>4, <1>10, <1>11 DEF Open
<1> QED BY <1>9, <1>12 DEF c

LEMMA OpenIsNear ==
    ASSUME NEW start \in Cube, NEW n \in Nat, NEW p \in Path, Len(p) <= n, Open(start, n, p)
    PROVE  /\ After(start, p) \in Cube
           /\ n - Len(p) \in Nat
           /\ After(start, p) \in Within(n - Len(p))
BY AfterIsCube, PathMoves, FinishableIsNear DEF Open

\* A search begins with all of it open.
LEMMA OpensAtRoot ==
    ASSUME NEW start \in Cube, NEW n \in Nat, start \in Within(n)
    PROVE  <<>> \in Path /\ Len(<<>>) = 0 /\ After(start, <<>>) = start /\ Open(start, n, <<>>)
<1>1. <<>> \in Path /\ Len(<<>>) = 0 /\ After(start, <<>>) = start /\ n - Len(<<>>) = n
    BY AfterEmpty
<1>2. Finishable(start, n, <<>>)
    BY RootFinishable
<1> QED BY <1>1, <1>2 DEF Open

-----------------------------------------------------------------------------
(* The goal tables. *)

\* One of GoalTables' steps.
Grown(inner) ==
    LET found == {Moved[c][m] : c \in DOMAIN inner, m \in Move}
        first(c) == CHOOSE e \in (DOMAIN inner) \X Move : Moved[e[1]][e[2]] = c
    IN [c \in DOMAIN inner \cup found |->
           IF c \in DOMAIN inner THEN inner[c]
           ELSE <<InverseOf[first(c)[2]]>> \o inner[first(c)[1]]]

\* The cubes within n moves, each with a shortest way home.
IsGoalTable(f, n) ==
    /\ f \in [Within(n) -> Path]
    /\ \A c \in Within(n) :
          /\ After(c, f[c]) = Solved
          /\ \A k \in 0 .. n : c \in Within(k) => Len(f[c]) <= k

LEMMA TableBegins == IsGoalTable([c \in {Solved} |-> <<>>], 0)
<1> DEFINE f == [c \in {Solved} |-> <<>>]
<1>1. Within(0) = {Solved} /\ Solved \in Cube
    BY WithinSteps, PuzzleAssumption
<1>2. <<>> \in Path /\ Len(<<>>) = 0 /\ After(Solved, <<>>) = Solved
    BY <1>1, AfterEmpty
<1>3. f \in [Within(0) -> Path] /\ \A c \in Within(0) : c = Solved /\ f[c] = <<>>
    BY <1>1, <1>2
<1> HIDE DEF f
<1>4. IsGoalTable(f, 0)
    BY <1>2, <1>3 DEF IsGoalTable
<1> QED BY <1>4 DEF f

LEMMA TableGrows ==
    ASSUME NEW n \in Nat, NEW inner, IsGoalTable(inner, n)
    PROVE  IsGoalTable(Grown(inner), n + 1)
<1> DEFINE found == {Moved[c][m] : c \in DOMAIN inner, m \in Move}
           first(c) == CHOOSE e \in (DOMAIN inner) \X Move : Moved[e[1]][e[2]] = c
           back(e) == <<InverseOf[e[2]]>> \o inner[e[1]]
           way(c) == IF c \in DOMAIN inner THEN inner[c] ELSE back(first(c))
           outer == DOMAIN inner \cup found
<1>1. Grown(inner) = [c \in outer |-> way(c)]
    BY DEF Grown
<1>2. DOMAIN inner = Within(n) /\ inner \in [Within(n) -> Path] /\ Within(n) \in SUBSET Cube
    BY WithinSteps DEF IsGoalTable
<1>3. ASSUME NEW c \in found PROVE c \in Cube /\ \E k \in Move : Moved[c][k] \in Within(n)
    <2>1. PICK d \in DOMAIN inner, m \in Move : c = Moved[d][m]
        OBVIOUS
    <2>2. d \in Cube /\ d \in Within(n)
        BY <1>2
    <2>3. c \in Cube /\ InverseOf[m] \in Move /\ Moved[c][InverseOf[m]] = d
        BY <2>1, <2>2, PuzzleAssumption
    <2> QED BY <2>2, <2>3
<1>4. ASSUME NEW c \in Cube, NEW m \in Move, Moved[c][m] \in Within(n) PROVE c \in found
    <2>1. Moved[Moved[c][m]][InverseOf[m]] = c /\ InverseOf[m] \in Move
        BY PuzzleAssumption
    <2> QED BY <1>2, <1>4, <2>1
<1>5. outer = Within(n + 1)
    BY <1>2, <1>3, <1>4, WithinSteps
<1>6. ASSUME NEW c \in outer
      PROVE  /\ way(c) \in Path
             /\ After(c, way(c)) = Solved
             /\ \A k \in 0 .. n + 1 : c \in Within(k) => Len(way(c)) <= k
    <2>1. CASE c \in DOMAIN inner
        <3>1. way(c) = inner[c] /\ c \in Within(n)
            BY <1>2, <2>1
        <3> HIDE DEF way, outer
        <3>2. inner[c] \in Path /\ After(c, inner[c]) = Solved
              /\ \A k \in 0 .. n : c \in Within(k) => Len(inner[c]) <= k
            BY <1>2, <3>1 DEF IsGoalTable
        <3>3. Len(inner[c]) <= n /\ Len(inner[c]) \in Nat
            BY <3>1, <3>2, PathMoves
        <3>4. ASSUME NEW k \in 0 .. n + 1, c \in Within(k) PROVE Len(inner[c]) <= k
            <4>1. k \in 0 .. n \/ k = n + 1
                OBVIOUS
            <4> QED BY <3>2, <3>3, <3>4, <4>1
        <3> QED BY <3>1, <3>2, <3>4
    <2>2. CASE c \notin DOMAIN inner
        <3> DEFINE e == first(c)
        <3>1. \E d \in (DOMAIN inner) \X Move : Moved[d[1]][d[2]] = c
            <4>1. PICK d \in DOMAIN inner, m \in Move : c = Moved[d][m]
                BY <2>2
            <4>2. <<d, m>> \in (DOMAIN inner) \X Move /\ <<d, m>>[1] = d /\ <<d, m>>[2] = m
                OBVIOUS
            <4> QED BY <4>1, <4>2
        <3>2. e \in (DOMAIN inner) \X Move /\ Moved[e[1]][e[2]] = c
            BY <3>1
        <3>3. way(c) = <<InverseOf[e[2]]>> \o inner[e[1]]
            <4>1. way(c) = back(e)
                <5> HIDE DEF back, e, first
                <5>1. way(c) = back(first(c))
                    BY <2>2
                <5> QED BY <5>1 DEF e
            <4> HIDE DEF way, e, first
            <4> QED BY <4>1
        <3> HIDE DEF e, way, first, outer
        <3>4. e[1] \in Within(n) /\ e[1] \in Cube /\ e[2] \in Move /\ InverseOf[e[2]] \in Move
            BY <1>2, <3>2, PuzzleAssumption
        <3>5. Moved[c][InverseOf[e[2]]] = e[1] /\ c \in Cube
            BY <3>2, <3>4, PuzzleAssumption
        <3>6. inner[e[1]] \in Path /\ After(e[1], inner[e[1]]) = Solved /\ Len(inner[e[1]]) <= n
            BY <1>2, <3>4 DEF IsGoalTable
        <3>7. <<InverseOf[e[2]]>> \in Path /\ After(c, <<InverseOf[e[2]]>>) = e[1]
            BY <3>4, <3>5, AfterOne
        <3>8. way(c) \in Path /\ Len(way(c)) = 1 + Len(inner[e[1]]) /\ After(c, way(c)) = Solved
            BY <3>3, <3>5, <3>6, <3>7, AfterConcat
        <3>9. Len(inner[e[1]]) \in Nat
            BY <3>6, PathMoves
        <3>10. ASSUME NEW k \in 0 .. n + 1, c \in Within(k) PROVE Len(way(c)) <= k
            <4>1. ~(k <= n)
                BY <1>2, <2>2, <3>10, WithinGrows
            <4> QED BY <3>6, <3>8, <3>9, <4>1
        <3> QED BY <3>8, <3>10
    <2> QED BY <2>1, <2>2
<1> HIDE DEF way, outer
<1> DEFINE g == [c \in outer |-> way(c)]
<1>7. g \in [Within(n + 1) -> Path] /\ \A c \in Within(n + 1) : g[c] = way(c)
    BY <1>5, <1>6
<1> HIDE DEF g
<1>8. IsGoalTable(g, n + 1)
    BY <1>5, <1>6, <1>7 DEF IsGoalTable
<1> QED BY <1>1, <1>8 DEF g

LEMMA TablesExist ==
    \E g : /\ g[0] = [c \in {Solved} |-> <<>>]
           /\ \A n \in Nat : g[n + 1] = Grown(g[n])
<1> DEFINE Tables == {f \in UNION {[D -> Path] : D \in SUBSET Cube} : \E n \in Nat : IsGoalTable(f, n)}
           goal == [c \in {Solved} |-> <<>>]
<1>1. ASSUME NEW f, NEW n \in Nat, IsGoalTable(f, n) PROVE f \in Tables
    <2>1. Within(n) \in SUBSET Cube /\ f \in [Within(n) -> Path]
        BY <1>1, WithinSteps DEF IsGoalTable
    <2>2. f \in UNION {[D -> Path] : D \in SUBSET Cube}
        BY <2>1
    <2> QED BY <1>1, <2>2
<1>2. goal \in Tables
    <2> HIDE DEF goal, Tables
    <2>1. IsGoalTable(goal, 0) /\ 0 \in Nat
        BY TableBegins DEF goal
    <2> QED BY <1>1, <2>1
<1>3. ASSUME NEW f \in Tables PROVE Grown(f) \in Tables
    <2>1. PICK n \in Nat : IsGoalTable(f, n)
        OBVIOUS
    <2> HIDE DEF Tables
    <2>2. IsGoalTable(Grown(f), n + 1) /\ n + 1 \in Nat
        BY <2>1, TableGrows
    <2> QED BY <1>1, <2>2
<1> HIDE DEF Tables, goal
<1> DEFINE step == [n \in Nat |-> [f \in Tables |-> Grown(f)]]
<1>4. step \in [Nat -> [Tables -> Tables]]
    BY <1>3
<1> HIDE DEF step
<1>5. PICK g : Recurs(g, Tables, goal, step)
    BY <1>2, <1>4, Recursion
<1>6. ASSUME NEW n \in Nat PROVE g[n + 1] = Grown(g[n])
    <2>1. g[n] \in Tables /\ g[n + 1] = step[n][g[n]]
        BY <1>5 DEF Recurs
    <2> QED BY <2>1 DEF step
<1>7. g[0] = goal
    BY <1>5 DEF Recurs
<1> QED BY <1>6, <1>7 DEF goal

\* buildGoalTable and reconstructGoalTableSuffix: a goal table of radius r has every cube within r
\* moves and no other, each with a shortest way home.
THEOREM GoalTablesAreShortest ==
    ASSUME NEW r \in 0 .. MaxRadius
    PROVE  IsGoalTable(GoalTables[r], r)
<1> DEFINE goal == [c \in {Solved} |-> <<>>]
           Fold(f) == [n \in 0 .. MaxRadius |-> IF n = 0 THEN goal ELSE Grown(f[n - 1])]
           Folds(f) == f = Fold(f)
           table == CHOOSE f : Folds(f)
<1>0. GoalTables = [n \in 0 .. MaxRadius |-> table[n]]
    BY DEF GoalTables, Grown
<1> HIDE DEF table
<1>1. GoalTables[r] = table[r]
    BY <1>0
<1> USE DEF table
<1>2. \E f : Folds(f)
    <2>1. PICK g : g[0] = goal /\ \A n \in Nat : g[n + 1] = Grown(g[n])
        BY TablesExist
    <2> DEFINE f == [n \in 0 .. MaxRadius |-> g[n]]
    <2>2. ASSUME NEW n \in 0 .. MaxRadius, n # 0 PROVE f[n] = Grown(f[n - 1])
        <3>1. n - 1 \in 0 .. MaxRadius /\ n - 1 \in Nat /\ (n - 1) + 1 = n
            BY <2>2, SearchAssumption
        <3>2. f[n] = g[n] /\ f[n - 1] = g[n - 1]
            BY <3>1
        <3> HIDE DEF f
        <3> QED BY <2>1, <3>1, <3>2
    <2>3. 0 \in 0 .. MaxRadius => f[0] = goal
        BY <2>1
    <2>4. f = [n \in 0 .. MaxRadius |-> f[n]]
        OBVIOUS
    <2> HIDE DEF f, goal
    <2>5. f = Fold(f)
        BY <2>2, <2>3, <2>4
    <2> QED BY <2>5
<1>3. Folds(table)
    <2> HIDE DEF Folds
    <2> QED BY <1>2
<1> HIDE DEF table, goal
<1>4. ASSUME NEW n \in 0 .. MaxRadius PROVE table[n] = IF n = 0 THEN goal ELSE Grown(table[n - 1])
    BY <1>3
<1> DEFINE Bad == {n \in Nat : n <= MaxRadius /\ ~IsGoalTable(table[n], n)}
<1>5. CASE Bad = {}
    BY <1>1, <1>5, SearchAssumption
<1>6. CASE Bad # {}
    <2>1. PICK n \in Bad : \A j \in Bad : n <= j
        BY <1>6, LeastNatural
    <2>2. n \in Nat /\ n <= MaxRadius /\ ~IsGoalTable(table[n], n) /\ n \in 0 .. MaxRadius
        BY <2>1, SearchAssumption
    <2>3. n # 0
        BY <1>4, <2>2, TableBegins DEF goal
    <2>4. n - 1 \in Nat /\ n - 1 <= MaxRadius /\ ~(n <= n - 1) /\ (n - 1) + 1 = n
        BY <2>2, <2>3, SearchAssumption
    <2>5. IsGoalTable(table[n - 1], n - 1)
        BY <2>1, <2>4
    <2>6. IsGoalTable(Grown(table[n - 1]), n)
        BY <2>4, <2>5, TableGrows
    <2> QED BY <1>4, <2>2, <2>3, <2>6
<1> QED BY <1>5, <1>6

-----------------------------------------------------------------------------
(* The tasks of an iteration. *)

LEMMA RootTasksFit ==
    ASSUME NEW t \in RootTasks, request.start \in Cube, limit \in Nat
    PROVE  t \in Path /\ Len(t) = 1 /\ 1 <= limit
<1>1. PICK m \in Candidates(request.start, <<>>, limit) : t = <<m>>
    BY DEF RootTasks
<1>2. <<>> \in Path /\ Len(<<>>) = 0
    BY AfterEmpty
<1>3. m \in Move /\ 1 <= limit
    BY <1>2, CandidatesFit
<1> QED BY <1>1, <1>3 DEF Path

LEMMA DeepTasksFit ==
    ASSUME NEW t \in DeepTasks, request.start \in Cube, limit \in Nat
    PROVE  t \in Path /\ Len(t) <= limit
<1> DEFINE children(u) == Candidates(After(request.start, u), u, limit)
           pairs(u) == IF children(u) = {} THEN {u} ELSE {Append(u, m) : m \in children(u)}
<1>1. PICK u \in RootTasks : t \in pairs(u)
    BY DEF DeepTasks
<1>2. u \in Path /\ Len(u) = 1 /\ 1 <= limit
    BY RootTasksFit
<1>3. CASE t = u
    BY <1>2, <1>3
<1>4. CASE \E m \in children(u) : t = Append(u, m)
    <2>1. PICK m \in children(u) : t = Append(u, m)
        BY <1>4
    <2>2. After(request.start, u) \in Cube
        BY <1>2, AfterIsCube
    <2>3. m \in Move /\ Len(u) + 1 <= limit
        BY <1>2, <2>1, <2>2, CandidatesFit
    <2> QED BY <1>2, <2>1, <2>3, AfterAppend
<1> QED BY <1>1, <1>3, <1>4

LEMMA SplitTasksFit ==
    ASSUME NEW t \in SplitTasks, request \in Requests, limit \in Nat
    PROVE  t \in Path /\ Len(t) <= limit
<1>1. request.start \in Cube /\ request.split \in {0, 1, 2}
    BY RequestFields
<1>2. CASE request.split = 0
    <2>1. t = <<>>
        BY <1>2 DEF SplitTasks
    <2> QED BY <2>1, AfterEmpty, <1>1
<1>3. CASE request.split = 1
    <2>1. t \in RootTasks
        BY <1>3 DEF SplitTasks
    <2> QED BY <1>1, <2>1, RootTasksFit
<1>4. CASE request.split = 2
    <2>1. t \in DeepTasks
        BY <1>4 DEF SplitTasks
    <2> QED BY <1>1, <2>1, DeepTasksFit
<1> QED BY <1>1, <1>2, <1>3, <1>4

LEMMA RootTasksCover ==
    ASSUME request.start \in Cube, request.start # Solved, limit \in Nat,
           request.start \in Within(limit)
    PROVE  \E t \in RootTasks : Open(request.start, limit, t)
<1>1. /\ <<>> \in Path /\ Len(<<>>) = 0 /\ After(request.start, <<>>) = request.start
      /\ Open(request.start, limit, <<>>)
    BY OpensAtRoot
<1>2. PICK m \in Candidates(request.start, <<>>, limit) : Open(request.start, limit, Append(<<>>, m))
    <2> DEFINE root == <<>>
    <2>1. root \in Path /\ Len(root) <= limit /\ After(request.start, root) # Solved
        BY <1>1
    <2>2. Open(request.start, limit, root) /\ After(request.start, root) = request.start
        BY <1>1
    <2> HIDE DEF root
    <2>3. \E m \in Candidates(After(request.start, root), root, limit) :
              Open(request.start, limit, Append(root, m))
        BY <2>1, <2>2, OpenGoesOn
    <2> QED BY <2>2, <2>3 DEF root
<1>3. Append(<<>>, m) = <<m>>
    OBVIOUS
<1>4. <<m>> \in RootTasks
    BY DEF RootTasks
<1> QED BY <1>2, <1>3, <1>4

\* A first move that no second one follows is a task itself: this is the solution of one move.
LEMMA DeepTasksCover ==
    ASSUME request.start \in Cube, request.start # Solved, limit \in Nat,
           request.start \in Within(limit), limit > 0 => request.start \notin Within(limit - 1)
    PROVE  \E t \in DeepTasks : Open(request.start, limit, t)
<1> DEFINE children(u) == Candidates(After(request.start, u), u, limit)
           pairs(u) == IF children(u) = {} THEN {u} ELSE {Append(u, m) : m \in children(u)}
<1>1. PICK u \in RootTasks : Open(request.start, limit, u)
    BY RootTasksCover
<1>2. u \in Path /\ Len(u) = 1 /\ 1 <= limit
    BY RootTasksFit
<1>3. ASSUME NEW t \in pairs(u) PROVE t \in DeepTasks
    BY DEF DeepTasks
<1>4. After(request.start, u) \in Cube
    BY <1>2, AfterIsCube
<1>5. CASE children(u) = {}
    BY <1>1, <1>3, <1>5
<1>6. CASE children(u) # {}
    <2>1. After(request.start, u) # Solved
        <3>1. SUFFICES ASSUME After(request.start, u) = Solved PROVE FALSE
            OBVIOUS
        <3>2. request.start \in Within(1)
            BY <1>2, <3>1, SolutionIsNear
        <3>3. PICK m \in children(u) : TRUE
            BY <1>6
        <3>4. 2 <= limit
            BY <1>2, <1>4, <3>3, CandidatesFit
        <3>5. 1 <= limit - 1 /\ limit - 1 \in Nat /\ limit > 0
            BY <3>4
        <3> QED BY <3>2, <3>5, WithinGrows
    <2>2. PICK m \in children(u) : Open(request.start, limit, Append(u, m))
        BY <1>1, <1>2, <2>1, OpenGoesOn
    <2>3. Append(u, m) \in pairs(u)
        BY <1>6
    <2> QED BY <1>3, <2>2, <2>3
<1> QED BY <1>5, <1>6

LEMMA SplitTasksCover ==
    ASSUME request \in Requests, limit \in Nat,
           request.start \in Within(limit), limit > 0 => request.start \notin Within(limit - 1)
    PROVE  \E t \in SplitTasks : Open(request.start, limit, t)
<1>1. request.start \in Cube /\ request.start # Solved /\ request.split \in {0, 1, 2}
    BY RequestFields
<1>2. CASE request.split = 0
    <2>1. SplitTasks = {<<>>}
        BY <1>2 DEF SplitTasks
    <2> QED BY <1>1, <2>1, OpensAtRoot
<1>3. CASE request.split = 1
    <2>1. SplitTasks = RootTasks
        BY <1>3 DEF SplitTasks
    <2> QED BY <1>1, <2>1, RootTasksCover
<1>4. CASE request.split = 2
    <2>1. SplitTasks = DeepTasks
        BY <1>4 DEF SplitTasks
    <2> QED BY <1>1, <2>1, DeepTasksCover
<1> QED BY <1>1, <1>2, <1>3, <1>4
-----------------------------------------------------------------------------
(* The invariant, step by step. *)

USE DEF Running

LEMMA Facts ==
    ASSUME TypeOK
    PROVE  /\ request \in Requests
           /\ request.start \in Cube /\ request.start # Solved
           /\ request.depth \in Nat
           /\ request.radius \in 0 .. MaxRadius
           /\ limit \in Nat
           /\ path \in Path /\ Len(path) \in Nat
           /\ \A t \in tasks : t \in Path
           /\ Len(frames) \in Nat
           /\ \A i \in 1 .. Len(frames) :
                 /\ frames[i] \in [path : Path, todo : SUBSET Move]
                 /\ frames[i].path \in Path
                 /\ frames[i].todo \subseteq Move
<1>1. frames \in Seq([path : Path, todo : SUBSET Move])
    BY DEF TypeOK
<1>2. Len(frames) \in Nat /\ \A i \in 1 .. Len(frames) : frames[i] \in [path : Path, todo : SUBSET Move]
    <2> DEFINE R == [path : Path, todo : SUBSET Move]
    <2>1. frames \in Seq(R)
        BY <1>1
    <2> HIDE DEF R
    <2>2. Len(frames) \in Nat /\ \A i \in 1 .. Len(frames) : frames[i] \in R
        BY <2>1
    <2> QED BY <2>2 DEF R
<1>3. request \in Requests /\ limit \in Nat /\ path \in Path /\ tasks \subseteq Path
    BY DEF TypeOK
<1>4. Len(path) \in Nat
    BY <1>3, PathMoves
<1>5. request.start \in Cube /\ request.start # Solved /\ request.depth \in Nat /\ request.radius \in 0 .. MaxRadius
    BY <1>3, RequestFields
<1> QED BY <1>2, <1>3, <1>4, <1>5

\* The answers other than a solution and a proof that there is none.
LEMMA Returning ==
    ASSUME IInv, NEW status \in {"Optimal", "Timeout", "DepthLimitExceeded"}, NEW moves \in Path,
           Return(status, moves),
           status = "Optimal" =>
              /\ After(request.start, moves) = Solved
              /\ moves # <<>>
              /\ request.start \notin Within(Len(moves) - 1),
           status = "DepthLimitExceeded" => request.start \notin Within(request.depth)
    PROVE  IInv'
<1>1. /\ pc' = "done" /\ answer' = [status |-> status, moves |-> moves]
      /\ tasks' = {} /\ frames' = <<>>
      /\ request' = request /\ expired' = expired /\ limit' = limit /\ path' = path
    BY DEF Return
<1>2. TypeOK'
    <2>1. answer' \in [status : {"running", "Optimal", "Timeout", "DepthLimitExceeded"}, moves : Path]
        BY <1>1
    <2>2. frames' \in Seq([path : Path, todo : SUBSET Move])
        BY <1>1
    <2>3. pc' \in {"limit", "task", "visit", "loop", "done"} /\ ~(pc' = "loop") /\ tasks' \subseteq Path
        BY <1>1
    <2> QED BY <1>1, <2>1, <2>2, <2>3 DEF IInv, TypeOK
<1>3. StackEmpties' /\ NoneIsShorter' /\ NothingIsLost'
    BY <1>1 DEF StackEmpties, NoneIsShorter, NothingIsLost
<1>4. PathsFit'
    BY <1>1 DEF PathsFit
<1>5. AnswerIsOptimal' /\ DepthLimitIsTrue'
    <2>1. answer'.status = status /\ answer'.moves = moves
        BY <1>1
    <2> QED BY <1>1, <2>1 DEF AnswerIsOptimal, DepthLimitIsTrue
<1> QED BY <1>2, <1>3, <1>4, <1>5 DEF IInv

\* A solution as long as the limit is a shortest one.
LEMMA Solving ==
    ASSUME IInv, pc = "visit", NEW moves \in Path, Len(moves) <= limit,
           After(request.start, moves) = Solved, Return("Optimal", moves)
    PROVE  IInv'
<1>1. request.start \in Cube /\ request.start # Solved /\ limit \in Nat
    BY Facts DEF IInv
<1>2. moves # <<>>
    BY <1>1, AfterEmpty
<1>3. Len(moves) \in Nat /\ Len(moves) # 0
    BY <1>2, PathMoves DEF Path
<1>4. Len(moves) - 1 \in Nat /\ limit - 1 \in Nat /\ Len(moves) - 1 <= limit - 1 /\ limit > 0
    BY <1>1, <1>3
<1>5. request.start \notin Within(limit - 1)
    BY <1>4 DEF IInv, NoneIsShorter
<1>6. request.start \notin Within(Len(moves) - 1)
    BY <1>4, <1>5, WithinGrows
<1> QED BY <1>2, <1>6, Returning

\* A call that found nothing may go when nothing of it is open.
LEMMA BackingUp ==
    ASSUME IInv, pc = "visit", BackUp, ~Open(request.start, limit, path)
    PROVE  IInv'
<1>1. /\ pc' = Resume(Len(frames))
      /\ request' = request /\ expired' = expired /\ limit' = limit /\ tasks' = tasks
      /\ path' = path /\ frames' = frames /\ answer' = answer
    BY DEF BackUp
<1>2. /\ pc' \in {"task", "loop"}
      /\ pc' = "task" => Len(frames) = 0
      /\ pc' = "loop" => Len(frames) # 0
    BY <1>1 DEF Resume
<1>3. frames \in Seq([path : Path, todo : SUBSET Move])
    BY DEF IInv, TypeOK
<1>4. /\ pc' = "task" => frames = <<>>
      /\ pc' = "loop" => frames # <<>>
    BY <1>2, <1>3
<1>5. TypeOK'
    BY <1>1, <1>2, <1>4 DEF IInv, TypeOK
<1>6. StackEmpties'
    BY <1>1, <1>2, <1>4 DEF StackEmpties
<1>7. PathsFit'
    BY <1>1, <1>2 DEF IInv, PathsFit
<1>8. NoneIsShorter'
    BY <1>1 DEF IInv, NoneIsShorter
<1>9. NothingIsLost'
    BY <1>1 DEF IInv, NothingIsLost, SomethingIsOpen
<1>10. AnswerIsOptimal' /\ DepthLimitIsTrue'
    BY <1>1 DEF IInv, AnswerIsOptimal, DepthLimitIsTrue
<1> QED BY <1>5, <1>6, <1>7, <1>8, <1>9, <1>10 DEF IInv

LEMMA BeginIterationStep == ASSUME IInv, BeginIteration PROVE IInv'
<1>0. request \in Requests /\ limit \in Nat
    BY Facts DEF IInv
<1>1. CASE request.split > 0 /\ expired
    <2>1. Return("Timeout", <<>>)
        BY <1>1 DEF BeginIteration
    <2> QED BY <2>1, Returning, AfterEmpty, Facts DEF IInv
<1>2. CASE ~(request.split > 0 /\ expired)
    <2>1. /\ pc = "limit" /\ tasks' = SplitTasks /\ pc' = "task"
          /\ request' = request /\ expired' = expired /\ limit' = limit /\ path' = path
          /\ frames' = frames /\ answer' = answer
        BY <1>2 DEF BeginIteration
    <2>2. frames = <<>> /\ (limit > 0 => request.start \notin Within(limit - 1))
        BY <2>1 DEF IInv, StackEmpties, NoneIsShorter
    <2>3. \A t \in SplitTasks : t \in Path /\ Len(t) <= limit
        BY <1>0, SplitTasksFit
    <2>4. request.start \in Within(limit) => \E t \in SplitTasks : Open(request.start, limit, t)
        BY <1>0, <2>2, SplitTasksCover
    <2>5. TypeOK'
        BY <2>1, <2>3 DEF IInv, TypeOK
    <2>6. StackEmpties' /\ PathsFit'
        BY <2>1, <2>2, <2>3 DEF IInv, StackEmpties, PathsFit
    <2>7. NoneIsShorter'
        BY <2>1, <2>2 DEF NoneIsShorter
    <2>8. NothingIsLost'
        BY <2>1, <2>4 DEF NothingIsLost, SomethingIsOpen
    <2>9. AnswerIsOptimal' /\ DepthLimitIsTrue'
        BY <2>1 DEF IInv, AnswerIsOptimal, DepthLimitIsTrue
    <2> QED BY <2>5, <2>6, <2>7, <2>8, <2>9 DEF IInv
<1> QED BY <1>1, <1>2

LEMMA DepthExhaustedStep == ASSUME IInv, DepthExhausted PROVE IInv'
<1>1. pc = "limit" /\ limit > request.depth /\ Return("DepthLimitExceeded", <<>>)
    BY DEF DepthExhausted
<1>2. request.depth \in Nat /\ limit \in Nat /\ request.start \in Cube
    BY Facts DEF IInv
<1>3. limit > 0 /\ limit - 1 \in Nat /\ request.depth <= limit - 1
    BY <1>1, <1>2
<1>4. request.start \notin Within(limit - 1)
    BY <1>1, <1>3 DEF IInv, NoneIsShorter
<1>5. request.start \notin Within(request.depth)
    BY <1>2, <1>3, <1>4, WithinGrows
<1> QED BY <1>1, <1>2, <1>5, Returning, AfterEmpty

LEMMA NextTaskStep == ASSUME IInv, NextTask PROVE IInv'
<1>1. PICK t \in tasks : path' = t /\ tasks' = tasks \ {t}
    BY DEF NextTask
<1>2. /\ pc = "task" /\ pc' = "visit"
      /\ request' = request /\ expired' = expired /\ limit' = limit /\ frames' = frames /\ answer' = answer
    BY DEF NextTask
<1>3. t \in Path /\ Len(t) <= limit
    BY Facts DEF IInv, PathsFit
<1>4. TypeOK'
    BY <1>1, <1>2, <1>3 DEF IInv, TypeOK
<1>5. StackEmpties' /\ PathsFit'
    BY <1>1, <1>2, <1>3 DEF IInv, StackEmpties, PathsFit
<1>6. NoneIsShorter'
    BY <1>2 DEF IInv, NoneIsShorter
<1>7. NothingIsLost'
    <2>1. SUFFICES ASSUME request.start \in Within(limit) PROVE SomethingIsOpen'
        BY <1>2 DEF NothingIsLost
    <2>2. SomethingIsOpen
        BY <1>2, <2>1 DEF IInv, NothingIsLost
    <2>3. CASE \E u \in tasks : Open(request.start, limit, u)
        <3>1. PICK u \in tasks : Open(request.start, limit, u)
            BY <2>3
        <3>2. CASE u = t
            BY <1>1, <1>2, <3>1, <3>2 DEF SomethingIsOpen
        <3>3. CASE u # t
            BY <1>1, <1>2, <3>1, <3>3 DEF SomethingIsOpen
        <3> QED BY <3>2, <3>3
    <2>4. CASE \E i \in 1 .. Len(frames) : \E m \in frames[i].todo :
                  Open(request.start, limit, Append(frames[i].path, m))
        BY <1>2, <2>4 DEF SomethingIsOpen
    <2> QED BY <1>2, <2>2, <2>3, <2>4 DEF SomethingIsOpen
<1>8. AnswerIsOptimal' /\ DepthLimitIsTrue'
    BY <1>2 DEF IInv, AnswerIsOptimal, DepthLimitIsTrue
<1> QED BY <1>4, <1>5, <1>6, <1>7, <1>8 DEF IInv

\* With every task searched nothing is open: the limit was too low.
LEMMA EndIterationStep == ASSUME IInv, EndIteration PROVE IInv'
<1>1. /\ pc = "task" /\ tasks = {} /\ limit' = limit + 1 /\ pc' = "limit"
      /\ request' = request /\ expired' = expired /\ tasks' = tasks /\ path' = path
      /\ frames' = frames /\ answer' = answer
    BY DEF EndIteration, NextLimit
<1>2. frames = <<>> /\ limit \in Nat
    BY <1>1, Facts DEF IInv, StackEmpties
<1>3. request.start \notin Within(limit)
    <2>1. ~SomethingIsOpen
        BY <1>1, <1>2 DEF SomethingIsOpen
    <2> QED BY <1>1, <2>1 DEF IInv, NothingIsLost
<1>4. limit' \in Nat /\ limit' - 1 = limit
    BY <1>1, <1>2
<1>5. TypeOK'
    BY <1>1, <1>4 DEF IInv, TypeOK
<1>6. StackEmpties' /\ PathsFit'
    BY <1>1, <1>2 DEF StackEmpties, PathsFit
<1>7. NoneIsShorter'
    BY <1>1, <1>3, <1>4 DEF NoneIsShorter
<1>8. NothingIsLost'
    BY <1>1 DEF NothingIsLost
<1>9. AnswerIsOptimal' /\ DepthLimitIsTrue'
    BY <1>1 DEF IInv, AnswerIsOptimal, DepthLimitIsTrue
<1> QED BY <1>5, <1>6, <1>7, <1>8, <1>9 DEF IInv

LEMMA VisitGoalTableStep == ASSUME IInv, VisitGoalTable PROVE IInv'
<1>1. /\ pc = "visit" /\ request.radius > 0 /\ Remaining <= request.radius
      /\ IF GoalTableHit(Here, Remaining) THEN Return("Optimal", path \o GoalTable[Here]) ELSE BackUp
    BY DEF VisitGoalTable, UsesGoalTable
<1>2. /\ request.start \in Cube /\ limit \in Nat /\ path \in Path /\ Len(path) \in Nat
      /\ request.radius \in 0 .. MaxRadius /\ request.radius \in Nat
    BY Facts, SearchAssumption DEF IInv
<1>3. Here \in Cube
    BY <1>2, AfterIsCube DEF Here
<1>4. Len(path) <= limit
    BY <1>1 DEF IInv, PathsFit
<1>5. Remaining \in Nat /\ Remaining \in 0 .. request.radius /\ Len(path) + Remaining = limit
    BY <1>1, <1>2, <1>4 DEF Remaining
<1>6. IsGoalTable(GoalTable, request.radius)
    BY <1>2, GoalTablesAreShortest DEF GoalTable
<1>7. CASE GoalTableHit(Here, Remaining)
    <2> DEFINE rest == GoalTable[Here]
    <2>1. Here \in DOMAIN GoalTable /\ Len(rest) <= Remaining
        BY <1>7 DEF GoalTableHit
    <2>2. rest \in Path /\ After(Here, rest) = Solved
        BY <1>6, <2>1 DEF IsGoalTable
    <2>3. Return("Optimal", path \o rest)
        BY <1>1, <1>7
    <2> HIDE DEF rest
    <2>4. path \o rest \in Path /\ Len(path \o rest) = Len(path) + Len(rest)
          /\ After(request.start, path \o rest) = Solved
        BY <1>2, <2>2, AfterConcat DEF Here
    <2>5. Len(path \o rest) <= limit
        BY <1>2, <1>5, <2>1, <2>2, <2>4, PathMoves
    <2> QED BY <1>1, <2>3, <2>4, <2>5, Solving
<1>8. CASE ~GoalTableHit(Here, Remaining)
    <2>1. BackUp
        BY <1>1, <1>8
    <2>2. ~Open(request.start, limit, path)
        <3>1. SUFFICES ASSUME Open(request.start, limit, path) PROVE FALSE
            OBVIOUS
        <3>2. Here \in Within(Remaining)
            BY <1>2, <1>4, <3>1, OpenIsNear DEF Here, Remaining
        <3>3. Here \in Within(request.radius)
            BY <1>2, <1>5, <3>2, WithinGrows
        <3>4. Here \in DOMAIN GoalTable /\ Len(GoalTable[Here]) <= Remaining
            BY <1>5, <1>6, <3>2, <3>3 DEF IsGoalTable
        <3> QED BY <1>8, <3>4 DEF GoalTableHit
    <2> QED BY <1>1, <2>1, <2>2, BackingUp
<1> QED BY <1>7, <1>8

LEMMA VisitStep == ASSUME IInv, Visit PROVE IInv'
<1>1. pc = "visit" /\ Here # Solved
    BY DEF Visit
<1>2. /\ request.start \in Cube /\ limit \in Nat /\ path \in Path /\ Len(path) \in Nat
      /\ Len(frames) \in Nat
    BY Facts DEF IInv
<1>3. Here \in Cube /\ Here = After(request.start, path)
    BY <1>2, AfterIsCube DEF Here
<1>4. Len(path) <= limit
    BY <1>1 DEF IInv, PathsFit
<1>5. CASE RootPruned
    <2>1. BackUp
        BY <1>5 DEF Visit
    <2>2. ~Open(request.start, limit, path)
        <3>1. SUFFICES ASSUME Open(request.start, limit, path) PROVE FALSE
            OBVIOUS
        <3>2. Here \in Within(limit - Len(path)) /\ limit - Len(path) \in Nat
            BY <1>2, <1>3, <1>4, <3>1, OpenIsNear
        <3>3. Bound[Here] \in Nat /\ Bound[Here] <= limit - Len(path)
            BY <1>3, <3>2, BoundIsSafe
        <3>4. Bound[Here] > limit
            BY <1>5 DEF RootPruned
        <3> QED BY <1>2, <3>3, <3>4
    <2> QED BY <1>1, <2>1, <2>2, BackingUp
<1>6. CASE ~RootPruned
    <2> DEFINE todo == Candidates(Here, path, limit)
               frame == [path |-> path, todo |-> todo]
    <2>1. /\ frames' = Append(frames, frame) /\ pc' = "loop"
          /\ request' = request /\ expired' = expired /\ limit' = limit /\ tasks' = tasks
          /\ path' = path /\ answer' = answer
        BY <1>6 DEF Visit
    <2>2. \A m \in todo : m \in Move /\ Len(path) + 1 <= limit
        BY <1>2, <1>3, CandidatesFit
    <2>3. Open(request.start, limit, path) =>
             \E m \in todo : Open(request.start, limit, Append(path, m))
        BY <1>1, <1>2, <1>3, <1>4, OpenGoesOn
    <2> HIDE DEF todo
    <2>4. frame \in [path : Path, todo : SUBSET Move] /\ frame.path = path /\ frame.todo = todo
        BY <1>2, <2>2
    <2> HIDE DEF frame
    <2>5. /\ frames' \in Seq([path : Path, todo : SUBSET Move]) /\ frames' # <<>>
          /\ Len(frames') = Len(frames) + 1
          /\ frames'[Len(frames) + 1] = frame
          /\ \A i \in 1 .. Len(frames) : frames'[i] = frames[i]
        <3>1. frames \in Seq([path : Path, todo : SUBSET Move])
            BY DEF IInv, TypeOK
        <3> QED BY <2>1, <2>4, <3>1
    <2>6. TypeOK'
        BY <2>1, <2>5 DEF IInv, TypeOK
    <2>7. StackEmpties'
        BY <2>1 DEF StackEmpties
    <2>8. PathsFit'
        <3>1. ASSUME NEW i \in 1 .. Len(frames'), NEW m \in frames'[i].todo
              PROVE  Len(frames'[i].path) + 1 <= limit'
            <4>1. CASE i = Len(frames) + 1
                BY <2>1, <2>2, <2>4, <2>5, <3>1, <4>1
            <4>2. CASE i # Len(frames) + 1
                <5>1. i \in 1 .. Len(frames)
                    BY <1>2, <2>5, <4>2
                <5>2. frames'[i] = frames[i]
                    BY <2>5, <5>1
                <5>3. Len(frames[i].path) + 1 <= limit
                    BY <3>1, <5>1, <5>2 DEF IInv, PathsFit
                <5> QED BY <2>1, <5>2, <5>3
            <4> QED BY <4>1, <4>2
        <3> QED BY <2>1, <3>1 DEF IInv, PathsFit
    <2>9. NoneIsShorter'
        BY <1>1, <2>1 DEF IInv, NoneIsShorter
    <2>10. NothingIsLost'
        <3>1. SUFFICES ASSUME request.start \in Within(limit) PROVE SomethingIsOpen'
            BY <2>1 DEF NothingIsLost
        <3>2. SomethingIsOpen
            BY <1>1, <3>1 DEF IInv, NothingIsLost
        <3>3. CASE \E t \in tasks : Open(request.start, limit, t)
            BY <2>1, <3>3 DEF SomethingIsOpen
        <3>4. CASE Open(request.start, limit, path)
            <4>1. PICK m \in todo : Open(request.start, limit, Append(path, m))
                BY <2>3, <3>4
            <4>2. Len(frames) + 1 \in 1 .. Len(frames')
                BY <1>2, <2>5
            <4>3. /\ m \in frames'[Len(frames) + 1].todo
                  /\ Open(request'.start, limit', Append(frames'[Len(frames) + 1].path, m))
                BY <2>1, <2>4, <2>5, <4>1
            <4> QED BY <4>2, <4>3 DEF SomethingIsOpen
        <3>5. CASE \E i \in 1 .. Len(frames) : \E m \in frames[i].todo :
                      Open(request.start, limit, Append(frames[i].path, m))
            <4>0. PICK i \in 1 .. Len(frames) : \E m \in frames[i].todo :
                        Open(request.start, limit, Append(frames[i].path, m))
                BY <3>5
            <4>1. PICK m \in frames[i].todo : Open(request.start, limit, Append(frames[i].path, m))
                BY <4>0
            <4>2. i \in 1 .. Len(frames') /\ frames'[i] = frames[i]
                BY <1>2, <2>5, <4>1
            <4>3. m \in frames'[i].todo /\ Open(request'.start, limit', Append(frames'[i].path, m))
                BY <2>1, <4>1, <4>2
            <4> QED BY <4>2, <4>3 DEF SomethingIsOpen
        <3> QED BY <3>2, <3>3, <3>4, <3>5 DEF SomethingIsOpen
    <2>11. AnswerIsOptimal' /\ DepthLimitIsTrue'
        BY <2>1 DEF IInv, AnswerIsOptimal, DepthLimitIsTrue
    <2> QED BY <2>6, <2>7, <2>8, <2>9, <2>10, <2>11 DEF IInv
<1> QED BY <1>5, <1>6

LEMMA TryMoveStep == ASSUME IInv, TryMove PROVE IInv'
<1> DEFINE n == Len(frames)
<1>1. PICK m \in Top.todo : /\ path' = Append(Top.path, m)
                            /\ frames' = [frames EXCEPT ![Len(frames)].todo = @ \ {m}]
    BY DEF TryMove
<1>2. /\ pc = "loop" /\ pc' = "visit"
      /\ request' = request /\ expired' = expired /\ limit' = limit /\ tasks' = tasks /\ answer' = answer
    BY DEF TryMove
<1>3. frames \in Seq([path : Path, todo : SUBSET Move]) /\ frames # <<>>
    BY <1>2 DEF IInv, TypeOK
<1>4. n \in Nat /\ n \in 1 .. n /\ Top = frames[n] /\ limit \in Nat
    BY <1>3, Facts DEF Top, IInv
<1>5. Top \in [path : Path, todo : SUBSET Move] /\ Top.path \in Path /\ m \in Move
    <2>1. Top \in [path : Path, todo : SUBSET Move]
        BY <1>4, Facts DEF IInv
    <2> QED BY <1>1, <2>1
<1>6. Len(Top.path) + 1 <= limit
    BY <1>1, <1>4 DEF IInv, PathsFit
<1>7. path' \in Path /\ Len(path') <= limit
    BY <1>1, <1>5, <1>6, AfterAppend, Facts DEF IInv
<1>8. /\ frames' \in Seq([path : Path, todo : SUBSET Move]) /\ Len(frames') = n
      /\ frames'[n].path = Top.path /\ frames'[n].todo = Top.todo \ {m}
      /\ \A i \in 1 .. n : i # n => frames'[i] = frames[i]
    <2> DEFINE R == [path : Path, todo : SUBSET Move]
               top == [Top EXCEPT !.todo = @ \ {m}]
    <2>1. top \in R /\ top.path = Top.path /\ top.todo = Top.todo \ {m}
        BY <1>5
    <2>2. frames' = [frames EXCEPT ![n] = top]
        BY <1>1, <1>4
    <2> HIDE DEF R, top
    <2>3. frames \in Seq(R)
        BY <1>3 DEF R
    <2>4. frames' \in Seq(R) /\ Len(frames') = n /\ frames'[n] = top
          /\ \A i \in 1 .. n : i # n => frames'[i] = frames[i]
        BY <1>4, <2>1, <2>2, <2>3
    <2> QED BY <2>1, <2>4 DEF R
<1>9. ASSUME NEW i \in 1 .. n
      PROVE  frames'[i].path = frames[i].path /\ frames'[i].todo \subseteq frames[i].todo
    BY <1>4, <1>8
<1>10. TypeOK'
    BY <1>2, <1>7, <1>8 DEF IInv, TypeOK
<1>11. StackEmpties'
    BY <1>2 DEF StackEmpties
<1>12. PathsFit'
    <2>1. ASSUME NEW i \in 1 .. Len(frames'), NEW k \in frames'[i].todo
          PROVE  Len(frames'[i].path) + 1 <= limit'
        <3>1. i \in 1 .. n /\ k \in frames[i].todo /\ frames'[i].path = frames[i].path
            BY <1>8, <1>9, <2>1
        <3>2. Len(frames[i].path) + 1 <= limit
            BY <3>1 DEF IInv, PathsFit
        <3> QED BY <1>2, <3>1, <3>2
    <2> QED BY <1>2, <1>7, <2>1 DEF IInv, PathsFit
<1>13. NoneIsShorter'
    BY <1>2 DEF IInv, NoneIsShorter
<1>14. NothingIsLost'
    <2>1. SUFFICES ASSUME request.start \in Within(limit) PROVE SomethingIsOpen'
        BY <1>2 DEF NothingIsLost
    <2>2. SomethingIsOpen
        BY <1>2, <2>1 DEF IInv, NothingIsLost
    <2>3. CASE \E t \in tasks : Open(request.start, limit, t)
        BY <1>2, <2>3 DEF SomethingIsOpen
    <2>4. CASE \E i \in 1 .. Len(frames) : \E k \in frames[i].todo :
                  Open(request.start, limit, Append(frames[i].path, k))
        <3>0. PICK i \in 1 .. n : \E k \in frames[i].todo :
                    Open(request.start, limit, Append(frames[i].path, k))
            BY <2>4
        <3>1. PICK k \in frames[i].todo : Open(request.start, limit, Append(frames[i].path, k))
            BY <3>0
        <3>2. CASE i = n /\ k = m
            <4>1. Open(request'.start, limit', path')
                BY <1>1, <1>2, <1>4, <3>1, <3>2
            <4> QED BY <1>2, <4>1 DEF SomethingIsOpen
        <3>3. CASE ~(i = n /\ k = m)
            <4>1. i \in 1 .. Len(frames') /\ k \in frames'[i].todo /\ frames'[i].path = frames[i].path
                BY <1>4, <1>8, <3>1, <3>3
            <4>2. Open(request'.start, limit', Append(frames'[i].path, k))
                BY <1>2, <3>1, <4>1
            <4> QED BY <4>1, <4>2 DEF SomethingIsOpen
        <3> QED BY <3>2, <3>3
    <2> QED BY <1>2, <2>2, <2>3, <2>4 DEF SomethingIsOpen
<1>15. AnswerIsOptimal' /\ DepthLimitIsTrue'
    BY <1>2 DEF IInv, AnswerIsOptimal, DepthLimitIsTrue
<1> QED BY <1>10, <1>11, <1>12, <1>13, <1>14, <1>15 DEF IInv

LEMMA LoopEndsStep == ASSUME IInv, LoopEnds PROVE IInv'
<1> DEFINE n == Len(frames)
           R == [path : Path, todo : SUBSET Move]
<1>1. /\ pc = "loop" /\ Top.todo = {}
      /\ frames' = SubSeq(frames, 1, n - 1) /\ path' = Top.path /\ pc' = Resume(n - 1)
      /\ request' = request /\ expired' = expired /\ limit' = limit /\ tasks' = tasks /\ answer' = answer
    BY DEF LoopEnds
<1>2. frames \in Seq(R) /\ frames # <<>>
    BY <1>1 DEF IInv, TypeOK
<1>3. n \in Nat /\ n \in 1 .. n /\ Top = frames[n] /\ n - 1 \in Nat
    BY <1>2 DEF Top
<1>4. Top.path \in Path
    <2>1. Top \in R
        BY <1>3, Facts DEF IInv
    <2> QED BY <2>1
<1>5. /\ frames' \in Seq(R) /\ Len(frames') = n - 1
      /\ \A i \in 1 .. n - 1 : frames'[i] = frames[i]
    <2> HIDE DEF R
    <2>1. 1 \in 1 .. n + 1 /\ n - 1 \in 1 - 1 .. n
        BY <1>3
    <2>2. /\ SubSeq(frames, 1, n - 1) \in Seq(R) /\ Len(SubSeq(frames, 1, n - 1)) = n - 1
          /\ \A i \in 1 .. n - 1 : SubSeq(frames, 1, n - 1)[i] = frames[i]
        BY <1>2, <1>3, <2>1
    <2> QED BY <1>1, <2>2
<1>6. /\ pc' \in {"task", "loop"}
      /\ pc' = "task" => frames' = <<>>
      /\ pc' = "loop" => frames' # <<>>
    <2> HIDE DEF R
    <2>1. /\ frames' = <<>> <=> n - 1 = 0
        BY <1>3, <1>5
    <2> QED BY <1>1, <1>3, <2>1 DEF Resume
<1>7. TypeOK'
    BY <1>1, <1>4, <1>5, <1>6 DEF IInv, TypeOK
<1>8. StackEmpties'
    BY <1>6 DEF StackEmpties
<1>9. PathsFit'
    <2>1. ASSUME NEW i \in 1 .. Len(frames'), NEW k \in frames'[i].todo
          PROVE  Len(frames'[i].path) + 1 <= limit'
        <3>1. i \in 1 .. n /\ frames'[i] = frames[i]
            BY <1>3, <1>5
        <3>2. Len(frames[i].path) + 1 <= limit
            BY <2>1, <3>1 DEF IInv, PathsFit
        <3> QED BY <1>1, <3>1, <3>2
    <2> QED BY <1>1, <1>6, <2>1 DEF IInv, PathsFit
<1>10. NoneIsShorter'
    BY <1>1 DEF IInv, NoneIsShorter
<1>11. NothingIsLost'
    <2>1. SUFFICES ASSUME request.start \in Within(limit) PROVE SomethingIsOpen'
        BY <1>1 DEF NothingIsLost
    <2>2. SomethingIsOpen
        BY <1>1, <2>1 DEF IInv, NothingIsLost
    <2>3. CASE \E t \in tasks : Open(request.start, limit, t)
        BY <1>1, <2>3 DEF SomethingIsOpen
    <2>4. CASE \E i \in 1 .. Len(frames) : \E k \in frames[i].todo :
                  Open(request.start, limit, Append(frames[i].path, k))
        <3>0. PICK i \in 1 .. n : \E k \in frames[i].todo :
                    Open(request.start, limit, Append(frames[i].path, k))
            BY <2>4
        <3>1. PICK k \in frames[i].todo : Open(request.start, limit, Append(frames[i].path, k))
            BY <3>0
        <3>2. i # n
            BY <1>1, <1>3, <3>1
        <3>3. i \in 1 .. Len(frames') /\ frames'[i] = frames[i]
            BY <1>3, <1>5, <3>1, <3>2
        <3>4. k \in frames'[i].todo /\ Open(request'.start, limit', Append(frames'[i].path, k))
            BY <1>1, <3>1, <3>3
        <3> QED BY <3>3, <3>4 DEF SomethingIsOpen
    <2> QED BY <1>1, <2>2, <2>3, <2>4 DEF SomethingIsOpen
<1>12. AnswerIsOptimal' /\ DepthLimitIsTrue'
    BY <1>1 DEF IInv, AnswerIsOptimal, DepthLimitIsTrue
<1> QED BY <1>7, <1>8, <1>9, <1>10, <1>11, <1>12 DEF IInv

\* The steps that leave all but expired alone.
LEMMA QuietStep ==
    ASSUME IInv, expired' \in BOOLEAN,
           UNCHANGED <<request, limit, tasks, path, frames, pc, answer>>
    PROVE  IInv'
<1>1. TypeOK'
    BY DEF IInv, TypeOK
<1>2. StackEmpties' /\ PathsFit'
    BY DEF IInv, StackEmpties, PathsFit
<1>3. NoneIsShorter' /\ NothingIsLost'
    BY DEF IInv, NoneIsShorter, NothingIsLost, SomethingIsOpen
<1>4. AnswerIsOptimal' /\ DepthLimitIsTrue'
    BY DEF IInv, AnswerIsOptimal, DepthLimitIsTrue
<1> QED BY <1>1, <1>2, <1>3, <1>4 DEF IInv

LEMMA Initially == ASSUME Init PROVE IInv
<1>1. /\ request \in Requests /\ expired = FALSE /\ limit = Bound[request.start] /\ tasks = {}
      /\ path = <<>> /\ frames = <<>> /\ pc = "limit" /\ answer = Running
    BY DEF Init
<1>2. request.start \in Cube /\ limit \in Nat
    BY <1>1, RequestFields, SearchAssumption
<1>3. <<>> \in Path
    BY <1>2, AfterEmpty
<1>4. TypeOK
    <2>1. frames \in Seq([path : Path, todo : SUBSET Move])
        BY <1>1
    <2>2. answer \in [status : {"running", "Optimal", "Timeout", "DepthLimitExceeded"}, moves : Path]
        BY <1>1, <1>3
    <2> QED BY <1>1, <1>2, <1>3, <2>1, <2>2 DEF TypeOK
<1>5. StackEmpties /\ PathsFit
    BY <1>1 DEF StackEmpties, PathsFit
<1>6. NoneIsShorter
    BY <1>1, <1>2, BoundAssumption DEF NoneIsShorter
<1>7. NothingIsLost
    BY <1>1 DEF NothingIsLost
<1>8. AnswerIsOptimal /\ DepthLimitIsTrue
    BY <1>1 DEF AnswerIsOptimal, DepthLimitIsTrue
<1> QED BY <1>4, <1>5, <1>6, <1>7, <1>8 DEF IInv

LEMMA Inductive == ASSUME IInv, [Next]_vars PROVE IInv'
<1>1. CASE BeginIteration
    BY <1>1, BeginIterationStep
<1>2. CASE DepthExhausted
    BY <1>2, DepthExhaustedStep
<1>3. CASE NextTask
    BY <1>3, NextTaskStep
<1>4. CASE EndIteration
    BY <1>4, EndIterationStep
<1>5. CASE VisitExpired
    <2>1. Return("Timeout", <<>>) /\ <<>> \in Path
        BY <1>5, AfterEmpty, Facts DEF VisitExpired, IInv
    <2> QED BY <2>1, Returning
<1>6. CASE VisitSolved
    <2>1. pc = "visit" /\ After(request.start, path) = Solved /\ Return("Optimal", path)
        BY <1>6 DEF VisitSolved, Here
    <2>2. path \in Path /\ Len(path) <= limit
        BY <2>1, Facts DEF IInv, PathsFit
    <2> QED BY <2>1, <2>2, Solving
<1>7. CASE VisitGoalTable
    BY <1>7, VisitGoalTableStep
<1>8. CASE Visit
    BY <1>8, VisitStep
<1>9. CASE TryMove
    BY <1>9, TryMoveStep
<1>10. CASE LoopEnds
    BY <1>10, LoopEndsStep
<1>11. CASE DeadlineExpires
    BY <1>11, QuietStep DEF DeadlineExpires
<1>12. CASE UNCHANGED vars
    BY <1>12, QuietStep DEF vars, IInv, TypeOK
<1> QED BY <1>1, <1>2, <1>3, <1>4, <1>5, <1>6, <1>7, <1>8, <1>9, <1>10, <1>11, <1>12 DEF Next, Step

LEMMA InvariantHolds == Spec => []IInv
BY Initially, Inductive, PTL DEF Spec

-----------------------------------------------------------------------------
(* The theorems. *)

\* Type correctness of the search's state, as the loops of dfs keep it.
THEOREM TypeCorrect == Spec => []TypeOK
<1>1. IInv => TypeOK
    BY DEF IInv
<1> QED BY <1>1, InvariantHolds, PTL

\* "Optimal" is true: no solution is shorter than the one dfs returns, for every puzzle whose turns
\* merge and commute as isRedundant takes for granted, every admissible bound, every goal table and
\* every split.
THEOREM OptimalIsTrue == Spec => []AnswerIsOptimal
<1>1. IInv => AnswerIsOptimal
    BY DEF IInv
<1> QED BY <1>1, InvariantHolds, PTL

\* "DepthLimitExceeded" is true: no solution of maxDepth moves or fewer exists.
THEOREM DepthLimitIsProof == Spec => []DepthLimitIsTrue
<1>1. IInv => DepthLimitIsTrue
    BY DEF IInv
<1> QED BY <1>1, InvariantHolds, PTL
=============================================================================
