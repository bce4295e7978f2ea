---------------------------- MODULE PuzzleProofs ----------------------------
(***************************************************************************)
(* What the searches need of a puzzle, for every puzzle: where a path of   *)
(* moves leads, which cubes are near the goal, and that the canonical      *)
(* order of the moves loses no shortest way.                               *)
(***************************************************************************)
EXTENDS Puzzle, WellFoundedInduction, TLAPS

-----------------------------------------------------------------------------
(* Recursion over the natural numbers. *)

LEMMA LeastNatural ==
    ASSUME NEW S \in SUBSET Nat, S # {}
    PROVE  \E m \in S : \A k \in S : m <= k
<1> DEFINE Less == OpToRel(<, Nat)
<1>1. IsWellFoundedOn(Less, Nat)
    BY NatLessThanWellFounded
<1>2. \A k, m \in Nat : k < m => <<k, m>> \in Less
    BY DEF OpToRel
<1> HIDE DEF Less
<1>3. \E m \in S : \A k \in S : ~(<<k, m>> \in Less)
    BY <1>1, WFMin
<1>4. PICK m \in S : \A k \in S : ~(<<k, m>> \in Less)
    BY <1>3
<1>5. \A k \in S : ~(k < m)
    BY <1>2, <1>4
<1>6. \A k \in S : m <= k
    BY <1>5
<1> QED BY <1>4, <1>6

\* f follows the steps from z, as far as n.
StepsThrough(f, z, step, n) ==
    /\ f[0] = z
    /\ \A k \in 0 .. n - 1 : f[k + 1] = step[k][f[k]]

LEMMA FollowersAgree ==
    ASSUME NEW f, NEW g, NEW z, NEW step, NEW n \in Nat, NEW m \in Nat,
           StepsThrough(f, z, step, n), StepsThrough(g, z, step, m)
    PROVE  \A k \in Nat : k <= n /\ k <= m => f[k] = g[k]
<1> DEFINE Bad == {k \in Nat : k <= n /\ k <= m /\ f[k] # g[k]}
<1>1. CASE Bad = {}
    BY <1>1
<1>2. CASE Bad # {}
    <2>1. PICK k \in Bad : \A j \in Bad : k <= j
        BY <1>2, LeastNatural
    <2>2. k \in Nat /\ k <= n /\ k <= m /\ f[k] # g[k]
        BY <2>1
    <2>3. k # 0
        BY <2>2 DEF StepsThrough
    <2>4. k - 1 \in Nat /\ k - 1 \in 0 .. n - 1 /\ k - 1 \in 0 .. m - 1 /\ (k - 1) + 1 = k
        BY <2>2, <2>3
    <2>5. f[k - 1] = g[k - 1]
        BY <2>1, <2>2, <2>4
    <2>6. f[k] = step[k - 1][f[k - 1]] /\ g[k] = step[k - 1][g[k - 1]]
        BY <2>4 DEF StepsThrough
    <2> QED BY <2>2, <2>5, <2>6
<1> QED BY <1>1, <1>2

LEMMA FollowersExist ==
    ASSUME NEW S, NEW z \in S, NEW step \in [Nat -> [S -> S]], NEW n \in Nat
    PROVE  \E f \in [0 .. n -> S] : StepsThrough(f, z, step, n)
<1> DEFINE Some(k) == \E f \in [0 .. k -> S] : StepsThrough(f, z, step, k)
           Bad == {k \in Nat : ~Some(k)}
<1>1. CASE Bad = {}
    BY <1>1
<1>2. CASE Bad # {}
    <2>1. PICK k \in Bad : \A j \in Bad : k <= j
        BY <1>2, LeastNatural
    <2>2. k \in Nat /\ ~Some(k)
        BY <2>1
    <2>3. CASE k = 0
        <3> DEFINE f == [i \in 0 .. 0 |-> z]
        <3>1. f \in [0 .. k -> S] /\ StepsThrough(f, z, step, k)
            BY <2>3 DEF StepsThrough
        <3> QED BY <2>2, <3>1
    <2>4. CASE k # 0
        <3>1. k - 1 \in Nat /\ k - 1 < k
            BY <2>2, <2>4
        <3>2. Some(k - 1)
            BY <2>1, <2>2, <3>1
        <3>3. PICK f \in [0 .. k - 1 -> S] : StepsThrough(f, z, step, k - 1)
            BY <3>2
        <3> DEFINE g == [i \in 0 .. k |-> IF i = k THEN step[k - 1][f[k - 1]] ELSE f[i]]
        <3>4. f[k - 1] \in S /\ step[k - 1] \in [S -> S]
            BY <3>1
        <3>5. g \in [0 .. k -> S]
            BY <2>2, <3>1, <3>4
        <3>6. g[0] = z
            BY <2>2, <2>4, <3>3 DEF StepsThrough
        <3>7. ASSUME NEW i \in 0 .. k - 1 PROVE g[i + 1] = step[i][g[i]]
            <4>1. CASE i = k - 1
                BY <2>2, <3>1, <4>1
            <4>2. CASE i # k - 1
                BY <2>2, <3>3, <4>2 DEF StepsThrough
            <4> QED BY <4>1, <4>2
        <3>8. StepsThrough(g, z, step, k)
            BY <3>6, <3>7 DEF StepsThrough
        <3> HIDE DEF g
        <3> QED BY <2>2, <3>5, <3>8
    <2> QED BY <2>3, <2>4
<1> QED BY <1>1, <1>2

\* g starts at z and follows the steps for ever.
Recurs(g, S, z, step) ==
    /\ g \in [Nat -> S]
    /\ g[0] = z
    /\ \A n \in Nat : g[n + 1] = step[n][g[n]]

LEMMA Recursion ==
    ASSUME NEW S, NEW z \in S, NEW step \in [Nat -> [S -> S]]
    PROVE  \E g : Recurs(g, S, z, step)
<1> DEFINE F(n) == CHOOSE f : f \in [0 .. n -> S] /\ StepsThrough(f, z, step, n)
           g == [n \in Nat |-> F(n)[n]]
<1>1. ASSUME NEW n \in Nat PROVE F(n) \in [0 .. n -> S] /\ StepsThrough(F(n), z, step, n)
    BY FollowersExist
<1> HIDE DEF F
<1>2. g \in [Nat -> S]
    BY <1>1
<1>3. g[0] = z
    BY <1>1 DEF StepsThrough
<1>4. ASSUME NEW n \in Nat PROVE g[n + 1] = step[n][g[n]]
    <2>1. F(n + 1)[n] = F(n)[n]
        BY <1>1, FollowersAgree
    <2>2. F(n + 1)[n + 1] = step[n][F(n + 1)[n]]
        <3>1. n + 1 \in Nat /\ n \in 0 .. (n + 1) - 1
            OBVIOUS
        <3> QED BY <1>1, <3>1 DEF StepsThrough
    <2> QED BY <2>1, <2>2
<1>5. Recurs(g, S, z, step)
    BY <1>2, <1>3, <1>4 DEF Recurs
<1> QED BY <1>5

-----------------------------------------------------------------------------
(* Where a path leads. *)

\* s are the cubes along p from c.
Along(s, c, p) ==
    /\ s \in [0 .. Len(p) -> Cube]
    /\ s[0] = c
    /\ \A i \in 1 .. Len(p) : s[i] = Moved[s[i - 1]][p[i]]

LEMMA PathMoves ==
    ASSUME NEW p \in Path
    PROVE  /\ Len(p) \in Nat
           /\ \A i \in 1 .. Len(p) : p[i] \in Move
BY DEF Path

LEMMA AlongExists ==
    ASSUME NEW c \in Cube, NEW p \in Path
    PROVE  \E s : Along(s, c, p)
<1> DEFINE step == [n \in Nat |-> [x \in Cube |-> IF n + 1 \in 1 .. Len(p) THEN Moved[x][p[n + 1]] ELSE x]]
<1>1. step \in [Nat -> [Cube -> Cube]]
    BY PathMoves, PuzzleAssumption
<1> HIDE DEF step
<1>0. PICK g : Recurs(g, Cube, c, step)
    BY <1>1, Recursion
<1> USE DEF step
<1>2. g \in [Nat -> Cube] /\ g[0] = c /\ \A n \in Nat : g[n + 1] = step[n][g[n]]
    BY <1>0 DEF Recurs
<1> DEFINE s == [i \in 0 .. Len(p) |-> g[i]]
<1>3. s \in [0 .. Len(p) -> Cube] /\ s[0] = c
    <2>1. 0 \in 0 .. Len(p) /\ \A i \in 0 .. Len(p) : i \in Nat
        BY PathMoves
    <2>2. g \in [Nat -> Cube] /\ g[0] = c
        BY <1>2
    <2> QED BY <2>1, <2>2
<1>4. ASSUME NEW i \in 1 .. Len(p) PROVE s[i] = Moved[s[i - 1]][p[i]]
    <2>1. i - 1 \in Nat /\ (i - 1) + 1 = i /\ i - 1 \in 0 .. Len(p) /\ i \in 0 .. Len(p)
        BY PathMoves
    <2>2. g[(i - 1) + 1] = step[i - 1][g[i - 1]]
        BY <1>2, <2>1
    <2>3. g[i - 1] \in Cube
        BY <1>2, <2>1
    <2> QED BY <2>1, <2>2, <2>3
<1>5. Along(s, c, p)
    BY <1>3, <1>4 DEF Along
<1> QED BY <1>5

LEMMA AlongAfter ==
    ASSUME NEW c \in Cube, NEW p \in Path, NEW s, Along(s, c, p)
    PROVE  After(c, p) = s[Len(p)]
<1> DEFINE Fold(f) == [i \in 0 .. Len(p) |-> IF i = 0 THEN c ELSE Moved[f[i - 1]][p[i]]]
           after == CHOOSE f : f = Fold(f)
<1>1. After(c, p) = after[Len(p)]
    BY DEF After
<1>2. s = Fold(s)
    <2>1. \A i \in 0 .. Len(p) : i # 0 => i \in 1 .. Len(p)
        BY PathMoves
    <2>2. \A i \in 0 .. Len(p) : s[i] = IF i = 0 THEN c ELSE Moved[s[i - 1]][p[i]]
        BY <2>1 DEF Along
    <2>3. s = [i \in 0 .. Len(p) |-> s[i]]
        BY DEF Along
    <2> QED BY <2>2, <2>3
<1>3. after = Fold(after)
    BY <1>2
<1> HIDE DEF after
<1> DEFINE step == [n \in Nat |-> [x \in Cube |-> IF n + 1 \in 1 .. Len(p) THEN Moved[x][p[n + 1]] ELSE x]]
           Bad == {k \in Nat : k <= Len(p) /\ after[k] # s[k]}
<1>4. CASE Bad = {}
    BY <1>1, <1>4, PathMoves
<1>5. CASE Bad # {}
    <2>1. PICK k \in Bad : \A j \in Bad : k <= j
        BY <1>5, LeastNatural
    <2>2. k \in Nat /\ k <= Len(p) /\ after[k] # s[k]
        BY <2>1
    <2>3. k \in 0 .. Len(p)
        BY <2>2, PathMoves
    <2>4. after[k] = IF k = 0 THEN c ELSE Moved[after[k - 1]][p[k]]
        BY <1>3, <2>3
    <2>5. k # 0
        BY <2>2, <2>4 DEF Along
    <2>6. k - 1 \in Nat /\ k - 1 < k /\ k - 1 <= Len(p) /\ k \in 1 .. Len(p)
        BY <2>2, <2>5, PathMoves
    <2>7. after[k - 1] = s[k - 1]
        BY <2>1, <2>2, <2>6
    <2> QED BY <2>2, <2>4, <2>5, <2>6, <2>7 DEF Along
<1> QED BY <1>4, <1>5

LEMMA AfterIsCube ==
    ASSUME NEW c \in Cube, NEW p \in Path
    PROVE  After(c, p) \in Cube
<1>1. PICK s : Along(s, c, p)
    BY AlongExists
<1> QED BY <1>1, AlongAfter, PathMoves DEF Along

LEMMA AfterEmpty ==
    ASSUME NEW c \in Cube
    PROVE  <<>> \in Path /\ After(c, <<>>) = c
<1>1. <<>> \in Path /\ Len(<<>>) = 0
    BY DEF Path
<1>2. PICK s : Along(s, c, <<>>)
    BY <1>1, AlongExists
<1> QED BY <1>1, <1>2, AlongAfter DEF Along

LEMMA AfterConcat ==
    ASSUME NEW c \in Cube, NEW p \in Path, NEW q \in Path
    PROVE  /\ p \o q \in Path /\ Len(p \o q) = Len(p) + Len(q)
           /\ After(c, p \o q) = After(After(c, p), q)
<1>1. /\ p \o q \in Path /\ Len(p \o q) = Len(p) + Len(q)
      /\ \A i \in 1 .. Len(p) + Len(q) : (p \o q)[i] = IF i <= Len(p) THEN p[i] ELSE q[i - Len(p)]
    BY DEF Path
<1>2. PICK s : Along(s, c, p)
    BY AlongExists
<1>3. After(c, p) = s[Len(p)] /\ After(c, p) \in Cube
    BY <1>2, AlongAfter, AfterIsCube
<1>4. PICK t : Along(t, After(c, p), q)
    BY <1>3, AlongExists
<1>5. After(After(c, p), q) = t[Len(q)]
    BY <1>3, <1>4, AlongAfter
<1> DEFINE m == Len(p)
           n == Len(q)
           u == [i \in 0 .. m + n |-> IF i <= m THEN s[i] ELSE t[i - m]]
<1>6. m \in Nat /\ n \in Nat
    BY PathMoves
<1>7. s \in [0 .. m -> Cube] /\ t \in [0 .. n -> Cube]
    BY <1>2, <1>4 DEF Along
<1>8. u \in [0 .. m + n -> Cube]
    BY <1>6, <1>7
<1>9. u[0] = c
    BY <1>2, <1>6 DEF Along
<1>10. ASSUME NEW i \in 1 .. m + n PROVE u[i] = Moved[u[i - 1]][(p \o q)[i]]
    <2>1. CASE i <= m
        <3>1. i \in 1 .. m /\ i - 1 <= m /\ i \in 0 .. m + n /\ i - 1 \in 0 .. m + n
            BY <1>6, <2>1
        <3>2. s[i] = Moved[s[i - 1]][p[i]]
            BY <1>2, <3>1 DEF Along
        <3> QED BY <1>1, <2>1, <3>1, <3>2
    <2>2. CASE i > m
        <3>1. i - m \in 1 .. n /\ i \in 0 .. m + n /\ i - 1 \in 0 .. m + n /\ ~(i <= m)
            BY <1>6, <2>2
        <3>2. t[i - m] = Moved[t[(i - m) - 1]][q[i - m]]
            BY <1>4, <3>1 DEF Along
        <3>3. u[i - 1] = t[(i - m) - 1]
            <4>1. CASE i - 1 = m
                <5>1. (i - m) - 1 = 0 /\ i - 1 <= m
                    BY <1>6, <4>1
                <5>2. u[i - 1] = s[m]
                    BY <3>1, <4>1, <5>1
                <5> QED BY <1>3, <1>4, <5>1, <5>2 DEF Along
            <4>2. CASE i - 1 # m
                <5>1. ~(i - 1 <= m) /\ (i - 1) - m = (i - m) - 1
                    BY <1>6, <2>2, <4>2
                <5> QED BY <3>1, <5>1
            <4> QED BY <4>1, <4>2
        <3>4. u[i] = t[i - m]
            BY <3>1
        <3>5. (p \o q)[i] = q[i - m]
            BY <1>1, <3>1
        <3> QED BY <3>2, <3>3, <3>4, <3>5
    <2> QED BY <1>6, <2>1, <2>2
<1>11. u[m + n] = t[n]
    <2>1. CASE n = 0
        <3>1. u[m + n] = s[m]
            BY <1>6, <2>1
        <3> QED BY <1>3, <1>4, <2>1, <3>1 DEF Along
    <2>2. CASE n # 0
        BY <1>6, <2>2
    <2> QED BY <2>1, <2>2
<1> HIDE DEF u
<1>12. Along(u, c, p \o q)
    BY <1>1, <1>8, <1>9, <1>10 DEF Along
<1>13. After(c, p \o q) = u[Len(p \o q)]
    BY <1>1, <1>12, AlongAfter
<1> QED BY <1>1, <1>5, <1>11, <1>13

LEMMA AfterOne ==
    ASSUME NEW c \in Cube, NEW m \in Move
    PROVE  <<m>> \in Path /\ After(c, <<m>>) = Moved[c][m] /\ Moved[c][m] \in Cube
<1>1. <<m>> \in Path /\ Len(<<m>>) = 1 /\ <<m>>[1] = m
    BY DEF Path
<1>2. PICK s : Along(s, c, <<m>>)
    BY <1>1, AlongExists
<1>3. After(c, <<m>>) = s[1]
    BY <1>1, <1>2, AlongAfter
<1>4. 1 \in 1 .. 1 /\ 1 - 1 = 0
    OBVIOUS
<1>5. s[1] = Moved[s[0]][m] /\ s[0] = c
    BY <1>1, <1>2, <1>4 DEF Along
<1> QED BY <1>1, <1>3, <1>5, PuzzleAssumption

LEMMA AfterAppend ==
    ASSUME NEW c \in Cube, NEW p \in Path, NEW m \in Move
    PROVE  /\ Append(p, m) \in Path /\ Len(Append(p, m)) = Len(p) + 1
           /\ Append(p, m) # <<>>
           /\ Append(p, m)[Len(Append(p, m))] = m
           /\ After(c, Append(p, m)) = Moved[After(c, p)][m]
<1>1. Append(p, m) = p \o <<m>>
    BY DEF Path
<1>2. After(c, p) \in Cube /\ <<m>> \in Path
    BY AfterIsCube, AfterOne
<1>3. After(c, p \o <<m>>) = Moved[After(c, p)][m]
    BY <1>2, AfterConcat, AfterOne
<1>4. /\ Append(p, m) \in Path /\ Len(Append(p, m)) = Len(p) + 1 /\ Append(p, m) # <<>>
      /\ Append(p, m)[Len(p) + 1] = m
    BY DEF Path
<1> QED BY <1>1, <1>3, <1>4

\* A path and what follows its first move.
LEMMA AfterFirst ==
    ASSUME NEW c \in Cube, NEW p \in Path, p # <<>>
    PROVE  /\ p[1] \in Move /\ Tail(p) \in Path /\ Len(Tail(p)) = Len(p) - 1
           /\ \A i \in 1 .. Len(Tail(p)) : Tail(p)[i] = p[i + 1]
           /\ After(c, p) = After(Moved[c][p[1]], Tail(p))
<1>1. /\ p[1] \in Move /\ Tail(p) \in Path /\ Len(Tail(p)) = Len(p) - 1
      /\ p = <<p[1]>> \o Tail(p)
      /\ \A i \in 1 .. Len(Tail(p)) : Tail(p)[i] = p[i + 1]
    BY DEF Path
<1>2. After(c, <<p[1]>> \o Tail(p)) = After(Moved[c][p[1]], Tail(p))
    BY <1>1, AfterConcat, AfterOne
<1> QED BY <1>1, <1>2

-----------------------------------------------------------------------------
(* The cubes near a goal. *)

\* The cubes one of the moves further out.
Around(goal, moves) == {Moved[c][InverseOf[m]] : c \in goal, m \in moves}

LEMMA AroundIsCubes ==
    ASSUME NEW goal \in SUBSET Cube, NEW moves \in SUBSET Move
    PROVE  Around(goal, moves) \in SUBSET Cube
BY PuzzleAssumption DEF Around

LEMMA BallSteps ==
    ASSUME NEW goal \in SUBSET Cube, NEW moves \in SUBSET Move
    PROVE  /\ Ball(goal, moves, 0) = goal
           /\ \A n \in Nat :
                 /\ Ball(goal, moves, n) \in SUBSET Cube
                 /\ Ball(goal, moves, n + 1) = Ball(goal, moves, n) \cup Around(Ball(goal, moves, n), moves)
<1> DEFINE grown(S) == S \cup Around(S, moves)
           step == [n \in Nat |-> [S \in SUBSET Cube |-> grown(S)]]
<1>1. step \in [Nat -> [SUBSET Cube -> SUBSET Cube]]
    BY AroundIsCubes
<1> HIDE DEF step
<1>0. PICK g : Recurs(g, SUBSET Cube, goal, step)
    BY <1>1, Recursion
<1> USE DEF step
<1>2. g \in [Nat -> SUBSET Cube] /\ g[0] = goal /\ \A n \in Nat : g[n + 1] = step[n][g[n]]
    BY <1>0 DEF Recurs
<1>3. \A n \in Nat : g[n + 1] = g[n] \cup Around(g[n], moves)
    BY <1>2
<1> HIDE DEF step
<1>4. ASSUME NEW n \in Nat PROVE Ball(goal, moves, n) = g[n]
    <2> DEFINE Fold(f) == [k \in 0 .. n |-> IF k = 0 THEN goal ELSE f[k - 1] \cup Around(f[k - 1], moves)]
               Folds(f) == f = Fold(f)
               ball == CHOOSE f : Folds(f)
               h == [k \in 0 .. n |-> g[k]]
    <2>1. Ball(goal, moves, n) = ball[n]
        BY DEF Ball, Around
    <2>2. Folds(h)
        <3>1. ASSUME NEW k \in 0 .. n, k # 0 PROVE h[k] = h[k - 1] \cup Around(h[k - 1], moves)
            <4>1. k - 1 \in Nat /\ (k - 1) + 1 = k /\ k - 1 \in 0 .. n
                BY <3>1
            <4> QED BY <1>3, <4>1
        <3>2. \A k \in 0 .. n : h[k] = IF k = 0 THEN goal ELSE h[k - 1] \cup Around(h[k - 1], moves)
            BY <1>2, <3>1
        <3> QED BY <3>2
    <2>3. Folds(ball)
        <3> HIDE DEF Folds, h
        <3> QED BY <2>2
    <2> HIDE DEF ball
    <2>4. \A k \in 0 .. n : ball[k] = IF k = 0 THEN goal ELSE ball[k - 1] \cup Around(ball[k - 1], moves)
        BY <2>3
    <2> DEFINE Bad == {k \in Nat : k <= n /\ ball[k] # g[k]}
    <2>5. CASE Bad = {}
        BY <2>1, <2>5
    <2>6. CASE Bad # {}
        <3>1. PICK k \in Bad : \A j \in Bad : k <= j
            BY <2>6, LeastNatural
        <3>2. k \in Nat /\ k <= n /\ ball[k] # g[k] /\ k \in 0 .. n
            BY <3>1
        <3>3. k # 0
            BY <1>2, <2>4, <3>2
        <3>4. k - 1 \in Nat /\ k - 1 < k /\ k - 1 <= n /\ (k - 1) + 1 = k
            BY <3>2, <3>3
        <3>5. ball[k - 1] = g[k - 1]
            BY <3>1, <3>2, <3>4
        <3> QED BY <1>3, <2>4, <3>2, <3>3, <3>4, <3>5
    <2> QED BY <2>5, <2>6
<1>5. \A n \in Nat : g[n] \in SUBSET Cube
    BY <1>2
<1> QED BY <1>2, <1>3, <1>4, <1>5

LEMMA BallGrows ==
    ASSUME NEW goal \in SUBSET Cube, NEW moves \in SUBSET Move, NEW k \in Nat, NEW n \in Nat, k <= n
    PROVE  Ball(goal, moves, k) \subseteq Ball(goal, moves, n)
<1> DEFINE B(i) == Ball(goal, moves, i)
           Bad == {i \in Nat : k <= i /\ ~(B(k) \subseteq B(i))}
<1>1. \A i \in Nat : B(i) \subseteq B(i + 1)
    BY BallSteps
<1> HIDE DEF B
<1>2. CASE Bad = {}
    BY <1>2 DEF B
<1>3. CASE Bad # {}
    <2>1. PICK i \in Bad : \A j \in Bad : i <= j
        BY <1>3, LeastNatural
    <2>2. i \in Nat /\ k <= i /\ ~(B(k) \subseteq B(i))
        BY <2>1
    <2>3. i # k
        BY <2>2
    <2>4. i - 1 \in Nat /\ k <= i - 1 /\ i - 1 < i /\ (i - 1) + 1 = i
        BY <2>2, <2>3
    <2>5. B(k) \subseteq B(i - 1)
        BY <2>1, <2>2, <2>4
    <2>6. B(i - 1) \subseteq B(i)
        BY <1>1, <2>4
    <2> QED BY <2>2, <2>5, <2>6
<1> QED BY <1>2, <1>3

LEMMA BallMonotone ==
    ASSUME NEW goal \in SUBSET Cube, NEW moves \in SUBSET Move,
           NEW more \in SUBSET Cube, NEW others \in SUBSET Move, goal \subseteq more, moves \subseteq others,
           NEW n \in Nat
    PROVE  Ball(goal, moves, n) \subseteq Ball(more, others, n)
<1> DEFINE B(i) == Ball(goal, moves, i)
           C(i) == Ball(more, others, i)
           Bad == {i \in Nat : ~(B(i) \subseteq C(i))}
<1>1. B(0) = goal /\ \A i \in Nat : B(i + 1) = B(i) \cup Around(B(i), moves)
    <2> HIDE DEF B
    <2>1. B(0) = goal
        BY BallSteps DEF B
    <2>2. ASSUME NEW i \in Nat PROVE B(i + 1) = B(i) \cup Around(B(i), moves)
        BY BallSteps DEF B
    <2> QED BY <2>1, <2>2
<1>2. C(0) = more /\ \A i \in Nat : C(i + 1) = C(i) \cup Around(C(i), others)
    <2> HIDE DEF C
    <2>1. C(0) = more
        BY BallSteps DEF C
    <2>2. ASSUME NEW i \in Nat PROVE C(i + 1) = C(i) \cup Around(C(i), others)
        BY BallSteps DEF C
    <2> QED BY <2>1, <2>2
<1> HIDE DEF B, C
<1>3. CASE Bad = {}
    BY <1>3 DEF B, C
<1>4. CASE Bad # {}
    <2>1. PICK i \in Bad : \A j \in Bad : i <= j
        BY <1>4, LeastNatural
    <2>2. i \in Nat /\ ~(B(i) \subseteq C(i))
        BY <2>1
    <2>3. i # 0
        BY <1>1, <1>2, <2>2
    <2>4. i - 1 \in Nat /\ i - 1 < i /\ (i - 1) + 1 = i
        BY <2>2, <2>3
    <2>5. B(i - 1) \subseteq C(i - 1)
        BY <2>1, <2>2, <2>4
    <2>6. Around(B(i - 1), moves) \subseteq Around(C(i - 1), others)
        BY <2>5 DEF Around
    <2>7. B((i - 1) + 1) = B(i - 1) \cup Around(B(i - 1), moves)
        BY <1>1, <2>4
    <2>8. C((i - 1) + 1) = C(i - 1) \cup Around(C(i - 1), others)
        BY <1>2, <2>4
    <2> QED BY <2>2, <2>4, <2>5, <2>6, <2>7, <2>8
<1> QED BY <1>3, <1>4

\* A cube is within n + 1 of the moves if one of them takes it within n.
LEMMA NearerFirst ==
    ASSUME NEW goal \in SUBSET Cube, NEW moves \in SUBSET Move,
           NEW c \in Cube, NEW m \in moves, NEW n \in Nat, Moved[c][m] \in Ball(goal, moves, n)
    PROVE  c \in Ball(goal, moves, n + 1)
<1>1. c = Moved[Moved[c][m]][InverseOf[m]]
    BY PuzzleAssumption
<1>2. c \in Around(Ball(goal, moves, n), moves)
    BY <1>1 DEF Around
<1> QED BY <1>2, BallSteps

LEMMA FirstIsNearer ==
    ASSUME NEW goal \in SUBSET Cube, NEW moves \in SUBSET Move, Closed(moves),
           NEW n \in Nat, NEW c \in Ball(goal, moves, n + 1), c \notin Ball(goal, moves, n)
    PROVE  \E m \in moves : Moved[c][m] \in Ball(goal, moves, n)
<1>1. c \in Around(Ball(goal, moves, n), moves) /\ Ball(goal, moves, n) \in SUBSET Cube
    BY BallSteps
<1>2. PICK d \in Ball(goal, moves, n), m \in moves : c = Moved[d][InverseOf[m]]
    BY <1>1 DEF Around
<1>3. InverseOf[m] \in moves /\ InverseOf[InverseOf[m]] \in moves
    BY DEF Closed
<1>4. Moved[Moved[d][InverseOf[m]]][InverseOf[InverseOf[m]]] = d
    BY <1>1, <1>3, PuzzleAssumption
<1> QED BY <1>2, <1>3, <1>4

\* A path of the moves to the goal shows how near a cube is.
LEMMA WayIsNear ==
    ASSUME NEW goal \in SUBSET Cube, NEW moves \in SUBSET Move,
           NEW c \in Cube, NEW p \in Seq(moves), After(c, p) \in goal
    PROVE  c \in Ball(goal, moves, Len(p))
<1> DEFINE Bad == {n \in Nat : \E d \in Cube, q \in Seq(moves) :
                                  Len(q) = n /\ After(d, q) \in goal /\ d \notin Ball(goal, moves, n)}
<1>1. CASE Bad = {}
    BY <1>1
<1>2. CASE Bad # {}
    <2>1. PICK n \in Bad : \A j \in Bad : n <= j
        BY <1>2, LeastNatural
    <2>2. PICK d \in Cube, q \in Seq(moves) : Len(q) = n /\ After(d, q) \in goal /\ d \notin Ball(goal, moves, n)
        BY <2>1
    <2>3. n \in Nat /\ q \in Path
        BY <2>1 DEF Path
    <2>4. q # <<>>
        <3>1. SUFFICES ASSUME q = <<>> PROVE FALSE
            OBVIOUS
        <3>2. Len(q) = 0 /\ After(d, q) = d
            BY <3>1, AfterEmpty
        <3>3. d \in goal /\ d \notin Ball(goal, moves, 0)
            BY <2>2, <3>2
        <3> QED BY <3>3, BallSteps
    <2>5. q[1] \in moves /\ Tail(q) \in Seq(moves) /\ Len(Tail(q)) = n - 1 /\ n - 1 \in Nat
        BY <2>2, <2>3, <2>4
    <2>6. Moved[d][q[1]] \in Cube
        BY <2>5, PuzzleAssumption
    <2>7. After(d, q) = After(Moved[d][q[1]], Tail(q))
        BY <2>3, <2>4, AfterFirst
    <2>8. Moved[d][q[1]] \in Ball(goal, moves, n - 1)
        <3>1. ~(n <= n - 1)
            BY <2>3
        <3>2. n - 1 \notin Bad
            BY <2>1, <3>1
        <3> QED BY <2>2, <2>5, <2>6, <2>7, <3>2
    <2>9. d \in Ball(goal, moves, (n - 1) + 1)
        BY <2>5, <2>8, NearerFirst
    <2> QED BY <2>2, <2>3, <2>9
<1> QED BY <1>1, <1>2

-----------------------------------------------------------------------------
(* The canonical order loses no shortest way. *)

Canonical(p) == \A i \in 1 .. Len(p) - 1 : ~IsRedundant(p[i], p[i + 1])

\* Two turns of a face at the head of a way to the goal are one or none.
LEMMA TurnsMerge ==
    ASSUME NEW goal \in SUBSET Cube, NEW moves \in SUBSET Move, Closed(moves),
           NEW c \in Cube, NEW m \in moves, NEW k \in moves, FaceOf[m] = FaceOf[k],
           NEW p \in Seq(moves), After(Moved[Moved[c][m]][k], p) \in goal
    PROVE  c \in Ball(goal, moves, Len(p) + 1)
<1>1. Len(p) \in Nat
    OBVIOUS
<1>2. CASE Moved[Moved[c][m]][k] = c
    <2>1. c \in Ball(goal, moves, Len(p))
        BY <1>2, WayIsNear
    <2> QED BY <1>1, <2>1, BallSteps
<1>3. CASE \E turn \in moves : Moved[Moved[c][m]][k] = Moved[c][turn]
    <2>1. PICK turn \in moves : Moved[Moved[c][m]][k] = Moved[c][turn]
        BY <1>3
    <2>2. Moved[c][turn] \in Cube
        BY PuzzleAssumption
    <2>3. Moved[c][turn] \in Ball(goal, moves, Len(p))
        BY <2>1, <2>2, WayIsNear
    <2> QED BY <1>1, <2>3, NearerFirst
<1> QED BY <1>2, <1>3 DEF Closed

LEMMA CanonicalExtends ==
    ASSUME NEW moves \in SUBSET Move, NEW m \in moves, NEW p \in Seq(moves), Canonical(p),
           p # <<>> => ~IsRedundant(m, p[1])
    PROVE  /\ <<m>> \o p \in Seq(moves) /\ Len(<<m>> \o p) = Len(p) + 1
           /\ <<m>> \o p # <<>> /\ (<<m>> \o p)[1] = m
           /\ Canonical(<<m>> \o p)
<1> DEFINE q == <<m>> \o p
<1>1. /\ q \in Seq(moves) /\ Len(q) = Len(p) + 1 /\ Len(p) \in Nat /\ q # <<>> /\ q[1] = m
      /\ \A i \in 2 .. Len(p) + 1 : q[i] = p[i - 1]
    OBVIOUS
<1> HIDE DEF q
<1>2. ASSUME NEW i \in 1 .. Len(q) - 1 PROVE ~IsRedundant(q[i], q[i + 1])
    <2>1. i \in 1 .. Len(p) /\ i + 1 \in 2 .. Len(p) + 1 /\ (i + 1) - 1 = i
        BY <1>1
    <2>2. q[i + 1] = p[i]
        BY <1>1, <2>1
    <2>3. CASE i = 1
        <3>1. p # <<>>
            BY <2>1, <2>3
        <3> QED BY <1>1, <2>2, <2>3, <3>1
    <2>4. CASE i # 1
        <3>1. i \in 2 .. Len(p) + 1 /\ i - 1 \in 1 .. Len(p) - 1 /\ (i - 1) + 1 = i
            BY <2>1, <2>4
        <3>2. q[i] = p[i - 1]
            BY <1>1, <3>1
        <3>3. ~IsRedundant(p[i - 1], p[(i - 1) + 1])
            BY <3>1 DEF Canonical
        <3> QED BY <2>2, <3>1, <3>2, <3>3
    <2> QED BY <2>3, <2>4
<1>3. Canonical(q)
    BY <1>2 DEF Canonical
<1> QED BY <1>1, <1>3 DEF q

\* A cube n moves from the goal and no nearer has a canonical way of n moves if a
\* neighbour one move nearer has one.
LEMMA CanonicalStep ==
    ASSUME NEW goal \in SUBSET Cube, NEW moves \in SUBSET Move, Closed(moves),
           NEW c \in Cube, NEW m \in moves, NEW n \in Nat, c \notin Ball(goal, moves, n),
           NEW p \in Seq(moves), Len(p) <= n, After(Moved[c][m], p) \in goal, Canonical(p)
    PROVE  \E q \in Seq(moves) : Len(q) <= n + 1 /\ After(c, q) \in goal /\ Canonical(q)
<1>1. Len(p) \in Nat /\ p \in Path /\ Moved[c][m] \in Cube
    BY PuzzleAssumption DEF Path
<1>2. CASE p # <<>> => ~IsRedundant(m, p[1])
    <2>1. /\ <<m>> \o p \in Seq(moves) /\ Len(<<m>> \o p) <= n + 1 /\ Canonical(<<m>> \o p)
        BY <1>1, <1>2, CanonicalExtends
    <2>2. After(c, <<m>> \o p) \in goal
        BY <1>1, AfterOne, AfterConcat
    <2> QED BY <2>1, <2>2
<1>3. CASE p # <<>> /\ IsRedundant(m, p[1])
    <2> DEFINE k == p[1]
               r == Tail(p)
    <2>1. /\ k \in moves /\ r \in Seq(moves) /\ r \in Path /\ Len(r) = Len(p) - 1 /\ Len(r) \in Nat
          /\ \A i \in 1 .. Len(r) : r[i] = p[i + 1]
        BY <1>1, <1>3 DEF Path
    <2>2. After(Moved[Moved[c][m]][k], r) \in goal
        BY <1>1, <1>3, AfterFirst
    <2>3. ASSUME NEW i \in Nat, i <= n, c \in Ball(goal, moves, i) PROVE FALSE
        BY <2>3, BallGrows
    <2> HIDE DEF k, r
    <2>4. FaceOf[m] # FaceOf[k]
        <3>1. SUFFICES ASSUME FaceOf[m] = FaceOf[k] PROVE FALSE
            OBVIOUS
        <3>2. c \in Ball(goal, moves, Len(r) + 1)
            BY <2>1, <2>2, <3>1, TurnsMerge
        <3>3. Len(r) + 1 \in Nat /\ Len(r) + 1 <= n
            BY <1>1, <2>1
        <3> QED BY <2>3, <3>2, <3>3
    <2>5. AxisOf[FaceOf[m]] = AxisOf[FaceOf[k]] /\ FaceOrder[FaceOf[m]] > FaceOrder[FaceOf[k]]
        BY <1>3, <2>4 DEF IsRedundant, k
    <2>6. FaceOrder[FaceOf[m]] \in {0, 1} /\ FaceOrder[FaceOf[k]] \in {0, 1}
        BY <2>1, PuzzleAssumption
    <2>7. FaceOrder[FaceOf[m]] = 1 /\ FaceOrder[FaceOf[k]] = 0
        BY <2>5, <2>6
    <2>8. Moved[c][k] \in Cube /\ Moved[Moved[c][k]][m] \in Cube
        BY <2>1, PuzzleAssumption
    <2>9. After(Moved[Moved[c][k]][m], r) \in goal
        BY <2>1, <2>2, <2>5, TurnsAssumption
    <2>10. r # <<>> => ~IsRedundant(m, r[1])
        <3>1. SUFFICES ASSUME r # <<>>, IsRedundant(m, r[1]) PROVE FALSE
            OBVIOUS
        <3>2. /\ r[1] \in moves /\ Tail(r) \in Seq(moves) /\ Len(Tail(r)) = Len(r) - 1
              /\ Len(Tail(r)) \in Nat /\ After(Moved[Moved[Moved[c][k]][m]][r[1]], Tail(r)) \in goal
            BY <2>1, <2>8, <2>9, <3>1, AfterFirst
        <3>3. r[1] = p[2] /\ 1 \in 1 .. Len(p) - 1
            BY <2>1, <3>2, <1>1
        <3>4. ~IsRedundant(k, r[1])
            BY <3>3 DEF Canonical, k
        <3>5. FaceOrder[FaceOf[r[1]]] \in {0, 1}
            BY <3>2, PuzzleAssumption
        <3>6. FaceOf[m] = FaceOf[r[1]] \/ AxisOf[FaceOf[m]] = AxisOf[FaceOf[r[1]]]
            BY <3>1 DEF IsRedundant
        <3>7. AxisOf[FaceOf[m]] = AxisOf[FaceOf[r[1]]]
            BY <3>6
        <3>8. FaceOf[k] # FaceOf[r[1]]
            BY <3>4 DEF IsRedundant
        <3>9. FaceOrder[FaceOf[r[1]]] # 0
            <4>1. AxisOf[FaceOf[k]] = AxisOf[FaceOf[r[1]]] /\ k \in Move /\ r[1] \in Move
                BY <2>1, <2>5, <3>2, <3>7
            <4> QED BY <2>7, <3>8, <4>1, TurnsAssumption
        <3>10. FaceOrder[FaceOf[r[1]]] = FaceOrder[FaceOf[m]]
            BY <2>7, <3>5, <3>9
        <3>11. FaceOf[m] = FaceOf[r[1]]
            BY <3>2, <3>7, <3>10, TurnsAssumption
        <3>12. Moved[c][k] \in Ball(goal, moves, Len(Tail(r)) + 1)
            BY <2>8, <3>2, <3>11, TurnsMerge
        <3>13. Len(Tail(r)) + 1 \in Nat
            BY <3>2
        <3>14. c \in Ball(goal, moves, (Len(Tail(r)) + 1) + 1)
            BY <2>1, <3>12, <3>13, NearerFirst
        <3>15. (Len(Tail(r)) + 1) + 1 \in Nat /\ (Len(Tail(r)) + 1) + 1 <= n
            BY <1>1, <2>1, <3>2
        <3> QED BY <2>3, <3>14, <3>15
    <2>11. Canonical(r)
        <3>1. ASSUME NEW i \in 1 .. Len(r) - 1 PROVE ~IsRedundant(r[i], r[i + 1])
            <4>1. i \in 1 .. Len(r) /\ i + 1 \in 1 .. Len(r) /\ i + 1 \in 1 .. Len(p) - 1
                BY <1>1, <2>1
            <4> QED BY <2>1, <4>1 DEF Canonical
        <3> QED BY <3>1 DEF Canonical
    <2> DEFINE s == <<m>> \o r
    <2>12. s \in Seq(moves) /\ s \in Path /\ Len(s) = Len(r) + 1 /\ s # <<>> /\ s[1] = m /\ Canonical(s)
        BY <2>1, <2>10, <2>11, CanonicalExtends DEF Path
    <2>13. After(Moved[c][k], s) \in goal
        BY <2>1, <2>8, <2>9, AfterOne, AfterConcat
    <2> HIDE DEF s
    <2>14. ~IsRedundant(k, m)
        BY <2>4, <2>7 DEF IsRedundant
    <2>15. <<k>> \o s \in Seq(moves) /\ Len(<<k>> \o s) = Len(s) + 1 /\ Canonical(<<k>> \o s)
        BY <2>1, <2>12, <2>14, CanonicalExtends
    <2>16. After(c, <<k>> \o s) \in goal
        BY <2>1, <2>12, <2>13, AfterOne, AfterConcat
    <2>17. Len(<<k>> \o s) <= n + 1
        BY <1>1, <2>1, <2>12, <2>15
    <2> QED BY <2>15, <2>16, <2>17
<1> QED BY <1>2, <1>3

\* isRedundant loses no shortest way: a cube within n of the moves of a goal is within n of them of
\* which none is redundant after the one before, whatever the goal, as long as the moves are closed
\* under inverses and turns of a face.
THEOREM CanonicalWay ==
    ASSUME NEW goal \in SUBSET Cube, NEW moves \in SUBSET Move, Closed(moves),
           NEW n \in Nat, NEW c \in Ball(goal, moves, n)
    PROVE  \E p \in Seq(moves) : Len(p) <= n /\ After(c, p) \in goal /\ Canonical(p)
<1> DEFINE Way(d, k) == \E p \in Seq(moves) : Len(p) <= k /\ After(d, p) \in goal /\ Canonical(p)
           Bad == {k \in Nat : \E d \in Ball(goal, moves, k) : ~Way(d, k)}
<1>1. CASE Bad = {}
    BY <1>1
<1>2. CASE Bad # {}
    <2>1. PICK k \in Bad : \A j \in Bad : k <= j
        BY <1>2, LeastNatural
    <2>2. PICK d \in Ball(goal, moves, k) : ~Way(d, k)
        BY <2>1
    <2>3. k \in Nat /\ d \in Cube
        BY <2>1, BallSteps
    <2>4. k # 0
        <3>1. SUFFICES ASSUME k = 0 PROVE FALSE
            OBVIOUS
        <3>2. d \in goal
            BY <2>2, <3>1, BallSteps
        <3>3. <<>> \in Seq(moves) /\ Len(<<>>) = 0 /\ After(d, <<>>) \in goal /\ Canonical(<<>>)
            BY <2>3, <3>2, AfterEmpty DEF Canonical
        <3>4. Len(<<>>) <= k
            BY <3>1, <3>3
        <3> QED BY <2>2, <3>3, <3>4
    <2>5. k - 1 \in Nat /\ (k - 1) + 1 = k /\ ~(k <= k - 1)
        BY <2>3, <2>4
    <2>6. ASSUME NEW e \in Ball(goal, moves, k - 1) PROVE Way(e, k - 1)
        BY <2>1, <2>5
    <2>7. d \notin Ball(goal, moves, k - 1)
        <3>1. SUFFICES ASSUME d \in Ball(goal, moves, k - 1) PROVE FALSE
            OBVIOUS
        <3>2. PICK p \in Seq(moves) : Len(p) <= k - 1 /\ After(d, p) \in goal /\ Canonical(p)
            BY <2>6, <3>1
        <3>3. Len(p) <= k
            BY <2>5, <3>2
        <3> QED BY <2>2, <3>2, <3>3
    <2>8. PICK m \in moves : Moved[d][m] \in Ball(goal, moves, k - 1)
        BY <2>2, <2>5, <2>7, FirstIsNearer
    <2>9. PICK p \in Seq(moves) : Len(p) <= k - 1 /\ After(Moved[d][m], p) \in goal /\ Canonical(p)
        BY <2>6, <2>8
    <2>10. Way(d, (k - 1) + 1)
        BY <2>3, <2>5, <2>7, <2>9, CanonicalStep
    <2> QED BY <2>2, <2>5, <2>10
<1> QED BY <1>1, <1>2

-----------------------------------------------------------------------------
(* The same of all the moves and the solved cube. *)

LEMMA WithinGrows ==
    ASSUME NEW k \in Nat, NEW n \in Nat, k <= n
    PROVE  Within(k) \subseteq Within(n)
BY BallGrows, PuzzleAssumption DEF Within

LEMMA WithinSteps ==
    /\ Within(0) = {Solved}
    /\ \A n \in Nat :
          /\ Within(n) \in SUBSET Cube
          /\ Within(n + 1) = Within(n) \cup {c \in Cube : \E m \in Move : Moved[c][m] \in Within(n)}
<1>1. {Solved} \in SUBSET Cube /\ Move \in SUBSET Move /\ Closed(Move)
    BY PuzzleAssumption, TurnsAssumption
<1>2. Within(0) = {Solved} /\ \A n \in Nat : Within(n) \in SUBSET Cube
    BY <1>1, BallSteps DEF Within
<1>3. \A n \in Nat : Within(n) \subseteq Within(n + 1)
    BY WithinGrows
<1>4. \A n \in Nat, c \in Cube, m \in Move : Moved[c][m] \in Within(n) => c \in Within(n + 1)
    BY <1>1, NearerFirst DEF Within
<1>5. \A n \in Nat : \A c \in Within(n + 1) : c \notin Within(n) => \E m \in Move : Moved[c][m] \in Within(n)
    BY <1>1, FirstIsNearer DEF Within
<1>6. \A n \in Nat : n + 1 \in Nat
    OBVIOUS
<1> QED BY <1>2, <1>3, <1>4, <1>5, <1>6

\* A path to the goal shows how near a cube is.
LEMMA SolutionIsNear ==
    ASSUME NEW c \in Cube, NEW p \in Path, After(c, p) = Solved
    PROVE  c \in Within(Len(p))
<1>1. {Solved} \in SUBSET Cube /\ Move \in SUBSET Move /\ p \in Seq(Move) /\ After(c, p) \in {Solved}
    BY PuzzleAssumption DEF Path
<1> QED BY <1>1, WayIsNear DEF Within

\* The goal is n canonical moves or fewer from c, which path p reached.
Finishable(c, n, p) ==
    \E q \in Path :
        /\ Len(q) <= n
        /\ After(c, q) = Solved
        /\ Canonical(q)
        /\ p # <<>> /\ q # <<>> => ~IsRedundant(p[Len(p)], q[1])

LEMMA RootFinishable ==
    ASSUME NEW n \in Nat, NEW c \in Within(n)
    PROVE  Finishable(c, n, <<>>)
<1>1. {Solved} \in SUBSET Cube /\ Move \in SUBSET Move /\ Closed(Move)
    BY PuzzleAssumption, TurnsAssumption
<1>2. PICK p \in Seq(Move) : Len(p) <= n /\ After(c, p) \in {Solved} /\ Canonical(p)
    BY <1>1, CanonicalWay DEF Within
<1> QED BY <1>2 DEF Finishable, Path

LEMMA FinishableIsNear ==
    ASSUME NEW c \in Cube, NEW n \in Nat, NEW p, Finishable(c, n, p)
    PROVE  c \in Within(n)
<1>1. PICK q \in Path : Len(q) <= n /\ After(c, q) = Solved
    BY DEF Finishable
<1> QED BY <1>1, SolutionIsNear, WithinGrows, PathMoves

LEMMA FinishableStep ==
    ASSUME NEW c \in Cube, c # Solved, NEW n \in Nat, NEW p \in Path, Finishable(c, n, p)
    PROVE  /\ n - 1 \in Nat
           /\ \E m \in Move : /\ p # <<>> => ~IsRedundant(p[Len(p)], m)
                              /\ Finishable(Moved[c][m], n - 1, Append(p, m))
<1>1. PICK q \in Path : /\ Len(q) <= n
                        /\ After(c, q) = Solved
                        /\ Canonical(q)
                        /\ p # <<>> /\ q # <<>> => ~IsRedundant(p[Len(p)], q[1])
    BY DEF Finishable
<1>2. q # <<>>
    BY <1>1, AfterEmpty
<1> DEFINE m == q[1]
           r == Tail(q)
<1>3. /\ m \in Move /\ r \in Path /\ Len(r) = Len(q) - 1 /\ Len(r) \in Nat /\ Len(q) \in Nat
      /\ \A i \in 1 .. Len(r) : r[i] = q[i + 1]
      /\ After(Moved[c][m], r) = Solved
    BY <1>1, <1>2, AfterFirst, PathMoves
<1> HIDE DEF m, r
<1>4. Len(r) <= n - 1 /\ n - 1 \in Nat
    BY <1>1, <1>3
<1>5. ASSUME NEW i \in 1 .. Len(r) - 1 PROVE ~IsRedundant(r[i], r[i + 1])
    <2>1. i \in 1 .. Len(r) /\ i + 1 \in 1 .. Len(r) /\ i + 1 \in 1 .. Len(q) - 1
        BY <1>3
    <2> QED BY <1>1, <1>3, <2>1 DEF Canonical
<1>6. Canonical(r)
    BY <1>5 DEF Canonical
<1>7. Append(p, m)[Len(Append(p, m))] = m
    BY <1>3, AfterAppend
<1>8. ASSUME r # <<>> PROVE ~IsRedundant(m, r[1])
    <2>1. 1 \in 1 .. Len(r)
        BY <1>3, <1>8 DEF Path
    <2>2. r[1] = q[1 + 1] /\ 1 \in 1 .. Len(q) - 1
        BY <1>3, <2>1
    <2> QED BY <1>1, <2>2 DEF Canonical, m
<1>9. Finishable(Moved[c][m], n - 1, Append(p, m))
    BY <1>3, <1>4, <1>6, <1>7, <1>8 DEF Finishable
<1> QED BY <1>1, <1>2, <1>3, <1>4, <1>9 DEF m
=============================================================================
