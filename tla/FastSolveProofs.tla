--------------------------- MODULE FastSolveProofs ---------------------------
(***************************************************************************)
(* The fast mode's safety, for every puzzle and every set of requests.     *)
(***************************************************************************)
EXTENDS FastSolve, PuzzleProofs, FiniteSetTheorems

-----------------------------------------------------------------------------
(* Sequences: what the helpers keep, and in which numbers. *)

LEMMA Members ==
    ASSUME NEW T, NEW s \in Seq(T)
    PROVE  /\ Len(s) \in Nat
           /\ DOMAIN s = 1 .. Len(s)
           /\ \A i \in 1 .. Len(s) : s[i] \in T /\ s[i] \in ToSet(s)
           /\ \A x \in ToSet(s) : x \in T /\ \E i \in 1 .. Len(s) : x = s[i]
           /\ (s = <<>>) <=> (Len(s) = 0)
           /\ (s = <<>>) <=> (ToSet(s) = {})
<1>1. Len(s) \in Nat /\ DOMAIN s = 1 .. Len(s) /\ \A i \in 1 .. Len(s) : s[i] \in T
    OBVIOUS
<1>2. (s = <<>>) <=> (Len(s) = 0)
    OBVIOUS
<1>3. Len(s) # 0 => 1 \in 1 .. Len(s)
    BY <1>1
<1>4. Len(s) = 0 => 1 .. Len(s) = {}
    OBVIOUS
<1>5. ToSet(s) = {s[i] : i \in 1 .. Len(s)}
    BY <1>1 DEF ToSet
<1> QED BY <1>1, <1>2, <1>3, <1>4, <1>5

LEMMA InsertAtElements ==
    ASSUME NEW T, NEW s \in Seq(T), NEW x \in T, NEW k \in 0 .. Len(s)
    PROVE  /\ InsertAt(s, k + 1, x) \in Seq(T)
           /\ Len(InsertAt(s, k + 1, x)) = Len(s) + 1
           /\ \A i \in 1 .. Len(s) + 1 :
                 InsertAt(s, k + 1, x)[i] = IF i <= k THEN s[i] ELSE IF i = k + 1 THEN x ELSE s[i - 1]
<1> DEFINE a == SubSeq(s, 1, k)
           b == SubSeq(s, k + 1, Len(s))
           c == a \o <<x>>
           d == c \o b
<1>1. a \in Seq(T) /\ Len(a) = k /\ \A i \in 1 .. k : a[i] = s[i]
    OBVIOUS
<1>2. b \in Seq(T) /\ Len(b) = Len(s) - k /\ \A i \in 1 .. Len(s) - k : b[i] = s[k + i]
    OBVIOUS
<1>3. InsertAt(s, k + 1, x) = d
    <2>1. (k + 1) - 1 = k
        OBVIOUS
    <2> QED BY <2>1 DEF InsertAt
<1> HIDE DEF a, b
<1>4. c \in Seq(T) /\ Len(c) = k + 1 /\ \A i \in 1 .. k + 1 : c[i] = IF i <= k THEN s[i] ELSE x
    BY <1>1
<1> HIDE DEF c
<1>5. d \in Seq(T) /\ Len(d) = Len(c) + Len(b)
    <2>1. c \in Seq(T) /\ b \in Seq(T)
        BY <1>2, <1>4
    <2> QED BY <2>1
<1>6. \A i \in 1 .. Len(c) + Len(b) : d[i] = IF i <= Len(c) THEN c[i] ELSE b[i - Len(c)]
    BY <1>2, <1>4
<1> HIDE DEF d
<1>7. Len(d) = Len(s) + 1 /\ Len(c) + Len(b) = Len(s) + 1
    BY <1>2, <1>4, <1>5
<1>8. ASSUME NEW i \in 1 .. Len(s) + 1
      PROVE  d[i] = IF i <= k THEN s[i] ELSE IF i = k + 1 THEN x ELSE s[i - 1]
    <2>1. CASE i <= k + 1
        <3>1. i \in 1 .. k + 1
            BY <2>1
        <3>2. d[i] = c[i]
            BY <1>4, <1>6, <1>7, <2>1
        <3> QED BY <1>4, <3>1, <3>2
    <2>2. CASE i > k + 1
        <3>1. ~(i <= k + 1) /\ ~(i <= k) /\ i # k + 1 /\ i - (k + 1) \in 1 .. Len(s) - k /\ k + (i - (k + 1)) = i - 1
            BY <2>2
        <3>2. d[i] = b[i - (k + 1)]
            BY <1>4, <1>6, <1>7, <3>1
        <3>3. b[i - (k + 1)] = s[k + (i - (k + 1))]
            BY <1>2, <3>1
        <3> QED BY <3>1, <3>2, <3>3
    <2> QED BY <2>1, <2>2
<1> QED BY <1>3, <1>5, <1>7, <1>8

LEMMA InsertAtKeeps ==
    ASSUME NEW T, NEW s \in Seq(T), NEW x \in T, NEW k \in 0 .. Len(s)
    PROVE  /\ InsertAt(s, k + 1, x) \in Seq(T)
           /\ Len(InsertAt(s, k + 1, x)) = Len(s) + 1
           /\ ToSet(InsertAt(s, k + 1, x)) = ToSet(s) \cup {x}
           /\ IsInjective(s) /\ x \notin ToSet(s) => IsInjective(InsertAt(s, k + 1, x))
<1> DEFINE d == InsertAt(s, k + 1, x)
<1>1. /\ d \in Seq(T) /\ Len(d) = Len(s) + 1
      /\ \A i \in 1 .. Len(s) + 1 : d[i] = IF i <= k THEN s[i] ELSE IF i = k + 1 THEN x ELSE s[i - 1]
    BY InsertAtElements
<1>2. Len(s) \in Nat /\ DOMAIN s = 1 .. Len(s) /\ DOMAIN d = 1 .. Len(s) + 1 /\ k \in Nat /\ k <= Len(s)
    BY <1>1
<1> HIDE DEF d
<1>3. ASSUME NEW y \in ToSet(d) PROVE y \in ToSet(s) \cup {x}
    <2>1. PICK i \in 1 .. Len(s) + 1 : y = d[i]
        BY <1>2 DEF ToSet
    <2>2. CASE i <= k
        <3>1. i \in 1 .. Len(s) /\ y = s[i]
            BY <1>1, <1>2, <2>1, <2>2
        <3> QED BY <1>2, <3>1 DEF ToSet
    <2>3. CASE i = k + 1
        <3>1. ~(i <= k)
            BY <1>2, <2>3
        <3> QED BY <1>1, <2>1, <2>3, <3>1
    <2>4. CASE i > k + 1
        <3>1. i - 1 \in 1 .. Len(s) /\ ~(i <= k) /\ i # k + 1
            BY <1>2, <2>4
        <3>2. y = s[i - 1]
            BY <1>1, <2>1, <3>1
        <3> QED BY <1>2, <3>1, <3>2 DEF ToSet
    <2> QED BY <1>2, <2>2, <2>3, <2>4
<1>4. ASSUME NEW y \in ToSet(s) PROVE y \in ToSet(d)
    <2>1. PICK i \in 1 .. Len(s) : y = s[i]
        BY <1>2 DEF ToSet
    <2>2. CASE i <= k
        <3>1. i \in 1 .. Len(s) + 1 /\ d[i] = s[i]
            BY <1>1, <1>2, <2>2
        <3> QED BY <1>2, <2>1, <3>1 DEF ToSet
    <2>3. CASE i > k
        <3>1. i + 1 \in 1 .. Len(s) + 1 /\ ~(i + 1 <= k) /\ i + 1 # k + 1 /\ (i + 1) - 1 = i
            BY <1>2, <2>3
        <3>2. d[i + 1] = s[i]
            BY <1>1, <3>1
        <3> QED BY <1>2, <2>1, <3>1, <3>2 DEF ToSet
    <2> QED BY <1>2, <2>2, <2>3
<1>5. x \in ToSet(d)
    <2>1. k + 1 \in 1 .. Len(s) + 1 /\ ~(k + 1 <= k)
        BY <1>2
    <2>2. d[k + 1] = x
        BY <1>1, <2>1
    <2> QED BY <1>2, <2>1, <2>2 DEF ToSet
<1>6. ASSUME IsInjective(s), x \notin ToSet(s), NEW i \in 1 .. Len(s) + 1, NEW j \in 1 .. Len(s) + 1, d[i] = d[j]
      PROVE  i = j
    <2> DEFINE from(h) == IF h <= k THEN h ELSE h - 1
    <2>1. ASSUME NEW h \in 1 .. Len(s) + 1, h # k + 1
          PROVE  from(h) \in 1 .. Len(s) /\ d[h] = s[from(h)] /\ d[h] # x
        <3>1. from(h) \in 1 .. Len(s)
            BY <1>2, <2>1
        <3>2. d[h] = s[from(h)]
            BY <1>1, <1>2, <2>1
        <3>3. s[from(h)] \in ToSet(s)
            BY <1>2, <3>1 DEF ToSet
        <3> QED BY <1>6, <3>1, <3>2, <3>3
    <2>2. d[k + 1] = x
        <3>1. k + 1 \in 1 .. Len(s) + 1 /\ ~(k + 1 <= k)
            BY <1>2
        <3> QED BY <1>1, <3>1
    <2>3. CASE i = k + 1
        BY <1>6, <2>1, <2>2, <2>3
    <2>5. CASE j = k + 1
        BY <1>6, <2>1, <2>2, <2>5
    <2>4. CASE i # k + 1 /\ j # k + 1
        <3>1. from(i) \in 1 .. Len(s) /\ from(j) \in 1 .. Len(s) /\ s[from(i)] = s[from(j)]
            BY <1>6, <2>1, <2>4
        <3>2. from(i) = from(j)
            BY <1>2, <1>6, <3>1 DEF IsInjective
        <3> QED BY <1>2, <2>4, <3>2
    <2> QED BY <2>3, <2>4, <2>5
<1>7. IsInjective(s) /\ x \notin ToSet(s) => IsInjective(d)
    BY <1>2, <1>6 DEF IsInjective
<1> QED BY <1>1, <1>3, <1>4, <1>5, <1>7 DEF d

\* As many as some of the places of a sequence: a place to insert after.
LEMMA PlacesCount ==
    ASSUME NEW T, NEW s \in Seq(T), NEW J \in SUBSET DOMAIN s
    PROVE  Cardinality(J) \in 0 .. Len(s)
<1>1. DOMAIN s = 1 .. Len(s) /\ Len(s) \in Nat
    OBVIOUS
<1>2. IsFiniteSet(1 .. Len(s)) /\ Cardinality(1 .. Len(s)) = Len(s)
    <2>1. 1 \in Int /\ Len(s) \in Int
        BY <1>1
    <2>2. IsFiniteSet(1 .. Len(s)) /\ Cardinality(1 .. Len(s)) = IF 1 > Len(s) THEN 0 ELSE Len(s) - 1 + 1
        BY <2>1, FS_Interval
    <2> QED BY <1>1, <2>2
<1>3. Cardinality(J) \in Nat /\ Cardinality(J) <= Len(s)
    BY <1>1, <1>2, FS_Subset, FS_CardinalityType
<1> QED BY <1>1, <1>3

LEMMA ConcatKeeps ==
    ASSUME NEW T, NEW s \in Seq(T), NEW t \in Seq(T)
    PROVE  /\ s \o t \in Seq(T)
           /\ ToSet(s \o t) = ToSet(s) \cup ToSet(t)
           /\ IsInjective(s) /\ IsInjective(t) /\ ToSet(s) \cap ToSet(t) = {} => IsInjective(s \o t)
<1> DEFINE d == s \o t
<1>1. /\ d \in Seq(T) /\ Len(d) = Len(s) + Len(t)
      /\ \A i \in 1 .. Len(s) + Len(t) : d[i] = IF i <= Len(s) THEN s[i] ELSE t[i - Len(s)]
    OBVIOUS
<1>2. /\ Len(s) \in Nat /\ DOMAIN s = 1 .. Len(s) /\ Len(t) \in Nat /\ DOMAIN t = 1 .. Len(t)
      /\ DOMAIN d = 1 .. Len(s) + Len(t)
    BY <1>1
<1> HIDE DEF d
<1>3. ASSUME NEW i \in 1 .. Len(s) PROVE i \in 1 .. Len(s) + Len(t) /\ d[i] = s[i]
    BY <1>1, <1>2
<1>4. ASSUME NEW i \in 1 .. Len(t) PROVE i + Len(s) \in 1 .. Len(s) + Len(t) /\ d[i + Len(s)] = t[i]
    <2>1. i + Len(s) \in 1 .. Len(s) + Len(t) /\ ~(i + Len(s) <= Len(s)) /\ (i + Len(s)) - Len(s) = i
        BY <1>2
    <2> QED BY <1>1, <2>1
<1>5. ASSUME NEW i \in 1 .. Len(s) + Len(t)
      PROVE  \/ i \in 1 .. Len(s) /\ d[i] = s[i]
             \/ i - Len(s) \in 1 .. Len(t) /\ d[i] = t[i - Len(s)]
    BY <1>1, <1>2
<1>6. ToSet(s) \subseteq ToSet(d)
    BY <1>2, <1>3 DEF ToSet
<1>7. ToSet(t) \subseteq ToSet(d)
    BY <1>2, <1>4 DEF ToSet
<1>8. ToSet(d) \subseteq ToSet(s) \cup ToSet(t)
    BY <1>2, <1>5 DEF ToSet
<1>9. ASSUME IsInjective(s), IsInjective(t), ToSet(s) \cap ToSet(t) = {},
             NEW i \in 1 .. Len(s) + Len(t), NEW j \in 1 .. Len(s) + Len(t), d[i] = d[j]
      PROVE  i = j
    <2>1. CASE i \in 1 .. Len(s) /\ d[i] = s[i] /\ j \in 1 .. Len(s) /\ d[j] = s[j]
        BY <1>2, <1>9, <2>1 DEF IsInjective
    <2>2. CASE i - Len(s) \in 1 .. Len(t) /\ d[i] = t[i - Len(s)] /\ j - Len(s) \in 1 .. Len(t) /\ d[j] = t[j - Len(s)]
        <3>1. i - Len(s) = j - Len(s)
            BY <1>2, <1>9, <2>2 DEF IsInjective
        <3> QED BY <1>2, <3>1
    <2>3. ASSUME NEW h \in 1 .. Len(s), NEW l \in 1 .. Len(t), s[h] = t[l] PROVE FALSE
        BY <1>2, <1>9, <2>3 DEF ToSet
    <2> QED BY <1>5, <1>9, <2>1, <2>2, <2>3
<1>10. IsInjective(s) /\ IsInjective(t) /\ ToSet(s) \cap ToSet(t) = {} => IsInjective(d)
    BY <1>2, <1>9 DEF IsInjective
<1> QED BY <1>1, <1>6, <1>7, <1>8, <1>10 DEF d

-----------------------------------------------------------------------------
\* f joins the parts up to each of them.
Joins(f, parts) ==
    /\ f[1] = parts[1]
    /\ \A i \in 2 .. Len(parts) : f[i] = f[i - 1] \o parts[i]

LEMMA FlattenJoins ==
    ASSUME NEW T, NEW parts \in Seq(Seq(T)), Len(parts) # 0
    PROVE  \E f : Joins(f, parts) /\ FlattenSeq(parts) = f[Len(parts)]
<1> DEFINE n == Len(parts)
           Fold(f) == [i \in 1 .. n |-> IF i = 1 THEN parts[i] ELSE f[i - 1] \o parts[i]]
           Folds(f) == f = Fold(f)
           flatten == CHOOSE f : Folds(f)
           step == [k \in Nat |-> [x \in Seq(T) |-> IF k + 2 \in 1 .. n THEN x \o parts[k + 2] ELSE x]]
<1>1. n \in Nat /\ 1 \in 1 .. n /\ \A i \in 1 .. n : parts[i] \in Seq(T)
    OBVIOUS
<1>2. FlattenSeq(parts) = flatten[n]
    BY DEF FlattenSeq
<1> HIDE DEF n
<1>3. step \in [Nat -> [Seq(T) -> Seq(T)]]
    <2>1. ASSUME NEW k \in Nat, NEW x \in Seq(T)
          PROVE  (IF k + 2 \in 1 .. n THEN x \o parts[k + 2] ELSE x) \in Seq(T)
        <3>1. CASE k + 2 \in 1 .. n
            <4>1. parts[k + 2] \in Seq(T)
                BY <1>1, <3>1
            <4> QED BY <3>1, <4>1
        <3> QED BY <3>1
    <2> QED BY <2>1
<1>4. parts[1] \in Seq(T)
    BY <1>1
<1> HIDE DEF step
<1>5. PICK g : Recurs(g, Seq(T), parts[1], step)
    BY <1>3, <1>4, Recursion
<1>6. g \in [Nat -> Seq(T)] /\ g[0] = parts[1] /\ \A k \in Nat : g[k + 1] = step[k][g[k]]
    BY <1>5 DEF Recurs
<1> DEFINE h == [i \in 1 .. n |-> g[i - 1]]
<1>7. ASSUME NEW i \in 1 .. n, i # 1 PROVE h[i] = h[i - 1] \o parts[i]
    <2>1. /\ i - 2 \in Nat /\ (i - 2) + 1 = i - 1 /\ (i - 2) + 2 = i /\ i - 1 \in 1 .. n
          /\ (i - 1) - 1 = i - 2
        BY <1>1, <1>7
    <2>2. g[i - 1] = step[i - 2][g[i - 2]]
        BY <1>6, <2>1
    <2>3. g[i - 2] \in Seq(T)
        BY <1>6, <2>1
    <2>4. step[i - 2][g[i - 2]] = g[i - 2] \o parts[i]
        BY <2>1, <2>3 DEF step
    <2> QED BY <2>1, <2>2, <2>4
<1>8. h[1] = parts[1]
    BY <1>1, <1>6
<1>9. Folds(h)
    <2>1. \A i \in 1 .. n : h[i] = IF i = 1 THEN parts[i] ELSE h[i - 1] \o parts[i]
        BY <1>7, <1>8
    <2> QED BY <2>1
<1>10. Folds(flatten)
    <2> HIDE DEF Folds, h
    <2> QED BY <1>9
<1> HIDE DEF flatten
<1>11. \A i \in 1 .. n : flatten[i] = IF i = 1 THEN parts[i] ELSE flatten[i - 1] \o parts[i]
    BY <1>10
<1>12. flatten[1] = parts[1]
    BY <1>1, <1>11
<1>13. ASSUME NEW i \in 2 .. n PROVE flatten[i] = flatten[i - 1] \o parts[i]
    <2>1. i \in 1 .. n /\ i # 1
        BY <1>1
    <2> QED BY <1>11, <2>1
<1>14. Joins(flatten, parts)
    BY <1>12, <1>13 DEF Joins, n
<1> QED BY <1>2, <1>14 DEF n

Disjoint(parts) ==
    /\ \A i \in 1 .. Len(parts) : IsInjective(parts[i])
    /\ \A i, j \in 1 .. Len(parts) : i # j => ToSet(parts[i]) \cap ToSet(parts[j]) = {}

LEMMA FlattenKeeps ==
    ASSUME NEW T, NEW parts \in Seq(Seq(T))
    PROVE  /\ FlattenSeq(parts) \in Seq(T)
           /\ ToSet(FlattenSeq(parts)) = UNION {ToSet(parts[i]) : i \in 1 .. Len(parts)}
           /\ Disjoint(parts) => IsInjective(FlattenSeq(parts))
<1> DEFINE n == Len(parts)
           upTo(k) == UNION {ToSet(parts[i]) : i \in 1 .. k}
<1>1. n \in Nat /\ \A i \in 1 .. n : parts[i] \in Seq(T)
    OBVIOUS
<1>2. CASE n = 0
    <2>1. FlattenSeq(parts) = parts /\ parts = <<>>
        BY <1>2 DEF FlattenSeq
    <2>2. ToSet(<<>>) = {} /\ IsInjective(<<>>) /\ <<>> \in Seq(T)
        BY DEF ToSet, IsInjective
    <2>3. 1 .. n = {}
        BY <1>2
    <2> QED BY <2>1, <2>2, <2>3
<1>3. CASE n # 0
    <2>1. PICK f : Joins(f, parts) /\ FlattenSeq(parts) = f[n]
        BY <1>3, FlattenJoins
    <2>2. f[1] = parts[1] /\ \A i \in 2 .. n : f[i] = f[i - 1] \o parts[i]
        BY <2>1 DEF Joins
    <2> HIDE DEF n
    <2> DEFINE Good(k) == f[k] \in Seq(T) /\ ToSet(f[k]) = upTo(k) /\ (Disjoint(parts) => IsInjective(f[k]))
               Bad == {k \in 1 .. n : ~Good(k)}
    <2>3. CASE Bad = {}
        <3>1. n \in 1 .. n
            BY <1>1, <1>3
        <3>2. Good(n)
            BY <2>3, <3>1
        <3> QED BY <2>1, <3>2 DEF n
    <2>4. CASE Bad # {}
        <3> HIDE DEF Good
        <3>0. Bad \in SUBSET Nat
            BY <1>1
        <3>1. PICK k \in Bad : \A j \in Bad : k <= j
            BY <2>4, <3>0, LeastNatural
        <3>2. k \in 1 .. n /\ ~Good(k)
            BY <3>1
        <3> HIDE DEF Bad
        <3>3. CASE k = 1
            <4>1. upTo(1) = ToSet(parts[1])
                OBVIOUS
            <4>2. Disjoint(parts) => IsInjective(parts[1])
                BY <3>2, <3>3 DEF Disjoint, n
            <4> QED BY <1>1, <2>2, <3>2, <3>3, <4>1, <4>2 DEF Good
        <3>4. CASE k # 1
            <4>1. k - 1 \in 1 .. n /\ k \in 2 .. n /\ ~(k <= k - 1)
                BY <1>1, <3>2, <3>4
            <4>2. Good(k - 1)
                BY <3>1, <4>1 DEF Bad
            <4>7. f[k - 1] \in Seq(T) /\ ToSet(f[k - 1]) = upTo(k - 1)
                BY <4>2 DEF Good
            <4>3. f[k] = f[k - 1] \o parts[k] /\ parts[k] \in Seq(T)
                BY <1>1, <2>2, <3>2, <4>1
            <4>4. upTo(k) = upTo(k - 1) \cup ToSet(parts[k])
                <5>1. \A i : i \in 1 .. k <=> i \in 1 .. k - 1 \/ i = k
                    BY <1>1, <3>2
                <5> QED BY <5>1
            <4>5. f[k] \in Seq(T) /\ ToSet(f[k]) = upTo(k)
                <5> HIDE DEF upTo
                <5>1. f[k - 1] \o parts[k] \in Seq(T) /\ ToSet(f[k - 1] \o parts[k]) = ToSet(f[k - 1]) \cup ToSet(parts[k])
                    BY <4>3, <4>7, ConcatKeeps
                <5> QED BY <4>3, <4>4, <4>7, <5>1
            <4>6. ASSUME Disjoint(parts) PROVE IsInjective(f[k])
                <5>1. ASSUME NEW i \in 1 .. k - 1 PROVE ToSet(parts[i]) \cap ToSet(parts[k]) = {}
                    <6>1. i \in 1 .. n /\ i # k
                        BY <1>1, <3>2
                    <6> QED BY <3>2, <4>6, <6>1 DEF Disjoint, n
                <5>2. upTo(k - 1) \cap ToSet(parts[k]) = {}
                    BY <5>1
                <5>3. IsInjective(parts[k]) /\ IsInjective(f[k - 1])
                    BY <3>2, <4>2, <4>6 DEF Disjoint, Good, n
                <5> HIDE DEF upTo
                <5> QED BY <4>3, <4>7, <5>2, <5>3, ConcatKeeps
            <4> QED BY <3>2, <4>5, <4>6 DEF Good
        <3> QED BY <3>3, <3>4
    <2> QED BY <2>3, <2>4
<1> QED BY <1>2, <1>3

\* The parts Kept joins when it keeps of s the elements in the places I.
KeptParts(parts, s, I) == parts = [i \in DOMAIN s |-> IF i \in I THEN <<s[i]>> ELSE <<>>]

LEMMA KeptKeeps ==
    ASSUME NEW T, NEW s \in Seq(T), NEW I \in SUBSET (1 .. Len(s)), NEW parts, KeptParts(parts, s, I)
    PROVE  /\ FlattenSeq(parts) \in Seq(T)
           /\ ToSet(FlattenSeq(parts)) = {s[i] : i \in I}
           /\ IsInjective(s) => IsInjective(FlattenSeq(parts))
<1>1. DOMAIN s = 1 .. Len(s) /\ Len(s) \in Nat /\ \A i \in 1 .. Len(s) : s[i] \in T
    OBVIOUS
<1>2. ASSUME NEW i \in 1 .. Len(s)
      PROVE  /\ parts[i] = IF i \in I THEN <<s[i]>> ELSE <<>>
             /\ parts[i] \in Seq(T)
    BY <1>1 DEF KeptParts
<1>3. parts \in Seq(Seq(T)) /\ Len(parts) = Len(s)
    BY <1>1, <1>2 DEF KeptParts
<1>4. ASSUME NEW i \in 1 .. Len(s)
      PROVE  ToSet(parts[i]) = IF i \in I THEN {s[i]} ELSE {}
    <2>1. CASE i \in I
        <3>1. parts[i] = <<s[i]>>
            BY <1>2, <2>1
        <3>2. ToSet(<<s[i]>>) = {s[i]}
            BY DEF ToSet
        <3> QED BY <2>1, <3>1, <3>2
    <2>2. CASE i \notin I
        <3>1. parts[i] = <<>>
            BY <1>2, <2>2
        <3>2. ToSet(<<>>) = {}
            BY DEF ToSet
        <3> QED BY <2>2, <3>1, <3>2
    <2> QED BY <2>1, <2>2
<1>5. UNION {ToSet(parts[i]) : i \in 1 .. Len(parts)} = {s[i] : i \in I}
    <2>1. Len(parts) = Len(s) /\ I \subseteq 1 .. Len(s)
        BY <1>3
    <2>2. \A i \in 1 .. Len(s) : \A x : x \in ToSet(parts[i]) <=> (i \in I /\ x = s[i])
        BY <1>4
    <2> QED BY <2>1, <2>2
<1>6. ASSUME IsInjective(s) PROVE Disjoint(parts)
    <2>1. ASSUME NEW i \in 1 .. Len(s) PROVE IsInjective(parts[i])
        <3>1. parts[i] = <<s[i]>> \/ parts[i] = <<>>
            BY <1>2
        <3> QED BY <3>1 DEF IsInjective
    <2>2. ASSUME NEW i \in 1 .. Len(s), NEW j \in 1 .. Len(s), i # j
          PROVE  ToSet(parts[i]) \cap ToSet(parts[j]) = {}
        <3>1. s[i] # s[j]
            BY <1>1, <1>6, <2>2 DEF IsInjective
        <3>2. ToSet(parts[i]) \subseteq {s[i]} /\ ToSet(parts[j]) \subseteq {s[j]}
            BY <1>4
        <3> QED BY <3>1, <3>2
    <2>3. Len(parts) = Len(s)
        BY <1>3
    <2> QED BY <2>1, <2>2, <2>3 DEF Disjoint
<1>7. /\ FlattenSeq(parts) \in Seq(T)
      /\ ToSet(FlattenSeq(parts)) = UNION {ToSet(parts[i]) : i \in 1 .. Len(parts)}
      /\ Disjoint(parts) => IsInjective(FlattenSeq(parts))
    BY <1>3, FlattenKeeps
<1> QED BY <1>5, <1>6, <1>7

LEMMA TruncatedKeeps ==
    ASSUME NEW n \in Nat, NEW paths \in Seq(Path)
    PROVE  /\ Truncated(n)[paths] \in Seq(Path)
           /\ Len(Truncated(n)[paths]) <= n /\ Len(Truncated(n)[paths]) <= Len(paths)
           /\ ToSet(Truncated(n)[paths]) \subseteq ToSet(paths)
           /\ IsInjective(paths) => IsInjective(Truncated(n)[paths])
           /\ Len(paths) <= n => Truncated(n)[paths] = paths
           /\ n > 0 /\ paths # <<>> => Truncated(n)[paths] # <<>>
<1> DEFINE k == IF Len(paths) < n THEN Len(paths) ELSE n
           d == SubSeq(paths, 1, k)
<1>1. Truncated(n)[paths] = d
    BY DEF Truncated
<1>2. Len(paths) \in Nat /\ DOMAIN paths = 1 .. Len(paths) /\ k \in Nat /\ k <= n /\ k <= Len(paths)
    OBVIOUS
<1>3. (Len(paths) <= n => k = Len(paths)) /\ (n > 0 /\ paths # <<>> => k > 0)
    OBVIOUS
<1> HIDE DEF k
<1>4. d \in Seq(Path) /\ Len(d) = k /\ DOMAIN d = 1 .. k /\ \A i \in 1 .. k : d[i] = paths[i]
    BY <1>2
<1>5. k = Len(paths) => d = paths
    BY <1>2
<1>6. \A i \in 1 .. k : i \in 1 .. Len(paths)
    BY <1>2
<1> HIDE DEF d
<1>7. ToSet(d) \subseteq ToSet(paths)
    BY <1>2, <1>4, <1>6 DEF ToSet
<1>8. IsInjective(paths) => IsInjective(d)
    BY <1>2, <1>4, <1>6 DEF IsInjective
<1>9. k > 0 => d # <<>>
    BY <1>2, <1>4
<1> QED BY <1>1, <1>2, <1>3, <1>4, <1>5, <1>7, <1>8, <1>9

-----------------------------------------------------------------------------
(* The recursive functions of the sorting and of the searches. *)

Iterates(f, z, step, n) == f = [i \in 0 .. n |-> IF i = 0 THEN z ELSE step[i][f[i - 1]]]

LEMMA IterationExists ==
    ASSUME NEW S, NEW z \in S, NEW n \in Nat, NEW step \in [1 .. n -> [S -> S]]
    PROVE  \E f : Iterates(f, z, step, n)
<1> DEFINE after == [k \in Nat |-> [x \in S |-> IF k + 1 \in 1 .. n THEN step[k + 1][x] ELSE x]]
<1>1. after \in [Nat -> [S -> S]]
    OBVIOUS
<1> HIDE DEF after
<1>2. PICK g : Recurs(g, S, z, after)
    BY <1>1, Recursion
<1>3. g \in [Nat -> S] /\ g[0] = z /\ \A k \in Nat : g[k + 1] = after[k][g[k]]
    BY <1>2 DEF Recurs
<1> DEFINE f == [i \in 0 .. n |-> g[i]]
<1>4. ASSUME NEW i \in 0 .. n, i # 0 PROVE f[i] = step[i][f[i - 1]]
    <2>1. i - 1 \in Nat /\ (i - 1) + 1 = i /\ i \in 1 .. n /\ i - 1 \in 0 .. n
        BY <1>4
    <2>2. g[i] = after[i - 1][g[i - 1]] /\ g[i - 1] \in S
        BY <1>3, <2>1
    <2>3. after[i - 1][g[i - 1]] = step[i][g[i - 1]]
        BY <2>1, <2>2 DEF after
    <2> QED BY <2>1, <2>2, <2>3
<1>5. f[0] = z
    BY <1>3
<1>6. Iterates(f, z, step, n)
    <2>1. \A i \in 0 .. n : f[i] = IF i = 0 THEN z ELSE step[i][f[i - 1]]
        BY <1>4, <1>5
    <2> QED BY <2>1 DEF Iterates
<1> HIDE DEF f
<1> QED BY <1>6

\* Sorting loses no path and adds none.
LEMMA SortedKeeps ==
    ASSUME NEW bound, NEW paths \in Seq(Path)
    PROVE  /\ Sorted(bound)[paths] \in Seq(Path)
           /\ Len(Sorted(bound)[paths]) = Len(paths)
           /\ ToSet(Sorted(bound)[paths]) = ToSet(paths)
           /\ IsInjective(paths) => IsInjective(Sorted(bound)[paths])
<1> DEFINE place(s, p) == Cardinality({j \in DOMAIN s : Promises(bound, s[j], p)})
           inserted(p) == [s \in Seq(Path) |-> InsertAt(s, place(s, p) + 1, p)]
           n == Len(paths)
           Fold(f) == [i \in 0 .. n |-> IF i = 0 THEN <<>> ELSE inserted(paths[i])[f[i - 1]]]
           Folds(f) == f = Fold(f)
           sorted == CHOOSE f : Folds(f)
           step == [i \in 1 .. n |-> inserted(paths[i])]
<1>1. Sorted(bound)[paths] = sorted[n]
    BY DEF Sorted
<1>2. n \in Nat /\ \A i \in 1 .. n : paths[i] \in Path
    OBVIOUS
<1>3. ASSUME NEW s \in Seq(Path), NEW p \in Path
      PROVE  /\ inserted(p)[s] \in Seq(Path)
             /\ Len(inserted(p)[s]) = Len(s) + 1
             /\ ToSet(inserted(p)[s]) = ToSet(s) \cup {p}
             /\ IsInjective(s) /\ p \notin ToSet(s) => IsInjective(inserted(p)[s])
    <2>1. place(s, p) \in 0 .. Len(s)
        BY PlacesCount
    <2>2. inserted(p)[s] = InsertAt(s, place(s, p) + 1, p)
        OBVIOUS
    <2> HIDE DEF place, inserted
    <2>3. ASSUME NEW k \in 0 .. Len(s), inserted(p)[s] = InsertAt(s, k + 1, p)
          PROVE  /\ inserted(p)[s] \in Seq(Path)
                 /\ Len(inserted(p)[s]) = Len(s) + 1
                 /\ ToSet(inserted(p)[s]) = ToSet(s) \cup {p}
                 /\ IsInjective(s) /\ p \notin ToSet(s) => IsInjective(inserted(p)[s])
        <3>1. /\ InsertAt(s, k + 1, p) \in Seq(Path)
              /\ Len(InsertAt(s, k + 1, p)) = Len(s) + 1
              /\ ToSet(InsertAt(s, k + 1, p)) = ToSet(s) \cup {p}
              /\ IsInjective(s) /\ p \notin ToSet(s) => IsInjective(InsertAt(s, k + 1, p))
            BY InsertAtKeeps
        <3> QED BY <2>3, <3>1
    <2> QED BY <2>1, <2>2, <2>3
<1> HIDE DEF place
<1>4. step \in [1 .. n -> [Seq(Path) -> Seq(Path)]]
    <2>1. ASSUME NEW p \in Path PROVE inserted(p) \in [Seq(Path) -> Seq(Path)]
        BY <1>3
    <2> HIDE DEF inserted
    <2> QED BY <1>2, <2>1
<1> HIDE DEF inserted, n
<1>5. PICK h : Iterates(h, <<>>, step, n)
    <2>1. <<>> \in Seq(Path)
        OBVIOUS
    <2> HIDE DEF step
    <2> QED BY <1>2, <1>4, <2>1, IterationExists
<1>6. Folds(h)
    <2>1. \A i \in 0 .. n : i # 0 => step[i] = inserted(paths[i])
        BY <1>2
    <2> HIDE DEF step
    <2>2. h = [i \in 0 .. n |-> IF i = 0 THEN <<>> ELSE step[i][h[i - 1]]]
        BY <1>5 DEF Iterates
    <2> QED BY <2>1, <2>2
<1>7. Folds(sorted)
    <2> HIDE DEF Folds
    <2> QED BY <1>6
<1> HIDE DEF sorted, step
<1>8. /\ sorted[0] = <<>>
      /\ \A i \in 1 .. n : sorted[i] = inserted(paths[i])[sorted[i - 1]]
    BY <1>2, <1>7
<1> DEFINE firsts(i) == {paths[j] : j \in 1 .. i}
           Good(i) == /\ sorted[i] \in Seq(Path) /\ Len(sorted[i]) = i
                      /\ ToSet(sorted[i]) = firsts(i)
                      /\ IsInjective(paths) => IsInjective(sorted[i])
           Bad == {i \in 0 .. n : ~Good(i)}
<1>9. Good(0)
    <2>1. ToSet(<<>>) = {} /\ IsInjective(<<>>) /\ firsts(0) = {} /\ <<>> \in Seq(Path) /\ Len(<<>>) = 0
        BY DEF ToSet, IsInjective
    <2> QED BY <1>8, <2>1
<1>10. ASSUME NEW i \in 1 .. n, Good(i - 1) PROVE Good(i)
    <2> DEFINE s == sorted[i - 1]
               p == paths[i]
    <2>1. s \in Seq(Path) /\ Len(s) = i - 1 /\ ToSet(s) = firsts(i - 1) /\ (IsInjective(paths) => IsInjective(s))
        BY <1>10
    <2>2. p \in Path /\ sorted[i] = inserted(p)[s]
        BY <1>2, <1>8
    <2>3. firsts(i) = firsts(i - 1) \cup {p}
        <3>1. \A j : j \in 1 .. i <=> j \in 1 .. i - 1 \/ j = i
            BY <1>2
        <3> QED BY <3>1
    <2>4. IsInjective(paths) => p \notin firsts(i - 1)
        <3>1. \A j \in 1 .. i - 1 : j \in 1 .. n /\ j # i
            BY <1>2
        <3>2. DOMAIN paths = 1 .. n
            BY DEF n
        <3> QED BY <3>1, <3>2 DEF IsInjective
    <2> HIDE DEF s, p, firsts
    <2>5. sorted[i] \in Seq(Path) /\ Len(sorted[i]) = (i - 1) + 1 /\ ToSet(sorted[i]) = ToSet(s) \cup {p}
        BY <1>3, <2>1, <2>2
    <2>6. IsInjective(paths) => IsInjective(sorted[i])
        BY <1>3, <2>1, <2>2, <2>4
    <2>7. (i - 1) + 1 = i
        BY <1>2
    <2> QED BY <2>1, <2>3, <2>5, <2>6, <2>7
<1> HIDE DEF Good
<1>11. Bad = {}
    <2>1. SUFFICES ASSUME Bad # {} PROVE FALSE
        OBVIOUS
    <2>2. Bad \in SUBSET Nat
        BY <1>2
    <2>3. PICK i \in Bad : \A j \in Bad : i <= j
        BY <2>1, <2>2, LeastNatural
    <2>4. i \in 0 .. n /\ ~Good(i)
        BY <2>3
    <2>5. i # 0
        BY <1>9, <2>4
    <2>6. i \in 1 .. n /\ i - 1 \in 0 .. n /\ ~(i <= i - 1)
        BY <1>2, <2>4, <2>5
    <2>7. Good(i - 1)
        BY <2>3, <2>6
    <2> QED BY <1>10, <2>4, <2>6, <2>7
<1>12. Good(n)
    <2>1. n \in 0 .. n
        BY <1>2
    <2> QED BY <1>11, <2>1
<1>13. firsts(n) = ToSet(paths)
    BY DEF ToSet, n
<1> HIDE DEF firsts
<1> QED BY <1>1, <1>12, <1>13 DEF Good, n

\* The searches try every move of worth, and each once.
LEMMA TriedKeeps ==
    ASSUME NEW c, NEW bound, NEW worth \in SUBSET Move
    PROVE  /\ Tried(c, bound, worth) \in Seq(Move)
           /\ ToSet(Tried(c, bound, worth)) = worth
           /\ IsInjective(Tried(c, bound, worth))
<1> DEFINE n == Cardinality(Move)
           place(s, m) == Cardinality({j \in DOMAIN s : bound[Moved[c][s[j]]] <= bound[Moved[c][m]]})
           inserted(m) == [s \in Seq(Move) |-> IF m \notin worth THEN s ELSE InsertAt(s, place(s, m) + 1, m)]
           Fold(f) == [m \in 0 .. n |-> IF m = 0 THEN <<>> ELSE inserted(m)[f[m - 1]]]
           Folds(f) == f = Fold(f)
           tried == CHOOSE f : Folds(f)
           step == [m \in 1 .. n |-> inserted(m)]
<1>1. Tried(c, bound, worth) = tried[n]
    BY DEF Tried
<1>2. n \in Nat /\ Move = 1 .. n
    BY FastAssumption, FS_CardinalityType
<1>3. ASSUME NEW s \in Seq(Move), NEW m \in Move
      PROVE  /\ inserted(m)[s] \in Seq(Move)
             /\ ToSet(inserted(m)[s]) = ToSet(s) \cup (worth \cap {m})
             /\ IsInjective(s) /\ m \notin ToSet(s) => IsInjective(inserted(m)[s])
    <2>1. place(s, m) \in 0 .. Len(s)
        BY PlacesCount
    <2>2. inserted(m)[s] = IF m \notin worth THEN s ELSE InsertAt(s, place(s, m) + 1, m)
        OBVIOUS
    <2> HIDE DEF place, inserted
    <2>3. CASE m \notin worth
        BY <2>2, <2>3
    <2>4. CASE m \in worth
        <3>1. ASSUME NEW k \in 0 .. Len(s), inserted(m)[s] = InsertAt(s, k + 1, m)
              PROVE  /\ inserted(m)[s] \in Seq(Move)
                     /\ ToSet(inserted(m)[s]) = ToSet(s) \cup {m}
                     /\ IsInjective(s) /\ m \notin ToSet(s) => IsInjective(inserted(m)[s])
            <4>1. /\ InsertAt(s, k + 1, m) \in Seq(Move)
                  /\ Len(InsertAt(s, k + 1, m)) = Len(s) + 1
                  /\ ToSet(InsertAt(s, k + 1, m)) = ToSet(s) \cup {m}
                  /\ IsInjective(s) /\ m \notin ToSet(s) => IsInjective(InsertAt(s, k + 1, m))
                BY InsertAtKeeps
            <4> QED BY <3>1, <4>1
        <3> QED BY <2>1, <2>2, <2>4, <3>1
    <2> QED BY <2>3, <2>4
<1> HIDE DEF place
<1>4. step \in [1 .. n -> [Seq(Move) -> Seq(Move)]]
    <2>1. ASSUME NEW m \in Move PROVE inserted(m) \in [Seq(Move) -> Seq(Move)]
        BY <1>3
    <2> HIDE DEF inserted
    <2> QED BY <1>2, <2>1
<1> HIDE DEF inserted, n
<1>5. PICK h : Iterates(h, <<>>, step, n)
    <2>1. <<>> \in Seq(Move)
        OBVIOUS
    <2> HIDE DEF step
    <2> QED BY <1>2, <1>4, <2>1, IterationExists
<1>6. Folds(h)
    <2>1. \A m \in 0 .. n : m # 0 => step[m] = inserted(m)
        BY <1>2
    <2> HIDE DEF step
    <2>2. h = [m \in 0 .. n |-> IF m = 0 THEN <<>> ELSE step[m][h[m - 1]]]
        BY <1>5 DEF Iterates
    <2> QED BY <2>1, <2>2
<1>7. Folds(tried)
    <2> HIDE DEF Folds
    <2> QED BY <1>6
<1> HIDE DEF tried, step
<1>8. /\ tried[0] = <<>>
      /\ \A m \in 1 .. n : tried[m] = inserted(m)[tried[m - 1]]
    BY <1>2, <1>7
<1> DEFINE firsts(m) == worth \cap (1 .. m)
           Good(m) == tried[m] \in Seq(Move) /\ ToSet(tried[m]) = firsts(m) /\ IsInjective(tried[m])
           Bad == {m \in 0 .. n : ~Good(m)}
<1>9. Good(0)
    <2>1. ToSet(<<>>) = {} /\ IsInjective(<<>>) /\ firsts(0) = {} /\ <<>> \in Seq(Move)
        BY DEF ToSet, IsInjective
    <2> QED BY <1>8, <2>1
<1>10. ASSUME NEW m \in 1 .. n, Good(m - 1) PROVE Good(m)
    <2> DEFINE s == tried[m - 1]
    <2>1. s \in Seq(Move) /\ ToSet(s) = firsts(m - 1) /\ IsInjective(s)
        BY <1>10
    <2>2. m \in Move /\ tried[m] = inserted(m)[s]
        BY <1>2, <1>8
    <2>3. firsts(m) = firsts(m - 1) \cup (worth \cap {m})
        <3>1. \A j : j \in 1 .. m <=> j \in 1 .. m - 1 \/ j = m
            BY <1>2
        <3> QED BY <3>1
    <2>4. m \notin firsts(m - 1)
        BY <1>2
    <2> HIDE DEF s, firsts
    <2> QED BY <1>3, <2>1, <2>2, <2>3, <2>4
<1> HIDE DEF Good
<1>11. Bad = {}
    <2>1. SUFFICES ASSUME Bad # {} PROVE FALSE
        OBVIOUS
    <2>2. Bad \in SUBSET Nat
        BY <1>2
    <2>3. PICK m \in Bad : \A j \in Bad : m <= j
        BY <2>1, <2>2, LeastNatural
    <2>4. m \in 0 .. n /\ ~Good(m)
        BY <2>3
    <2>5. m # 0
        BY <1>9, <2>4
    <2>6. m \in 1 .. n /\ m - 1 \in 0 .. n /\ ~(m <= m - 1)
        BY <1>2, <2>4, <2>5
    <2>7. Good(m - 1)
        BY <2>3, <2>6
    <2> QED BY <1>10, <2>4, <2>6, <2>7
<1>12. Good(n)
    <2>1. n \in 0 .. n
        BY <1>2
    <2> QED BY <1>11, <2>1
<1>13. firsts(n) = worth
    BY <1>2
<1> HIDE DEF firsts
<1> QED BY <1>1, <1>12, <1>13 DEF Good

-----------------------------------------------------------------------------
(* What the depth-first searches find. *)

\* p goes from cube c into goal, no part of it does, and no move of it is redundant,
\* the first after move `last' neither.
IsWay(p, c, last, n, goal, moves) ==
    /\ p \in Seq(moves) /\ Len(p) <= n
    /\ After(c, p) \in goal
    /\ \A k \in 0 .. Len(p) : After(c, SubSeq(p, 1, k)) \in goal => k = Len(p)
    /\ Canonical(p)
    /\ last # 0 /\ p # <<>> => ~IsRedundant(last, p[1])

LEMMA MoveIsNotNone ==
    ASSUME NEW m \in Move
    PROVE  m # 0
<1>1. Cardinality(Move) \in Nat /\ Move = 1 .. Cardinality(Move)
    BY FastAssumption, FS_CardinalityType
<1> QED BY <1>1

\* The parts of a path that begins with m.
LEMMA PartsAfterMove ==
    ASSUME NEW c \in Cube, NEW m \in Move, NEW r \in Path
    PROVE  /\ <<m>> \o r \in Path /\ Len(<<m>> \o r) = Len(r) + 1 /\ <<m>> \o r # <<>>
           /\ (<<m>> \o r)[1] = m /\ Tail(<<m>> \o r) = r
           /\ \A i \in 1 .. Len(r) : (<<m>> \o r)[i + 1] = r[i]
           /\ SubSeq(<<m>> \o r, 1, 0) = <<>>
           /\ \A k \in 0 .. Len(r) : After(c, SubSeq(<<m>> \o r, 1, k + 1)) = After(Moved[c][m], SubSeq(r, 1, k))
<1> DEFINE p == <<m>> \o r
<1>1. /\ p \in Path /\ Len(p) = Len(r) + 1 /\ p # <<>> /\ p[1] = m /\ Tail(p) = r
      /\ \A i \in 1 .. Len(r) : p[i + 1] = r[i]
      /\ SubSeq(p, 1, 0) = <<>>
    BY DEF Path
<1>2. ASSUME NEW k \in 0 .. Len(r)
      PROVE  After(c, SubSeq(p, 1, k + 1)) = After(Moved[c][m], SubSeq(r, 1, k))
    <2>1. SubSeq(p, 1, k + 1) = <<m>> \o SubSeq(r, 1, k)
        BY DEF Path
    <2>2. SubSeq(r, 1, k) \in Path
        BY DEF Path
    <2>3. <<m>> \in Path /\ After(c, <<m>>) = Moved[c][m]
        BY AfterOne
    <2>4. After(c, <<m>> \o SubSeq(r, 1, k)) = After(After(c, <<m>>), SubSeq(r, 1, k))
        BY <2>2, <2>3, AfterConcat
    <2> QED BY <2>1, <2>3, <2>4
<1> QED BY <1>1, <1>2

LEMMA WayAfterMove ==
    ASSUME NEW goal, NEW moves \in SUBSET Move, NEW c \in Cube, c \notin goal,
           NEW m \in moves, NEW r \in Seq(moves), NEW last, NEW n \in Int
    PROVE  IsWay(<<m>> \o r, c, last, n, goal, moves)
             <=> (last # 0 => ~IsRedundant(last, m)) /\ IsWay(r, Moved[c][m], m, n - 1, goal, moves)
<1> DEFINE p == <<m>> \o r
<1>1. r \in Path /\ Len(r) \in Nat /\ p \in Seq(moves) /\ Moved[c][m] \in Cube
    BY PuzzleAssumption DEF Path
<1>2. /\ p \in Path /\ Len(p) = Len(r) + 1 /\ p # <<>>
      /\ p[1] = m
      /\ \A i \in 1 .. Len(r) : p[i + 1] = r[i]
      /\ SubSeq(p, 1, 0) = <<>>
      /\ \A k \in 0 .. Len(r) : After(c, SubSeq(p, 1, k + 1)) = After(Moved[c][m], SubSeq(r, 1, k))
    BY <1>1, PartsAfterMove
<1>3. After(c, SubSeq(p, 1, 0)) = c
    BY <1>2, AfterEmpty
<1>4. After(c, p) = After(Moved[c][m], r)
    <2>1. <<m>> \in Path /\ After(c, <<m>>) = Moved[c][m]
        BY AfterOne
    <2> QED BY <1>1, <2>1, AfterConcat
<1> HIDE DEF p
<1>5. (\A k \in 0 .. Len(p) : After(c, SubSeq(p, 1, k)) \in goal => k = Len(p))
        <=> (\A k \in 0 .. Len(r) : After(Moved[c][m], SubSeq(r, 1, k)) \in goal => k = Len(r))
    <2>1. ASSUME \A k \in 0 .. Len(p) : After(c, SubSeq(p, 1, k)) \in goal => k = Len(p),
                 NEW k \in 0 .. Len(r), After(Moved[c][m], SubSeq(r, 1, k)) \in goal
          PROVE  k = Len(r)
        <3>1. k + 1 \in 0 .. Len(p) /\ k \in Int /\ Len(r) \in Int
            BY <1>1, <1>2
        <3>2. After(c, SubSeq(p, 1, k + 1)) \in goal
            BY <1>2, <2>1
        <3>3. k + 1 = Len(p)
            BY <2>1, <3>1, <3>2
        <3> QED BY <1>2, <3>1, <3>3
    <2>2. ASSUME \A k \in 0 .. Len(r) : After(Moved[c][m], SubSeq(r, 1, k)) \in goal => k = Len(r),
                 NEW k \in 0 .. Len(p), After(c, SubSeq(p, 1, k)) \in goal
          PROVE  k = Len(p)
        <3>1. k # 0
            BY <1>3, <2>2
        <3>2. k - 1 \in 0 .. Len(r) /\ (k - 1) + 1 = k
            BY <1>1, <1>2, <3>1
        <3>3. After(Moved[c][m], SubSeq(r, 1, k - 1)) \in goal
            BY <1>2, <2>2, <3>2
        <3>4. k - 1 = Len(r)
            BY <2>2, <3>2, <3>3
        <3> QED BY <1>1, <1>2, <3>2, <3>4
    <2> QED BY <2>1, <2>2
<1>6. Canonical(p) <=> Canonical(r) /\ (r # <<>> => ~IsRedundant(m, r[1]))
    <2>1. ASSUME Canonical(r), r # <<>> => ~IsRedundant(m, r[1]) PROVE Canonical(p)
        BY <1>1, <2>1, CanonicalExtends DEF p
    <2>2. ASSUME Canonical(p), NEW i \in 1 .. Len(r) - 1 PROVE ~IsRedundant(r[i], r[i + 1])
        <3>1. i + 1 \in 1 .. Len(p) - 1 /\ i \in 1 .. Len(r) /\ i + 1 \in 1 .. Len(r)
            BY <1>1, <1>2
        <3>2. p[i + 1] = r[i] /\ p[(i + 1) + 1] = r[i + 1]
            BY <1>2, <3>1
        <3>3. ~IsRedundant(p[i + 1], p[(i + 1) + 1])
            BY <2>2, <3>1 DEF Canonical
        <3> QED BY <3>2, <3>3
    <2>3. ASSUME Canonical(p), r # <<>> PROVE ~IsRedundant(m, r[1])
        <3>1. 1 \in 1 .. Len(p) - 1 /\ 1 \in 1 .. Len(r)
            BY <1>1, <1>2, <2>3 DEF Path
        <3>2. p[1 + 1] = r[1]
            BY <1>2, <3>1
        <3>3. ~IsRedundant(p[1], p[1 + 1])
            BY <2>3, <3>1 DEF Canonical
        <3> QED BY <1>2, <3>2, <3>3
    <2>4. Canonical(p) => Canonical(r)
        BY <2>2 DEF Canonical
    <2> QED BY <2>1, <2>3, <2>4
<1>7. Len(p) <= n <=> Len(r) <= n - 1
    BY <1>1, <1>2
<1>8. m # 0
    BY MoveIsNotNone
<1>9. IsWay(p, c, last, n, goal, moves) <=>
        /\ Len(r) <= n - 1 /\ After(Moved[c][m], r) \in goal
        /\ \A k \in 0 .. Len(r) : After(Moved[c][m], SubSeq(r, 1, k)) \in goal => k = Len(r)
        /\ Canonical(r) /\ (r # <<>> => ~IsRedundant(m, r[1]))
        /\ last # 0 => ~IsRedundant(last, m)
    BY <1>1, <1>2, <1>4, <1>5, <1>6, <1>7 DEF IsWay
<1>10. IsWay(r, Moved[c][m], m, n - 1, goal, moves) <=>
        /\ Len(r) <= n - 1 /\ After(Moved[c][m], r) \in goal
        /\ \A k \in 0 .. Len(r) : After(Moved[c][m], SubSeq(r, 1, k)) \in goal => k = Len(r)
        /\ Canonical(r) /\ (r # <<>> => ~IsRedundant(m, r[1]))
    BY <1>8 DEF IsWay
<1> QED BY <1>9, <1>10 DEF p

LEMMA WaySplits ==
    ASSUME NEW goal, NEW moves \in SUBSET Move, NEW c \in Cube, c \notin goal, NEW last, NEW n \in Nat,
           NEW p, IsWay(p, c, last, n, goal, moves)
    PROVE  p[1] \in moves /\ Tail(p) \in Seq(moves) /\ p = <<p[1]>> \o Tail(p) /\ n # 0
<1>1. p \in Seq(moves) /\ Len(p) <= n /\ After(c, p) \in goal
    BY DEF IsWay
<1>2. p # <<>>
    BY <1>1, AfterEmpty
<1>3. p[1] \in moves /\ Tail(p) \in Seq(moves) /\ p = <<p[1]>> \o Tail(p) /\ Len(p) \in Nat /\ Len(p) # 0
    BY <1>1, <1>2
<1> QED BY <1>1, <1>3

\* From the goal itself the way is the empty one.
LEMMA WayFromGoal ==
    ASSUME NEW goal, NEW moves \in SUBSET Move, NEW c \in Cube, c \in goal, NEW last, NEW n \in Nat, NEW p
    PROVE  IsWay(p, c, last, n, goal, moves) <=> p = <<>>
<1>1. ASSUME IsWay(p, c, last, n, goal, moves) PROVE p = <<>>
    <2>1. p \in Seq(moves) /\ Len(p) \in Nat /\ 0 \in 0 .. Len(p) /\ SubSeq(p, 1, 0) = <<>>
        BY <1>1 DEF IsWay
    <2>2. 0 = Len(p)
        BY <1>1, <2>1, AfterEmpty DEF IsWay
    <2> QED BY <2>1, <2>2
<1>2. IsWay(<<>>, c, last, n, goal, moves)
    <2>1. <<>> \in Seq(moves) /\ Len(<<>>) = 0 /\ After(c, <<>>) = c
        BY AfterEmpty
    <2>2. Canonical(<<>>)
        BY <2>1 DEF Canonical
    <2> QED BY <2>1, <2>2 DEF IsWay
<1> QED BY <1>1, <1>2

LEMMA IntervalInduction ==
    ASSUME NEW n \in Nat, NEW K, 0 \in K, \A i \in 1 .. n : i - 1 \in K => i \in K
    PROVE  \A i \in 0 .. n : i \in K
<1> DEFINE Bad == {i \in 0 .. n : i \notin K}
<1>1. SUFFICES ASSUME Bad # {} PROVE FALSE
    OBVIOUS
<1>2. Bad \in SUBSET Nat
    OBVIOUS
<1>3. PICK i \in Bad : \A j \in Bad : i <= j
    BY <1>1, <1>2, LeastNatural
<1>4. i \in 1 .. n /\ i - 1 \in 0 .. n /\ ~(i <= i - 1)
    BY <1>3
<1> QED BY <1>3, <1>4

\* What the bounds of a search promise it.
Searchable(cubes, goal, bound, moves) ==
    /\ cubes \subseteq Cube /\ goal \subseteq cubes /\ moves \subseteq Move
    /\ \A c \in cubes, m \in moves : Moved[c][m] \in cubes
    /\ \A c \in cubes : bound[c] \in Nat /\ (bound[c] > 0 => c \notin Ball(goal, moves, bound[c] - 1))

\* The parts of Ways: the moves worth trying with d moves left, and what one of them
\* makes of the ways that follow it.
Worth(c, last, d, bound, moves) ==
    {m \in moves : (last # 0 => ~IsRedundant(last, m)) /\ 1 + bound[Moved[c][m]] <= d}

Through(m, rest) == [i \in DOMAIN rest |-> <<m>> \o rest[i]]

RightWays(s, c, last, n, goal, moves) ==
    /\ s \in Seq(Path) /\ IsInjective(s)
    /\ \A p : p \in ToSet(s) <=> IsWay(p, c, last, n, goal, moves)

RightTable(table, n, cubes, goal, moves) ==
    \A c \in cubes, last \in {0} \cup moves : RightWays(table[c][last], c, last, n, goal, moves)

LEMMA WorthIsNear ==
    ASSUME NEW cubes, NEW goal, NEW bound, NEW moves, Searchable(cubes, goal, bound, moves),
           NEW d \in Nat, NEW c \in cubes, NEW last, NEW m \in moves, last # 0 => ~IsRedundant(last, m),
           NEW r \in Seq(moves), Len(r) <= d - 1, After(Moved[c][m], r) \in goal
    PROVE  m \in Worth(c, last, d, bound, moves)
<1>1. /\ goal \in SUBSET Cube /\ moves \in SUBSET Move /\ Moved[c][m] \in Cube /\ Moved[c][m] \in cubes
      /\ bound[Moved[c][m]] \in Nat /\ Len(r) \in Nat
    BY DEF Searchable
<1>2. Moved[c][m] \in Ball(goal, moves, Len(r))
    BY <1>1, WayIsNear
<1>3. SUFFICES ASSUME ~(1 + bound[Moved[c][m]] <= d) PROVE FALSE
    BY DEF Worth
<1> DEFINE b == bound[Moved[c][m]]
<1>4. b > 0 /\ b - 1 \in Nat /\ Len(r) <= b - 1
    BY <1>1, <1>3
<1>5. Ball(goal, moves, Len(r)) \subseteq Ball(goal, moves, b - 1)
    BY <1>1, <1>4, BallGrows
<1> QED BY <1>2, <1>4, <1>5 DEF Searchable

LEMMA ThroughKeeps ==
    ASSUME NEW m \in Move, NEW rest \in Seq(Path)
    PROVE  /\ Through(m, rest) \in Seq(Path)
           /\ ToSet(Through(m, rest)) = {<<m>> \o r : r \in ToSet(rest)}
           /\ IsInjective(rest) => IsInjective(Through(m, rest))
<1> DEFINE t == Through(m, rest)
<1>1. DOMAIN rest = 1 .. Len(rest) /\ Len(rest) \in Nat /\ \A i \in 1 .. Len(rest) : rest[i] \in Path
    OBVIOUS
<1>2. /\ DOMAIN t = 1 .. Len(rest)
      /\ \A i \in 1 .. Len(rest) : t[i] = <<m>> \o rest[i]
    BY <1>1 DEF Through
<1>3. \A r \in Path : <<m>> \o r \in Path /\ Tail(<<m>> \o r) = r
    BY DEF Path
<1>4. t \in Seq(Path)
    <2>1. t = [i \in 1 .. Len(rest) |-> <<m>> \o rest[i]]
        BY <1>1 DEF Through
    <2>2. \A i \in 1 .. Len(rest) : <<m>> \o rest[i] \in Path
        BY <1>1, <1>3
    <2> HIDE DEF t
    <2> QED BY <1>1, <2>1, <2>2
<1> HIDE DEF t
<1>5. ToSet(t) = {<<m>> \o r : r \in ToSet(rest)}
    BY <1>1, <1>2 DEF ToSet
<1>6. ASSUME IsInjective(rest), NEW i \in 1 .. Len(rest), NEW j \in 1 .. Len(rest), t[i] = t[j]
      PROVE  i = j
    <2>2. rest[i] \in Path /\ rest[j] \in Path /\ <<m>> \o rest[i] = <<m>> \o rest[j]
        BY <1>1, <1>2, <1>6
    <2>3. Tail(<<m>> \o rest[i]) = rest[i] /\ Tail(<<m>> \o rest[j]) = rest[j]
        BY <1>3, <2>2
    <2>1. rest[i] = rest[j]
        BY <2>2, <2>3
    <2> QED BY <1>1, <1>6, <2>1 DEF IsInjective
<1>7. IsInjective(rest) => IsInjective(t)
    BY <1>2, <1>6 DEF IsInjective
<1> QED BY <1>4, <1>5, <1>7 DEF t

\* What the ways through each of the next moves are joined from.
WaysParts(parts, next, shorter, c) ==
    parts = [i \in DOMAIN next |-> Through(next[i], shorter[Moved[c][next[i]]][next[i]])]

\* The ways of one cube, after one move, from those of its neighbours with one move less.
LEMMA WaysExtend ==
    ASSUME NEW cubes, NEW goal, NEW bound, NEW moves, Searchable(cubes, goal, bound, moves),
           NEW d \in Nat, NEW shorter, d # 0 => RightTable(shorter, d - 1, cubes, goal, moves),
           NEW c \in cubes, c \notin goal, NEW last, NEW next \in Seq(Move), IsInjective(next),
           ToSet(next) = Worth(c, last, d, bound, moves),
           NEW parts, WaysParts(parts, next, shorter, c)
    PROVE  RightWays(FlattenSeq(parts), c, last, d, goal, moves)
<1>1. /\ goal \in SUBSET Cube /\ moves \in SUBSET Move /\ c \in Cube
      /\ \A m \in moves : Moved[c][m] \in cubes /\ Moved[c][m] \in Cube /\ bound[Moved[c][m]] \in Nat
    BY DEF Searchable
<1>2. DOMAIN next = 1 .. Len(next) /\ Len(next) \in Nat
    OBVIOUS
<1> DEFINE rest(m) == shorter[Moved[c][m]][m]
<1>3. ASSUME NEW i \in 1 .. Len(next)
      PROVE  /\ next[i] \in moves /\ next[i] \in Move
             /\ last # 0 => ~IsRedundant(last, next[i])
             /\ d # 0 /\ RightWays(rest(next[i]), Moved[c][next[i]], next[i], d - 1, goal, moves)
    <2>1. next[i] \in Worth(c, last, d, bound, moves)
        BY <1>2, <1>3 DEF ToSet
    <2>2. next[i] \in moves /\ (last # 0 => ~IsRedundant(last, next[i])) /\ 1 + bound[Moved[c][next[i]]] <= d
        BY <2>1 DEF Worth
    <2>3. d # 0
        BY <1>1, <2>2
    <2> QED BY <1>1, <2>2, <2>3 DEF RightTable
<1> HIDE DEF rest
<1>4. ASSUME NEW i \in 1 .. Len(next)
      PROVE  /\ parts[i] \in Seq(Path) /\ IsInjective(parts[i])
             /\ ToSet(parts[i]) = {<<next[i]>> \o r : r \in ToSet(rest(next[i]))}
    <2>1. parts[i] = Through(next[i], rest(next[i]))
        BY <1>2 DEF rest, WaysParts
    <2>2. rest(next[i]) \in Seq(Path) /\ IsInjective(rest(next[i])) /\ next[i] \in Move
        BY <1>3 DEF RightWays
    <2> QED BY <2>1, <2>2, ThroughKeeps
<1>5. parts \in Seq(Seq(Path)) /\ Len(parts) = Len(next)
    <2>1. parts = [i \in 1 .. Len(next) |-> Through(next[i], shorter[Moved[c][next[i]]][next[i]])]
        BY <1>2 DEF WaysParts
    <2>2. DOMAIN parts = 1 .. Len(next)
        BY <2>1
    <2>3. parts = [i \in 1 .. Len(next) |-> parts[i]]
        BY <2>1
    <2>4. \A i \in 1 .. Len(next) : parts[i] \in Seq(Path)
        BY <1>4
    <2> QED BY <1>2, <2>2, <2>3, <2>4
<1>6. ASSUME NEW i \in 1 .. Len(next), NEW j \in 1 .. Len(next), i # j
      PROVE  ToSet(parts[i]) \cap ToSet(parts[j]) = {}
    <2>1. next[i] # next[j]
        BY <1>2, <1>6 DEF IsInjective
    <2>2. SUFFICES ASSUME NEW p \in ToSet(parts[i]), p \in ToSet(parts[j]) PROVE FALSE
        OBVIOUS
    <2>3. PICK r \in ToSet(rest(next[i])) : p = <<next[i]>> \o r
        <3>1. ToSet(parts[i]) = {<<next[i]>> \o r : r \in ToSet(rest(next[i]))}
            BY <1>4
        <3> QED BY <2>2, <3>1
    <2>4. PICK s \in ToSet(rest(next[j])) : p = <<next[j]>> \o s
        <3>1. ToSet(parts[j]) = {<<next[j]>> \o s : s \in ToSet(rest(next[j]))}
            BY <1>4
        <3> QED BY <2>2, <3>1
    <2>5. r \in Path /\ s \in Path
        BY <1>3, Members DEF RightWays
    <2>6. p[1] = next[i] /\ p[1] = next[j]
        BY <1>3, <2>3, <2>4, <2>5, PartsAfterMove, <1>1
    <2> QED BY <2>1, <2>6
<1>7. Disjoint(parts)
    BY <1>4, <1>5, <1>6 DEF Disjoint
<1>8. /\ FlattenSeq(parts) \in Seq(Path)
      /\ ToSet(FlattenSeq(parts)) = UNION {ToSet(parts[i]) : i \in 1 .. Len(parts)}
      /\ IsInjective(FlattenSeq(parts))
    BY <1>5, <1>7, FlattenKeeps
<1>9. ASSUME NEW p \in ToSet(FlattenSeq(parts)) PROVE IsWay(p, c, last, d, goal, moves)
    <2>1. PICK i \in 1 .. Len(next) : p \in ToSet(parts[i])
        BY <1>5, <1>8
    <2>2. PICK r \in ToSet(rest(next[i])) : p = <<next[i]>> \o r
        BY <1>4, <2>1
    <2>3. IsWay(r, Moved[c][next[i]], next[i], d - 1, goal, moves)
        BY <1>3 DEF RightWays
    <2>4. r \in Seq(moves)
        BY <2>3 DEF IsWay
    <2> QED BY <1>1, <1>3, <2>2, <2>3, <2>4, WayAfterMove
<1>10. ASSUME NEW p, IsWay(p, c, last, d, goal, moves) PROVE p \in ToSet(FlattenSeq(parts))
    <2> DEFINE m == p[1]
               r == Tail(p)
    <2>1. m \in moves /\ r \in Seq(moves) /\ p = <<m>> \o r /\ d # 0
        BY <1>1, <1>10, WaySplits
    <2> HIDE DEF m, r
    <2>2. (last # 0 => ~IsRedundant(last, m)) /\ IsWay(r, Moved[c][m], m, d - 1, goal, moves)
        BY <1>1, <1>10, <2>1, WayAfterMove
    <2>3. Len(r) <= d - 1 /\ After(Moved[c][m], r) \in goal
        BY <2>2 DEF IsWay
    <2>4. m \in Worth(c, last, d, bound, moves)
        BY <2>1, <2>2, <2>3, WorthIsNear
    <2>5. PICK i \in 1 .. Len(next) : next[i] = m
        BY <1>2, <2>4 DEF ToSet
    <2>6. r \in ToSet(rest(next[i]))
        BY <1>3, <2>2, <2>5 DEF RightWays
    <2>7. p \in ToSet(parts[i])
        BY <1>4, <2>1, <2>5, <2>6
    <2> QED BY <1>5, <1>8, <2>7
<1> QED BY <1>8, <1>9, <1>10 DEF RightWays

\* An iteration whose values have a type of their own at each step.
LEMMA TypedIteration ==
    ASSUME NEW n \in Nat, NEW G, NEW z \in G[0], NEW step,
           \A i \in 1 .. n : \A x \in G[i - 1] : step[i][x] \in G[i]
    PROVE  \E f : Iterates(f, z, step, n) /\ \A i \in 0 .. n : f[i] \in G[i]
<1> DEFINE S == UNION {G[i] : i \in 0 .. n}
           typed == [i \in 1 .. n |-> [x \in S |-> IF x \in G[i - 1] THEN step[i][x] ELSE x]]
<1>1. z \in S
    OBVIOUS
<1>2. ASSUME NEW i \in 1 .. n, NEW x \in G[i - 1]
      PROVE  x \in S /\ step[i][x] \in S /\ typed[i][x] = step[i][x]
    <2>1. i - 1 \in 0 .. n /\ i \in 0 .. n
        OBVIOUS
    <2>2. x \in S /\ step[i][x] \in S
        BY <2>1
    <2> HIDE DEF S
    <2> QED BY <2>2
<1>3. typed \in [1 .. n -> [S -> S]]
    <2>1. ASSUME NEW i \in 1 .. n, NEW x \in S PROVE (IF x \in G[i - 1] THEN step[i][x] ELSE x) \in S
        BY <1>2
    <2> HIDE DEF S
    <2> QED BY <2>1
<1> HIDE DEF S, typed
<1>4. PICK f : Iterates(f, z, typed, n)
    BY <1>1, <1>3, IterationExists
<1>5. f[0] = z /\ \A i \in 1 .. n : f[i] = typed[i][f[i - 1]]
    BY <1>4 DEF Iterates
<1> DEFINE K == {i \in 0 .. n : f[i] \in G[i]}
<1>6. 0 \in K
    BY <1>5
<1>7. ASSUME NEW i \in 1 .. n, i - 1 \in K PROVE i \in K
    BY <1>2, <1>5, <1>7
<1>8. \A i \in 0 .. n : i \in K
    <2> HIDE DEF K
    <2> QED BY <1>6, <1>7, IntervalInduction
<1>9. \A i \in 1 .. n : i - 1 \in 0 .. n
    OBVIOUS
<1>10. \A i \in 1 .. n : typed[i][f[i - 1]] = step[i][f[i - 1]]
    BY <1>2, <1>8, <1>9
<1>11. f = [i \in 0 .. n |-> IF i = 0 THEN z ELSE step[i][f[i - 1]]]
    <2>1. f = [i \in 0 .. n |-> IF i = 0 THEN z ELSE typed[i][f[i - 1]]]
        BY <1>4 DEF Iterates
    <2>2. \A i \in 0 .. n : (IF i = 0 THEN z ELSE typed[i][f[i - 1]]) = IF i = 0 THEN z ELSE step[i][f[i - 1]]
        <3>1. \A i \in 0 .. n : i # 0 => i \in 1 .. n
            OBVIOUS
        <3> QED BY <1>10, <3>1
    <2> QED BY <2>1, <2>2
<1>12. \A i \in 0 .. n : f[i] \in G[i]
    BY <1>8
<1> HIDE DEF K
<1>13. Iterates(f, z, step, n)
    BY <1>11 DEF Iterates
<1> QED BY <1>12, <1>13

\* What Ways puts after the tables it has: the table of the ways with d moves or fewer.
Layer(shorter, d, cubes, goal, bound, moves) ==
    [c \in cubes |-> [last \in {0} \cup moves |->
        IF c \in goal THEN <<<<>>>>
        ELSE LET next == Tried(c, bound, Worth(c, last, d, bound, moves))
             IN FlattenSeq([i \in DOMAIN next |-> Through(next[i], shorter[d][Moved[c][next[i]]][next[i]])])]]

LEMMA LayerIsRight ==
    ASSUME NEW cubes, NEW goal, NEW bound, NEW moves, Searchable(cubes, goal, bound, moves),
           NEW d \in Nat, NEW shorter, d # 0 => RightTable(shorter[d], d - 1, cubes, goal, moves)
    PROVE  /\ RightTable(Layer(shorter, d, cubes, goal, bound, moves), d, cubes, goal, moves)
           /\ Layer(shorter, d, cubes, goal, bound, moves) \in [cubes -> [{0} \cup moves -> Seq(Path)]]
<1> DEFINE lasts == {0} \cup moves
           next(c, last) == Tried(c, bound, Worth(c, last, d, bound, moves))
           parts(c, last) ==
               [i \in DOMAIN next(c, last) |->
                   Through(next(c, last)[i], shorter[d][Moved[c][next(c, last)[i]]][next(c, last)[i]])]
           ways(c, last) == IF c \in goal THEN <<<<>>>> ELSE FlattenSeq(parts(c, last))
           layer == Layer(shorter, d, cubes, goal, bound, moves)
<1>1. layer = [c \in cubes |-> [last \in lasts |-> ways(c, last)]]
    BY DEF Layer
<1>2. ASSUME NEW c \in cubes, NEW last \in lasts
      PROVE  RightWays(ways(c, last), c, last, d, goal, moves)
    <2>1. c \in Cube /\ moves \in SUBSET Move
        BY DEF Searchable
    <2>2. CASE c \in goal
        <3>1. <<<<>>>> \in Seq(Path) /\ IsInjective(<<<<>>>>) /\ ToSet(<<<<>>>>) = {<<>>}
            BY DEF IsInjective, ToSet, Path
        <3>2. \A p : IsWay(p, c, last, d, goal, moves) <=> p = <<>>
            BY <2>1, <2>2, WayFromGoal
        <3>3. ways(c, last) = <<<<>>>>
            BY <2>2
        <3> HIDE DEF ways
        <3> QED BY <3>1, <3>2, <3>3 DEF RightWays
    <2>3. CASE c \notin goal
        <3>1. Worth(c, last, d, bound, moves) \in SUBSET Move
            BY <2>1 DEF Worth
        <3>2. /\ next(c, last) \in Seq(Move)
              /\ ToSet(next(c, last)) = Worth(c, last, d, bound, moves)
              /\ IsInjective(next(c, last))
            BY <3>1, TriedKeeps
        <3>3. WaysParts(parts(c, last), next(c, last), shorter[d], c)
            BY DEF WaysParts
        <3>4. ways(c, last) = FlattenSeq(parts(c, last))
            BY <2>3
        <3> HIDE DEF ways, parts, next
        <3>5. RightWays(FlattenSeq(parts(c, last)), c, last, d, goal, moves)
            BY <2>3, <3>2, <3>3, WaysExtend
        <3> QED BY <3>4, <3>5
    <2> QED BY <2>2, <2>3
<1> HIDE DEF ways, layer
<1>3. ASSUME NEW c \in cubes, NEW last \in lasts PROVE ways(c, last) \in Seq(Path)
    BY <1>2 DEF RightWays
<1>4. layer \in [cubes -> [lasts -> Seq(Path)]]
    BY <1>1, <1>3
<1>5. RightTable(layer, d, cubes, goal, moves)
    BY <1>1, <1>2 DEF RightTable
<1> QED BY <1>4, <1>5 DEF layer

\* The searches of both phases find every way into the goal of the moves they may use,
\* canonical, within the depth and entering the goal with its last move, each once, and
\* nothing else.
LEMMA WaysAreRight ==
    ASSUME NEW cubes, NEW goal, NEW bound, NEW moves, Searchable(cubes, goal, bound, moves),
           NEW n \in 0 .. MaxDepth
    PROVE  RightTable(Ways(cubes, goal, bound, moves)[n + 1], n, cubes, goal, moves)
<1> DEFINE N == MaxDepth + 1
           W == [cubes -> [{0} \cup moves -> Seq(Path)]]
           longer(shorter, i) == Append(shorter, Layer(shorter, i - 1, cubes, goal, bound, moves))
           Fold(f) == [i \in 0 .. N |-> IF i = 0 THEN <<>> ELSE longer(f[i - 1], i)]
           Folds(f) == f = Fold(f)
           tables == CHOOSE f : Folds(f)
           Right(x, i) == /\ x \in Seq(W) /\ Len(x) = i
                          /\ \A j \in 1 .. i : RightTable(x[j], j - 1, cubes, goal, moves)
<1>1. Ways(cubes, goal, bound, moves) = tables[N]
    <2>1. Ways(cubes, goal, bound, moves) = (CHOOSE f : f = [i \in 0 .. MaxDepth + 1 |->
             IF i = 0 THEN <<>>
             ELSE Append(f[i - 1], [c \in cubes |-> [last \in {0} \cup moves |->
                        IF c \in goal THEN <<<<>>>>
                        ELSE LET next == Tried(c, bound, Worth(c, last, i - 1, bound, moves))
                             IN FlattenSeq([k \in DOMAIN next |->
                                    Through(next[k], f[i - 1][i - 1][Moved[c][next[k]]][next[k]])])]])])[MaxDepth + 1]
        BY DEF Ways, Worth, Through
    <2> QED BY <2>1 DEF Layer
<1>2. N \in Nat /\ N = MaxDepth + 1 /\ MaxDepth \in Nat
    BY FastAssumption
<1>3. ASSUME NEW i \in 1 .. N, NEW x, Right(x, i - 1) PROVE Right(longer(x, i), i)
    <2> DEFINE layer == Layer(x, i - 1, cubes, goal, bound, moves)
    <2>1. i - 1 \in Nat /\ x \in Seq(W) /\ Len(x) = i - 1 /\ (i - 1 # 0 => i - 1 \in 1 .. i - 1)
        BY <1>3
    <2>2. i - 1 # 0 => RightTable(x[i - 1], (i - 1) - 1, cubes, goal, moves)
        BY <1>3, <2>1
    <2>3. RightTable(layer, i - 1, cubes, goal, moves) /\ layer \in W
        BY <2>1, <2>2, LayerIsRight
    <2> HIDE DEF layer, W
    <2>4. /\ Append(x, layer) \in Seq(W) /\ Len(Append(x, layer)) = (i - 1) + 1
          /\ \A j \in 1 .. i - 1 : Append(x, layer)[j] = x[j]
          /\ Append(x, layer)[(i - 1) + 1] = layer
        BY <2>1, <2>3
    <2>5. (i - 1) + 1 = i
        BY <1>3
    <2>6. ASSUME NEW j \in 1 .. i PROVE RightTable(Append(x, layer)[j], j - 1, cubes, goal, moves)
        <3>1. CASE j = i
            BY <2>3, <2>4, <2>5, <3>1
        <3>2. CASE j # i
            <4>1. j \in 1 .. i - 1
                BY <3>2
            <4> QED BY <1>3, <2>4, <4>1
        <3> QED BY <3>1, <3>2
    <2> QED BY <2>4, <2>5, <2>6 DEF layer
<1>4. Right(<<>>, 0)
    OBVIOUS
<1> HIDE DEF Right, longer
<1>5. ASSUME NEW f, Folds(f), NEW i \in 0 .. N PROVE Right(f[i], i)
    <2> DEFINE K == {k \in 0 .. N : Right(f[k], k)}
    <2>1. f[0] = <<>> /\ \A k \in 1 .. N : f[k] = longer(f[k - 1], k)
        BY <1>2, <1>5
    <2>2. 0 \in K
        BY <1>2, <1>4, <2>1
    <2>3. \A k \in 1 .. N : k - 1 \in K => k \in K
        BY <1>2, <1>3, <2>1
    <2>4. \A k \in 0 .. N : k \in K
        <3> HIDE DEF K
        <3> QED BY <1>2, <2>2, <2>3, IntervalInduction
    <2> QED BY <2>4
<1>6. PICK h : Folds(h)
    <2> DEFINE G == [i \in 0 .. N |-> {x \in Seq(W) : Right(x, i)}]
               walk == [i \in 1 .. N |-> [x \in G[i - 1] |-> longer(x, i)]]
    <2>1. <<>> \in G[0]
        BY <1>2, <1>4
    <2>2. ASSUME NEW i \in 1 .. N, NEW x \in G[i - 1] PROVE walk[i][x] = longer(x, i) /\ walk[i][x] \in G[i]
        <3>1. i - 1 \in 0 .. N /\ i \in 0 .. N
            BY <1>2
        <3>2. Right(x, i - 1)
            BY <2>2, <3>1
        <3>3. Right(longer(x, i), i)
            BY <1>3, <3>2
        <3>4. longer(x, i) \in Seq(W)
            BY <3>3 DEF Right
        <3>5. longer(x, i) \in G[i]
            BY <3>1, <3>3, <3>4
        <3> QED BY <2>2, <3>5
    <2> HIDE DEF G, walk
    <2>3. PICK h : Iterates(h, <<>>, walk, N) /\ \A i \in 0 .. N : h[i] \in G[i]
        BY <1>2, <2>1, <2>2, TypedIteration
    <2>4. \A i \in 1 .. N : walk[i][h[i - 1]] = longer(h[i - 1], i)
        <3>1. \A i \in 1 .. N : i - 1 \in 0 .. N
            BY <1>2
        <3> QED BY <2>2, <2>3, <3>1
    <2>5. h = [i \in 0 .. N |-> IF i = 0 THEN <<>> ELSE walk[i][h[i - 1]]]
        BY <2>3 DEF Iterates
    <2>6. \A i \in 0 .. N : i # 0 => i \in 1 .. N
        BY <1>2
    <2>7. \A i \in 0 .. N : (IF i = 0 THEN <<>> ELSE walk[i][h[i - 1]]) = IF i = 0 THEN <<>> ELSE longer(h[i - 1], i)
        BY <2>4, <2>6
    <2>8. h = Fold(h)
        BY <2>5, <2>7
    <2> QED BY <2>8
<1>7. Folds(tables)
    <2> HIDE DEF Folds
    <2> QED BY <1>6
<1> HIDE DEF tables, Folds
<1>8. Right(tables[N], N)
    <2>1. N \in 0 .. N
        BY <1>2
    <2> QED BY <1>5, <1>7, <2>1
<1>9. n + 1 \in 1 .. N /\ (n + 1) - 1 = n
    BY <1>2
<1> QED BY <1>1, <1>8, <1>9 DEF Right

-----------------------------------------------------------------------------
(* The searches as the solver calls them. *)

LEMMA AllowedIsClosed ==
    ASSUME NEW blocked
    PROVE  /\ AllowedWithout(blocked) \in SUBSET Move /\ Closed(AllowedWithout(blocked))
           /\ AllowedWithout(blocked) \cap Phase2Move \in SUBSET Move
           /\ Closed(AllowedWithout(blocked) \cap Phase2Move)
<1>1. Closed(Move) /\ Closed(Phase2Move)
    BY TurnsAssumption, FastAssumption
<1>2. Phase2Move \subseteq Move
    BY FastAssumption
<1>3. ASSUME NEW all \in SUBSET Move, Closed(all)
      PROVE  Closed({m \in all : FaceOf[m] \notin blocked})
    BY <1>3 DEF Closed
<1>4. AllowedWithout(blocked) \cap Phase2Move = {m \in Phase2Move : FaceOf[m] \notin blocked}
    BY <1>2 DEF AllowedWithout
<1> QED BY <1>1, <1>2, <1>3, <1>4 DEF AllowedWithout

LEMMA Phase1Searchable ==
    ASSUME NEW blocked
    PROVE  Searchable(Cube, G1, Phase1Bound, AllowedWithout(blocked))
<1> DEFINE moves == AllowedWithout(blocked)
<1>1. moves \in SUBSET Move /\ Move \in SUBSET Move /\ G1 \in SUBSET Cube
    BY FastAssumption, AllowedIsClosed
<1> HIDE DEF moves
<1>2. ASSUME NEW c \in Cube
      PROVE  Phase1Bound[c] \in Nat /\ (Phase1Bound[c] > 0 => c \notin Ball(G1, moves, Phase1Bound[c] - 1))
    <2>1. Phase1Bound[c] \in Nat /\ (Phase1Bound[c] > 0 => c \notin Ball(G1, Move, Phase1Bound[c] - 1))
        BY BoundsAssumption DEF Admissible
    <2>2. ASSUME Phase1Bound[c] > 0
          PROVE  Ball(G1, moves, Phase1Bound[c] - 1) \subseteq Ball(G1, Move, Phase1Bound[c] - 1)
        <3>1. Phase1Bound[c] - 1 \in Nat
            BY <2>1, <2>2
        <3> QED BY <1>1, <3>1, BallMonotone
    <2> QED BY <2>1, <2>2
<1>3. \A c \in Cube, m \in moves : Moved[c][m] \in Cube
    BY <1>1, PuzzleAssumption
<1> QED BY <1>1, <1>2, <1>3 DEF Searchable, moves

LEMMA Phase2Searchable ==
    ASSUME NEW blocked
    PROVE  Searchable(G1, {Solved}, Phase2Bound, AllowedWithout(blocked) \cap Phase2Move)
<1> DEFINE moves == AllowedWithout(blocked) \cap Phase2Move
<1>1. /\ moves \in SUBSET Move /\ moves \subseteq Phase2Move /\ Phase2Move \in SUBSET Move
      /\ G1 \in SUBSET Cube /\ {Solved} \in SUBSET Cube /\ {Solved} \subseteq G1
    BY FastAssumption, PuzzleAssumption, AllowedIsClosed
<1> HIDE DEF moves
<1>2. ASSUME NEW c \in G1
      PROVE  Phase2Bound[c] \in Nat /\ (Phase2Bound[c] > 0 => c \notin Ball({Solved}, moves, Phase2Bound[c] - 1))
    <2>1. /\ Phase2Bound[c] \in Nat
          /\ Phase2Bound[c] > 0 => c \notin Ball({Solved}, Phase2Move, Phase2Bound[c] - 1)
        BY BoundsAssumption
    <2>2. ASSUME Phase2Bound[c] > 0
          PROVE  Ball({Solved}, moves, Phase2Bound[c] - 1) \subseteq Ball({Solved}, Phase2Move, Phase2Bound[c] - 1)
        <3>1. Phase2Bound[c] - 1 \in Nat
            BY <2>1, <2>2
        <3> QED BY <1>1, <3>1, BallMonotone
    <2> QED BY <2>1, <2>2
<1>3. \A c \in G1, m \in moves : Moved[c][m] \in G1
    BY <1>1, FastAssumption
<1> QED BY <1>1, <1>2, <1>3 DEF Searchable, moves

LEMMA Phase1IsRight ==
    ASSUME NEW blocked \in Restriction, NEW n \in 0 .. MaxDepth, NEW c \in Cube
    PROVE  RightWays(Phase1Ways[blocked][n + 1][c][0], c, 0, n, G1, AllowedWithout(blocked))
<1>1. Searchable(Cube, G1, Phase1Bound, AllowedWithout(blocked))
    BY Phase1Searchable
<1>2. RightTable(Ways(Cube, G1, Phase1Bound, AllowedWithout(blocked))[n + 1], n, Cube, G1, AllowedWithout(blocked))
    BY <1>1, WaysAreRight
<1> QED BY <1>2 DEF RightTable, Phase1Ways

LEMMA Phase2IsRight ==
    ASSUME NEW blocked \in Restriction, NEW n \in 0 .. MaxDepth, NEW c \in G1
    PROVE  RightWays(Phase2Ways[blocked][n + 1][c][0], c, 0, n, {Solved}, AllowedWithout(blocked) \cap Phase2Move)
<1>1. Searchable(G1, {Solved}, Phase2Bound, AllowedWithout(blocked) \cap Phase2Move)
    BY Phase2Searchable
<1>2. RightTable(Ways(G1, {Solved}, Phase2Bound, AllowedWithout(blocked) \cap Phase2Move)[n + 1],
                 n, G1, {Solved}, AllowedWithout(blocked) \cap Phase2Move)
    BY <1>1, WaysAreRight
<1> QED BY <1>2 DEF RightTable, Phase2Ways

\* A cube within n moves of the goal has a way the searches may take.
LEMMA NearHasWay ==
    ASSUME NEW goal \in SUBSET Cube, NEW moves \in SUBSET Move, Closed(moves),
           NEW n \in Nat, NEW c \in Ball(goal, moves, n)
    PROVE  \E p : IsWay(p, c, 0, n, goal, moves)
<1> DEFINE Near == {k \in Nat : c \in Ball(goal, moves, k)}
<1>1. n \in Near /\ Near \in SUBSET Nat
    OBVIOUS
<1>2. PICK k \in Near : \A j \in Near : k <= j
    BY <1>1, LeastNatural
<1>3. k \in Nat /\ k <= n /\ c \in Ball(goal, moves, k) /\ c \in Cube
    BY <1>1, <1>2, BallSteps
<1>4. PICK p \in Seq(moves) : Len(p) <= k /\ After(c, p) \in goal /\ Canonical(p)
    BY <1>3, CanonicalWay
<1>5. ASSUME NEW j \in 0 .. Len(p), After(c, SubSeq(p, 1, j)) \in goal PROVE j = Len(p)
    <2>1. SubSeq(p, 1, j) \in Seq(moves) /\ Len(SubSeq(p, 1, j)) = j /\ j \in Nat /\ j <= Len(p) /\ Len(p) \in Nat
        OBVIOUS
    <2>2. c \in Ball(goal, moves, j)
        BY <1>3, <1>5, <2>1, WayIsNear
    <2>3. k <= j
        BY <1>2, <2>1, <2>2
    <2> QED BY <1>3, <1>4, <2>1, <2>3
<1>6. Len(p) <= n
    BY <1>3, <1>4
<1> QED BY <1>4, <1>5, <1>6 DEF IsWay

\* A search that finds nothing leaves nothing to find.
LEMMA NothingFound ==
    ASSUME NEW goal \in SUBSET Cube, NEW moves \in SUBSET Move, Closed(moves),
           NEW n \in Nat, NEW c, RightWays(<<>>, c, 0, n, goal, moves)
    PROVE  c \notin Ball(goal, moves, n)
<1>1. SUFFICES ASSUME c \in Ball(goal, moves, n) PROVE FALSE
    OBVIOUS
<1>2. PICK p : IsWay(p, c, 0, n, goal, moves)
    BY <1>1, NearHasWay
<1>3. p \in ToSet(<<>>)
    BY <1>2 DEF RightWays
<1> QED BY <1>3 DEF ToSet

-----------------------------------------------------------------------------
(* The inductive invariant. *)

\* A candidate of phase 1, and a solution as solve may return it.
Enters(p) == IsWay(p, request.start, 0, request.depth, G1, AllowedMoves)
Solves(p) ==
    p \in Seq(AllowedMoves) /\ Len(p) <= request.depth /\ After(request.start, p) = Solved

\* What there is to complete is what phase 1 may return, no path of it twice.
CandidatesEnter ==
    pc \in {"phase1", "complete", "phase2"} =>
        IsInjective(candidates) /\ \A p \in ToSet(candidates) : Enters(p)

BestSolves == best # <<>> => Solves(best)

\* Below the limit of the iteration there is nothing to find.
LimitsAreSafe ==
    /\ pc = "phase1" /\ candidates = <<>> /\ limit > 0 =>
           request.start \notin Ball(G1, AllowedMoves, limit - 1)
    /\ pc = "phase2" /\ limit > 0 =>
           CandidateCube \notin Ball({Solved}, AllowedMoves \cap Phase2Move, limit - 1)

\* The beam's paths are as long as its depth, and begin every canonical solution there is
\* until one is dropped.
BeamHolds ==
    pc = "beam" =>
        /\ beam # <<>> /\ Depth <= request.depth
        /\ \A p \in ToSet(beam) : p \in Seq(AllowedMoves) /\ Len(p) = Depth
        /\ ~trimmed => \A q \in Seq(AllowedMoves) :
              Solves(q) /\ Canonical(q) => Len(q) > Depth /\ SubSeq(q, 1, Depth) \in ToSet(beam)

BeamIsLast == pc \notin {"beam", "done"} => beam = <<>>

Answered ==
    /\ pc # "done" => answer.status = "running"
    /\ answer.status = "Found" => Solves(answer.moves)
    /\ answer.status = "Timeout" => expired

IInv ==
    /\ TypeOK /\ CandidatesEnter /\ BestSolves /\ LimitsAreSafe
    /\ BeamHolds /\ BeamIsLast /\ Answered /\ BeamIsExhaustive

LEMMA RequestFacts ==
    ASSUME TypeOK
    PROVE  /\ request.start \in Cube /\ request.start # Solved
           /\ request.depth \in 0 .. MaxDepth /\ request.depth \in Nat /\ MaxDepth \in Nat
           /\ request.blocked \in Restriction /\ request.profile \in Profile
           /\ AllowedMoves \in SUBSET Move /\ Closed(AllowedMoves)
           /\ AllowedMoves \cap Phase2Move \in SUBSET Move /\ Closed(AllowedMoves \cap Phase2Move)
           /\ G1 \in SUBSET Cube /\ {Solved} \in SUBSET Cube /\ Solved \in G1
<1>1. request \in RequestType /\ MaxDepth \in Nat
    BY FastAssumption DEF TypeOK
<1>2. G1 \in SUBSET Cube /\ {Solved} \in SUBSET Cube /\ Solved \in G1
    BY FastAssumption, PuzzleAssumption
<1>3. /\ AllowedMoves \in SUBSET Move /\ Closed(AllowedMoves)
      /\ AllowedMoves \cap Phase2Move \in SUBSET Move /\ Closed(AllowedMoves \cap Phase2Move)
    BY AllowedIsClosed DEF AllowedMoves
<1>4. /\ request.start \in Cube \ {Solved} /\ request.depth \in 0 .. MaxDepth
      /\ request.blocked \in Restriction /\ request.profile \in Profile
    BY <1>1 DEF RequestType
<1> QED BY <1>1, <1>2, <1>3, <1>4

LEMMA AttemptFacts ==
    ASSUME TypeOK
    PROVE  /\ Len(Attempts) = 2
           /\ \A a \in 1 .. 2 : Attempts[a].collected \in Nat \ {0} /\ Attempts[a].completed \in Nat \ {0}
           /\ Width[request.profile] \in Nat \ {0}
<1>1. request.profile \in Profile
    BY RequestFacts
<1>2. /\ QuickLimit[request.profile] \in Nat \ {0} /\ FullLimit[request.profile] \in Nat \ {0}
      /\ Width[request.profile] \in Nat \ {0}
    BY <1>1, FastAssumption
<1>3. \A a \in 1 .. 2 : a = 1 \/ a = 2
    OBVIOUS
<1> QED BY <1>2, <1>3 DEF Attempts

LEMMA WaysAreCanonical ==
    ASSUME TypeOK, NEW p, Enters(p)
    PROVE  /\ p \in Seq(AllowedMoves) /\ p \in Path /\ Len(p) \in Nat /\ Len(p) <= request.depth
           /\ After(request.start, p) \in G1
<1>1. p \in Seq(AllowedMoves) /\ Len(p) <= request.depth /\ After(request.start, p) \in G1
    BY DEF Enters, IsWay
<1> QED BY <1>1, RequestFacts DEF Path

LEMMA SolvesIsPath ==
    ASSUME TypeOK, NEW p, Solves(p)
    PROVE  p \in Path /\ Len(p) \in 1 .. request.depth /\ ToSet(p) \subseteq AllowedMoves /\ p # <<>>
<1>1. p \in Seq(AllowedMoves) /\ Len(p) <= request.depth /\ After(request.start, p) = Solved
    BY DEF Solves
<1>2. p # <<>>
    BY <1>1, RequestFacts, AfterEmpty
<1>3. p \in Path /\ Len(p) \in Nat /\ Len(p) # 0
    BY <1>1, <1>2, RequestFacts DEF Path
<1>4. ToSet(p) \subseteq AllowedMoves
    BY <1>1, Members
<1> QED BY <1>1, <1>2, <1>3, <1>4, RequestFacts

-----------------------------------------------------------------------------
(* What the invariant says of the properties. *)

LEMMA AnswerFollows ==
    ASSUME IInv
    PROVE  AnswerIsTrue
<1>1. TypeOK /\ Answered
    BY DEF IInv
<1>2. ASSUME answer.status = "Found"
      PROVE  /\ After(request.start, answer.moves) = Solved
             /\ Len(answer.moves) \in 1 .. request.depth
             /\ ToSet(answer.moves) \subseteq AllowedMoves
    <2>1. Solves(answer.moves)
        BY <1>1, <1>2 DEF Answered
    <2> QED BY <1>1, <2>1, SolvesIsPath DEF Solves
<1> QED BY <1>1, <1>2 DEF AnswerIsTrue, Answered

LEMMA EntriesFollow ==
    ASSUME IInv
    PROVE  CandidatesAreEntries
<1>1. SUFFICES ASSUME pc \in {"phase1", "complete"}
               PROVE  /\ IsInjective(candidates)
                      /\ \A p \in ToSet(candidates) :
                            \A k \in 0 .. Len(p) : After(request.start, SubSeq(p, 1, k)) \in G1 <=> k = Len(p)
    BY DEF CandidatesAreEntries
<1>2. TypeOK /\ IsInjective(candidates) /\ \A p \in ToSet(candidates) : Enters(p)
    BY <1>1 DEF IInv, CandidatesEnter
<1>3. ASSUME NEW p, Enters(p), NEW k \in 0 .. Len(p)
      PROVE  After(request.start, SubSeq(p, 1, k)) \in G1 <=> k = Len(p)
    <2>1. p \in Path /\ After(request.start, p) \in G1
        BY <1>2, <1>3, WaysAreCanonical
    <2>2. SubSeq(p, 1, Len(p)) = p
        BY <2>1 DEF Path
    <2> QED BY <1>3, <2>1, <2>2 DEF Enters, IsWay
<1> QED BY <1>2, <1>3

LEMMA LengthsFollow ==
    ASSUME IInv
    PROVE  NoLengthSkipped
<1>1. TypeOK /\ LimitsAreSafe
    BY DEF IInv
<1>2. request.blocked \in Restriction /\ MaxDepth \in Nat
    BY <1>1, RequestFacts
<1>3. ASSUME pc = "phase1", candidates = <<>>, limit \in 1 .. MaxDepth + 1
      PROVE  request.start \notin WithinOfG1[request.blocked][limit - 1]
    <2>1. limit - 1 \in 0 .. MaxDepth /\ limit > 0
        BY <1>2, <1>3
    <2>2. WithinOfG1[request.blocked][limit - 1] = Ball(G1, AllowedMoves, limit - 1)
        BY <1>2, <2>1 DEF WithinOfG1, AllowedMoves
    <2> QED BY <1>1, <1>3, <2>1, <2>2 DEF LimitsAreSafe
<1>4. ASSUME pc = "phase2", limit \in 1 .. MaxDepth
      PROVE  CandidateCube \notin WithinOfGoalByPhase2[request.blocked][limit - 1]
    <2>1. limit - 1 \in 0 .. MaxDepth /\ limit > 0
        BY <1>2, <1>4
    <2>2. WithinOfGoalByPhase2[request.blocked][limit - 1] = Ball({Solved}, AllowedMoves \cap Phase2Move, limit - 1)
        BY <1>2, <2>1 DEF WithinOfGoalByPhase2, AllowedMoves
    <2> QED BY <1>1, <1>4, <2>1, <2>2 DEF LimitsAreSafe
<1> QED BY <1>3, <1>4 DEF NoLengthSkipped

-----------------------------------------------------------------------------
(* Every step keeps it. *)

LEMMA InitHolds ==
    ASSUME Init
    PROVE  IInv
<1>1. /\ <<>> \in Seq(Path) /\ <<>> \in Path /\ FALSE \in BOOLEAN /\ 0 \in Nat
      /\ request \in RequestType
    BY FastAssumption DEF Init, Path
<1>2. Len(Attempts) = 2
    BY DEF Attempts
<1>3. TypeOK
    <2>1. answer \in [status : {"running", "Found", "Timeout", "DepthLimitExceeded"}, moves : Path]
        BY <1>1 DEF Init
    <2>2. attempt \in 0 .. Len(Attempts)
        BY <1>2 DEF Init
    <2> QED BY <1>1, <2>1, <2>2 DEF Init, TypeOK
<1>4. CandidatesEnter /\ BestSolves /\ LimitsAreSafe /\ BeamHolds /\ BeamIsLast
    BY DEF Init, CandidatesEnter, BestSolves, LimitsAreSafe, BeamHolds, BeamIsLast
<1>5. Answered /\ BeamIsExhaustive
    BY DEF Init, Answered, BeamIsExhaustive
<1> QED BY <1>3, <1>4, <1>5 DEF IInv

\* The answer given at the end, whatever search gives it.
LEMMA ReturnKeeps ==
    ASSUME IInv, NEW status \in {"Found", "Timeout", "DepthLimitExceeded"}, NEW moves \in Path,
           Return(status, moves),
           status = "Found" => Solves(moves),
           status = "Timeout" => expired,
           ~trimmed /\ beam # <<>> /\ status = "Found" =>
               request.start \notin Ball({Solved}, AllowedMoves, Len(moves) - 1),
           ~trimmed /\ beam # <<>> /\ status = "DepthLimitExceeded" =>
               request.start \notin Ball({Solved}, AllowedMoves, request.depth)
    PROVE  IInv'
<1>1. /\ pc' = "done" /\ answer' = [status |-> status, moves |-> moves]
      /\ answer'.status = status /\ answer'.moves = moves
      /\ UNCHANGED <<request, expired, attempt, limit, candidates, best, beam, trimmed>>
    BY DEF Return
<1>2. TypeOK
    BY DEF IInv
<1>3. TypeOK'
    <2>1. Attempts' = Attempts
        BY <1>1 DEF Attempts
    <2>2. answer' \in [status : {"running", "Found", "Timeout", "DepthLimitExceeded"}, moves : Path]
        BY <1>1
    <2> QED BY <1>1, <1>2, <2>1, <2>2 DEF TypeOK
<1>4. CandidatesEnter' /\ LimitsAreSafe' /\ BeamHolds' /\ BeamIsLast'
    BY <1>1 DEF CandidatesEnter, LimitsAreSafe, BeamHolds, BeamIsLast
<1>5. AllowedMoves' = AllowedMoves
    BY <1>1 DEF AllowedMoves
<1>6. \A p : Solves(p)' <=> Solves(p)
    BY <1>1, <1>5 DEF Solves
<1>7. BestSolves' /\ Answered'
    BY <1>1, <1>6 DEF IInv, BestSolves, Answered
<1>8. BeamIsExhaustive'
    <2>1. request.blocked \in Restriction /\ request.depth \in 0 .. MaxDepth /\ MaxDepth \in Nat
        BY <1>2, RequestFacts
    <2>2. ASSUME NEW n \in 0 .. MaxDepth
          PROVE  WithinOfGoal[request.blocked][n] = Ball({Solved}, AllowedMoves, n)
        BY <2>1 DEF WithinOfGoal, AllowedMoves
    <2>3. ASSUME ~trimmed, beam # <<>>, status = "Found"
          PROVE  request.start \notin WithinOfGoal[request.blocked][Len(moves) - 1]
        <3>1. Len(moves) \in 1 .. request.depth
            BY <1>2, <2>3, SolvesIsPath
        <3>2. Len(moves) - 1 \in 0 .. MaxDepth
            BY <2>1, <3>1
        <3> QED BY <2>2, <2>3, <3>2
    <2>4. ASSUME ~trimmed, beam # <<>>, status = "DepthLimitExceeded"
          PROVE  request.start \notin WithinOfGoal[request.blocked][request.depth]
        BY <2>1, <2>2, <2>4
    <2> QED BY <1>1, <2>3, <2>4 DEF BeamIsExhaustive
<1> QED BY <1>3, <1>4, <1>7, <1>8 DEF IInv

\* A step that leaves the beam and the answer alone.
LEMMA BeforeTheBeam ==
    ASSUME IInv, pc # "beam", pc # "done", pc' # "beam", pc' # "done",
           UNCHANGED <<request, expired, beam, trimmed, answer>>
    PROVE  BeamHolds' /\ BeamIsLast' /\ Answered' /\ BeamIsExhaustive'
<1>1. beam = <<>> /\ answer.status = "running"
    BY DEF IInv, BeamIsLast, Answered
<1>2. answer'.status = "running" /\ beam' = <<>>
    BY <1>1
<1> QED BY <1>2 DEF BeamHolds, BeamIsLast, Answered, BeamIsExhaustive

LEMMA DeadlineKeeps ==
    ASSUME IInv, DeadlineExpires
    PROVE  IInv'
<1>1. expired' = TRUE /\ UNCHANGED <<request, attempt, pc, limit, candidates, best, beam, trimmed, answer>>
    BY DEF DeadlineExpires
<1>2. AllowedMoves' = AllowedMoves /\ Attempts' = Attempts /\ Depth' = Depth /\ CandidateCube' = CandidateCube
    BY <1>1 DEF AllowedMoves, Attempts, Depth, CandidateCube, Candidate
<1>3. (\A p : Solves(p)' <=> Solves(p)) /\ (\A p : Enters(p)' <=> Enters(p))
    BY <1>1, <1>2 DEF Solves, Enters
<1>4. TypeOK'
    BY <1>1, <1>2 DEF IInv, TypeOK
<1>5. CandidatesEnter' /\ BestSolves' /\ LimitsAreSafe' /\ BeamIsLast' /\ Answered'
    BY <1>1, <1>2, <1>3 DEF IInv, CandidatesEnter, BestSolves, LimitsAreSafe, BeamIsLast, Answered
<1>6. BeamHolds'
    BY <1>1, <1>2, <1>3 DEF IInv, BeamHolds
<1>7. BeamIsExhaustive'
    BY <1>1 DEF IInv, BeamIsExhaustive
<1> QED BY <1>4, <1>5, <1>6, <1>7 DEF IInv

LEMMA BeginAttemptKeeps ==
    ASSUME IInv, BeginAttempt
    PROVE  IInv'
<1>1. /\ pc = "attempt" /\ attempt < Len(Attempts) /\ attempt' = attempt + 1 /\ best' = <<>>
      /\ limit' = Phase1Bound[request.start]
      /\ \/ request.start \in G1 /\ pc' = "complete" /\ candidates' = <<<<>>>>
         \/ request.start \notin G1 /\ pc' = "phase1" /\ candidates' = <<>>
      /\ UNCHANGED <<request, expired, beam, trimmed, answer>>
    BY DEF BeginAttempt, NextAttempt
<1>2. TypeOK
    BY DEF IInv
<1>3. AllowedMoves' = AllowedMoves /\ Attempts' = Attempts
    BY <1>1 DEF AllowedMoves, Attempts
<1>4. /\ Phase1Bound[request.start] \in Nat
      /\ Phase1Bound[request.start] > 0 =>
             request.start \notin Ball(G1, AllowedMoves, Phase1Bound[request.start] - 1)
    BY <1>2, RequestFacts, Phase1Searchable DEF Searchable, AllowedMoves
<1>5. /\ attempt' \in 1 .. 2 /\ Len(Attempts) = 2
      /\ Attempts[attempt'].collected \in Nat \ {0} /\ Attempts[attempt'].completed \in Nat \ {0}
    <2>1. Len(Attempts) = 2 /\ attempt \in 0 .. 2
        BY <1>2, AttemptFacts DEF TypeOK
    <2>2. attempt' \in 1 .. 2
        BY <1>1, <2>1
    <2> QED BY <1>2, <2>1, <2>2, AttemptFacts
<1>6. /\ <<<<>>>> \in Seq(Path) /\ Len(<<<<>>>>) = 1 /\ <<>> \in Seq(Path) /\ Len(<<>>) = 0 /\ <<>> \in Path
      /\ IsInjective(<<<<>>>>) /\ ToSet(<<<<>>>>) = {<<>>} /\ IsInjective(<<>>) /\ ToSet(<<>>) = {}
    BY DEF IsInjective, ToSet, Path
<1>7. TypeOK'
    <2>1. candidates' \in Seq(Path) /\ pc' \in {"complete", "phase1"}
        BY <1>1, <1>6
    <2>2. pc' = "phase1" => Len(candidates') < Attempts[attempt'].collected
        BY <1>1, <1>5, <1>6
    <2>3. pc' = "complete" => Len(candidates') <= Attempts[attempt'].completed
        <3>1. pc' = "complete" => Len(candidates') = 1
            BY <1>1, <1>6
        <3> QED BY <1>5, <3>1
    <2>4. attempt' \in 0 .. Len(Attempts) /\ attempt' > 0 /\ limit' \in Nat
        BY <1>1, <1>4, <1>5
    <2> QED BY <1>1, <1>2, <1>3, <1>6, <2>1, <2>2, <2>3, <2>4 DEF TypeOK
<1>8. CandidatesEnter'
    <2>1. request.start \in G1 => Enters(<<>>)
        BY <1>2, RequestFacts, WayFromGoal DEF Enters
    <2>2. \A p : Enters(p)' <=> Enters(p)
        BY <1>1, <1>3 DEF Enters
    <2> QED BY <1>1, <1>6, <2>1, <2>2 DEF CandidatesEnter
<1>9. BestSolves'
    BY <1>1 DEF BestSolves
<1>10. LimitsAreSafe'
    BY <1>1, <1>3, <1>4 DEF LimitsAreSafe
<1>11. BeamHolds' /\ BeamIsLast' /\ Answered' /\ BeamIsExhaustive'
    BY <1>1, BeforeTheBeam
<1> QED BY <1>7, <1>8, <1>9, <1>10, <1>11 DEF IInv

LEMMA AttemptsEndKeeps ==
    ASSUME IInv, AttemptsEnd
    PROVE  IInv'
<1>1. /\ pc = "attempt" /\ pc' = "beam" /\ beam' = <<<<>>>>
      /\ UNCHANGED <<request, expired, attempt, limit, candidates, best, trimmed, answer>>
    BY DEF AttemptsEnd
<1>2. TypeOK
    BY DEF IInv
<1>3. AllowedMoves' = AllowedMoves /\ Attempts' = Attempts
    BY <1>1 DEF AllowedMoves, Attempts
<1>4. (\A p : Solves(p)' <=> Solves(p))
    BY <1>1, <1>3 DEF Solves
<1>5. /\ <<<<>>>> \in Seq(Path) /\ Head(<<<<>>>>) = <<>> /\ Len(<<>>) = 0 /\ ToSet(<<<<>>>>) = {<<>>}
      /\ <<<<>>>> # <<>> /\ <<>> \in Seq(AllowedMoves)
    BY DEF ToSet, Path
<1>6. TypeOK'
    BY <1>1, <1>2, <1>3, <1>5 DEF TypeOK
<1>7. CandidatesEnter' /\ LimitsAreSafe' /\ BeamIsLast'
    BY <1>1 DEF CandidatesEnter, LimitsAreSafe, BeamIsLast
<1>8. BestSolves' /\ Answered'
    BY <1>1, <1>4 DEF IInv, BestSolves, Answered
<1>9. BeamHolds'
    <2>1. Depth' = 0
        BY <1>1, <1>5 DEF Depth
    <2>2. ASSUME NEW q \in Seq(AllowedMoves), Solves(q)
          PROVE  Len(q) > 0 /\ SubSeq(q, 1, 0) = <<>>
        <3>1. Len(q) \in 1 .. request.depth
            BY <1>2, <2>2, SolvesIsPath
        <3> QED BY <3>1
    <2>3. request.depth \in Nat
        BY <1>2, RequestFacts
    <2>6. ToSet(beam') = {<<>>} /\ beam' # <<>>
        BY <1>1, <1>5
    <2>4. /\ beam' # <<>> /\ Depth' <= request.depth
          /\ \A p \in ToSet(beam') : p \in Seq(AllowedMoves) /\ Len(p) = Depth'
        BY <1>5, <2>1, <2>3, <2>6
    <2>5. \A q \in Seq(AllowedMoves) :
              Solves(q) /\ Canonical(q) => Len(q) > Depth' /\ SubSeq(q, 1, Depth') \in ToSet(beam')
        BY <1>1, <1>5, <2>1, <2>2
    <2> QED BY <1>1, <1>3, <1>4, <2>4, <2>5 DEF BeamHolds
<1>10. BeamIsExhaustive'
    <2>1. answer'.status = "running"
        BY <1>1 DEF IInv, Answered
    <2> QED BY <2>1 DEF BeamIsExhaustive
<1> QED BY <1>6, <1>7, <1>8, <1>9, <1>10 DEF IInv

LEMMA AttemptFailsKeeps ==
    ASSUME IInv, pc \in {"phase1", "complete"}, AttemptFails
    PROVE  IInv'
<1>1. pc' = "attempt" /\ UNCHANGED <<request, expired, attempt, limit, candidates, best, beam, trimmed, answer>>
    BY DEF AttemptFails
<1>2. AllowedMoves' = AllowedMoves /\ Attempts' = Attempts
    BY <1>1 DEF AllowedMoves, Attempts
<1>3. TypeOK'
    BY <1>1, <1>2 DEF IInv, TypeOK
<1>4. CandidatesEnter' /\ LimitsAreSafe'
    BY <1>1 DEF CandidatesEnter, LimitsAreSafe
<1>5. \A p : Solves(p)' <=> Solves(p)
    BY <1>1, <1>2 DEF Solves
<1>6. BestSolves'
    BY <1>1, <1>5 DEF IInv, BestSolves
<1>7. BeamHolds' /\ BeamIsLast' /\ Answered' /\ BeamIsExhaustive'
    BY <1>1, BeforeTheBeam
<1> QED BY <1>3, <1>4, <1>6, <1>7 DEF IInv

-----------------------------------------------------------------------------
(* Phase 1's steps. *)

LEMMA PrefixKeeps ==
    ASSUME NEW T, NEW s \in Seq(T), NEW k \in 0 .. Len(s)
    PROVE  /\ SubSeq(s, 1, k) \in Seq(T)
           /\ ToSet(SubSeq(s, 1, k)) \subseteq ToSet(s)
           /\ IsInjective(s) => IsInjective(SubSeq(s, 1, k))
<1> DEFINE d == SubSeq(s, 1, k)
<1>1. /\ d \in Seq(T) /\ DOMAIN d = 1 .. k /\ \A i \in 1 .. k : d[i] = s[i]
      /\ DOMAIN s = 1 .. Len(s) /\ \A i \in 1 .. k : i \in 1 .. Len(s)
    OBVIOUS
<1> HIDE DEF d
<1>2. ToSet(d) \subseteq ToSet(s)
    BY <1>1 DEF ToSet
<1>3. IsInjective(s) => IsInjective(d)
    BY <1>1 DEF IsInjective
<1> QED BY <1>1, <1>2, <1>3 DEF d

LEMMA TailKeeps ==
    ASSUME NEW T, NEW s \in Seq(T), s # <<>>
    PROVE  /\ Head(s) \in T /\ Head(s) \in ToSet(s)
           /\ Tail(s) \in Seq(T) /\ Len(Tail(s)) = Len(s) - 1
           /\ ToSet(Tail(s)) \subseteq ToSet(s)
           /\ IsInjective(s) => IsInjective(Tail(s))
<1> DEFINE d == Tail(s)
<1>1. /\ d \in Seq(T) /\ DOMAIN d = 1 .. Len(s) - 1 /\ \A i \in 1 .. Len(s) - 1 : d[i] = s[i + 1]
      /\ Len(d) = Len(s) - 1 /\ Len(s) \in Nat /\ Len(s) # 0
      /\ DOMAIN s = 1 .. Len(s) /\ Head(s) = s[1]
    OBVIOUS
<1>2. \A i \in 1 .. Len(s) - 1 : i + 1 \in 1 .. Len(s)
    BY <1>1
<1> HIDE DEF d
<1>3. ToSet(d) \subseteq ToSet(s)
    BY <1>1, <1>2 DEF ToSet
<1>4. ASSUME IsInjective(s), NEW i \in 1 .. Len(s) - 1, NEW j \in 1 .. Len(s) - 1, d[i] = d[j]
      PROVE  i = j
    <2>1. s[i + 1] = s[j + 1]
        BY <1>1, <1>4
    <2>2. i + 1 = j + 1
        BY <1>1, <1>2, <1>4, <2>1 DEF IsInjective
    <2> QED BY <2>2
<1>5. IsInjective(s) => IsInjective(d)
    BY <1>1, <1>4 DEF IsInjective
<1>6. s[1] \in T /\ s[1] \in ToSet(s)
    <2>1. 1 \in 1 .. Len(s)
        BY <1>1
    <2> QED BY <1>1, <2>1 DEF ToSet
<1> QED BY <1>1, <1>3, <1>5, <1>6 DEF d

LEMMA AttemptRuns ==
    ASSUME TypeOK, pc \in {"phase1", "complete", "phase2"}
    PROVE  attempt \in 1 .. 2
<1>1. Len(Attempts) = 2
    BY AttemptFacts
<1>2. attempt \in 0 .. Len(Attempts) /\ attempt > 0
    BY DEF TypeOK
<1> QED BY <1>1, <1>2

\* What phase 1 finds in an iteration it may collect.
LEMMA FoundEnters ==
    ASSUME IInv, pc = "phase1", limit <= Phase1Last
    PROVE  /\ limit \in Nat /\ limit <= request.depth
           /\ RightWays(Phase1Found, request.start, 0, limit, G1, AllowedMoves)
           /\ Phase1Found \in Seq(Path) /\ IsInjective(Phase1Found)
           /\ \A p \in ToSet(Phase1Found) : Enters(p)
<1>1. TypeOK /\ limit \in Nat
    BY DEF IInv, TypeOK
<1>2. request.depth \in 0 .. MaxDepth /\ MaxDepth \in Nat /\ request.blocked \in Restriction /\ request.start \in Cube
    BY <1>1, RequestFacts
<1>3. limit <= request.depth
    <2>1. Phase1Depth \in Nat
        BY FastAssumption
    <2> QED BY <1>1, <1>2, <2>1 DEF Phase1Last
<1>4. limit \in 0 .. MaxDepth
    BY <1>1, <1>2, <1>3
<1>5. RightWays(Phase1Found, request.start, 0, limit, G1, AllowedMoves)
    BY <1>2, <1>4, Phase1IsRight DEF Phase1Found, AllowedMoves
<1>6. ASSUME NEW p, IsWay(p, request.start, 0, limit, G1, AllowedMoves)
      PROVE  Enters(p)
    <2>1. p \in Seq(AllowedMoves) /\ Len(p) <= limit
        BY <1>6 DEF IsWay
    <2>2. Len(p) <= request.depth
        BY <1>1, <1>2, <1>3, <2>1
    <2> QED BY <1>6, <2>2 DEF IsWay, Enters
<1> QED BY <1>1, <1>3, <1>5, <1>6 DEF RightWays

LEMMA CollectKeeps ==
    ASSUME IInv, pc = "phase1", NEW found \in Seq(Path), IsInjective(found),
           \A p \in ToSet(found) : Enters(p)
    PROVE  /\ Collect(found) \in Seq(Path) /\ IsInjective(Collect(found))
           /\ \A p \in ToSet(Collect(found)) : Enters(p)
           /\ Collect(found) = <<>> => candidates = <<>> /\ found = <<>>
<1> DEFINE n == Attempts[attempt].collected
           I == {i \in 1 .. Len(found) : ~Contains(candidates, found[i])}
           parts == [i \in DOMAIN found |-> IF ~Contains(candidates, found[i]) THEN <<found[i]>> ELSE <<>>]
           new == FlattenSeq(parts)
           both == candidates \o new
<1>1. Collect(found) = Truncated(n)[both]
    BY DEF Collect, Kept
<1>2. candidates \in Seq(Path) /\ IsInjective(candidates) /\ \A p \in ToSet(candidates) : Enters(p)
    BY DEF IInv, TypeOK, CandidatesEnter
<1>3. n \in Nat /\ n > 0
    <2>1. TypeOK /\ attempt \in 1 .. 2
        BY AttemptRuns DEF IInv
    <2> QED BY <2>1, AttemptFacts
<1>4. DOMAIN found = 1 .. Len(found) /\ I \in SUBSET (1 .. Len(found))
    OBVIOUS
<1>5. KeptParts(parts, found, I)
    BY <1>4 DEF KeptParts
<1> HIDE DEF parts
<1>6. /\ new \in Seq(Path)
      /\ ToSet(new) = {found[i] : i \in I}
      /\ IsInjective(new)
    BY <1>4, <1>5, KeptKeeps
<1> HIDE DEF new, n
<1>7. \A i \in I : found[i] \in ToSet(found) /\ found[i] \notin ToSet(candidates)
    <2>1. DOMAIN candidates = 1 .. Len(candidates)
        BY <1>2
    <2> QED BY <1>4, <2>1 DEF Contains, ToSet
<1>8. /\ both \in Seq(Path) /\ IsInjective(both)
      /\ ToSet(both) = ToSet(candidates) \cup ToSet(new)
    <2>1. ToSet(candidates) \cap ToSet(new) = {}
        BY <1>6, <1>7
    <2> QED BY <1>2, <1>6, <2>1, ConcatKeeps
<1> HIDE DEF both
<1>9. /\ Truncated(n)[both] \in Seq(Path) /\ ToSet(Truncated(n)[both]) \subseteq ToSet(both)
      /\ IsInjective(Truncated(n)[both])
      /\ n > 0 /\ both # <<>> => Truncated(n)[both] # <<>>
    BY <1>3, <1>8, TruncatedKeeps
<1>10. \A p \in ToSet(both) : Enters(p)
    BY <1>2, <1>6, <1>7, <1>8
<1>11. ASSUME Truncated(n)[both] = <<>> PROVE candidates = <<>> /\ found = <<>>
    <2>1. both = <<>>
        BY <1>3, <1>9, <1>11
    <2>2. ToSet(both) = {}
        BY <2>1 DEF ToSet
    <2>3. ToSet(candidates) = {} /\ I = {}
        BY <1>6, <1>8, <2>2
    <2>4. candidates = <<>>
        BY <1>2, <2>3, Members
    <2>5. \A x : ~Contains(candidates, x)
        BY <2>4 DEF Contains
    <2>6. 1 .. Len(found) = {}
        BY <2>3, <2>5
    <2>7. ToSet(found) = {}
        BY <1>4, <2>6 DEF ToSet
    <2> QED BY <2>4, <2>7, Members
<1> QED BY <1>1, <1>9, <1>10, <1>11

\* A step that leaves all but the pc, the limit, the candidates and the best solution alone.
LEMMA SameRequest ==
    ASSUME UNCHANGED <<request, expired, attempt, beam, trimmed, answer>>
    PROVE  /\ AllowedMoves' = AllowedMoves /\ Attempts' = Attempts
           /\ \A p : (Enters(p)' <=> Enters(p)) /\ (Solves(p)' <=> Solves(p))
<1>1. AllowedMoves' = AllowedMoves /\ Attempts' = Attempts
    BY DEF AllowedMoves, Attempts
<1> QED BY <1>1 DEF Enters, Solves

LEMMA Phase1ReturnsKeeps ==
    ASSUME IInv, pc = "phase1", NEW collected \in Seq(Path), IsInjective(collected),
           \A p \in ToSet(collected) : Enters(p), Phase1Returns(collected)
    PROVE  IInv'
<1>1. CASE collected = <<>>
    BY <1>1, AttemptFailsKeeps DEF Phase1Returns
<1>2. CASE collected # <<>>
    <2>1. /\ pc' = "complete" /\ candidates' = Ranked(collected)
          /\ UNCHANGED <<request, expired, attempt, limit, best, beam, trimmed, answer>>
        BY <1>2 DEF Phase1Returns
    <2>2. TypeOK /\ attempt \in 1 .. 2
        BY AttemptRuns DEF IInv
    <2> DEFINE n == Attempts[attempt].completed
               sorted == Sorted(CandidateBound)[collected]
               ranked == Truncated(n)[sorted]
    <2>3. n \in Nat
        BY <2>2, AttemptFacts
    <2>4. sorted \in Seq(Path) /\ ToSet(sorted) = ToSet(collected) /\ IsInjective(sorted)
        BY SortedKeeps
    <2>5. candidates' = ranked
        BY <2>1 DEF Ranked
    <2> HIDE DEF n, sorted
    <2>6. ranked \in Seq(Path) /\ Len(ranked) <= n /\ ToSet(ranked) \subseteq ToSet(sorted) /\ IsInjective(ranked)
        BY <2>3, <2>4, TruncatedKeeps
    <2> HIDE DEF ranked
    <2>7. /\ AllowedMoves' = AllowedMoves /\ Attempts' = Attempts
          /\ \A p : (Enters(p)' <=> Enters(p)) /\ (Solves(p)' <=> Solves(p))
        BY <2>1, SameRequest
    <2>8. TypeOK'
        <3>1. candidates' \in Seq(Path) /\ Len(candidates') <= Attempts'[attempt'].completed
            BY <2>1, <2>5, <2>6, <2>7 DEF n
        <3> QED BY <2>1, <2>2, <2>7, <3>1 DEF TypeOK
    <2>9. CandidatesEnter'
        BY <2>4, <2>5, <2>6, <2>7 DEF CandidatesEnter
    <2>10. BestSolves'
        BY <2>1, <2>7 DEF IInv, BestSolves
    <2>11. LimitsAreSafe'
        BY <2>1 DEF LimitsAreSafe
    <2>12. BeamHolds' /\ BeamIsLast' /\ Answered' /\ BeamIsExhaustive'
        BY <2>1, BeforeTheBeam
    <2> QED BY <2>8, <2>9, <2>10, <2>11, <2>12 DEF IInv
<1> QED BY <1>1, <1>2

LEMMA Phase1IterationKeeps ==
    ASSUME IInv, Phase1Iteration
    PROVE  IInv'
<1> DEFINE collected == Collect(Phase1Found)
<1>1. pc = "phase1" /\ limit <= Phase1Last
    BY DEF Phase1Iteration
<1>2. /\ limit \in Nat /\ limit <= request.depth
      /\ RightWays(Phase1Found, request.start, 0, limit, G1, AllowedMoves)
      /\ Phase1Found \in Seq(Path) /\ IsInjective(Phase1Found)
      /\ \A p \in ToSet(Phase1Found) : Enters(p)
    BY <1>1, FoundEnters
<1>3. /\ collected \in Seq(Path) /\ IsInjective(collected)
      /\ \A p \in ToSet(collected) : Enters(p)
      /\ collected = <<>> => candidates = <<>> /\ Phase1Found = <<>>
    BY <1>1, <1>2, CollectKeeps
<1>4. CASE Len(collected) >= Attempts[attempt].collected
    <2>1. Phase1Returns(collected)
        BY <1>4 DEF Phase1Iteration
    <2> HIDE DEF collected
    <2> QED BY <1>1, <1>3, <2>1, Phase1ReturnsKeeps
<1>5. CASE ~(Len(collected) >= Attempts[attempt].collected)
    <2>1. /\ candidates' = collected /\ limit' = limit + 1
          /\ UNCHANGED <<request, expired, attempt, pc, best, beam, trimmed, answer>>
        BY <1>5 DEF Phase1Iteration, Deepen
    <2>2. TypeOK /\ attempt \in 1 .. 2
        BY <1>1, AttemptRuns DEF IInv
    <2> HIDE DEF collected
    <2>3. /\ AllowedMoves' = AllowedMoves /\ Attempts' = Attempts
          /\ \A p : (Enters(p)' <=> Enters(p)) /\ (Solves(p)' <=> Solves(p))
        BY <2>1, SameRequest
    <2>4. TypeOK'
        <3>1. Len(collected) \in Nat /\ Attempts[attempt].collected \in Nat
            BY <1>3, <2>2, AttemptFacts
        <3>2. Len(candidates') < Attempts'[attempt'].collected /\ candidates' \in Seq(Path) /\ limit' \in Nat
            BY <1>2, <1>3, <1>5, <2>1, <2>3, <3>1
        <3> QED BY <1>1, <2>1, <2>2, <2>3, <3>2 DEF TypeOK
    <2>5. CandidatesEnter'
        BY <1>3, <2>1, <2>3 DEF CandidatesEnter
    <2>6. BestSolves'
        BY <2>1, <2>3 DEF IInv, BestSolves
    <2>7. LimitsAreSafe'
        <3>1. ASSUME collected = <<>> PROVE request.start \notin Ball(G1, AllowedMoves, limit)
            <4>1. RightWays(<<>>, request.start, 0, limit, G1, AllowedMoves)
                BY <1>2, <1>3, <3>1
            <4> QED BY <1>2, <2>2, <4>1, NothingFound, RequestFacts
        <3>2. limit' - 1 = limit
            BY <1>2, <2>1
        <3> QED BY <1>1, <2>1, <2>3, <3>1, <3>2 DEF LimitsAreSafe
    <2>8. BeamHolds' /\ BeamIsLast' /\ Answered' /\ BeamIsExhaustive'
        BY <1>1, <2>1, BeforeTheBeam
    <2> QED BY <2>4, <2>5, <2>6, <2>7, <2>8 DEF IInv
<1> QED BY <1>4, <1>5

LEMMA Phase1ExpiresKeeps ==
    ASSUME IInv, Phase1Expires
    PROVE  IInv'
<1>1. pc = "phase1" /\ limit <= Phase1Last
    BY DEF Phase1Expires
<1>2. /\ Phase1Found \in Seq(Path) /\ IsInjective(Phase1Found)
      /\ \A p \in ToSet(Phase1Found) : Enters(p)
    BY <1>1, FoundEnters
<1>3. PICK k \in 0 .. Len(Phase1Found) : Phase1Returns(Collect(SubSeq(Phase1Found, 1, k)))
    BY DEF Phase1Expires
<1> DEFINE found == SubSeq(Phase1Found, 1, k)
<1>4. found \in Seq(Path) /\ ToSet(found) \subseteq ToSet(Phase1Found) /\ IsInjective(found)
    BY <1>2, PrefixKeeps
<1>5. Phase1Returns(Collect(found))
    BY <1>3
<1> HIDE DEF found
<1>6. \A p \in ToSet(found) : Enters(p)
    BY <1>2, <1>4
<1>7. /\ Collect(found) \in Seq(Path) /\ IsInjective(Collect(found))
      /\ \A p \in ToSet(Collect(found)) : Enters(p)
    BY <1>1, <1>4, <1>6, CollectKeeps
<1> QED BY <1>1, <1>5, <1>7, Phase1ReturnsKeeps

LEMMA Phase1EndsKeeps ==
    ASSUME IInv, Phase1Ends
    PROVE  IInv'
<1>1. pc = "phase1" /\ Phase1Returns(candidates)
    BY DEF Phase1Ends
<1>2. candidates \in Seq(Path) /\ IsInjective(candidates) /\ \A p \in ToSet(candidates) : Enters(p)
    BY <1>1 DEF IInv, TypeOK, CandidatesEnter
<1> QED BY <1>1, <1>2, Phase1ReturnsKeeps

-----------------------------------------------------------------------------
(* Phase 2's steps. *)

LEMMA CandidateFacts ==
    ASSUME IInv, pc \in {"complete", "phase2"}, candidates # <<>>
    PROVE  /\ Enters(Candidate) /\ CandidateCube \in G1
           /\ Candidate \in Seq(AllowedMoves) /\ Candidate \in Path
           /\ Len(Candidate) \in Nat /\ Len(Candidate) <= request.depth
           /\ Tail(candidates) \in Seq(Path) /\ IsInjective(Tail(candidates))
           /\ Len(Tail(candidates)) \in Nat /\ Len(candidates) \in Nat
           /\ Len(Tail(candidates)) = Len(candidates) - 1
           /\ \A p \in ToSet(Tail(candidates)) : Enters(p)
<1>1. /\ TypeOK /\ candidates \in Seq(Path) /\ IsInjective(candidates)
      /\ \A p \in ToSet(candidates) : Enters(p)
    BY DEF IInv, TypeOK, CandidatesEnter
<1>2. /\ Candidate \in ToSet(candidates)
      /\ Tail(candidates) \in Seq(Path) /\ Len(Tail(candidates)) = Len(candidates) - 1
      /\ ToSet(Tail(candidates)) \subseteq ToSet(candidates)
      /\ IsInjective(Tail(candidates))
    BY <1>1, TailKeeps DEF Candidate
<1>3. Enters(Candidate) /\ \A p \in ToSet(Tail(candidates)) : Enters(p)
    BY <1>1, <1>2
<1>4. Len(Tail(candidates)) \in Nat /\ Len(candidates) \in Nat
    BY <1>1, <1>2
<1> QED BY <1>1, <1>2, <1>3, <1>4, WaysAreCanonical DEF CandidateCube

\* The candidate is done with, and may have made a solution.
LEMMA CandidateDone ==
    ASSUME IInv, pc \in {"complete", "phase2"}, candidates # <<>>,
           candidates' = Tail(candidates), pc' = "complete", best' = best \/ Solves(best'),
           UNCHANGED <<request, expired, attempt, limit, beam, trimmed, answer>>
    PROVE  IInv'
<1>1. TypeOK /\ attempt \in 1 .. 2
    BY AttemptRuns DEF IInv
<1>2. /\ AllowedMoves' = AllowedMoves /\ Attempts' = Attempts
      /\ \A p : (Enters(p)' <=> Enters(p)) /\ (Solves(p)' <=> Solves(p))
    BY SameRequest
<1>3. /\ Tail(candidates) \in Seq(Path) /\ IsInjective(Tail(candidates))
      /\ Len(Tail(candidates)) \in Nat /\ Len(candidates) \in Nat
      /\ Len(Tail(candidates)) = Len(candidates) - 1
      /\ \A p \in ToSet(Tail(candidates)) : Enters(p)
    BY CandidateFacts
<1>4. best' \in Path
    BY <1>1, SolvesIsPath DEF TypeOK
<1>5. TypeOK'
    <2>1. Attempts[attempt].completed \in Nat /\ Len(candidates) <= Attempts[attempt].completed
        BY <1>1, AttemptFacts DEF TypeOK
    <2>2. Len(candidates') <= Attempts'[attempt'].completed
        BY <1>2, <1>3, <2>1
    <2> QED BY <1>1, <1>2, <1>3, <1>4, <2>2 DEF TypeOK
<1>6. CandidatesEnter'
    BY <1>2, <1>3 DEF CandidatesEnter
<1>7. BestSolves'
    BY <1>2 DEF IInv, BestSolves
<1>8. LimitsAreSafe'
    BY DEF LimitsAreSafe
<1>9. BeamHolds' /\ BeamIsLast' /\ Answered' /\ BeamIsExhaustive'
    BY BeforeTheBeam
<1> QED BY <1>5, <1>6, <1>7, <1>8, <1>9 DEF IInv

LEMMA NextCandidateKeeps ==
    ASSUME IInv, NextCandidate
    PROVE  IInv'
<1>1. pc = "complete" /\ candidates # <<>>
    BY DEF NextCandidate
<1>2. /\ Enters(Candidate) /\ CandidateCube \in G1
      /\ Candidate \in Seq(AllowedMoves) /\ Len(Candidate) <= request.depth
    BY <1>1, CandidateFacts
<1>3. CASE CandidateCube = Solved
    <2>1. /\ candidates' = Tail(candidates) /\ best' = Improved(Candidate)
          /\ UNCHANGED <<request, expired, attempt, pc, limit, beam, trimmed, answer>>
        BY <1>3 DEF NextCandidate
    <2>2. Solves(Candidate)
        BY <1>2, <1>3 DEF Solves, CandidateCube
    <2>3. best' = best \/ best' = Candidate
        BY <2>1 DEF Improved
    <2> QED BY <1>1, <2>1, <2>2, <2>3, CandidateDone
<1>4. CASE CandidateCube # Solved
    <2>1. /\ pc' = "phase2" /\ limit' = Phase2Bound[CandidateCube]
          /\ UNCHANGED <<request, expired, attempt, candidates, best, beam, trimmed, answer>>
        BY <1>4 DEF NextCandidate
    <2>2. /\ AllowedMoves' = AllowedMoves /\ Attempts' = Attempts
          /\ \A p : (Enters(p)' <=> Enters(p)) /\ (Solves(p)' <=> Solves(p))
        BY <2>1, SameRequest
    <2>3. /\ Phase2Bound[CandidateCube] \in Nat
          /\ Phase2Bound[CandidateCube] > 0 =>
                CandidateCube \notin Ball({Solved}, AllowedMoves \cap Phase2Move, Phase2Bound[CandidateCube] - 1)
        BY <1>2, Phase2Searchable DEF Searchable, AllowedMoves
    <2>4. CandidateCube' = CandidateCube
        BY <2>1 DEF CandidateCube, Candidate
    <2>5. TypeOK'
        BY <1>1, <2>1, <2>2, <2>3 DEF IInv, TypeOK
    <2>6. CandidatesEnter'
        BY <1>1, <2>1, <2>2 DEF IInv, CandidatesEnter
    <2>7. BestSolves'
        BY <2>1, <2>2 DEF IInv, BestSolves
    <2>8. LimitsAreSafe'
        BY <2>1, <2>2, <2>3, <2>4 DEF LimitsAreSafe
    <2>9. BeamHolds' /\ BeamIsLast' /\ Answered' /\ BeamIsExhaustive'
        BY <1>1, <2>1, BeforeTheBeam
    <2> QED BY <2>5, <2>6, <2>7, <2>8, <2>9 DEF IInv
<1> QED BY <1>3, <1>4

LEMMA Phase2IterationKeeps ==
    ASSUME IInv, Phase2Iteration
    PROVE  IInv'
<1> DEFINE found == Phase2Ways[request.blocked][limit + 1][CandidateCube][0]
           moves == AllowedMoves \cap Phase2Move
<1>1. pc = "phase2" /\ limit <= Phase2Depth
    BY DEF Phase2Iteration
<1>2. TypeOK /\ candidates # <<>> /\ limit \in Nat
    BY <1>1 DEF IInv, TypeOK
<1>3. /\ Enters(Candidate) /\ CandidateCube \in G1
      /\ Candidate \in Seq(AllowedMoves) /\ Candidate \in Path
      /\ Len(Candidate) \in Nat /\ Len(Candidate) <= request.depth
    BY <1>1, <1>2, CandidateFacts
<1>4. /\ request.depth \in 0 .. MaxDepth /\ MaxDepth \in Nat /\ request.blocked \in Restriction
      /\ request.start \in Cube /\ {Solved} \in SUBSET Cube
      /\ AllowedMoves \in SUBSET Move /\ moves \in SUBSET Move /\ Closed(moves)
    BY <1>2, RequestFacts
<1>5. limit \in 0 .. MaxDepth /\ limit <= request.depth - Len(Candidate)
    BY <1>1, <1>2, <1>3, <1>4 DEF Phase2Depth
<1>6. RightWays(found, CandidateCube, 0, limit, {Solved}, moves)
    BY <1>3, <1>4, <1>5, Phase2IsRight DEF AllowedMoves
<1>7. CASE found = <<>>
    <2>1. limit' = limit + 1 /\ UNCHANGED <<request, expired, attempt, pc, candidates, best, beam, trimmed, answer>>
        BY <1>7 DEF Phase2Iteration, Deepen
    <2>2. CandidateCube \notin Ball({Solved}, moves, limit)
        <3>1. RightWays(<<>>, CandidateCube, 0, limit, {Solved}, moves)
            BY <1>6, <1>7
        <3> HIDE DEF moves, found
        <3> QED BY <1>2, <1>4, <3>1, NothingFound
    <2>3. /\ AllowedMoves' = AllowedMoves /\ Attempts' = Attempts
          /\ \A p : (Enters(p)' <=> Enters(p)) /\ (Solves(p)' <=> Solves(p))
        BY <2>1, SameRequest
    <2>4. CandidateCube' = CandidateCube /\ limit' - 1 = limit /\ limit' \in Nat
        BY <1>2, <2>1 DEF CandidateCube, Candidate
    <2>5. TypeOK'
        BY <1>2, <2>1, <2>3, <2>4 DEF TypeOK
    <2>6. CandidatesEnter'
        BY <1>1, <2>1, <2>3 DEF IInv, CandidatesEnter
    <2>7. BestSolves'
        BY <2>1, <2>3 DEF IInv, BestSolves
    <2>8. LimitsAreSafe'
        BY <1>1, <2>1, <2>2, <2>3, <2>4 DEF LimitsAreSafe
    <2>9. BeamHolds' /\ BeamIsLast' /\ Answered' /\ BeamIsExhaustive'
        BY <1>1, <2>1, BeforeTheBeam
    <2> QED BY <2>5, <2>6, <2>7, <2>8, <2>9 DEF IInv
<1>8. CASE found # <<>>
    <2> DEFINE rest == Head(found)
               whole == Candidate \o rest
    <2>1. /\ best' = Improved(whole) /\ candidates' = Tail(candidates) /\ pc' = "complete"
          /\ UNCHANGED <<request, expired, attempt, limit, beam, trimmed, answer>>
        BY <1>8 DEF Phase2Iteration
    <2>2. rest \in ToSet(found)
        BY <1>6, <1>8, TailKeeps DEF RightWays
    <2>3. IsWay(rest, CandidateCube, 0, limit, {Solved}, moves)
        BY <1>6, <2>2 DEF RightWays
    <2> HIDE DEF rest, moves, found
    <2>4. rest \in Seq(moves) /\ Len(rest) <= limit /\ After(CandidateCube, rest) = Solved
        BY <2>3 DEF IsWay
    <2>5. rest \in Seq(AllowedMoves) /\ rest \in Path /\ Len(rest) \in Nat
        BY <1>4, <2>4 DEF moves, Path
    <2>6. Solves(whole)
        <3>1. whole \in Seq(AllowedMoves) /\ Len(whole) = Len(Candidate) + Len(rest)
            BY <1>3, <2>5
        <3>2. Len(whole) <= request.depth
            BY <1>2, <1>3, <1>4, <1>5, <2>4, <2>5, <3>1
        <3>3. After(request.start, whole) = Solved
            BY <1>3, <1>4, <2>4, <2>5, AfterConcat DEF CandidateCube
        <3> QED BY <3>1, <3>2, <3>3 DEF Solves
    <2>7. best' = best \/ best' = whole
        BY <2>1 DEF Improved
    <2> HIDE DEF whole
    <2> QED BY <1>1, <1>2, <2>1, <2>6, <2>7, CandidateDone
<1> QED BY <1>7, <1>8

LEMMA Phase2GivesUpKeeps ==
    ASSUME IInv, Phase2GivesUp
    PROVE  IInv'
<1>1. /\ pc = "phase2" /\ candidates' = Tail(candidates) /\ pc' = "complete"
      /\ UNCHANGED <<request, expired, attempt, limit, best, beam, trimmed, answer>>
    BY DEF Phase2GivesUp
<1>2. candidates # <<>>
    BY <1>1 DEF IInv, TypeOK
<1> QED BY <1>1, <1>2, CandidateDone

LEMMA AttemptEndsKeeps ==
    ASSUME IInv, AttemptEnds
    PROVE  IInv'
<1>1. pc = "complete"
    BY DEF AttemptEnds
<1>2. CASE best = <<>>
    BY <1>1, <1>2, AttemptFailsKeeps DEF AttemptEnds
<1>3. CASE best # <<>>
    <2>1. Return("Found", best) /\ beam = <<>> /\ Solves(best) /\ best \in Path
        BY <1>1, <1>3 DEF AttemptEnds, IInv, BeamIsLast, BestSolves, TypeOK
    <2> QED BY <2>1, ReturnKeeps
<1> QED BY <1>2, <1>3

-----------------------------------------------------------------------------
(* The beam's steps. *)

LEMMA NextMoves ==
    ASSUME TypeOK, NEW p
    PROVE  /\ Kept(allMoves, LAMBDA m : m \in AllowedMoves /\ Follows(p, m)) \in Seq(Move)
           /\ ToSet(Kept(allMoves, LAMBDA m : m \in AllowedMoves /\ Follows(p, m)))
                 = {m \in AllowedMoves : Follows(p, m)}
<1> DEFINE n == Cardinality(Move)
           I == {i \in 1 .. Len(allMoves) : i \in AllowedMoves /\ Follows(p, i)}
           parts == [i \in DOMAIN allMoves |->
                       IF allMoves[i] \in AllowedMoves /\ Follows(p, allMoves[i]) THEN <<allMoves[i]>> ELSE <<>>]
<1>1. n \in Nat /\ Move = 1 .. n
    BY FastAssumption, FS_CardinalityType
<1>2. /\ allMoves \in Seq(Move) /\ Len(allMoves) = n /\ DOMAIN allMoves = 1 .. n
      /\ \A i \in 1 .. n : allMoves[i] = i
    BY <1>1 DEF allMoves
<1>3. Kept(allMoves, LAMBDA m : m \in AllowedMoves /\ Follows(p, m)) = FlattenSeq(parts)
    BY DEF Kept
<1>4. KeptParts(parts, allMoves, I)
    BY <1>2 DEF KeptParts
<1> HIDE DEF parts
<1>5. FlattenSeq(parts) \in Seq(Move) /\ ToSet(FlattenSeq(parts)) = {allMoves[i] : i \in I}
    <2>1. allMoves \in Seq(Move) /\ I \in SUBSET (1 .. Len(allMoves))
        BY <1>2
    <2> HIDE DEF I
    <2> QED BY <1>4, <2>1, KeptKeeps
<1>6. AllowedMoves \in SUBSET Move
    BY RequestFacts
<1>7. {allMoves[i] : i \in I} = {m \in AllowedMoves : Follows(p, m)}
    BY <1>1, <1>2, <1>6
<1> QED BY <1>3, <1>5, <1>7

\* The children of the beam are its paths with one more move, each of those that may follow.
LEMMA ChildrenGoOn ==
    ASSUME TypeOK
    PROVE  /\ Children \in Seq(Path)
           /\ \A q : q \in ToSet(Children) <=>
                 \E p \in ToSet(beam), m \in AllowedMoves : Follows(p, m) /\ q = Append(p, m)
<1> DEFINE next(p) == Kept(allMoves, LAMBDA m : m \in AllowedMoves /\ Follows(p, m))
           longer(p) == [i \in DOMAIN next(p) |-> Append(p, next(p)[i])]
           parts == [i \in DOMAIN beam |-> longer(beam[i])]
<1>1. Children = FlattenSeq(parts)
    BY DEF Children
<1>2. beam \in Seq(Path)
    BY DEF TypeOK
<1>3. DOMAIN beam = 1 .. Len(beam) /\ Len(beam) \in Nat /\ \A i \in 1 .. Len(beam) : beam[i] \in Path
    BY <1>2
<1>4. ASSUME NEW p PROVE next(p) \in Seq(Move) /\ ToSet(next(p)) = {m \in AllowedMoves : Follows(p, m)}
    BY NextMoves
<1> HIDE DEF next
<1>5. ASSUME NEW p \in Path
      PROVE  /\ longer(p) \in Seq(Path)
             /\ \A q : q \in ToSet(longer(p)) <=> \E m \in AllowedMoves : Follows(p, m) /\ q = Append(p, m)
    <2>1. next(p) \in Seq(Move) /\ DOMAIN next(p) = 1 .. Len(next(p)) /\ Len(next(p)) \in Nat
        BY <1>4
    <2>2. longer(p) = [i \in 1 .. Len(next(p)) |-> Append(p, next(p)[i])]
        BY <2>1
    <2>3. \A i \in 1 .. Len(next(p)) : Append(p, next(p)[i]) \in Path
        BY <2>1 DEF Path
    <2>4. longer(p) \in Seq(Path)
        <3> HIDE DEF longer
        <3> QED BY <2>1, <2>2, <2>3
    <2>5. DOMAIN longer(p) = 1 .. Len(next(p)) /\ \A i \in 1 .. Len(next(p)) : longer(p)[i] = Append(p, next(p)[i])
        BY <2>1
    <2> HIDE DEF longer
    <2>6. ASSUME NEW q PROVE q \in ToSet(longer(p)) <=> \E m \in ToSet(next(p)) : q = Append(p, m)
        BY <2>1, <2>5 DEF ToSet
    <2> QED BY <1>4, <2>4, <2>6
<1> HIDE DEF longer
<1>6. /\ parts \in Seq(Seq(Path)) /\ Len(parts) = Len(beam)
      /\ \A i \in 1 .. Len(beam) : parts[i] = longer(beam[i])
    <2>1. parts = [i \in 1 .. Len(beam) |-> longer(beam[i])]
        BY <1>3
    <2>2. \A i \in 1 .. Len(beam) : longer(beam[i]) \in Seq(Path)
        BY <1>3, <1>5
    <2> HIDE DEF parts
    <2> QED BY <1>3, <2>1, <2>2
<1> HIDE DEF parts
<1>7. /\ FlattenSeq(parts) \in Seq(Path)
      /\ ToSet(FlattenSeq(parts)) = UNION {ToSet(parts[i]) : i \in 1 .. Len(parts)}
    BY <1>6, FlattenKeeps
<1>8. ASSUME NEW q
      PROVE  q \in ToSet(FlattenSeq(parts)) <=>
                 \E p \in ToSet(beam), m \in AllowedMoves : Follows(p, m) /\ q = Append(p, m)
    <2>1. q \in ToSet(FlattenSeq(parts)) <=> \E i \in 1 .. Len(beam) : q \in ToSet(longer(beam[i]))
        BY <1>6, <1>7
    <2>2. \A i \in 1 .. Len(beam) :
              q \in ToSet(longer(beam[i])) <=> \E m \in AllowedMoves : Follows(beam[i], m) /\ q = Append(beam[i], m)
        BY <1>3, <1>5
    <2>3. ToSet(beam) = {beam[i] : i \in 1 .. Len(beam)}
        BY <1>3 DEF ToSet
    <2> QED BY <2>1, <2>2, <2>3
<1> QED BY <1>1, <1>7, <1>8

\* What a layer keeps of the children.
LEMMA LayerParts ==
    ASSUME NEW children \in Seq(Path)
    PROVE  /\ Kept(children, LAMBDA p : After(request.start, p) = Solved) \in Seq(Path)
           /\ ToSet(Kept(children, LAMBDA p : After(request.start, p) = Solved))
                 = {p \in ToSet(children) : After(request.start, p) = Solved}
           /\ Kept(children, Fits) \in Seq(Path)
           /\ ToSet(Kept(children, Fits)) = {p \in ToSet(children) : Fits(p)}
<1> DEFINE n == Len(children)
           solved(p) == After(request.start, p) = Solved
           I == {i \in 1 .. n : solved(children[i])}
           J == {i \in 1 .. n : Fits(children[i])}
           parts == [i \in DOMAIN children |-> IF solved(children[i]) THEN <<children[i]>> ELSE <<>>]
           fitting == [i \in DOMAIN children |-> IF Fits(children[i]) THEN <<children[i]>> ELSE <<>>]
<1>1. /\ Kept(children, LAMBDA p : After(request.start, p) = Solved) = FlattenSeq(parts)
      /\ Kept(children, Fits) = FlattenSeq(fitting)
    BY DEF Kept
<1>2. DOMAIN children = 1 .. n /\ I \in SUBSET (1 .. Len(children)) /\ J \in SUBSET (1 .. Len(children))
    OBVIOUS
<1> HIDE DEF solved
<1>3. KeptParts(parts, children, I) /\ KeptParts(fitting, children, J)
    BY <1>2 DEF KeptParts
<1> HIDE DEF parts, fitting
<1>4. FlattenSeq(parts) \in Seq(Path) /\ ToSet(FlattenSeq(parts)) = {children[i] : i \in I}
    BY <1>2, <1>3, KeptKeeps
<1>5. FlattenSeq(fitting) \in Seq(Path) /\ ToSet(FlattenSeq(fitting)) = {children[i] : i \in J}
    BY <1>2, <1>3, KeptKeeps
<1>6. /\ {children[i] : i \in I} = {p \in ToSet(children) : solved(p)}
      /\ {children[i] : i \in J} = {p \in ToSet(children) : Fits(p)}
    BY <1>2 DEF ToSet
<1> QED BY <1>1, <1>4, <1>5, <1>6 DEF solved

\* nodeLowerBound is never more than the moves needed.
LEMMA BoundIsLow ==
    ASSUME NEW c \in Cube, NEW q \in Path, After(c, q) = Solved
    PROVE  Bound[c] \in Nat /\ Bound[c] <= Len(q)
<1>1. {Solved} \in SUBSET Cube /\ Move \in SUBSET Move /\ q \in Seq(Move) /\ Len(q) \in Nat
    BY PuzzleAssumption DEF Path
<1>2. c \in Ball({Solved}, Move, Len(q))
    BY <1>1, WayIsNear
<1>3. Bound[c] \in Nat /\ (Bound[c] > 0 => c \notin Ball({Solved}, Move, Bound[c] - 1))
    BY BoundsAssumption DEF Admissible
<1>4. SUFFICES ASSUME Bound[c] > Len(q) PROVE FALSE
    BY <1>1, <1>3
<1>5. Bound[c] - 1 \in Nat /\ Len(q) <= Bound[c] - 1 /\ Bound[c] > 0
    BY <1>1, <1>3, <1>4
<1>6. Ball({Solved}, Move, Len(q)) \subseteq Ball({Solved}, Move, Bound[c] - 1)
    BY <1>1, <1>5, BallGrows
<1> QED BY <1>2, <1>3, <1>5, <1>6

LEMMA BeamFacts ==
    ASSUME IInv, pc = "beam"
    PROVE  /\ TypeOK /\ beam # <<>> /\ Depth \in Nat /\ Depth <= request.depth /\ request.depth \in Nat
           /\ \A p \in ToSet(beam) : p \in Seq(AllowedMoves) /\ p \in Path /\ Len(p) = Depth
           /\ ~trimmed => \A q \in Seq(AllowedMoves) :
                 Solves(q) /\ Canonical(q) => Len(q) > Depth /\ SubSeq(q, 1, Depth) \in ToSet(beam)
<1>1. TypeOK /\ BeamHolds /\ beam \in Seq(Path) /\ request.depth \in Nat /\ AllowedMoves \in SUBSET Move
    BY RequestFacts DEF IInv, TypeOK
<1>2. beam # <<>> /\ \A p \in ToSet(beam) : p \in Seq(AllowedMoves) /\ Len(p) = Depth
    BY <1>1 DEF BeamHolds
<1>3. Head(beam) \in Path
    BY <1>1, <1>2, TailKeeps
<1>4. Depth \in Nat
    BY <1>3 DEF Depth, Path
<1> QED BY <1>1, <1>2, <1>4 DEF BeamHolds, Path

LEMMA ChildFacts ==
    ASSUME IInv, pc = "beam", NEW q \in ToSet(Children)
    PROVE  q \in Seq(AllowedMoves) /\ Len(q) = Depth + 1
<1>1. PICK p \in ToSet(beam), m \in AllowedMoves : q = Append(p, m)
    BY BeamFacts, ChildrenGoOn
<1>2. p \in Seq(AllowedMoves) /\ Len(p) = Depth
    BY BeamFacts
<1> QED BY <1>1, <1>2

LEMMA CutInTwo ==
    ASSUME NEW T, NEW q \in Seq(T), NEW k \in 0 .. Len(q)
    PROVE  /\ SubSeq(q, 1, k) \in Seq(T) /\ SubSeq(q, k + 1, Len(q)) \in Seq(T)
           /\ Len(SubSeq(q, 1, k)) = k /\ Len(SubSeq(q, k + 1, Len(q))) = Len(q) - k
           /\ q = SubSeq(q, 1, k) \o SubSeq(q, k + 1, Len(q))
<1> DEFINE a == SubSeq(q, 1, k)
           b == SubSeq(q, k + 1, Len(q))
<1>1. a \in Seq(T) /\ Len(a) = k /\ \A i \in 1 .. k : a[i] = q[i]
    OBVIOUS
<1>2. b \in Seq(T) /\ Len(b) = Len(q) - k /\ \A i \in 1 .. Len(q) - k : b[i] = q[k + i]
    OBVIOUS
<1> HIDE DEF a, b
<1>3. /\ a \o b \in Seq(T) /\ Len(a \o b) = Len(q)
      /\ \A i \in 1 .. Len(q) : (a \o b)[i] = IF i <= k THEN a[i] ELSE b[i - k]
    BY <1>1, <1>2
<1>4. ASSUME NEW i \in 1 .. Len(q) PROVE (a \o b)[i] = q[i]
    <2>1. CASE i <= k
        <3>1. i \in 1 .. k
            BY <2>1
        <3> QED BY <1>1, <1>3, <2>1, <3>1
    <2>2. CASE ~(i <= k)
        <3>1. i - k \in 1 .. Len(q) - k /\ k + (i - k) = i
            BY <2>2
        <3> QED BY <1>2, <1>3, <2>2, <3>1
    <2> QED BY <2>1, <2>2
<1> DEFINE d == a \o b
<1>6. d \in Seq(T) /\ Len(d) = Len(q) /\ \A i \in 1 .. Len(q) : d[i] = q[i]
    BY <1>3, <1>4
<1> HIDE DEF d
<1>7. d = q
    BY <1>6
<1>5. a \o b = q
    BY <1>7 DEF d
<1> QED BY <1>1, <1>2, <1>5 DEF a, b

\* While nothing is dropped, every canonical solution goes on through a child that fits.
LEMMA SolutionGoesOn ==
    ASSUME IInv, pc = "beam", Depth < request.depth, ~trimmed,
           NEW q \in Seq(AllowedMoves), Solves(q), Canonical(q)
    PROVE  /\ SubSeq(q, 1, Depth + 1) \in ToSet(Children) /\ Fits(SubSeq(q, 1, Depth + 1))
           /\ Len(q) > Depth + 1 \/ After(request.start, SubSeq(q, 1, Depth + 1)) = Solved
<1> DEFINE p == SubSeq(q, 1, Depth)
           m == q[Depth + 1]
           child == SubSeq(q, 1, Depth + 1)
           rest == SubSeq(q, Depth + 2, Len(q))
<1>1. /\ TypeOK /\ Depth \in Nat /\ Len(q) > Depth /\ p \in ToSet(beam)
    BY BeamFacts
<1>2. AllowedMoves \in SUBSET Move /\ request.start \in Cube /\ request.depth \in Nat
    BY <1>1, RequestFacts
<1>3. /\ m \in AllowedMoves /\ child = Append(p, m) /\ Len(q) \in Nat /\ Depth + 1 <= Len(q)
      /\ p \in Seq(AllowedMoves) /\ Len(p) = Depth /\ \A i \in 1 .. Depth : p[i] = q[i]
    BY <1>1
<1>4. /\ child \in Seq(AllowedMoves) /\ rest \in Seq(AllowedMoves) /\ q = child \o rest
      /\ Len(child) = Depth + 1 /\ Len(rest) = Len(q) - (Depth + 1)
    <2> DEFINE k == Depth + 1
    <2>1. k \in 0 .. Len(q) /\ k + 1 = Depth + 2
        BY <1>1, <1>3
    <2> HIDE DEF k
    <2>2. /\ SubSeq(q, 1, k) \in Seq(AllowedMoves) /\ SubSeq(q, k + 1, Len(q)) \in Seq(AllowedMoves)
          /\ Len(SubSeq(q, 1, k)) = k /\ Len(SubSeq(q, k + 1, Len(q))) = Len(q) - k
          /\ q = SubSeq(q, 1, k) \o SubSeq(q, k + 1, Len(q))
        BY <2>1, CutInTwo
    <2> QED BY <2>1, <2>2 DEF k
<1> HIDE DEF p, m, child, rest
<1>5. child \in Path /\ rest \in Path /\ p \in Path
    BY <1>2, <1>3, <1>4 DEF Path
<1>6. Follows(p, m)
    <2>1. SUFFICES ASSUME p # <<>> PROVE ~IsRedundant(p[Len(p)], m)
        BY DEF Follows, Last
    <2>2. Depth \in 1 .. Len(q) - 1 /\ Depth \in 1 .. Depth
        BY <1>1, <1>3, <2>1
    <2>3. ~IsRedundant(q[Depth], q[Depth + 1])
        BY <2>2 DEF Canonical
    <2> QED BY <1>3, <2>2, <2>3 DEF m
<1>7. child \in ToSet(Children)
    BY <1>1, <1>3, <1>6, ChildrenGoOn
<1>8. After(request.start, child) \in Cube /\ After(After(request.start, child), rest) = Solved
    BY <1>2, <1>4, <1>5, AfterIsCube, AfterConcat DEF Solves
<1>9. Fits(child)
    <2>1. Bound[After(request.start, child)] \in Nat /\ Bound[After(request.start, child)] <= Len(rest)
        BY <1>5, <1>8, BoundIsLow
    <2>2. Len(q) <= request.depth
        BY DEF Solves
    <2> QED BY <1>1, <1>2, <1>3, <1>4, <2>1, <2>2 DEF Fits
<1>10. Len(q) > Depth + 1 \/ After(request.start, child) = Solved
    <2>1. SUFFICES ASSUME ~(Len(q) > Depth + 1) PROVE After(request.start, child) = Solved
        OBVIOUS
    <2>2. Len(rest) = 0
        BY <1>1, <1>3, <1>4, <2>1
    <2>3. rest = <<>>
        BY <1>4, <2>2
    <2> QED BY <1>8, <2>3, AfterEmpty
<1> QED BY <1>7, <1>9, <1>10 DEF child

\* What there is to find within n moves of the allowed ones is a canonical solution.
LEMMA SolutionExists ==
    ASSUME TypeOK, NEW n \in Nat, n <= request.depth, request.start \in Ball({Solved}, AllowedMoves, n)
    PROVE  \E q \in Seq(AllowedMoves) : Len(q) <= n /\ Solves(q) /\ Canonical(q)
<1>1. /\ {Solved} \in SUBSET Cube /\ AllowedMoves \in SUBSET Move /\ Closed(AllowedMoves)
      /\ request.depth \in Nat
    BY RequestFacts
<1>2. PICK q \in Seq(AllowedMoves) :
          Len(q) <= n /\ After(request.start, q) \in {Solved} /\ Canonical(q)
    BY <1>1, CanonicalWay
<1>3. Len(q) <= request.depth
    BY <1>1, <1>2
<1> QED BY <1>2, <1>3 DEF Solves

LEMMA BeamExpiresKeeps ==
    ASSUME IInv, BeamExpires
    PROVE  IInv'
<1>1. expired /\ Return("Timeout", <<>>)
    BY DEF BeamExpires
<1>2. <<>> \in Path
    BY DEF Path
<1> QED BY <1>1, <1>2, ReturnKeeps

LEMMA BeamEndsKeeps ==
    ASSUME IInv, BeamEnds
    PROVE  IInv'
<1>1. pc = "beam" /\ Depth = request.depth /\ Return("DepthLimitExceeded", <<>>)
    BY DEF BeamEnds
<1>2. TypeOK /\ request.depth \in Nat /\ Depth \in Nat
    BY <1>1, BeamFacts
<1>3. ASSUME ~trimmed, request.start \in Ball({Solved}, AllowedMoves, request.depth) PROVE FALSE
    <2>1. PICK q \in Seq(AllowedMoves) : Len(q) <= request.depth /\ Solves(q) /\ Canonical(q)
        <3>1. request.depth <= request.depth
            BY <1>2
        <3> QED BY <1>2, <1>3, <3>1, SolutionExists
    <2>2. Len(q) > Depth
        BY <1>1, <1>3, <2>1, BeamFacts
    <2> QED BY <1>1, <1>2, <2>1, <2>2
<1>4. <<>> \in Path
    BY DEF Path
<1> QED BY <1>1, <1>3, <1>4, ReturnKeeps

\* The next beam is longer by one, and begins what the last one began.
LEMMA NextBeamKeeps ==
    ASSUME IInv, pc = "beam", Depth < request.depth,
           NEW fitting \in Seq(Path), fitting # <<>>,
           ToSet(fitting) = {p \in ToSet(Children) : Fits(p)},
           \A p \in ToSet(Children) : After(request.start, p) # Solved,
           beam' = Widest(fitting), trimmed' = (trimmed \/ Len(fitting) > Width[request.profile]),
           UNCHANGED <<request, expired, attempt, pc, limit, candidates, best, answer>>
    PROVE  IInv'
<1> DEFINE n == Width[request.profile]
           sorted == Sorted(Bound)[fitting]
           widest == Truncated(n)[sorted]
<1>1. /\ TypeOK /\ Depth \in Nat /\ request.depth \in Nat /\ n \in Nat /\ n > 0
    BY BeamFacts, AttemptFacts
<1>2. sorted \in Seq(Path) /\ ToSet(sorted) = ToSet(fitting) /\ Len(sorted) = Len(fitting) /\ Len(fitting) \in Nat
    BY SortedKeeps
<1>3. beam' = widest
    BY DEF Widest
<1> HIDE DEF n, sorted
<1>4. sorted # <<>>
    BY <1>2, Members
<1>5. /\ widest \in Seq(Path) /\ ToSet(widest) \subseteq ToSet(sorted)
      /\ Len(sorted) <= n => widest = sorted
      /\ n > 0 /\ sorted # <<>> => widest # <<>>
    BY <1>1, <1>2, TruncatedKeeps
<1> HIDE DEF widest
<1>6. widest # <<>> /\ ToSet(widest) \subseteq ToSet(Children)
    BY <1>1, <1>2, <1>4, <1>5
<1>7. \A p \in ToSet(widest) : p \in Seq(AllowedMoves) /\ Len(p) = Depth + 1
    BY <1>6, ChildFacts
<1>8. Depth' = Depth + 1
    <2>1. Head(widest) \in ToSet(widest)
        BY <1>5, <1>6, TailKeeps
    <2> QED BY <1>3, <1>7, <2>1 DEF Depth
<1>9. AllowedMoves' = AllowedMoves /\ Attempts' = Attempts
    BY DEF AllowedMoves, Attempts
<1>10. \A p : (Enters(p)' <=> Enters(p)) /\ (Solves(p)' <=> Solves(p))
    BY <1>9 DEF Enters, Solves
<1>11. ASSUME ~trimmed', NEW q \in Seq(AllowedMoves), Solves(q), Canonical(q)
       PROVE  Len(q) > Depth' /\ SubSeq(q, 1, Depth') \in ToSet(beam')
    <2>1. ~trimmed /\ ToSet(widest) = ToSet(fitting)
        <3>1. ~trimmed /\ ~(Len(fitting) > n)
            BY <1>11 DEF n
        <3>2. Len(sorted) <= n
            BY <1>1, <1>2, <3>1
        <3> QED BY <1>2, <1>5, <3>1, <3>2
    <2>2. /\ SubSeq(q, 1, Depth + 1) \in ToSet(Children) /\ Fits(SubSeq(q, 1, Depth + 1))
          /\ Len(q) > Depth + 1 \/ After(request.start, SubSeq(q, 1, Depth + 1)) = Solved
        BY <1>11, <2>1, SolutionGoesOn
    <2> QED BY <1>3, <1>8, <2>1, <2>2
<1>12. TypeOK'
    <2>1. trimmed' \in BOOLEAN
        BY <1>1 DEF TypeOK
    <2>2. beam' \in Seq(Path)
        BY <1>3, <1>5
    <2> QED BY <1>1, <1>9, <2>1, <2>2 DEF TypeOK
<1>13. CandidatesEnter' /\ LimitsAreSafe' /\ BeamIsLast'
    BY DEF CandidatesEnter, LimitsAreSafe, BeamIsLast
<1>14. BestSolves' /\ Answered'
    BY <1>10 DEF IInv, BestSolves, Answered
<1>15. BeamHolds'
    <2>1. beam' # <<>> /\ Depth' <= request.depth
        BY <1>1, <1>3, <1>6, <1>8
    <2>2. \A p \in ToSet(beam') : p \in Seq(AllowedMoves) /\ Len(p) = Depth'
        BY <1>3, <1>7, <1>8
    <2> QED BY <1>9, <1>10, <1>11, <2>1, <2>2 DEF BeamHolds
<1>16. BeamIsExhaustive'
    <2>1. answer'.status = "running"
        BY DEF IInv, Answered
    <2> QED BY <2>1 DEF BeamIsExhaustive
<1> QED BY <1>12, <1>13, <1>14, <1>15, <1>16 DEF IInv

LEMMA BeamLayerKeeps ==
    ASSUME IInv, BeamLayer
    PROVE  IInv'
<1> DEFINE solved == Kept(Children, LAMBDA p : After(request.start, p) = Solved)
           fitting == Kept(Children, Fits)
<1>1. pc = "beam" /\ Depth < request.depth
    BY DEF BeamLayer
<1>2. \/ solved # <<>> /\ Return("Found", Head(solved))
      \/ solved = <<>> /\ fitting = <<>> /\ Return("DepthLimitExceeded", <<>>)
      \/ /\ solved = <<>> /\ fitting # <<>>
         /\ beam' = Widest(fitting)
         /\ trimmed' = (trimmed \/ Len(fitting) > Width[request.profile])
         /\ UNCHANGED <<request, expired, attempt, pc, limit, candidates, best, answer>>
    BY DEF BeamLayer
<1>3. TypeOK /\ Depth \in Nat /\ request.depth \in Nat /\ Depth <= request.depth
    BY <1>1, BeamFacts
<1>4. Children \in Seq(Path)
    BY <1>3, ChildrenGoOn
<1>5. /\ solved \in Seq(Path) /\ ToSet(solved) = {p \in ToSet(Children) : After(request.start, p) = Solved}
      /\ fitting \in Seq(Path) /\ ToSet(fitting) = {p \in ToSet(Children) : Fits(p)}
    BY <1>4, LayerParts
<1> HIDE DEF solved, fitting
<1>6. CASE solved # <<>> /\ Return("Found", Head(solved))
    <2>1. Head(solved) \in Path /\ Head(solved) \in ToSet(solved)
        BY <1>5, <1>6, TailKeeps
    <2>2. Head(solved) \in ToSet(Children) /\ After(request.start, Head(solved)) = Solved
        BY <1>5, <2>1
    <2>3. Head(solved) \in Seq(AllowedMoves) /\ Len(Head(solved)) = Depth + 1
        BY <1>1, <2>2, ChildFacts
    <2>4. Solves(Head(solved))
        <3>1. Depth + 1 <= request.depth
            BY <1>1, <1>3
        <3> QED BY <2>2, <2>3, <3>1 DEF Solves
    <2>5. ASSUME ~trimmed, request.start \in Ball({Solved}, AllowedMoves, Depth) PROVE FALSE
        <3>1. PICK q \in Seq(AllowedMoves) : Len(q) <= Depth /\ Solves(q) /\ Canonical(q)
            BY <1>3, <2>5, SolutionExists
        <3>2. Len(q) > Depth
            BY <1>1, <2>5, <3>1, BeamFacts
        <3> QED BY <1>3, <3>1, <3>2
    <2>6. Len(Head(solved)) - 1 = Depth
        BY <1>3, <2>3
    <2> QED BY <1>6, <2>1, <2>4, <2>5, <2>6, ReturnKeeps
<1>7. CASE solved = <<>> /\ fitting = <<>> /\ Return("DepthLimitExceeded", <<>>)
    <2>1. ASSUME ~trimmed, request.start \in Ball({Solved}, AllowedMoves, request.depth) PROVE FALSE
        <3>1. PICK q \in Seq(AllowedMoves) : Len(q) <= request.depth /\ Solves(q) /\ Canonical(q)
            <4>1. request.depth <= request.depth
                BY <1>3
            <4> QED BY <1>3, <2>1, <4>1, SolutionExists
        <3>2. SubSeq(q, 1, Depth + 1) \in ToSet(Children) /\ Fits(SubSeq(q, 1, Depth + 1))
            BY <1>1, <2>1, <3>1, SolutionGoesOn
        <3>3. SubSeq(q, 1, Depth + 1) \in ToSet(fitting)
            BY <1>5, <3>2
        <3> QED BY <1>7, <3>3 DEF ToSet
    <2>2. <<>> \in Path
        BY DEF Path
    <2> QED BY <1>7, <2>1, <2>2, ReturnKeeps
<1>8. CASE /\ solved = <<>> /\ fitting # <<>>
           /\ beam' = Widest(fitting)
           /\ trimmed' = (trimmed \/ Len(fitting) > Width[request.profile])
           /\ UNCHANGED <<request, expired, attempt, pc, limit, candidates, best, answer>>
    <2>1. ToSet(solved) = {}
        BY <1>8 DEF ToSet
    <2>2. \A p \in ToSet(Children) : After(request.start, p) # Solved
        BY <1>5, <2>1
    <2> QED BY <1>1, <1>5, <1>8, <2>2, NextBeamKeeps
<1> QED BY <1>2, <1>6, <1>7, <1>8

LEMMA InvariantHolds == Spec => []IInv
<1>1. Init => IInv
    BY InitHolds
<1>2. IInv /\ [Next]_vars => IInv'
    <2> SUFFICES ASSUME IInv, [Next]_vars PROVE IInv'
        OBVIOUS
    <2>1. CASE BeginAttempt
        BY <2>1, BeginAttemptKeeps
    <2>2. CASE AttemptsEnd
        BY <2>2, AttemptsEndKeeps
    <2>3. CASE Phase1Iteration
        BY <2>3, Phase1IterationKeeps
    <2>4. CASE Phase1Expires
        BY <2>4, Phase1ExpiresKeeps
    <2>5. CASE Phase1Ends
        BY <2>5, Phase1EndsKeeps
    <2>6. CASE NextCandidate
        BY <2>6, NextCandidateKeeps
    <2>7. CASE Phase2Iteration
        BY <2>7, Phase2IterationKeeps
    <2>8. CASE Phase2GivesUp
        BY <2>8, Phase2GivesUpKeeps
    <2>9. CASE AttemptEnds
        BY <2>9, AttemptEndsKeeps
    <2>10. CASE BeamExpires
        BY <2>10, BeamExpiresKeeps
    <2>11. CASE BeamLayer
        BY <2>11, BeamLayerKeeps
    <2>12. CASE BeamEnds
        BY <2>12, BeamEndsKeeps
    <2>13. CASE DeadlineExpires
        BY <2>13, DeadlineKeeps
    <2>14. CASE UNCHANGED vars
        <3>1. /\ UNCHANGED <<request, expired, attempt, pc, limit, candidates, best, beam, trimmed, answer>>
            BY <2>14 DEF vars
        <3>2. AllowedMoves' = AllowedMoves /\ Attempts' = Attempts /\ Depth' = Depth /\ CandidateCube' = CandidateCube
            BY <3>1 DEF AllowedMoves, Attempts, Depth, CandidateCube, Candidate
        <3>3. \A p : (Enters(p)' <=> Enters(p)) /\ (Solves(p)' <=> Solves(p))
            BY <3>1, <3>2 DEF Enters, Solves
        <3>4. TypeOK'
            BY <3>1, <3>2 DEF IInv, TypeOK
        <3>5. CandidatesEnter' /\ BestSolves' /\ LimitsAreSafe' /\ BeamIsLast' /\ Answered'
            BY <3>1, <3>2, <3>3 DEF IInv, CandidatesEnter, BestSolves, LimitsAreSafe, BeamIsLast, Answered
        <3>6. BeamHolds'
            BY <3>1, <3>2, <3>3 DEF IInv, BeamHolds
        <3>7. BeamIsExhaustive'
            BY <3>1 DEF IInv, BeamIsExhaustive
        <3> QED BY <3>4, <3>5, <3>6, <3>7 DEF IInv
    <2> QED
        BY <2>1, <2>2, <2>3, <2>4, <2>5, <2>6, <2>7, <2>8, <2>9, <2>10, <2>11, <2>12, <2>13, <2>14
        DEF Next, Step
<1> QED BY <1>1, <1>2, PTL DEF Spec

-----------------------------------------------------------------------------
(* The theorems. *)

\* The state's types in every run of the fast mode, for every puzzle, bound and set of requests
\* the assumptions allow; phase 1 never collects more than maxCandidates, nor does phase 2
\* complete more than it may.
THEOREM TypeCorrect == Spec => []TypeOK
<1>1. IInv => TypeOK
    BY DEF IInv
<1> QED BY <1>1, InvariantHolds, PTL

\* Solver::solve in fast mode returns, whichever of its searches ends it, moves that solve the
\* cube within maxDepth and turn no blocked face, and Timeout only when the request's deadline
\* has passed.
THEOREM FastAnswersAreTrue == Spec => []AnswerIsTrue
<1>1. IInv => AnswerIsTrue
    BY AnswerFollows
<1> QED BY <1>1, InvariantHolds, PTL

\* findPhase1Candidates returns no path twice, and none that was in G1 before its last move: what
\* containsCandidate and the goal test of phase1CandidatesDfs are for.
THEOREM CandidatesAlwaysEnter == Spec => []CandidatesAreEntries
<1>1. IInv => CandidatesAreEntries
    BY EntriesFollow
<1> QED BY <1>1, InvariantHolds, PTL

\* Iterative deepening from the pruning tables' bounds misses no shortest way, in either phase and
\* with any blocked faces, although the searches skip redundant moves.
THEOREM DeepeningSkipsNothing == Spec => []NoLengthSkipped
<1>1. IInv => NoLengthSkipped
    BY LengthsFollow
<1> QED BY <1>1, InvariantHolds, PTL

\* fastBeamSearch, while it has dropped no path for its width, answers as a breadth-first search
\* would: Found is shortest, DepthLimitExceeded true.
THEOREM WideBeamIsOptimal == Spec => []BeamIsExhaustive
<1>1. IInv => BeamIsExhaustive
    BY DEF IInv
<1> QED BY <1>1, InvariantHolds, PTL
=============================================================================
