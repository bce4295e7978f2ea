-------------------------- MODULE SearchNodesProofs --------------------------
(***************************************************************************)
(* Proofs about SearchNodes, at the cube's real size: for every set of     *)
(* entries, any number of moves and any radius of the tables.              *)
(***************************************************************************)
EXTENDS SearchNodes, CubeFacts, FiniteSetTheorems, WellFoundedInduction, TLAPS

-----------------------------------------------------------------------------
(* Finite sets, functions and sums. *)

LEMMA TabulatedIs == ASSUME NEW f PROVE Tabulated(f) = f
BY DEF Tabulated

LEMMA Initial == ASSUME NEW n \in Nat, NEW m, m = n + 1 PROVE IsFiniteSet(0..n) /\ Cardinality(0..n) = m
BY FS_Interval

LEMMA PlaceSets ==
    /\ IsFiniteSet(Corner) /\ Cardinality(Corner) = 8
    /\ IsFiniteSet(Edge) /\ Cardinality(Edge) = 12
    /\ IsFiniteSet(Facelet) /\ Cardinality(Facelet) = 54
<1>1. IsFiniteSet(0..7) /\ Cardinality(0..7) = 8
    BY Initial, 7 \in Nat, 8 = 7 + 1
<1>2. IsFiniteSet(0..11) /\ Cardinality(0..11) = 12
    BY Initial, 11 \in Nat, 12 = 11 + 1
<1>3. IsFiniteSet(0..53) /\ Cardinality(0..53) = 54
    BY Initial, 53 \in Nat, 54 = 53 + 1
<1> QED BY <1>1, <1>2, <1>3 DEF Corner, Edge, Facelet

LEMMA LeastNatural ==
    ASSUME NEW S \in SUBSET Nat, S # {}
    PROVE  \E m \in S : \A k \in S : m <= k
<1> DEFINE Less == OpToRel(<, Nat)
<1>1. IsWellFoundedOn(Less, Nat)
    BY NatLessThanWellFounded
<1>2. \A k, m \in Nat : k < m => <<k, m>> \in Less
    BY DEF OpToRel
<1> HIDE DEF Less
<1>3. PICK m \in S : \A k \in S : ~(<<k, m>> \in Less)
    BY <1>1, WFMin
<1>4. \A k \in S : ~(k < m)
    BY <1>2, <1>3
<1> QED BY <1>3, <1>4

\* Of some finite sets, one from which no element can be taken.
LEMMA LeastSet ==
    ASSUME NEW S, IsFiniteSet(S), NEW sets \in SUBSET (SUBSET S), sets # {}
    PROVE  \E s \in sets : \A x \in s : s \ {x} \notin sets
<1>1. \A s \in SUBSET S : IsFiniteSet(s) /\ Cardinality(s) \in Nat
    BY FS_Subset, FS_CardinalityType
<1> DEFINE sizes == {Cardinality(s) : s \in sets}
<1>2. sizes \in SUBSET Nat /\ sizes # {}
    BY <1>1
<1>3. PICK n \in sizes : \A k \in sizes : n <= k
    BY <1>2, LeastNatural
<1>4. PICK s \in sets : n = Cardinality(s)
    BY <1>3
<1>5. ASSUME NEW x \in s, s \ {x} \in sets PROVE FALSE
    <2>1. Cardinality(s \ {x}) = Cardinality(s) - 1 /\ Cardinality(s) \in Nat
        BY <1>1, FS_RemoveElement
    <2>2. Cardinality(s) <= Cardinality(s \ {x})
        BY <1>3, <1>4, <1>5
    <2> QED BY <1>1, <2>1, <2>2, <1>5
<1> QED BY <1>5

\* A function of a finite set into itself that sends no two elements to one meets every element.
LEMMA PermutationsMeetAll ==
    ASSUME NEW S, IsFiniteSet(S), NEW f \in [S -> S], IsPermutation(f)
    PROVE  \A y \in S : \E x \in S : f[x] = y
<1>1. f \in Injection(S, S)
    BY DEF Injection, IsInjective, IsPermutation
<1>2. f \in Surjection(S, S)
    BY <1>1, FS_Injection
<1> QED BY <1>2 DEF Surjection

LEMMA PermutationsCompose ==
    ASSUME NEW S, NEW f \in [S -> S], NEW g \in [S -> S], IsPermutation(f), IsPermutation(g)
    PROVE  IsPermutation([x \in S |-> f[g[x]]])
BY DEF IsPermutation

-----------------------------------------------------------------------------
(* Sums. *)

\* The element a fold takes from a set.
Pick(s) == CHOOSE x \in s : TRUE

\* total are the sums of f over the subsets of S, as the fold takes them.
Totals(total, f, S) ==
    total = [s \in SUBSET S |-> IF s = {} THEN 0 ELSE f[Pick(s)] + total[s \ {Pick(s)}]]

LEMMA TotalsOf ==
    ASSUME NEW f, NEW S, NEW total, Totals(total, f, S)
    PROVE  /\ total[{}] = 0
           /\ \A s \in SUBSET S : s # {} => total[s] = f[Pick(s)] + total[s \ {Pick(s)}]
<1> DEFINE t == [s \in SUBSET S |-> IF s = {} THEN 0 ELSE f[Pick(s)] + total[s \ {Pick(s)}]]
<1>1. total = t
    BY DEF Totals
<1>2. \A s \in SUBSET S : t[s] = IF s = {} THEN 0 ELSE f[Pick(s)] + total[s \ {Pick(s)}]
    OBVIOUS
<1>3. {} \in SUBSET S
    OBVIOUS
<1> HIDE DEF t
<1> QED BY <1>1, <1>2, <1>3

LEMMA PickedFrom == ASSUME NEW s, s # {} PROVE Pick(s) \in s
BY DEF Pick

LEMMA TotalsAgree ==
    ASSUME NEW f, NEW S, NEW T, IsFiniteSet(S), NEW p, NEW q, Totals(p, f, S), Totals(q, f, T)
    PROVE  \A s \in SUBSET S : s \in SUBSET T => p[s] = q[s]
<1> DEFINE bad == {s \in SUBSET S : s \in SUBSET T /\ p[s] # q[s]}
<1>1. CASE bad = {}
    BY <1>1
<1>2. CASE bad # {}
    <2>1. PICK s \in bad : \A x \in s : s \ {x} \notin bad
        BY <1>2, LeastSet
    <2>2. s \in SUBSET S /\ s \in SUBSET T /\ p[s] # q[s]
        BY <2>1
    <2>3. s # {}
        BY <2>2, TotalsOf
    <2>4. Pick(s) \in s /\ s \ {Pick(s)} \in SUBSET S /\ s \ {Pick(s)} \in SUBSET T
        BY <2>2, <2>3, PickedFrom
    <2>5. p[s \ {Pick(s)}] = q[s \ {Pick(s)}]
        BY <2>1, <2>4
    <2>6. p[s] = f[Pick(s)] + p[s \ {Pick(s)}]
        BY <2>2, <2>3, TotalsOf
    <2>7. q[s] = f[Pick(s)] + q[s \ {Pick(s)}]
        BY <2>2, <2>3, TotalsOf
    <2> QED BY <2>2, <2>5, <2>6, <2>7
<1> QED BY <1>1, <1>2

LEMMA TotalsExist ==
    ASSUME NEW f, NEW S, IsFiniteSet(S)
    PROVE  \E total : Totals(total, f, S)
<1> DEFINE bad == {s \in SUBSET S : ~ \E total : Totals(total, f, s)}
<1>1. CASE bad = {}
    BY <1>1
<1>2. CASE bad # {}
    <2>1. PICK r \in bad : \A x \in r : r \ {x} \notin bad
        BY <1>2, LeastSet
    <2>2. r \in SUBSET S /\ IsFiniteSet(r) /\ ~ \E total : Totals(total, f, r)
        BY <2>1, FS_Subset
    <2> DEFINE part(x) == CHOOSE total : Totals(total, f, r \ {x})
    <2>3. ASSUME NEW x \in r PROVE Totals(part(x), f, r \ {x}) /\ IsFiniteSet(r \ {x})
        <3>1. \E total : Totals(total, f, r \ {x})
            BY <2>1, <2>2
        <3>2. IsFiniteSet(r \ {x})
            BY <2>2, FS_RemoveElement
        <3> QED BY <3>1, <3>2
    <2> HIDE DEF part
    \* A subset of r other than r lacks some element; the parts agree on it.
    <2> DEFINE missing(s) == CHOOSE x \in r : x \notin s
               whole == part(Pick(r))[r \ {Pick(r)}]
               total == [s \in SUBSET r |->
                            IF s = r THEN (IF r = {} THEN 0 ELSE f[Pick(r)] + whole)
                            ELSE part(missing(s))[s]]
    <2>4. ASSUME NEW s \in SUBSET r, s # r
          PROVE  missing(s) \in r /\ s \in SUBSET (r \ {missing(s)})
        <3>1. \E x \in r : x \notin s
            BY <2>4
        <3>2. missing(s) \in r /\ missing(s) \notin s
            BY <3>1
        <3> QED BY <3>2
    <2> HIDE DEF missing
    <2>5. ASSUME NEW s \in SUBSET r, NEW x \in r, x \notin s
          PROVE  total[s] = part(x)[s]
        <3>1. s # r /\ s \in SUBSET (r \ {x})
            BY <2>5
        <3>2. total[s] = part(missing(s))[s]
            <4> HIDE DEF whole
            <4> QED BY <3>1
        <3>3. Totals(part(x), f, r \ {x}) /\ IsFiniteSet(r \ {x})
            BY <2>3
        <3>4. missing(s) \in r /\ s \in SUBSET (r \ {missing(s)})
            BY <2>4, <3>1
        <3>5. Totals(part(missing(s)), f, r \ {missing(s)})
            BY <2>3, <3>4
        <3> HIDE DEF total
        <3>6. part(x)[s] = part(missing(s))[s]
            BY <3>1, <3>3, <3>4, <3>5, TotalsAgree
        <3> QED BY <3>2, <3>6
    <2>6. ASSUME NEW s \in SUBSET r
          PROVE  total[s] = IF s = {} THEN 0 ELSE f[Pick(s)] + total[s \ {Pick(s)}]
        <3>1. CASE s = r /\ r = {}
            BY <3>1
        <3>2. CASE s = r /\ r # {}
            <4>1. Pick(r) \in r /\ r \ {Pick(r)} \in SUBSET r
                BY <3>2, PickedFrom
            <4>2. total[r] = f[Pick(r)] + whole
                <5> HIDE DEF whole
                <5> QED BY <3>2
            <4>3. total[r \ {Pick(r)}] = part(Pick(r))[r \ {Pick(r)}]
                BY <2>5, <4>1
            <4> HIDE DEF total
            <4> QED BY <3>2, <4>2, <4>3
        <3>3. CASE s # r
            <4>1. missing(s) \in r /\ s \in SUBSET (r \ {missing(s)})
                BY <2>4, <3>3
            <4>2. missing(s) \notin s /\ missing(s) \notin s \ {Pick(s)} /\ s \ {Pick(s)} \in SUBSET r
                  /\ s \ {Pick(s)} \in SUBSET (r \ {missing(s)})
                BY <4>1
            <4>3. total[s] = part(missing(s))[s] /\ total[s \ {Pick(s)}] = part(missing(s))[s \ {Pick(s)}]
                BY <2>5, <4>1, <4>2
            <4>4. Totals(part(missing(s)), f, r \ {missing(s)})
                BY <2>3, <4>1
            <4> HIDE DEF total
            <4>5. /\ part(missing(s))[{}] = 0
                  /\ s # {} => part(missing(s))[s] = f[Pick(s)] + part(missing(s))[s \ {Pick(s)}]
                BY <4>1, <4>4, TotalsOf
            <4> QED BY <4>3, <4>5
        <3> QED BY <3>1, <3>2, <3>3
    <2>7. total = [s \in SUBSET r |-> total[s]]
        OBVIOUS
    <2> HIDE DEF total
    <2>8. Totals(total, f, r)
        BY <2>6, <2>7 DEF Totals
    <2> QED BY <2>2, <2>8
<1> QED BY <1>1, <1>2

LEMMA TotalIs ==
    ASSUME NEW f, IsFiniteSet(DOMAIN f)
    PROVE  \E total : Totals(total, f, DOMAIN f) /\ Total(f) = total[DOMAIN f]
<1> DEFINE T(total) == Totals(total, f, DOMAIN f)
           iter == CHOOSE total : T(total)
<1>1. Total(f) = iter[DOMAIN f]
    BY DEF Total, FoldFunction, FoldFunctionOnSet, MapThenFoldSet, Totals, Pick
<1>2. T(iter)
    <2>1. \E total : T(total)
        BY TotalsExist
    <2> HIDE DEF T
    <2> QED BY <2>1
<1> QED BY <1>1, <1>2

LEMMA TotalsAreNatural ==
    ASSUME NEW S, IsFiniteSet(S), NEW f \in [S -> Nat], NEW total, Totals(total, f, S)
    PROVE  \A s \in SUBSET S : total[s] \in Nat
<1> DEFINE bad == {s \in SUBSET S : total[s] \notin Nat}
<1>1. CASE bad = {}
    BY <1>1
<1>2. CASE bad # {}
    <2>1. PICK s \in bad : \A x \in s : s \ {x} \notin bad
        BY <1>2, LeastSet
    <2>2. total[{}] = 0
        BY TotalsOf
    <2>3. s # {}
        BY <2>1, <2>2
    <2>4. Pick(s) \in s /\ s \in SUBSET S /\ s \ {Pick(s)} \in SUBSET S
        BY <2>1, <2>3, PickedFrom
    <2>5. total[s] = f[Pick(s)] + total[s \ {Pick(s)}]
        BY <2>3, <2>4, TotalsOf
    <2> QED BY <2>1, <2>4, <2>5
<1> QED BY <1>1, <1>2

\* Any element may be taken first.
LEMMA TotalsTake ==
    ASSUME NEW S, IsFiniteSet(S), NEW f \in [S -> Nat], NEW total, Totals(total, f, S)
    PROVE  \A s \in SUBSET S : \A x \in s : total[s] = f[x] + total[s \ {x}]
<1> DEFINE Fine(s) == \A x \in s : total[s] = f[x] + total[s \ {x}]
           bad == {s \in SUBSET S : ~Fine(s)}
<1>1. CASE bad = {}
    BY <1>1
<1>2. CASE bad # {}
    <2>1. PICK s \in bad : \A x \in s : s \ {x} \notin bad
        BY <1>2, LeastSet
    <2>2. PICK x \in s : total[s] # f[x] + total[s \ {x}]
        BY <2>1
    <2> DEFINE y == Pick(s)
    <2>3. y \in s /\ s \in SUBSET S
        BY <2>1, <2>2, PickedFrom
    <2>4. total[s] = f[y] + total[s \ {y}]
        BY <2>2, <2>3, TotalsOf
    <2>5. x # y
        BY <2>2, <2>4
    <2>6. Fine(s \ {x}) /\ Fine(s \ {y})
        <3> HIDE DEF Fine
        <3> QED BY <2>1, <2>3
    <2>7. total[s \ {y}] = f[x] + total[(s \ {y}) \ {x}]
        BY <2>5, <2>6
    <2>8. total[s \ {x}] = f[y] + total[(s \ {x}) \ {y}]
        BY <2>3, <2>5, <2>6
    <2>9. (s \ {x}) \ {y} = (s \ {y}) \ {x} /\ (s \ {x}) \ {y} \in SUBSET S
        BY <2>3
    <2>10. f[x] \in Nat /\ f[y] \in Nat /\ total[(s \ {x}) \ {y}] \in Nat
        BY <2>3, <2>9, TotalsAreNatural
    <2> QED BY <2>2, <2>4, <2>7, <2>8, <2>9, <2>10
<1> QED BY <1>1, <1>2

LEMMA TotalIsNatural ==
    ASSUME NEW S, IsFiniteSet(S), NEW f \in [S -> Nat]
    PROVE  Total(f) \in Nat
BY TotalIs, TotalsAreNatural

\* Terms in another order have the same sum.
LEMMA PermutedTotal ==
    ASSUME NEW S, IsFiniteSet(S), NEW f \in [S -> Nat], NEW t \in [S -> S], IsPermutation(t)
    PROVE  Total([x \in S |-> f[t[x]]]) = Total(f)
<1> DEFINE g == [x \in S |-> f[t[x]]]
           image(s) == {t[x] : x \in s}
<1>1. g \in [S -> Nat] /\ DOMAIN g = S /\ DOMAIN f = S
    OBVIOUS
<1>2. PICK p : Totals(p, f, S) /\ Total(f) = p[S]
    BY <1>1, TotalIs
<1>3. PICK q : Totals(q, g, S) /\ Total(g) = q[S]
    <2> HIDE DEF g
    <2> QED BY <1>1, TotalIs
<1>4. \A x \in S : g[x] = f[t[x]]
    OBVIOUS
<1> HIDE DEF g
<1> DEFINE bad == {s \in SUBSET S : q[s] # p[image(s)]}
<1>5. CASE bad = {}
    <2>1. image(S) = S
        BY PermutationsMeetAll
    <2> QED BY <1>2, <1>3, <1>5, <2>1 DEF g
<1>6. CASE bad # {}
    <2>1. PICK s \in bad : \A x \in s : s \ {x} \notin bad
        BY <1>6, LeastSet
    <2>2. s # {}
        <3>1. image({}) = {}
            OBVIOUS
        <3>2. p[{}] = 0
            BY <1>2, TotalsOf
        <3>3. q[{}] = 0
            BY <1>3, TotalsOf
        <3> QED BY <2>1, <3>1, <3>2, <3>3
    <2>3. PICK x \in s : TRUE
        BY <2>2
    <2>4. s \in SUBSET S /\ s \ {x} \in SUBSET S /\ image(s) \in SUBSET S /\ t[x] \in image(s)
        BY <2>1, <2>3
    <2>5. image(s \ {x}) = image(s) \ {t[x]}
        BY <2>3, <2>4 DEF IsPermutation
    <2>6. q[s] = g[x] + q[s \ {x}]
        <3> HIDE DEF image
        <3> QED BY <1>1, <1>3, <2>3, <2>4, TotalsTake
    <2>7. p[image(s)] = f[t[x]] + p[image(s) \ {t[x]}]
        <3> HIDE DEF image
        <3> QED BY <1>2, <2>4, TotalsTake
    <2>8. q[s \ {x}] = p[image(s \ {x})]
        BY <2>1, <2>3, <2>4
    <2> QED BY <1>4, <2>1, <2>4, <2>5, <2>6, <2>7, <2>8
<1> QED BY <1>5, <1>6

\* Sums term by term, by themselves and modulo 2 or 3.
LEMMA TotalsAdd ==
    ASSUME NEW S, IsFiniteSet(S), NEW f \in [S -> Nat], NEW g \in [S -> Nat]
    PROVE  Total([x \in S |-> f[x] + g[x]]) = Total(f) + Total(g)
<1> DEFINE h == [x \in S |-> f[x] + g[x]]
<1>1. h \in [S -> Nat] /\ DOMAIN h = S /\ DOMAIN g = S /\ DOMAIN f = S
    OBVIOUS
<1>2. \A x \in S : h[x] = f[x] + g[x]
    OBVIOUS
<1> HIDE DEF h
<1>3. PICK p : Totals(p, f, S) /\ Total(f) = p[S]
    BY <1>1, TotalIs
<1>4. PICK q : Totals(q, g, S) /\ Total(g) = q[S]
    BY <1>1, TotalIs
<1>5. PICK r : Totals(r, h, S) /\ Total(h) = r[S]
    BY <1>1, TotalIs
<1>6. \A s \in SUBSET S : p[s] \in Nat /\ q[s] \in Nat /\ r[s] \in Nat
    BY <1>1, <1>3, <1>4, <1>5, TotalsAreNatural
<1> DEFINE bad == {s \in SUBSET S : r[s] # p[s] + q[s]}
<1>7. CASE bad = {}
    BY <1>3, <1>4, <1>5, <1>7 DEF h
<1>8. CASE bad # {}
    <2>1. PICK s \in bad : \A x \in s : s \ {x} \notin bad
        BY <1>8, LeastSet
    <2>2. s # {}
        <3>1. p[{}] = 0
            BY <1>3, TotalsOf
        <3>2. q[{}] = 0
            BY <1>4, TotalsOf
        <3>3. r[{}] = 0
            BY <1>5, TotalsOf
        <3>4. r[s] # p[s] + q[s]
            BY <2>1
        <3> HIDE DEF bad
        <3> QED BY <3>1, <3>2, <3>3, <3>4
    <2>3. PICK x \in s : TRUE
        BY <2>2
    <2>4. s \in SUBSET S /\ s \ {x} \in SUBSET S /\ x \in S
        BY <2>1, <2>3
    <2>5. p[s] = f[x] + p[s \ {x}]
        BY <1>3, <2>3, <2>4, TotalsTake
    <2>6. q[s] = g[x] + q[s \ {x}]
        BY <1>4, <2>3, <2>4, TotalsTake
    <2>7. r[s] = h[x] + r[s \ {x}]
        BY <1>1, <1>5, <2>3, <2>4, TotalsTake
    <2>8. r[s \ {x}] = p[s \ {x}] + q[s \ {x}]
        BY <2>1, <2>3, <2>4
    <2>9. f[x] \in Nat /\ g[x] \in Nat
        BY <2>4
    <2> QED BY <1>2, <1>6, <2>1, <2>4, <2>5, <2>6, <2>7, <2>8, <2>9
<1> QED BY <1>7, <1>8

LEMMA RemaindersAdd ==
    ASSUME NEW n \in {2, 3}, NEW a \in Nat, NEW b \in Nat
    PROVE  ((a % n) + (b % n)) % n = (a + b) % n
<1>1. CASE n = 2
    BY <1>1
<1>2. CASE n = 3
    BY <1>2
<1> QED BY <1>1, <1>2

LEMMA TotalOfRemainders ==
    ASSUME NEW n \in {2, 3}, NEW S, IsFiniteSet(S), NEW f \in [S -> Nat]
    PROVE  Total([x \in S |-> f[x] % n]) % n = Total(f) % n
<1> DEFINE h == [x \in S |-> f[x] % n]
<1>0. ASSUME NEW x \in S PROVE f[x] % n \in Nat
    <2>1. f[x] \in Nat
        OBVIOUS
    <2> QED BY <2>1
<1>1. h \in [S -> Nat] /\ DOMAIN h = S /\ DOMAIN f = S
    BY <1>0
<1>2. \A x \in S : h[x] = f[x] % n
    OBVIOUS
<1> HIDE DEF h
<1>3. PICK p : Totals(p, f, S) /\ Total(f) = p[S]
    BY <1>1, TotalIs
<1>4. PICK r : Totals(r, h, S) /\ Total(h) = r[S]
    BY <1>1, TotalIs
<1>5. \A s \in SUBSET S : p[s] \in Nat /\ r[s] \in Nat
    BY <1>1, <1>3, <1>4, TotalsAreNatural
<1> DEFINE bad == {s \in SUBSET S : r[s] % n # p[s] % n}
<1>6. CASE bad = {}
    BY <1>3, <1>4, <1>6 DEF h
<1>7. CASE bad # {}
    <2>1. PICK s \in bad : \A x \in s : s \ {x} \notin bad
        BY <1>7, LeastSet
    <2>2. s # {}
        <3>1. p[{}] = 0 /\ r[{}] = 0
            BY <1>3, <1>4, TotalsOf
        <3> QED BY <2>1, <3>1
    <2>3. PICK x \in s : TRUE
        BY <2>2
    <2>4. s \in SUBSET S /\ s \ {x} \in SUBSET S /\ x \in S
        BY <2>1, <2>3
    <2>5. p[s] = f[x] + p[s \ {x}]
        BY <1>3, <2>3, <2>4, TotalsTake
    <2>6. r[s] = h[x] + r[s \ {x}]
        BY <1>1, <1>4, <2>3, <2>4, TotalsTake
    <2>7. r[s \ {x}] % n = p[s \ {x}] % n
        BY <2>1, <2>3, <2>4
    <2> DEFINE a == f[x]
               b == p[s \ {x}]
               c == r[s \ {x}]
    <2>8. a \in Nat /\ b \in Nat /\ c \in Nat /\ h[x] = a % n
        BY <1>2, <1>5, <2>4
    <2>9. ((a % n) + c) % n = (a + b) % n
        <3>1. c % n = b % n
            BY <2>7
        <3> HIDE DEF a, b, c
        <3>2. CASE n = 2
            BY <2>8, <3>1, <3>2
        <3>3. CASE n = 3
            BY <2>8, <3>1, <3>3
        <3> QED BY <3>2, <3>3
    <2> QED BY <2>1, <2>5, <2>6, <2>8, <2>9
<1> QED BY <1>6, <1>7

-----------------------------------------------------------------------------
(* The parity of a permutation. *)

\* The pairs of places whose values are out of order.
Inversions(f, S) == {pair \in S \X S : pair[1] < pair[2] /\ f[pair[1]] > f[pair[2]]}

LEMMA ParityIs == ASSUME NEW S, NEW f \in [S -> S] PROVE Parity(f) = Cardinality(Inversions(f, S)) % 2
BY DEF Parity, Inversions

\* Two permutations one after the other have the parity of both together: a pair comes out of order
\* when just one of them puts it there.
LEMMA ParityAdds ==
    ASSUME NEW S, S \subseteq Nat, IsFiniteSet(S), NEW f \in [S -> S], NEW t \in [S -> S],
           IsPermutation(f), IsPermutation(t)
    PROVE  Parity([x \in S |-> f[t[x]]]) = (Parity(f) + Parity(t)) % 2
<1> DEFINE g == [x \in S |-> f[t[x]]]
           Image(pair) == IF t[pair[1]] < t[pair[2]] THEN <<t[pair[1]], t[pair[2]]>> ELSE <<t[pair[2]], t[pair[1]]>>
           byF == Inversions(f, S)
           byT == Inversions(t, S)
           moved == {pair \in S \X S : pair[1] < pair[2] /\ Image(pair) \in byF}
<1>1. \A x, y \in S : x # y => t[x] # t[y] /\ f[x] # f[y]
    BY DEF IsPermutation
<1>2. \A x \in S : t[x] \in S /\ f[x] \in S /\ x \in Nat /\ t[x] \in Nat /\ f[x] \in Nat
    OBVIOUS
<1>3. Inversions(g, S) = (byT \ moved) \cup (moved \ byT)
    <2>1. ASSUME NEW x \in S, NEW y \in S, x < y
          PROVE  f[t[x]] > f[t[y]] <=> ((t[x] > t[y]) # (Image(<<x, y>>) \in byF))
        <3>1. t[x] # t[y] /\ f[t[x]] # f[t[y]]
            BY <1>1, <1>2, <2>1
        <3>2. t[x] \in S /\ t[y] \in S /\ t[x] \in Nat /\ t[y] \in Nat /\ f[t[x]] \in Nat /\ f[t[y]] \in Nat
            BY <1>2
        <3>3. CASE t[x] < t[y]
            <4>1. Image(<<x, y>>) = <<t[x], t[y]>>
                BY <3>3
            <4>2. Image(<<x, y>>) \in byF <=> f[t[x]] > f[t[y]]
                BY <3>2, <3>3, <4>1 DEF Inversions
            <4> QED BY <3>2, <3>3, <4>2
        <3>4. CASE t[x] > t[y]
            <4>1. Image(<<x, y>>) = <<t[y], t[x]>>
                BY <3>2, <3>4
            <4>2. Image(<<x, y>>) \in byF <=> f[t[y]] > f[t[x]]
                BY <3>2, <3>4, <4>1 DEF Inversions
            <4> QED BY <3>1, <3>2, <3>4, <4>2
        <3> QED BY <3>1, <3>2, <3>3, <3>4
    <2> HIDE DEF Image, byF
    <2>2. \A pair \in S \X S : pair = <<pair[1], pair[2]>> /\ pair[1] \in S /\ pair[2] \in S
        OBVIOUS
    <2>3. ASSUME NEW pair \in S \X S
          PROVE  pair \in Inversions(g, S) <=> pair \in (byT \ moved) \cup (moved \ byT)
        <3>1. pair = <<pair[1], pair[2]>> /\ pair[1] \in S /\ pair[2] \in S
            BY <2>2
        <3>2. pair \in Inversions(g, S) <=> pair[1] < pair[2] /\ f[t[pair[1]]] > f[t[pair[2]]]
            BY <3>1 DEF Inversions
        <3>3. pair \in byT <=> pair[1] < pair[2] /\ t[pair[1]] > t[pair[2]]
            BY <3>1 DEF Inversions
        <3>4. pair \in moved <=> pair[1] < pair[2] /\ Image(pair) \in byF
            BY <3>1
        <3>5. pair[1] < pair[2] =>
                (f[t[pair[1]]] > f[t[pair[2]]] <=> ((t[pair[1]] > t[pair[2]]) # (Image(pair) \in byF)))
            BY <2>1, <3>1
        <3> HIDE DEF g, byT, moved
        <3> QED BY <3>2, <3>3, <3>4, <3>5
    <2>4. Inversions(g, S) \subseteq S \X S /\ byT \subseteq S \X S /\ moved \subseteq S \X S
        BY DEF Inversions
    <2> HIDE DEF g, byT, moved
    <2> QED BY <2>3, <2>4
<1>4. ExistsBijection(moved, byF)
    <2> DEFINE h == [pair \in moved |-> Image(pair)]
    <2>1. h \in [moved -> byF]
        OBVIOUS
    <2>2. \A pair \in moved : pair = <<pair[1], pair[2]>> /\ pair[1] \in S /\ pair[2] \in S /\ pair[1] < pair[2]
        OBVIOUS
    <2>3. ASSUME NEW a \in moved, NEW b \in moved, Image(a) = Image(b) PROVE a = b
        <3>1. a = <<a[1], a[2]>> /\ a[1] \in S /\ a[2] \in S /\ a[1] < a[2]
            BY <2>2
        <3>2. b = <<b[1], b[2]>> /\ b[1] \in S /\ b[2] \in S /\ b[1] < b[2]
            BY <2>2
        <3>3. \/ t[a[1]] = t[b[1]] /\ t[a[2]] = t[b[2]]
              \/ t[a[1]] = t[b[2]] /\ t[a[2]] = t[b[1]]
            <4> HIDE DEF moved
            <4> QED BY <2>3
        <3>4. \/ a[1] = b[1] /\ a[2] = b[2]
              \/ a[1] = b[2] /\ a[2] = b[1]
            BY <1>1, <3>1, <3>2, <3>3
        <3>5. a[1] \in Nat /\ a[2] \in Nat /\ b[1] \in Nat /\ b[2] \in Nat
            BY <3>1, <3>2
        <3>6. a[1] = b[1] /\ a[2] = b[2]
            BY <3>1, <3>2, <3>4, <3>5
        <3> QED BY <3>1, <3>2, <3>6
    <2>4. ASSUME NEW c \in byF PROVE \E a \in moved : h[a] = c
        <3>1. c = <<c[1], c[2]>> /\ c[1] \in S /\ c[2] \in S /\ c[1] < c[2] /\ c[1] \in Nat /\ c[2] \in Nat
            <4>1. c \in S \X S /\ c[1] < c[2]
                BY DEF Inversions
            <4>2. c = <<c[1], c[2]>> /\ c[1] \in S /\ c[2] \in S
                BY <4>1
            <4> QED BY <4>1, <4>2
        <3>2. PICK x \in S : t[x] = c[1]
            BY <3>1, PermutationsMeetAll
        <3>3. PICK y \in S : t[y] = c[2]
            BY <3>1, PermutationsMeetAll
        <3>4. x \in Nat /\ y \in Nat /\ x # y
            BY <1>2, <3>1, <3>2, <3>3
        <3>5. CASE x < y
            <4>1. Image(<<x, y>>) = c
                BY <3>1, <3>2, <3>3
            <4>2. <<x, y>> \in moved
                BY <3>5, <4>1
            <4> QED BY <4>1, <4>2
        <3>6. CASE y < x
            <4>1. Image(<<y, x>>) = c
                BY <3>1, <3>2, <3>3
            <4>2. <<y, x>> \in moved
                BY <3>6, <4>1
            <4> QED BY <4>1, <4>2
        <3> HIDE DEF h, moved
        <3> QED BY <3>4, <3>5, <3>6
    <2>5. h \in Injection(moved, byF)
        <3>1. \A a, b \in moved : h[a] = h[b] => a = b
            <4> HIDE DEF Image, moved
            <4> QED BY <2>3
        <3> HIDE DEF h, moved, byF
        <3> QED BY <2>1, <3>1 DEF Injection, IsInjective
    <2>6. h \in Surjection(moved, byF)
        <3> HIDE DEF h, moved, byF
        <3> QED BY <2>1, <2>4 DEF Surjection
    <2> HIDE DEF h, moved, byF
    <2> QED BY <2>5, <2>6 DEF Bijection, ExistsBijection
<1>5. IsFiniteSet(byF) /\ IsFiniteSet(byT) /\ IsFiniteSet(moved)
    <2>1. IsFiniteSet(S \X S)
        BY FS_Product
    <2>2. byF \in SUBSET (S \X S) /\ byT \in SUBSET (S \X S) /\ moved \in SUBSET (S \X S)
        BY DEF Inversions
    <2> HIDE DEF byF, byT, moved
    <2> QED BY <2>1, <2>2, FS_Subset
<1> HIDE DEF byF, byT, moved, g
<1>6. Cardinality(moved) = Cardinality(byF)
    BY <1>4, <1>5, FS_Bijection
<1> DEFINE both == byT \cap moved
           a == Cardinality(byT \ moved)
           b == Cardinality(moved \ byT)
           k == Cardinality(both)
<1>7. /\ IsFiniteSet(byT \ moved) /\ a = Cardinality(byT) - k
      /\ IsFiniteSet(moved \ byT) /\ b = Cardinality(moved) - k
    <2>1. moved \cap byT = both
        OBVIOUS
    <2>2. IsFiniteSet(byT \ moved) /\ Cardinality(byT \ moved) = Cardinality(byT) - Cardinality(byT \cap moved)
        BY <1>5, FS_Difference
    <2>3. IsFiniteSet(moved \ byT) /\ Cardinality(moved \ byT) = Cardinality(moved) - Cardinality(moved \cap byT)
        BY <1>5, FS_Difference
    <2> QED BY <2>1, <2>2, <2>3
<1>8. Cardinality(Inversions(g, S)) = a + b
    <2> DEFINE onlyT == byT \ moved
               onlyMoved == moved \ byT
    <2>1. onlyT \cap onlyMoved = {}
        OBVIOUS
    <2>2. Cardinality({}) = 0
        BY FS_EmptySet
    <2>3. a = Cardinality(onlyT) /\ b = Cardinality(onlyMoved) /\ IsFiniteSet(onlyT) /\ IsFiniteSet(onlyMoved)
        BY <1>7
    <2>4. Inversions(g, S) = onlyT \cup onlyMoved
        BY <1>3
    <2> HIDE DEF onlyT, onlyMoved, a, b
    <2>5. a \in Nat /\ b \in Nat
        BY <2>3, FS_CardinalityType
    <2>6. Cardinality(onlyT \cup onlyMoved) = Cardinality(onlyT) + Cardinality(onlyMoved) - Cardinality(onlyT \cap onlyMoved)
        BY <2>3, FS_Union
    <2>7. Cardinality(onlyT \cap onlyMoved) = 0
        BY <2>1, <2>2
    <2>8. Cardinality(onlyT \cup onlyMoved) = a + b - 0
        BY <2>3, <2>6, <2>7
    <2>9. Cardinality(onlyT \cup onlyMoved) = a + b
        BY <2>5, <2>8
    <2> QED BY <2>4, <2>9
<1>9. Cardinality(byT) \in Nat /\ Cardinality(byF) \in Nat /\ k \in Nat /\ a \in Nat /\ b \in Nat
    <2>1. IsFiniteSet(both)
        BY <1>5, FS_Intersection
    <2> QED BY <1>5, <1>7, <2>1, FS_CardinalityType
<1>10. g \in [S -> S]
    BY <1>2 DEF g
<1>11. /\ Parity(g) = Cardinality(Inversions(g, S)) % 2
       /\ Parity(f) = Cardinality(byF) % 2
       /\ Parity(t) = Cardinality(byT) % 2
    BY <1>10, ParityIs DEF byF, byT
<1>12. (a + b) % 2 = ((Cardinality(byF) % 2) + (Cardinality(byT) % 2)) % 2
    <2>1. a = Cardinality(byT) - k /\ b = Cardinality(byF) - k
        BY <1>6, <1>7
    <2> HIDE DEF a, b, k
    <2> QED BY <1>9, <2>1
<1>13. Parity(g) = (Parity(f) + Parity(t)) % 2
    <2>1. Parity(f) = Cardinality(byF) % 2
        BY <1>11
    <2>2. Parity(t) = Cardinality(byT) % 2
        BY <1>11
    <2>3. Parity(g) = (a + b) % 2
        BY <1>8, <1>11
    <2>4. Parity(g) = ((Cardinality(byF) % 2) + (Cardinality(byT) % 2)) % 2
        BY <1>12, <2>3
    <2>5. Parity(f) \in Nat /\ Parity(t) \in Nat
        BY <1>9, <2>1, <2>2
    <2> QED BY <1>9, <2>1, <2>2, <2>4, <2>5
<1> QED BY <1>13 DEF g

LEMMA ParityIsNatural == ASSUME NEW S, IsFiniteSet(S), NEW f \in [S -> S] PROVE Parity(f) \in Nat
<1>1. Parity(f) = Cardinality(Inversions(f, S)) % 2
    BY ParityIs
<1>2. IsFiniteSet(S \X S) /\ Inversions(f, S) \in SUBSET (S \X S)
    BY FS_Product DEF Inversions
<1>3. Cardinality(Inversions(f, S)) \in Nat
    BY <1>2, FS_Subset, FS_CardinalityType
<1> QED BY <1>1, <1>3

-----------------------------------------------------------------------------
(* Cubes that validation accepts, and turning them (CubieCube::validate and apply). *)

ValidCube(c) == c \in Cubie /\ CubieError(c) = "None"

LEMMA ValidMeans ==
    ASSUME NEW c
    PROVE  CubieError(c) = "None" <=>
              /\ IsPermutation(c.cp) /\ IsPermutation(c.ep)
              /\ Total(c.co) % 3 = 0 /\ Total(c.eo) % 2 = 0
              /\ Parity(c.cp) = Parity(c.ep)
BY DEF CubieError

LEMMA CubieOfIs ==
    ASSUME NEW cp, NEW co, NEW ep, NEW eo
    PROVE  CubieOf(cp, co, ep, eo) = [cp |-> cp, co |-> co, ep |-> ep, eo |-> eo]
BY TabulatedIs DEF CubieOf

LEMMA CubieHas ==
    ASSUME NEW c \in Cubie
    PROVE  /\ c = [cp |-> c.cp, co |-> c.co, ep |-> c.ep, eo |-> c.eo]
           /\ c.cp \in [Corner -> Corner] /\ c.co \in [Corner -> 0..2] /\ c.co \in [Corner -> Nat]
           /\ c.ep \in [Edge -> Edge] /\ c.eo \in [Edge -> 0..1] /\ c.eo \in [Edge -> Nat]
<1>1. 0..2 \subseteq Nat /\ 0..1 \subseteq Nat
    OBVIOUS
<1> QED BY <1>1 DEF Cubie

\* Two cubes with the same cubies in the same places, turned alike, are one.
LEMMA SameCubie ==
    ASSUME NEW c \in Cubie, NEW t \in Cubie,
           \A p \in Corner : c.cp[p] = t.cp[p] /\ c.co[p] = t.co[p],
           \A p \in Edge : c.ep[p] = t.ep[p] /\ c.eo[p] = t.eo[p]
    PROVE  c = t
<1>1. c = [cp |-> c.cp, co |-> c.co, ep |-> c.ep, eo |-> c.eo]
    BY CubieHas
<1>2. t = [cp |-> t.cp, co |-> t.co, ep |-> t.ep, eo |-> t.eo]
    BY CubieHas
<1>3. c.cp \in [Corner -> Corner] /\ t.cp \in [Corner -> Corner]
    BY CubieHas
<1>4. c.co \in [Corner -> 0..2] /\ t.co \in [Corner -> 0..2]
    BY CubieHas
<1>5. c.ep \in [Edge -> Edge] /\ t.ep \in [Edge -> Edge]
    BY CubieHas
<1>6. c.eo \in [Edge -> 0..1] /\ t.eo \in [Edge -> 0..1]
    BY CubieHas
<1>7. c.cp = t.cp
    BY <1>3
<1>8. c.co = t.co
    BY <1>4
<1>9. c.ep = t.ep
    BY <1>5
<1>10. c.eo = t.eo
    BY <1>6
<1> QED BY <1>1, <1>2, <1>7, <1>8, <1>9, <1>10

LEMMA CubieAt ==
    ASSUME NEW c \in Cubie
    PROVE  /\ \A p \in Corner : c.cp[p] \in Corner /\ c.co[p] \in 0..2 /\ c.co[p] \in Nat
           /\ \A p \in Edge : c.ep[p] \in Edge /\ c.eo[p] \in 0..1 /\ c.eo[p] \in Nat
BY CubieHas

LEMMA TransformedIs ==
    ASSUME NEW c \in Cubie, NEW t \in Cubie
    PROVE  /\ Transformed(c, t) \in Cubie
           /\ \A p \in Corner : /\ Transformed(c, t).cp[p] = c.cp[t.cp[p]]
                                /\ Transformed(c, t).co[p] = (c.co[t.cp[p]] + t.co[p]) % 3
           /\ \A p \in Edge : /\ Transformed(c, t).ep[p] = c.ep[t.ep[p]]
                              /\ Transformed(c, t).eo[p] = (c.eo[t.ep[p]] + t.eo[p]) % 2
<1> DEFINE cp == [p \in Corner |-> c.cp[t.cp[p]]]
           co == [p \in Corner |-> (c.co[t.cp[p]] + t.co[p]) % 3]
           ep == [p \in Edge |-> c.ep[t.ep[p]]]
           eo == [p \in Edge |-> (c.eo[t.ep[p]] + t.eo[p]) % 2]
<1>1. Transformed(c, t) = [cp |-> cp, co |-> co, ep |-> ep, eo |-> eo]
    BY CubieOfIs DEF Transformed
<1>2. cp \in [Corner -> Corner] /\ ep \in [Edge -> Edge]
    BY CubieAt
<1>3. \A x, y \in Nat : (x + y) % 3 \in 0..2 /\ (x + y) % 2 \in 0..1
    OBVIOUS
<1>4. co \in [Corner -> 0..2]
    <2>1. ASSUME NEW p \in Corner PROVE (c.co[t.cp[p]] + t.co[p]) % 3 \in 0..2
        <3>1. c.co[t.cp[p]] \in Nat /\ t.co[p] \in Nat
            BY CubieAt
        <3> QED BY <1>3, <3>1
    <2> QED BY <2>1
<1>5. eo \in [Edge -> 0..1]
    <2>1. ASSUME NEW p \in Edge PROVE (c.eo[t.ep[p]] + t.eo[p]) % 2 \in 0..1
        <3>1. c.eo[t.ep[p]] \in Nat /\ t.eo[p] \in Nat
            BY CubieAt
        <3> QED BY <1>3, <3>1
    <2> QED BY <2>1
<1>6. \A p \in Corner : cp[p] = c.cp[t.cp[p]] /\ co[p] = (c.co[t.cp[p]] + t.co[p]) % 3
    OBVIOUS
<1>7. \A p \in Edge : ep[p] = c.ep[t.ep[p]] /\ eo[p] = (c.eo[t.ep[p]] + t.eo[p]) % 2
    OBVIOUS
<1> HIDE DEF cp, co, ep, eo
<1>8. Transformed(c, t) \in Cubie
    BY <1>1, <1>2, <1>4, <1>5 DEF Cubie
<1> QED BY <1>1, <1>6, <1>7, <1>8

\* Turns one after the other are balanced when each of them is.
LEMMA TurnsBalance ==
    ASSUME NEW n \in {2, 3}, NEW S, IsFiniteSet(S), NEW f \in [S -> Nat], NEW g \in [S -> Nat],
           NEW t \in [S -> S], IsPermutation(t), Total(f) % n = 0, Total(g) % n = 0,
           NEW both \in [S -> Nat], \A p \in S : both[p] = (f[t[p]] + g[p]) % n
    PROVE  Total(both) % n = 0
<1> DEFINE h == [p \in S |-> f[t[p]]]
           sum == [p \in S |-> h[p] + g[p]]
<1>1. h \in [S -> Nat] /\ Total(h) = Total(f)
    BY PermutedTotal
<1>2. sum \in [S -> Nat] /\ Total(sum) = Total(h) + Total(g)
    <2> HIDE DEF h
    <2>1. sum \in [S -> Nat]
        BY <1>1
    <2> QED BY <1>1, <2>1, TotalsAdd
<1>3. both = [p \in S |-> sum[p] % n]
    OBVIOUS
<1>4. Total([p \in S |-> sum[p] % n]) % n = Total(sum) % n
    <2> HIDE DEF sum
    <2> QED BY <1>2, TotalOfRemainders
<1>5. Total(f) \in Nat /\ Total(g) \in Nat
    BY TotalIsNatural
<1>6. \A a, b \in Nat : /\ a % 2 = 0 /\ b % 2 = 0 => (a + b) % 2 = 0
                        /\ a % 3 = 0 /\ b % 3 = 0 => (a + b) % 3 = 0
    OBVIOUS
<1>7. (Total(f) + Total(g)) % n = 0
    <2>1. CASE n = 2
        BY <1>5, <1>6, <2>1
    <2>2. CASE n = 3
        BY <1>5, <1>6, <2>2
    <2> QED BY <2>1, <2>2
<1> HIDE DEF h, sum
<1>8. Total(sum) = Total(f) + Total(g)
    BY <1>1, <1>2
<1> QED BY <1>3, <1>4, <1>5, <1>7, <1>8

LEMMA TransformedIsValid ==
    ASSUME NEW c, ValidCube(c), NEW t, ValidCube(t)
    PROVE  ValidCube(Transformed(c, t))
<1> DEFINE u == Transformed(c, t)
<1>1. c \in Cubie /\ t \in Cubie /\ u \in Cubie
    BY TransformedIs DEF ValidCube
<1>2. /\ IsPermutation(c.cp) /\ IsPermutation(c.ep) /\ Total(c.co) % 3 = 0 /\ Total(c.eo) % 2 = 0
      /\ Parity(c.cp) = Parity(c.ep)
    BY ValidMeans DEF ValidCube
<1>3. /\ IsPermutation(t.cp) /\ IsPermutation(t.ep) /\ Total(t.co) % 3 = 0 /\ Total(t.eo) % 2 = 0
      /\ Parity(t.cp) = Parity(t.ep)
    BY ValidMeans DEF ValidCube
<1>4. /\ c.cp \in [Corner -> Corner] /\ c.co \in [Corner -> Nat]
      /\ c.ep \in [Edge -> Edge] /\ c.eo \in [Edge -> Nat]
    BY <1>1, CubieHas
<1>5. /\ t.cp \in [Corner -> Corner] /\ t.co \in [Corner -> Nat]
      /\ t.ep \in [Edge -> Edge] /\ t.eo \in [Edge -> Nat]
    BY <1>1, CubieHas
<1>6. /\ u.cp \in [Corner -> Corner] /\ u.co \in [Corner -> Nat]
      /\ u.ep \in [Edge -> Edge] /\ u.eo \in [Edge -> Nat]
    <2> HIDE DEF u
    <2> QED BY <1>1, CubieHas
<1>7. IsFiniteSet(Corner) /\ IsFiniteSet(Edge) /\ Corner \subseteq Nat /\ Edge \subseteq Nat
    <2>1. Corner \subseteq Nat /\ Edge \subseteq Nat
        BY DEF Corner, Edge
    <2> QED BY <2>1, PlaceSets
<1>8. /\ \A p \in Corner : u.cp[p] = c.cp[t.cp[p]] /\ u.co[p] = (c.co[t.cp[p]] + t.co[p]) % 3
      /\ \A p \in Edge : u.ep[p] = c.ep[t.ep[p]] /\ u.eo[p] = (c.eo[t.ep[p]] + t.eo[p]) % 2
    BY <1>1, TransformedIs
<1> HIDE DEF u
<1>9. IsPermutation(u.cp) /\ IsPermutation(u.ep)
    <2>1. \A p, q \in Corner : p # q => u.cp[p] # u.cp[q]
        BY <1>2, <1>3, <1>4, <1>5, <1>8 DEF IsPermutation
    <2>2. \A p, q \in Edge : p # q => u.ep[p] # u.ep[q]
        BY <1>2, <1>3, <1>4, <1>5, <1>8 DEF IsPermutation
    <2> QED BY <1>6, <2>1, <2>2 DEF IsPermutation
<1>10. Total(u.co) % 3 = 0
    <2> DEFINE f == c.co
               g == t.co
               h == u.co
               r == t.cp
    <2>1. /\ f \in [Corner -> Nat] /\ g \in [Corner -> Nat] /\ h \in [Corner -> Nat] /\ r \in [Corner -> Corner]
          /\ IsFiniteSet(Corner) /\ IsPermutation(r) /\ Total(f) % 3 = 0 /\ Total(g) % 3 = 0
          /\ \A p \in Corner : h[p] = (f[r[p]] + g[p]) % 3
        BY <1>2, <1>3, <1>4, <1>5, <1>6, <1>7, <1>8
    <2>2. 3 \in {2, 3}
        OBVIOUS
    <2> HIDE DEF f, g, h, r
    <2>3. Total(h) % 3 = 0
        BY <2>1, <2>2, TurnsBalance, SMTT(30)
    <2> QED BY <2>3 DEF h
<1>11. Total(u.eo) % 2 = 0
    <2> DEFINE f == c.eo
               g == t.eo
               h == u.eo
               r == t.ep
    <2>1. /\ f \in [Edge -> Nat] /\ g \in [Edge -> Nat] /\ h \in [Edge -> Nat] /\ r \in [Edge -> Edge]
          /\ IsFiniteSet(Edge) /\ IsPermutation(r) /\ Total(f) % 2 = 0 /\ Total(g) % 2 = 0
          /\ \A p \in Edge : h[p] = (f[r[p]] + g[p]) % 2
        BY <1>2, <1>3, <1>4, <1>5, <1>6, <1>7, <1>8
    <2>2. 2 \in {2, 3}
        OBVIOUS
    <2> HIDE DEF f, g, h, r
    <2>3. Total(h) % 2 = 0
        BY <2>1, <2>2, TurnsBalance, SMTT(30)
    <2> QED BY <2>3 DEF h
<1>12. Parity(u.cp) = Parity(u.ep)
    <2>1. u.cp = [p \in Corner |-> c.cp[t.cp[p]]]
        BY <1>6, <1>8
    <2>2. u.ep = [p \in Edge |-> c.ep[t.ep[p]]]
        BY <1>6, <1>8
    <2>3. Parity([p \in Corner |-> c.cp[t.cp[p]]]) = (Parity(c.cp) + Parity(t.cp)) % 2
        BY <1>2, <1>3, <1>4, <1>5, <1>7, ParityAdds
    <2>4. Parity([p \in Edge |-> c.ep[t.ep[p]]]) = (Parity(c.ep) + Parity(t.ep)) % 2
        BY <1>2, <1>3, <1>4, <1>5, <1>7, ParityAdds
    <2>5. (Parity(c.cp) + Parity(t.cp)) % 2 = (Parity(c.ep) + Parity(t.ep)) % 2
        BY <1>2, <1>3
    <2> QED BY <2>1, <2>2, <2>3, <2>4, <2>5
<1> QED BY <1>1, <1>9, <1>10, <1>11, <1>12, ValidMeans DEF ValidCube, u

LEMMA TransformedTwice ==
    ASSUME NEW c \in Cubie, NEW t \in Cubie, NEW u \in Cubie
    PROVE  Transformed(Transformed(c, t), u) = Transformed(c, Transformed(t, u))
<1> DEFINE ct == Transformed(c, t)
           tu == Transformed(t, u)
           left == Transformed(ct, u)
           right == Transformed(c, tu)
<1>1. ct \in Cubie /\ tu \in Cubie
    BY TransformedIs
<1>2. /\ \A p \in Corner : ct.cp[p] = c.cp[t.cp[p]] /\ ct.co[p] = (c.co[t.cp[p]] + t.co[p]) % 3
      /\ \A p \in Edge : ct.ep[p] = c.ep[t.ep[p]] /\ ct.eo[p] = (c.eo[t.ep[p]] + t.eo[p]) % 2
    BY TransformedIs
<1>3. /\ \A p \in Corner : tu.cp[p] = t.cp[u.cp[p]] /\ tu.co[p] = (t.co[u.cp[p]] + u.co[p]) % 3
      /\ \A p \in Edge : tu.ep[p] = t.ep[u.ep[p]] /\ tu.eo[p] = (t.eo[u.ep[p]] + u.eo[p]) % 2
    BY TransformedIs
<1> HIDE DEF ct, tu
<1>4. /\ left \in Cubie
      /\ \A p \in Corner : left.cp[p] = ct.cp[u.cp[p]] /\ left.co[p] = (ct.co[u.cp[p]] + u.co[p]) % 3
      /\ \A p \in Edge : left.ep[p] = ct.ep[u.ep[p]] /\ left.eo[p] = (ct.eo[u.ep[p]] + u.eo[p]) % 2
    BY <1>1, TransformedIs
<1>5. /\ right \in Cubie
      /\ \A p \in Corner : right.cp[p] = c.cp[tu.cp[p]] /\ right.co[p] = (c.co[tu.cp[p]] + tu.co[p]) % 3
      /\ \A p \in Edge : right.ep[p] = c.ep[tu.ep[p]] /\ right.eo[p] = (c.eo[tu.ep[p]] + tu.eo[p]) % 2
    BY <1>1, TransformedIs
<1> HIDE DEF left, right
<1>6. \A x, y, z \in Nat : /\ (((x + y) % 3) + z) % 3 = (x + ((y + z) % 3)) % 3
                           /\ (((x + y) % 2) + z) % 2 = (x + ((y + z) % 2)) % 2
    OBVIOUS
<1>7. ASSUME NEW p \in Corner PROVE left.cp[p] = right.cp[p] /\ left.co[p] = right.co[p]
    <2>1. u.cp[p] \in Corner /\ t.cp[u.cp[p]] \in Corner
        BY CubieAt
    <2>2. c.co[t.cp[u.cp[p]]] \in Nat /\ t.co[u.cp[p]] \in Nat /\ u.co[p] \in Nat
        BY <2>1, CubieAt
    <2>3. left.co[p] = (((c.co[t.cp[u.cp[p]]] + t.co[u.cp[p]]) % 3) + u.co[p]) % 3
        BY <1>2, <1>4, <2>1, <2>2
    <2>4. right.co[p] = (c.co[t.cp[u.cp[p]]] + ((t.co[u.cp[p]] + u.co[p]) % 3)) % 3
        BY <1>3, <1>5, <2>1, <2>2
    <2>5. left.co[p] = right.co[p]
        BY <1>6, <2>2, <2>3, <2>4
    <2>6. left.cp[p] = right.cp[p]
        BY <1>2, <1>3, <1>4, <1>5, <2>1
    <2> QED BY <2>5, <2>6
<1>8. ASSUME NEW p \in Edge PROVE left.ep[p] = right.ep[p] /\ left.eo[p] = right.eo[p]
    <2>1. u.ep[p] \in Edge /\ t.ep[u.ep[p]] \in Edge
        BY CubieAt
    <2>2. c.eo[t.ep[u.ep[p]]] \in Nat /\ t.eo[u.ep[p]] \in Nat /\ u.eo[p] \in Nat
        BY <2>1, CubieAt
    <2>3. left.eo[p] = (((c.eo[t.ep[u.ep[p]]] + t.eo[u.ep[p]]) % 2) + u.eo[p]) % 2
        BY <1>2, <1>4, <2>1, <2>2
    <2>4. right.eo[p] = (c.eo[t.ep[u.ep[p]]] + ((t.eo[u.ep[p]] + u.eo[p]) % 2)) % 2
        BY <1>3, <1>5, <2>1, <2>2
    <2>5. left.eo[p] = right.eo[p]
        BY <1>6, <2>2, <2>3, <2>4
    <2>6. left.ep[p] = right.ep[p]
        BY <1>2, <1>3, <1>4, <1>5, <2>1
    <2> QED BY <2>5, <2>6
<1>9. left = right
    BY <1>4, <1>5, <1>7, <1>8, SameCubie
<1> QED BY <1>9 DEF left, right, ct, tu

LEMMA SolvedCubieIs ==
    /\ SolvedCubie \in Cubie
    /\ \A p \in Corner : SolvedCubie.cp[p] = p /\ SolvedCubie.co[p] = 0
    /\ \A p \in Edge : SolvedCubie.ep[p] = p /\ SolvedCubie.eo[p] = 0
<1>1. SolvedCubie = [cp |-> [p \in Corner |-> p], co |-> [p \in Corner |-> 0],
                     ep |-> [p \in Edge |-> p], eo |-> [p \in Edge |-> 0]]
    BY CubieOfIs DEF SolvedCubie
<1>2. 0 \in 0..2 /\ 0 \in 0..1
    OBVIOUS
<1>3. SolvedCubie \in Cubie
    BY <1>1, <1>2 DEF Cubie
<1> QED BY <1>1, <1>3

LEMMA TransformedBySolved == ASSUME NEW c \in Cubie PROVE Transformed(c, SolvedCubie) = c
<1> DEFINE t == SolvedCubie
           u == Transformed(c, t)
<1>1. /\ t \in Cubie
      /\ \A p \in Corner : t.cp[p] = p /\ t.co[p] = 0
      /\ \A p \in Edge : t.ep[p] = p /\ t.eo[p] = 0
    BY SolvedCubieIs
<1> HIDE DEF t
<1>2. /\ u \in Cubie
      /\ \A p \in Corner : u.cp[p] = c.cp[t.cp[p]] /\ u.co[p] = (c.co[t.cp[p]] + t.co[p]) % 3
      /\ \A p \in Edge : u.ep[p] = c.ep[t.ep[p]] /\ u.eo[p] = (c.eo[t.ep[p]] + t.eo[p]) % 2
    BY <1>1, TransformedIs
<1> HIDE DEF u
<1>3. /\ \A x \in 0..2 : (x + 0) % 3 = x
      /\ \A x \in 0..1 : (x + 0) % 2 = x
    OBVIOUS
<1>4. ASSUME NEW p \in Corner PROVE u.cp[p] = c.cp[p] /\ u.co[p] = c.co[p]
    <2>1. c.co[p] \in 0..2
        BY CubieAt
    <2> QED BY <1>1, <1>2, <1>3, <2>1
<1>5. ASSUME NEW p \in Edge PROVE u.ep[p] = c.ep[p] /\ u.eo[p] = c.eo[p]
    <2>1. c.eo[p] \in 0..1
        BY CubieAt
    <2> QED BY <1>1, <1>2, <1>3, <2>1
<1>6. u = c
    BY <1>2, <1>4, <1>5, SameCubie
<1> QED BY <1>6 DEF u, t

LEMMA MoveIsValid == ASSUME NEW move \in Move PROVE ValidCube(MoveTransform[move])
BY MovesOfTheCube DEF ValidCube

LEMMA SolvedIsValid == ValidCube(SolvedCubie)
<1>1. 0 \in Move
    BY DEF Move
<1>2. /\ ValidCube(MoveTransform[0]) /\ ValidCube(MoveTransform[Inverted(0)])
      /\ Transformed(MoveTransform[0], MoveTransform[Inverted(0)]) = SolvedCubie
    BY <1>1, MoveIsValid, MovesOfTheCube
<1> QED BY <1>2, TransformedIsValid

LEMMA TurnedIsValid ==
    ASSUME NEW c, ValidCube(c), NEW move \in Move
    PROVE  ValidCube(CubieTurned(c, move))
BY MoveIsValid, TransformedIsValid DEF CubieTurned

\* A turn is undone by its inverse.
LEMMA TurnedBack ==
    ASSUME NEW c \in Cubie, NEW move \in Move
    PROVE  CubieTurned(CubieTurned(c, move), Inverted(move)) = c
<1>1. /\ Inverted(move) \in Move
      /\ Transformed(MoveTransform[move], MoveTransform[Inverted(move)]) = SolvedCubie
    BY MovesOfTheCube
<1>2. MoveTransform[move] \in Cubie /\ MoveTransform[Inverted(move)] \in Cubie
    BY <1>1, MoveIsValid DEF ValidCube
<1>3. CubieTurned(CubieTurned(c, move), Inverted(move)) = Transformed(c, SolvedCubie)
    BY <1>1, <1>2, TransformedTwice DEF CubieTurned
<1> QED BY <1>3, TransformedBySolved

-----------------------------------------------------------------------------
(* Reading a cube off its stickers (CubieCube::fromStickers). *)

\* At every place s shows the cubie that c has there, turned as c has it.
Reads(s, c) ==
    /\ c \in Cubie
    /\ \A p \in Corner : CornerRead(s, p) = [error |-> "None", cubie |-> c.cp[p], turn |-> c.co[p]]
    /\ \A p \in Edge : EdgeRead(s, p) = [error |-> "None", cubie |-> c.ep[p], turn |-> c.eo[p]]

LEMMA FirstOfIs ==
    ASSUME NEW S \in SUBSET Nat, S # {}
    PROVE  FirstOf(S) \in S /\ \A y \in S : FirstOf(S) <= y
<1>1. \E x \in S : \A y \in S : x <= y
    BY LeastNatural
<1> QED BY <1>1 DEF FirstOf

LEMMA JudgedIs ==
    /\ \A cube : Judged("None", cube) = [error |-> "None", cube |-> cube]
    /\ \A error, cube : Judged(error, cube).error = error
BY DEF Judged

LEMMA ReadIsParsed ==
    ASSUME NEW s, NEW c, Reads(s, c), ValidCube(c)
    PROVE  FromStickers(s) = [error |-> "None", cube |-> c]
<1> DEFINE corners == [p \in Corner |-> CornerRead(s, p)]
           edges == [p \in Edge |-> EdgeRead(s, p)]
<1>1. FromStickers(s) = Assembled(corners, edges)
    BY TabulatedIs DEF FromStickers
<1>2. DOMAIN corners = Corner /\ DOMAIN edges = Edge
    OBVIOUS
<1>3. /\ \A p \in Corner : corners[p].error = "None" /\ corners[p].cubie = c.cp[p] /\ corners[p].turn = c.co[p]
      /\ \A p \in Edge : edges[p].error = "None" /\ edges[p].cubie = c.ep[p] /\ edges[p].turn = c.eo[p]
    BY DEF Reads
<1> HIDE DEF corners, edges
<1> DEFINE cp == [p \in Corner |-> corners[p].cubie]
           co == [p \in Corner |-> corners[p].turn]
           ep == [p \in Edge |-> edges[p].cubie]
           eo == [p \in Edge |-> edges[p].turn]
<1>4. c \in Cubie
    BY DEF Reads
<1>5. cp = c.cp /\ co = c.co
    BY <1>3, <1>4, CubieHas
<1>6. ep = c.ep /\ eo = c.eo
    BY <1>3, <1>4, CubieHas
<1>7. {p \in DOMAIN corners : corners[p].error # "None"} = {} /\ {p \in DOMAIN edges : edges[p].error # "None"} = {}
    BY <1>2, <1>3
<1>8. Assembled(corners, edges) = Checked(CubieOf(cp, co, ep, eo))
    BY <1>7 DEF Assembled
<1> HIDE DEF cp, co, ep, eo
<1>9. CubieOf(cp, co, ep, eo) = c
    BY <1>4, <1>5, <1>6, CubieHas, CubieOfIs
<1>10. Checked(c) = [error |-> "None", cube |-> c]
    BY JudgedIs DEF Checked, ValidCube
<1> QED BY <1>1, <1>8, <1>9, <1>10

LEMMA ColorsAtPlaces ==
    ASSUME NEW s
    PROVE  /\ \A p \in Corner : /\ ColorsAt(s, CornerFacelets[p]) = [i \in 1..3 |-> s[CornerFacelets[p][i]]]
                                /\ s \in [Facelet -> Face] => ColorsAt(s, CornerFacelets[p]) \in [1..3 -> Face]
           /\ \A p \in Edge : /\ ColorsAt(s, EdgeFacelets[p]) = [i \in 1..2 |-> s[EdgeFacelets[p][i]]]
                              /\ s \in [Facelet -> Face] => ColorsAt(s, EdgeFacelets[p]) \in [1..2 -> Face]
<1>1. ASSUME NEW p \in Corner
      PROVE  /\ ColorsAt(s, CornerFacelets[p]) = [i \in 1..3 |-> s[CornerFacelets[p][i]]]
             /\ s \in [Facelet -> Face] => ColorsAt(s, CornerFacelets[p]) \in [1..3 -> Face]
    <2>1. CornerFacelets[p] \in [1..3 -> Facelet]
        BY FaceletsOfThePlaces
    <2> QED BY <2>1 DEF ColorsAt
<1>2. ASSUME NEW p \in Edge
      PROVE  /\ ColorsAt(s, EdgeFacelets[p]) = [i \in 1..2 |-> s[EdgeFacelets[p][i]]]
             /\ s \in [Facelet -> Face] => ColorsAt(s, EdgeFacelets[p]) \in [1..2 -> Face]
    <2>1. EdgeFacelets[p] \in [1..2 -> Facelet]
        BY FaceletsOfThePlaces
    <2> QED BY <2>1 DEF ColorsAt
<1> QED BY <1>1, <1>2

LEMMA ParsedIsRead ==
    ASSUME NEW s \in [Facelet -> Face], FromStickers(s).error = "None"
    PROVE  /\ Reads(s, FromStickers(s).cube)
           /\ ValidCube(FromStickers(s).cube)
           /\ FromStickers(s) = [error |-> "None", cube |-> FromStickers(s).cube]
<1> DEFINE corners == [p \in Corner |-> CornerRead(s, p)]
           edges == [p \in Edge |-> EdgeRead(s, p)]
           badCorners == {p \in DOMAIN corners : corners[p].error # "None"}
           badEdges == {p \in DOMAIN edges : edges[p].error # "None"}
           cp == [p \in Corner |-> corners[p].cubie]
           co == [p \in Corner |-> corners[p].turn]
           ep == [p \in Edge |-> edges[p].cubie]
           eo == [p \in Edge |-> edges[p].turn]
           cube == CubieOf(cp, co, ep, eo)
<1>1. FromStickers(s) = Assembled(corners, edges)
    BY TabulatedIs DEF FromStickers
<1>2. DOMAIN corners = Corner /\ DOMAIN edges = Edge
    OBVIOUS
<1>3. /\ \A p \in Corner : corners[p] = CornerRead(s, p)
      /\ \A p \in Edge : edges[p] = EdgeRead(s, p)
    OBVIOUS
<1> HIDE DEF corners, edges
<1>4. badCorners \in SUBSET Nat /\ badEdges \in SUBSET Nat
    BY <1>2 DEF Corner, Edge
<1>5. badCorners # {} => Assembled(corners, edges).error = corners[FirstOf(badCorners)].error
    BY JudgedIs DEF Assembled
<1>6. badCorners = {} /\ badEdges # {} => Assembled(corners, edges).error = edges[FirstOf(badEdges)].error
    BY JudgedIs DEF Assembled
<1>7. badCorners = {} /\ badEdges = {} => Assembled(corners, edges) = Checked(cube)
    BY DEF Assembled
<1>8. badCorners = {}
    <2>1. SUFFICES ASSUME badCorners # {} PROVE FALSE
        OBVIOUS
    <2>2. FirstOf(badCorners) \in badCorners
        BY <1>4, <2>1, FirstOfIs
    <2> QED BY <1>1, <1>5, <2>1, <2>2
<1>9. badEdges = {}
    <2>1. SUFFICES ASSUME badEdges # {} PROVE FALSE
        OBVIOUS
    <2>2. FirstOf(badEdges) \in badEdges
        BY <1>4, <2>1, FirstOfIs
    <2> QED BY <1>1, <1>6, <1>8, <2>1, <2>2
<1>10. ASSUME NEW p \in Corner
       PROVE  /\ corners[p] = [error |-> "None", cubie |-> corners[p].cubie, turn |-> corners[p].turn]
              /\ corners[p].cubie \in Corner /\ corners[p].turn \in 0..2
    <2>1. ColorsAt(s, CornerFacelets[p]) \in [1..3 -> Face]
        BY ColorsAtPlaces
    <2>2. corners[p] = CornerOf(ColorsAt(s, CornerFacelets[p])) /\ corners[p].error = "None"
        BY <1>2, <1>3, <1>8 DEF CornerRead
    <2> QED BY <2>1, <2>2, CornersAreRead
<1>11. ASSUME NEW p \in Edge
       PROVE  /\ edges[p] = [error |-> "None", cubie |-> edges[p].cubie, turn |-> edges[p].turn]
              /\ edges[p].cubie \in Edge /\ edges[p].turn \in 0..1
    <2>1. ColorsAt(s, EdgeFacelets[p]) \in [1..2 -> Face]
        BY ColorsAtPlaces
    <2>2. edges[p] = EdgeOf(ColorsAt(s, EdgeFacelets[p])) /\ edges[p].error = "None"
        BY <1>2, <1>3, <1>9 DEF EdgeRead
    <2> QED BY <2>1, <2>2, EdgesAreRead
<1>12. FromStickers(s) = Checked(cube)
    BY <1>1, <1>7, <1>8, <1>9
<1>13. cube = [cp |-> cp, co |-> co, ep |-> ep, eo |-> eo]
    BY CubieOfIs
<1>14. /\ cp \in [Corner -> Corner] /\ co \in [Corner -> 0..2]
       /\ ep \in [Edge -> Edge] /\ eo \in [Edge -> 0..1]
    BY <1>10, <1>11
<1>15. /\ \A p \in Corner : cp[p] = corners[p].cubie /\ co[p] = corners[p].turn
       /\ \A p \in Edge : ep[p] = edges[p].cubie /\ eo[p] = edges[p].turn
    OBVIOUS
<1> HIDE DEF cp, co, ep, eo, cube
<1>16. cube \in Cubie
    BY <1>13, <1>14 DEF Cubie
<1>17. CubieError(cube) = "None" /\ FromStickers(s) = [error |-> "None", cube |-> cube]
    BY <1>12, JudgedIs DEF Checked
<1>18. Reads(s, cube)
    BY <1>3, <1>10, <1>11, <1>13, <1>15, <1>16 DEF Reads
<1> QED BY <1>16, <1>17, <1>18 DEF ValidCube

\* Every corner place shows just one sticker of U or D.
UpDownCorners(s) == \A p \in Corner : OneUpDown(ColorsAt(s, CornerFacelets[p]))

LEMMA ShownAt ==
    /\ \A i \in 1..3, turn \in 0..2 : Shown(i, turn, 3) \in 1..3
    /\ \A k \in 1..3, turn \in 0..2 : \E i \in 1..3 : Shown(i, turn, 3) = k
    /\ \A i, k \in 1..3, turn \in 0..2 : Shown(i, turn, 3) = Shown(k, turn, 3) => i = k
    /\ \A i \in 1..2, turn \in 0..1 : Shown(i, turn, 2) \in 1..2
<1>1. \A i \in 1..3, turn \in 0..2 : Shown(i, turn, 3) \in 1..3
    BY DEF Shown
<1>2. \A i, k \in 1..3, turn \in 0..2 : Shown(i, turn, 3) = Shown(k, turn, 3) => i = k
    BY DEF Shown
<1>3. ASSUME NEW k \in 1..3, NEW turn \in 0..2 PROVE \E i \in 1..3 : Shown(i, turn, 3) = k
    <2>1. \E i \in 1..3 : i = k + turn \/ i = k + turn - 3
        OBVIOUS
    <2> QED BY <2>1 DEF Shown
<1>4. \A i \in 1..2, turn \in 0..1 : Shown(i, turn, 2) \in 1..2
    BY DEF Shown
<1> QED BY <1>1, <1>2, <1>3, <1>4

LEMMA TurnedStickers ==
    ASSUME NEW s \in [Facelet -> Face], NEW move \in Move
    PROVE  /\ Turned(s, move) \in [Facelet -> Face]
           /\ \A i \in Facelet : Turned(s, move)[i] = s[MoveSources[move][i]] /\ MoveSources[move][i] \in Facelet
<1>1. Turned(s, move) = [i \in Facelet |-> s[MoveSources[move][i]]]
    BY TabulatedIs DEF Turned
<1>2. \A i \in Facelet : MoveSources[move][i] \in Facelet
    BY MovesOfTheCube
<1> QED BY <1>1, <1>2

LEMMA CornerReadTurned ==
    ASSUME NEW colors \in [1..3 -> Face], CornerOf(colors).error = "None", OneUpDown(colors),
           NEW turn \in 0..2, NEW shown, shown = [i \in 1..3 |-> colors[Shown(i, turn, 3)]]
    PROVE  CornerOf(shown) = [error |-> "None", cubie |-> CornerOf(colors).cubie, turn |-> (CornerOf(colors).turn + turn) % 3]
BY CornersAreRead

LEMMA EdgeReadTurned ==
    ASSUME NEW colors \in [1..2 -> Face], EdgeOf(colors).error = "None",
           NEW turn \in 0..1, NEW shown, shown = [i \in 1..2 |-> colors[Shown(i, turn, 2)]]
    PROVE  EdgeOf(shown) = [error |-> "None", cubie |-> EdgeOf(colors).cubie, turn |-> (EdgeOf(colors).turn + turn) % 2]
BY EdgesAreRead

\* Turning the stickers and turning the cubies come to the same (Cube::apply, CubieCube::apply).
LEMMA TurnedReads ==
    ASSUME NEW s \in [Facelet -> Face], NEW c, Reads(s, c), UpDownCorners(s), NEW move \in Move
    PROVE  Reads(Turned(s, move), CubieTurned(c, move)) /\ UpDownCorners(Turned(s, move))
<1> DEFINE t == MoveTransform[move]
           turned == Turned(s, move)
           u == CubieTurned(c, move)
<1>1. c \in Cubie /\ t \in Cubie
    BY MoveIsValid DEF Reads, ValidCube
<1>2. /\ u \in Cubie
      /\ \A p \in Corner : u.cp[p] = c.cp[t.cp[p]] /\ u.co[p] = (c.co[t.cp[p]] + t.co[p]) % 3
      /\ \A p \in Edge : u.ep[p] = c.ep[t.ep[p]] /\ u.eo[p] = (c.eo[t.ep[p]] + t.eo[p]) % 2
    BY <1>1, TransformedIs DEF CubieTurned
<1>3. \A i \in Facelet : turned[i] = s[MoveSources[move][i]]
    BY TurnedStickers
<1>4. /\ \A p \in Corner, i \in 1..3 :
              MoveSources[move][CornerFacelets[p][i]] = CornerFacelets[t.cp[p]][Shown(i, t.co[p], 3)]
      /\ \A p \in Edge, i \in 1..2 :
              MoveSources[move][EdgeFacelets[p][i]] = EdgeFacelets[t.ep[p]][Shown(i, t.eo[p], 2)]
    BY MovesOfTheCube
<1>5. /\ \A p \in Corner : t.cp[p] \in Corner /\ t.co[p] \in 0..2
      /\ \A p \in Edge : t.ep[p] \in Edge /\ t.eo[p] \in 0..1
    BY <1>1, CubieAt
<1> HIDE DEF t, turned, u
<1>6. ASSUME NEW p \in Corner
      PROVE  /\ CornerRead(turned, p) = [error |-> "None", cubie |-> u.cp[p], turn |-> u.co[p]]
             /\ OneUpDown(ColorsAt(turned, CornerFacelets[p]))
    <2> DEFINE from == t.cp[p]
               turn == t.co[p]
               colors == ColorsAt(s, CornerFacelets[from])
               shown == [i \in 1..3 |-> colors[Shown(i, turn, 3)]]
    <2>1. from \in Corner /\ turn \in 0..2
        BY <1>5
    <2>2. colors \in [1..3 -> Face] /\ \A i \in 1..3 : colors[i] = s[CornerFacelets[from][i]]
        <3>1. colors = [i \in 1..3 |-> s[CornerFacelets[from][i]]]
            BY <2>1, ColorsAtPlaces
        <3>2. colors \in [1..3 -> Face]
            BY <2>1, ColorsAtPlaces
        <3> QED BY <3>1, <3>2
    <2>3. \A i \in 1..3 : CornerFacelets[p][i] \in Facelet /\ Shown(i, turn, 3) \in 1..3
        BY <2>1, FaceletsOfThePlaces, ShownAt
    <2>4. ColorsAt(turned, CornerFacelets[p]) = [i \in 1..3 |-> turned[CornerFacelets[p][i]]]
        BY ColorsAtPlaces
    <2>5. \A i \in 1..3 : turned[CornerFacelets[p][i]] = colors[Shown(i, turn, 3)]
        BY <1>3, <1>4, <2>2, <2>3
    <2>6. ColorsAt(turned, CornerFacelets[p]) = shown
        BY <2>4, <2>5
    <2>7. CornerOf(colors) = [error |-> "None", cubie |-> c.cp[from], turn |-> c.co[from]]
        BY <2>1 DEF Reads, CornerRead
    <2>8. OneUpDown(colors)
        BY <2>1 DEF UpDownCorners
    <2> HIDE DEF colors, from, turn
    <2>9. CornerOf(shown) = [error |-> "None", cubie |-> c.cp[from], turn |-> (c.co[from] + turn) % 3]
        <3>1. shown = [i \in 1..3 |-> colors[Shown(i, turn, 3)]]
            OBVIOUS
        <3>2. CornerOf(colors).error = "None" /\ CornerOf(colors).cubie = c.cp[from] /\ CornerOf(colors).turn = c.co[from]
            BY <2>7
        <3> HIDE DEF shown
        <3>3. CornerOf(shown) = [error |-> "None", cubie |-> CornerOf(colors).cubie, turn |-> (CornerOf(colors).turn + turn) % 3]
            BY <2>1, <2>2, <2>8, <3>1, <3>2, CornerReadTurned
        <3> QED BY <3>2, <3>3
    <2>10. OneUpDown(shown)
        <3>1. PICK k \in 1..3 : UpOrDown(colors[k]) /\ \A j \in 1..3 : UpOrDown(colors[j]) => j = k
            BY <2>8 DEF OneUpDown
        <3>2. PICK i \in 1..3 : Shown(i, turn, 3) = k
            BY <2>1, ShownAt
        <3>3. \A j \in 1..3 : UpOrDown(shown[j]) => j = i
            BY <2>1, <2>3, <3>1, <3>2, ShownAt
        <3> QED BY <3>1, <3>2, <3>3 DEF OneUpDown
    <2> QED BY <1>2, <2>6, <2>9, <2>10 DEF CornerRead, from, turn
<1>7. ASSUME NEW p \in Edge
      PROVE  EdgeRead(turned, p) = [error |-> "None", cubie |-> u.ep[p], turn |-> u.eo[p]]
    <2> DEFINE from == t.ep[p]
               turn == t.eo[p]
               colors == ColorsAt(s, EdgeFacelets[from])
               shown == [i \in 1..2 |-> colors[Shown(i, turn, 2)]]
    <2>1. from \in Edge /\ turn \in 0..1
        BY <1>5
    <2>2. colors \in [1..2 -> Face] /\ \A i \in 1..2 : colors[i] = s[EdgeFacelets[from][i]]
        <3>1. colors = [i \in 1..2 |-> s[EdgeFacelets[from][i]]]
            BY <2>1, ColorsAtPlaces
        <3>2. colors \in [1..2 -> Face]
            BY <2>1, ColorsAtPlaces
        <3> QED BY <3>1, <3>2
    <2>3. \A i \in 1..2 : EdgeFacelets[p][i] \in Facelet /\ Shown(i, turn, 2) \in 1..2
        BY <2>1, FaceletsOfThePlaces, ShownAt
    <2>4. ColorsAt(turned, EdgeFacelets[p]) = [i \in 1..2 |-> turned[EdgeFacelets[p][i]]]
        BY ColorsAtPlaces
    <2>5. \A i \in 1..2 : turned[EdgeFacelets[p][i]] = colors[Shown(i, turn, 2)]
        BY <1>3, <1>4, <2>2, <2>3
    <2>6. ColorsAt(turned, EdgeFacelets[p]) = shown
        BY <2>4, <2>5
    <2>7. EdgeOf(colors) = [error |-> "None", cubie |-> c.ep[from], turn |-> c.eo[from]]
        BY <2>1 DEF Reads, EdgeRead
    <2> HIDE DEF colors, from, turn
    <2>8. EdgeOf(shown) = [error |-> "None", cubie |-> c.ep[from], turn |-> (c.eo[from] + turn) % 2]
        <3>1. shown = [i \in 1..2 |-> colors[Shown(i, turn, 2)]]
            OBVIOUS
        <3>2. EdgeOf(colors).error = "None" /\ EdgeOf(colors).cubie = c.ep[from] /\ EdgeOf(colors).turn = c.eo[from]
            BY <2>7
        <3> HIDE DEF shown
        <3>3. EdgeOf(shown) = [error |-> "None", cubie |-> EdgeOf(colors).cubie, turn |-> (EdgeOf(colors).turn + turn) % 2]
            BY <2>1, <2>2, <3>1, <3>2, EdgeReadTurned
        <3> QED BY <3>2, <3>3
    <2> QED BY <1>2, <2>6, <2>8 DEF EdgeRead, from, turn
<1>8. Reads(turned, u)
    BY <1>2, <1>6, <1>7 DEF Reads
<1>9. UpDownCorners(turned)
    BY <1>6 DEF UpDownCorners
<1> QED BY <1>8, <1>9 DEF turned, u

-----------------------------------------------------------------------------
(* A corner accepted by validateStickers shows one sticker of U or D: the colours are counted. *)

LEMMA DisjointUnion ==
    ASSUME NEW S, NEW T, IsFiniteSet(S), IsFiniteSet(T), S \cap T = {}
    PROVE  IsFiniteSet(S \cup T) /\ Cardinality(S \cup T) = Cardinality(S) + Cardinality(T)
<1>1. Cardinality(S \cap T) = 0
    BY FS_EmptySet
<1>2. Cardinality(S \cup T) = Cardinality(S) + Cardinality(T) - Cardinality(S \cap T) /\ IsFiniteSet(S \cup T)
    BY FS_Union
<1>3. Cardinality(S) \in Nat /\ Cardinality(T) \in Nat
    BY FS_CardinalityType
<1> QED BY <1>1, <1>2, <1>3

LEMMA SameSize ==
    ASSUME NEW S, NEW T, IsFiniteSet(T), NEW f \in [S -> T],
           \A x, y \in S : f[x] = f[y] => x = y, \A z \in T : \E x \in S : f[x] = z
    PROVE  IsFiniteSet(S) /\ Cardinality(S) = Cardinality(T)
<1>1. f \in Injection(S, T)
    BY DEF Injection, IsInjective
<1>2. f \in Surjection(S, T)
    BY DEF Surjection
<1> QED BY <1>1, <1>2, FS_Injection

LEMMA CentresAre == ASSUME NEW face \in Face PROVE Centre(face) \in Facelet
BY DEF Face, Centre, Facelet

LEMMA PlacesOfFacelets ==
    /\ \A p \in Corner, k \in 1..3 :
          /\ CornerFacelets[p][k] \in Facelet /\ PlaceOf[CornerFacelets[p][k]].kind = "corner"
          /\ PlaceOf[CornerFacelets[p][k]].place = p /\ PlaceOf[CornerFacelets[p][k]].index = k
    /\ \A p \in Edge, k \in 1..2 :
          /\ EdgeFacelets[p][k] \in Facelet /\ PlaceOf[EdgeFacelets[p][k]].kind = "edge"
          /\ PlaceOf[EdgeFacelets[p][k]].place = p /\ PlaceOf[EdgeFacelets[p][k]].index = k
    /\ \A face \in Face : Centre(face) \in Facelet /\ PlaceOf[Centre(face)].kind = "centre"
    /\ \A i \in Facelet :
          \/ PlaceOf[i].kind = "corner" /\ \E p \in Corner, k \in 1..3 : i = CornerFacelets[p][k]
          \/ PlaceOf[i].kind = "edge" /\ \E p \in Edge, k \in 1..2 : i = EdgeFacelets[p][k]
          \/ PlaceOf[i].kind = "centre" /\ \E face \in Face : i = Centre(face)
<1>1. ASSUME NEW p \in Corner, NEW k \in 1..3
      PROVE  /\ CornerFacelets[p][k] \in Facelet /\ PlaceOf[CornerFacelets[p][k]].kind = "corner"
             /\ PlaceOf[CornerFacelets[p][k]].place = p /\ PlaceOf[CornerFacelets[p][k]].index = k
    <2>1. PlaceOf[CornerFacelets[p][k]] = [kind |-> "corner", place |-> p, index |-> k]
        BY FaceletsOfThePlaces
    <2>2. CornerFacelets[p][k] \in Facelet
        BY FaceletsOfThePlaces
    <2> QED BY <2>1, <2>2
<1>2. ASSUME NEW p \in Edge, NEW k \in 1..2
      PROVE  /\ EdgeFacelets[p][k] \in Facelet /\ PlaceOf[EdgeFacelets[p][k]].kind = "edge"
             /\ PlaceOf[EdgeFacelets[p][k]].place = p /\ PlaceOf[EdgeFacelets[p][k]].index = k
    <2>1. PlaceOf[EdgeFacelets[p][k]] = [kind |-> "edge", place |-> p, index |-> k]
        BY FaceletsOfThePlaces
    <2>2. EdgeFacelets[p][k] \in Facelet
        BY FaceletsOfThePlaces
    <2> QED BY <2>1, <2>2
<1>3. \A face \in Face : Centre(face) \in Facelet /\ PlaceOf[Centre(face)].kind = "centre"
    BY CentresAre, FaceletsOfThePlaces
<1>4. ASSUME NEW i \in Facelet
      PROVE  \/ PlaceOf[i].kind = "corner" /\ \E p \in Corner, k \in 1..3 : i = CornerFacelets[p][k]
             \/ PlaceOf[i].kind = "edge" /\ \E p \in Edge, k \in 1..2 : i = EdgeFacelets[p][k]
             \/ PlaceOf[i].kind = "centre" /\ \E face \in Face : i = Centre(face)
    <2>1. CASE \E p \in Corner, k \in 1..3 : i = CornerFacelets[p][k]
        BY <1>1, <2>1
    <2>2. CASE \E p \in Edge, k \in 1..2 : i = EdgeFacelets[p][k]
        BY <1>2, <2>2
    <2>3. CASE \E face \in Face : i = Centre(face)
        BY <1>3, <2>3
    <2>4. \/ \E p \in Corner, k \in 1..3 : i = CornerFacelets[p][k]
          \/ \E p \in Edge, k \in 1..2 : i = EdgeFacelets[p][k]
          \/ \E face \in Face : i = Centre(face)
        BY FaceletsOfThePlaces
    <2> QED BY <2>1, <2>2, <2>3, <2>4
<1> QED BY <1>1, <1>2, <1>3, <1>4

LEMMA EdgesShowTheirColors ==
    ASSUME NEW s \in [Facelet -> Face], NEW c, Reads(s, c)
    PROVE  \A p \in Edge, k \in 1..2 : s[EdgeFacelets[p][k]] = Written(EdgeColors[c.ep[p]], c.eo[p], k)
<1> SUFFICES ASSUME NEW p \in Edge, NEW k \in 1..2
             PROVE  s[EdgeFacelets[p][k]] = Written(EdgeColors[c.ep[p]], c.eo[p], k)
    OBVIOUS
<1> DEFINE colors == ColorsAt(s, EdgeFacelets[p])
<1>1. colors \in [1..2 -> Face]
    BY ColorsAtPlaces
<1>2. colors = [i \in 1..2 |-> s[EdgeFacelets[p][i]]]
    BY ColorsAtPlaces
<1>3. EdgeOf(colors).error = "None" /\ EdgeOf(colors).cubie = c.ep[p] /\ EdgeOf(colors).turn = c.eo[p]
    <2>1. EdgeRead(s, p) = [error |-> "None", cubie |-> c.ep[p], turn |-> c.eo[p]]
        BY DEF Reads
    <2>2. EdgeOf(colors) = EdgeRead(s, p)
        BY DEF EdgeRead
    <2> HIDE DEF colors
    <2> QED BY <2>1, <2>2
<1>4. colors[k] = s[EdgeFacelets[p][k]]
    BY <1>2
<1> HIDE DEF colors
<1>5. colors = EdgeWritten(c.ep[p], c.eo[p])
    BY <1>1, <1>3, EdgesAreRead
<1> QED BY <1>4, <1>5 DEF EdgeWritten

LEMMA CornersShowUpOrDown ==
    ASSUME NEW s \in [Facelet -> Face], NEW c, Reads(s, c)
    PROVE  \A p \in Corner : \E i \in 1..3 : UpOrDown(s[CornerFacelets[p][i]])
<1> SUFFICES ASSUME NEW p \in Corner PROVE \E i \in 1..3 : UpOrDown(s[CornerFacelets[p][i]])
    OBVIOUS
<1> DEFINE colors == ColorsAt(s, CornerFacelets[p])
<1>1. colors \in [1..3 -> Face]
    BY ColorsAtPlaces
<1>2. colors = [i \in 1..3 |-> s[CornerFacelets[p][i]]]
    BY ColorsAtPlaces
<1>3. CornerOf(colors).error = "None"
    <2>1. CornerRead(s, p) = [error |-> "None", cubie |-> c.cp[p], turn |-> c.co[p]]
        BY DEF Reads
    <2>2. CornerOf(colors) = CornerRead(s, p)
        BY DEF CornerRead
    <2> HIDE DEF colors
    <2> QED BY <2>1, <2>2
<1>4. \A i \in 1..3 : colors[i] = s[CornerFacelets[p][i]]
    BY <1>2
<1> HIDE DEF colors
<1> QED BY <1>1, <1>3, <1>4, CornersAreRead

\* The stickers of U and D are eighteen: two centres, one of each edge of the two layers, and at
\* least one, so just one, of each corner.
LEMMA AcceptedShowsUpDown ==
    ASSUME NEW s \in [Facelet -> Face], NEW c, Reads(s, c), ValidCube(c),
           \A color \in Face : Cardinality({i \in Facelet : s[i] = color}) = 9,
           \A face \in Face : s[Centre(face)] = face
    PROVE  UpDownCorners(s)
<1> DEFINE shows == {i \in Facelet : UpOrDown(s[i])}
           centres == {i \in shows : PlaceOf[i].kind = "centre"}
           edges == {i \in shows : PlaceOf[i].kind = "edge"}
           corners == {i \in shows : PlaceOf[i].kind = "corner"}
<1>1. IsFiniteSet(shows) /\ Cardinality(shows) = 18
    <2> DEFINE ups == {i \in Facelet : s[i] = U}
               downs == {i \in Facelet : s[i] = D}
    <2>1. IsFiniteSet(ups) /\ IsFiniteSet(downs)
        BY PlaceSets, FS_Subset
    <2>2. U \in Face /\ D \in Face /\ U # D
        BY DEF U, D, Face
    <2>3. Cardinality(ups) = 9 /\ Cardinality(downs) = 9
        BY <2>2
    <2>4. ups \cap downs = {} /\ shows = ups \cup downs
        BY <2>2 DEF UpOrDown
    <2> HIDE DEF ups, downs, shows
    <2>5. Cardinality(ups \cup downs) = Cardinality(ups) + Cardinality(downs) /\ IsFiniteSet(ups \cup downs)
        BY <2>1, <2>4, DisjointUnion
    <2> QED BY <2>3, <2>4, <2>5
<1>2. Cardinality(centres) = 2 /\ IsFiniteSet(centres)
    <2>1. ASSUME NEW i \in Facelet, PlaceOf[i].kind = "centre" PROVE \E face \in Face : i = Centre(face)
        BY <2>1, PlacesOfFacelets, "centre" # "edge", "centre" # "corner"
    <2>2. \A face \in Face : Centre(face) \in Facelet /\ PlaceOf[Centre(face)].kind = "centre" /\ s[Centre(face)] = face
        BY PlacesOfFacelets
    <2>3. U \in Face /\ D \in Face
        BY DEF U, D, Face
    <2>4. centres = {Centre(U), Centre(D)}
        BY <2>1, <2>2, <2>3 DEF UpOrDown
    <2>5. Centre(U) # Centre(D)
        BY DEF Centre, U, D
    <2>6. IsFiniteSet({Centre(U)}) /\ Cardinality({Centre(U)}) = 1
        BY FS_Singleton
    <2>7. {Centre(U), Centre(D)} = {Centre(U)} \cup {Centre(D)} /\ Centre(D) \notin {Centre(U)}
        BY <2>5
    <2>8. IsFiniteSet({Centre(U)} \cup {Centre(D)}) /\ Cardinality({Centre(U)} \cup {Centre(D)}) = 1 + 1
        BY <2>6, <2>7, FS_AddElement
    <2> HIDE DEF centres
    <2> QED BY <2>4, <2>7, <2>8
<1>3. c \in Cubie /\ IsPermutation(c.ep)
    BY ValidMeans DEF ValidCube
<1>4. Cardinality(edges) = 8 /\ IsFiniteSet(edges)
    <2> DEFINE f == [i \in edges |-> c.ep[PlaceOf[i].place]]
    <2>1. ASSUME NEW i \in Facelet, PlaceOf[i].kind = "edge"
          PROVE  \E p \in Edge, k \in 1..2 : i = EdgeFacelets[p][k] /\ PlaceOf[i].place = p
        BY <2>1, PlacesOfFacelets, "centre" # "edge", "edge" # "corner"
    <2>2. ASSUME NEW p \in Edge, NEW k \in 1..2
          PROVE  /\ EdgeFacelets[p][k] \in Facelet /\ PlaceOf[EdgeFacelets[p][k]].kind = "edge"
                 /\ PlaceOf[EdgeFacelets[p][k]].place = p
                 /\ s[EdgeFacelets[p][k]] = Written(EdgeColors[c.ep[p]], c.eo[p], k)
        BY PlacesOfFacelets, EdgesShowTheirColors
    <2>3. \A p \in Edge : c.ep[p] \in 0..7 \/ c.ep[p] \in 8..11
        <3>1. \A p \in Edge : c.ep[p] \in 0..11
            BY <1>3, CubieAt DEF Edge
        <3> QED BY <3>1
    <2>4. \A p \in Edge : c.eo[p] \in 0..1
        BY <1>3, CubieAt
    <2>5. ASSUME NEW i \in edges
          PROVE  \E p \in Edge, k \in 1..2 : /\ i = EdgeFacelets[p][k] /\ PlaceOf[i].place = p
                                             /\ UpOrDown(Written(EdgeColors[c.ep[p]], c.eo[p], k)) /\ c.ep[p] \in 0..7
        <3>1. PICK p \in Edge, k \in 1..2 : i = EdgeFacelets[p][k] /\ PlaceOf[i].place = p
            BY <2>1
        <3>2. UpOrDown(Written(EdgeColors[c.ep[p]], c.eo[p], k))
            BY <2>2, <3>1
        <3>3. c.ep[p] \notin 8..11
            BY <2>4, <3>2, UpDownOfTheEdges
        <3> QED BY <2>3, <3>1, <3>2, <3>3
    <2>6. f \in [edges -> 0..7] /\ \A i \in edges : f[i] = c.ep[PlaceOf[i].place]
        BY <2>5
    <2>7. ASSUME NEW i \in edges, NEW j \in edges, f[i] = f[j] PROVE i = j
        <3>1. PICK p \in Edge, k \in 1..2 : /\ i = EdgeFacelets[p][k] /\ PlaceOf[i].place = p
                                            /\ UpOrDown(Written(EdgeColors[c.ep[p]], c.eo[p], k)) /\ c.ep[p] \in 0..7
            BY <2>5
        <3>2. PICK q \in Edge, m \in 1..2 : /\ j = EdgeFacelets[q][m] /\ PlaceOf[j].place = q
                                            /\ UpOrDown(Written(EdgeColors[c.ep[q]], c.eo[q], m)) /\ c.ep[q] \in 0..7
            BY <2>5
        <3>3. c.ep[p] = c.ep[q]
            BY <2>6, <2>7, <3>1, <3>2
        <3>4. p = q
            <4>1. c.ep \in [Edge -> Edge]
                BY <1>3, CubieHas
            <4> QED BY <1>3, <3>3, <4>1 DEF IsPermutation
        <3>5. k = m
            BY <2>4, <3>1, <3>2, <3>4, UpDownOfTheEdges
        <3> QED BY <3>1, <3>2, <3>4, <3>5
    <2>8. ASSUME NEW e \in 0..7 PROVE \E i \in edges : f[i] = e
        <3>1. c.ep \in [Edge -> Edge] /\ e \in Edge
            BY <1>3, CubieHas DEF Edge
        <3>2. PICK p \in Edge : c.ep[p] = e
            <4> DEFINE ep == c.ep
            <4>1. ep \in [Edge -> Edge] /\ IsPermutation(ep) /\ IsFiniteSet(Edge)
                BY <1>3, <3>1, PlaceSets
            <4> HIDE DEF ep
            <4>2. \A y \in Edge : \E x \in Edge : ep[x] = y
                BY <4>1, PermutationsMeetAll
            <4> QED BY <3>1, <4>2 DEF ep
        <3>3. PICK k \in 1..2 : UpOrDown(Written(EdgeColors[e], c.eo[p], k))
            BY <2>4, UpDownOfTheEdges
        <3>4. EdgeFacelets[p][k] \in edges
            BY <2>2, <3>2, <3>3
        <3> QED BY <2>2, <2>6, <3>2, <3>4
    <2> HIDE DEF f, edges
    <2>9. IsFiniteSet(0..7) /\ Cardinality(0..7) = 8
        BY Initial, 7 \in Nat, 8 = 7 + 1
    <2> DEFINE layers == 0..7
    <2>10. /\ f \in [edges -> layers] /\ IsFiniteSet(layers) /\ Cardinality(layers) = 8
           /\ \A e \in layers : \E i \in edges : f[i] = e
           /\ \A i, j \in edges : f[i] = f[j] => i = j
        BY <2>6, <2>7, <2>8, <2>9
    <2> HIDE DEF layers
    <2> QED BY <2>10, SameSize
<1>5. IsFiniteSet(corners) /\ Cardinality(corners) = 8
    <2> DEFINE others == centres \cup edges
    <2>1. centres \cap edges = {} /\ corners \cap others = {} /\ corners \in SUBSET shows
        BY "centre" # "edge", "centre" # "corner", "edge" # "corner"
    <2>2. shows = corners \cup others
        <3>1. \A i \in Facelet : PlaceOf[i].kind \in {"centre", "edge", "corner"}
            BY PlacesOfFacelets
        <3> QED BY <3>1
    <2> HIDE DEF shows, centres, edges, corners
    <2>3. IsFiniteSet(others) /\ Cardinality(others) = Cardinality(centres) + Cardinality(edges)
        BY <1>2, <1>4, <2>1, DisjointUnion
    <2>4. IsFiniteSet(corners)
        BY <1>1, <2>1, FS_Subset
    <2> HIDE DEF others
    <2>5. Cardinality(corners \cup others) = Cardinality(corners) + Cardinality(others)
        BY <2>1, <2>3, <2>4, DisjointUnion
    <2>6. Cardinality(corners) \in Nat
        BY <2>4, FS_CardinalityType
    <2> QED BY <1>1, <1>2, <1>4, <2>2, <2>3, <2>4, <2>5, <2>6
<1> DEFINE g == [i \in corners |-> PlaceOf[i].place]
<1>6. \A p \in Corner, k \in 1..3 : /\ CornerFacelets[p][k] \in Facelet
                                    /\ PlaceOf[CornerFacelets[p][k]].kind = "corner"
                                    /\ PlaceOf[CornerFacelets[p][k]].place = p /\ PlaceOf[CornerFacelets[p][k]].index = k
    BY PlacesOfFacelets
<1>7. g \in [corners -> Corner] /\ \A i \in corners : g[i] = PlaceOf[i].place
    <2>1. \A i \in Facelet : PlaceOf[i].kind = "corner" => PlaceOf[i].place \in Corner
        BY PlacesOfFacelets, "centre" # "corner", "edge" # "corner"
    <2> QED BY <2>1
<1>8. \A p \in Corner : \E i \in corners : g[i] = p
    <2> SUFFICES ASSUME NEW p \in Corner PROVE \E i \in corners : g[i] = p
        OBVIOUS
    <2>1. PICK k \in 1..3 : UpOrDown(s[CornerFacelets[p][k]])
        BY CornersShowUpOrDown
    <2>2. CornerFacelets[p][k] \in corners /\ PlaceOf[CornerFacelets[p][k]].place = p
        BY <1>6, <2>1
    <2> QED BY <1>7, <2>2
<1>9. g \in Surjection(corners, Corner)
    <2> HIDE DEF g, corners
    <2> QED BY <1>7, <1>8 DEF Surjection
<1>10. g \in Injection(corners, Corner)
    <2> HIDE DEF g, corners
    <2> QED BY <1>5, <1>9, PlaceSets, FS_Surjection
<1>11. \A i, j \in corners : g[i] = g[j] => i = j
    <2> HIDE DEF g, corners
    <2> QED BY <1>10 DEF Injection, IsInjective
<1>12. ASSUME NEW p \in Corner PROVE OneUpDown(ColorsAt(s, CornerFacelets[p]))
    <2> DEFINE colors == ColorsAt(s, CornerFacelets[p])
    <2>1. \A i \in 1..3 : colors[i] = s[CornerFacelets[p][i]]
        <3>1. colors = [i \in 1..3 |-> s[CornerFacelets[p][i]]]
            BY ColorsAtPlaces
        <3> QED BY <3>1
    <2>2. PICK i \in 1..3 : UpOrDown(s[CornerFacelets[p][i]])
        BY CornersShowUpOrDown
    <2>3. ASSUME NEW k \in 1..3, UpOrDown(s[CornerFacelets[p][k]]) PROVE k = i
        <3>1. /\ CornerFacelets[p][i] \in corners /\ CornerFacelets[p][k] \in corners
              /\ g[CornerFacelets[p][i]] = p /\ g[CornerFacelets[p][k]] = p
            BY <1>6, <1>7, <2>2, <2>3
        <3>2. CornerFacelets[p][i] = CornerFacelets[p][k]
            <4> HIDE DEF g, corners
            <4> QED BY <1>11, <3>1
        <3> QED BY <1>6, <3>2
    <2> HIDE DEF colors
    <2> QED BY <2>1, <2>2, <2>3 DEF OneUpDown, colors
<1> QED BY <1>12 DEF UpDownCorners

LEMMA AcceptedIs ==
    ASSUME NEW s \in [Facelet -> Face], StickersError(s) = "None"
    PROVE  /\ \A color \in Face : Cardinality({i \in Facelet : s[i] = color}) = 9
           /\ \A face \in Face : s[Centre(face)] = face
           /\ Reads(s, FromStickers(s).cube) /\ ValidCube(FromStickers(s).cube)
           /\ FromStickers(s) = [error |-> "None", cube |-> FromStickers(s).cube]
           /\ UpDownCorners(s)
<1>1. /\ \A color \in Face : Cardinality({i \in Facelet : s[i] = color}) = 9
      /\ \A face \in Face : s[face * 9 + 4] = face
      /\ FromStickers(s).error = "None"
    BY DEF StickersError
<1>2. \A face \in Face : s[Centre(face)] = face
    BY <1>1 DEF Centre
<1>3. /\ Reads(s, FromStickers(s).cube) /\ ValidCube(FromStickers(s).cube)
      /\ FromStickers(s) = [error |-> "None", cube |-> FromStickers(s).cube]
    BY <1>1, ParsedIsRead
<1> QED BY <1>1, <1>2, <1>3, AcceptedShowsUpDown

-----------------------------------------------------------------------------
(* Writing the stickers of a cube (CubieCube::toCube), and turning them. *)

LEMMA ColorOfACorner ==
    ASSUME NEW c \in Corner, NEW turn \in 0..2, NEW k \in 1..3
    PROVE  /\ Written(CornerColors[c], turn, k) = CornerColors[c][Shown(k, turn, 3)]
           /\ Written(CornerColors[c], turn, k) \in Face
<1>1. Len(CornerColors[c]) = 3 /\ CornerColors[c] \in [1..3 -> Face]
    BY CornersAreRead
<1>2. Written(CornerColors[c], turn, k) = CornerColors[c][Shown(k, turn, 3)]
    BY <1>1 DEF Written, Shown
<1>3. Shown(k, turn, 3) \in 1..3
    BY ShownAt
<1> QED BY <1>1, <1>2, <1>3

LEMMA ColorOfAnEdge ==
    ASSUME NEW e \in Edge, NEW turn \in 0..1, NEW k \in 1..2
    PROVE  /\ Written(EdgeColors[e], turn, k) = EdgeColors[e][Shown(k, turn, 2)]
           /\ Written(EdgeColors[e], turn, k) \in Face
<1>1. Len(EdgeColors[e]) = 2 /\ EdgeColors[e] \in [1..2 -> Face]
    BY EdgesAreRead
<1>2. Written(EdgeColors[e], turn, k) = EdgeColors[e][Shown(k, turn, 2)]
    BY <1>1 DEF Written, Shown
<1>3. Shown(k, turn, 2) \in 1..2
    BY ShownAt
<1> QED BY <1>1, <1>2, <1>3

\* Shown so far, and then turned so far, is turned as far as both.
LEMMA ShownTwice ==
    /\ \A a, b \in 0..2, k \in 1..3 : Shown(Shown(k, b, 3), a, 3) = Shown(k, (a + b) % 3, 3)
    /\ \A a, b \in 0..1, k \in 1..2 : Shown(Shown(k, b, 2), a, 2) = Shown(k, (a + b) % 2, 2)
<1>1. ASSUME NEW a \in 0..2, NEW b \in 0..2, NEW k \in 1..3
      PROVE  Shown(Shown(k, b, 3), a, 3) = Shown(k, (a + b) % 3, 3)
    BY DEF Shown
<1>2. ASSUME NEW a \in 0..1, NEW b \in 0..1, NEW k \in 1..2
      PROVE  Shown(Shown(k, b, 2), a, 2) = Shown(k, (a + b) % 2, 2)
    BY DEF Shown
<1> QED BY <1>1, <1>2

LEMMA WrittenStickers ==
    ASSUME NEW c \in Cubie
    PROVE  /\ ToStickers(c) \in [Facelet -> Face]
           /\ \A p \in Corner, k \in 1..3 :
                 ToStickers(c)[CornerFacelets[p][k]] = Written(CornerColors[c.cp[p]], c.co[p], k)
           /\ \A p \in Edge, k \in 1..2 :
                 ToStickers(c)[EdgeFacelets[p][k]] = Written(EdgeColors[c.ep[p]], c.eo[p], k)
           /\ \A face \in Face : ToStickers(c)[Centre(face)] = SolvedStickers[Centre(face)]
<1> DEFINE Colour(i) ==
               CASE PlaceOf[i].kind = "corner" -> Written(CornerColors[c.cp[PlaceOf[i].place]], c.co[PlaceOf[i].place], PlaceOf[i].index)
                 [] PlaceOf[i].kind = "edge" -> Written(EdgeColors[c.ep[PlaceOf[i].place]], c.eo[PlaceOf[i].place], PlaceOf[i].index)
                 [] PlaceOf[i].kind = "centre" -> SolvedStickers[i]
           stickers == [i \in Facelet |-> Colour(i)]
<1>1. ToStickers(c) = stickers
    BY TabulatedIs DEF ToStickers
<1>2. \A i \in Facelet :
          /\ PlaceOf[i].kind = "corner" =>
                Colour(i) = Written(CornerColors[c.cp[PlaceOf[i].place]], c.co[PlaceOf[i].place], PlaceOf[i].index)
          /\ PlaceOf[i].kind = "edge" =>
                Colour(i) = Written(EdgeColors[c.ep[PlaceOf[i].place]], c.eo[PlaceOf[i].place], PlaceOf[i].index)
          /\ PlaceOf[i].kind = "centre" => Colour(i) = SolvedStickers[i]
    BY "centre" # "edge", "centre" # "corner", "edge" # "corner"
<1> HIDE DEF Colour
<1>3. DOMAIN stickers = Facelet /\ \A i \in Facelet : stickers[i] = Colour(i)
    OBVIOUS
<1>4. ASSUME NEW p \in Corner, NEW k \in 1..3
      PROVE  stickers[CornerFacelets[p][k]] = Written(CornerColors[c.cp[p]], c.co[p], k)
    <2> DEFINE i == CornerFacelets[p][k]
    <2>1. i \in Facelet /\ PlaceOf[i].kind = "corner" /\ PlaceOf[i].place = p /\ PlaceOf[i].index = k
        BY PlacesOfFacelets
    <2> HIDE DEF i, stickers
    <2>2. stickers[i] = Written(CornerColors[c.cp[p]], c.co[p], k)
        BY <1>2, <1>3, <2>1
    <2> QED BY <2>2 DEF i
<1>5. ASSUME NEW p \in Edge, NEW k \in 1..2
      PROVE  stickers[EdgeFacelets[p][k]] = Written(EdgeColors[c.ep[p]], c.eo[p], k)
    <2> DEFINE i == EdgeFacelets[p][k]
    <2>1. i \in Facelet /\ PlaceOf[i].kind = "edge" /\ PlaceOf[i].place = p /\ PlaceOf[i].index = k
        BY PlacesOfFacelets
    <2> HIDE DEF i, stickers
    <2>2. stickers[i] = Written(EdgeColors[c.ep[p]], c.eo[p], k)
        BY <1>2, <1>3, <2>1
    <2> QED BY <2>2 DEF i
<1>6. ASSUME NEW face \in Face PROVE stickers[Centre(face)] = SolvedStickers[Centre(face)]
    <2> DEFINE i == Centre(face)
    <2>1. i \in Facelet /\ PlaceOf[i].kind = "centre"
        BY PlacesOfFacelets
    <2> HIDE DEF i, stickers
    <2>2. stickers[i] = SolvedStickers[i]
        BY <1>2, <1>3, <2>1
    <2> QED BY <2>2 DEF i
<1>7. ASSUME NEW i \in Facelet PROVE stickers[i] \in Face
    <2>1. CASE \E p \in Corner, k \in 1..3 : i = CornerFacelets[p][k]
        <3>1. PICK p \in Corner, k \in 1..3 : i = CornerFacelets[p][k]
            BY <2>1
        <3>2. c.cp[p] \in Corner /\ c.co[p] \in 0..2
            BY CubieAt
        <3> HIDE DEF stickers
        <3> QED BY <1>4, <3>1, <3>2, ColorOfACorner
    <2>2. CASE \E p \in Edge, k \in 1..2 : i = EdgeFacelets[p][k]
        <3>1. PICK p \in Edge, k \in 1..2 : i = EdgeFacelets[p][k]
            BY <2>2
        <3>2. c.ep[p] \in Edge /\ c.eo[p] \in 0..1
            BY CubieAt
        <3> HIDE DEF stickers
        <3> QED BY <1>5, <3>1, <3>2, ColorOfAnEdge
    <2>3. CASE \E face \in Face : i = Centre(face)
        <3> HIDE DEF stickers
        <3> QED BY <1>6, <2>3, SolvedIsAccepted
    <2> HIDE DEF stickers
    <2> QED BY <2>1, <2>2, <2>3, PlacesOfFacelets
<1>8. stickers \in [Facelet -> Face]
    BY <1>7
<1> HIDE DEF stickers
<1> QED BY <1>1, <1>4, <1>5, <1>6, <1>8

\* What is written is read.
LEMMA WrittenIsRead ==
    ASSUME NEW c \in Cubie
    PROVE  Reads(ToStickers(c), c) /\ UpDownCorners(ToStickers(c))
<1> DEFINE s == ToStickers(c)
<1>1. ASSUME NEW p \in Corner
      PROVE  /\ CornerRead(s, p) = [error |-> "None", cubie |-> c.cp[p], turn |-> c.co[p]]
             /\ OneUpDown(ColorsAt(s, CornerFacelets[p]))
    <2>1. c.cp[p] \in Corner /\ c.co[p] \in 0..2
        BY CubieAt
    <2>2. ColorsAt(s, CornerFacelets[p]) = [k \in 1..3 |-> s[CornerFacelets[p][k]]]
        BY ColorsAtPlaces
    <2>3. ColorsAt(s, CornerFacelets[p]) = CornerWritten(c.cp[p], c.co[p])
        BY <2>2, WrittenStickers DEF CornerWritten
    <2> HIDE DEF s
    <2>4. /\ CornerOf(CornerWritten(c.cp[p], c.co[p])) = [error |-> "None", cubie |-> c.cp[p], turn |-> c.co[p]]
          /\ OneUpDown(CornerWritten(c.cp[p], c.co[p]))
        BY <2>1, CornersAreRead
    <2> QED BY <2>3, <2>4 DEF CornerRead
<1>2. ASSUME NEW p \in Edge
      PROVE  EdgeRead(s, p) = [error |-> "None", cubie |-> c.ep[p], turn |-> c.eo[p]]
    <2>1. c.ep[p] \in Edge /\ c.eo[p] \in 0..1
        BY CubieAt
    <2>2. ColorsAt(s, EdgeFacelets[p]) = [k \in 1..2 |-> s[EdgeFacelets[p][k]]]
        BY ColorsAtPlaces
    <2>3. ColorsAt(s, EdgeFacelets[p]) = EdgeWritten(c.ep[p], c.eo[p])
        BY <2>2, WrittenStickers DEF EdgeWritten
    <2> HIDE DEF s
    <2> QED BY <2>1, <2>3, EdgesAreRead DEF EdgeRead
<1> HIDE DEF s
<1>3. Reads(s, c) /\ UpDownCorners(s)
    BY <1>1, <1>2 DEF Reads, UpDownCorners
<1> QED BY <1>3 DEF s

\* The stickers of a turned cube are its stickers turned.
LEMMA TurnedWritten ==
    ASSUME NEW c \in Cubie, NEW move \in Move
    PROVE  ToStickers(CubieTurned(c, move)) = Turned(ToStickers(c), move)
<1> DEFINE t == MoveTransform[move]
           u == CubieTurned(c, move)
           s == ToStickers(c)
           written == ToStickers(u)
           turned == Turned(s, move)
<1>1. t \in Cubie
    BY MoveIsValid DEF ValidCube
<1>2. /\ u \in Cubie
      /\ \A p \in Corner : u.cp[p] = c.cp[t.cp[p]] /\ u.co[p] = (c.co[t.cp[p]] + t.co[p]) % 3
      /\ \A p \in Edge : u.ep[p] = c.ep[t.ep[p]] /\ u.eo[p] = (c.eo[t.ep[p]] + t.eo[p]) % 2
    BY <1>1, TransformedIs DEF CubieTurned
<1>3. s \in [Facelet -> Face]
    BY WrittenStickers
<1>4. turned \in [Facelet -> Face] /\ \A i \in Facelet : turned[i] = s[MoveSources[move][i]]
    BY <1>3, TurnedStickers
<1> HIDE DEF u
<1>5. written \in [Facelet -> Face]
    BY <1>2, WrittenStickers
<1>6. ASSUME NEW p \in Corner, NEW k \in 1..3
      PROVE  written[CornerFacelets[p][k]] = turned[CornerFacelets[p][k]]
    <2>1. /\ t.cp[p] \in Corner /\ t.co[p] \in 0..2 /\ c.cp[t.cp[p]] \in Corner /\ c.co[t.cp[p]] \in 0..2
          /\ u.co[p] \in 0..2
        BY <1>1, <1>2, CubieAt
    <2>2. Shown(k, t.co[p], 3) \in 1..3
        BY <2>1, ShownAt
    <2>3. CornerFacelets[p][k] \in Facelet
        BY PlacesOfFacelets
    <2>4. MoveSources[move][CornerFacelets[p][k]] = CornerFacelets[t.cp[p]][Shown(k, t.co[p], 3)]
        BY MovesOfTheCube
    <2>5. written[CornerFacelets[p][k]] = Written(CornerColors[u.cp[p]], u.co[p], k)
        BY <1>2, WrittenStickers
    <2>6. s[CornerFacelets[t.cp[p]][Shown(k, t.co[p], 3)]]
              = Written(CornerColors[c.cp[t.cp[p]]], c.co[t.cp[p]], Shown(k, t.co[p], 3))
        BY <2>1, <2>2, WrittenStickers
    <2> HIDE DEF s, t, written, turned
    <2>7. Written(CornerColors[c.cp[t.cp[p]]], c.co[t.cp[p]], Shown(k, t.co[p], 3))
              = CornerColors[c.cp[t.cp[p]]][Shown(Shown(k, t.co[p], 3), c.co[t.cp[p]], 3)]
        BY <2>1, <2>2, ColorOfACorner
    <2>8. Written(CornerColors[c.cp[t.cp[p]]], u.co[p], k)
              = CornerColors[c.cp[t.cp[p]]][Shown(k, u.co[p], 3)]
        BY <2>1, ColorOfACorner
    <2>9. Shown(Shown(k, t.co[p], 3), c.co[t.cp[p]], 3) = Shown(k, u.co[p], 3)
        BY <1>2, <2>1, ShownTwice
    <2> QED BY <1>2, <1>4, <2>3, <2>4, <2>5, <2>6, <2>7, <2>8, <2>9
<1>7. ASSUME NEW p \in Edge, NEW k \in 1..2
      PROVE  written[EdgeFacelets[p][k]] = turned[EdgeFacelets[p][k]]
    <2>1. /\ t.ep[p] \in Edge /\ t.eo[p] \in 0..1 /\ c.ep[t.ep[p]] \in Edge /\ c.eo[t.ep[p]] \in 0..1
          /\ u.eo[p] \in 0..1
        BY <1>1, <1>2, CubieAt
    <2>2. Shown(k, t.eo[p], 2) \in 1..2
        BY <2>1, ShownAt
    <2>3. EdgeFacelets[p][k] \in Facelet
        BY PlacesOfFacelets
    <2>4. MoveSources[move][EdgeFacelets[p][k]] = EdgeFacelets[t.ep[p]][Shown(k, t.eo[p], 2)]
        BY MovesOfTheCube
    <2>5. written[EdgeFacelets[p][k]] = Written(EdgeColors[u.ep[p]], u.eo[p], k)
        BY <1>2, WrittenStickers
    <2>6. s[EdgeFacelets[t.ep[p]][Shown(k, t.eo[p], 2)]]
              = Written(EdgeColors[c.ep[t.ep[p]]], c.eo[t.ep[p]], Shown(k, t.eo[p], 2))
        BY <2>1, <2>2, WrittenStickers
    <2> HIDE DEF s, t, written, turned
    <2>7. Written(EdgeColors[c.ep[t.ep[p]]], c.eo[t.ep[p]], Shown(k, t.eo[p], 2))
              = EdgeColors[c.ep[t.ep[p]]][Shown(Shown(k, t.eo[p], 2), c.eo[t.ep[p]], 2)]
        BY <2>1, <2>2, ColorOfAnEdge
    <2>8. Written(EdgeColors[c.ep[t.ep[p]]], u.eo[p], k)
              = EdgeColors[c.ep[t.ep[p]]][Shown(k, u.eo[p], 2)]
        BY <2>1, ColorOfAnEdge
    <2>9. Shown(Shown(k, t.eo[p], 2), c.eo[t.ep[p]], 2) = Shown(k, u.eo[p], 2)
        BY <1>2, <2>1, ShownTwice
    <2> QED BY <1>2, <1>4, <2>3, <2>4, <2>5, <2>6, <2>7, <2>8, <2>9
<1>8. ASSUME NEW face \in Face PROVE written[Centre(face)] = turned[Centre(face)]
    <2>1. written[Centre(face)] = SolvedStickers[Centre(face)] /\ s[Centre(face)] = SolvedStickers[Centre(face)]
        BY <1>2, WrittenStickers
    <2>2. MoveSources[move][Centre(face)] = Centre(face) /\ Centre(face) \in Facelet
        BY MovesOfTheCube, CentresAre
    <2> HIDE DEF s, written, turned
    <2> QED BY <1>4, <2>1, <2>2
<1>9. \A i \in Facelet : written[i] = turned[i]
    <2> HIDE DEF s, written, turned
    <2> QED BY <1>6, <1>7, <1>8, PlacesOfFacelets
<1>10. written = turned
    <2> HIDE DEF s, written, turned
    <2> QED BY <1>4, <1>5, <1>9
<1> QED BY <1>10 DEF u

-----------------------------------------------------------------------------
(* The cube seen along another axis (applySymmetry of symmetry.cpp). *)

LEMMA RotatedIs ==
    ASSUME NEW s \in [Facelet -> Face], NEW k \in Direction
    PROVE  /\ Rotated(s, k) \in [Facelet -> Face]
           /\ \A i \in Facelet : /\ SymmetrySources[k][i] \in Facelet
                                 /\ Rotated(s, k)[i] = ColorMap[k][s[SymmetrySources[k][i]]]
<1>1. Rotated(s, k) = [i \in Facelet |-> ColorMap[k][s[SymmetrySources[k][i]]]]
    BY TabulatedIs DEF Rotated
<1>2. SymmetrySources[k] \in [Facelet -> Facelet] /\ ColorMap[k] \in [Face -> Face]
    BY DirectionTables
<1> QED BY <1>1, <1>2

LEMMA RotatedCubiesAre ==
    ASSUME NEW c \in Cubie, NEW k \in Direction
    PROVE  /\ RotatedCubies(c, k) \in Cubie
           /\ \A p \in Corner :
                 /\ RotatedCubies(c, k).cp[p] = CornerTo[k][c.cp[CornerFrom(k, p)]]
                 /\ RotatedCubies(c, k).co[p] =
                        (c.co[CornerFrom(k, p)] + (CornerTwist[k][c.cp[CornerFrom(k, p)]]
                            + (3 - CornerTwist[k][CornerFrom(k, p)]))) % 3
                 /\ CornerFrom(k, p) \in Corner
           /\ \A p \in Edge :
                 /\ RotatedCubies(c, k).ep[p] = EdgeTo[k][c.ep[EdgeFrom(k, p)]]
                 /\ RotatedCubies(c, k).eo[p] =
                        (c.eo[EdgeFrom(k, p)] + (EdgeTwist[k][c.ep[EdgeFrom(k, p)]]
                            + (2 - EdgeTwist[k][EdgeFrom(k, p)]))) % 2
                 /\ EdgeFrom(k, p) \in Edge
<1> DEFINE coAt(p) == (c.co[CornerFrom(k, p)] + (CornerTwist[k][c.cp[CornerFrom(k, p)]]
                            + (3 - CornerTwist[k][CornerFrom(k, p)]))) % 3
           eoAt(p) == (c.eo[EdgeFrom(k, p)] + (EdgeTwist[k][c.ep[EdgeFrom(k, p)]]
                            + (2 - EdgeTwist[k][EdgeFrom(k, p)]))) % 2
           cp == [p \in Corner |-> CornerTo[k][c.cp[CornerFrom(k, p)]]]
           co == [p \in Corner |-> coAt(p)]
           ep == [p \in Edge |-> EdgeTo[k][c.ep[EdgeFrom(k, p)]]]
           eo == [p \in Edge |-> eoAt(p)]
<1>1. RotatedCubies(c, k) = [cp |-> cp, co |-> co, ep |-> ep, eo |-> eo]
    BY CubieOfIs DEF RotatedCubies
<1>2. /\ \A p \in Corner : CornerFrom(k, p) \in Corner
      /\ \A p \in Edge : EdgeFrom(k, p) \in Edge
    <2> DEFINE corners == [p \in Corner |-> CornerFrom(k, p)]
               edges == [p \in Edge |-> EdgeFrom(k, p)]
    <2>1. corners \in [Corner -> Corner] /\ edges \in [Edge -> Edge]
        BY DirectionPlaces
    <2>2. (\A p \in Corner : corners[p] = CornerFrom(k, p)) /\ (\A p \in Edge : edges[p] = EdgeFrom(k, p))
        OBVIOUS
    <2> HIDE DEF corners, edges
    <2> QED BY <2>1, <2>2
<1>3. \A a, b, e \in 0..2 : (a + (b + (3 - e))) % 3 \in 0..2
    OBVIOUS
<1>4. \A a, b, e \in 0..1 : (a + (b + (2 - e))) % 2 \in 0..1
    OBVIOUS
<1>5. cp \in [Corner -> Corner] /\ ep \in [Edge -> Edge]
    <2>1. /\ \A p \in Corner : c.cp[CornerFrom(k, p)] \in Corner
          /\ \A p \in Edge : c.ep[EdgeFrom(k, p)] \in Edge
        BY <1>2, CubieAt
    <2> QED BY <2>1, DirectionTables
<1>6. co \in [Corner -> 0..2]
    <2>1. ASSUME NEW p \in Corner PROVE coAt(p) \in 0..2
        <3>1. /\ c.co[CornerFrom(k, p)] \in 0..2 /\ CornerTwist[k][CornerFrom(k, p)] \in 0..2
              /\ CornerTwist[k][c.cp[CornerFrom(k, p)]] \in 0..2
            BY <1>2, CubieAt, DirectionTables
        <3> QED BY <1>3, <3>1
    <2> HIDE DEF coAt
    <2> QED BY <2>1
<1>7. eo \in [Edge -> 0..1]
    <2>1. ASSUME NEW p \in Edge PROVE eoAt(p) \in 0..1
        <3>1. /\ c.eo[EdgeFrom(k, p)] \in 0..1 /\ EdgeTwist[k][EdgeFrom(k, p)] \in 0..1
              /\ EdgeTwist[k][c.ep[EdgeFrom(k, p)]] \in 0..1
            BY <1>2, CubieAt, DirectionTables
        <3> QED BY <1>4, <3>1
    <2> HIDE DEF eoAt
    <2> QED BY <2>1
<1>8. \A p \in Corner : cp[p] = CornerTo[k][c.cp[CornerFrom(k, p)]] /\ co[p] = coAt(p)
    <2> HIDE DEF coAt
    <2> QED OBVIOUS
<1>9. \A p \in Edge : ep[p] = EdgeTo[k][c.ep[EdgeFrom(k, p)]] /\ eo[p] = eoAt(p)
    <2> HIDE DEF eoAt
    <2> QED OBVIOUS
<1> HIDE DEF cp, co, ep, eo
<1>10. RotatedCubies(c, k) \in Cubie
    BY <1>1, <1>5, <1>6, <1>7 DEF Cubie
<1> QED BY <1>1, <1>2, <1>8, <1>9, <1>10

\* What the rotated stickers show are the rotated cubies.
LEMMA RotatedReads ==
    ASSUME NEW c \in Cubie, NEW k \in Direction
    PROVE  Reads(Rotated(ToStickers(c), k), RotatedCubies(c, k)) /\ UpDownCorners(Rotated(ToStickers(c), k))
<1> DEFINE s == ToStickers(c)
           r == Rotated(s, k)
           u == RotatedCubies(c, k)
<1>1. s \in [Facelet -> Face]
    BY WrittenStickers
<1>2. r \in [Facelet -> Face] /\ \A i \in Facelet : r[i] = ColorMap[k][s[SymmetrySources[k][i]]] /\ SymmetrySources[k][i] \in Facelet
    BY <1>1, RotatedIs
<1>3. ASSUME NEW p \in Corner
      PROVE  /\ CornerRead(r, p) = [error |-> "None", cubie |-> u.cp[p], turn |-> u.co[p]]
             /\ OneUpDown(ColorsAt(r, CornerFacelets[p]))
    <2> DEFINE from == CornerFrom(k, p)
               shown == [i \in 1..3 |-> ColorMap[k][Written(CornerColors[c.cp[from]], c.co[from], CornerIndexFrom(k, p, i))]]
    <2>1. from \in Corner /\ c.cp[from] \in Corner /\ c.co[from] \in 0..2
        BY RotatedCubiesAre, CubieAt
    <2>2. ColorsAt(r, CornerFacelets[p]) = [i \in 1..3 |-> r[CornerFacelets[p][i]]]
        BY ColorsAtPlaces
    <2>3. ASSUME NEW i \in 1..3
          PROVE  r[CornerFacelets[p][i]] = ColorMap[k][Written(CornerColors[c.cp[from]], c.co[from], CornerIndexFrom(k, p, i))]
        <3> DEFINE j == SymmetrySources[k][CornerFacelets[p][i]]
                   m == CornerIndexFrom(k, p, i)
        <3>1. CornerFacelets[p][i] \in Facelet
            BY PlacesOfFacelets
        <3>2. j \in Facelet /\ r[CornerFacelets[p][i]] = ColorMap[k][s[j]]
            BY <1>2, <3>1
        <3>3. PlaceOf[j].kind = "corner" /\ PlaceOf[j].place = from /\ PlaceOf[j].index = m /\ m \in 1..3
            BY DirectionStickers DEF CornerIndexFrom
        <3> HIDE DEF j, m, from
        <3>4. PICK q \in Corner, n \in 1..3 : j = CornerFacelets[q][n]
            BY <3>2, <3>3, PlacesOfFacelets, "corner" # "edge", "corner" # "centre"
        <3>5. q = from /\ n = m
            BY <3>3, <3>4, PlacesOfFacelets
        <3>6. s[j] = Written(CornerColors[c.cp[from]], c.co[from], m)
            BY <2>1, <3>3, <3>4, <3>5, WrittenStickers
        <3> QED BY <3>2, <3>6 DEF m
    <2>4. ColorsAt(r, CornerFacelets[p]) = shown
        <3> HIDE DEF from, r
        <3> QED BY <2>2, <2>3
    <2>5. CornerRead(r, p) = RotatedCorner(k, p, c.cp[from], c.co[from])
        BY <2>4 DEF CornerRead, RotatedCorner
    <2>6. OneUpDown(shown)
        BY <2>1, DirectionReads
    <2>7. RotatedCorner(k, p, c.cp[from], c.co[from]) =
              [error |-> "None", cubie |-> CornerTo[k][c.cp[from]],
               turn |-> (c.co[from] + (CornerTwist[k][c.cp[from]] + (3 - CornerTwist[k][from]))) % 3]
        BY <2>1, DirectionReads
    <2>8. /\ u.cp[p] = CornerTo[k][c.cp[from]]
          /\ u.co[p] = (c.co[from] + (CornerTwist[k][c.cp[from]] + (3 - CornerTwist[k][from]))) % 3
        BY RotatedCubiesAre
    <2> HIDE DEF from, shown, r, u
    <2> QED BY <2>4, <2>5, <2>6, <2>7, <2>8
<1>4. ASSUME NEW p \in Edge
      PROVE  EdgeRead(r, p) = [error |-> "None", cubie |-> u.ep[p], turn |-> u.eo[p]]
    <2> DEFINE from == EdgeFrom(k, p)
               shown == [i \in 1..2 |-> ColorMap[k][Written(EdgeColors[c.ep[from]], c.eo[from], EdgeIndexFrom(k, p, i))]]
    <2>1. from \in Edge /\ c.ep[from] \in Edge /\ c.eo[from] \in 0..1
        BY RotatedCubiesAre, CubieAt
    <2>2. ColorsAt(r, EdgeFacelets[p]) = [i \in 1..2 |-> r[EdgeFacelets[p][i]]]
        BY ColorsAtPlaces
    <2>3. ASSUME NEW i \in 1..2
          PROVE  r[EdgeFacelets[p][i]] = ColorMap[k][Written(EdgeColors[c.ep[from]], c.eo[from], EdgeIndexFrom(k, p, i))]
        <3> DEFINE j == SymmetrySources[k][EdgeFacelets[p][i]]
                   m == EdgeIndexFrom(k, p, i)
        <3>1. EdgeFacelets[p][i] \in Facelet
            BY PlacesOfFacelets
        <3>2. j \in Facelet /\ r[EdgeFacelets[p][i]] = ColorMap[k][s[j]]
            BY <1>2, <3>1
        <3>3. PlaceOf[j].kind = "edge" /\ PlaceOf[j].place = from /\ PlaceOf[j].index = m /\ m \in 1..2
            BY DirectionStickers DEF EdgeIndexFrom
        <3> HIDE DEF j, m, from
        <3>4. PICK q \in Edge, n \in 1..2 : j = EdgeFacelets[q][n]
            BY <3>2, <3>3, PlacesOfFacelets, "corner" # "edge", "edge" # "centre"
        <3>5. q = from /\ n = m
            BY <3>3, <3>4, PlacesOfFacelets
        <3>6. s[j] = Written(EdgeColors[c.ep[from]], c.eo[from], m)
            BY <2>1, <3>3, <3>4, <3>5, WrittenStickers
        <3> QED BY <3>2, <3>6 DEF m
    <2>4. ColorsAt(r, EdgeFacelets[p]) = shown
        <3> HIDE DEF from, r
        <3> QED BY <2>2, <2>3
    <2>5. EdgeRead(r, p) = RotatedEdge(k, p, c.ep[from], c.eo[from])
        BY <2>4 DEF EdgeRead, RotatedEdge
    <2>7. RotatedEdge(k, p, c.ep[from], c.eo[from]) =
              [error |-> "None", cubie |-> EdgeTo[k][c.ep[from]],
               turn |-> (c.eo[from] + (EdgeTwist[k][c.ep[from]] + (2 - EdgeTwist[k][from]))) % 2]
        BY <2>1, DirectionReads
    <2>8. /\ u.ep[p] = EdgeTo[k][c.ep[from]]
          /\ u.eo[p] = (c.eo[from] + (EdgeTwist[k][c.ep[from]] + (2 - EdgeTwist[k][from]))) % 2
        BY RotatedCubiesAre
    <2> HIDE DEF from, shown, r, u
    <2> QED BY <2>5, <2>7, <2>8
<1>5. u \in Cubie
    BY RotatedCubiesAre
<1> HIDE DEF s, r, u
<1>6. Reads(r, u) /\ UpDownCorners(r)
    BY <1>3, <1>4, <1>5 DEF Reads, UpDownCorners
<1> QED BY <1>6 DEF s, r, u

\* The same of functions known by their values, each relation named.
SumOf(h, f, g, S) ==
    /\ IsFiniteSet(S) /\ f \in [S -> Nat] /\ g \in [S -> Nat] /\ h \in [S -> Nat]
    /\ \A x \in S : h[x] = f[x] + g[x]

LEMMA SumTotals ==
    ASSUME NEW S, NEW f, NEW g, NEW h, SumOf(h, f, g, S)
    PROVE  Total(h) = Total(f) + Total(g)
<1>1. h = [x \in S |-> f[x] + g[x]]
    BY DEF SumOf
<1>2. IsFiniteSet(S) /\ f \in [S -> Nat] /\ g \in [S -> Nat]
    BY DEF SumOf
<1> QED BY <1>1, <1>2, TotalsAdd

RemainderOf(h, f, n, S) ==
    /\ IsFiniteSet(S) /\ f \in [S -> Nat] /\ h \in [S -> Nat] /\ n \in {2, 3}
    /\ \A x \in S : h[x] = f[x] % n

LEMMA RemainderTotals ==
    ASSUME NEW S, NEW n, NEW f, NEW h, RemainderOf(h, f, n, S)
    PROVE  Total(h) % n = Total(f) % n
<1>1. h = [x \in S |-> f[x] % n]
    BY DEF RemainderOf
<1>2. IsFiniteSet(S) /\ f \in [S -> Nat] /\ n \in {2, 3}
    BY DEF RemainderOf
<1> QED BY <1>1, <1>2, TotalOfRemainders

ComposedOf(h, f, t, S) ==
    /\ S \subseteq Nat /\ IsFiniteSet(S) /\ f \in [S -> S] /\ t \in [S -> S] /\ h \in [S -> S]
    /\ IsPermutation(f) /\ IsPermutation(t)
    /\ \A x \in S : h[x] = f[t[x]]

LEMMA ComposedParity ==
    ASSUME NEW S, NEW f, NEW t, NEW h, ComposedOf(h, f, t, S)
    PROVE  Parity(h) = (Parity(f) + Parity(t)) % 2
<1>1. h = [x \in S |-> f[t[x]]]
    BY DEF ComposedOf
<1>2. /\ S \subseteq Nat /\ IsFiniteSet(S) /\ f \in [S -> S] /\ t \in [S -> S]
      /\ IsPermutation(f) /\ IsPermutation(t)
    BY DEF ComposedOf
<1> QED BY <1>1, <1>2, ParityAdds

\* Cubies are twisted as they are moved: by what they become, and back by where they come from.
TwistedOf(both, f, twist, back, place, from, n, S) ==
    /\ n \in {2, 3} /\ IsFiniteSet(S)
    /\ f \in [S -> Nat] /\ twist \in [S -> Nat] /\ back \in [S -> Nat] /\ both \in [S -> Nat]
    /\ place \in [S -> S] /\ IsPermutation(place) /\ from \in [S -> S] /\ IsPermutation(from)
    /\ Total(f) % n = 0 /\ Total(back) + Total(twist) = 24
    /\ \A p \in S : both[p] = (f[from[p]] + (twist[place[from[p]]] + back[from[p]])) % n

LEMMA TwistsBalance ==
    ASSUME NEW n, NEW S, NEW f, NEW twist, NEW back, NEW place, NEW from, NEW both,
           TwistedOf(both, f, twist, back, place, from, n, S)
    PROVE  Total(both) % n = 0
<1>0. /\ n \in {2, 3} /\ IsFiniteSet(S)
      /\ f \in [S -> Nat] /\ twist \in [S -> Nat] /\ back \in [S -> Nat] /\ both \in [S -> Nat]
      /\ place \in [S -> S] /\ IsPermutation(place) /\ from \in [S -> S] /\ IsPermutation(from)
      /\ Total(f) % n = 0 /\ Total(back) + Total(twist) = 24
      /\ \A p \in S : both[p] = (f[from[p]] + (twist[place[from[p]]] + back[from[p]])) % n
    BY DEF TwistedOf
<1> DEFINE g == [q \in S |-> twist[place[q]]]
           h == [q \in S |-> g[q] + back[q]]
           w == [q \in S |-> f[q] + h[q]]
           z == [p \in S |-> w[from[p]]]
<1>1. g \in [S -> Nat] /\ Total(g) = Total(twist)
    <2>1. IsFiniteSet(S) /\ twist \in [S -> Nat] /\ place \in [S -> S] /\ IsPermutation(place)
        BY <1>0
    <2>2. g \in [S -> Nat]
        BY <2>1
    <2> QED BY <2>1, <2>2, PermutedTotal
<1>2. h \in [S -> Nat] /\ Total(h) = Total(g) + Total(back)
    <2> HIDE DEF g
    <2>1. h \in [S -> Nat] /\ SumOf(h, g, back, S)
        BY <1>0, <1>1 DEF SumOf
    <2> HIDE DEF h
    <2> QED BY <2>1, SumTotals
<1>3. w \in [S -> Nat] /\ Total(w) = Total(f) + Total(h)
    <2> HIDE DEF h
    <2>1. w \in [S -> Nat] /\ SumOf(w, f, h, S)
        BY <1>0, <1>2 DEF SumOf
    <2> HIDE DEF w
    <2> QED BY <2>1, SumTotals
<1>4. z \in [S -> Nat] /\ Total(z) = Total(w)
    <2> HIDE DEF w
    <2>1. z \in [S -> Nat]
        BY <1>0, <1>3
    <2> QED BY <1>0, <1>3, <2>1, PermutedTotal
<1>5. RemainderOf(both, z, n, S)
    <2>1. \A p \in S : both[p] = z[p] % n
        BY <1>0
    <2> HIDE DEF z
    <2> QED BY <1>0, <1>4, <2>1 DEF RemainderOf
<1>6. Total(both) % n = Total(z) % n
    <2> HIDE DEF z
    <2> QED BY <1>5, RemainderTotals
<1>7. Total(f) \in Nat /\ Total(g) \in Nat /\ Total(back) \in Nat /\ Total(twist) \in Nat
    <2> HIDE DEF g
    <2> QED BY <1>0, <1>1, TotalIsNatural
<1> HIDE DEF g, h, w, z
<1>8. Total(z) = Total(f) + 24
    BY <1>0, <1>1, <1>2, <1>3, <1>4, <1>7
<1>9. \A a \in Nat : (a % 2 = 0 => (a + 24) % 2 = 0) /\ (a % 3 = 0 => (a + 24) % 3 = 0)
    OBVIOUS
<1>10. (Total(f) + 24) % n = 0
    <2>1. CASE n = 2
        BY <1>0, <1>7, <1>9, <2>1
    <2>2. CASE n = 3
        BY <1>0, <1>7, <1>9, <2>2
    <2> QED BY <1>0, <2>1, <2>2
<1> QED BY <1>6, <1>8, <1>10

\* A rotated cube is one that validation accepts.
LEMMA RotatedIsValid ==
    ASSUME NEW c, ValidCube(c), NEW k \in Direction
    PROVE  ValidCube(RotatedCubies(c, k))
<1> DEFINE u == RotatedCubies(c, k)
           corners == [p \in Corner |-> CornerFrom(k, p)]
           edges == [p \in Edge |-> EdgeFrom(k, p)]
           cornerTo == CornerTo[k]
           edgeTo == EdgeTo[k]
           cornerTwist == CornerTwist[k]
           edgeTwist == EdgeTwist[k]
           cornerBack == [q \in Corner |-> 3 - cornerTwist[q]]
           edgeBack == [q \in Edge |-> 2 - edgeTwist[q]]
<1>1. c \in Cubie /\ u \in Cubie
    BY RotatedCubiesAre DEF ValidCube
<1>2. /\ IsPermutation(c.cp) /\ IsPermutation(c.ep) /\ Total(c.co) % 3 = 0 /\ Total(c.eo) % 2 = 0
      /\ Parity(c.cp) = Parity(c.ep)
    BY ValidMeans DEF ValidCube
<1>3. /\ c.cp \in [Corner -> Corner] /\ c.co \in [Corner -> Nat]
      /\ c.ep \in [Edge -> Edge] /\ c.eo \in [Edge -> Nat]
    BY <1>1, CubieHas
<1>4. /\ corners \in [Corner -> Corner] /\ IsPermutation(corners)
      /\ edges \in [Edge -> Edge] /\ IsPermutation(edges)
      /\ (Parity(cornerTo) + Parity(corners)) % 2 = (Parity(edgeTo) + Parity(edges)) % 2
      /\ \A p \in Corner : corners[p] = CornerFrom(k, p)
      /\ \A p \in Edge : edges[p] = EdgeFrom(k, p)
    BY DirectionPlaces
<1>5. /\ cornerTo \in [Corner -> Corner] /\ IsPermutation(cornerTo)
      /\ edgeTo \in [Edge -> Edge] /\ IsPermutation(edgeTo)
    BY DirectionTables
<1>6. /\ cornerTwist \in [Corner -> Nat] /\ cornerBack \in [Corner -> Nat]
      /\ Total(cornerBack) + Total(cornerTwist) = 24 /\ \A q \in Corner : cornerBack[q] = 3 - cornerTwist[q]
    <2>1. cornerTwist \in [Corner -> 0..2]
        BY DirectionTables
    <2>2. Total(cornerBack) + Total(cornerTwist) = 24
        BY DirectionTotals
    <2> HIDE DEF cornerTwist
    <2>3. \A q \in Corner : cornerTwist[q] \in Nat /\ 3 - cornerTwist[q] \in Nat
        BY <2>1
    <2> QED BY <2>1, <2>2, <2>3
<1>7. /\ edgeTwist \in [Edge -> Nat] /\ edgeBack \in [Edge -> Nat]
      /\ Total(edgeBack) + Total(edgeTwist) = 24 /\ \A q \in Edge : edgeBack[q] = 2 - edgeTwist[q]
    <2>1. edgeTwist \in [Edge -> 0..1]
        BY DirectionTables
    <2>2. Total(edgeBack) + Total(edgeTwist) = 24
        BY DirectionTotals
    <2> HIDE DEF edgeTwist
    <2>3. \A q \in Edge : edgeTwist[q] \in Nat /\ 2 - edgeTwist[q] \in Nat
        BY <2>1
    <2> QED BY <2>1, <2>2, <2>3
<1>8. /\ IsFiniteSet(Corner) /\ IsFiniteSet(Edge) /\ Corner \subseteq Nat /\ Edge \subseteq Nat
    <2>1. Corner \subseteq Nat /\ Edge \subseteq Nat
        BY DEF Corner, Edge
    <2> QED BY <2>1, PlaceSets
<1>9. /\ \A p \in Corner :
            /\ u.cp[p] = cornerTo[c.cp[CornerFrom(k, p)]]
            /\ u.co[p] = (c.co[CornerFrom(k, p)] + (cornerTwist[c.cp[CornerFrom(k, p)]]
                            + (3 - cornerTwist[CornerFrom(k, p)]))) % 3
      /\ \A p \in Edge :
            /\ u.ep[p] = edgeTo[c.ep[EdgeFrom(k, p)]]
            /\ u.eo[p] = (c.eo[EdgeFrom(k, p)] + (edgeTwist[c.ep[EdgeFrom(k, p)]]
                            + (2 - edgeTwist[EdgeFrom(k, p)]))) % 2
    BY <1>1, RotatedCubiesAre
<1> HIDE DEF u, corners, edges, cornerTo, edgeTo, cornerTwist, edgeTwist, cornerBack, edgeBack
<1>10. /\ u.cp \in [Corner -> Corner] /\ u.co \in [Corner -> Nat]
       /\ u.ep \in [Edge -> Edge] /\ u.eo \in [Edge -> Nat]
    BY <1>1, CubieHas
<1>11. \A p \in Corner :
          /\ u.cp[p] = cornerTo[c.cp[corners[p]]]
          /\ u.co[p] = (c.co[corners[p]] + (cornerTwist[c.cp[corners[p]]] + cornerBack[corners[p]])) % 3
    BY <1>4, <1>6, <1>9
<1>12. \A p \in Edge :
          /\ u.ep[p] = edgeTo[c.ep[edges[p]]]
          /\ u.eo[p] = (c.eo[edges[p]] + (edgeTwist[c.ep[edges[p]]] + edgeBack[edges[p]])) % 2
    BY <1>4, <1>7, <1>9
<1>13. Total(u.co) % 3 = 0
    <2> DEFINE f == c.co
               place == c.cp
               both == u.co
    <2>1. /\ f \in [Corner -> Nat] /\ place \in [Corner -> Corner] /\ both \in [Corner -> Nat]
          /\ IsPermutation(place) /\ Total(f) % 3 = 0
          /\ \A p \in Corner : both[p] = (f[corners[p]] + (cornerTwist[place[corners[p]]] + cornerBack[corners[p]])) % 3
        BY <1>2, <1>3, <1>10, <1>11
    <2>2. 3 \in {2, 3}
        OBVIOUS
    <2> HIDE DEF f, place, both
    <2>3. TwistedOf(both, f, cornerTwist, cornerBack, place, corners, 3, Corner)
        BY <1>4, <1>6, <1>8, <2>1, <2>2 DEF TwistedOf
    <2>4. Total(both) % 3 = 0
        BY <2>3, TwistsBalance
    <2> QED BY <2>4 DEF both
<1>14. Total(u.eo) % 2 = 0
    <2> DEFINE f == c.eo
               place == c.ep
               both == u.eo
    <2>1. /\ f \in [Edge -> Nat] /\ place \in [Edge -> Edge] /\ both \in [Edge -> Nat]
          /\ IsPermutation(place) /\ Total(f) % 2 = 0
          /\ \A p \in Edge : both[p] = (f[edges[p]] + (edgeTwist[place[edges[p]]] + edgeBack[edges[p]])) % 2
        BY <1>2, <1>3, <1>10, <1>12
    <2>2. 2 \in {2, 3}
        OBVIOUS
    <2> HIDE DEF f, place, both
    <2>3. TwistedOf(both, f, edgeTwist, edgeBack, place, edges, 2, Edge)
        BY <1>4, <1>7, <1>8, <2>1, <2>2 DEF TwistedOf
    <2>4. Total(both) % 2 = 0
        BY <2>3, TwistsBalance
    <2> QED BY <2>4 DEF both
<1> DEFINE cornersOnce == [p \in Corner |-> c.cp[corners[p]]]
           edgesOnce == [p \in Edge |-> c.ep[edges[p]]]
<1>15. /\ cornersOnce \in [Corner -> Corner] /\ IsPermutation(cornersOnce)
       /\ Parity(cornersOnce) = (Parity(c.cp) + Parity(corners)) % 2
    <2>1. cornersOnce \in [Corner -> Corner]
        BY <1>3, <1>4
    <2>2. \A p, q \in Corner : p # q => cornersOnce[p] # cornersOnce[q]
        BY <1>2, <1>3, <1>4 DEF IsPermutation
    <2>3. \A p \in Corner : cornersOnce[p] = c.cp[corners[p]]
        OBVIOUS
    <2>4. Parity(cornersOnce) = (Parity(c.cp) + Parity(corners)) % 2
        <3> HIDE DEF cornersOnce
        <3>1. ComposedOf(cornersOnce, c.cp, corners, Corner)
            BY <1>2, <1>3, <1>4, <1>8, <2>1, <2>3 DEF ComposedOf
        <3> QED BY <3>1, ComposedParity
    <2> QED BY <2>1, <2>2, <2>4 DEF IsPermutation
<1>16. /\ edgesOnce \in [Edge -> Edge] /\ IsPermutation(edgesOnce)
       /\ Parity(edgesOnce) = (Parity(c.ep) + Parity(edges)) % 2
    <2>1. edgesOnce \in [Edge -> Edge]
        BY <1>3, <1>4
    <2>2. \A p, q \in Edge : p # q => edgesOnce[p] # edgesOnce[q]
        BY <1>2, <1>3, <1>4 DEF IsPermutation
    <2>3. \A p \in Edge : edgesOnce[p] = c.ep[edges[p]]
        OBVIOUS
    <2>4. Parity(edgesOnce) = (Parity(c.ep) + Parity(edges)) % 2
        <3> HIDE DEF edgesOnce
        <3>1. ComposedOf(edgesOnce, c.ep, edges, Edge)
            BY <1>2, <1>3, <1>4, <1>8, <2>1, <2>3 DEF ComposedOf
        <3> QED BY <3>1, ComposedParity
    <2> QED BY <2>1, <2>2, <2>4 DEF IsPermutation
<1>17. u.cp = [p \in Corner |-> cornerTo[cornersOnce[p]]] /\ u.ep = [p \in Edge |-> edgeTo[edgesOnce[p]]]
    <2>1. \A p \in Corner : u.cp[p] = cornerTo[cornersOnce[p]]
        BY <1>11
    <2>2. \A p \in Edge : u.ep[p] = edgeTo[edgesOnce[p]]
        BY <1>12
    <2> HIDE DEF cornersOnce, edgesOnce
    <2> QED BY <1>10, <2>1, <2>2
<1> HIDE DEF cornersOnce, edgesOnce
<1>18. IsPermutation(u.cp) /\ IsPermutation(u.ep)
    <2>1. \A p, q \in Corner : p # q => u.cp[p] # u.cp[q]
        BY <1>5, <1>15, <1>17 DEF IsPermutation
    <2>2. \A p, q \in Edge : p # q => u.ep[p] # u.ep[q]
        BY <1>5, <1>16, <1>17 DEF IsPermutation
    <2> QED BY <1>10, <2>1, <2>2 DEF IsPermutation
<1>19. Parity(u.cp) = Parity(u.ep)
    <2>1. Parity([p \in Corner |-> cornerTo[cornersOnce[p]]]) = (Parity(cornerTo) + Parity(cornersOnce)) % 2
        BY <1>5, <1>8, <1>15, ParityAdds
    <2>2. Parity([p \in Edge |-> edgeTo[edgesOnce[p]]]) = (Parity(edgeTo) + Parity(edgesOnce)) % 2
        BY <1>5, <1>8, <1>16, ParityAdds
    <2>3. /\ Parity(cornerTo) \in Nat /\ Parity(corners) \in Nat /\ Parity(c.cp) \in Nat
          /\ Parity(edgeTo) \in Nat /\ Parity(edges) \in Nat /\ Parity(c.ep) \in Nat
        BY <1>3, <1>4, <1>5, <1>8, ParityIsNatural
    <2>4. \A x, y, z, v, w \in Nat : (x + y) % 2 = (z + w) % 2 =>
              (x + ((v + y) % 2)) % 2 = (z + ((v + w) % 2)) % 2
        OBVIOUS
    <2>5. (Parity(cornerTo) + Parity(cornersOnce)) % 2 = (Parity(edgeTo) + Parity(edgesOnce)) % 2
        BY <1>2, <1>4, <1>15, <1>16, <2>3, <2>4
    <2> QED BY <1>17, <2>1, <2>2, <2>5
<1> QED BY <1>1, <1>13, <1>14, <1>18, <1>19, ValidMeans DEF ValidCube, u

\* Rotating goes by way of a parse, which accepts the rotated cube.
LEMMA RotatedIsParsed ==
    ASSUME NEW c, ValidCube(c), NEW k \in Direction
    PROVE  /\ FromStickers(Rotated(ToStickers(c), k)).error = "None"
           /\ CubieRotated(c, k) = RotatedCubies(c, k)
<1>1. c \in Cubie
    BY DEF ValidCube
<1>2. FromStickers(Rotated(ToStickers(c), k)) = [error |-> "None", cube |-> RotatedCubies(c, k)]
    BY <1>1, RotatedReads, RotatedIsValid, ReadIsParsed
<1> QED BY <1>2 DEF CubieRotated

LEMMA ReadOnce ==
    ASSUME NEW s, NEW c, NEW e, Reads(s, c), Reads(s, e)
    PROVE  c = e
<1>1. c \in Cubie /\ e \in Cubie
    BY DEF Reads
<1>2. ASSUME NEW p \in Corner PROVE c.cp[p] = e.cp[p] /\ c.co[p] = e.co[p]
    <2>1. /\ CornerRead(s, p) = [error |-> "None", cubie |-> c.cp[p], turn |-> c.co[p]]
          /\ CornerRead(s, p) = [error |-> "None", cubie |-> e.cp[p], turn |-> e.co[p]]
        BY DEF Reads
    <2> QED BY <2>1
<1>3. ASSUME NEW p \in Edge PROVE c.ep[p] = e.ep[p] /\ c.eo[p] = e.eo[p]
    <2>1. /\ EdgeRead(s, p) = [error |-> "None", cubie |-> c.ep[p], turn |-> c.eo[p]]
          /\ EdgeRead(s, p) = [error |-> "None", cubie |-> e.ep[p], turn |-> e.eo[p]]
        BY DEF Reads
    <2> QED BY <2>1
<1> QED BY <1>1, <1>2, <1>3, SameCubie

\* A turn and then a rotation is the rotation and then another turn.
LEMMA RotatedTurned ==
    ASSUME NEW c, ValidCube(c), NEW d \in 1..2, NEW move \in Move
    PROVE  CubieRotated(CubieTurned(c, move), DirectionSymmetry[d])
               = CubieTurned(CubieRotated(c, DirectionSymmetry[d]), DirectionMove[d][move])
<1> DEFINE k == DirectionSymmetry[d]
           s == ToStickers(c)
           other == DirectionMove[d][move]
           u == CubieTurned(c, move)
<1>1. k \in Direction /\ c \in Cubie /\ other \in Move
    BY DirectionMoves DEF Direction, ValidCube
<1>2. ValidCube(u) /\ u \in Cubie
    BY TurnedIsValid DEF ValidCube
<1>3. CubieRotated(c, k) = RotatedCubies(c, k) /\ CubieRotated(u, k) = RotatedCubies(u, k)
    BY <1>1, <1>2, RotatedIsParsed
<1>4. s \in [Facelet -> Face] /\ Turned(s, move) \in [Facelet -> Face]
    BY <1>1, WrittenStickers, TurnedStickers
<1>5. Rotated(s, k) \in [Facelet -> Face] /\ Reads(Rotated(s, k), RotatedCubies(c, k)) /\ UpDownCorners(Rotated(s, k))
    BY <1>1, <1>4, RotatedIs, RotatedReads
<1>6. Reads(Turned(Rotated(s, k), other), CubieTurned(RotatedCubies(c, k), other))
    BY <1>1, <1>5, TurnedReads
<1>7. Reads(Rotated(Turned(s, move), k), RotatedCubies(u, k))
    <2>1. ToStickers(u) = Turned(s, move)
        BY <1>1, TurnedWritten
    <2> HIDE DEF s, u, k
    <2>2. Reads(Rotated(ToStickers(u), k), RotatedCubies(u, k))
        BY <1>1, <1>2, RotatedReads
    <2> QED BY <2>1, <2>2
<1>8. Turned(Rotated(s, k), other) = Rotated(Turned(s, move), k)
    <2> DEFINE left == Turned(Rotated(s, k), other)
               right == Rotated(Turned(s, move), k)
    <2>1. left \in [Facelet -> Face] /\ right \in [Facelet -> Face]
        BY <1>1, <1>4, <1>5, TurnedStickers, RotatedIs
    <2>2. ASSUME NEW i \in Facelet PROVE left[i] = right[i]
        <3>1. left[i] = Rotated(s, k)[MoveSources[other][i]] /\ MoveSources[other][i] \in Facelet
            BY <1>1, <1>5, TurnedStickers
        <3>2. Rotated(s, k)[MoveSources[other][i]] = ColorMap[k][s[SymmetrySources[k][MoveSources[other][i]]]]
            BY <1>1, <1>4, <3>1, RotatedIs
        <3>3. right[i] = ColorMap[k][Turned(s, move)[SymmetrySources[k][i]]] /\ SymmetrySources[k][i] \in Facelet
            BY <1>1, <1>4, RotatedIs
        <3>4. Turned(s, move)[SymmetrySources[k][i]] = s[MoveSources[move][SymmetrySources[k][i]]]
            BY <1>4, <3>3, TurnedStickers
        <3>5. MoveSources[move][SymmetrySources[k][i]] = SymmetrySources[k][MoveSources[other][i]]
            BY DirectionMoves
        <3> HIDE DEF left, right, s, k, other
        <3> QED BY <3>1, <3>2, <3>3, <3>4, <3>5
    <2> HIDE DEF left, right
    <2>3. left = right
        BY <2>1, <2>2
    <2> QED BY <2>3 DEF left, right
<1> HIDE DEF k, s, other, u
<1>9. RotatedCubies(u, k) = CubieTurned(RotatedCubies(c, k), other)
    BY <1>6, <1>7, <1>8, ReadOnce
<1> QED BY <1>3, <1>9 DEF k, other, u


-----------------------------------------------------------------------------
(* Recursive functions. *)

\* f is what comes of z by the first steps.
Iterates(f, S, z, step, n) ==
    f \in [0..n -> S] /\ f[0] = z /\ \A i \in 1..n : f[i] = step[i][f[i - 1]]

LEMMA IterationExists ==
    ASSUME NEW S, NEW z \in S, NEW n \in Nat, NEW step \in [1..n -> [S -> S]]
    PROVE  \E f : Iterates(f, S, z, step, n)
<1> DEFINE Good(m) == \E f : Iterates(f, S, z, step, m)
           bad == {m \in 0..n : ~Good(m)}
<1>1. Good(0)
    <2>1. Iterates([i \in 0..0 |-> z], S, z, step, 0)
        BY DEF Iterates
    <2> QED BY <2>1
<1>2. ASSUME NEW m \in 1..n, Good(m - 1) PROVE Good(m)
    <2>1. PICK f : Iterates(f, S, z, step, m - 1)
        BY <1>2
    <2>2. f \in [0..m - 1 -> S] /\ f[0] = z /\ \A i \in 1..m - 1 : f[i] = step[i][f[i - 1]]
        BY <2>1 DEF Iterates
    <2> DEFINE g == [i \in 0..m |-> IF i = m THEN step[m][f[m - 1]] ELSE f[i]]
    <2>3. m - 1 \in 0..m - 1 /\ f[m - 1] \in S /\ m # 0
        BY <2>2
    <2>4. g \in [0..m -> S]
        BY <2>2, <2>3
    <2>5. g[0] = z
        BY <2>2, <2>3
    <2>6. ASSUME NEW i \in 1..m PROVE g[i] = step[i][g[i - 1]]
        <3>1. CASE i = m
            BY <2>3, <3>1
        <3>2. CASE i # m
            <4>1. i \in 1..m - 1 /\ i - 1 # m /\ i - 1 \in 0..m
                BY <3>2
            <4> QED BY <2>2, <3>2, <4>1
        <3> QED BY <3>1, <3>2
    <2> HIDE DEF g
    <2> QED BY <2>4, <2>5, <2>6 DEF Iterates
<1> HIDE DEF Good
<1>3. bad = {}
    <2>1. SUFFICES ASSUME bad # {} PROVE FALSE
        OBVIOUS
    <2>2. PICK m \in bad : \A k \in bad : m <= k
        <3>1. bad \in SUBSET Nat
            OBVIOUS
        <3> HIDE DEF bad
        <3> QED BY <2>1, <3>1, LeastNatural
    <2>3. m \in 0..n /\ ~Good(m) /\ m \in 1..n
        BY <1>1, <2>2
    <2>4. m - 1 \in 0..n /\ ~(m <= m - 1)
        BY <2>3
    <2> QED BY <1>2, <2>2, <2>3, <2>4
<1> QED BY <1>3 DEF Good

\* What holds at first and is kept by every step holds throughout.
LEMMA KeptThroughout ==
    ASSUME NEW n \in Nat, NEW good, 0 \in good, \A i \in 1..n : i - 1 \in good => i \in good
    PROVE  \A i \in 0..n : i \in good
<1> DEFINE bad == {m \in 0..n : m \notin good}
<1>1. SUFFICES ASSUME bad # {} PROVE FALSE
    OBVIOUS
<1>2. PICK m \in bad : \A k \in bad : m <= k
    <2>1. bad \in SUBSET Nat
        OBVIOUS
    <2> HIDE DEF bad
    <2> QED BY <1>1, <2>1, LeastNatural
<1>3. m \in 1..n /\ m \notin good
    BY <1>2
<1>4. m - 1 \in 0..n /\ ~(m <= m - 1)
    BY <1>3
<1> QED BY <1>2, <1>3, <1>4

\* The largest of several lookups is one of them or nought, and when none is above the limit no
\* lookup is above it (EarlyReturn).
LEMMA EarlyReturnIs ==
    ASSUME NEW values, NEW size \in Nat, NEW pruneAbove \in Nat,
           Len(values) = size, \A i \in 1..size : values[i] \in Nat
    PROVE  /\ EarlyReturn(values, pruneAbove) \in Nat
           /\ \/ EarlyReturn(values, pruneAbove) = 0
              \/ \E i \in 1..size : EarlyReturn(values, pruneAbove) = values[i]
           /\ (\A i \in 1..size : values[i] <= pruneAbove) =>
                 \A i \in 1..size : values[i] <= EarlyReturn(values, pruneAbove)
<1> DEFINE larger(i, b) == IF b > pruneAbove \/ values[i] <= b THEN b ELSE values[i]
           step == [i \in 1..size |-> [b \in Nat |-> larger(i, b)]]
           Fold(f) == [n \in 0..size |->
               IF n = 0 THEN 0
               ELSE IF f[n - 1] > pruneAbove \/ values[n] <= f[n - 1] THEN f[n - 1] ELSE values[n]]
           Folds(f) == f = Fold(f)
           largest == CHOOSE f : Folds(f)
<1>1. EarlyReturn(values, pruneAbove) = largest[size]
    BY DEF EarlyReturn
<1>2. step \in [1..size -> [Nat -> Nat]]
    OBVIOUS
<1>3. PICK g : Iterates(g, Nat, 0, step, size)
    <2> HIDE DEF step
    <2> QED BY <1>2, IterationExists
<1>4. g \in [0..size -> Nat] /\ g[0] = 0 /\ \A i \in 1..size : g[i] = step[i][g[i - 1]]
    <2> HIDE DEF step
    <2> QED BY <1>3 DEF Iterates
<1>5. \A i \in 1..size : i - 1 \in 0..size /\ g[i - 1] \in Nat /\ g[i] = larger(i, g[i - 1])
    <2>1. ASSUME NEW i \in 1..size PROVE i - 1 \in 0..size /\ g[i - 1] \in Nat /\ g[i] = larger(i, g[i - 1])
        <3>1. i - 1 \in 0..size /\ g[i] = step[i][g[i - 1]]
            <4> HIDE DEF step
            <4> QED BY <1>4
        <3>2. g[i - 1] \in Nat
            BY <1>4, <3>1
        <3>3. \A b \in Nat : step[i][b] = larger(i, b)
            OBVIOUS
        <3> QED BY <3>1, <3>2, <3>3
    <2> QED BY <2>1
<1>6. Folds(g)
    <2>1. \A n \in 0..size : g[n] = Fold(g)[n]
        <3>1. \A n \in 0..size : n # 0 => n \in 1..size
            OBVIOUS
        <3> QED BY <1>4, <1>5, <3>1
    <2> HIDE DEF step
    <2> QED BY <1>4, <2>1
<1>7. Folds(largest)
    <2> HIDE DEF Folds
    <2> QED BY <1>6
<1> HIDE DEF largest
<1>8. largest[0] = 0 /\ \A i \in 1..size : largest[i] = larger(i, largest[i - 1])
    BY <1>7
<1> HIDE DEF Folds, step
<1> DEFINE Found(n) == /\ largest[n] \in Nat
                       /\ largest[n] = 0 \/ \E i \in 1..size : largest[n] = values[i]
                       /\ (\A i \in 1..size : values[i] <= pruneAbove) => \A i \in 1..n : values[i] <= largest[n]
           good == {n \in 0..size : Found(n)}
<1>9. 0 \in good
    BY <1>8
<1>10. ASSUME NEW i \in 1..size, i - 1 \in good PROVE i \in good
    <2>1. Found(i - 1)
        BY <1>10
    <2>2. largest[i] = larger(i, largest[i - 1]) /\ values[i] \in Nat /\ i \in 0..size
        BY <1>8
    <2>3. largest[i] = largest[i - 1] \/ largest[i] = values[i]
        BY <2>2
    <2>4. largest[i] \in Nat /\ (largest[i] = 0 \/ \E k \in 1..size : largest[i] = values[k])
        BY <2>1, <2>2, <2>3
    <2>5. ASSUME \A k \in 1..size : values[k] <= pruneAbove, NEW k \in 1..i PROVE values[k] <= largest[i]
        <3>1. largest[i - 1] <= pruneAbove
            BY <2>1, <2>5
        <3>2. values[i] <= largest[i] /\ largest[i - 1] <= largest[i]
            BY <2>1, <2>2, <3>1
        <3>3. CASE k = i
            BY <3>2, <3>3
        <3>4. CASE k # i
            <4>1. k \in 1..i - 1 /\ k \in 1..size
                BY <3>4
            <4>2. values[k] <= largest[i - 1] /\ values[k] \in Nat
                BY <2>1, <2>5, <4>1
            <4> QED BY <2>1, <2>4, <3>2, <4>2
        <3> QED BY <3>3, <3>4
    <2> QED BY <2>2, <2>4, <2>5
<1>11. size \in good
    <2> HIDE DEF good
    <2>1. \A i \in 1..size : i - 1 \in good => i \in good
        BY <1>10
    <2>2. \A i \in 0..size : i \in good
        BY <1>9, <2>1, KeptThroughout
    <2> QED BY <2>2
<1> QED BY <1>1, <1>11

-----------------------------------------------------------------------------
(* Coordinates and their representatives (coordinates.cpp, move_tables.cpp). *)

LEMMA TransformedFields ==
    ASSUME NEW c, NEW t
    PROVE  /\ Transformed(c, t).cp = [p \in Corner |-> c.cp[t.cp[p]]]
           /\ Transformed(c, t).co = [p \in Corner |-> (c.co[t.cp[p]] + t.co[p]) % 3]
           /\ Transformed(c, t).ep = [p \in Edge |-> c.ep[t.ep[p]]]
           /\ Transformed(c, t).eo = [p \in Edge |-> (c.eo[t.ep[p]] + t.eo[p]) % 2]
BY CubieOfIs DEF Transformed

InSlice(e) == e \in 8..11
InGroup(firstEdge, e) == e \in firstEdge..firstEdge + 3

\* Two cubes have the same edges of a layer in the same places.
SameGroup(firstEdge, a, b) ==
    \A p \in Edge : InGroup(firstEdge, a.ep[p]) \/ InGroup(firstEdge, b.ep[p]) => a.ep[p] = b.ep[p]

\* Two cubes are alike in what a coordinate is made from.
Alike(name, a, b) ==
    /\ name = "cornerOrientation" => a.co = b.co
    /\ name = "edgeOrientation" => a.eo = b.eo
    /\ name = "sliceEdges" => \A p \in Edge : InSlice(a.ep[p]) <=> InSlice(b.ep[p])
    /\ name = "cornerPermutation" => \A p \in Corner : a.cp[p] = b.cp[p]
    /\ name = "upEdgePermutation" => SameGroup(UR, a, b)
    /\ name = "downEdgePermutation" => SameGroup(DR, a, b)
    /\ name = "sliceEdgePermutation" => \A p \in 8..11 : a.ep[p] = b.ep[p]

LEMMA AlikeMeans ==
    ASSUME NEW a, NEW b
    PROVE  /\ Alike("cornerOrientation", a, b) <=> a.co = b.co
           /\ Alike("edgeOrientation", a, b) <=> a.eo = b.eo
           /\ Alike("sliceEdges", a, b) <=> \A p \in Edge : InSlice(a.ep[p]) <=> InSlice(b.ep[p])
           /\ Alike("cornerPermutation", a, b) <=> \A p \in Corner : a.cp[p] = b.cp[p]
           /\ Alike("upEdgePermutation", a, b) <=> SameGroup(UR, a, b)
           /\ Alike("downEdgePermutation", a, b) <=> SameGroup(DR, a, b)
           /\ Alike("sliceEdgePermutation", a, b) <=> \A p \in 8..11 : a.ep[p] = b.ep[p]
BY DEF Alike

LEMMA EncodedIs ==
    ASSUME NEW c
    PROVE  /\ Encoded("cornerOrientation", c) = CornerOrientation(c)
           /\ Encoded("edgeOrientation", c) = EdgeOrientation(c)
           /\ Encoded("sliceEdges", c) = SliceEdges(c)
           /\ Encoded("cornerPermutation", c) = CornerPermutation(c)
           /\ Encoded("upEdgePermutation", c) = UpEdgePermutation(c)
           /\ Encoded("downEdgePermutation", c) = DownEdgePermutation(c)
           /\ Encoded("sliceEdgePermutation", c) = SliceEdgePermutation(c)
BY DEF Encoded

LEMMA RepresentativeIs ==
    ASSUME NEW index
    PROVE  /\ Representative("cornerOrientation", index) = CubeFromCornerOrientation(index)
           /\ Representative("edgeOrientation", index) = CubeFromEdgeOrientation(index)
           /\ Representative("sliceEdges", index) = CubeFromSliceEdges(index)
           /\ Representative("cornerPermutation", index) = CubeFromCornerPermutation(index)
           /\ Representative("upEdgePermutation", index) = CubeFromEdgeGroup(index, UR)
           /\ Representative("downEdgePermutation", index) = CubeFromEdgeGroup(index, DR)
           /\ Representative("sliceEdgePermutation", index) = CubeFromSliceEdgePermutation(index)
BY DEF Representative

\* The places of four edges of an accepted cube are four.
LEMMA GroupsAreFour ==
    ASSUME NEW c, ValidCube(c), NEW firstEdge \in {0, 4, 8}
    PROVE  PlacesOf(c, firstEdge) \in FourPlaces
<1> DEFINE ep == c.ep
           places == {p \in Edge : ep[p] \in firstEdge..firstEdge + 3}
<1>1. ep \in [Edge -> Edge] /\ IsPermutation(ep)
    BY CubieHas, ValidMeans DEF ValidCube
<1>2. PlacesOf(c, firstEdge) = places
    BY DEF PlacesOf
<1> HIDE DEF ep
<1>3. \A e \in Edge : \E p \in Edge : ep[p] = e
    BY <1>1, PlaceSets, PermutationsMeetAll
<1> DEFINE f == [p \in places |-> ep[p]]
           group == firstEdge..firstEdge + 3
<1>4. group \subseteq Edge
    BY DEF Edge
<1>5. f \in [places -> group]
    OBVIOUS
<1>6. \A p, q \in places : p # q => f[p] # f[q]
    BY <1>1 DEF IsPermutation
<1>7. \A e \in group : \E p \in places : f[p] = e
    BY <1>3, <1>4
<1>8. IsFiniteSet(group) /\ Cardinality(group) = 4
    <2>1. firstEdge \in Int /\ firstEdge + 3 \in Int /\ firstEdge <= firstEdge + 3
          /\ (firstEdge + 3) - firstEdge + 1 = 4
        OBVIOUS
    <2> QED BY <2>1, FS_Interval
<1>9. Cardinality(places) = Cardinality(group)
    <2> HIDE DEF places, group, f
    <2>1. \A p, q \in places : f[p] = f[q] => p = q
        BY <1>6
    <2> QED BY <1>5, <1>7, <1>8, <2>1, SameSize
<1>10. places \in SUBSET Edge
    OBVIOUS
<1> HIDE DEF places, group
<1> QED BY <1>2, <1>8, <1>9, <1>10 DEF FourPlaces, kSubset

\* Cubes that are alike have the same coordinate.
LEMMA EncodedAlike ==
    ASSUME NEW name \in Coordinate, NEW a, NEW b, ValidCube(b), Alike(name, a, b)
    PROVE  Encoded(name, a) = Encoded(name, b)
<1>1. CASE name = "cornerOrientation"
    BY <1>1, EncodedIs DEF Alike, CornerOrientation
<1>2. CASE name = "edgeOrientation"
    BY <1>2, EncodedIs DEF Alike, EdgeOrientation
<1>3. CASE name = "sliceEdges"
    <2>1. PlacesOf(a, FR) = PlacesOf(b, FR)
        BY <1>3 DEF Alike, PlacesOf, FR, InSlice
    <2> QED BY <1>3, <2>1, EncodedIs DEF SliceEdges
<1>4. CASE name = "cornerPermutation"
    <2>1. \A i \in 1..8 : a.cp[i - 1] = b.cp[i - 1]
        BY <1>4 DEF Alike, Corner
    <2>2. [i \in 1..8 |-> a.cp[i - 1]] = [i \in 1..8 |-> b.cp[i - 1]]
        BY <2>1
    <2> QED BY <1>4, <2>2, EncodedIs DEF CornerPermutation
<1>5. ASSUME NEW firstEdge \in {UR, DR}, SameGroup(firstEdge, a, b)
      PROVE  EdgeGroupPermutation(a, firstEdge) = EdgeGroupPermutation(b, firstEdge)
    <2> DEFINE places == PlacesOf(b, firstEdge)
               ordered == SetToSortSeq(places, <)
    <2>1. PlacesOf(a, firstEdge) = places
        BY <1>5 DEF SameGroup, PlacesOf, InGroup
    <2>2. \A p \in places : a.ep[p] = b.ep[p]
        BY <1>5 DEF SameGroup, PlacesOf, InGroup
    <2>3. /\ EdgeGroupPermutation(a, firstEdge) = NormalizedCombination(places, firstEdge) * 24
                 + PermutationRank([i \in 1..4 |-> a.ep[ordered[i]]])
          /\ EdgeGroupPermutation(b, firstEdge) = NormalizedCombination(places, firstEdge) * 24
                 + PermutationRank([i \in 1..4 |-> b.ep[ordered[i]]])
        BY <2>1 DEF EdgeGroupPermutation
    <2>4. places \in FourPlaces
        BY GroupsAreFour DEF UR, DR
    <2> HIDE DEF places
    <2>5. ordered \in [1..4 -> places]
        BY <2>4, PlacesAreOrdered
    <2> HIDE DEF ordered
    <2>6. [i \in 1..4 |-> a.ep[ordered[i]]] = [i \in 1..4 |-> b.ep[ordered[i]]]
        BY <2>2, <2>5
    <2> QED BY <2>3, <2>6
<1>6. CASE name = "upEdgePermutation"
    BY <1>5, <1>6, EncodedIs DEF Alike, UpEdgePermutation
<1>7. CASE name = "downEdgePermutation"
    BY <1>5, <1>7, EncodedIs DEF Alike, DownEdgePermutation
<1>8. CASE name = "sliceEdgePermutation"
    <2>1. \A i \in 1..4 : a.ep[FR + i - 1] = b.ep[FR + i - 1]
        <3>1. \A i \in 1..4 : FR + i - 1 \in 8..11
            BY DEF FR
        <3> QED BY <1>8, <3>1 DEF Alike
    <2>2. [i \in 1..4 |-> (a.ep[FR + i - 1] - FR) % 256] = [i \in 1..4 |-> (b.ep[FR + i - 1] - FR) % 256]
        BY <2>1
    <2> QED BY <1>8, <2>2, EncodedIs DEF SliceEdgePermutation
<1> QED BY <1>1, <1>2, <1>3, <1>4, <1>6, <1>7, <1>8 DEF Coordinate

\* And a move leaves them alike; the order of the slice edges, when the move leaves them in the
\* slice.
LEMMA TurnedAlike ==
    ASSUME NEW name \in Coordinate, NEW a, NEW b, Alike(name, a, b), NEW move \in Move,
           name = "sliceEdgePermutation" => move \in Phase2Move
    PROVE  Alike(name, CubieTurned(a, move), CubieTurned(b, move))
<1> DEFINE t == MoveTransform[move]
           u == CubieTurned(a, move)
           v == CubieTurned(b, move)
<1>1. t \in Cubie /\ (move \in Phase2Move => \A p \in Edge : t.ep[p] \in 8..11 <=> p \in 8..11)
    BY MovesOfTheCube
<1>2. (\A p \in Corner : t.cp[p] \in Corner) /\ (\A p \in Edge : t.ep[p] \in Edge)
    BY <1>1, CubieAt
<1>3. /\ u.cp = [p \in Corner |-> a.cp[t.cp[p]]] /\ u.co = [p \in Corner |-> (a.co[t.cp[p]] + t.co[p]) % 3]
      /\ u.ep = [p \in Edge |-> a.ep[t.ep[p]]] /\ u.eo = [p \in Edge |-> (a.eo[t.ep[p]] + t.eo[p]) % 2]
    BY TransformedFields DEF CubieTurned
<1>4. /\ v.cp = [p \in Corner |-> b.cp[t.cp[p]]] /\ v.co = [p \in Corner |-> (b.co[t.cp[p]] + t.co[p]) % 3]
      /\ v.ep = [p \in Edge |-> b.ep[t.ep[p]]] /\ v.eo = [p \in Edge |-> (b.eo[t.ep[p]] + t.eo[p]) % 2]
    BY TransformedFields DEF CubieTurned
<1>0. SUFFICES Alike(name, u, v)
    OBVIOUS
<1> HIDE DEF t, u, v
<1>5. CASE name = "cornerOrientation"
    <2>1. a.co = b.co
        BY <1>5, AlikeMeans
    <2>2. \A p \in Corner : u.co[p] = v.co[p]
        BY <1>3, <1>4, <2>1
    <2>3. u.co = v.co
        BY <1>3, <1>4, <2>2
    <2> QED BY <1>5, <2>3, AlikeMeans
<1>6. CASE name = "edgeOrientation"
    <2>1. a.eo = b.eo
        BY <1>6, AlikeMeans
    <2>2. \A p \in Edge : u.eo[p] = v.eo[p]
        BY <1>3, <1>4, <2>1
    <2>3. u.eo = v.eo
        BY <1>3, <1>4, <2>2
    <2> QED BY <1>6, <2>3, AlikeMeans
<1>7. CASE name = "sliceEdges"
    <2>1. \A p \in Edge : InSlice(a.ep[p]) <=> InSlice(b.ep[p])
        BY <1>7, AlikeMeans
    <2>2. \A p \in Edge : InSlice(u.ep[p]) <=> InSlice(v.ep[p])
        BY <1>2, <1>3, <1>4, <2>1
    <2> QED BY <1>7, <2>2, AlikeMeans
<1>8. CASE name = "cornerPermutation"
    <2>1. \A p \in Corner : a.cp[p] = b.cp[p]
        BY <1>8, AlikeMeans
    <2>2. \A p \in Corner : u.cp[p] = v.cp[p]
        BY <1>2, <1>3, <1>4, <2>1
    <2> QED BY <1>8, <2>2, AlikeMeans
<1>9. ASSUME NEW firstEdge, SameGroup(firstEdge, a, b) PROVE SameGroup(firstEdge, u, v)
    BY <1>2, <1>3, <1>4, <1>9 DEF SameGroup
<1>10. CASE name = "upEdgePermutation"
    BY <1>9, <1>10, AlikeMeans
<1>11. CASE name = "downEdgePermutation"
    BY <1>9, <1>11, AlikeMeans
<1>12. CASE name = "sliceEdgePermutation"
    <2>1. \A p \in 8..11 : a.ep[p] = b.ep[p]
        BY <1>12, AlikeMeans
    <2>2. 8..11 \subseteq Edge
        BY DEF Edge
    <2>3. \A p \in 8..11 : t.ep[p] \in 8..11
        BY <1>1, <1>12, <2>2
    <2>4. \A p \in 8..11 : u.ep[p] = v.ep[p]
        BY <1>3, <1>4, <2>1, <2>2, <2>3
    <2> QED BY <1>12, <2>4, AlikeMeans
<1> QED BY <1>5, <1>6, <1>7, <1>8, <1>10, <1>11, <1>12 DEF Coordinate

\* The slice edges are in the slice.
InItsSlice(c) == \A p \in Edge : InSlice(c.ep[p]) <=> InSlice(p)

Indexed(name, c) ==
    /\ Encoded(name, c) \in 0..Count[name] - 1
    /\ Alike(name, Representative(name, Encoded(name, c)), c)

LEMMA OrientationsIndexed ==
    ASSUME NEW c, ValidCube(c)
    PROVE  Indexed("cornerOrientation", c) /\ Indexed("edgeOrientation", c)
<1> DEFINE co == c.co
           eo == c.eo
           coIndex == Digits(co, 3)
           eoIndex == Digits(eo, 2)
<1>1. co \in [Corner -> 0..2] /\ eo \in [Edge -> 0..1] /\ Total(co) % 3 = 0 /\ Total(eo) % 2 = 0
    BY CubieHas, ValidMeans DEF ValidCube
<1>2. Encoded("cornerOrientation", c) = coIndex /\ Encoded("edgeOrientation", c) = eoIndex
    BY EncodedIs DEF CornerOrientation, EdgeOrientation
<1> HIDE DEF co, eo
<1>3. /\ coIndex \in 0..Count["cornerOrientation"] - 1 /\ OrientationFromIndex(coIndex, 3, 8) = co
      /\ eoIndex \in 0..Count["edgeOrientation"] - 1 /\ OrientationFromIndex(eoIndex, 2, 12) = eo
    BY <1>1, OrientationsAreIndexed
<1> HIDE DEF coIndex, eoIndex
<1>4. Representative("cornerOrientation", coIndex).co = co
    BY <1>3, RepresentativeIs, CubieOfIs DEF CubeFromCornerOrientation
<1>5. Representative("edgeOrientation", eoIndex).eo = eo
    BY <1>3, RepresentativeIs, CubieOfIs DEF CubeFromEdgeOrientation
<1>6. Alike("cornerOrientation", Representative("cornerOrientation", coIndex), c)
    BY <1>4, AlikeMeans DEF co
<1>7. Alike("edgeOrientation", Representative("edgeOrientation", eoIndex), c)
    BY <1>5, AlikeMeans DEF eo
<1> QED BY <1>2, <1>3, <1>6, <1>7 DEF Indexed

LEMMA SliceIndexed ==
    ASSUME NEW c, ValidCube(c)
    PROVE  /\ Indexed("sliceEdges", c)
           /\ Encoded("sliceEdges", c) = 0 <=> InItsSlice(c)
<1> DEFINE places == PlacesOf(c, 8)
           index == SliceCombination(places)
           r == CubeFromSliceEdges(index)
<1>1. places \in FourPlaces
    BY GroupsAreFour
<1>2. Encoded("sliceEdges", c) = index
    BY EncodedIs DEF SliceEdges, FR
<1>3. places = {p \in Edge : InSlice(c.ep[p])}
    BY DEF PlacesOf, InSlice
<1> HIDE DEF places
<1>4. index \in 0..Count["sliceEdges"] - 1 /\ (index = 0 <=> places = 8..11) /\ PlacesOf(r, 8) = places
    BY <1>1, SlicePlacesAreIndexed DEF FR
<1> HIDE DEF index, r
<1>5. PlacesOf(r, 8) = {p \in Edge : InSlice(r.ep[p])}
    BY DEF PlacesOf, InSlice
<1>6. \A p \in Edge : InSlice(r.ep[p]) <=> InSlice(c.ep[p])
    BY <1>3, <1>4, <1>5
<1>7. Representative("sliceEdges", index) = r
    BY RepresentativeIs DEF r
<1>8. Alike("sliceEdges", r, c)
    BY <1>6, AlikeMeans
<1>9. places = 8..11 <=> InItsSlice(c)
    <2>1. 8..11 \subseteq Edge
        BY DEF Edge
    <2> QED BY <1>3, <2>1 DEF InItsSlice, InSlice
<1> QED BY <1>2, <1>4, <1>7, <1>8, <1>9 DEF Indexed

LEMMA CornersIndexed ==
    ASSUME NEW c, ValidCube(c)
    PROVE  Indexed("cornerPermutation", c)
<1> DEFINE cp == c.cp
           order == <<cp[0], cp[1], cp[2], cp[3], cp[4], cp[5], cp[6], cp[7]>>
           index == PermutationRank(order)
           r == CubeFromCornerPermutation(index)
<1>1. cp \in [Corner -> Corner] /\ IsPermutation(cp)
    BY CubieHas, ValidMeans DEF ValidCube
<1>2. Encoded("cornerPermutation", c) = PermutationRank([i \in 1..8 |-> cp[i - 1]])
    BY EncodedIs DEF CornerPermutation
<1> HIDE DEF cp
<1>3. [i \in 1..8 |-> cp[i - 1]] = order
    <2> DEFINE listed == [i \in 1..8 |-> cp[i - 1]]
    <2>1. /\ listed[1] = cp[0] /\ listed[2] = cp[1] /\ listed[3] = cp[2] /\ listed[4] = cp[3]
          /\ listed[5] = cp[4] /\ listed[6] = cp[5] /\ listed[7] = cp[6] /\ listed[8] = cp[7]
        OBVIOUS
    <2>2. listed = [i \in 1..8 |-> listed[i]]
        OBVIOUS
    <2>3. \A i \in 1..8 : order[i] = listed[i]
        <3> HIDE DEF listed
        <3> QED BY <2>1
    <2>4. order = [i \in 1..8 |-> order[i]]
        OBVIOUS
    <2> HIDE DEF listed, order
    <2>5. [i \in 1..8 |-> order[i]] = [i \in 1..8 |-> listed[i]]
        BY <2>3
    <2>6. order = listed
        BY <2>2, <2>4, <2>5
    <2> QED BY <2>6 DEF listed
<1>4. \A p \in Corner : order[p + 1] = cp[p]
    BY DEF Corner
<1>5. index \in 0..Count["cornerPermutation"] - 1 /\ PermutationFromRank(index, <<0, 1, 2, 3, 4, 5, 6, 7>>) = order
    <2>1. /\ cp[0] \in Corner /\ cp[1] \in Corner \ {cp[0]} /\ cp[2] \in Corner \ {cp[0], cp[1]}
          /\ cp[3] \in Corner \ {cp[0], cp[1], cp[2]} /\ cp[4] \in Corner \ {cp[0], cp[1], cp[2], cp[3]}
          /\ cp[5] \in Corner \ {cp[0], cp[1], cp[2], cp[3], cp[4]}
          /\ cp[6] \in Corner \ {cp[0], cp[1], cp[2], cp[3], cp[4], cp[5]}
          /\ cp[7] \in Corner \ {cp[0], cp[1], cp[2], cp[3], cp[4], cp[5], cp[6]}
        BY <1>1 DEF IsPermutation, Corner
    <2> DEFINE a == cp[0]
               b == cp[1]
               d == cp[2]
               e == cp[3]
               f == cp[4]
               g == cp[5]
               h == cp[6]
               i == cp[7]
    <2>2. /\ a \in Corner /\ b \in Corner \ {a} /\ d \in Corner \ {a, b} /\ e \in Corner \ {a, b, d}
          /\ f \in Corner \ {a, b, d, e} /\ g \in Corner \ {a, b, d, e, f}
          /\ h \in Corner \ {a, b, d, e, f, g} /\ i \in Corner \ {a, b, d, e, f, g, h}
        BY <2>1
    <2>3. order = <<a, b, d, e, f, g, h, i>>
        OBVIOUS
    <2> HIDE DEF a, b, d, e, f, g, h, i, order
    <2>4. From3(a, b, d)
        BY <2>2, CornerOrdersAreIndexed DEF From1, From2
    <2>5. From5(a, b, d, e, f)
        BY <2>2, <2>4 DEF From3, From4
    <2>6. From7(a, b, d, e, f, g, h)
        BY <2>2, <2>5 DEF From5, From6
    <2>7. OrderIsIndexed(<<a, b, d, e, f, g, h, i>>)
        BY <2>2, <2>6 DEF From7
    <2>8. OrderIsIndexed(order)
        BY <2>3, <2>7
    <2> HIDE DEF r
    <2> QED BY <2>8 DEF OrderIsIndexed
<1> HIDE DEF order, index
<1>6. r.cp = [p \in Corner |-> order[p + 1]]
    <2>1. r = Permuted(order)
        BY <1>5 DEF CubeFromCornerPermutation
    <2> HIDE DEF r
    <2> QED BY <2>1, CubieOfIs DEF Permuted
<1> HIDE DEF r
<1>7. \A p \in Corner : r.cp[p] = c.cp[p]
    BY <1>4, <1>6 DEF cp
<1>8. Representative("cornerPermutation", index) = r
    BY RepresentativeIs DEF r
<1>9. Alike("cornerPermutation", r, c)
    BY <1>7, AlikeMeans
<1>10. Encoded("cornerPermutation", c) = index
    BY <1>2, <1>3 DEF index
<1> QED BY <1>5, <1>8, <1>9, <1>10 DEF Indexed

LEMMA GroupsIndexed ==
    ASSUME NEW c, ValidCube(c), NEW firstEdge \in {UR, DR}
    PROVE  /\ \A name \in {"upEdgePermutation", "downEdgePermutation"} : EdgeGroupPermutation(c, firstEdge) \in 0..Count[name] - 1
           /\ SameGroup(firstEdge, CubeFromEdgeGroup(EdgeGroupPermutation(c, firstEdge), firstEdge), c)
<1> DEFINE ep == c.ep
           places == PlacesOf(c, firstEdge)
           order == [p \in places |-> ep[p]]
           placed == Placed(order, places, firstEdge)
           cube == [ep |-> placed]
           index == EdgeGroupPermutation(cube, firstEdge)
           ordered == SetToSortSeq(places, <)
           found == CubeFromEdgeGroup(index, firstEdge).ep
<1>1. ep \in [Edge -> Edge] /\ IsPermutation(ep)
    BY CubieHas, ValidMeans DEF ValidCube
<1>2. places \in FourPlaces /\ firstEdge \in {0, 4}
    BY GroupsAreFour DEF UR, DR
<1>3. places = {p \in Edge : InGroup(firstEdge, ep[p])}
    BY DEF PlacesOf, InGroup
<1>4. PlacesOf(c, firstEdge) = places
    OBVIOUS
<1> HIDE DEF places, ep
<1>5. order \in [places -> firstEdge..firstEdge + 3] /\ IsPermutation(order)
    BY <1>1, <1>3 DEF InGroup, IsPermutation
<1>6. /\ \A name \in {"upEdgePermutation", "downEdgePermutation"} : index \in 0..Count[name] - 1
      /\ \A p \in Edge : IF p \in places THEN found[p] = order[p]
                        ELSE found[p] \notin firstEdge..firstEdge + 3
    <2> HIDE DEF order
    <2>1. GroupIsIndexed(order, places, firstEdge)
        BY <1>2, <1>5, EdgeGroupsAreIndexed
    <2> QED BY <2>1 DEF GroupIsIndexed
<1>7. \A p \in Edge : placed[p] = IF p \in places THEN ep[p] ELSE (firstEdge + 4) % 12
    BY DEF Placed
<1>8. \A p \in places : order[p] = ep[p]
    OBVIOUS
<1>9. cube.ep = placed
    OBVIOUS
<1> HIDE DEF order, placed, cube
<1>10. PlacesOf(cube, firstEdge) = places
    <2>1. (firstEdge + 4) % 12 \notin firstEdge..firstEdge + 3
        BY <1>2
    <2> QED BY <1>3, <1>7, <1>9, <2>1 DEF PlacesOf, InGroup
<1>11. ordered \in [1..4 -> places]
    BY <1>2, PlacesAreOrdered
<1>12. /\ EdgeGroupPermutation(c, firstEdge) = NormalizedCombination(places, firstEdge) * 24
               + PermutationRank([i \in 1..4 |-> ep[ordered[i]]])
       /\ index = NormalizedCombination(places, firstEdge) * 24
               + PermutationRank([i \in 1..4 |-> cube.ep[ordered[i]]])
    BY <1>4, <1>10 DEF EdgeGroupPermutation, ep
<1> HIDE DEF ordered
<1>13. [i \in 1..4 |-> ep[ordered[i]]] = [i \in 1..4 |-> cube.ep[ordered[i]]]
    <2>1. \A p \in places : p \in Edge /\ cube.ep[p] = ep[p]
        BY <1>3, <1>7, <1>9
    <2> QED BY <1>11, <2>1
<1>14. EdgeGroupPermutation(c, firstEdge) = index
    <2> HIDE DEF index
    <2> QED BY <1>12, <1>13
<1> DEFINE r == CubeFromEdgeGroup(index, firstEdge)
<1>15. SameGroup(firstEdge, r, c)
    <2>1. \A p \in Edge : InGroup(firstEdge, r.ep[p]) \/ InGroup(firstEdge, ep[p]) => p \in places
        BY <1>3, <1>6 DEF InGroup
    <2>2. \A p \in Edge : InGroup(firstEdge, r.ep[p]) \/ InGroup(firstEdge, ep[p]) => r.ep[p] = ep[p]
        <3>1. r.ep = found
            OBVIOUS
        <3> HIDE DEF r, found
        <3> QED BY <1>6, <1>8, <2>1, <3>1
    <2> QED BY <2>2 DEF SameGroup, ep
<1> HIDE DEF index
<1> QED BY <1>6, <1>14, <1>15

LEMMA EdgeGroupsIndexed ==
    ASSUME NEW c, ValidCube(c)
    PROVE  Indexed("upEdgePermutation", c) /\ Indexed("downEdgePermutation", c)
<1>1. /\ EdgeGroupPermutation(c, UR) \in 0..Count["upEdgePermutation"] - 1
      /\ EdgeGroupPermutation(c, DR) \in 0..Count["downEdgePermutation"] - 1
      /\ SameGroup(UR, CubeFromEdgeGroup(EdgeGroupPermutation(c, UR), UR), c)
      /\ SameGroup(DR, CubeFromEdgeGroup(EdgeGroupPermutation(c, DR), DR), c)
    BY GroupsIndexed
<1> DEFINE up == EdgeGroupPermutation(c, UR)
           down == EdgeGroupPermutation(c, DR)
           upCube == CubeFromEdgeGroup(up, UR)
           downCube == CubeFromEdgeGroup(down, DR)
<1>2. Encoded("upEdgePermutation", c) = up /\ Encoded("downEdgePermutation", c) = down
    BY EncodedIs DEF UpEdgePermutation, DownEdgePermutation
<1>3. up \in 0..Count["upEdgePermutation"] - 1 /\ down \in 0..Count["downEdgePermutation"] - 1
      /\ SameGroup(UR, upCube, c) /\ SameGroup(DR, downCube, c)
    BY <1>1
<1> HIDE DEF up, down
<1>4. Representative("upEdgePermutation", up) = upCube /\ Representative("downEdgePermutation", down) = downCube
    BY RepresentativeIs
<1> HIDE DEF upCube, downCube
<1>5. Alike("upEdgePermutation", upCube, c) /\ Alike("downEdgePermutation", downCube, c)
    BY <1>3, AlikeMeans
<1> QED BY <1>2, <1>3, <1>4, <1>5 DEF Indexed

LEMMA SliceOrderIndexed ==
    ASSUME NEW c, ValidCube(c), InItsSlice(c)
    PROVE  Indexed("sliceEdgePermutation", c)
<1> DEFINE ep == c.ep
           order == [p \in 8..11 |-> ep[p]]
           index == PermutationRank([i \in 1..4 |-> (order[FR + i - 1] - FR) % 256])
           r == CubeFromSliceEdgePermutation(index)
<1>1. ep \in [Edge -> Edge] /\ IsPermutation(ep)
    BY CubieHas, ValidMeans DEF ValidCube
<1>2. 8..11 \subseteq Edge
    BY DEF Edge
<1>3. \A p \in 8..11 : ep[p] \in 8..11
    BY <1>2 DEF InItsSlice, InSlice
<1>4. Encoded("sliceEdgePermutation", c) = PermutationRank([i \in 1..4 |-> (ep[FR + i - 1] - FR) % 256])
    BY EncodedIs DEF SliceEdgePermutation
<1> HIDE DEF ep
<1>5. order \in [8..11 -> 8..11] /\ IsPermutation(order)
    BY <1>1, <1>2, <1>3 DEF IsPermutation
<1>6. \A p \in 8..11 : order[p] = ep[p]
    OBVIOUS
<1> HIDE DEF order
<1>7. [i \in 1..4 |-> (ep[FR + i - 1] - FR) % 256] = [i \in 1..4 |-> (order[FR + i - 1] - FR) % 256]
    <2>1. \A i \in 1..4 : FR + i - 1 \in 8..11
        BY DEF FR
    <2>2. \A i \in 1..4 : (ep[FR + i - 1] - FR) % 256 = (order[FR + i - 1] - FR) % 256
        BY <1>6, <2>1
    <2> QED BY <2>2
<1>8. index \in 0..Count["sliceEdgePermutation"] - 1 /\ \A p \in 8..11 : r.ep[p] = order[p]
    BY <1>5, SliceOrdersAreIndexed
<1>9. Encoded("sliceEdgePermutation", c) = index
    BY <1>4, <1>7
<1> HIDE DEF index, r
<1>10. Representative("sliceEdgePermutation", index) = r
    BY RepresentativeIs DEF r
<1>11. Alike("sliceEdgePermutation", r, c)
    BY <1>6, <1>8, AlikeMeans DEF ep
<1> QED BY <1>8, <1>9, <1>10, <1>11 DEF Indexed

-----------------------------------------------------------------------------
(* The move tables and the nodes (solver.cpp, phase2.cpp). *)

\* The coordinates of the first phase and of the lower layers; the order of the slice edges is a
\* coordinate in the group of the second phase only.
SearchCoordinate == Coordinate \ {"sliceEdgePermutation"}
Phase1Coordinate == {"cornerOrientation", "edgeOrientation", "sliceEdges"}

LEMMA CubesAreIndexed ==
    ASSUME NEW c, ValidCube(c), NEW name \in Coordinate, name = "sliceEdgePermutation" => InItsSlice(c)
    PROVE  Indexed(name, c)
BY OrientationsIndexed, SliceIndexed, CornersIndexed, EdgeGroupsIndexed, SliceOrderIndexed DEF Coordinate

\* A move of the second phase leaves the slice edges in the slice.
LEMMA SliceIsKept ==
    ASSUME NEW c \in Cubie, InItsSlice(c), NEW move \in Phase2Move
    PROVE  InItsSlice(CubieTurned(c, move))
<1> DEFINE t == MoveTransform[move]
           u == CubieTurned(c, move)
<1>1. move \in Move /\ t \in Cubie /\ \A p \in Edge : t.ep[p] \in 8..11 <=> p \in 8..11
    BY MovesOfTheCube
<1>2. \A p \in Edge : t.ep[p] \in Edge
    BY <1>1, CubieAt
<1>3. \A p \in Edge : u.ep[p] = c.ep[t.ep[p]]
    BY <1>1, TransformedIs DEF CubieTurned
<1> HIDE DEF t, u
<1>4. \A p \in Edge : InSlice(u.ep[p]) <=> InSlice(p)
    BY <1>1, <1>2, <1>3 DEF InItsSlice, InSlice
<1> QED BY <1>4 DEF InItsSlice, u

\* A move table takes the coordinate of a cube to that of the turned cube, though its entries are
\* those of another cube, the representative.
LEMMA CoordinateFollows ==
    ASSUME NEW c, ValidCube(c), NEW name \in Coordinate, NEW move \in Move,
           name = "sliceEdgePermutation" => InItsSlice(c) /\ move \in Phase2Move
    PROVE  MovedCoordinate(name, Encoded(name, c), move) = Encoded(name, CubieTurned(c, move))
<1> DEFINE index == Encoded(name, c)
           r == Representative(name, index)
<1>1. Alike(name, r, c)
    BY CubesAreIndexed DEF Indexed
<1>2. Alike(name, CubieTurned(r, move), CubieTurned(c, move))
    BY <1>1, TurnedAlike
<1>3. ValidCube(CubieTurned(c, move))
    BY TurnedIsValid
<1>4. Encoded(name, CubieTurned(r, move)) = Encoded(name, CubieTurned(c, move))
    BY <1>2, <1>3, EncodedAlike
<1>5. MovedCoordinate(name, index, move) = Encoded(name, CubieTurned(r, move))
    BY DEF MovedCoordinate
<1> QED BY <1>4, <1>5

\* The cube seen along another axis.
LEMMA DirectionIsValid ==
    ASSUME NEW c, ValidCube(c), NEW d \in 1..2
    PROVE  ValidCube(CubieRotated(c, DirectionSymmetry[d]))
<1>1. DirectionSymmetry[d] \in Direction
    BY DEF Direction
<1> QED BY <1>1, RotatedIsParsed, RotatedIsValid

LEMMA NodeHas ==
    ASSUME NEW c
    PROVE  /\ MakeSearchNode(c).cube = c
           /\ \A name \in SearchCoordinate : MakeSearchNode(c)[name] = Encoded(name, c)
           /\ DOMAIN MakeSearchNode(c) = SearchCoordinate \cup {"cube", "extra"}
           /\ MakeSearchNode(c).extra = MakeExtraPhase1DirectionCoordinates(c)
           /\ \A d \in 1..2 :
                 /\ DOMAIN MakeSearchNode(c).extra[d] = Phase1Coordinate
                 /\ \A name \in Phase1Coordinate :
                       MakeSearchNode(c).extra[d][name] = Encoded(name, CubieRotated(c, DirectionSymmetry[d]))
<1>1. MakeSearchNode(c).cube = c /\ MakeSearchNode(c).extra = MakeExtraPhase1DirectionCoordinates(c)
    BY DEF MakeSearchNode
<1>2. \A name \in SearchCoordinate : MakeSearchNode(c)[name] = Encoded(name, c)
    <2>1. /\ MakeSearchNode(c)["cornerOrientation"] = CornerOrientation(c)
          /\ MakeSearchNode(c)["edgeOrientation"] = EdgeOrientation(c)
          /\ MakeSearchNode(c)["sliceEdges"] = SliceEdges(c)
          /\ MakeSearchNode(c)["cornerPermutation"] = CornerPermutation(c)
          /\ MakeSearchNode(c)["upEdgePermutation"] = UpEdgePermutation(c)
          /\ MakeSearchNode(c)["downEdgePermutation"] = DownEdgePermutation(c)
        BY DEF MakeSearchNode
    <2> QED BY <2>1, EncodedIs DEF SearchCoordinate, Coordinate
<1>3. DOMAIN MakeSearchNode(c) = SearchCoordinate \cup {"cube", "extra"}
    <2>1. DOMAIN MakeSearchNode(c) =
              {"cube", "cornerOrientation", "edgeOrientation", "sliceEdges", "cornerPermutation",
               "upEdgePermutation", "downEdgePermutation", "extra"}
        BY DEF MakeSearchNode
    <2>2. SearchCoordinate = {"cornerOrientation", "edgeOrientation", "sliceEdges", "cornerPermutation",
               "upEdgePermutation", "downEdgePermutation"}
        BY DEF SearchCoordinate, Coordinate
    <2> QED BY <2>1, <2>2
<1>4. \A d \in 1..2 :
         MakeExtraPhase1DirectionCoordinates(c)[d]
             = [name \in Phase1Coordinate |-> Encoded(name, CubieRotated(c, DirectionSymmetry[d]))]
    BY DEF MakeExtraPhase1DirectionCoordinates, Phase1Coordinates, Phase1Coordinate
<1> QED BY <1>1, <1>2, <1>3, <1>4

LEMMA ExtraFollows ==
    ASSUME NEW c, ValidCube(c), NEW move \in Move
    PROVE  MovedExtraPhase1Directions(MakeSearchNode(c), move)
               = MakeExtraPhase1DirectionCoordinates(CubieTurned(c, move))
<1> DEFINE n == MakeSearchNode(c)
           u == CubieTurned(c, move)
           moved == MovedExtraPhase1Directions(n, move)
           made == MakeExtraPhase1DirectionCoordinates(u)
<1>1. ASSUME NEW d \in 1..2 PROVE moved[d] = made[d]
    <2> DEFINE k == DirectionSymmetry[d]
               other == DirectionMove[d][move]
               r == CubieRotated(c, k)
    <2>1. DOMAIN n.extra[d] = Phase1Coordinate
        BY NodeHas
    <2>2. \A name \in Phase1Coordinate : n.extra[d][name] = Encoded(name, r)
        BY NodeHas
    <2>3. moved[d] = [name \in DOMAIN n.extra[d] |-> MovedCoordinate(name, n.extra[d][name], other)]
        BY DEF MovedExtraPhase1Directions, MovedPhase1Coordinates
    <2>4. made[d] = [name \in Phase1Coordinate |-> Encoded(name, CubieRotated(u, k))]
        BY DEF MakeExtraPhase1DirectionCoordinates, Phase1Coordinates, Phase1Coordinate
    <2>5. ValidCube(r) /\ other \in Move
        BY DirectionIsValid, DirectionMoves
    <2>6. CubieRotated(u, k) = CubieTurned(r, other)
        BY RotatedTurned
    <2>7. \A name \in Phase1Coordinate : name \in Coordinate /\ name # "sliceEdgePermutation"
        BY DEF Phase1Coordinate, Coordinate
    <2> HIDE DEF n, u, moved, made, k, other, r
    <2>8. \A name \in Phase1Coordinate :
             MovedCoordinate(name, Encoded(name, r), other) = Encoded(name, CubieTurned(r, other))
        BY <2>5, <2>7, CoordinateFollows
    <2> QED BY <2>1, <2>2, <2>3, <2>4, <2>6, <2>8
<1>2. moved = [d \in 1..2 |-> moved[d]]
    BY DEF MovedExtraPhase1Directions
<1>3. made = [d \in 1..2 |-> made[d]]
    BY DEF MakeExtraPhase1DirectionCoordinates
<1> HIDE DEF moved, made
<1>4. [d \in 1..2 |-> moved[d]] = [d \in 1..2 |-> made[d]]
    BY <1>1
<1>5. moved = made
    BY <1>2, <1>3, <1>4
<1> QED BY <1>5 DEF moved, made

LEMMA MovedIs ==
    ASSUME NEW move, NEW n,
           DOMAIN n = SearchCoordinate \cup {"cube", "extra"}, n = [field \in DOMAIN n |-> n[field]]
    PROVE  /\ DOMAIN Moved(n, move) = DOMAIN n
           /\ Moved(n, move) = [field \in DOMAIN n |-> Moved(n, move)[field]]
           /\ Moved(n, move).cube = CubieTurned(n.cube, move)
           /\ \A name \in SearchCoordinate : Moved(n, move)[name] = MovedCoordinate(name, n[name], move)
           /\ Moved(n, move).extra = MovedExtraPhase1Directions(n, move)
<1> DEFINE m == Moved(n, move)
<1>1. SearchCoordinate = {"cornerOrientation", "edgeOrientation", "sliceEdges", "cornerPermutation",
                          "upEdgePermutation", "downEdgePermutation"}
    BY DEF SearchCoordinate, Coordinate
<1>2. DOMAIN m = DOMAIN n /\ m = [field \in DOMAIN n |-> m[field]]
    BY DEF Moved
<1>3. m.cube = CubieTurned(n.cube, move) /\ m.extra = MovedExtraPhase1Directions(n, move)
    BY <1>1 DEF Moved
<1>4. /\ m.cornerOrientation = MovedCoordinate("cornerOrientation", n.cornerOrientation, move)
      /\ m.edgeOrientation = MovedCoordinate("edgeOrientation", n.edgeOrientation, move)
      /\ m.sliceEdges = MovedCoordinate("sliceEdges", n.sliceEdges, move)
      /\ m.cornerPermutation = MovedCoordinate("cornerPermutation", n.cornerPermutation, move)
      /\ m.upEdgePermutation = MovedCoordinate("upEdgePermutation", n.upEdgePermutation, move)
      /\ m.downEdgePermutation = MovedCoordinate("downEdgePermutation", n.downEdgePermutation, move)
    BY <1>1 DEF Moved
<1> HIDE DEF m
<1>5. \A name \in SearchCoordinate : m[name] = MovedCoordinate(name, n[name], move)
    BY <1>1, <1>4
<1>6. /\ DOMAIN m = DOMAIN n /\ m = [field \in DOMAIN n |-> m[field]] /\ m.cube = CubieTurned(n.cube, move)
      /\ \A name \in SearchCoordinate : m[name] = MovedCoordinate(name, n[name], move)
      /\ m.extra = MovedExtraPhase1Directions(n, move)
    BY <1>2, <1>3, <1>5
<1> QED BY <1>6 DEF m

\* A node moved is the node of the moved cube (movedCoordinates).
LEMMA NodeFollows ==
    ASSUME NEW c, ValidCube(c), NEW move \in Move
    PROVE  Moved(MakeSearchNode(c), move) = MakeSearchNode(CubieTurned(c, move))
<1> DEFINE n == MakeSearchNode(c)
           u == CubieTurned(c, move)
<1>1. n.cube = c /\ MovedExtraPhase1Directions(n, move) = MakeExtraPhase1DirectionCoordinates(u)
    BY NodeHas, ExtraFollows
<1>2. ASSUME NEW name \in SearchCoordinate
      PROVE  MovedCoordinate(name, n[name], move) = Encoded(name, u)
    <2>1. n[name] = Encoded(name, c)
        BY NodeHas
    <2>2. name \in Coordinate /\ name # "sliceEdgePermutation"
        BY DEF SearchCoordinate
    <2> QED BY <2>1, <2>2, CoordinateFollows
<1> DEFINE fields == SearchCoordinate \cup {"cube", "extra"}
           m == Moved(n, move)
           made == MakeSearchNode(u)
<1>3. DOMAIN n = fields /\ n = [field \in fields |-> n[field]]
    BY NodeHas DEF MakeSearchNode
<1>4. DOMAIN made = fields /\ made = [field \in fields |-> made[field]]
    BY NodeHas DEF MakeSearchNode
<1>5. /\ made.cube = u /\ made.extra = MakeExtraPhase1DirectionCoordinates(u)
      /\ \A name \in SearchCoordinate : made[name] = Encoded(name, u)
    BY NodeHas
<1>6. CubieTurned(n.cube, move) = u
    BY <1>1
<1> HIDE DEF n, u, made
<1>7. /\ m = [field \in fields |-> m[field]] /\ m.cube = CubieTurned(n.cube, move)
      /\ \A name \in SearchCoordinate : m[name] = MovedCoordinate(name, n[name], move)
      /\ m.extra = MovedExtraPhase1Directions(n, move)
    BY <1>3, MovedIs
<1> HIDE DEF m
<1>8. \A field \in fields : m[field] = made[field]
    BY <1>1, <1>2, <1>5, <1>6, <1>7
<1> HIDE DEF fields
<1>9. [field \in fields |-> m[field]] = [field \in fields |-> made[field]]
    BY <1>8
<1>10. m = made
    BY <1>4, <1>7, <1>9
<1> QED BY <1>10 DEF m, n, made, u

-----------------------------------------------------------------------------
(* The group the second phase works in. *)

LEMMA AlikeBoth ==
    ASSUME NEW name \in Coordinate, NEW r, NEW a, NEW b, Alike(name, r, a), Alike(name, r, b)
    PROVE  Alike(name, a, b)
<1>1. CASE name = "cornerOrientation"
    BY <1>1, AlikeMeans
<1>2. CASE name = "edgeOrientation"
    BY <1>2, AlikeMeans
<1>3. CASE name = "sliceEdges"
    <2>1. \A p \in Edge : (InSlice(r.ep[p]) <=> InSlice(a.ep[p])) /\ (InSlice(r.ep[p]) <=> InSlice(b.ep[p]))
        BY <1>3, AlikeMeans
    <2>2. \A p \in Edge : InSlice(a.ep[p]) <=> InSlice(b.ep[p])
        BY <2>1
    <2> QED BY <1>3, <2>2, AlikeMeans
<1>4. CASE name = "cornerPermutation"
    BY <1>4, AlikeMeans
<1>5. ASSUME NEW firstEdge, SameGroup(firstEdge, r, a), SameGroup(firstEdge, r, b)
      PROVE  SameGroup(firstEdge, a, b)
    BY <1>5 DEF SameGroup
<1>6. CASE name = "upEdgePermutation"
    BY <1>5, <1>6, AlikeMeans
<1>7. CASE name = "downEdgePermutation"
    BY <1>5, <1>7, AlikeMeans
<1>8. CASE name = "sliceEdgePermutation"
    BY <1>8, AlikeMeans
<1> QED BY <1>1, <1>2, <1>3, <1>4, <1>6, <1>7, <1>8 DEF Coordinate

LEMMA SolvedIsInItsSlice == InItsSlice(SolvedCubie)
BY SolvedCubieIs DEF InItsSlice

\* A cube whose coordinate is nought is in that respect the solved cube.
LEMMA LikeSolved ==
    ASSUME NEW c, ValidCube(c), NEW name \in Coordinate, Encoded(name, c) = 0,
           name = "sliceEdgePermutation" => InItsSlice(c)
    PROVE  Alike(name, c, SolvedCubie)
<1>1. Alike(name, Representative(name, 0), c)
    BY CubesAreIndexed DEF Indexed
<1>2. Encoded(name, SolvedCubie) = 0
    BY SolvedIsNought
<1>3. Indexed(name, SolvedCubie)
    BY CubesAreIndexed, SolvedIsValid, SolvedIsInItsSlice
<1>4. Alike(name, Representative(name, 0), SolvedCubie)
    BY <1>2, <1>3 DEF Indexed
<1> QED BY <1>1, <1>4, AlikeBoth

\* No cubie turned, and the slice edges in the slice.
InSecondPhase(c) ==
    /\ ValidCube(c) /\ InItsSlice(c)
    /\ \A p \in Corner : c.co[p] = 0
    /\ \A p \in Edge : c.eo[p] = 0

\* The first phase ends in the group of the second.
LEMMA FirstPhaseEnds ==
    ASSUME NEW c, ValidCube(c), Phase1Solved(MakeSearchNode(c))
    PROVE  InSecondPhase(c)
<1>1. /\ Encoded("cornerOrientation", c) = 0 /\ Encoded("edgeOrientation", c) = 0
      /\ Encoded("sliceEdges", c) = 0
    <2>1. {"cornerOrientation", "edgeOrientation", "sliceEdges"} \subseteq SearchCoordinate
        BY DEF SearchCoordinate, Coordinate
    <2> QED BY <2>1, NodeHas DEF Phase1Solved
<1>2. "cornerOrientation" \in Coordinate /\ "edgeOrientation" \in Coordinate
    BY DEF Coordinate
<1>3. c.co = SolvedCubie.co /\ c.eo = SolvedCubie.eo
    BY <1>1, <1>2, LikeSolved, AlikeMeans
<1>4. InItsSlice(c)
    BY <1>1, SliceIndexed
<1> QED BY <1>3, <1>4, SolvedCubieIs DEF InSecondPhase

\* And its moves stay there (isPhase2Move).
LEMMA SecondPhaseIsKept ==
    ASSUME NEW c, InSecondPhase(c), NEW move \in Phase2Move
    PROVE  InSecondPhase(CubieTurned(c, move))
<1> DEFINE t == MoveTransform[move]
           u == CubieTurned(c, move)
<1>1. c \in Cubie /\ ValidCube(c) /\ InItsSlice(c)
    BY DEF InSecondPhase, ValidCube
<1>2. move \in Move /\ t \in Cubie /\ t.co = SolvedCubie.co /\ t.eo = SolvedCubie.eo
    BY MovesOfTheCube
<1>3. ValidCube(u) /\ InItsSlice(u)
    BY <1>1, <1>2, TurnedIsValid, SliceIsKept
<1>4. /\ \A p \in Corner : t.cp[p] \in Corner /\ t.co[p] = 0
      /\ \A p \in Edge : t.ep[p] \in Edge /\ t.eo[p] = 0
    BY <1>2, CubieAt, SolvedCubieIs
<1>5. /\ \A p \in Corner : u.co[p] = (c.co[t.cp[p]] + t.co[p]) % 3
      /\ \A p \in Edge : u.eo[p] = (c.eo[t.ep[p]] + t.eo[p]) % 2
    BY <1>1, <1>2, TransformedIs DEF CubieTurned
<1> HIDE DEF t, u
<1>6. (0 + 0) % 3 = 0 /\ (0 + 0) % 2 = 0
    OBVIOUS
<1>7. (\A p \in Corner : u.co[p] = 0) /\ (\A p \in Edge : u.eo[p] = 0)
    BY <1>4, <1>5, <1>6 DEF InSecondPhase
<1>8. InSecondPhase(u)
    BY <1>3, <1>7 DEF InSecondPhase
<1> QED BY <1>8 DEF u

Phase2Coordinate == {"cornerPermutation", "upEdgePermutation", "downEdgePermutation", "sliceEdgePermutation"}

LEMMA Phase2NodeHas ==
    ASSUME NEW c
    PROVE  /\ MakePhase2Node(c).cube = c
           /\ \A name \in Phase2Coordinate : MakePhase2Node(c)[name] = Encoded(name, c)
           /\ DOMAIN MakePhase2Node(c) = Phase2Coordinate \cup {"cube"}
<1> DEFINE n == MakePhase2Node(c)
<1>1. /\ n.cube = c /\ DOMAIN n = Phase2Coordinate \cup {"cube"}
      /\ n["cornerPermutation"] = CornerPermutation(c) /\ n["upEdgePermutation"] = UpEdgePermutation(c)
      /\ n["downEdgePermutation"] = DownEdgePermutation(c) /\ n["sliceEdgePermutation"] = SliceEdgePermutation(c)
    BY DEF MakePhase2Node, Phase2Coordinate
<1> HIDE DEF n
<1>2. \A name \in Phase2Coordinate : n[name] = Encoded(name, c)
    BY <1>1, EncodedIs DEF Phase2Coordinate
<1>3. n.cube = c /\ (\A name \in Phase2Coordinate : n[name] = Encoded(name, c))
      /\ DOMAIN n = Phase2Coordinate \cup {"cube"}
    BY <1>1, <1>2
<1> QED BY <1>3 DEF n

LEMMA MovedPhase2Is ==
    ASSUME NEW move, NEW n,
           DOMAIN n = Phase2Coordinate \cup {"cube"}, n = [field \in DOMAIN n |-> n[field]]
    PROVE  /\ DOMAIN MovedPhase2(n, move) = DOMAIN n
           /\ MovedPhase2(n, move) = [field \in DOMAIN n |-> MovedPhase2(n, move)[field]]
           /\ MovedPhase2(n, move).cube = CubieTurned(n.cube, move)
           /\ \A name \in Phase2Coordinate : MovedPhase2(n, move)[name] = MovedCoordinate(name, n[name], move)
<1> DEFINE m == MovedPhase2(n, move)
<1>1. DOMAIN m = DOMAIN n /\ m = [field \in DOMAIN n |-> m[field]]
    BY DEF MovedPhase2
<1>2. m.cube = CubieTurned(n.cube, move)
    BY DEF MovedPhase2, Phase2Coordinate
<1>3. /\ m.cornerPermutation = MovedCoordinate("cornerPermutation", n.cornerPermutation, move)
      /\ m.upEdgePermutation = MovedCoordinate("upEdgePermutation", n.upEdgePermutation, move)
      /\ m.downEdgePermutation = MovedCoordinate("downEdgePermutation", n.downEdgePermutation, move)
      /\ m.sliceEdgePermutation = MovedCoordinate("sliceEdgePermutation", n.sliceEdgePermutation, move)
    BY DEF MovedPhase2, Phase2Coordinate
<1> HIDE DEF m
<1>4. \A name \in Phase2Coordinate : m[name] = MovedCoordinate(name, n[name], move)
    BY <1>3 DEF Phase2Coordinate
<1>5. /\ DOMAIN m = DOMAIN n /\ m = [field \in DOMAIN n |-> m[field]] /\ m.cube = CubieTurned(n.cube, move)
      /\ \A name \in Phase2Coordinate : m[name] = MovedCoordinate(name, n[name], move)
    BY <1>1, <1>2, <1>4
<1> QED BY <1>5 DEF m

\* The nodes of the second phase follow the cube too (moved, phase2.cpp).
LEMMA Phase2NodeFollows ==
    ASSUME NEW c, InSecondPhase(c), NEW move \in Phase2Move
    PROVE  MovedPhase2(MakePhase2Node(c), move) = MakePhase2Node(CubieTurned(c, move))
<1> DEFINE n == MakePhase2Node(c)
           u == CubieTurned(c, move)
           fields == Phase2Coordinate \cup {"cube"}
           m == MovedPhase2(n, move)
           made == MakePhase2Node(u)
<1>1. ValidCube(c) /\ InItsSlice(c) /\ move \in Move
    BY MovesOfTheCube DEF InSecondPhase
<1>2. ASSUME NEW name \in Phase2Coordinate
      PROVE  MovedCoordinate(name, n[name], move) = Encoded(name, u)
    <2>1. n[name] = Encoded(name, c)
        BY Phase2NodeHas
    <2>2. name \in Coordinate
        BY DEF Phase2Coordinate, Coordinate
    <2> QED BY <1>1, <2>1, <2>2, CoordinateFollows
<1>3. DOMAIN n = fields /\ n = [field \in fields |-> n[field]]
    BY Phase2NodeHas DEF MakePhase2Node
<1>4. DOMAIN made = fields /\ made = [field \in fields |-> made[field]]
    BY Phase2NodeHas DEF MakePhase2Node
<1>5. made.cube = u /\ \A name \in Phase2Coordinate : made[name] = Encoded(name, u)
    BY Phase2NodeHas
<1>6. CubieTurned(n.cube, move) = u
    BY Phase2NodeHas
<1> HIDE DEF n, u, made
<1>7. /\ m = [field \in fields |-> m[field]] /\ m.cube = CubieTurned(n.cube, move)
      /\ \A name \in Phase2Coordinate : m[name] = MovedCoordinate(name, n[name], move)
    BY <1>3, MovedPhase2Is
<1> HIDE DEF m
<1>8. \A field \in fields : m[field] = made[field]
    BY <1>2, <1>5, <1>6, <1>7
<1> HIDE DEF fields
<1>9. [field \in fields |-> m[field]] = [field \in fields |-> made[field]]
    BY <1>8
<1>10. m = made
    BY <1>4, <1>7, <1>9
<1> QED BY <1>10 DEF m, n, made, u

\* In the group, the four coordinates tell the solved cube (phase2Solved).
LEMMA SecondPhaseEnds ==
    ASSUME NEW c, InSecondPhase(c)
    PROVE  Phase2Solved(MakePhase2Node(c)) <=> c = SolvedCubie
<1>1. ValidCube(c) /\ InItsSlice(c) /\ c \in Cubie
    BY DEF InSecondPhase, ValidCube
<1>2. Phase2Solved(MakePhase2Node(c)) <=> \A name \in Phase2Coordinate : Encoded(name, c) = 0
    <2> DEFINE n == MakePhase2Node(c)
    <2>1. \A name \in Phase2Coordinate : n[name] = Encoded(name, c)
        BY Phase2NodeHas
    <2> HIDE DEF n
    <2>2. Phase2Solved(n) <=> \A name \in Phase2Coordinate : Encoded(name, c) = 0
        BY <2>1 DEF Phase2Solved, Phase2Coordinate
    <2> QED BY <2>2 DEF n
<1>3. Phase2Coordinate \subseteq Coordinate
    BY DEF Phase2Coordinate, Coordinate
<1>4. c = SolvedCubie => \A name \in Phase2Coordinate : Encoded(name, c) = 0
    BY <1>3, SolvedIsNought
<1>5. ASSUME \A name \in Phase2Coordinate : Encoded(name, c) = 0 PROVE c = SolvedCubie
    <2>1. \A name \in Phase2Coordinate : Alike(name, c, SolvedCubie)
        BY <1>1, <1>3, <1>5, LikeSolved
    <2>2. /\ \A p \in Corner : c.cp[p] = SolvedCubie.cp[p]
          /\ SameGroup(UR, c, SolvedCubie) /\ SameGroup(DR, c, SolvedCubie)
          /\ \A p \in 8..11 : c.ep[p] = SolvedCubie.ep[p]
        BY <2>1, AlikeMeans DEF Phase2Coordinate
    <2>3. \A p \in Corner : c.co[p] = SolvedCubie.co[p]
        BY SolvedCubieIs DEF InSecondPhase
    <2>4. ASSUME NEW p \in Edge PROVE c.ep[p] = SolvedCubie.ep[p] /\ c.eo[p] = SolvedCubie.eo[p]
        <3>1. c.eo[p] = SolvedCubie.eo[p]
            BY SolvedCubieIs DEF InSecondPhase
        <3>2. c.ep[p] \in Edge
            BY <1>1, CubieAt
        <3>3. InGroup(UR, c.ep[p]) \/ InGroup(DR, c.ep[p]) \/ InSlice(c.ep[p])
            BY <3>2 DEF InGroup, InSlice, UR, DR, Edge
        <3>4. CASE InGroup(UR, c.ep[p]) \/ InGroup(DR, c.ep[p])
            BY <2>2, <3>1, <3>4 DEF SameGroup
        <3>5. CASE InSlice(c.ep[p])
            <4>1. p \in 8..11
                BY <1>1, <3>5 DEF InItsSlice, InSlice
            <4> QED BY <2>2, <3>1, <4>1
        <3> QED BY <3>3, <3>4, <3>5
    <2> QED BY <1>1, <2>2, <2>3, <2>4, SameCubie, SolvedCubieIs
<1> QED BY <1>2, <1>4, <1>5

-----------------------------------------------------------------------------
(* The tables near the goal (pruning_tables.cpp) and what is looked up in them. *)

AnyTable == SearchTable \cup Range(Phase2Tables)
TablesOf(names) == [1..1 -> names] \cup [1..2 -> names]

LEMMA SearchTablesHave ==
    /\ BaseTables \in Seq(TablesOf(SearchCoordinate)) /\ Len(BaseTables) = 9
    /\ Phase1Tables \in Seq(TablesOf(Phase1Coordinate)) /\ Len(Phase1Tables) = 5
    /\ \A profile \in Profile : ProfileTables(profile) \in Seq(TablesOf(SearchCoordinate))
    /\ \A table \in SearchTable : table \in TablesOf(SearchCoordinate)
<1> DEFINE some == TablesOf(SearchCoordinate)
<1>0. /\ \A a \in SearchCoordinate : <<a>> \in some
      /\ \A a \in SearchCoordinate, b \in SearchCoordinate : <<a, b>> \in some
      /\ \A a \in Phase1Coordinate : <<a>> \in TablesOf(Phase1Coordinate)
      /\ \A a \in Phase1Coordinate, b \in Phase1Coordinate : <<a, b>> \in TablesOf(Phase1Coordinate)
    BY DEF TablesOf
<1> HIDE DEF some
<1>1. SearchCoordinate = {"cornerOrientation", "edgeOrientation", "sliceEdges", "cornerPermutation",
                          "upEdgePermutation", "downEdgePermutation"}
    BY DEF SearchCoordinate, Coordinate
<1>2. BaseTables \in Seq(some) /\ Len(BaseTables) = 9
    BY <1>0, <1>1 DEF BaseTables
<1>3. Phase1Tables \in Seq(TablesOf(Phase1Coordinate)) /\ Len(Phase1Tables) = 5
    BY <1>0 DEF Phase1Tables, Phase1Coordinate
<1>4. ASSUME NEW profile \in Profile PROVE ProfileTables(profile) \in Seq(some)
    <2>1. /\ << <<"upEdgePermutation", "downEdgePermutation">> >> \in Seq(some)
          /\ << <<"cornerOrientation", "cornerPermutation">> >> \in Seq(some)
          /\ << <<"cornerPermutation", "upEdgePermutation">>, <<"cornerPermutation", "downEdgePermutation">> >>
                 \in Seq(some)
          /\ << <<"cornerPermutation", "edgeOrientation">>, <<"cornerOrientation", "upEdgePermutation">>,
                <<"cornerOrientation", "downEdgePermutation">>, <<"edgeOrientation", "upEdgePermutation">>,
                <<"edgeOrientation", "downEdgePermutation">> >> \in Seq(some)
          /\ <<>> \in Seq(some)
        BY <1>0, <1>1
    <2>2. \A s, t \in Seq(some) : s \o t \in Seq(some)
        OBVIOUS
    <2> QED BY <2>1, <2>2 DEF ProfileTables
<1>5. \A s \in Seq(some) : \A table \in Range(s) : table \in some
    BY DEF Range
<1>6. \A table \in SearchTable : table \in some
    BY <1>2, <1>4, <1>5 DEF SearchTable
<1> QED BY <1>2, <1>3, <1>4, <1>6 DEF some

\* The tables of the second phase, but those of a single coordinate of a layer or the corners, are
\* computed with the moves of that phase; the others with every move.
LEMMA TablesHave ==
    /\ \A table \in SearchTable : table \in TablesOf(SearchCoordinate) /\ TableMoves(table) = Move
    /\ \A table \in AnyTable : table \in TablesOf(Coordinate)
    /\ \A table \in AnyTable \ SearchTable : TableMoves(table) = Phase2Move
    /\ \A i \in 1..7 : Phase2Tables[i] \in AnyTable
    /\ \A i \in 1..3 : Phase2PairTables[i] \in AnyTable
    /\ Len(Phase2Tables) = 7 /\ Len(Phase2PairTables) = 3
    /\ \A i \in 1..7 : Phase2Tables[i] \in TablesOf(Phase2Coordinate)
    /\ \A i \in 1..3 : Phase2PairTables[i] = Phase2Tables[i + 4]
<1>1. /\ Phase2PairTables[1] = <<"cornerPermutation", "sliceEdgePermutation">>
      /\ Phase2PairTables[2] = <<"upEdgePermutation", "sliceEdgePermutation">>
      /\ Phase2PairTables[3] = <<"downEdgePermutation", "sliceEdgePermutation">>
      /\ Len(Phase2PairTables) = 3 /\ DOMAIN Phase2PairTables = 1..3
    BY DEF Phase2PairTables
<1>2. /\ Phase2Tables[1] = <<"cornerPermutation">> /\ Phase2Tables[2] = <<"upEdgePermutation">>
      /\ Phase2Tables[3] = <<"downEdgePermutation">> /\ Phase2Tables[4] = <<"sliceEdgePermutation">>
      /\ Phase2Tables[5] = <<"cornerPermutation", "sliceEdgePermutation">>
      /\ Phase2Tables[6] = <<"upEdgePermutation", "sliceEdgePermutation">>
      /\ Phase2Tables[7] = <<"downEdgePermutation", "sliceEdgePermutation">>
      /\ Len(Phase2Tables) = 7 /\ DOMAIN Phase2Tables = 1..7
    BY DEF Phase2Tables, Phase2PairTables
<1>3. \A i \in 1..3 : Phase2PairTables[i] = Phase2Tables[i + 4]
    BY <1>1, <1>2
<1>4. \A i \in 1..7 : Phase2Tables[i] \in AnyTable
    BY <1>2 DEF AnyTable, Range
<1>5. \A i \in 1..3 : Phase2PairTables[i] \in AnyTable
    BY <1>3, <1>4
<1>6. \A i \in 1..7 : Phase2Tables[i] \in TablesOf(Phase2Coordinate)
    <2>1. /\ \A a \in Phase2Coordinate : <<a>> \in TablesOf(Phase2Coordinate)
          /\ \A a, b \in Phase2Coordinate : <<a, b>> \in TablesOf(Phase2Coordinate)
        BY DEF TablesOf
    <2>2. "cornerPermutation" \in Phase2Coordinate /\ "upEdgePermutation" \in Phase2Coordinate
          /\ "downEdgePermutation" \in Phase2Coordinate /\ "sliceEdgePermutation" \in Phase2Coordinate
        BY DEF Phase2Coordinate
    <2> QED BY <1>2, <2>1, <2>2
<1>7. \A table \in Range(Phase2PairTables) \cup {<<"sliceEdgePermutation">>} :
         \E i \in DOMAIN table : table[i] = "sliceEdgePermutation"
    BY <1>1 DEF Range
<1>8. ASSUME NEW table \in SearchTable PROVE table \in TablesOf(SearchCoordinate) /\ TableMoves(table) = Move
    <2>1. table \in TablesOf(SearchCoordinate)
        BY SearchTablesHave
    <2>2. \A i \in DOMAIN table : table[i] # "sliceEdgePermutation"
        BY <2>1 DEF TablesOf, SearchCoordinate
    <2> QED BY <1>7, <2>1, <2>2 DEF TableMoves
<1>9. ASSUME NEW table \in AnyTable \ SearchTable PROVE TableMoves(table) = Phase2Move
    <2>1. table \in Range(Phase2Tables) /\ \E i \in 1..7 : table = Phase2Tables[i]
        BY <1>2, <1>9 DEF AnyTable, Range
    <2>2. BaseTables[4] = <<"cornerPermutation">> /\ BaseTables[5] = <<"upEdgePermutation">>
          /\ BaseTables[6] = <<"downEdgePermutation">> /\ DOMAIN BaseTables = 1..9
        BY DEF BaseTables
    <2>3. /\ <<"cornerPermutation">> \in SearchTable /\ <<"upEdgePermutation">> \in SearchTable
          /\ <<"downEdgePermutation">> \in SearchTable
        BY <2>2 DEF SearchTable, Range
    <2>4. table \in Range(Phase2PairTables) \cup {<<"sliceEdgePermutation">>}
        BY <1>1, <1>2, <1>9, <2>1, <2>3 DEF Range
    <2> QED BY <2>4 DEF TableMoves
<1>10. \A table \in AnyTable : table \in TablesOf(Coordinate)
    <2>1. ASSUME NEW table \in AnyTable PROVE table \in TablesOf(Coordinate)
        <3>1. CASE table \in SearchTable
            BY <1>8, <3>1 DEF TablesOf, SearchCoordinate
        <3>2. CASE table \in Range(Phase2Tables)
            <4>1. \E i \in 1..7 : table = Phase2Tables[i]
                BY <1>2, <3>2 DEF Range
            <4>2. Phase2Coordinate \subseteq Coordinate
                BY DEF Phase2Coordinate, Coordinate
            <4> QED BY <1>6, <4>1, <4>2 DEF TablesOf
        <3> QED BY <3>1, <3>2 DEF AnyTable
    <2> QED BY <2>1
<1> QED BY <1>1, <1>2, <1>3, <1>4, <1>5, <1>6, <1>8, <1>9, <1>10

\* What a table says of a cube is looked up at the coordinates of the cube.
TableIndex(table, c) == [i \in DOMAIN table |-> Encoded(table[i], c)]
Nought(table) == [i \in DOMAIN table |-> 0]

\* The tables are closed under the moves they are computed with (Near).
LEMMA NearIs ==
    ASSUME NEW table \in AnyTable
    PROVE  /\ Near[table][0] = {Nought(table)}
           /\ \A d \in 1..Radius :
                 Near[table][d] = Near[table][d - 1] \cup
                     {MovedIndex(table, index, move) : index \in Near[table][d - 1], move \in TableMoves(table)}
<1> DEFINE Beyond(set) == set \cup {MovedIndex(table, index, move) : index \in set, move \in TableMoves(table)}
           Fold(f, n) == [d \in 0..n |-> IF d = 0 THEN {Nought(table)} ELSE Beyond(f[d - 1])]
           Folds(f) == f = Fold(f, Radius)
           reached == CHOOSE f : Folds(f)
<1>1. Radius \in Nat
    BY RadiusAssumption
<1>2. Near[table] = reached
    <2>1. table \in SearchTable \cup Range(Phase2Tables)
        BY DEF AnyTable
    <2>2. Near[table] = Tabulated(reached)
        BY <2>1 DEF Near, Nought
    <2> HIDE DEF reached
    <2> QED BY <2>2 DEF Tabulated
<1> HIDE DEF Beyond
<1>3. \E f : Folds(f)
    <2> DEFINE Start(n) == \E f : DOMAIN f = 0..n /\ f[0] = {Nought(table)} /\ \A d \in 1..n : f[d] = Beyond(f[d - 1])
               good == {n \in 0..Radius : Start(n)}
    <2>1. 0 \in good
        <3>1. Start(0)
            <4> DEFINE f == [d \in 0..0 |-> {Nought(table)}]
            <4>1. DOMAIN f = 0..0 /\ f[0] = {Nought(table)} /\ \A d \in 1..0 : f[d] = Beyond(f[d - 1])
                OBVIOUS
            <4> QED BY <4>1
        <3> QED BY <1>1, <3>1
    <2>2. ASSUME NEW n \in 1..Radius, n - 1 \in good PROVE n \in good
        <3>1. PICK f : /\ DOMAIN f = 0..n - 1 /\ f[0] = {Nought(table)}
                       /\ \A d \in 1..n - 1 : f[d] = Beyond(f[d - 1])
            BY <2>2
        <3> DEFINE g == [d \in 0..n |-> IF d = n THEN Beyond(f[n - 1]) ELSE f[d]]
        <3>2. DOMAIN g = 0..n /\ g[0] = {Nought(table)}
            BY <1>1, <3>1
        <3>3. ASSUME NEW d \in 1..n PROVE g[d] = Beyond(g[d - 1])
            <4>1. d - 1 \in 0..n /\ d - 1 # n /\ d \in 0..n /\ g[d - 1] = f[d - 1]
                BY <1>1
            <4>2. CASE d = n
                BY <4>1, <4>2
            <4>3. CASE d # n
                <5>1. d \in 1..n - 1
                    BY <4>3
                <5> QED BY <3>1, <4>1, <4>3, <5>1
            <4> QED BY <4>2, <4>3
        <3> HIDE DEF g
        <3>4. Start(n)
            BY <3>2, <3>3
        <3> QED BY <1>1, <3>4
    <2> HIDE DEF good
    <2>3. Radius \in good
        <3>1. \A n \in 1..Radius : n - 1 \in good => n \in good
            BY <2>2
        <3>2. \A n \in 0..Radius : n \in good
            BY <1>1, <2>1, <3>1, KeptThroughout
        <3> QED BY <1>1, <3>2
    <2>4. PICK f : /\ DOMAIN f = 0..Radius /\ f[0] = {Nought(table)}
                   /\ \A d \in 1..Radius : f[d] = Beyond(f[d - 1])
        BY <2>3 DEF good
    <2> DEFINE g == [d \in 0..Radius |-> f[d]]
    <2>5. \A d \in 1..Radius : d - 1 \in 0..Radius /\ d \in 0..Radius /\ g[d - 1] = f[d - 1] /\ g[d] = f[d]
        BY <1>1
    <2>6. \A d \in 0..Radius : g[d] = Fold(g, Radius)[d]
        BY <1>1, <2>4, <2>5
    <2>7. Folds(g)
        BY <2>6
    <2> QED BY <2>7
<1>4. Folds(reached)
    <2> HIDE DEF Folds
    <2> QED BY <1>3
<1> HIDE DEF reached
<1>5. reached[0] = {Nought(table)} /\ \A d \in 1..Radius : reached[d] = Beyond(reached[d - 1])
    <2>1. \A d \in 0..Radius : reached[d] = IF d = 0 THEN {Nought(table)} ELSE Beyond(reached[d - 1])
        BY <1>4
    <2>2. 0 \in 0..Radius /\ \A d \in 1..Radius : d \in 0..Radius /\ d # 0
        BY <1>1
    <2> HIDE DEF Folds, Fold
    <2> QED BY <2>1, <2>2
<1> QED BY <1>2, <1>5 DEF Beyond

\* A move takes the index of a cube to that of the turned cube.
LEMMA IndexFollows ==
    ASSUME NEW c, ValidCube(c), NEW table \in AnyTable, NEW move \in TableMoves(table),
           table \in SearchTable \/ InItsSlice(c)
    PROVE  MovedIndex(table, TableIndex(table, c), move) = TableIndex(table, CubieTurned(c, move))
<1>1. move \in Move /\ (table \in SearchTable \/ (InItsSlice(c) /\ move \in Phase2Move))
    BY TablesHave, MovesOfTheCube
<1>2. ASSUME NEW i \in DOMAIN table
      PROVE  MovedCoordinate(table[i], Encoded(table[i], c), move) = Encoded(table[i], CubieTurned(c, move))
    <2>1. table[i] \in Coordinate
        BY TablesHave DEF TablesOf
    <2>2. table \in SearchTable => table[i] # "sliceEdgePermutation"
        BY TablesHave DEF TablesOf, SearchCoordinate
    <2> QED BY <1>1, <2>1, <2>2, CoordinateFollows
<1> QED BY <1>2 DEF MovedIndex, TableIndex

\* From n on the sets of the table hold the cube.
NearBy(table, c, n) == \A d \in n..Radius : TableIndex(table, c) \in Near[table][d]

LEMMA SolvedIsNear ==
    ASSUME NEW table \in AnyTable
    PROVE  NearBy(table, SolvedCubie, 0)
<1>1. TableIndex(table, SolvedCubie) = Nought(table)
    <2>1. \A i \in DOMAIN table : table[i] \in Coordinate
        BY TablesHave DEF TablesOf
    <2> QED BY <2>1, SolvedIsNought DEF TableIndex, Nought
<1>2. \A d \in 0..Radius : Nought(table) \in Near[table][d]
    <2> DEFINE good == {d \in 0..Radius : Nought(table) \in Near[table][d]}
    <2>1. 0 \in good
        BY NearIs, RadiusAssumption
    <2>2. ASSUME NEW d \in 1..Radius, d - 1 \in good PROVE d \in good
        BY <2>2, NearIs
    <2> HIDE DEF good
    <2>3. \A d \in 1..Radius : d - 1 \in good => d \in good
        BY <2>2
    <2>4. \A d \in 0..Radius : d \in good
        BY <2>1, <2>3, RadiusAssumption, KeptThroughout
    <2> QED BY <2>4 DEF good
<1> QED BY <1>1, <1>2 DEF NearBy

LEMMA TurnedIsNear ==
    ASSUME NEW c, ValidCube(c), NEW table \in AnyTable, NEW move \in TableMoves(table),
           table \in SearchTable \/ InItsSlice(c), NEW n \in Nat, NearBy(table, c, n)
    PROVE  NearBy(table, CubieTurned(c, move), n + 1)
<1>1. SUFFICES ASSUME NEW d \in n + 1..Radius PROVE TableIndex(table, CubieTurned(c, move)) \in Near[table][d]
    BY DEF NearBy
<1>2. d - 1 \in n..Radius /\ d \in 1..Radius
    BY RadiusAssumption
<1>3. TableIndex(table, c) \in Near[table][d - 1]
    BY <1>2 DEF NearBy
<1>4. MovedIndex(table, TableIndex(table, c), move) \in Near[table][d]
    BY <1>2, <1>3, NearIs
<1> QED BY <1>4, IndexFollows

\* A node has the coordinates of a cube.
LooksLike(node, names, c) == \A name \in names : node[name] = Encoded(name, c)

\* The sets of the table that leave the cube out: their number is the entry.
Without(table, c) == {d \in 0..Radius : TableIndex(table, c) \notin Near[table][d]}

LEMMA LookedIs ==
    ASSUME NEW table, NEW node
    PROVE  Looked(table, node) \in 0..NoLimit
<1> DEFINE index == [i \in DOMAIN table |-> node[table[i]]]
           sets == {d \in 0..Radius : index \notin Near[table][d]}
<1>1. Looked(table, node) = Cardinality(sets)
    BY DEF Looked
<1>2. IsFiniteSet(0..Radius) /\ Cardinality(0..Radius) = Radius + 1 /\ sets \subseteq 0..Radius
    BY FS_Interval, RadiusAssumption
<1> HIDE DEF sets
<1>3. IsFiniteSet(sets) /\ Cardinality(sets) <= Radius + 1 /\ Cardinality(sets) \in Nat
    BY <1>2, FS_Subset, FS_CardinalityType
<1> QED BY <1>1, <1>3, RadiusAssumption DEF NoLimit

LEMMA LookedAt ==
    ASSUME NEW names, NEW table \in TablesOf(names), NEW node, NEW c, LooksLike(node, names, c)
    PROVE  Looked(table, node) = Cardinality(Without(table, c))
<1>1. \A i \in DOMAIN table : node[table[i]] = Encoded(table[i], c)
    BY DEF TablesOf, LooksLike
<1>2. [i \in DOMAIN table |-> node[table[i]]] = TableIndex(table, c)
    BY <1>1 DEF TableIndex
<1> QED BY <1>2 DEF Looked, Without

LEMMA WithoutIsFinite ==
    ASSUME NEW table, NEW c
    PROVE  IsFiniteSet(Without(table, c)) /\ Cardinality(Without(table, c)) \in Nat
<1>1. IsFiniteSet(0..Radius)
    BY FS_Interval, RadiusAssumption
<1>2. Without(table, c) \subseteq 0..Radius
    BY DEF Without
<1> QED BY <1>1, <1>2, FS_Subset, FS_CardinalityType

\* An entry is no more than the moves the cube is away.
LEMMA LookedNear ==
    ASSUME NEW names, NEW table \in TablesOf(names), NEW node, NEW c, LooksLike(node, names, c),
           NEW n \in Nat, NearBy(table, c, n)
    PROVE  Looked(table, node) <= n
<1>1. Without(table, c) \subseteq 0..n - 1
    BY RadiusAssumption DEF Without, NearBy
<1>2. IsFiniteSet(0..n - 1) /\ Cardinality(0..n - 1) = n
    BY FS_Interval
<1>3. Cardinality(Without(table, c)) <= n
    BY <1>1, <1>2, FS_Subset
<1> QED BY <1>3, LookedAt

\* One move takes one at most from an entry.
LEMMA LookedOneLess ==
    ASSUME NEW c, ValidCube(c), NEW table \in AnyTable, NEW move \in TableMoves(table),
           table \in SearchTable \/ InItsSlice(c),
           NEW names, table \in TablesOf(names), NEW a, NEW b,
           LooksLike(a, names, c), LooksLike(b, names, CubieTurned(c, move))
    PROVE  Looked(table, a) <= Looked(table, b) + 1
<1> DEFINE u == CubieTurned(c, move)
           before == Without(table, c)
           after == Without(table, u)
<1>1. move \in Move /\ Inverted(move) \in TableMoves(table) /\ (table \notin SearchTable => move \in Phase2Move)
    BY TablesHave, MovesOfTheCube
<1>2. ValidCube(u) /\ (table \in SearchTable \/ InItsSlice(u)) /\ CubieTurned(u, Inverted(move)) = c
    BY <1>1, TurnedIsValid, SliceIsKept, TurnedBack DEF ValidCube
<1> HIDE DEF u
<1>3. MovedIndex(table, TableIndex(table, u), Inverted(move)) = TableIndex(table, c)
    BY <1>1, <1>2, IndexFollows
<1>4. ASSUME NEW d \in before, d # 0 PROVE d - 1 \in after
    <2>1. d \in 1..Radius /\ d - 1 \in 0..Radius /\ TableIndex(table, c) \notin Near[table][d]
        BY <1>4, RadiusAssumption DEF Without
    <2>2. TableIndex(table, u) \notin Near[table][d - 1]
        BY <1>1, <1>3, <2>1, NearIs
    <2> QED BY <2>1, <2>2 DEF Without
<1> DEFINE later == {e + 1 : e \in after}
<1>5. before \subseteq later \cup {0}
    <2>1. ASSUME NEW d \in before, d # 0 PROVE d \in later
        <3>1. d \in Nat
            BY RadiusAssumption DEF Without
        <3>2. d - 1 \in after /\ d = (d - 1) + 1
            BY <1>4, <2>1, <3>1
        <3> QED BY <3>2
    <2> QED BY <2>1
<1>6. IsFiniteSet(after) /\ Cardinality(after) \in Nat /\ IsFiniteSet(before) /\ Cardinality(before) \in Nat
    BY WithoutIsFinite
<1>7. IsFiniteSet(later) /\ Cardinality(later) <= Cardinality(after)
    <2> DEFINE f == [e \in after |-> e + 1]
    <2>1. f \in Surjection(after, later)
        BY DEF Surjection
    <2> HIDE DEF f, later, after
    <2> QED BY <1>6, <2>1, FS_Surjection
<1> HIDE DEF before, after, later
<1>8. IsFiniteSet(later \cup {0}) /\ Cardinality(later \cup {0}) <= Cardinality(later) + 1
    <2>1. IsFiniteSet(later) /\ Cardinality(later) \in Nat
        BY <1>7, FS_CardinalityType
    <2>2. /\ IsFiniteSet(later \cup {0})
          /\ Cardinality(later \cup {0}) = IF 0 \in later THEN Cardinality(later) ELSE Cardinality(later) + 1
        BY <2>1, FS_AddElement
    <2> QED BY <2>1, <2>2
<1>9. Cardinality(before) <= Cardinality(after) + 1
    <2>1. Cardinality(before) <= Cardinality(later \cup {0}) /\ Cardinality(later \cup {0}) \in Nat
          /\ Cardinality(later) \in Nat
        BY <1>5, <1>7, <1>8, FS_Subset, FS_CardinalityType
    <2> QED BY <1>6, <1>7, <1>8, <2>1
<1>10. Looked(table, a) = Cardinality(before) /\ Looked(table, b) = Cardinality(after)
    BY LookedAt DEF before, after, u
<1> QED BY <1>9, <1>10

-----------------------------------------------------------------------------
(* The bounds taken from several lookups (solver.cpp, phase1.cpp, phase2.cpp). *)

Values(v) == v \in Seq(0..NoLimit)
AllWithin(v, n) == \A i \in 1..Len(v) : v[i] <= n
OneLess(v, w) == Len(v) = Len(w) /\ \A i \in 1..Len(v) : v[i] <= w[i] + 1

LEMMA ValuesAre ==
    ASSUME NEW v, Values(v)
    PROVE  Len(v) \in Nat /\ \A i \in 1..Len(v) : v[i] \in 0..NoLimit /\ v[i] \in Nat
<1>1. \A S : v \in Seq(S) => Len(v) \in Nat /\ \A i \in 1..Len(v) : v[i] \in S
    OBVIOUS
<1>2. v \in Seq(0..NoLimit)
    BY DEF Values
<1>3. Len(v) \in Nat /\ \A i \in 1..Len(v) : v[i] \in 0..NoLimit
    <2> DEFINE interval == 0..NoLimit
    <2>1. v \in Seq(interval)
        BY <1>2
    <2> HIDE DEF interval
    <2>2. Len(v) \in Nat /\ \A i \in 1..Len(v) : v[i] \in interval
        BY <1>1, <2>1
    <2> QED BY <2>2 DEF interval
<1> QED BY <1>3, RadiusAssumption DEF NoLimit

\* The bound is one of the values or nought; without a limit it is the largest.
LEMMA LargestIs ==
    ASSUME NEW v, Values(v), NEW pruneAbove \in Nat
    PROVE  /\ EarlyReturn(v, pruneAbove) \in 0..NoLimit
           /\ \A n \in Nat : AllWithin(v, n) => EarlyReturn(v, pruneAbove) <= n
           /\ AllWithin(v, pruneAbove) => AllWithin(v, EarlyReturn(v, pruneAbove))
<1>1. NoLimit \in Nat
    BY RadiusAssumption DEF NoLimit
<1>2. Len(v) \in Nat /\ \A i \in 1..Len(v) : v[i] \in 0..NoLimit /\ v[i] \in Nat
    BY ValuesAre
<1> DEFINE bound == EarlyReturn(v, pruneAbove)
<1>3. /\ bound \in Nat
      /\ bound = 0 \/ \E i \in 1..Len(v) : bound = v[i]
      /\ (\A i \in 1..Len(v) : v[i] <= pruneAbove) => \A i \in 1..Len(v) : v[i] <= bound
    BY <1>1, <1>2, EarlyReturnIs
<1> HIDE DEF bound
<1>4. bound \in 0..NoLimit
    BY <1>1, <1>2, <1>3
<1>5. ASSUME NEW n \in Nat, AllWithin(v, n) PROVE bound <= n
    BY <1>2, <1>3, <1>5 DEF AllWithin
<1>6. AllWithin(v, pruneAbove) => AllWithin(v, bound)
    BY <1>3 DEF AllWithin
<1> QED BY <1>4, <1>5, <1>6 DEF bound

LEMMA NoLimitIsNone ==
    ASSUME NEW v, Values(v)
    PROVE  AllWithin(v, NoLimit) /\ AllWithin(v, EarlyReturn(v, NoLimit))
<1>1. NoLimit \in Nat
    BY RadiusAssumption DEF NoLimit
<1>2. AllWithin(v, NoLimit)
    BY <1>1 DEF AllWithin, Values
<1> QED BY <1>1, <1>2, LargestIs

LEMMA LargestOneLess ==
    ASSUME NEW v, Values(v), NEW w, Values(w), OneLess(v, w)
    PROVE  EarlyReturn(v, NoLimit) <= EarlyReturn(w, NoLimit) + 1
<1> DEFINE b == EarlyReturn(w, NoLimit)
<1>1. NoLimit \in Nat /\ b \in Nat /\ AllWithin(w, b)
    <2>1. NoLimit \in Nat
        BY RadiusAssumption DEF NoLimit
    <2> QED BY <2>1, LargestIs, NoLimitIsNone
<1>2. \A i \in 1..Len(v) : v[i] \in Nat /\ w[i] \in Nat
    BY <1>1 DEF Values, OneLess
<1> HIDE DEF b
<1>3. AllWithin(v, b + 1)
    <2>1. ASSUME NEW i \in 1..Len(v) PROVE v[i] <= b + 1
        <3>1. v[i] <= w[i] + 1 /\ w[i] <= b /\ v[i] \in Nat /\ w[i] \in Nat
            BY <1>1, <1>2 DEF OneLess, AllWithin
        <3> QED BY <1>1, <3>1
    <2> QED BY <2>1 DEF AllWithin
<1>4. b + 1 \in Nat
    BY <1>1
<1> QED BY <1>1, <1>3, <1>4, LargestIs DEF b

LEMMA LookupsAre ==
    ASSUME NEW names, NEW tables \in Seq(names), NEW node
    PROVE  /\ Values(Lookups(tables, node))
           /\ Len(Lookups(tables, node)) = Len(tables)
           /\ \A i \in 1..Len(tables) : Lookups(tables, node)[i] = Looked(tables[i], node) /\ tables[i] \in names
<1>1. /\ Lookups(tables, node) = [i \in 1..Len(tables) |-> Looked(tables[i], node)]
      /\ Len(tables) \in Nat /\ \A i \in 1..Len(tables) : tables[i] \in names
    BY DEF Lookups
<1>2. \A i \in 1..Len(tables) : Looked(tables[i], node) \in 0..NoLimit
    BY LookedIs
<1> QED BY <1>1, <1>2 DEF Values

\* The first value comes from another bound.
LEMMA JoinedAre ==
    ASSUME NEW b \in 0..NoLimit, NEW v, Values(v)
    PROVE  /\ Values(<<b>> \o v)
           /\ \A n : AllWithin(<<b>> \o v, n) <=> b <= n /\ AllWithin(v, n)
<1> DEFINE both == <<b>> \o v
<1>1. Values(both)
    BY DEF Values
<1>2. /\ Len(v) \in Nat /\ Len(both) = Len(v) + 1 /\ both[1] = b
      /\ \A i \in 1..Len(v) : both[i + 1] = v[i]
    BY DEF Values
<1> HIDE DEF both
<1>3. ASSUME NEW n PROVE AllWithin(both, n) <=> b <= n /\ AllWithin(v, n)
    <2>1. ASSUME AllWithin(both, n) PROVE b <= n /\ AllWithin(v, n)
        <3>1. 1 \in 1..Len(both) /\ \A i \in 1..Len(v) : i + 1 \in 1..Len(both)
            BY <1>2
        <3> QED BY <1>2, <2>1, <3>1 DEF AllWithin
    <2>2. ASSUME b <= n, AllWithin(v, n) PROVE AllWithin(both, n)
        <3>1. ASSUME NEW i \in 1..Len(both) PROVE both[i] <= n
            <4>1. i = 1 \/ (i - 1 \in 1..Len(v) /\ i = (i - 1) + 1)
                BY <1>2
            <4> QED BY <1>2, <2>2, <4>1 DEF AllWithin
        <3> QED BY <3>1 DEF AllWithin
    <2> QED BY <2>1, <2>2
<1> QED BY <1>1, <1>3 DEF both

LEMMA JoinedOneLess ==
    ASSUME NEW b \in 0..NoLimit, NEW e \in 0..NoLimit, b <= e + 1,
           NEW v, Values(v), NEW w, Values(w), OneLess(v, w)
    PROVE  OneLess(<<b>> \o v, <<e>> \o w)
<1> DEFINE v1 == <<b>> \o v
           w1 == <<e>> \o w
<1>1. /\ Len(v) \in Nat /\ Len(v1) = Len(v) + 1 /\ v1[1] = b
      /\ \A i \in 1..Len(v) : v1[i + 1] = v[i]
    BY DEF Values
<1>2. /\ Len(w) \in Nat /\ Len(w1) = Len(w) + 1 /\ w1[1] = e
      /\ \A i \in 1..Len(w) : w1[i + 1] = w[i]
    BY DEF Values
<1> HIDE DEF v1, w1
<1>3. ASSUME NEW i \in 1..Len(v1) PROVE v1[i] <= w1[i] + 1
    <2>1. i = 1 \/ (i - 1 \in 1..Len(v) /\ i = (i - 1) + 1)
        BY <1>1
    <2>2. CASE i = 1
        BY <1>1, <1>2, <2>2
    <2>3. CASE i - 1 \in 1..Len(v) /\ i = (i - 1) + 1
        <3>1. v1[i] = v[i - 1] /\ w1[i] = w[i - 1] /\ v[i - 1] <= w[i - 1] + 1
            BY <1>1, <1>2, <2>3 DEF OneLess
        <3> QED BY <3>1
    <2> QED BY <2>1, <2>2, <2>3
<1>4. OneLess(v1, w1)
    BY <1>1, <1>2, <1>3 DEF OneLess
<1> QED BY <1>4 DEF v1, w1

\* The cube is at most n moves from the solved one as far as the tables tell; so it is seen along
\* every axis.
Within(c, n) == \A table \in SearchTable : NearBy(table, c, n)
WithinEverywhere(c, n) == Within(c, n) /\ \A d \in 1..2 : Within(CubieRotated(c, DirectionSymmetry[d]), n)

LEMMA SolvedIsWithin == WithinEverywhere(SolvedCubie, 0)
<1>1. Within(SolvedCubie, 0)
    BY SolvedIsNear DEF Within, AnyTable
<1>2. \A d \in 1..2 : CubieRotated(SolvedCubie, DirectionSymmetry[d]) = SolvedCubie
    BY DirectionMoves DEF Direction
<1> QED BY <1>1, <1>2 DEF WithinEverywhere

LEMMA TurnedIsWithin ==
    ASSUME NEW c, ValidCube(c), NEW move \in Move, NEW n \in Nat, WithinEverywhere(c, n)
    PROVE  WithinEverywhere(CubieTurned(c, move), n + 1)
<1>1. \A e, m : ValidCube(e) /\ m \in Move /\ Within(e, n) => Within(CubieTurned(e, m), n + 1)
    <2>1. SUFFICES ASSUME NEW e, NEW m, ValidCube(e), m \in Move, Within(e, n), NEW table \in SearchTable
                   PROVE  NearBy(table, CubieTurned(e, m), n + 1)
        BY DEF Within
    <2>2. table \in AnyTable /\ m \in TableMoves(table) /\ NearBy(table, e, n)
        BY <2>1, TablesHave DEF AnyTable, Within
    <2> QED BY <2>1, <2>2, TurnedIsNear
<1>2. ASSUME NEW d \in 1..2 PROVE Within(CubieRotated(CubieTurned(c, move), DirectionSymmetry[d]), n + 1)
    <2> DEFINE r == CubieRotated(c, DirectionSymmetry[d])
    <2>1. ValidCube(r) /\ DirectionMove[d][move] \in Move /\ Within(r, n)
        BY DirectionIsValid, DirectionMoves DEF WithinEverywhere
    <2>2. CubieRotated(CubieTurned(c, move), DirectionSymmetry[d]) = CubieTurned(r, DirectionMove[d][move])
        BY RotatedTurned
    <2> QED BY <1>1, <2>1, <2>2
<1> QED BY <1>1, <1>2 DEF WithinEverywhere

LEMMA Phase1TablesAre ==
    /\ Len(Phase1Tables) = 5
    /\ \A i \in 1..5 : Phase1Tables[i] \in TablesOf(Phase1Coordinate) /\ Phase1Tables[i] \in SearchTable
<1>1. /\ Phase1Tables[1] = BaseTables[1] /\ Phase1Tables[2] = BaseTables[2] /\ Phase1Tables[3] = BaseTables[3]
      /\ Phase1Tables[4] = BaseTables[7] /\ Phase1Tables[5] = BaseTables[8] /\ DOMAIN BaseTables = 1..9
    BY DEF Phase1Tables, BaseTables
<1>2. \A i \in 1..9 : BaseTables[i] \in SearchTable
    BY <1>1 DEF SearchTable, Range
<1>3. \A i \in 1..5 : Phase1Tables[i] \in SearchTable
    BY <1>1, <1>2
<1>4. \A i \in 1..5 : Phase1Tables[i] \in TablesOf(Phase1Coordinate)
    <2>1. \A S : \A s \in Seq(S) : \A i \in 1..Len(s) : s[i] \in S
        OBVIOUS
    <2> QED BY <2>1, SearchTablesHave
<1> QED BY <1>3, <1>4, SearchTablesHave

\* The bound of the coordinates of the first phase.
LEMMA Phase1BoundIs ==
    ASSUME NEW coordinates, NEW c, LooksLike(coordinates, Phase1Coordinate, c), NEW pruneAbove \in Nat
    PROVE  /\ Phase1CoordinateLowerBound(coordinates, pruneAbove) \in 0..NoLimit
           /\ \A n \in Nat : Within(c, n) => Phase1CoordinateLowerBound(coordinates, pruneAbove) <= n
<1> DEFINE v == Lookups(Phase1Tables, coordinates)
<1>1. /\ Values(v) /\ Len(v) = 5
      /\ \A i \in 1..5 : v[i] = Looked(Phase1Tables[i], coordinates)
    BY SearchTablesHave, LookupsAre
<1>2. ASSUME NEW n \in Nat, Within(c, n) PROVE AllWithin(v, n)
    <2>1. \A i \in 1..5 : Looked(Phase1Tables[i], coordinates) <= n
        BY <1>2, Phase1TablesAre, LookedNear DEF Within
    <2> QED BY <1>1, <2>1 DEF AllWithin
<1>3. Phase1CoordinateLowerBound(coordinates, pruneAbove) = EarlyReturn(v, pruneAbove)
    BY DEF Phase1CoordinateLowerBound
<1> HIDE DEF v
<1> QED BY <1>1, <1>2, <1>3, LargestIs

LEMMA Phase1OneLess ==
    ASSUME NEW c, ValidCube(c), NEW move \in Move, NEW a, NEW b,
           LooksLike(a, Phase1Coordinate, c), LooksLike(b, Phase1Coordinate, CubieTurned(c, move))
    PROVE  Phase1CoordinateLowerBound(a, NoLimit) <= Phase1CoordinateLowerBound(b, NoLimit) + 1
<1> DEFINE v == Lookups(Phase1Tables, a)
           w == Lookups(Phase1Tables, b)
<1>1. Values(v) /\ Len(v) = 5 /\ \A i \in 1..5 : v[i] = Looked(Phase1Tables[i], a)
    BY SearchTablesHave, LookupsAre
<1>2. Values(w) /\ Len(w) = 5 /\ \A i \in 1..5 : w[i] = Looked(Phase1Tables[i], b)
    BY SearchTablesHave, LookupsAre
<1>3. ASSUME NEW i \in 1..5 PROVE Looked(Phase1Tables[i], a) <= Looked(Phase1Tables[i], b) + 1
    <2>1. /\ Phase1Tables[i] \in SearchTable /\ Phase1Tables[i] \in AnyTable
          /\ Phase1Tables[i] \in TablesOf(Phase1Coordinate) /\ move \in TableMoves(Phase1Tables[i])
        BY Phase1TablesAre, TablesHave DEF AnyTable
    <2> QED BY <2>1, LookedOneLess
<1>4. OneLess(v, w)
    <2> HIDE DEF v, w
    <2> QED BY <1>1, <1>2, <1>3 DEF OneLess
<1>5. /\ Phase1CoordinateLowerBound(a, NoLimit) = EarlyReturn(v, NoLimit)
      /\ Phase1CoordinateLowerBound(b, NoLimit) = EarlyReturn(w, NoLimit)
    BY DEF Phase1CoordinateLowerBound
<1> HIDE DEF v, w
<1> QED BY <1>1, <1>2, <1>4, <1>5, LargestOneLess

LEMMA NodeLooks ==
    ASSUME NEW c
    PROVE  /\ LooksLike(MakeSearchNode(c), SearchCoordinate, c)
           /\ LooksLike(MakeSearchNode(c), Phase1Coordinate, c)
           /\ \A d \in 1..2 :
                 LooksLike(MakeSearchNode(c).extra[d], Phase1Coordinate, CubieRotated(c, DirectionSymmetry[d]))
<1>1. Phase1Coordinate \subseteq SearchCoordinate
    BY DEF Phase1Coordinate, SearchCoordinate, Coordinate
<1> QED BY <1>1, NodeHas DEF LooksLike

\* The bound of all three directions.
DirectionBounds(c, pruneAbove) ==
    [d \in 1..2 |-> Phase1CoordinateLowerBound(MakeSearchNode(c).extra[d], pruneAbove)]

LEMMA DirectionBoundsAre ==
    ASSUME NEW c, NEW pruneAbove \in Nat
    PROVE  /\ Values(DirectionBounds(c, pruneAbove)) /\ Len(DirectionBounds(c, pruneAbove)) = 2
           /\ \A n \in Nat : WithinEverywhere(c, n) => AllWithin(DirectionBounds(c, pruneAbove), n)
<1> DEFINE v == DirectionBounds(c, pruneAbove)
           b(d) == Phase1CoordinateLowerBound(MakeSearchNode(c).extra[d], pruneAbove)
<1>1. \A d \in 1..2 : v[d] = b(d)
    BY DEF DirectionBounds
<1>2. \A d \in 1..2 : b(d) \in 0..NoLimit
    BY NodeLooks, Phase1BoundIs
<1>3. \A n \in Nat : WithinEverywhere(c, n) => \A d \in 1..2 : b(d) <= n
    BY NodeLooks, Phase1BoundIs DEF WithinEverywhere
<1>4. v = [d \in 1..2 |-> b(d)]
    BY DEF DirectionBounds
<1> HIDE DEF b
<1>5. Values(v) /\ Len(v) = 2
    BY <1>2, <1>4 DEF Values
<1> QED BY <1>1, <1>3, <1>5 DEF AllWithin

LEMMA ThreePhase1Is ==
    ASSUME NEW c, NEW pruneAbove \in Nat
    PROVE  /\ NodeThreePhase1LowerBound(MakeSearchNode(c), pruneAbove) \in 0..NoLimit
           /\ \A n \in Nat : WithinEverywhere(c, n) =>
                  NodeThreePhase1LowerBound(MakeSearchNode(c), pruneAbove) <= n
<1>1. NodeThreePhase1LowerBound(MakeSearchNode(c), pruneAbove)
          = EarlyReturn(DirectionBounds(c, pruneAbove), pruneAbove)
    BY DEF NodeThreePhase1LowerBound, DirectionBounds
<1> QED BY <1>1, DirectionBoundsAre, LargestIs

LEMMA ThreePhase1OneLess ==
    ASSUME NEW c, ValidCube(c), NEW move \in Move
    PROVE  NodeThreePhase1LowerBound(MakeSearchNode(c), NoLimit)
               <= NodeThreePhase1LowerBound(MakeSearchNode(CubieTurned(c, move)), NoLimit) + 1
<1> DEFINE u == CubieTurned(c, move)
           v == DirectionBounds(c, NoLimit)
           w == DirectionBounds(u, NoLimit)
<1>0. NoLimit \in Nat
    BY RadiusAssumption DEF NoLimit
<1>1. Values(v) /\ Values(w) /\ Len(v) = 2 /\ Len(w) = 2
    BY <1>0, DirectionBoundsAre
<1>2. ASSUME NEW d \in 1..2 PROVE v[d] <= w[d] + 1
    <2> DEFINE r == CubieRotated(c, DirectionSymmetry[d])
    <2>1. ValidCube(r) /\ DirectionMove[d][move] \in Move
        BY DirectionIsValid, DirectionMoves
    <2>2. CubieRotated(u, DirectionSymmetry[d]) = CubieTurned(r, DirectionMove[d][move])
        BY RotatedTurned
    <2>3. /\ LooksLike(MakeSearchNode(c).extra[d], Phase1Coordinate, r)
          /\ LooksLike(MakeSearchNode(u).extra[d], Phase1Coordinate, CubieTurned(r, DirectionMove[d][move]))
        BY <2>2, NodeLooks
    <2>4. Phase1CoordinateLowerBound(MakeSearchNode(c).extra[d], NoLimit)
              <= Phase1CoordinateLowerBound(MakeSearchNode(u).extra[d], NoLimit) + 1
        <3> HIDE DEF r, u
        <3> QED BY <2>1, <2>3, Phase1OneLess
    <2> QED BY <2>4 DEF DirectionBounds
<1>3. /\ NodeThreePhase1LowerBound(MakeSearchNode(c), NoLimit) = EarlyReturn(v, NoLimit)
      /\ NodeThreePhase1LowerBound(MakeSearchNode(u), NoLimit) = EarlyReturn(w, NoLimit)
    BY DEF NodeThreePhase1LowerBound, DirectionBounds
<1> HIDE DEF v, w
<1>4. OneLess(v, w)
    BY <1>1, <1>2 DEF OneLess
<1> QED BY <1>1, <1>3, <1>4, LargestOneLess

\* The lookups of one direction: those of every profile, then those it adds.
LEMMA OneDirectionIs ==
    ASSUME NEW c, NEW profile \in Profile, NEW pruneAbove \in Nat
    PROVE  /\ NodeLowerBoundWithoutThreePhase1(MakeSearchNode(c), profile, pruneAbove) \in 0..NoLimit
           /\ \A n \in Nat : Within(c, n) =>
                  NodeLowerBoundWithoutThreePhase1(MakeSearchNode(c), profile, pruneAbove) <= n
<1> DEFINE node == MakeSearchNode(c)
           base == NodeBaseLowerBound(node, pruneAbove)
           v == Lookups(BaseTables, node)
           w == Lookups(ProfileTables(profile), node)
<1>1. /\ BaseTables \in Seq(TablesOf(SearchCoordinate)) /\ ProfileTables(profile) \in Seq(TablesOf(SearchCoordinate))
      /\ \A i \in 1..Len(BaseTables) : BaseTables[i] \in SearchTable
      /\ \A i \in 1..Len(ProfileTables(profile)) : ProfileTables(profile)[i] \in SearchTable
    <2>1. \A S : \A s \in Seq(S) : \A i \in 1..Len(s) : s[i] \in Range(s)
        BY DEF Range
    <2>2. BaseTables \in Seq(TablesOf(SearchCoordinate)) /\ ProfileTables(profile) \in Seq(TablesOf(SearchCoordinate))
        BY SearchTablesHave
    <2> QED BY <2>1, <2>2 DEF SearchTable
<1>2. /\ Values(v) /\ Len(v) = Len(BaseTables)
      /\ \A i \in 1..Len(BaseTables) : v[i] = Looked(BaseTables[i], node) /\ BaseTables[i] \in TablesOf(SearchCoordinate)
    BY <1>1, LookupsAre
<1>3. /\ Values(w) /\ Len(w) = Len(ProfileTables(profile))
      /\ \A i \in 1..Len(ProfileTables(profile)) : /\ w[i] = Looked(ProfileTables(profile)[i], node)
                                                   /\ ProfileTables(profile)[i] \in TablesOf(SearchCoordinate)
    BY <1>1, LookupsAre
<1>4. \A n \in Nat : Within(c, n) => \A table \in SearchTable \cap TablesOf(SearchCoordinate) : Looked(table, node) <= n
    BY NodeLooks, LookedNear DEF Within
<1>5. base = EarlyReturn(v, pruneAbove)
    BY DEF NodeBaseLowerBound
<1>6. NodeLowerBoundWithoutThreePhase1(node, profile, pruneAbove) = EarlyReturn(<<base>> \o w, pruneAbove)
    BY DEF NodeLowerBoundWithoutThreePhase1
<1> HIDE DEF node, v, w, base
<1>7. \A n \in Nat : Within(c, n) => AllWithin(v, n) /\ AllWithin(w, n)
    <2> SUFFICES ASSUME NEW n \in Nat, Within(c, n) PROVE AllWithin(v, n) /\ AllWithin(w, n)
        OBVIOUS
    <2>1. AllWithin(v, n)
        BY <1>1, <1>2, <1>4 DEF AllWithin
    <2>2. AllWithin(w, n)
        BY <1>1, <1>3, <1>4 DEF AllWithin
    <2> QED BY <2>1, <2>2
<1>8. base \in 0..NoLimit /\ \A n \in Nat : Within(c, n) => base <= n
    BY <1>2, <1>5, <1>7, LargestIs
<1>9. Values(<<base>> \o w) /\ \A n \in Nat : Within(c, n) => AllWithin(<<base>> \o w, n)
    BY <1>3, <1>7, <1>8, JoinedAre
<1>10. /\ NodeLowerBoundWithoutThreePhase1(node, profile, pruneAbove) \in 0..NoLimit
       /\ \A n \in Nat : Within(c, n) => NodeLowerBoundWithoutThreePhase1(node, profile, pruneAbove) <= n
    BY <1>6, <1>9, LargestIs
<1> QED BY <1>10 DEF node

LEMMA OneDirectionOneLess ==
    ASSUME NEW c, ValidCube(c), NEW profile \in Profile, NEW move \in Move
    PROVE  NodeLowerBoundWithoutThreePhase1(MakeSearchNode(c), profile, NoLimit)
               <= NodeLowerBoundWithoutThreePhase1(MakeSearchNode(CubieTurned(c, move)), profile, NoLimit) + 1
<1> DEFINE a == MakeSearchNode(c)
           b == MakeSearchNode(CubieTurned(c, move))
           tables == ProfileTables(profile)
           baseA == NodeBaseLowerBound(a, NoLimit)
           baseB == NodeBaseLowerBound(b, NoLimit)
<1>0. NoLimit \in Nat
    BY RadiusAssumption DEF NoLimit
<1>1. /\ BaseTables \in Seq(TablesOf(SearchCoordinate)) /\ tables \in Seq(TablesOf(SearchCoordinate))
      /\ \A i \in 1..Len(BaseTables) : BaseTables[i] \in SearchTable
      /\ \A i \in 1..Len(tables) : tables[i] \in SearchTable
    <2>1. \A S : \A s \in Seq(S) : \A i \in 1..Len(s) : s[i] \in Range(s)
        BY DEF Range
    <2>2. BaseTables \in Seq(TablesOf(SearchCoordinate)) /\ tables \in Seq(TablesOf(SearchCoordinate))
        BY SearchTablesHave
    <2> QED BY <2>1, <2>2 DEF SearchTable
<1>2. \A table \in SearchTable : Looked(table, a) <= Looked(table, b) + 1
    <2>1. SUFFICES ASSUME NEW table \in SearchTable PROVE Looked(table, a) <= Looked(table, b) + 1
        OBVIOUS
    <2>2. table \in AnyTable /\ move \in TableMoves(table) /\ table \in TablesOf(SearchCoordinate)
        BY TablesHave DEF AnyTable
    <2>3. LooksLike(a, SearchCoordinate, c) /\ LooksLike(b, SearchCoordinate, CubieTurned(c, move))
        BY NodeLooks
    <2> HIDE DEF a, b
    <2> QED BY <2>2, <2>3, LookedOneLess
<1>3. baseA = EarlyReturn(Lookups(BaseTables, a), NoLimit) /\ baseB = EarlyReturn(Lookups(BaseTables, b), NoLimit)
    BY DEF NodeBaseLowerBound
<1>4. /\ NodeLowerBoundWithoutThreePhase1(a, profile, NoLimit) = EarlyReturn(<<baseA>> \o Lookups(tables, a), NoLimit)
      /\ NodeLowerBoundWithoutThreePhase1(b, profile, NoLimit) = EarlyReturn(<<baseB>> \o Lookups(tables, b), NoLimit)
    BY DEF NodeLowerBoundWithoutThreePhase1
<1> HIDE DEF a, b, baseA, baseB, tables
<1>5. \A s \in Seq(TablesOf(SearchCoordinate)) :
         (\A i \in 1..Len(s) : s[i] \in SearchTable) =>
             Values(Lookups(s, a)) /\ Values(Lookups(s, b)) /\ OneLess(Lookups(s, a), Lookups(s, b))
    <2>1. SUFFICES ASSUME NEW s \in Seq(TablesOf(SearchCoordinate)), \A i \in 1..Len(s) : s[i] \in SearchTable
                   PROVE  Values(Lookups(s, a)) /\ Values(Lookups(s, b)) /\ OneLess(Lookups(s, a), Lookups(s, b))
        OBVIOUS
    <2>2. Values(Lookups(s, a)) /\ Len(Lookups(s, a)) = Len(s) /\ \A i \in 1..Len(s) : Lookups(s, a)[i] = Looked(s[i], a)
        BY LookupsAre
    <2>3. Values(Lookups(s, b)) /\ Len(Lookups(s, b)) = Len(s) /\ \A i \in 1..Len(s) : Lookups(s, b)[i] = Looked(s[i], b)
        BY LookupsAre
    <2> QED BY <1>2, <2>1, <2>2, <2>3 DEF OneLess
<1>6. baseA \in 0..NoLimit /\ baseB \in 0..NoLimit /\ baseA <= baseB + 1
    BY <1>0, <1>1, <1>3, <1>5, LargestIs, LargestOneLess
<1>7. /\ Values(<<baseA>> \o Lookups(tables, a)) /\ Values(<<baseB>> \o Lookups(tables, b))
      /\ OneLess(<<baseA>> \o Lookups(tables, a), <<baseB>> \o Lookups(tables, b))
    BY <1>1, <1>5, <1>6, JoinedAre, JoinedOneLess
<1>8. EarlyReturn(<<baseA>> \o Lookups(tables, a), NoLimit)
          <= EarlyReturn(<<baseB>> \o Lookups(tables, b), NoLimit) + 1
    BY <1>7, LargestOneLess
<1>9. NodeLowerBoundWithoutThreePhase1(a, profile, NoLimit)
          <= NodeLowerBoundWithoutThreePhase1(b, profile, NoLimit) + 1
    BY <1>4, <1>8
<1> QED BY <1>9 DEF a, b

\* No bound of a node is above the moves its cube is away, nor does a test prune it that has them left.
LEMMA BoundsAreBelow ==
    ASSUME NEW c, NEW n \in Nat, WithinEverywhere(c, n)
    PROVE  /\ \A profile \in Profile :
                 /\ NodeLowerBound(MakeSearchNode(c), profile) <= n
                 /\ \A pruneAbove \in n..Radius : ~Pruned(MakeSearchNode(c), profile, pruneAbove)
           /\ Phase1LowerBound(MakeSearchNode(c)) <= n
<1> DEFINE node == MakeSearchNode(c)
<1>0. NoLimit \in Nat /\ Within(c, n)
    BY RadiusAssumption DEF NoLimit, WithinEverywhere
<1>1. \A profile \in Profile, pruneAbove \in Nat :
         NodeLowerBoundWithoutThreePhase1(node, profile, pruneAbove) \in 0..n
    BY <1>0, OneDirectionIs
<1>2. \A pruneAbove \in Nat : NodeThreePhase1LowerBound(node, pruneAbove) \in 0..n
    BY ThreePhase1Is
<1>3. Phase1LowerBound(node) <= n
    BY <1>0, NodeLooks, Phase1BoundIs DEF Phase1LowerBound
<1> HIDE DEF node
<1>4. \A profile \in Profile : NodeLowerBound(node, profile) <= n
    BY <1>0, <1>1, <1>2 DEF NodeLowerBound, Larger
<1>5. ASSUME NEW profile \in Profile, NEW pruneAbove \in n..Radius PROVE ~Pruned(node, profile, pruneAbove)
    <2>1. pruneAbove \in Nat /\ n <= pruneAbove
        BY RadiusAssumption
    <2>2. /\ NodeLowerBoundWithoutThreePhase1(node, profile, pruneAbove) \in 0..n
          /\ NodeThreePhase1LowerBound(node, pruneAbove) \in 0..n
        BY <1>1, <1>2, <2>1
    <2> QED BY <2>1, <2>2 DEF Pruned, Larger
<1> QED BY <1>3, <1>4, <1>5 DEF node

LEMMA BoundsOneLess ==
    ASSUME NEW c, ValidCube(c), NEW move \in Move
    PROVE  /\ \A profile \in Profile :
                 NodeLowerBound(MakeSearchNode(c), profile)
                     <= NodeLowerBound(MakeSearchNode(CubieTurned(c, move)), profile) + 1
           /\ Phase1LowerBound(MakeSearchNode(c)) <= Phase1LowerBound(MakeSearchNode(CubieTurned(c, move))) + 1
<1> DEFINE a == MakeSearchNode(c)
           b == MakeSearchNode(CubieTurned(c, move))
<1>0. NoLimit \in Nat
    BY RadiusAssumption DEF NoLimit
<1>1. ASSUME NEW profile \in Profile PROVE NodeLowerBound(a, profile) <= NodeLowerBound(b, profile) + 1
    <2>1. /\ NodeLowerBoundWithoutThreePhase1(a, profile, NoLimit) \in 0..NoLimit
          /\ NodeLowerBoundWithoutThreePhase1(b, profile, NoLimit) \in 0..NoLimit
          /\ NodeLowerBoundWithoutThreePhase1(a, profile, NoLimit)
                 <= NodeLowerBoundWithoutThreePhase1(b, profile, NoLimit) + 1
        BY <1>0, OneDirectionIs, OneDirectionOneLess
    <2>2. /\ NodeThreePhase1LowerBound(a, NoLimit) \in 0..NoLimit
          /\ NodeThreePhase1LowerBound(b, NoLimit) \in 0..NoLimit
          /\ NodeThreePhase1LowerBound(a, NoLimit) <= NodeThreePhase1LowerBound(b, NoLimit) + 1
        BY <1>0, ThreePhase1Is, ThreePhase1OneLess
    <2> HIDE DEF a, b
    <2> QED BY <1>0, <2>1, <2>2 DEF NodeLowerBound, Larger
<1>2. Phase1LowerBound(a) <= Phase1LowerBound(b) + 1
    BY NodeLooks, Phase1OneLess DEF Phase1LowerBound
<1> QED BY <1>1, <1>2

\* The bounds of the second phase.
LEMMA Phase2Looks ==
    ASSUME NEW c
    PROVE  LooksLike(MakePhase2Node(c), Phase2Coordinate, c)
BY Phase2NodeHas DEF LooksLike

\* In the group the coordinates of the first phase are nought.
LEMMA SecondPhaseIsNought ==
    ASSUME NEW c, InSecondPhase(c)
    PROVE  /\ Encoded("cornerOrientation", c) = 0 /\ Encoded("edgeOrientation", c) = 0
           /\ Encoded("sliceEdges", c) = 0
<1>1. c \in Cubie /\ ValidCube(c) /\ InItsSlice(c)
    BY DEF InSecondPhase, ValidCube
<1>2. c.co = SolvedCubie.co /\ c.eo = SolvedCubie.eo
    <2>1. /\ c.co \in [Corner -> Nat] /\ SolvedCubie.co \in [Corner -> Nat]
          /\ c.eo \in [Edge -> Nat] /\ SolvedCubie.eo \in [Edge -> Nat]
        BY <1>1, SolvedCubieIs, CubieHas
    <2>2. /\ \A p \in Corner : c.co[p] = SolvedCubie.co[p]
          /\ \A p \in Edge : c.eo[p] = SolvedCubie.eo[p]
        BY SolvedCubieIs DEF InSecondPhase
    <2> QED BY <2>1, <2>2
<1>3. Alike("cornerOrientation", c, SolvedCubie) /\ Alike("edgeOrientation", c, SolvedCubie)
    BY <1>2, AlikeMeans
<1>4. "cornerOrientation" \in Coordinate /\ "edgeOrientation" \in Coordinate
    BY DEF Coordinate
<1> QED BY <1>1, <1>3, <1>4, EncodedAlike, SolvedIsValid, SolvedIsNought, SliceIndexed

LEMMA Phase2TablesAre == Phase2Tables \in Seq(TablesOf(Phase2Coordinate))
<1>1. /\ <<"cornerPermutation">> \in TablesOf(Phase2Coordinate)
      /\ <<"upEdgePermutation">> \in TablesOf(Phase2Coordinate)
      /\ <<"downEdgePermutation">> \in TablesOf(Phase2Coordinate)
      /\ <<"sliceEdgePermutation">> \in TablesOf(Phase2Coordinate)
      /\ <<"cornerPermutation", "sliceEdgePermutation">> \in TablesOf(Phase2Coordinate)
      /\ <<"upEdgePermutation", "sliceEdgePermutation">> \in TablesOf(Phase2Coordinate)
      /\ <<"downEdgePermutation", "sliceEdgePermutation">> \in TablesOf(Phase2Coordinate)
    BY DEF TablesOf, Phase2Coordinate
<1> DEFINE some == TablesOf(Phase2Coordinate)
<1> HIDE DEF some
<1>2. /\ << <<"cornerPermutation">>, <<"upEdgePermutation">>, <<"downEdgePermutation">>, <<"sliceEdgePermutation">> >>
             \in Seq(some)
      /\ Phase2PairTables \in Seq(some)
    BY <1>1 DEF Phase2PairTables, some
<1>3. \A s, t \in Seq(some) : s \o t \in Seq(some)
    OBVIOUS
<1>4. Phase2Tables \in Seq(some)
    BY <1>2, <1>3 DEF Phase2Tables
<1> QED BY <1>4 DEF some

LEMMA Phase2OneLess ==
    ASSUME NEW c, InSecondPhase(c), NEW move \in Phase2Move
    PROVE  Phase2LowerBound(MakePhase2Node(c)) <= Phase2LowerBound(MakePhase2Node(CubieTurned(c, move))) + 1
<1> DEFINE a == MakePhase2Node(c)
           b == MakePhase2Node(CubieTurned(c, move))
           v == Lookups(Phase2Tables, a)
           w == Lookups(Phase2Tables, b)
<1>1. Values(v) /\ Len(v) = 7 /\ \A i \in 1..7 : v[i] = Looked(Phase2Tables[i], a)
    BY Phase2TablesAre, TablesHave, LookupsAre
<1>2. Values(w) /\ Len(w) = 7 /\ \A i \in 1..7 : w[i] = Looked(Phase2Tables[i], b)
    BY Phase2TablesAre, TablesHave, LookupsAre
<1>3. ASSUME NEW i \in 1..7 PROVE Looked(Phase2Tables[i], a) <= Looked(Phase2Tables[i], b) + 1
    <2>1. /\ Phase2Tables[i] \in AnyTable /\ Phase2Tables[i] \in TablesOf(Phase2Coordinate)
          /\ move \in TableMoves(Phase2Tables[i])
        BY TablesHave, MovesOfTheCube
    <2>2. ValidCube(c) /\ InItsSlice(c)
        BY DEF InSecondPhase
    <2>3. LooksLike(a, Phase2Coordinate, c) /\ LooksLike(b, Phase2Coordinate, CubieTurned(c, move))
        BY Phase2Looks
    <2> HIDE DEF a, b
    <2> QED BY <2>1, <2>2, <2>3, LookedOneLess
<1>4. Phase2LowerBound(a) = EarlyReturn(v, NoLimit) /\ Phase2LowerBound(b) = EarlyReturn(w, NoLimit)
    BY DEF Phase2LowerBound
<1> HIDE DEF a, b, v, w
<1>5. OneLess(v, w)
    BY <1>1, <1>2, <1>3 DEF OneLess
<1>6. Phase2LowerBound(a) <= Phase2LowerBound(b) + 1
    BY <1>1, <1>2, <1>4, <1>5, LargestOneLess
<1> QED BY <1>6 DEF a, b

LEMMA SolvedHasNoBound == Phase2LowerBound(MakePhase2Node(SolvedCubie)) = 0
<1> DEFINE a == MakePhase2Node(SolvedCubie)
           v == Lookups(Phase2Tables, a)
<1>0. NoLimit \in Nat
    BY RadiusAssumption DEF NoLimit
<1>1. Values(v) /\ Len(v) = 7 /\ \A i \in 1..7 : v[i] = Looked(Phase2Tables[i], a)
    BY Phase2TablesAre, TablesHave, LookupsAre
<1>2. ASSUME NEW i \in 1..7 PROVE Looked(Phase2Tables[i], a) <= 0
    BY TablesHave, SolvedIsNear, Phase2Looks, LookedNear
<1>3. Phase2LowerBound(a) = EarlyReturn(v, NoLimit)
    BY DEF Phase2LowerBound
<1> HIDE DEF a, v
<1>4. AllWithin(v, 0)
    BY <1>1, <1>2 DEF AllWithin
<1>5. Phase2LowerBound(a) = 0
    <2>1. Phase2LowerBound(a) \in 0..NoLimit /\ Phase2LowerBound(a) <= 0
        BY <1>0, <1>1, <1>3, <1>4, LargestIs
    <2> QED BY <1>0, <2>1
<1> QED BY <1>5 DEF a

\* The bound the moves of the second phase are ordered by looks three of the tables up.
LEMMA OrderingIsBelow ==
    ASSUME NEW c, InSecondPhase(c)
    PROVE  NodePhase2OrderingLowerBound(MakeSearchNode(c)) \in 0..Phase2LowerBound(MakePhase2Node(c))
<1> DEFINE node == MakeSearchNode(c)
           a == MakePhase2Node(c)
           inGroup == [cornerPermutation |-> node.cornerPermutation,
                       upEdgePermutation |-> node.upEdgePermutation,
                       downEdgePermutation |-> node.downEdgePermutation,
                       sliceEdgePermutation |-> SliceEdgePermutation(node.cube)]
           v == Lookups(Phase2Tables, a)
           w == Lookups(Phase2PairTables, inGroup)
           bound == EarlyReturn(v, NoLimit)
<1>0. NoLimit \in Nat
    BY RadiusAssumption DEF NoLimit
<1>1. node.cornerOrientation = 0 /\ node.edgeOrientation = 0 /\ node.sliceEdges = 0
    <2>1. /\ node["cornerOrientation"] = Encoded("cornerOrientation", c)
          /\ node["edgeOrientation"] = Encoded("edgeOrientation", c)
          /\ node["sliceEdges"] = Encoded("sliceEdges", c)
        BY NodeHas DEF SearchCoordinate, Coordinate
    <2>2. InSecondPhase(c) => /\ Encoded("cornerOrientation", c) = 0
                              /\ Encoded("edgeOrientation", c) = 0 /\ Encoded("sliceEdges", c) = 0
        BY SecondPhaseIsNought
    <2> QED BY <2>1, <2>2
<1>2. LooksLike(inGroup, Phase2Coordinate, c) /\ LooksLike(a, Phase2Coordinate, c)
    <2>1. /\ node["cornerPermutation"] = Encoded("cornerPermutation", c)
          /\ node["upEdgePermutation"] = Encoded("upEdgePermutation", c)
          /\ node["downEdgePermutation"] = Encoded("downEdgePermutation", c)
          /\ SliceEdgePermutation(node.cube) = Encoded("sliceEdgePermutation", c)
        BY NodeHas, EncodedIs DEF SearchCoordinate, Coordinate
    <2> HIDE DEF node, a
    <2>2. LooksLike(inGroup, Phase2Coordinate, c)
        BY <2>1 DEF LooksLike, Phase2Coordinate
    <2> QED BY <2>2, Phase2Looks DEF a
<1>3. NodePhase2OrderingLowerBound(node) = EarlyReturn(w, NoLimit)
    <2> HIDE DEF node
    <2> QED BY <1>1 DEF NodePhase2OrderingLowerBound
<1>4. Phase2LowerBound(a) = bound
    BY DEF Phase2LowerBound
<1> HIDE DEF node, a, inGroup
<1>5. Values(v) /\ Len(v) = 7 /\ \A i \in 1..7 : v[i] = Looked(Phase2Tables[i], a)
    BY Phase2TablesAre, TablesHave, LookupsAre
<1>6. Values(w) /\ Len(w) = 3 /\ \A i \in 1..3 : w[i] = Looked(Phase2PairTables[i], inGroup)
    <2>1. Phase2PairTables \in Seq(AnyTable) /\ Len(Phase2PairTables) = 3
        <3>1. Phase2PairTables = [i \in 1..3 |-> Phase2PairTables[i]]
            BY DEF Phase2PairTables
        <3>2. \A i \in 1..3 : Phase2PairTables[i] \in AnyTable
            BY TablesHave
        <3>3. \A s, S : s = [i \in 1..3 |-> s[i]] /\ (\A i \in 1..3 : s[i] \in S) => s \in Seq(S)
            OBVIOUS
        <3> QED BY <3>1, <3>2, <3>3, TablesHave
    <2> QED BY <2>1, LookupsAre
<1>7. ASSUME NEW i \in 1..3 PROVE w[i] = v[i + 4]
    <2>1. /\ Phase2PairTables[i] = Phase2Tables[i + 4] /\ i + 4 \in 1..7
          /\ Phase2Tables[i + 4] \in TablesOf(Phase2Coordinate)
        BY TablesHave
    <2>2. Looked(Phase2Tables[i + 4], inGroup) = Looked(Phase2Tables[i + 4], a)
        BY <1>2, <2>1, LookedAt
    <2> QED BY <1>5, <1>6, <2>1, <2>2
<1> HIDE DEF v, w
<1>8. bound \in 0..NoLimit /\ AllWithin(v, bound)
    BY <1>0, <1>5, LargestIs, NoLimitIsNone
<1> HIDE DEF bound
<1>9. AllWithin(w, bound)
    <2>1. ASSUME NEW i \in 1..3 PROVE w[i] <= bound
        <3>1. i + 4 \in 1..7
            OBVIOUS
        <3> QED BY <1>5, <1>7, <1>8, <3>1 DEF AllWithin
    <2> QED BY <1>6, <2>1 DEF AllWithin
<1>10. EarlyReturn(w, NoLimit) \in 0..bound
    <2>1. bound \in Nat
        BY <1>0, <1>8
    <2>2. EarlyReturn(w, NoLimit) \in 0..NoLimit /\ EarlyReturn(w, NoLimit) <= bound
        BY <1>0, <1>6, <1>9, <2>1, LargestIs
    <2> QED BY <1>0, <2>1, <2>2
<1>11. NodePhase2OrderingLowerBound(node) \in 0..Phase2LowerBound(a)
    BY <1>3, <1>4, <1>10
<1> QED BY <1>11 DEF node, a

-----------------------------------------------------------------------------
(* What is entered (Cube::apply, Cube::validate). *)

\* Stickers that change places are as many of each colour as before.
LEMMA ColorsAreKept ==
    ASSUME NEW s \in [Facelet -> Face], NEW t \in [Facelet -> Face],
           NEW from \in [Facelet -> Facelet], IsPermutation(from),
           \A i \in Facelet : t[i] = s[from[i]],
           \A color \in Face : Cardinality({i \in Facelet : s[i] = color}) = 9
    PROVE  \A color \in Face : Cardinality({i \in Facelet : t[i] = color}) = 9
<1> SUFFICES ASSUME NEW color \in Face PROVE Cardinality({i \in Facelet : t[i] = color}) = 9
    OBVIOUS
<1> DEFINE before == {i \in Facelet : s[i] = color}
           after == {i \in Facelet : t[i] = color}
           f == [i \in after |-> from[i]]
<1>1. f \in [after -> before]
    OBVIOUS
<1>2. \A x, y \in after : f[x] = f[y] => x = y
    BY DEF IsPermutation
<1>3. \A z \in before : \E x \in after : f[x] = z
    <2>1. SUFFICES ASSUME NEW z \in before PROVE \E x \in after : f[x] = z
        OBVIOUS
    <2>2. PICK x \in Facelet : from[x] = z
        <3>1. IsFiniteSet(Facelet) /\ z \in Facelet
            BY PlaceSets
        <3>2. \E x \in Facelet : from[x] = z
            BY <3>1, PermutationsMeetAll
        <3> QED BY <3>2
    <2>3. x \in after
        BY <2>2
    <2> QED BY <2>2, <2>3
<1>4. IsFiniteSet(before)
    <2>1. before \subseteq Facelet
        OBVIOUS
    <2> QED BY <2>1, PlaceSets, FS_Subset
<1>5. Cardinality(before) = 9
    OBVIOUS
<1> HIDE DEF f, before, after
<1>6. Cardinality(after) = Cardinality(before)
    BY <1>1, <1>2, <1>3, <1>4, SameSize
<1> QED BY <1>5, <1>6 DEF after

\* A turn makes no accepted cube one that is refused.
LEMMA TurnedIsAccepted ==
    ASSUME NEW s \in [Facelet -> Face], StickersError(s) = "None", NEW move \in Move
    PROVE  StickersError(Turned(s, move)) = "None"
<1> DEFINE t == Turned(s, move)
           c == FromStickers(s).cube
           from == MoveSources[move]
<1>1. /\ \A color \in Face : Cardinality({i \in Facelet : s[i] = color}) = 9
      /\ \A face \in Face : s[Centre(face)] = face
      /\ Reads(s, c) /\ ValidCube(c) /\ UpDownCorners(s)
    BY AcceptedIs
<1>2. /\ t \in [Facelet -> Face] /\ \A i \in Facelet : t[i] = s[from[i]] /\ from[i] \in Facelet
    BY TurnedStickers
<1>3. /\ from \in [Facelet -> Facelet] /\ IsPermutation(from)
      /\ \A face \in Face : from[Centre(face)] = Centre(face)
    BY MovesOfTheCube
<1>4. Reads(t, CubieTurned(c, move)) /\ ValidCube(CubieTurned(c, move))
    BY <1>1, TurnedReads, TurnedIsValid
<1> HIDE DEF t, c, from
<1>5. FromStickers(t).error = "None"
    BY <1>4, ReadIsParsed
<1>6. \A face \in Face : t[face * 9 + 4] = face
    BY <1>1, <1>2, <1>3, CentresAre DEF Centre
<1>7. \A color \in Face : Cardinality({i \in Facelet : t[i] = color}) = 9
    BY <1>1, <1>2, <1>3, ColorsAreKept
<1>8. StickersError(t) = "None"
    BY <1>5, <1>6, <1>7 DEF StickersError
<1> QED BY <1>8 DEF t

\* The cube a pattern can be taken for, all its places together.
Shows(stickers, c) ==
    /\ ShowsCentres(stickers)
    /\ \A p \in Corner : ShowsCorner(stickers, p, c.cp[p], c.co[p])
    /\ \A p \in Edge : ShowsEdge(stickers, p, c.ep[p], c.eo[p])

LEMMA PhysicalIsValid == ASSUME NEW c PROVE Physical(c) <=> ValidCube(c)
BY ValidMeans DEF Physical, ValidCube

LEMMA ShownOnce ==
    /\ \A i, k \in 1..3, turn \in 0..2 : Shown(i, turn, 3) = Shown(k, turn, 3) => i = k
    /\ \A i, k \in 1..2, turn \in 0..1 : Shown(i, turn, 2) = Shown(k, turn, 2) => i = k
<1>1. \A i, k \in 1..2, turn \in 0..1 : Shown(i, turn, 2) = Shown(k, turn, 2) => i = k
    BY DEF Shown
<1> QED BY <1>1, ShownAt

\* A cube shows the stickers of the solved one in other places: no two of its cubies are in one.
LEMMA StickersAreExchanged ==
    ASSUME NEW c, ValidCube(c)
    PROVE  \E from \in [Facelet -> Facelet] :
               IsPermutation(from) /\ \A i \in Facelet : ToStickers(c)[i] = SolvedStickers[from[i]]
<1> DEFINE place(i) == PlaceOf[i].place
           index(i) == PlaceOf[i].index
           From(i) == IF PlaceOf[i].kind = "corner"
                      THEN CornerFacelets[c.cp[place(i)]][Shown(index(i), c.co[place(i)], 3)]
                      ELSE IF PlaceOf[i].kind = "edge"
                      THEN EdgeFacelets[c.ep[place(i)]][Shown(index(i), c.eo[place(i)], 2)]
                      ELSE i
           from == [i \in Facelet |-> From(i)]
           w == ToStickers(c)
<1>1. /\ c \in Cubie /\ IsPermutation(c.cp) /\ IsPermutation(c.ep)
      /\ DOMAIN c.cp = Corner /\ DOMAIN c.ep = Edge
    BY ValidMeans, CubieHas DEF ValidCube
<1>2. ASSUME NEW p \in Corner, NEW k \in 1..3
      PROVE  /\ c.cp[p] \in Corner /\ c.co[p] \in 0..2 /\ Shown(k, c.co[p], 3) \in 1..3
             /\ from[CornerFacelets[p][k]] = CornerFacelets[c.cp[p]][Shown(k, c.co[p], 3)]
    <2>1. c.cp[p] \in Corner /\ c.co[p] \in 0..2
        BY <1>1, CubieAt
    <2>2. Shown(k, c.co[p], 3) \in 1..3
        BY <2>1, ShownAt
    <2>3. /\ CornerFacelets[p][k] \in Facelet /\ PlaceOf[CornerFacelets[p][k]].kind = "corner"
          /\ place(CornerFacelets[p][k]) = p /\ index(CornerFacelets[p][k]) = k
        BY PlacesOfFacelets
    <2>4. from[CornerFacelets[p][k]] = From(CornerFacelets[p][k])
        BY <2>3
    <2> HIDE DEF place, index, from
    <2> QED BY <2>1, <2>2, <2>3, <2>4
<1>3. ASSUME NEW p \in Edge, NEW k \in 1..2
      PROVE  /\ c.ep[p] \in Edge /\ c.eo[p] \in 0..1 /\ Shown(k, c.eo[p], 2) \in 1..2
             /\ from[EdgeFacelets[p][k]] = EdgeFacelets[c.ep[p]][Shown(k, c.eo[p], 2)]
    <2>1. c.ep[p] \in Edge /\ c.eo[p] \in 0..1
        BY <1>1, CubieAt
    <2>2. Shown(k, c.eo[p], 2) \in 1..2
        BY <2>1, ShownAt
    <2>3. /\ EdgeFacelets[p][k] \in Facelet /\ PlaceOf[EdgeFacelets[p][k]].kind = "edge"
          /\ place(EdgeFacelets[p][k]) = p /\ index(EdgeFacelets[p][k]) = k
        BY PlacesOfFacelets
    <2>4. from[EdgeFacelets[p][k]] = From(EdgeFacelets[p][k])
        BY <2>3
    <2> HIDE DEF place, index, from
    <2> QED BY <2>1, <2>2, <2>3, <2>4, "edge" # "corner"
<1>4. ASSUME NEW face \in Face PROVE from[Centre(face)] = Centre(face)
    BY PlacesOfFacelets, "centre" # "corner", "centre" # "edge"
<1>5. DOMAIN from = Facelet
    OBVIOUS
<1> HIDE DEF from
<1>6. ASSUME NEW i \in Facelet
      PROVE  from[i] \in Facelet /\ PlaceOf[from[i]].kind = PlaceOf[i].kind
    BY <1>2, <1>3, <1>4, PlacesOfFacelets
<1>7. from \in [Facelet -> Facelet]
    <2>1. from = [i \in Facelet |-> from[i]]
        BY DEF from
    <2> QED BY <1>6, <2>1
<1>8. ASSUME NEW i \in Facelet, NEW j \in Facelet, from[i] = from[j] PROVE i = j
    <2>1. PlaceOf[i].kind = PlaceOf[j].kind
        BY <1>6, <1>8
    <2>2. ASSUME NEW p \in Corner, NEW k \in 1..3, i = CornerFacelets[p][k],
                 NEW q \in Corner, NEW l \in 1..3, j = CornerFacelets[q][l]
          PROVE  i = j
        <3>1. CornerFacelets[c.cp[p]][Shown(k, c.co[p], 3)] = CornerFacelets[c.cp[q]][Shown(l, c.co[q], 3)]
            BY <1>2, <1>8, <2>2
        <3>2. c.cp[p] = c.cp[q] /\ Shown(k, c.co[p], 3) = Shown(l, c.co[q], 3)
            <4>1. /\ c.cp[p] \in Corner /\ Shown(k, c.co[p], 3) \in 1..3
                  /\ c.cp[q] \in Corner /\ Shown(l, c.co[q], 3) \in 1..3
                BY <1>2
            <4> QED BY <3>1, <4>1, PlacesOfFacelets
        <3>3. p = q
            BY <1>1, <3>2 DEF IsPermutation
        <3>4. k = l
            BY <1>2, <3>2, <3>3, ShownOnce
        <3> QED BY <2>2, <3>3, <3>4
    <2>3. ASSUME NEW p \in Edge, NEW k \in 1..2, i = EdgeFacelets[p][k],
                 NEW q \in Edge, NEW l \in 1..2, j = EdgeFacelets[q][l]
          PROVE  i = j
        <3>1. EdgeFacelets[c.ep[p]][Shown(k, c.eo[p], 2)] = EdgeFacelets[c.ep[q]][Shown(l, c.eo[q], 2)]
            BY <1>3, <1>8, <2>3
        <3>2. c.ep[p] = c.ep[q] /\ Shown(k, c.eo[p], 2) = Shown(l, c.eo[q], 2)
            <4>1. /\ c.ep[p] \in Edge /\ Shown(k, c.eo[p], 2) \in 1..2
                  /\ c.ep[q] \in Edge /\ Shown(l, c.eo[q], 2) \in 1..2
                BY <1>3
            <4> QED BY <3>1, <4>1, PlacesOfFacelets
        <3>3. p = q
            BY <1>1, <3>2 DEF IsPermutation
        <3>4. k = l
            BY <1>3, <3>2, <3>3, ShownOnce
        <3> QED BY <2>3, <3>3, <3>4
    <2>4. ASSUME NEW face \in Face, i = Centre(face), NEW other \in Face, j = Centre(other) PROVE i = j
        BY <1>4, <1>8, <2>4
    <2>5. /\ PlaceOf[i].kind = "corner" => \E p \in Corner, k \in 1..3 : i = CornerFacelets[p][k]
          /\ PlaceOf[i].kind = "edge" => \E p \in Edge, k \in 1..2 : i = EdgeFacelets[p][k]
          /\ PlaceOf[i].kind = "centre" => \E face \in Face : i = Centre(face)
          /\ PlaceOf[i].kind \in {"corner", "edge", "centre"}
        BY PlacesOfFacelets, "corner" # "edge", "corner" # "centre", "edge" # "centre"
    <2>6. /\ PlaceOf[j].kind = "corner" => \E p \in Corner, k \in 1..3 : j = CornerFacelets[p][k]
          /\ PlaceOf[j].kind = "edge" => \E p \in Edge, k \in 1..2 : j = EdgeFacelets[p][k]
          /\ PlaceOf[j].kind = "centre" => \E face \in Face : j = Centre(face)
        BY PlacesOfFacelets, "corner" # "edge", "corner" # "centre", "edge" # "centre"
    <2>7. CASE PlaceOf[i].kind = "corner"
        <3>1. \E p \in Corner, k \in 1..3 : i = CornerFacelets[p][k]
            BY <2>5, <2>7
        <3>2. \E q \in Corner, l \in 1..3 : j = CornerFacelets[q][l]
            BY <2>1, <2>6, <2>7
        <3> QED BY <2>2, <3>1, <3>2
    <2>8. CASE PlaceOf[i].kind = "edge"
        <3>1. \E p \in Edge, k \in 1..2 : i = EdgeFacelets[p][k]
            BY <2>5, <2>8
        <3>2. \E q \in Edge, l \in 1..2 : j = EdgeFacelets[q][l]
            BY <2>1, <2>6, <2>8
        <3> QED BY <2>3, <3>1, <3>2
    <2>9. CASE PlaceOf[i].kind = "centre"
        <3>1. \E face \in Face : i = Centre(face)
            BY <2>5, <2>9
        <3>2. \E other \in Face : j = Centre(other)
            BY <2>1, <2>6, <2>9
        <3> QED BY <2>4, <3>1, <3>2
    <2> QED BY <2>5, <2>7, <2>8, <2>9
<1>9. IsPermutation(from)
    BY <1>5, <1>8 DEF IsPermutation
<1>10. SolvedCubie \in Cubie /\ ToStickers(SolvedCubie) = SolvedStickers
    BY SolvedIsAccepted, SolvedCubieIs
<1>11. ASSUME NEW p \in Corner, NEW k \in 1..3
       PROVE  w[CornerFacelets[p][k]] = SolvedStickers[from[CornerFacelets[p][k]]]
    <2> DEFINE m == Shown(k, c.co[p], 3)
    <2>1. c.cp[p] \in Corner /\ c.co[p] \in 0..2 /\ m \in 1..3
          /\ from[CornerFacelets[p][k]] = CornerFacelets[c.cp[p]][m]
        BY <1>2
    <2>2. w[CornerFacelets[p][k]] = CornerColors[c.cp[p]][m]
        BY <1>1, <2>1, WrittenStickers, ColorOfACorner
    <2>3. Shown(m, 0, 3) = m
        BY <2>1 DEF Shown
    <2> HIDE DEF m
    <2>4. SolvedStickers[CornerFacelets[c.cp[p]][m]] = Written(CornerColors[c.cp[p]], 0, m)
        BY <1>10, <2>1, WrittenStickers, SolvedCubieIs
    <2>5. Written(CornerColors[c.cp[p]], 0, m) = CornerColors[c.cp[p]][m]
        BY <2>1, <2>3, ColorOfACorner, 0 \in 0..2
    <2> QED BY <2>1, <2>2, <2>4, <2>5
<1>12. ASSUME NEW p \in Edge, NEW k \in 1..2
       PROVE  w[EdgeFacelets[p][k]] = SolvedStickers[from[EdgeFacelets[p][k]]]
    <2> DEFINE m == Shown(k, c.eo[p], 2)
    <2>1. c.ep[p] \in Edge /\ c.eo[p] \in 0..1 /\ m \in 1..2
          /\ from[EdgeFacelets[p][k]] = EdgeFacelets[c.ep[p]][m]
        BY <1>3
    <2>2. w[EdgeFacelets[p][k]] = EdgeColors[c.ep[p]][m]
        BY <1>1, <2>1, WrittenStickers, ColorOfAnEdge
    <2>3. Shown(m, 0, 2) = m
        BY <2>1 DEF Shown
    <2> HIDE DEF m
    <2>4. SolvedStickers[EdgeFacelets[c.ep[p]][m]] = Written(EdgeColors[c.ep[p]], 0, m)
        BY <1>10, <2>1, WrittenStickers, SolvedCubieIs
    <2>5. Written(EdgeColors[c.ep[p]], 0, m) = EdgeColors[c.ep[p]][m]
        BY <2>1, <2>3, ColorOfAnEdge, 0 \in 0..1
    <2> QED BY <2>1, <2>2, <2>4, <2>5
<1>13. ASSUME NEW face \in Face PROVE w[Centre(face)] = SolvedStickers[from[Centre(face)]]
    BY <1>1, <1>4, WrittenStickers
<1>14. \A i \in Facelet : w[i] = SolvedStickers[from[i]]
    BY <1>11, <1>12, <1>13, PlacesOfFacelets
<1> QED BY <1>7, <1>9, <1>14

\* The stickers of every physical cube are accepted: no false alarm.
LEMMA PhysicalIsAccepted ==
    ASSUME NEW c, ValidCube(c)
    PROVE  StickersError(ToStickers(c)) = "None"
<1> DEFINE w == ToStickers(c)
<1>1. c \in Cubie
    BY DEF ValidCube
<1>2. w \in [Facelet -> Face] /\ FromStickers(w).error = "None"
    BY <1>1, WrittenStickers, WrittenIsRead, ReadIsParsed
<1>3. /\ SolvedStickers \in [Facelet -> Face]
      /\ \A color \in Face : Cardinality({i \in Facelet : SolvedStickers[i] = color}) = 9
      /\ \A face \in Face : SolvedStickers[Centre(face)] = face
    BY SolvedIsAccepted, AcceptedIs
<1>4. \A face \in Face : w[face * 9 + 4] = face
    BY <1>1, <1>3, WrittenStickers DEF Centre
<1>5. PICK from \in [Facelet -> Facelet] :
          IsPermutation(from) /\ \A i \in Facelet : w[i] = SolvedStickers[from[i]]
    BY StickersAreExchanged
<1> HIDE DEF w
<1>6. \A color \in Face : Cardinality({i \in Facelet : w[i] = color}) = 9
    BY <1>2, <1>3, <1>5, ColorsAreKept
<1>7. StickersError(w) = "None"
    BY <1>2, <1>4, <1>6 DEF StickersError
<1> QED BY <1>7 DEF w

\* A corner is read as one that has the colours read.
LEMMA CornerHasItsColors ==
    ASSUME NEW colors \in [1..3 -> Face], CornerOf(colors).error = "None"
    PROVE  \A i \in 1..3 : \E k \in 1..3 : colors[i] = CornerColors[CornerOf(colors).cubie][k]
<1> DEFINE upDown == {i \in 1..3 : colors[i] \in {U, D}}
           cubies == {c \in Corner : SameCornerCubie(colors, CornerColors[c])}
<1>1. /\ upDown = {} => CornerOf(colors) = [error |-> "InvalidCornerOrientation"]
      /\ upDown # {} /\ cubies = {} => CornerOf(colors) = [error |-> "InvalidCornerPermutation"]
      /\ upDown # {} /\ cubies # {} =>
            CornerOf(colors) = [error |-> "None", cubie |-> FirstOf(cubies), turn |-> FirstOf(upDown) - 1]
    BY DEF CornerOf
<1> HIDE DEF upDown
<1>2. cubies # {} /\ CornerOf(colors).cubie = FirstOf(cubies)
    BY <1>1
<1>3. cubies \in SUBSET Nat
    BY DEF Corner
<1>4. FirstOf(cubies) \in cubies
    BY <1>2, <1>3, FirstOfIs
<1>5. FirstOf(cubies) \in Corner /\ SameCornerCubie(colors, CornerColors[FirstOf(cubies)])
    BY <1>4
<1> HIDE DEF cubies
<1>6. DOMAIN CornerColors[FirstOf(cubies)] = 1..3 /\ DOMAIN colors = 1..3
    BY <1>5, CornersAreRead
<1> QED BY <1>2, <1>5, <1>6 DEF SameCornerCubie

\* Nothing is accepted that shows no physical cube.
LEMMA AcceptedShows ==
    ASSUME NEW s \in [Facelet -> Face], StickersError(s) = "None"
    PROVE  \E c \in Cubie : Physical(c) /\ Shows(s, c)
<1> DEFINE c == FromStickers(s).cube
<1>1. /\ \A face \in Face : s[Centre(face)] = face
      /\ Reads(s, c) /\ ValidCube(c) /\ UpDownCorners(s)
    BY AcceptedIs
<1> HIDE DEF c
<1>2. Physical(c) /\ c \in Cubie
    BY <1>1, PhysicalIsValid DEF ValidCube
<1>3. ShowsCentres(s)
    BY <1>1 DEF ShowsCentres, Centre
<1>4. ASSUME NEW p \in Corner PROVE ShowsCorner(s, p, c.cp[p], c.co[p])
    <2> DEFINE colors == ColorsAt(s, CornerFacelets[p])
               turned == c.co[p] + 1
    <2>1. colors \in [1..3 -> Face] /\ \A i \in 1..3 : colors[i] = s[CornerFacelets[p][i]]
        <3>1. colors = [i \in 1..3 |-> s[CornerFacelets[p][i]]] /\ colors \in [1..3 -> Face]
            BY ColorsAtPlaces
        <3> HIDE DEF colors
        <3> QED BY <3>1
    <2>2. OneUpDown(colors)
        BY <1>1 DEF UpDownCorners
    <2>3. CornerOf(colors) = [error |-> "None", cubie |-> c.cp[p], turn |-> c.co[p]]
        BY <1>1 DEF Reads, CornerRead
    <2> HIDE DEF colors
    <2>4. CornerOf(colors).error = "None" /\ CornerOf(colors).cubie = c.cp[p] /\ CornerOf(colors).turn = c.co[p]
        BY <2>3
    <2>5. c.cp[p] \in Corner /\ c.co[p] \in 0..2 /\ turned \in 1..3
        BY <1>2, CubieAt
    <2>6. Shown(turned, c.co[p], 3) = 1
        BY <2>5 DEF Shown
    <2> HIDE DEF turned
    <2>7. Written(CornerColors[c.cp[p]], c.co[p], turned) = CornerColors[c.cp[p]][1]
        BY <2>5, <2>6, ColorOfACorner
    <2>8. CornerColors[c.cp[p]][1] \in {U, D}
        BY <2>5 DEF CornerColors, Corner
    <2>9. Written(CornerColors[c.cp[p]], c.co[p], turned) # colors[turned] =>
              {Written(CornerColors[c.cp[p]], c.co[p], turned), colors[turned]} \cap {U, D} = {}
        BY <2>1, <2>2, <2>4, <2>5, CornersAreRead
    <2>10. s[CornerFacelets[p][c.co[p] + 1]] = CornerColors[c.cp[p]][1]
        BY <2>1, <2>5, <2>7, <2>8, <2>9 DEF turned
    <2>11. \A i \in 1..3 : \E k \in 1..3 : s[CornerFacelets[p][i]] = CornerColors[c.cp[p]][k]
        BY <2>1, <2>4, CornerHasItsColors
    <2> QED BY <2>10, <2>11 DEF ShowsCorner
<1>5. ASSUME NEW p \in Edge PROVE ShowsEdge(s, p, c.ep[p], c.eo[p])
    BY <1>1, EdgesShowTheirColors DEF ShowsEdge
<1> QED BY <1>2, <1>3, <1>4, <1>5 DEF Shows

\* A cube as moves bring it about, and how many.
Reached(s, n) ==
    /\ s \in [Facelet -> Face] /\ StickersError(s) = "None"
    /\ \E c : ValidCube(c) /\ s = ToStickers(c) /\ WithinEverywhere(c, n)

LEMMA TurnedIsReached ==
    ASSUME NEW s, NEW n \in Nat, Reached(s, n), NEW move \in Move
    PROVE  Reached(Turned(s, move), n + 1)
<1>1. PICK c : ValidCube(c) /\ s = ToStickers(c) /\ WithinEverywhere(c, n)
    BY DEF Reached
<1>2. Turned(s, move) \in [Facelet -> Face] /\ StickersError(Turned(s, move)) = "None"
    BY TurnedStickers, TurnedIsAccepted DEF Reached
<1>3. Turned(s, move) = ToStickers(CubieTurned(c, move))
    BY <1>1, TurnedWritten DEF ValidCube
<1>4. ValidCube(CubieTurned(c, move)) /\ WithinEverywhere(CubieTurned(c, move), n + 1)
    BY <1>1, TurnedIsValid, TurnedIsWithin
<1> QED BY <1>2, <1>3, <1>4 DEF Reached

LEMMA EnteredIs ==
    ASSUME NEW begin \in Starts
    PROVE  /\ Entered(begin) \in [Facelet -> Face]
           /\ Len(begin.moves) \in Nat
           /\ begin.kind = "none" => Reached(Entered(begin), Len(begin.moves))
<1> DEFINE size == Len(begin.moves)
           stickers == [Facelet -> Face]
           step == [i \in 1..size |-> [s \in stickers |-> Turned(s, begin.moves[i])]]
           Fold(f) == [n \in 0..size |->
               IF n = 0 THEN SolvedStickers ELSE Turned(f[n - 1], begin.moves[n])]
           Folds(f) == f = Fold(f)
           turned == CHOOSE f : Folds(f)
           from == begin.exchanged
<1>1. /\ begin.moves \in Seq(Move) /\ size \in Nat /\ \A i \in 1..size : begin.moves[i] \in Move
      /\ \A i \in DOMAIN from : i \in Facelet /\ from[i] \in Facelet
      /\ begin.kind = "none" => DOMAIN from = {}
    BY StartsAssumption
<1>2. Entered(begin) = [i \in Facelet |-> turned[size][IF i \in DOMAIN from THEN from[i] ELSE i]]
    <2>1. Entered(begin) = Tabulated([i \in Facelet |-> turned[size][IF i \in DOMAIN from THEN from[i] ELSE i]])
        BY DEF Entered
    <2> HIDE DEF turned, size, from
    <2> QED BY <2>1 DEF Tabulated
<1> HIDE DEF size, from
<1>3. SolvedStickers \in stickers /\ \A i \in 1..size, s \in stickers : Turned(s, begin.moves[i]) \in stickers
    BY <1>1, SolvedIsAccepted, TurnedStickers
<1> HIDE DEF stickers
<1>4. step \in [1..size -> [stickers -> stickers]]
    BY <1>3
<1>5. PICK g : Iterates(g, stickers, SolvedStickers, step, size)
    <2> HIDE DEF step
    <2> QED BY <1>1, <1>3, <1>4, IterationExists
<1>6. g \in [0..size -> stickers] /\ g[0] = SolvedStickers /\ \A i \in 1..size : g[i] = step[i][g[i - 1]]
    <2> HIDE DEF step
    <2> QED BY <1>5 DEF Iterates
<1>7. ASSUME NEW i \in 1..size PROVE g[i] = Turned(g[i - 1], begin.moves[i])
    <2>1. i - 1 \in 0..size /\ g[i] = step[i][g[i - 1]]
        <3> HIDE DEF step
        <3> QED BY <1>1, <1>6
    <2>2. g[i - 1] \in stickers
        BY <1>6, <2>1
    <2>3. \A s \in stickers : step[i][s] = Turned(s, begin.moves[i])
        OBVIOUS
    <2> QED BY <2>1, <2>2, <2>3
<1> HIDE DEF step
<1>8. Folds(g)
    <2>1. \A n \in 0..size : g[n] = Fold(g)[n]
        <3>1. \A n \in 0..size : n # 0 => n \in 1..size
            BY <1>1
        <3> QED BY <1>6, <1>7, <3>1
    <2> QED BY <1>6, <2>1
<1>9. Folds(turned)
    <2> HIDE DEF Folds
    <2> QED BY <1>8
<1> HIDE DEF turned
<1>10. turned[0] = SolvedStickers /\ \A i \in 1..size : turned[i] = Turned(turned[i - 1], begin.moves[i])
    <2>1. \A n \in 0..size : turned[n] = IF n = 0 THEN SolvedStickers ELSE Turned(turned[n - 1], begin.moves[n])
        BY <1>9
    <2>2. 0 \in 0..size /\ \A i \in 1..size : i \in 0..size /\ i # 0
        BY <1>1
    <2> HIDE DEF Folds, Fold
    <2> QED BY <2>1, <2>2
<1> HIDE DEF Folds, Fold
<1> DEFINE good == {n \in 0..size : Reached(turned[n], n)}
<1>11. 0 \in good
    <2>1. Reached(SolvedStickers, 0)
        BY SolvedIsAccepted, SolvedIsValid, SolvedIsWithin DEF Reached
    <2> QED BY <1>1, <1>10, <2>1
<1>12. ASSUME NEW i \in 1..size, i - 1 \in good PROVE i \in good
    <2>1. Reached(turned[i - 1], i - 1) /\ i - 1 \in Nat /\ begin.moves[i] \in Move
        BY <1>1, <1>12
    <2>2. Reached(Turned(turned[i - 1], begin.moves[i]), (i - 1) + 1)
        BY <2>1, TurnedIsReached
    <2> QED BY <1>1, <1>10, <2>2
<1>13. Reached(turned[size], size)
    <2> HIDE DEF good
    <2>1. \A i \in 1..size : i - 1 \in good => i \in good
        BY <1>12
    <2>2. \A i \in 0..size : i \in good
        BY <1>1, <1>11, <2>1, KeptThroughout
    <2> QED BY <1>1, <2>2 DEF good
<1>14. turned[size] \in stickers
    BY <1>13 DEF Reached, stickers
<1>15. Entered(begin) \in stickers
    BY <1>1, <1>2, <1>14 DEF stickers
<1>16. begin.kind = "none" => Entered(begin) = turned[size]
    BY <1>1, <1>2, <1>14 DEF stickers
<1> QED BY <1>1, <1>13, <1>15, <1>16 DEF stickers, size

-----------------------------------------------------------------------------
(* What holds in every state. *)

\* An accepted cube, and the cube the search works on: one was parsed from the other, or both were
\* turned alike since.  Corners of the wrong colours are parsed too, so the stickers are not those
\* of the cube; but they are still read as the cube.
Followed(stickers, c) ==
    /\ stickers \in [Facelet -> Face]
    /\ ValidCube(c) /\ Reads(stickers, c) /\ UpDownCorners(stickers)
    /\ \A face \in Face : stickers[Centre(face)] = face

InputsOK ==
    /\ start \in Starts
    /\ callerCube \in [Facelet -> Face]
    /\ verdict \in {"unchecked", "None", "InvalidColorCount", "InvalidCenterConfiguration",
                  "InvalidCornerPermutation", "InvalidCornerOrientation",
                  "InvalidEdgePermutation", "InvalidEdgeOrientation", "InvalidParity"}
    /\ moveCount \in 0..Larger(MaxMoves, 1)

\* The cube of the search: what the caller's cube is parsed to.
SearchedCube == FromStickers(callerCube).cube

AcceptedIsFollowed == verdict = "None" => Followed(callerCube, SearchedCube)
SearchNodeIsMade ==
    searchNode # None => verdict = "None" /\ searchNode = MakeSearchNode(SearchedCube)
Phase2NodeIsMade ==
    phase2Node # None =>
        /\ verdict = "None" /\ searchNode = MakeSearchNode(SearchedCube)
        /\ InSecondPhase(SearchedCube)
        /\ phase2Node = MakePhase2Node(SearchedCube)
EntryIsReached ==
    start.kind = "none" =>
        /\ verdict \in {"unchecked", "None"}
        /\ Len(start.moves) + moveCount \in Nat
        /\ Reached(callerCube, Len(start.moves) + moveCount)

IInv == InputsOK /\ AcceptedIsFollowed /\ SearchNodeIsMade /\ Phase2NodeIsMade /\ EntryIsReached

LEMMA FollowedIsParsed ==
    ASSUME NEW s, NEW c, Followed(s, c)
    PROVE  FromStickers(s) = [error |-> "None", cube |-> c] /\ FromStickers(s).cube = c
BY ReadIsParsed DEF Followed

LEMMA FollowedTurned ==
    ASSUME NEW s, NEW c, Followed(s, c), NEW move \in Move
    PROVE  /\ Followed(Turned(s, move), CubieTurned(c, move))
           /\ FromStickers(Turned(s, move)).cube = CubieTurned(c, move)
<1>1. Followed(Turned(s, move), CubieTurned(c, move))
    <2>1. \A face \in Face : Turned(s, move)[Centre(face)] = face
        <3>1. SUFFICES ASSUME NEW face \in Face PROVE Turned(s, move)[Centre(face)] = face
            OBVIOUS
        <3>2. Centre(face) \in Facelet /\ s[Centre(face)] = face
            BY CentresAre DEF Followed
        <3>3. MoveSources[move][Centre(face)] = Centre(face)
            BY MovesOfTheCube
        <3>4. Turned(s, move)[Centre(face)] = s[MoveSources[move][Centre(face)]]
            BY <3>2, TurnedStickers DEF Followed
        <3> QED BY <3>2, <3>3, <3>4
    <2> QED BY <2>1, TurnedReads, TurnedIsValid, TurnedStickers DEF Followed
<1> QED BY <1>1, FollowedIsParsed

LEMMA ParseErrorsAre ==
    ASSUME NEW s \in [Facelet -> Face]
    PROVE  FromStickers(s).error \in
               {"None", "InvalidCornerPermutation", "InvalidCornerOrientation",
                "InvalidEdgePermutation", "InvalidEdgeOrientation", "InvalidParity"}
<1> DEFINE errors == {"None", "InvalidCornerPermutation", "InvalidCornerOrientation",
                "InvalidEdgePermutation", "InvalidEdgeOrientation", "InvalidParity"}
           corners == [p \in Corner |-> CornerRead(s, p)]
           edges == [p \in Edge |-> EdgeRead(s, p)]
           badCorners == {p \in DOMAIN corners : corners[p].error # "None"}
           badEdges == {p \in DOMAIN edges : edges[p].error # "None"}
           cube == CubieOf([p \in Corner |-> corners[p].cubie], [p \in Corner |-> corners[p].turn],
                           [p \in Edge |-> edges[p].cubie], [p \in Edge |-> edges[p].turn])
<1>1. FromStickers(s) = Assembled(corners, edges)
    BY TabulatedIs DEF FromStickers
<1>2. /\ DOMAIN corners = Corner /\ \A p \in Corner : corners[p] = CornerRead(s, p)
      /\ DOMAIN edges = Edge /\ \A p \in Edge : edges[p] = EdgeRead(s, p)
    OBVIOUS
<1> HIDE DEF corners, edges
<1>3. badCorners \in SUBSET Nat /\ badEdges \in SUBSET Nat
    BY <1>2 DEF Corner, Edge
<1>4. badCorners # {} => Assembled(corners, edges).error = corners[FirstOf(badCorners)].error
    BY JudgedIs DEF Assembled
<1>5. badCorners = {} /\ badEdges # {} => Assembled(corners, edges).error = edges[FirstOf(badEdges)].error
    BY JudgedIs DEF Assembled
<1>6. badCorners = {} /\ badEdges = {} => Assembled(corners, edges) = Checked(cube)
    BY DEF Assembled
<1>7. \A p \in Corner : CornerRead(s, p).error \in errors
    <2>1. \A p \in Corner : ColorsAt(s, CornerFacelets[p]) \in [1..3 -> Face]
        BY ColorsAtPlaces
    <2>2. \A colors \in [1..3 -> Face] : CornerOf(colors).error \in errors
        BY CornersAreRead
    <2> QED BY <2>1, <2>2 DEF CornerRead
<1>8. \A p \in Edge : EdgeRead(s, p).error \in errors
    <2>1. \A p \in Edge : ColorsAt(s, EdgeFacelets[p]) \in [1..2 -> Face]
        BY ColorsAtPlaces
    <2>2. \A colors \in [1..2 -> Face] : EdgeOf(colors).error \in errors
        BY EdgesAreRead
    <2> QED BY <2>1, <2>2 DEF EdgeRead
<1>9. Checked(cube).error \in errors
    <2>1. Checked(cube).error = CubieError(cube)
        BY JudgedIs DEF Checked
    <2> HIDE DEF cube
    <2> QED BY <2>1 DEF CubieError
<1> HIDE DEF errors, cube
<1>10. CASE badCorners # {}
    <2>1. FirstOf(badCorners) \in Corner
        BY <1>2, <1>3, <1>10, FirstOfIs
    <2> QED BY <1>1, <1>2, <1>4, <1>7, <1>10, <2>1 DEF errors
<1>11. CASE badCorners = {} /\ badEdges # {}
    <2>1. FirstOf(badEdges) \in Edge
        BY <1>2, <1>3, <1>11, FirstOfIs
    <2> QED BY <1>1, <1>2, <1>5, <1>8, <1>11, <2>1 DEF errors
<1>12. CASE badCorners = {} /\ badEdges = {}
    BY <1>1, <1>6, <1>9, <1>12 DEF errors
<1> QED BY <1>10, <1>11, <1>12

LEMMA VerdictsAre ==
    ASSUME NEW s \in [Facelet -> Face]
    PROVE  StickersError(s) \in {"None", "InvalidColorCount", "InvalidCenterConfiguration",
                  "InvalidCornerPermutation", "InvalidCornerOrientation",
                  "InvalidEdgePermutation", "InvalidEdgeOrientation", "InvalidParity"}
<1> DEFINE errors == {"None", "InvalidColorCount", "InvalidCenterConfiguration",
                  "InvalidCornerPermutation", "InvalidCornerOrientation",
                  "InvalidEdgePermutation", "InvalidEdgeOrientation", "InvalidParity"}
<1>1. FromStickers(s).error \in errors
    BY ParseErrorsAre
<1>2. /\ "None" \in errors /\ "InvalidColorCount" \in errors /\ "InvalidCenterConfiguration" \in errors
    OBVIOUS
<1> HIDE DEF errors
<1>3. StickersError(s) \in errors
    BY <1>1, <1>2 DEF StickersError
<1> QED BY <1>3 DEF errors

LEMMA InitIsGood ==
    ASSUME Init
    PROVE  IInv
<1>1. start \in Starts /\ callerCube = Entered(start) /\ verdict = "unchecked"
      /\ searchNode = None /\ phase2Node = None /\ moveCount = 0
    BY DEF Init
<1>2. InputsOK
    <2>1. callerCube \in [Facelet -> Face]
        BY <1>1, EnteredIs
    <2>2. moveCount \in 0..Larger(MaxMoves, 1)
        BY <1>1, MaxMovesAssumption DEF Larger
    <2> QED BY <1>1, <2>1, <2>2 DEF InputsOK
<1>3. EntryIsReached
    <2>1. Len(start.moves) \in Nat /\ Len(start.moves) + moveCount = Len(start.moves)
        BY <1>1, EnteredIs
    <2> QED BY <1>1, <2>1, EnteredIs DEF EntryIsReached
<1> QED BY <1>1, <1>2, <1>3 DEF IInv, AcceptedIsFollowed, SearchNodeIsMade, Phase2NodeIsMade

LEMMA ValidateIsGood ==
    ASSUME IInv, Validate
    PROVE  IInv'
<1>1. /\ verdict = "unchecked" /\ verdict' = StickersError(callerCube)
      /\ start' = start /\ callerCube' = callerCube /\ searchNode' = searchNode
      /\ phase2Node' = phase2Node /\ moveCount' = moveCount
    BY DEF Validate
<1>2. searchNode = None /\ phase2Node = None
    BY <1>1 DEF IInv, SearchNodeIsMade, Phase2NodeIsMade
<1>3. callerCube \in [Facelet -> Face]
    BY DEF IInv, InputsOK
<1>4. InputsOK'
    BY <1>1, <1>3, VerdictsAre DEF IInv, InputsOK
<1>5. AcceptedIsFollowed'
    <2>1. verdict' = "None" => Followed(callerCube, SearchedCube)
        BY <1>1, <1>3, AcceptedIs DEF Followed, SearchedCube
    <2> QED BY <1>1, <2>1 DEF AcceptedIsFollowed, SearchedCube
<1>6. EntryIsReached'
    BY <1>1 DEF IInv, EntryIsReached, Reached
<1> QED BY <1>1, <1>2, <1>4, <1>5, <1>6 DEF IInv, SearchNodeIsMade, Phase2NodeIsMade

LEMMA StartSearchIsGood ==
    ASSUME IInv, StartSearch
    PROVE  IInv'
<1>1. /\ verdict = "None" /\ searchNode = None /\ searchNode' = MakeSearchNode(SearchedCube)
      /\ start' = start /\ callerCube' = callerCube /\ verdict' = verdict
      /\ phase2Node' = phase2Node /\ moveCount' = moveCount
    BY DEF StartSearch, SearchedCube
<1>2. SearchedCube' = SearchedCube
    BY <1>1 DEF SearchedCube
<1> QED BY <1>1, <1>2 DEF IInv, InputsOK, AcceptedIsFollowed, SearchNodeIsMade, Phase2NodeIsMade, EntryIsReached

LEMMA StartPhase2IsGood ==
    ASSUME IInv, StartPhase2
    PROVE  IInv'
<1>1. /\ searchNode # None /\ Phase1Solved(searchNode) /\ phase2Node' = MakePhase2Node(SearchedCube)
      /\ start' = start /\ callerCube' = callerCube /\ verdict' = verdict
      /\ searchNode' = searchNode /\ moveCount' = moveCount
    BY DEF StartPhase2, SearchedCube
<1>2. SearchedCube' = SearchedCube
    BY <1>1 DEF SearchedCube
<1>3. InSecondPhase(SearchedCube)
    <2>1. verdict = "None" /\ searchNode = MakeSearchNode(SearchedCube) /\ ValidCube(SearchedCube)
        BY <1>1 DEF IInv, SearchNodeIsMade, AcceptedIsFollowed, Followed
    <2> QED BY <1>1, <2>1, FirstPhaseEnds
<1> QED BY <1>1, <1>2, <1>3 DEF IInv, InputsOK, AcceptedIsFollowed, SearchNodeIsMade, Phase2NodeIsMade, EntryIsReached

\* Both walks turn the caller's cube and move the node of the search.
Walked(move) ==
    /\ CanMove
    /\ verdict = "None" /\ searchNode = MakeSearchNode(SearchedCube)
    /\ searchNode' = Moved(searchNode, move)
    /\ callerCube' = Turned(callerCube, move)
    /\ moveCount' = moveCount + 1
    /\ start' = start /\ verdict' = verdict

LEMMA WalkIsGood ==
    ASSUME IInv, NEW move \in Move, Walked(move)
    PROVE  /\ InputsOK' /\ AcceptedIsFollowed' /\ SearchNodeIsMade' /\ EntryIsReached'
           /\ SearchedCube' = CubieTurned(SearchedCube, move)
           /\ ValidCube(SearchedCube)
           /\ searchNode = MakeSearchNode(SearchedCube) /\ searchNode' = MakeSearchNode(SearchedCube')
<1>1. /\ verdict = "None" /\ searchNode = MakeSearchNode(SearchedCube)
      /\ Followed(callerCube, SearchedCube) /\ ValidCube(SearchedCube)
    BY DEF Walked, IInv, AcceptedIsFollowed, Followed
<1>2. Followed(Turned(callerCube, move), CubieTurned(SearchedCube, move))
      /\ FromStickers(Turned(callerCube, move)).cube = CubieTurned(SearchedCube, move)
    BY <1>1, FollowedTurned
<1>3. SearchedCube' = CubieTurned(SearchedCube, move)
    BY <1>2 DEF Walked, SearchedCube
<1>4. searchNode' = MakeSearchNode(CubieTurned(SearchedCube, move))
    BY <1>1, NodeFollows DEF Walked
<1>5. searchNode' = MakeSearchNode(SearchedCube')
    BY <1>3, <1>4
<1>6. AcceptedIsFollowed'
    <2>1. callerCube' = Turned(callerCube, move)
        BY DEF Walked
    <2> QED BY <1>2, <1>3, <2>1 DEF AcceptedIsFollowed
<1>7. SearchNodeIsMade'
    BY <1>1, <1>5 DEF SearchNodeIsMade, Walked
<1>8. InputsOK'
    <2>1. callerCube \in [Facelet -> Face] /\ callerCube' \in [Facelet -> Face]
        BY TurnedStickers DEF Walked, IInv, InputsOK
    <2>2. moveCount' \in 0..Larger(MaxMoves, 1)
        BY MaxMovesAssumption DEF Walked, CanMove, Larger, IInv, InputsOK
    <2> QED BY <1>1, <2>1, <2>2 DEF Walked, IInv, InputsOK
<1>9. EntryIsReached'
    <2>1. SUFFICES ASSUME start.kind = "none" PROVE EntryIsReached'
        BY DEF Walked, EntryIsReached
    <2> DEFINE n == Len(start.moves) + moveCount
    <2>2. n \in Nat /\ Reached(callerCube, n) /\ Len(start.moves) \in Nat /\ moveCount \in Nat
        BY <2>1, EnteredIs, MaxMovesAssumption DEF IInv, EntryIsReached, InputsOK, Larger
    <2>3. Reached(Turned(callerCube, move), n + 1)
        BY <2>2, TurnedIsReached
    <2>4. Len(start.moves) + (moveCount + 1) = n + 1
        <3>1. \A a, b \in Nat : a + (b + 1) = (a + b) + 1
            OBVIOUS
        <3> QED BY <2>2, <3>1
    <2>5. callerCube' = Turned(callerCube, move) /\ start' = start /\ moveCount' = moveCount + 1
          /\ verdict' = "None"
        BY <1>1 DEF Walked
    <2>6. Len(start'.moves) + moveCount' = n + 1 /\ n + 1 \in Nat
        <3>1. Len(start'.moves) + moveCount' = Len(start.moves) + (moveCount + 1)
            BY <2>5
        <3> HIDE DEF n
        <3>2. n + 1 \in Nat
            BY <2>2
        <3> QED BY <2>4, <3>1, <3>2
    <2> HIDE DEF n
    <2> QED BY <2>3, <2>5, <2>6 DEF EntryIsReached, Reached
<1> QED BY <1>1, <1>3, <1>5, <1>6, <1>7, <1>8, <1>9

LEMMA ApplyMoveIsGood ==
    ASSUME IInv, NEW move \in Move, ApplyMove(move)
    PROVE  IInv'
<1>1. Walked(move) /\ phase2Node' = None
    BY DEF ApplyMove, Walked, IInv, SearchNodeIsMade
<1>2. InputsOK' /\ AcceptedIsFollowed' /\ SearchNodeIsMade' /\ EntryIsReached'
    BY <1>1, WalkIsGood
<1> QED BY <1>1, <1>2 DEF IInv, Phase2NodeIsMade

LEMMA ApplyPhase2MoveIsGood ==
    ASSUME IInv, NEW move \in Phase2Move, ApplyPhase2Move(move)
    PROVE  IInv'
<1>1. phase2Node # None /\ InSecondPhase(SearchedCube) /\ phase2Node = MakePhase2Node(SearchedCube)
    BY DEF ApplyPhase2Move, IInv, Phase2NodeIsMade
<1>2. move \in Move /\ Walked(move) /\ phase2Node' = MovedPhase2(phase2Node, move)
    BY <1>1, MovesOfTheCube DEF ApplyPhase2Move, Walked, IInv, Phase2NodeIsMade
<1>3. /\ InputsOK' /\ AcceptedIsFollowed' /\ SearchNodeIsMade' /\ EntryIsReached'
      /\ SearchedCube' = CubieTurned(SearchedCube, move)
      /\ searchNode' = MakeSearchNode(SearchedCube')
    BY <1>2, WalkIsGood
<1>4. InSecondPhase(CubieTurned(SearchedCube, move))
      /\ phase2Node' = MakePhase2Node(CubieTurned(SearchedCube, move))
    BY <1>1, <1>2, SecondPhaseIsKept, Phase2NodeFollows
<1>5. verdict' = "None"
    BY <1>2 DEF Walked
<1> QED BY <1>3, <1>4, <1>5 DEF IInv, Phase2NodeIsMade

LEMMA StepIsGood ==
    ASSUME IInv, [Next]_vars
    PROVE  IInv'
<1>1. CASE Validate
    BY <1>1, ValidateIsGood
<1>2. CASE StartSearch
    BY <1>2, StartSearchIsGood
<1>3. ASSUME NEW move \in Move, ApplyMove(move) PROVE IInv'
    BY <1>3, ApplyMoveIsGood
<1>4. CASE StartPhase2
    BY <1>4, StartPhase2IsGood
<1>5. ASSUME NEW move \in Phase2Move, ApplyPhase2Move(move) PROVE IInv'
    BY <1>5, ApplyPhase2MoveIsGood
<1>6. CASE UNCHANGED vars
    BY <1>6 DEF vars, IInv, InputsOK, AcceptedIsFollowed, SearchNodeIsMade, Phase2NodeIsMade, EntryIsReached,
                SearchedCube
<1> QED BY <1>1, <1>2, <1>3, <1>4, <1>5, <1>6 DEF Next

\* The nodes stay those of the caller's cube (parse, make and move, solver.cpp and phase2.cpp).
LEMMA AlwaysGood == Spec => []IInv
<1>1. Init => IInv
    BY InitIsGood
<1>2. IInv /\ [Next]_vars => IInv'
    BY StepIsGood
<1> QED BY <1>1, <1>2, PTL DEF Spec

\* The node of the search, as the invariant has it.
LEMMA SearchedNode ==
    ASSUME IInv, searchNode # None
    PROVE  /\ verdict = "None" /\ Followed(callerCube, SearchedCube) /\ ValidCube(SearchedCube)
           /\ searchNode = MakeSearchNode(SearchedCube) /\ searchNode.cube = SearchedCube
           /\ FromStickers(callerCube) = [error |-> "None", cube |-> SearchedCube]
<1>1. /\ verdict = "None" /\ searchNode = MakeSearchNode(SearchedCube) /\ Followed(callerCube, SearchedCube)
    BY DEF IInv, SearchNodeIsMade, AcceptedIsFollowed
<1> QED BY <1>1, NodeHas, FollowedIsParsed DEF Followed

LEMMA Phase2NodeIs ==
    ASSUME IInv, phase2Node # None
    PROVE  /\ InSecondPhase(SearchedCube) /\ phase2Node = MakePhase2Node(SearchedCube)
           /\ searchNode = MakeSearchNode(SearchedCube) /\ searchNode.cube = SearchedCube
BY NodeHas DEF IInv, Phase2NodeIsMade

\* Every coordinate of a node stays within the tables it is looked up in, whatever cube was entered
\* and however it is turned (the arrays of move_tables.cpp and pruning_tables.cpp are not checked).
THEOREM CoordinatesStayInRange == Spec => []TypeOK
<1>1. ASSUME IInv PROVE TypeOK
    <2>1. ASSUME searchNode # None
          PROVE  /\ searchNode.cube \in Cubie
                 /\ \A name \in Coordinate \cap DOMAIN searchNode : searchNode[name] \in 0..Count[name] - 1
                 /\ \A d \in 1..2 : \A name \in DOMAIN searchNode.extra[d] :
                        searchNode.extra[d][name] \in 0..Count[name] - 1
        <3> DEFINE c == SearchedCube
        <3>1. searchNode = MakeSearchNode(c) /\ ValidCube(c) /\ searchNode.cube = c
            BY <1>1, <2>1, SearchedNode
        <3> HIDE DEF c
        <3>2. searchNode.cube \in Cubie
            BY <3>1 DEF ValidCube
        <3>3. ASSUME NEW name \in Coordinate \cap DOMAIN searchNode PROVE searchNode[name] \in 0..Count[name] - 1
            <4>1. name \in SearchCoordinate
                <5>1. name \in SearchCoordinate \cup {"cube", "extra"}
                    BY <3>1, NodeHas
                <5>2. "cube" \notin Coordinate /\ "extra" \notin Coordinate
                    BY DEF Coordinate
                <5> QED BY <5>1, <5>2
            <4>2. name \in Coordinate /\ name # "sliceEdgePermutation"
                BY <4>1 DEF SearchCoordinate
            <4>3. searchNode[name] = Encoded(name, c)
                BY <3>1, <4>1, NodeHas
            <4> QED BY <3>1, <4>2, <4>3, CubesAreIndexed DEF Indexed
        <3>4. ASSUME NEW d \in 1..2, NEW name \in DOMAIN searchNode.extra[d]
              PROVE  searchNode.extra[d][name] \in 0..Count[name] - 1
            <4> DEFINE r == CubieRotated(c, DirectionSymmetry[d])
            <4>1. ValidCube(r)
                BY <3>1, DirectionIsValid
            <4>2. name \in Phase1Coordinate
                BY <3>1, NodeHas
            <4>3. searchNode.extra[d][name] = Encoded(name, r)
                BY <3>1, <4>2, NodeHas
            <4>4. name \in Coordinate /\ name # "sliceEdgePermutation"
                BY <4>2 DEF Phase1Coordinate, Coordinate
            <4> HIDE DEF r
            <4> QED BY <4>1, <4>3, <4>4, CubesAreIndexed DEF Indexed
        <3> QED BY <3>2, <3>3, <3>4
    <2>2. ASSUME phase2Node # None, NEW name \in Coordinate \cap DOMAIN phase2Node
          PROVE  phase2Node[name] \in 0..Count[name] - 1
        <3> DEFINE c == SearchedCube
        <3>1. phase2Node = MakePhase2Node(c) /\ InSecondPhase(c)
            BY <1>1, <2>2, Phase2NodeIs
        <3> HIDE DEF c
        <3>2. name \in Phase2Coordinate
            <4>1. name \in Phase2Coordinate \cup {"cube"}
                BY <2>2, <3>1, Phase2NodeHas
            <4>2. "cube" \notin Coordinate
                BY DEF Coordinate
            <4> QED BY <4>1, <4>2
        <3>3. phase2Node[name] = Encoded(name, c)
            BY <3>1, <3>2, Phase2NodeHas
        <3>4. ValidCube(c) /\ InItsSlice(c) /\ name \in Coordinate
            BY <2>2, <3>1 DEF InSecondPhase
        <3> QED BY <3>3, <3>4, CubesAreIndexed DEF Indexed
    <2>3. InputsOK
        BY <1>1 DEF IInv
    <2> QED BY <2>1, <2>2, <2>3 DEF TypeOK, InputsOK
<1> QED BY <1>1, AlwaysGood, PTL

\* Turning the cubies and turning the stickers commute, whatever accepted pattern was entered
\* (CubieCube::apply beside Cube::apply).
THEOREM CubiesFollow == Spec => []CubieFollowsStickers
<1>1. ASSUME IInv PROVE CubieFollowsStickers
    BY <1>1, SearchedNode DEF CubieFollowsStickers
<1> QED BY <1>1, AlwaysGood, PTL

\* The move tables never lead a coordinate away from the cube, along any of the three axes and in
\* both phases; and the rotated cube is always parsed (movedCoordinates, solver.cpp).
THEOREM CoordinatesFollow == Spec => []CoordinatesFollowCube
<1>1. ASSUME IInv PROVE CoordinatesFollowCube
    <2>1. ASSUME searchNode # None
          PROVE  /\ searchNode = MakeSearchNode(searchNode.cube)
                 /\ \A d \in 1..2 :
                        FromStickers(Rotated(ToStickers(searchNode.cube), DirectionSymmetry[d])).error = "None"
        <3>1. searchNode = MakeSearchNode(SearchedCube) /\ searchNode.cube = SearchedCube /\ ValidCube(SearchedCube)
            BY <1>1, <2>1, SearchedNode
        <3>2. \A d \in 1..2 : DirectionSymmetry[d] \in Direction
            BY DEF Direction
        <3> QED BY <3>1, <3>2, RotatedIsParsed
    <2>2. phase2Node # None => phase2Node = MakePhase2Node(searchNode.cube)
        BY <1>1, Phase2NodeIs
    <2> QED BY <2>1, <2>2 DEF CoordinatesFollowCube
<1> QED BY <1>1, AlwaysGood, PTL

\* No lookup promises more moves than a cube was moved from the solved one, and no test prunes a
\* node that has as many left (nodeLowerBound of solver.cpp, phase2LowerBound of phase2.cpp).
THEOREM PruningStaysSafe == Spec => []PruningIsSafe
<1>1. ASSUME IInv PROVE PruningIsSafe
    <2> DEFINE walked == Len(start.moves) + moveCount
    <2>1. ASSUME searchNode # None, start.kind = "none"
          PROVE  /\ \A profile \in Profile :
                      /\ NodeLowerBound(searchNode, profile) <= walked
                      /\ \A pruneAbove \in walked..Radius : ~Pruned(searchNode, profile, pruneAbove)
                 /\ Phase1LowerBound(searchNode) <= walked
        <3>1. walked \in Nat /\ Reached(callerCube, walked)
            BY <1>1, <2>1 DEF IInv, EntryIsReached
        <3> HIDE DEF walked
        <3>2. PICK c : ValidCube(c) /\ callerCube = ToStickers(c) /\ WithinEverywhere(c, walked)
            BY <3>1 DEF Reached
        <3>3. searchNode = MakeSearchNode(SearchedCube) /\ Reads(callerCube, SearchedCube)
            BY <1>1, <2>1, SearchedNode DEF Followed
        <3>4. c = SearchedCube
            BY <3>2, <3>3, WrittenIsRead, ReadOnce DEF ValidCube
        <3> QED BY <3>1, <3>2, <3>3, <3>4, BoundsAreBelow
    <2>2. ASSUME phase2Node # None
          PROVE  /\ Phase2Solved(phase2Node) = (searchNode.cube = SolvedCubie)
                 /\ Phase2Solved(phase2Node) => Phase2LowerBound(phase2Node) = 0
                 /\ NodePhase2OrderingLowerBound(searchNode) \in 0..Phase2LowerBound(phase2Node)
        <3> DEFINE c == SearchedCube
        <3>1. /\ InSecondPhase(c) /\ phase2Node = MakePhase2Node(c)
              /\ searchNode = MakeSearchNode(c) /\ searchNode.cube = c
            BY <1>1, <2>2, Phase2NodeIs
        <3> HIDE DEF c
        <3>2. Phase2Solved(phase2Node) <=> searchNode.cube = SolvedCubie
            BY <3>1, SecondPhaseEnds
        <3>3. Phase2Solved(phase2Node) \in BOOLEAN
            BY DEF Phase2Solved
        <3>4. Phase2Solved(phase2Node) => Phase2LowerBound(phase2Node) = 0
            BY <3>1, <3>2, SolvedHasNoBound
        <3>5. NodePhase2OrderingLowerBound(searchNode) \in 0..Phase2LowerBound(phase2Node)
            BY <3>1, OrderingIsBelow
        <3> QED BY <3>2, <3>3, <3>4, <3>5
    <2> HIDE DEF walked
    <2>3. PruningIsSafe
        BY <2>1, <2>2 DEF PruningIsSafe, walked
    <2> QED BY <2>3
<1> QED BY <1>1, AlwaysGood, PTL

\* One move takes no more than one from a bound, of any profile and in either phase.
THEOREM BoundsStayConsistent == Spec => BoundsAreConsistent
<1> DEFINE Consistent ==
        moveCount' = moveCount + 1 =>
            /\ \A profile \in Profile : NodeLowerBound(searchNode, profile) <= NodeLowerBound(searchNode', profile) + 1
            /\ Phase1LowerBound(searchNode) <= Phase1LowerBound(searchNode') + 1
            /\ phase2Node # None => Phase2LowerBound(phase2Node) <= Phase2LowerBound(phase2Node') + 1
<1>1. ASSUME IInv, Next PROVE Consistent
    <2>1. moveCount \in Nat
        BY <1>1, MaxMovesAssumption DEF IInv, InputsOK, Larger
    <2>2. ASSUME moveCount' = moveCount PROVE Consistent
        BY <2>1, <2>2
    <2>3. ASSUME NEW move \in Move, Walked(move)
          PROVE  /\ \A profile \in Profile :
                       NodeLowerBound(searchNode, profile) <= NodeLowerBound(searchNode', profile) + 1
                 /\ Phase1LowerBound(searchNode) <= Phase1LowerBound(searchNode') + 1
        <3>1. /\ ValidCube(SearchedCube) /\ searchNode = MakeSearchNode(SearchedCube)
              /\ searchNode' = MakeSearchNode(CubieTurned(SearchedCube, move))
            BY <1>1, <2>3, WalkIsGood
        <3> QED BY <3>1, BoundsOneLess
    <2>4. CASE Validate \/ StartSearch \/ StartPhase2
        BY <2>2, <2>4 DEF Validate, StartSearch, StartPhase2
    <2>5. ASSUME NEW move \in Move, ApplyMove(move) PROVE Consistent
        <3>1. Walked(move) /\ phase2Node = None
            BY <1>1, <2>5 DEF ApplyMove, Walked, IInv, SearchNodeIsMade
        <3> QED BY <2>3, <3>1
    <2>6. ASSUME NEW move \in Phase2Move, ApplyPhase2Move(move) PROVE Consistent
        <3>1. move \in Move /\ Walked(move)
            BY <1>1, <2>6, MovesOfTheCube DEF ApplyPhase2Move, Walked, IInv, Phase2NodeIsMade
        <3>2. /\ InSecondPhase(SearchedCube) /\ phase2Node = MakePhase2Node(SearchedCube)
              /\ phase2Node' = MovedPhase2(phase2Node, move)
            BY <1>1, <2>6, Phase2NodeIs DEF ApplyPhase2Move
        <3>3. phase2Node' = MakePhase2Node(CubieTurned(SearchedCube, move))
            BY <3>2, Phase2NodeFollows
        <3>4. Phase2LowerBound(phase2Node) <= Phase2LowerBound(phase2Node') + 1
            BY <3>2, <3>3, Phase2OneLess
        <3> QED BY <2>3, <3>1, <3>4
    <2> QED BY <1>1, <2>4, <2>5, <2>6 DEF Next
<1>2. IInv /\ [Next]_vars => [Consistent]_vars
    BY <1>1
<1>3. Spec => [][Consistent]_vars
    BY <1>2, AlwaysGood, PTL DEF Spec
<1> QED BY <1>3 DEF BoundsAreConsistent

\* What an accepted pattern is parsed to keeps all its stickers but two of a corner, and turning
\* keeps it so (CubieCube::fromStickers).
THEOREM StickersAreKept == Spec => []ParseKeepsStickers
<1>1. ASSUME IInv, searchNode # None, NEW i \in Facelet, ToStickers(searchNode.cube)[i] # callerCube[i]
      PROVE  PlaceOf[i].kind = "corner" /\ {ToStickers(searchNode.cube)[i], callerCube[i]} \cap {U, D} = {}
    <2> DEFINE c == SearchedCube
               w == ToStickers(c)
               s == callerCube
    <2>1. searchNode.cube = c /\ Followed(s, c) /\ c \in Cubie
        BY <1>1, SearchedNode DEF ValidCube
    <2>2. /\ s \in [Facelet -> Face] /\ Reads(s, c) /\ UpDownCorners(s)
          /\ \A face \in Face : s[Centre(face)] = face
        BY <2>1 DEF Followed
    <2> HIDE DEF c
    <2>3. w[i] # s[i]
        BY <1>1, <2>1
    <2>4. ASSUME NEW p \in Edge, NEW k \in 1..2, i = EdgeFacelets[p][k] PROVE FALSE
        BY <2>1, <2>2, <2>3, <2>4, EdgesShowTheirColors, WrittenStickers
    <2>5. ASSUME NEW face \in Face, i = Centre(face) PROVE FALSE
        <3>1. w[i] = SolvedStickers[Centre(face)] /\ s[i] = face
            BY <2>1, <2>2, <2>5, WrittenStickers
        <3>2. SolvedStickers[Centre(face)] = face
            <4>1. Centre(face) \in Facelet /\ (face * 9 + 4) \div 9 = face
                BY CentresAre DEF Face
            <4> QED BY <4>1 DEF SolvedStickers, Centre
        <3> QED BY <2>3, <3>1, <3>2
    <2>6. PlaceOf[i].kind = "corner" /\ \E p \in Corner, k \in 1..3 : i = CornerFacelets[p][k]
        BY <2>4, <2>5, PlacesOfFacelets
    <2>7. PICK p \in Corner, k \in 1..3 : i = CornerFacelets[p][k]
        BY <2>6
    <2> DEFINE colors == ColorsAt(s, CornerFacelets[p])
    <2>8. colors \in [1..3 -> Face] /\ colors[k] = s[i] /\ OneUpDown(colors)
        <3>1. colors = [j \in 1..3 |-> s[CornerFacelets[p][j]]] /\ colors \in [1..3 -> Face]
            BY <2>2, ColorsAtPlaces
        <3>2. OneUpDown(colors)
            BY <2>2 DEF UpDownCorners
        <3> HIDE DEF colors
        <3> QED BY <2>7, <3>1, <3>2
    <2>9. CornerOf(colors) = [error |-> "None", cubie |-> c.cp[p], turn |-> c.co[p]]
        BY <2>2 DEF Reads, CornerRead
    <2> HIDE DEF colors
    <2>10. CornerOf(colors).error = "None" /\ CornerOf(colors).cubie = c.cp[p] /\ CornerOf(colors).turn = c.co[p]
        BY <2>9
    <2>11. Written(CornerColors[c.cp[p]], c.co[p], k) # colors[k] =>
               {Written(CornerColors[c.cp[p]], c.co[p], k), colors[k]} \cap {U, D} = {}
        BY <2>8, <2>10, CornersAreRead
    <2>12. w[i] = Written(CornerColors[c.cp[p]], c.co[p], k)
        BY <2>1, <2>7, WrittenStickers
    <2>13. {w[i], s[i]} \cap {U, D} = {}
        BY <2>3, <2>8, <2>11, <2>12
    <2> QED BY <2>1, <2>6, <2>13
<1>2. ASSUME IInv PROVE ParseKeepsStickers
    BY <1>1, <1>2 DEF ParseKeepsStickers
<1> QED BY <1>2, AlwaysGood, PTL

\* Where the caller's cube is that of a physical cube, this is the one searched, and the two are
\* solved together.
LEMMA SearchedIsShown ==
    ASSUME IInv, searchNode # None, NEW c, ValidCube(c), callerCube = ToStickers(c)
    PROVE  /\ searchNode.cube = c
           /\ StickersSolved(callerCube) <=> searchNode.cube = SolvedCubie
<1>1. searchNode.cube = SearchedCube /\ Reads(callerCube, SearchedCube)
    BY SearchedNode DEF Followed
<1>2. c = SearchedCube
    BY <1>1, WrittenIsRead, ReadOnce DEF ValidCube
<1>3. SolvedCubie \in Cubie /\ ToStickers(SolvedCubie) = SolvedStickers
    BY SolvedIsAccepted, SolvedCubieIs
<1>4. callerCube = SolvedStickers => c = SolvedCubie
    BY <1>3, WrittenIsRead, ReadOnce DEF ValidCube
<1> QED BY <1>1, <1>2, <1>3, <1>4 DEF StickersSolved

\* A cube as moves bring it about is never refused, is parsed to the cubies that show just its
\* stickers, and is solved by the one when it is by the other (Cube::validate, Cube::isSolved).
ReachableIsAccepted ==
    start.kind = "none" =>
        /\ verdict \in {"unchecked", "None"}
        /\ searchNode # None =>
             /\ ToStickers(searchNode.cube) = callerCube
             /\ StickersSolved(callerCube) <=> searchNode.cube = SolvedCubie

THEOREM ReachableStaysAccepted == Spec => []ReachableIsAccepted
<1>1. ASSUME IInv PROVE ReachableIsAccepted
    <2>1. SUFFICES ASSUME start.kind = "none" PROVE ReachableIsAccepted
        BY DEF ReachableIsAccepted
    <2>2. /\ verdict \in {"unchecked", "None"}
          /\ \E c : ValidCube(c) /\ callerCube = ToStickers(c)
        BY <1>1, <2>1 DEF IInv, EntryIsReached, Reached
    <2>3. ASSUME searchNode # None
          PROVE  /\ ToStickers(searchNode.cube) = callerCube
                 /\ StickersSolved(callerCube) <=> searchNode.cube = SolvedCubie
        <3>1. PICK c : ValidCube(c) /\ callerCube = ToStickers(c)
            BY <2>2
        <3> QED BY <1>1, <2>3, <3>1, SearchedIsShown
    <2> QED BY <2>2, <2>3 DEF ReachableIsAccepted
<1> QED BY <1>1, AlwaysGood, PTL

\* The verdict is still that of the cube as it was turned since.
VerdictHolds == verdict # "unchecked" => verdict = StickersError(callerCube)

LEMMA VerdictStays ==
    ASSUME IInv, VerdictHolds, [Next]_vars
    PROVE  VerdictHolds'
<1>1. CASE Validate
    BY <1>1 DEF Validate, VerdictHolds
<1>2. ASSUME NEW move \in Move, callerCube' = Turned(callerCube, move), verdict' = verdict, verdict = "None"
      PROVE  VerdictHolds'
    <2>1. callerCube \in [Facelet -> Face] /\ StickersError(callerCube) = "None"
        BY <1>2 DEF IInv, InputsOK, VerdictHolds
    <2> QED BY <1>2, <2>1, TurnedIsAccepted DEF VerdictHolds
<1>3. CASE StartSearch \/ StartPhase2 \/ UNCHANGED vars
    BY <1>3 DEF StartSearch, StartPhase2, vars, VerdictHolds
<1>4. ASSUME NEW move \in Move, ApplyMove(move) PROVE VerdictHolds'
    <2>1. searchNode # None /\ callerCube' = Turned(callerCube, move) /\ verdict' = verdict
        BY <1>4 DEF ApplyMove
    <2> QED BY <1>2, <2>1, SearchedNode
<1>5. ASSUME NEW move \in Phase2Move, ApplyPhase2Move(move) PROVE VerdictHolds'
    <2>1. phase2Node # None /\ callerCube' = Turned(callerCube, move) /\ verdict' = verdict
        BY <1>5 DEF ApplyPhase2Move
    <2>2. verdict = "None" /\ move \in Move
        BY <2>1, MovesOfTheCube DEF IInv, Phase2NodeIsMade
    <2> QED BY <1>2, <2>1, <2>2
<1> QED BY <1>1, <1>3, <1>4, <1>5 DEF Next

\* The stickers of a physical cube are accepted, before and after any moves, and of what is accepted
\* every place shows the cubie that some physical cube has there (Cube::validate).
VerdictIsRight ==
    verdict # "unchecked" =>
        /\ (\E c \in Cubie : Physical(c) /\ callerCube = ToStickers(c)) => verdict = "None"
        /\ verdict = "None" => \E c \in Cubie : Physical(c) /\ Shows(callerCube, c)

\* Validation neither refuses the stickers of a physical cube, nor accepts a pattern that shows none
\* (Cube::validate), whatever is entered.
THEOREM ValidationIsRight == Spec => []VerdictIsRight
<1>1. ASSUME IInv, VerdictHolds PROVE VerdictIsRight
    <2>1. SUFFICES ASSUME verdict # "unchecked" PROVE VerdictIsRight
        BY DEF VerdictIsRight
    <2>2. verdict = StickersError(callerCube) /\ callerCube \in [Facelet -> Face]
        BY <1>1, <2>1 DEF VerdictHolds, IInv, InputsOK
    <2>3. ASSUME NEW c \in Cubie, Physical(c), callerCube = ToStickers(c) PROVE verdict = "None"
        BY <2>2, <2>3, PhysicalIsValid, PhysicalIsAccepted
    <2>4. verdict = "None" => \E c \in Cubie : Physical(c) /\ Shows(callerCube, c)
        BY <2>2, AcceptedShows
    <2> QED BY <2>3, <2>4 DEF VerdictIsRight
<1>2. Init => VerdictHolds
    BY DEF Init, VerdictHolds
<1>3. IInv /\ VerdictHolds /\ [Next]_vars => VerdictHolds'
    BY VerdictStays
<1> QED BY <1>1, <1>2, <1>3, AlwaysGood, PTL DEF Spec

\* The labels of the entries are true: a legal one is a physical cube's, a mistake shows none.
KindsAreTrue ==
    \A begin \in Starts :
        /\ begin.kind = "legal" => \E c \in Cubie : Physical(c) /\ Entered(begin) = ToStickers(c)
        /\ begin.kind \notin {"none", "legal", "miscoloured"} =>
              \A c \in Cubie : Physical(c) => ~Shows(Entered(begin), c)

\* The verdict on an entry so labelled; a physical cube stays one as it is turned.
EntryIsJudged ==
    /\ verdict = "unchecked" => callerCube = Entered(start)
    /\ start.kind = "legal" =>
          verdict \in {"unchecked", "None"} /\ \E c \in Cubie : ValidCube(c) /\ callerCube = ToStickers(c)
    /\ start.kind \notin {"none", "legal", "miscoloured"} => verdict # "None"

LEMMA EntryJudgedAtFirst ==
    ASSUME KindsAreTrue, Init
    PROVE  EntryIsJudged
<1>1. start \in Starts /\ callerCube = Entered(start) /\ verdict = "unchecked"
    BY DEF Init
<1>2. start.kind = "legal" => \E c \in Cubie : ValidCube(c) /\ callerCube = ToStickers(c)
    BY <1>1, PhysicalIsValid DEF KindsAreTrue
<1> QED BY <1>1, <1>2 DEF EntryIsJudged

LEMMA EntryStaysJudged ==
    ASSUME KindsAreTrue, IInv, EntryIsJudged, [Next]_vars
    PROVE  EntryIsJudged'
<1>1. CASE Validate
    <2>1. /\ verdict = "unchecked" /\ verdict' = StickersError(callerCube)
          /\ start' = start /\ callerCube' = callerCube
        BY <1>1 DEF Validate
    <2>2. callerCube = Entered(start) /\ callerCube \in [Facelet -> Face] /\ start \in Starts
        BY <2>1 DEF EntryIsJudged, IInv, InputsOK
    <2>3. verdict' # "unchecked"
        BY <2>1, <2>2, VerdictsAre
    <2>4. start.kind = "legal" =>
              verdict' = "None" /\ \E c \in Cubie : ValidCube(c) /\ callerCube = ToStickers(c)
        BY <2>1, PhysicalIsAccepted DEF EntryIsJudged
    <2>5. start.kind \notin {"none", "legal", "miscoloured"} => verdict' # "None"
        <3>1. SUFFICES ASSUME start.kind \notin {"none", "legal", "miscoloured"}, verdict' = "None" PROVE FALSE
            OBVIOUS
        <3>2. PICK c \in Cubie : Physical(c) /\ Shows(callerCube, c)
            BY <2>1, <2>2, <3>1, AcceptedShows
        <3>3. ~Shows(Entered(start), c)
            BY <2>2, <3>1, <3>2 DEF KindsAreTrue
        <3> QED BY <2>2, <3>2, <3>3
    <2> QED BY <2>1, <2>3, <2>4, <2>5 DEF EntryIsJudged
<1>2. ASSUME NEW move \in Move, callerCube' = Turned(callerCube, move), start' = start, verdict' = verdict,
             verdict = "None"
      PROVE  EntryIsJudged'
    <2>1. ASSUME start.kind = "legal" PROVE \E c \in Cubie : ValidCube(c) /\ callerCube' = ToStickers(c)
        <3>1. PICK c \in Cubie : ValidCube(c) /\ callerCube = ToStickers(c)
            BY <2>1 DEF EntryIsJudged
        <3>2. ValidCube(CubieTurned(c, move)) /\ ToStickers(CubieTurned(c, move)) = Turned(callerCube, move)
            BY <3>1, TurnedIsValid, TurnedWritten
        <3>3. CubieTurned(c, move) \in Cubie
            BY <3>2 DEF ValidCube
        <3> QED BY <1>2, <3>2, <3>3
    <2> QED BY <1>2, <2>1 DEF EntryIsJudged
<1>3. ASSUME UNCHANGED <<start, callerCube, verdict>> PROVE EntryIsJudged'
    BY <1>3 DEF EntryIsJudged
<1>4. CASE StartSearch \/ StartPhase2 \/ UNCHANGED vars
    BY <1>3, <1>4 DEF StartSearch, StartPhase2, vars
<1>5. ASSUME NEW move \in Move, ApplyMove(move) PROVE EntryIsJudged'
    <2>1. /\ searchNode # None /\ callerCube' = Turned(callerCube, move)
          /\ start' = start /\ verdict' = verdict
        BY <1>5 DEF ApplyMove
    <2> QED BY <1>2, <2>1, SearchedNode
<1>6. ASSUME NEW move \in Phase2Move, ApplyPhase2Move(move) PROVE EntryIsJudged'
    <2>1. /\ phase2Node # None /\ callerCube' = Turned(callerCube, move)
          /\ start' = start /\ verdict' = verdict
        BY <1>6 DEF ApplyPhase2Move
    <2>2. verdict = "None" /\ move \in Move
        BY <2>1, MovesOfTheCube DEF IInv, Phase2NodeIsMade
    <2> QED BY <1>2, <2>1, <2>2
<1> QED BY <1>1, <1>4, <1>5, <1>6 DEF Next

\* Of the patterns a caller may enter, physical cubes are accepted and no pattern that shows none,
\* and what is accepted is solved by its stickers when it is by its cubies (Cube::validate,
\* Cube::isSolved).  KindsAreTrue says what the labels of the entries mean; a run's own are checked.
THEOREM EntriesAreJudged ==
    ASSUME KindsAreTrue
    PROVE  Spec => []EntriesJudged
<1>1. IInv /\ ReachableIsAccepted /\ EntryIsJudged /\ ParseKeepsStickers => EntriesJudged
    <2>1. SUFFICES ASSUME IInv, ReachableIsAccepted, EntryIsJudged, ParseKeepsStickers PROVE EntriesJudged
        OBVIOUS
    <2>2. ASSUME verdict # "unchecked", start.kind # "miscoloured"
          PROVE  (verdict = "None") = (start.kind \in {"none", "legal"})
        BY <2>1, <2>2 DEF ReachableIsAccepted, EntryIsJudged
    <2>3. ASSUME searchNode # None, start.kind # "miscoloured"
          PROVE  StickersSolved(callerCube) = (searchNode.cube = SolvedCubie)
        <3>1. verdict = "None"
            BY <2>1, <2>3, SearchedNode
        <3>2. start.kind \in {"none", "legal"}
            BY <2>1, <2>3, <3>1 DEF EntryIsJudged
        <3>3. StickersSolved(callerCube) <=> searchNode.cube = SolvedCubie
            BY <2>1, <2>3, <3>2, SearchedIsShown DEF ReachableIsAccepted, EntryIsJudged
        <3> QED BY <3>3 DEF StickersSolved
    <2> QED BY <2>1, <2>2, <2>3 DEF EntriesJudged
<1>2. Init => EntryIsJudged
    BY EntryJudgedAtFirst
<1>3. IInv /\ EntryIsJudged /\ [Next]_vars => EntryIsJudged'
    BY EntryStaysJudged
<1> QED BY <1>1, <1>2, <1>3, AlwaysGood, ReachableStaysAccepted, StickersAreKept, PTL DEF Spec
=============================================================================
