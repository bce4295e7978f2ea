------------------------- MODULE PruningBuildProofs --------------------------
(***************************************************************************)
(* Proofs about PruningBuild, for every table the assumptions admit: the   *)
(* bytes never overflow, and what is built never exceeds the distances.    *)
(***************************************************************************)
EXTENDS PruningBuild, LargestLookup, PuzzleProofs

-----------------------------------------------------------------------------
(* The inductive invariant. *)

Visited(e) == table[e] # Unvisited

\* The search has begun at the solved value.
Started == table[Start(job)] = 0

\* The queue is in order of depth, and spans two depths at most.
FrontierInOrder ==
    \A i, k \in DOMAIN frontier :
        /\ i < k => table[frontier[i]] <= table[frontier[k]]
        /\ table[frontier[k]] <= table[frontier[i]] + 1

\* The entry being expanded is no deeper than any in the queue, and its successors no shallower.
CurrentComesFirst ==
    expanding =>
        /\ Visited(current)
        /\ nextDepth = table[current] + 1
        /\ \A i \in DOMAIN frontier :
               table[current] <= table[frontier[i]] /\ table[frontier[i]] <= nextDepth

\* An entry visited is in the queue, or being expanded, its first successors visited, or expanded.
NothingLost ==
    \A e \in Entry(job) : Visited(e) =>
        \/ e \in Range(frontier)
        \/ expanding /\ e = current /\ (\A i \in 1..next - 1 : Visited(Follow[job][e][i]))
        \/ \A f \in Range(Follow[job][e]) : Visited(f)

\* An entry visited is no deeper than any of its values, holds one that can be solved, and is as
\* deep as they are where they are equally far.
NoDeeper == \A v \in Value(job) : Visited(EntryOf[job][v]) => table[EntryOf[job][v]] <= Distance[job][v]
OnlyReachable == \A e \in Entry(job) : Visited(e) => e \in Reachable(job)
NoShallower ==
    Uniform(job) => \A v \in Value(job) :
        Visited(EntryOf[job][v]) => Distance[job][v] <= table[EntryOf[job][v]]

IInv ==
    /\ TypeOK
    /\ Started
    /\ FrontierInOrder
    /\ CurrentComesFirst
    /\ NothingLost
    /\ NoDeeper
    /\ OnlyReachable
    /\ NoShallower

-----------------------------------------------------------------------------
(* About the constants. *)

LEMMA DepthStep == \A depth \in 0..254 : DepthAfter(depth) = depth + 1
BY DEF DepthAfter

LEMMA ByteIsInteger == \A b \in Byte : b \in Int /\ b <= 255
BY DEF Byte

LEMMA Types ==
    ASSUME NEW j \in Job
    PROVE  /\ 0 \in Value(j)
           /\ EntryOf[j] \in [Value(j) -> Entry(j)]
           /\ Follow[j] \in [Entry(j) -> Seq(Entry(j))]
           /\ Neighbours[j] \in [Value(j) -> Seq(Value(j))]
           /\ Distance[j] \in [Value(j) -> Byte]
           /\ Start(j) \in Entry(j)
BY TableAssumption, DistanceAssumption DEF Value, Start

\* A move leads from an entry to the entries the builder looks at.
LEMMA MoveIsFollowed ==
    ASSUME NEW j \in Job, NEW p \in Value(j), NEW n \in Range(Neighbours[j][p])
    PROVE  EntryOf[j][n] \in Range(Follow[j][EntryOf[j][p]])
<1>1. EntryOf[j][p] \in Entry(j)
    BY Types
<1>2. p \in ValuesOf(j, EntryOf[j][p])
    BY DEF ValuesOf
<1>3. EntryOf[j][n] \in LedTo(j, p)
    BY DEF LedTo
<1>4. Range(Follow[j][EntryOf[j][p]]) = UNION {LedTo(j, v) : v \in ValuesOf(j, EntryOf[j][p])}
    BY <1>1, FollowAssumption
<1> QED BY <1>2, <1>3, <1>4

\* And every entry it looks at is one a move leads to.
LEMMA FollowedIsMove ==
    ASSUME NEW j \in Job, NEW e \in Entry(j), NEW f \in Range(Follow[j][e])
    PROVE  \E v \in Value(j) : EntryOf[j][v] = e /\ \E n \in Range(Neighbours[j][v]) : EntryOf[j][n] = f
<1>1. Range(Follow[j][e]) = UNION {LedTo(j, v) : v \in ValuesOf(j, e)}
    BY FollowAssumption
<1>2. PICK v \in ValuesOf(j, e) : f \in LedTo(j, v)
    BY <1>1
<1> QED BY <1>2 DEF ValuesOf, LedTo

\* While a value that can be solved is not visited, an entry nearer than it has a successor that
\* is not.
LEMMA NearerUnfinished ==
    ASSUME NEW j \in Job, NEW t \in [Entry(j) -> Byte], t[Start(j)] # Unvisited,
           NEW v \in Value(j), t[EntryOf[j][v]] = Unvisited, Distance[j][v] # Unvisited
    PROVE  \E p \in Value(j) :
               /\ Distance[j][p] + 1 <= Distance[j][v]
               /\ t[EntryOf[j][p]] # Unvisited
               /\ \E f \in Range(Follow[j][EntryOf[j][p]]) : t[f] = Unvisited
<1> DEFINE Left == {w \in Value(j) : t[EntryOf[j][w]] = Unvisited /\ Distance[j][w] # Unvisited}
           Depths == {Distance[j][w] : w \in Left}
<1>1. Distance[j] \in [Value(j) -> Byte]
    BY Types
<1>2. v \in Left
    OBVIOUS
<1>3. Depths \in SUBSET Nat /\ Depths # {}
    BY <1>1, <1>2 DEF Byte
<1> HIDE DEF Depths
<1>4. PICK m \in Depths : \A k \in Depths : m <= k
    BY <1>3, LeastNatural
<1>5. PICK w \in Left : m = Distance[j][w]
    BY <1>4 DEF Depths
<1>6. w # 0
    BY <1>5 DEF Start
<1>7. PICK p \in Value(j) : Distance[j][p] + 1 = Distance[j][w] /\ w \in Range(Neighbours[j][p])
    BY <1>5, <1>6, DistanceAssumption
<1>8. Distance[j][p] < m /\ Distance[j][p] # Unvisited
    BY <1>1, <1>5, <1>7 DEF Byte, Unvisited
<1>9. p \notin Left
  <2> SUFFICES ASSUME p \in Left PROVE FALSE
    OBVIOUS
  <2>1. Distance[j][p] \in Depths
    BY DEF Depths
  <2>2. m <= Distance[j][p] /\ m \in Nat /\ Distance[j][p] \in Nat
    BY <2>1, <1>3, <1>4
  <2> QED BY <2>2, <1>8
<1>10. t[EntryOf[j][p]] # Unvisited
    BY <1>8, <1>9
<1>11. EntryOf[j][w] \in Range(Follow[j][EntryOf[j][p]]) /\ t[EntryOf[j][w]] = Unvisited
    BY <1>5, <1>7, MoveIsFollowed
<1>12. m <= Distance[j][v]
    BY <1>2, <1>4 DEF Depths
<1>13. Distance[j][p] + 1 <= Distance[j][v]
    BY <1>5, <1>7, <1>12
<1> QED BY <1>10, <1>11, <1>13

-----------------------------------------------------------------------------
(* About sequences. *)

LEMMA TailOf ==
    ASSUME NEW S, NEW q \in Seq(S), q # <<>>
    PROVE  /\ Head(q) = q[1] /\ q[1] \in S /\ 1 \in DOMAIN q
           /\ Tail(q) \in Seq(S)
           /\ \A i \in DOMAIN Tail(q) : i + 1 \in DOMAIN q /\ Tail(q)[i] = q[i + 1] /\ i \in Nat /\ i > 0
           /\ \A e \in Range(q) : e = q[1] \/ e \in Range(Tail(q))
<1>1. Len(q) \in Nat \ {0} /\ DOMAIN q = 1..Len(q) /\ q[1] \in S /\ Head(q) = q[1] /\ Tail(q) \in Seq(S)
    OBVIOUS
<1>2. DOMAIN Tail(q) = 1..Len(q) - 1 /\ \A i \in DOMAIN Tail(q) : Tail(q)[i] = q[i + 1]
    BY <1>1
<1>3. \A e \in Range(q) : e = q[1] \/ e \in Range(Tail(q))
  <2> TAKE e \in Range(q)
  <2>1. PICK i \in 1..Len(q) : e = q[i]
    BY <1>1 DEF Range
  <2>2. CASE i = 1
    BY <2>1, <2>2
  <2>3. CASE i # 1
    <3>1. i - 1 \in DOMAIN Tail(q) /\ i - 1 + 1 = i
      BY <1>1, <1>2, <2>3
    <3>2. Tail(q)[i - 1] = e
      BY <1>2, <2>1, <3>1
    <3> QED BY <3>1, <3>2 DEF Range
  <2> QED BY <2>2, <2>3
<1> QED BY <1>1, <1>2, <1>3

LEMMA AppendOf ==
    ASSUME NEW S, NEW q \in Seq(S), NEW x \in S
    PROVE  /\ Append(q, x) \in Seq(S)
           /\ \A i \in DOMAIN Append(q, x) :
                  /\ i \in Nat
                  /\ \/ i \in DOMAIN q /\ Append(q, x)[i] = q[i]
                     \/ i = Len(q) + 1 /\ Append(q, x)[i] = x
           /\ \A i \in DOMAIN q : i < Len(q) + 1
           /\ Range(q) \subseteq Range(Append(q, x)) /\ x \in Range(Append(q, x))
<1>1. Len(q) \in Nat /\ DOMAIN q = 1..Len(q) /\ DOMAIN Append(q, x) = 1..Len(q) + 1
    OBVIOUS
<1>2. Append(q, x)[Len(q) + 1] = x /\ \A i \in 1..Len(q) : Append(q, x)[i] = q[i]
    BY <1>1
<1>3. Range(q) \subseteq Range(Append(q, x)) /\ x \in Range(Append(q, x))
    BY <1>1, <1>2 DEF Range
<1>4. Append(q, x) \in Seq(S)
    OBVIOUS
<1>5. \A i \in DOMAIN Append(q, x) : i \in Nat /\ (i \in 1..Len(q) \/ i = Len(q) + 1)
    BY <1>1
<1> QED BY <1>1, <1>2, <1>3, <1>4, <1>5

-----------------------------------------------------------------------------
(* The first state. *)

LEMMA InitEstablishes == Init => IInv
<1> SUFFICES ASSUME Init PROVE IInv
    OBVIOUS
<1>1. job \in Job /\ Start(job) \in Entry(job) /\ EntryOf[job] \in [Value(job) -> Entry(job)]
      /\ Distance[job] \in [Value(job) -> Byte] /\ Follow[job] \in [Entry(job) -> Seq(Entry(job))] /\ 0 \in Value(job)
    BY Types DEF Init
<1>2. table[Start(job)] = 0 /\ \A e \in Entry(job) : Visited(e) => e = Start(job)
    BY <1>1 DEF Init, Visited, Unvisited
<1>3. frontier = <<Start(job)>> /\ DOMAIN frontier = {1} /\ frontier[1] = Start(job) /\ ~expanding
    BY DEF Init
<1>4. TypeOK
  <2>1. table \in [Entry(job) -> Byte]
    BY <1>1 DEF Init, Byte, Unvisited
  <2>2. Len(Follow[job][current]) \in Nat
    BY <1>1 DEF Init
  <2>3. next = 1 /\ next \in 1..Len(Follow[job][current]) + 1 /\ nextDepth = 0 /\ nextDepth \in Byte
    BY <2>2 DEF Init, Byte
  <2>4. frontier \in Seq(Entry(job)) /\ current = Start(job)
    BY <1>1, <1>3 DEF Init
  <2>5. \A i \in DOMAIN frontier : table[frontier[i]] # Unvisited
    BY <1>2, <1>3 DEF Unvisited
  <2>6. expanding \in BOOLEAN /\ job \in Job /\ current \in Entry(job)
    BY <1>1, <2>4 DEF Init
  <2> QED BY <2>1, <2>3, <2>4, <2>5, <2>6 DEF TypeOK
<1>5. Started
    BY <1>2 DEF Started
<1>6. FrontierInOrder
    BY <1>2, <1>3 DEF FrontierInOrder
<1>7. CurrentComesFirst
    BY <1>3 DEF CurrentComesFirst
<1>8. NothingLost
    BY <1>2, <1>3 DEF NothingLost, Range
<1>9. NoDeeper
  <2> SUFFICES ASSUME NEW v \in Value(job), Visited(EntryOf[job][v])
               PROVE  table[EntryOf[job][v]] <= Distance[job][v]
    BY DEF NoDeeper
  <2>1. EntryOf[job][v] = Start(job) /\ Distance[job][v] \in 0..255
    BY <1>1, <1>2 DEF Byte
  <2> QED BY <1>2, <2>1
<1>10. Distance[job][0] = 0
    BY <1>1, DistanceAssumption
<1>11. OnlyReachable
    BY <1>1, <1>2, <1>10 DEF OnlyReachable, Reachable, Start, Unvisited
<1>12. NoShallower
  <2> SUFFICES ASSUME Uniform(job), NEW v \in Value(job), Visited(EntryOf[job][v])
               PROVE  Distance[job][v] <= table[EntryOf[job][v]]
    BY DEF NoShallower
  <2>1. EntryOf[job][v] = EntryOf[job][0]
    BY <1>1, <1>2 DEF Start
  <2>2. Distance[job][v] = Distance[job][0]
    BY <1>1, <2>1 DEF Uniform
  <2> QED BY <1>2, <1>10, <2>1, <2>2 DEF Start
<1> QED BY <1>4, <1>5, <1>6, <1>7, <1>8, <1>9, <1>11, <1>12 DEF IInv

-----------------------------------------------------------------------------
(* The steps. *)

\* A depth that is written fits: an entry visited is less than 255 moves away.
LEMMA VisitedDepths ==
    ASSUME IInv, NEW e \in Entry(job), Visited(e)
    PROVE  table[e] \in 0..254
BY DEF IInv, TypeOK, Visited, Byte, Unvisited

LEMMA PopPreserves == IInv /\ Pop => IInv'
<1> SUFFICES ASSUME IInv, Pop PROVE IInv'
    OBVIOUS
<1> DEFINE head == frontier[1]
<1>1. /\ job \in Job /\ table \in [Entry(job) -> Byte] /\ frontier \in Seq(Entry(job)) /\ frontier # <<>>
      /\ \A i \in DOMAIN frontier : Visited(frontier[i])
      /\ ~expanding /\ expanding' = TRUE /\ next' = 1
      /\ job' = job /\ table' = table /\ frontier' = Tail(frontier)
    BY DEF IInv, TypeOK, Pop, Visited
<1>2. /\ Head(frontier) = head /\ head \in Entry(job) /\ 1 \in DOMAIN frontier /\ frontier' \in Seq(Entry(job))
      /\ \A i \in DOMAIN frontier' :
             i + 1 \in DOMAIN frontier /\ frontier'[i] = frontier[i + 1] /\ i \in Nat /\ i > 0
      /\ \A e \in Range(frontier) : e = head \/ e \in Range(frontier')
    BY <1>1, TailOf
<1>3. current' = head /\ nextDepth' = DepthAfter(table[head]) /\ Visited(head)
    BY <1>1, <1>2 DEF Pop
<1>4. table[head] \in 0..254 /\ nextDepth' = table[head] + 1
    BY <1>2, <1>3, VisitedDepths, DepthStep
<1>5. TypeOK'
  <2>1. Len(Follow[job][head]) \in Nat
    BY <1>1, <1>2, Types
  <2>2. next' \in 1..Len(Follow[job'][current']) + 1
    BY <1>1, <1>3, <2>1
  <2>3. \A i \in DOMAIN frontier' : table'[frontier'[i]] # Unvisited
    BY <1>1, <1>2 DEF Visited
  <2>4. nextDepth' \in Byte
    BY <1>4 DEF Byte
  <2> QED BY <1>1, <1>2, <1>3, <2>2, <2>3, <2>4 DEF TypeOK, Entry
<1>6. Started' /\ NoDeeper' /\ OnlyReachable' /\ NoShallower'
    BY <1>1 DEF IInv, Started, NoDeeper, OnlyReachable, NoShallower, Visited, Start
<1>7. FrontierInOrder'
    BY <1>1, <1>2 DEF IInv, FrontierInOrder
<1>8. CurrentComesFirst'
  <2> SUFFICES ASSUME NEW i \in DOMAIN frontier'
               PROVE  table[head] <= table[frontier'[i]] /\ table[frontier'[i]] <= table[head] + 1
    BY <1>1, <1>3, <1>4 DEF CurrentComesFirst, Visited
  <2> QED BY <1>2 DEF IInv, FrontierInOrder
<1>9. NothingLost'
  <2> SUFFICES ASSUME NEW e \in Entry(job), Visited(e)
               PROVE  \/ e \in Range(frontier')
                      \/ e = current'
                      \/ \A f \in Range(Follow[job][e]) : Visited(f)
    BY <1>1 DEF NothingLost, Visited, Entry
  <2> QED BY <1>1, <1>2, <1>3 DEF IInv, NothingLost
<1> QED BY <1>5, <1>6, <1>7, <1>8, <1>9 DEF IInv

LEMMA ExpandedPreserves == IInv /\ Expanded => IInv'
<1> SUFFICES ASSUME IInv, Expanded PROVE IInv'
    OBVIOUS
<1>1. /\ job \in Job /\ current \in Entry(job)
      /\ expanding /\ ~expanding' /\ expanding' = FALSE /\ next > Len(Follow[job][current])
      /\ job' = job /\ table' = table /\ frontier' = frontier /\ current' = current
      /\ nextDepth' = nextDepth /\ next' = next
    BY DEF IInv, TypeOK, Expanded
<1>2. TypeOK'
    BY <1>1 DEF IInv, TypeOK, Entry
<1>3. Started' /\ NoDeeper' /\ OnlyReachable' /\ NoShallower' /\ FrontierInOrder'
    BY <1>1 DEF IInv, Started, NoDeeper, OnlyReachable, NoShallower, FrontierInOrder, Visited, Start
<1>4. CurrentComesFirst'
    BY <1>1 DEF CurrentComesFirst
<1>5. NothingLost'
  <2>1. ASSUME \A i \in 1..next - 1 : Visited(Follow[job][current][i]),
               NEW f \in Range(Follow[job][current])
        PROVE  Visited(f)
    <3>1. Follow[job][current] \in Seq(Entry(job))
      BY <1>1, Types
    <3>2. PICK i \in 1..Len(Follow[job][current]) : f = Follow[job][current][i]
      BY <3>1 DEF Range
    <3>3. next \in Nat /\ Len(Follow[job][current]) \in Nat
      BY <3>1 DEF IInv, TypeOK
    <3>4. i \in 1..next - 1
      BY <1>1, <3>2, <3>3
    <3> QED BY <2>1, <3>2, <3>4
  <2>2. \A e \in Entry(job) : Visited(e) => e \in Range(frontier) \/ \A f \in Range(Follow[job][e]) : Visited(f)
    BY <2>1 DEF IInv, NothingLost
  <2> QED BY <1>1, <2>2 DEF NothingLost, Visited, Entry
<1> QED BY <1>2, <1>3, <1>4, <1>5 DEF IInv

\* An entry seen for the first time is at none of its values sooner than the search is, and holds one
\* that can be solved: the nearest value not visited has a nearer one whose entry is not expanded
\* yet, and that is the current one or in the queue.
LEMMA SeenInTime ==
    ASSUME IInv, expanding, NEW seen \in Range(Follow[job][current]), ~Visited(seen)
    PROVE  /\ seen \in Reachable(job)
           /\ \A v \in Value(job) : EntryOf[job][v] = seen => nextDepth <= Distance[job][v]
           /\ nextDepth \in 1..254
<1>1. /\ job \in Job /\ table \in [Entry(job) -> Byte] /\ current \in Entry(job) /\ next \in Nat \ {0}
      /\ frontier \in Seq(Entry(job)) /\ nextDepth \in Byte
    BY DEF IInv, TypeOK
<1>2. /\ Follow[job][current] \in Seq(Entry(job)) /\ EntryOf[job] \in [Value(job) -> Entry(job)]
      /\ Distance[job] \in [Value(job) -> Byte]
    BY <1>1, Types
<1>3. Visited(current) /\ nextDepth = table[current] + 1 /\ table[current] \in 0..254
    BY <1>1, VisitedDepths DEF IInv, CurrentComesFirst
<1>4. seen \in Reachable(job)
    BY <1>1, <1>3, FollowAssumption DEF IInv, OnlyReachable
<1>5. ASSUME NEW v \in Value(job), EntryOf[job][v] = seen, Distance[job][v] # Unvisited
      PROVE  nextDepth <= Distance[job][v]
  <2>1. table[Start(job)] # Unvisited
    BY DEF IInv, Started, Unvisited
  <2>2. PICK p \in Value(job) :
            /\ Distance[job][p] + 1 <= Distance[job][v]
            /\ table[EntryOf[job][p]] # Unvisited
            /\ \E f \in Range(Follow[job][EntryOf[job][p]]) : table[f] = Unvisited
    BY <1>1, <1>5, <2>1, NearerUnfinished DEF Visited
  <2> DEFINE e == EntryOf[job][p]
  <2>3. e \in Entry(job) /\ Visited(e) /\ ~(\A f \in Range(Follow[job][e]) : Visited(f))
    BY <1>2, <2>2 DEF Visited
  <2>4. e \in Range(frontier) \/ e = current
    BY <2>3 DEF IInv, NothingLost
  <2>5. \A f \in Range(frontier) : table[current] <= table[f]
    BY <1>1 DEF IInv, CurrentComesFirst, Range
  <2>6. table[current] <= table[e]
    <3>1. CASE e \in Range(frontier)
      BY <2>5, <3>1
    <3>2. CASE e = current
      <4>1. table[current] \in Int
        BY <1>3 DEF Visited
      <4> QED BY <3>2, <4>1
    <3> QED BY <2>4, <3>1, <3>2
  <2>7. table[e] <= Distance[job][p]
    BY <2>3 DEF IInv, NoDeeper
  <2>8. table[e] \in Int /\ Distance[job][p] \in Int /\ Distance[job][v] \in Int
    BY <1>1, <1>2, <2>3, ByteIsInteger
  <2>9. Distance[job][p] + 1 <= Distance[job][v]
    BY <2>2
  <2>10. nextDepth = table[current] + 1 /\ table[current] \in Int
    BY <1>3
  <2> HIDE DEF e
  <2> QED BY <2>6, <2>7, <2>8, <2>9, <2>10
<1>6. \A v \in Value(job) : EntryOf[job][v] = seen => nextDepth <= Distance[job][v]
  <2>1. ASSUME NEW v \in Value(job), Distance[job][v] = Unvisited
        PROVE  nextDepth <= Distance[job][v]
    <3>1. nextDepth \in 0..255 /\ Distance[job][v] = 255
      BY <1>1, <2>1 DEF Byte, Unvisited
    <3> QED BY <3>1
  <2> QED BY <1>5, <2>1
<1>7. PICK v \in Value(job) : EntryOf[job][v] = seen /\ Distance[job][v] # Unvisited
    BY <1>4 DEF Reachable
<1>8. Distance[job][v] \in 0..254
    BY <1>2, <1>7 DEF Byte, Unvisited
<1>9. nextDepth \in 1..254
  <2>1. nextDepth <= Distance[job][v]
    BY <1>6, <1>7
  <2>2. nextDepth \in 1..255
    BY <1>3 DEF Visited
  <2> QED BY <1>8, <2>1, <2>2 DEF Visited
<1> QED BY <1>4, <1>6, <1>9

LEMMA LookPreserves == IInv /\ Look => IInv'
<1> SUFFICES ASSUME IInv, Look PROVE IInv'
    OBVIOUS
<1> DEFINE seen == Follow[job][current][next]
<1>1. /\ job \in Job /\ table \in [Entry(job) -> Byte] /\ current \in Entry(job) /\ next \in Nat \ {0}
      /\ frontier \in Seq(Entry(job)) /\ nextDepth \in Byte
      /\ \A i \in DOMAIN frontier : Visited(frontier[i])
      /\ expanding /\ expanding' = expanding /\ next' = next + 1
      /\ job' = job /\ current' = current /\ nextDepth' = nextDepth
    BY DEF IInv, TypeOK, Look, Visited
<1>2. /\ Follow[job][current] \in Seq(Entry(job)) /\ Len(Follow[job][current]) \in Nat
      /\ EntryOf[job] \in [Value(job) -> Entry(job)] /\ Distance[job] \in [Value(job) -> Byte]
      /\ Start(job) \in Entry(job)
    BY <1>1, Types
<1>3. seen \in Entry(job) /\ next' \in 1..Len(Follow[job][current]) + 1
    BY <1>1, <1>2 DEF Look
<1>4. seen \in Range(Follow[job][current])
    BY <1>1, <1>2 DEF Look, Range
<1>5. CASE Visited(seen)
  <2>1. table' = table /\ frontier' = frontier
    BY <1>5 DEF Look, Visited
  <2>2. TypeOK'
    BY <1>1, <1>3, <2>1 DEF IInv, TypeOK, Entry
  <2>3. Started' /\ NoDeeper' /\ OnlyReachable' /\ NoShallower' /\ FrontierInOrder' /\ CurrentComesFirst'
    BY <1>1, <2>1 DEF IInv, Started, NoDeeper, OnlyReachable, NoShallower, FrontierInOrder, CurrentComesFirst,
                      Visited, Start
  <2>4. NothingLost'
    <3> SUFFICES ASSUME NEW e \in Entry(job), Visited(e)
                 PROVE  \/ e \in Range(frontier)
                        \/ e = current /\ \A i \in 1..next + 1 - 1 : Visited(Follow[job][e][i])
                        \/ \A f \in Range(Follow[job][e]) : Visited(f)
      BY <1>1, <2>1 DEF NothingLost, Visited, Entry
    <3>1. \A i \in 1..next + 1 - 1 : i = next \/ i \in 1..next - 1
      BY <1>1
    <3> QED BY <1>5, <3>1 DEF IInv, NothingLost
  <2> QED BY <2>2, <2>3, <2>4 DEF IInv
<1>6. CASE ~Visited(seen)
  <2>1. table' = [table EXCEPT ![seen] = nextDepth] /\ frontier' = Append(frontier, seen)
    BY <1>6 DEF Look, Visited
  <2>2. seen = Follow[job][current][next]
    OBVIOUS
  <2> HIDE DEF seen
  <2>3. /\ seen \in Reachable(job)
        /\ \A v \in Value(job) : EntryOf[job][v] = seen => nextDepth <= Distance[job][v]
        /\ nextDepth \in 1..254
    BY <1>1, <1>6, <1>4, SeenInTime
  <2>4. /\ table'[seen] = nextDepth /\ nextDepth # Unvisited /\ table' \in [Entry(job) -> Byte]
        /\ \A e \in Entry(job) : e # seen => table'[e] = table[e]
    BY <1>1, <1>3, <2>1, <2>3 DEF Byte, Unvisited, Visited
  <2>5. /\ \A e \in Entry(job) : Visited(e) => e # seen /\ table'[e] = table[e] /\ table'[e] # Unvisited
        /\ \A e \in Entry(job) : table'[e] # Unvisited => e = seen \/ Visited(e)
    BY <1>6, <2>4 DEF Visited
  <2>6. /\ frontier' \in Seq(Entry(job))
        /\ \A i \in DOMAIN frontier' :
               /\ i \in Nat
               /\ \/ i \in DOMAIN frontier /\ frontier'[i] = frontier[i]
                  \/ i = Len(frontier) + 1 /\ frontier'[i] = seen
        /\ \A i \in DOMAIN frontier : i < Len(frontier) + 1 /\ frontier[i] \in Entry(job)
        /\ Range(frontier) \subseteq Range(frontier') /\ seen \in Range(frontier')
    BY <1>1, <1>3, <2>1, AppendOf
  <2>7. Visited(current) /\ current # seen
    BY <1>1, <1>6 DEF IInv, CurrentComesFirst
  <2>8. table[current] \in Int /\ nextDepth = table[current] + 1
    <3>1. table[current] \in Int
      BY <1>1, ByteIsInteger
    <3> QED BY <1>1, <3>1 DEF IInv, CurrentComesFirst
  <2>9. nextDepth \in Int
    BY <2>3
  <2>10. /\ nextDepth = table[current] + 1
        /\ \A i \in DOMAIN frontier : table[current] <= table[frontier[i]] /\ table[frontier[i]] <= nextDepth
        /\ \A e \in Entry(job) : table[e] \in Int
    BY <1>1, ByteIsInteger DEF IInv, CurrentComesFirst
  <2>11. \A i \in DOMAIN frontier' :
            \/ i \in DOMAIN frontier /\ frontier'[i] = frontier[i] /\ table'[frontier'[i]] = table[frontier[i]]
               /\ i < Len(frontier) + 1
            \/ i = Len(frontier) + 1 /\ frontier'[i] = seen /\ table'[frontier'[i]] = nextDepth
    BY <1>1, <2>4, <2>5, <2>6
  <2>12. TypeOK'
    <3>1. \A i \in DOMAIN frontier' : table'[frontier'[i]] # Unvisited
      BY <1>1, <2>4, <2>5, <2>6
    <3> QED BY <1>1, <1>3, <2>4, <2>6, <3>1 DEF TypeOK, Entry
  <2>13. Started'
    BY <1>1, <1>2, <2>5 DEF IInv, Started, Start, Visited, Unvisited
  <2>14. FrontierInOrder'
    <3> SUFFICES ASSUME NEW i \in DOMAIN frontier', NEW k \in DOMAIN frontier'
                 PROVE  /\ i < k => table'[frontier'[i]] <= table'[frontier'[k]]
                        /\ table'[frontier'[k]] <= table'[frontier'[i]] + 1
      BY DEF FrontierInOrder
    <3>1. CASE i \in DOMAIN frontier /\ k \in DOMAIN frontier
      <4>1. /\ table'[frontier'[i]] = table[frontier[i]] /\ table'[frontier'[k]] = table[frontier[k]]
        BY <1>1, <2>1, <2>5, <2>6, <3>1
      <4> QED BY <3>1, <4>1 DEF IInv, FrontierInOrder
    <3>2. CASE i \in DOMAIN frontier /\ k \notin DOMAIN frontier
      <4>1. /\ table'[frontier'[i]] = table[frontier[i]] /\ table'[frontier'[k]] = nextDepth
            /\ table[frontier[i]] \in Int
        BY <1>1, <2>6, <2>10, <2>11, <3>2
      <4>2. table[current] \in Int /\ table[current] <= table[frontier[i]] /\ table[frontier[i]] <= nextDepth
        BY <1>1, <2>10, <3>2
      <4>3. i \in Nat /\ k \in Nat /\ k = Len(frontier) + 1 /\ i < k
        BY <1>1, <2>6, <3>2
      <4> QED BY <2>9, <2>10, <4>1, <4>2, <4>3
    <3>3. CASE i \notin DOMAIN frontier /\ k \in DOMAIN frontier
      <4>1. /\ table'[frontier'[i]] = nextDepth /\ table'[frontier'[k]] = table[frontier[k]]
            /\ table[frontier[k]] \in Int /\ i = Len(frontier) + 1 /\ k < i /\ i \in Nat /\ k \in Nat
        BY <1>1, <2>6, <2>10, <2>11, <3>3
      <4>2. table[current] \in Int /\ table[current] <= table[frontier[k]] /\ table[frontier[k]] <= nextDepth
        BY <1>1, <2>10, <3>3
      <4> QED BY <2>9, <2>10, <4>1, <4>2
    <3>4. CASE i \notin DOMAIN frontier /\ k \notin DOMAIN frontier
      <4>1. table'[frontier'[i]] = nextDepth /\ table'[frontier'[k]] = nextDepth
        BY <2>11, <3>4
      <4> QED BY <2>9, <4>1
    <3> QED BY <3>1, <3>2, <3>3, <3>4
  <2>15. CurrentComesFirst'
    <3>1. table'[current] = table[current] /\ table'[current] # Unvisited
      BY <1>1, <2>5, <2>7
    <3>2. \A i \in DOMAIN frontier' : table[current] <= table'[frontier'[i]] /\ table'[frontier'[i]] <= nextDepth
      <4> TAKE i \in DOMAIN frontier'
      <4>1. CASE i \in DOMAIN frontier /\ table'[frontier'[i]] = table[frontier[i]]
        BY <2>10, <4>1
      <4>2. CASE table'[frontier'[i]] = nextDepth
        <5>1. table[current] \in Int /\ nextDepth = table[current] + 1
          BY <1>1, <1>2, <2>8
        <5> QED BY <4>2, <5>1
      <4> QED BY <2>11, <4>1, <4>2
    <3> QED BY <1>1, <2>10, <3>1, <3>2 DEF CurrentComesFirst, Visited
  <2>16. NothingLost'
    <3> SUFFICES ASSUME NEW e \in Entry(job), table'[e] # Unvisited
                 PROVE  \/ e \in Range(frontier')
                        \/ e = current /\ \A i \in 1..next + 1 - 1 : table'[Follow[job][e][i]] # Unvisited
                        \/ \A f \in Range(Follow[job][e]) : table'[f] # Unvisited
      BY <1>1 DEF NothingLost, Visited, Entry
    <3>1. CASE e = seen
      BY <2>6, <3>1
    <3>2. CASE Visited(e) /\ e \in Range(frontier)
      BY <2>6, <3>2
    <3>3. CASE e = current /\ \A i \in 1..next - 1 : Visited(Follow[job][e][i])
      <4>1. \A i \in 1..next + 1 - 1 : i = next \/ i \in 1..next - 1
        BY <1>1
      <4>2. \A i \in 1..next - 1 : Follow[job][current][i] \in Entry(job)
        BY <1>1, <1>2, <1>3
      <4>3. \A i \in 1..next - 1 : table'[Follow[job][current][i]] # Unvisited
        BY <2>5, <3>3, <4>2
      <4> QED BY <2>2, <2>4, <3>3, <4>1, <4>3
    <3>4. CASE \A f \in Range(Follow[job][e]) : Visited(f)
      <4>1. \A f \in Range(Follow[job][e]) : f \in Entry(job)
        BY <1>1, Types DEF Range
      <4> QED BY <2>5, <3>4, <4>1
    <3> QED BY <2>5, <3>1, <3>2, <3>3, <3>4 DEF IInv, NothingLost
  <2>17. NoDeeper'
    <3> SUFFICES ASSUME NEW v \in Value(job), table'[EntryOf[job][v]] # Unvisited
                 PROVE  table'[EntryOf[job][v]] <= Distance[job][v]
      BY <1>1 DEF NoDeeper, Visited, Value
    <3>1. CASE EntryOf[job][v] = seen
      BY <2>3, <2>4, <3>1
    <3>2. CASE EntryOf[job][v] # seen
      BY <1>2, <2>4, <2>5, <3>2 DEF IInv, NoDeeper
    <3> QED BY <3>1, <3>2
  <2>18. OnlyReachable'
    <3>1. \A e \in Entry(job) : table'[e] # Unvisited => e \in Reachable(job)
      BY <2>3, <2>5 DEF IInv, OnlyReachable
    <3> QED BY <1>1, <3>1 DEF OnlyReachable, Visited, Entry, Reachable, Value
  <2>19. NoShallower'
    <3> SUFFICES ASSUME Uniform(job), NEW v \in Value(job), table'[EntryOf[job][v]] # Unvisited
                 PROVE  Distance[job][v] <= table'[EntryOf[job][v]]
      BY <1>1 DEF NoShallower, Visited, Value, Uniform
    <3>1. CASE EntryOf[job][v] # seen
      BY <1>2, <2>4, <2>5, <3>1 DEF IInv, NoShallower
    <3>2. CASE EntryOf[job][v] = seen
      <4>1. PICK w \in Value(job) :
                EntryOf[job][w] = current /\ \E n \in Range(Neighbours[job][w]) : EntryOf[job][n] = seen
        <5>1. job \in Job /\ current \in Entry(job)
          BY <1>1
        <5> QED BY <1>4, <5>1, FollowedIsMove
      <4>2. PICK n \in Range(Neighbours[job][w]) : EntryOf[job][n] = seen
        BY <4>1
      <4>3. n \in Value(job)
        BY <1>1, Types DEF Range
      <4>4. PICK u \in Value(job) : EntryOf[job][u] = current /\ Distance[job][u] # Unvisited
        BY <1>1, <2>7 DEF IInv, OnlyReachable, Reachable
      <4>5. Distance[job][w] = Distance[job][u] /\ Distance[job][v] = Distance[job][n]
        BY <3>2, <4>1, <4>2, <4>3, <4>4 DEF Uniform
      <4>6. Distance[job][n] <= Distance[job][w] + 1
        BY <1>1, <4>2, <4>4, <4>5, DistanceAssumption
      <4>7. Distance[job][w] <= table[current]
        BY <2>7, <4>1 DEF IInv, NoShallower
      <4>8. Distance[job][n] \in Int /\ Distance[job][w] \in Int /\ table[current] \in Int
        BY <1>1, <1>2, <4>1, <4>3, ByteIsInteger
      <4>9. Distance[job][v] <= nextDepth
        BY <2>10, <4>5, <4>6, <4>7, <4>8
      <4> QED BY <2>4, <3>2, <4>9
    <3> QED BY <3>1, <3>2
  <2> QED BY <2>12, <2>13, <2>14, <2>15, <2>16, <2>17, <2>18, <2>19 DEF IInv
<1> QED BY <1>5, <1>6

LEMMA StepPreserves == IInv /\ [Next]_vars => IInv'
<1> SUFFICES ASSUME IInv, [Next]_vars PROVE IInv'
    OBVIOUS
<1>1. CASE Pop
    BY <1>1, PopPreserves
<1>2. CASE Look
    BY <1>2, LookPreserves
<1>3. CASE Expanded
    BY <1>3, ExpandedPreserves
<1>4. CASE UNCHANGED vars
    BY <1>4 DEF vars, IInv, TypeOK, Started, FrontierInOrder, CurrentComesFirst, NothingLost, NoDeeper,
                OnlyReachable, NoShallower, Visited, Uniform, Start, Reachable, Value, Entry
<1> QED BY <1>1, <1>2, <1>3, <1>4 DEF Next

LEMMA InvariantHolds == Spec => []IInv
<1>1. Init => IInv
    BY InitEstablishes
<1>2. IInv /\ [Next]_vars => IInv'
    BY StepPreserves
<1> QED BY <1>1, <1>2, PTL DEF Spec

-----------------------------------------------------------------------------
(* The results. *)

\* No distance overflows its byte or is taken for 255, the entry not visited (pruning_tables.cpp:142).
THEOREM TypeCorrect == Spec => []TypeOK
<1>1. IInv => TypeOK
    BY DEF IInv
<1> QED BY <1>1, InvariantHolds, PTL

\* When the queue is empty every value that can be solved is visited, in time.
LEMMA DoneIsTrue == IInv => TableIsTrue
<1> SUFFICES ASSUME IInv, Done PROVE TableIsTrue
    BY DEF TableIsTrue
<1>1. /\ job \in Job /\ table \in [Entry(job) -> Byte] /\ EntryOf[job] \in [Value(job) -> Entry(job)]
      /\ Distance[job] \in [Value(job) -> Byte]
    BY Types DEF IInv, TypeOK
<1>2. ~expanding /\ Range(frontier) = {}
    BY DEF Done, Range
<1>3. \A e \in Entry(job) : Visited(e) => \A f \in Range(Follow[job][e]) : Visited(f)
    BY <1>2 DEF IInv, NothingLost
<1>4. \A v \in Value(job) : ~Visited(EntryOf[job][v]) => Distance[job][v] = Unvisited
  <2> SUFFICES ASSUME NEW v \in Value(job), ~Visited(EntryOf[job][v]), Distance[job][v] # Unvisited
               PROVE  FALSE
    OBVIOUS
  <2>1. table[Start(job)] # Unvisited
    BY DEF IInv, Started, Unvisited
  <2>2. PICK p \in Value(job) :
            /\ table[EntryOf[job][p]] # Unvisited
            /\ \E f \in Range(Follow[job][EntryOf[job][p]]) : table[f] = Unvisited
    BY <1>1, <2>1, NearerUnfinished DEF Visited
  <2>3. EntryOf[job][p] \in Entry(job)
    BY <1>1
  <2> QED BY <1>3, <2>2, <2>3 DEF Visited
<1>5. ASSUME NEW v \in Value(job)
      PROVE  /\ table[EntryOf[job][v]] <= Distance[job][v]
             /\ Uniform(job) => table[EntryOf[job][v]] = Distance[job][v]
  <2>1. EntryOf[job][v] \in Entry(job)
    BY <1>1
  <2>2. table[EntryOf[job][v]] \in Int /\ Distance[job][v] \in Int
    BY <1>1, <2>1, ByteIsInteger
  <2>3. CASE Visited(EntryOf[job][v])
    <3>1. table[EntryOf[job][v]] <= Distance[job][v]
      BY <2>3 DEF IInv, NoDeeper
    <3>2. Uniform(job) => Distance[job][v] <= table[EntryOf[job][v]]
      BY <2>3 DEF IInv, NoShallower
    <3> QED BY <2>2, <3>1, <3>2
  <2>4. CASE ~Visited(EntryOf[job][v])
    <3>1. table[EntryOf[job][v]] = Distance[job][v]
      BY <1>4, <2>4 DEF Visited
    <3> QED BY <2>2, <3>1
  <2> QED BY <2>3, <2>4
<1> QED BY <1>5 DEF TableIsTrue

\* A pruning table just built never exceeds the number of moves a value needs, whatever the symmetries
\* it is reduced by, and is that number where the values of each entry need equally many.
THEOREM TableIsTrueAlways == Spec => []TableIsTrue
<1>1. IInv => TableIsTrue
    BY DoneIsTrue
<1> QED BY <1>1, InvariantHolds, PTL

-----------------------------------------------------------------------------
(* What the searches read from the tables. *)

\* The cubes of a search and their coordinate in each table: 0 at the goal, and a move of the
\* cube is one of the coordinate's.
IsCoordinate(coordinate, cubes, goal, moves) ==
    \A j \in Job :
        /\ coordinate[j] \in [cubes -> Value(j)]
        /\ \A c \in goal : coordinate[j][c] = 0
        /\ \A c \in cubes, m \in moves :
               coordinate[j][Moved[c][m]] \in Range(Neighbours[j][coordinate[j][c]])

\* The cubes a search meets: its moves lead to no other, and each has its inverse.
IsSearched(cubes, goal, moves) ==
    /\ cubes \in SUBSET Cube /\ goal \in SUBSET cubes /\ moves \in SUBSET Move
    /\ \A c \in cubes, m \in moves : Moved[c][m] \in cubes /\ InverseOf[m] \in moves

\* Of the tables, whole or with holes, none exceeds a distance.
AreTrue(tables) ==
    \A j \in Job : \A v \in Value(j) :
        tables[j][EntryOf[j][v]] \in Nat /\ tables[j][EntryOf[j][v]] <= Distance[j][v]

\* A bound that is nought or looked up in one of the tables at one of the coordinates, those of the
\* cube or of its rotations, as a maximum of lookups is; or less.
IsLookedUp(bound, tables, coordinates, c) ==
    /\ bound \in Nat
    /\ \/ bound = 0
       \/ \E coordinate \in coordinates, j \in Job : bound <= tables[j][EntryOf[j][coordinate[j][c]]]

LEMMA SearchedBall ==
    ASSUME NEW cubes, NEW goal, NEW moves, IsSearched(cubes, goal, moves), NEW n \in Nat
    PROVE  Ball(goal, moves, n) \subseteq cubes
<1> DEFINE B(i) == Ball(goal, moves, i)
           Bad == {i \in Nat : ~(B(i) \subseteq cubes)}
<1>1. goal \in SUBSET Cube /\ moves \in SUBSET Move
    BY DEF IsSearched
<1>2. B(0) = goal /\ \A i \in Nat : B(i + 1) = B(i) \cup Around(B(i), moves)
    <2> HIDE DEF B
    <2>1. B(0) = goal
        BY <1>1, BallSteps DEF B
    <2>2. ASSUME NEW i \in Nat PROVE B(i + 1) = B(i) \cup Around(B(i), moves)
        BY <1>1, BallSteps DEF B
    <2> QED BY <2>1, <2>2
<1> HIDE DEF B
<1>3. CASE Bad = {}
    BY <1>3 DEF B
<1>4. CASE Bad # {}
    <2>1. PICK i \in Bad : \A k \in Bad : i <= k
        BY <1>4, LeastNatural
    <2>2. i # 0
        BY <1>2, <2>1 DEF IsSearched
    <2>3. i - 1 \in Nat /\ i - 1 < i /\ (i - 1) + 1 = i
        BY <2>1, <2>2
    <2>4. B(i - 1) \subseteq cubes
        BY <2>1, <2>3
    <2>5. Around(B(i - 1), moves) \subseteq cubes
        BY <2>4 DEF Around, IsSearched
    <2> QED BY <1>2, <2>1, <2>3, <2>4, <2>5
<1> QED BY <1>3, <1>4

\* A coordinate is no further from its solved value than the cube from the goal.
LEMMA CoordinateIsNearer ==
    ASSUME NEW cubes, NEW goal, NEW moves, IsSearched(cubes, goal, moves),
           NEW coordinate, IsCoordinate(coordinate, cubes, goal, moves),
           NEW j \in Job, NEW n \in Nat, NEW cube \in Ball(goal, moves, n)
    PROVE  /\ Distance[j][coordinate[j][cube]] # Unvisited
           /\ Distance[j][coordinate[j][cube]] <= n
<1> DEFINE B(i) == Ball(goal, moves, i)
           Near(c, i) == /\ Distance[j][coordinate[j][c]] # Unvisited
                         /\ Distance[j][coordinate[j][c]] <= i
           Far == {i \in Nat : \E c \in B(i) : ~Near(c, i)}
<1>1. goal \in SUBSET Cube /\ moves \in SUBSET Move
    BY DEF IsSearched
<1>2. B(0) = goal /\ \A i \in Nat : B(i + 1) = B(i) \cup Around(B(i), moves) /\ B(i) \subseteq cubes
    <2> HIDE DEF B
    <2>1. B(0) = goal
        BY <1>1, BallSteps DEF B
    <2>2. ASSUME NEW i \in Nat PROVE B(i + 1) = B(i) \cup Around(B(i), moves) /\ B(i) \subseteq cubes
        BY <1>1, BallSteps, SearchedBall DEF B
    <2> QED BY <2>1, <2>2
<1> HIDE DEF B
<1>3. \A c \in cubes : coordinate[j][c] \in Value(j) /\ Distance[j][coordinate[j][c]] \in Int
    BY Types, ByteIsInteger DEF IsCoordinate
<1>4. CASE Far = {}
    BY <1>4 DEF B
<1>5. CASE Far # {}
    <2>1. PICK i \in Far : \A k \in Far : i <= k
        BY <1>5, LeastNatural
    <2>2. PICK c \in B(i) : ~Near(c, i)
        BY <2>1
    <2>3. i # 0
        <3>1. ASSUME i = 0 PROVE FALSE
            <4>1. coordinate[j][c] = 0 /\ 0 \in Value(j)
                BY <1>2, <2>2, <3>1, Types DEF IsCoordinate
            <4>2. Distance[j][coordinate[j][c]] = 0
                BY <4>1, DistanceAssumption
            <4> QED BY <2>2, <3>1, <4>2 DEF Unvisited
        <3> QED BY <3>1
    <2>4. i - 1 \in Nat /\ i - 1 < i /\ (i - 1) + 1 = i
        BY <2>1, <2>3
    <2>5. \A d \in B(i - 1) : Near(d, i - 1)
        BY <2>1, <2>4
    <2>6. c \in B(i - 1) \cup Around(B(i - 1), moves) /\ B(i - 1) \subseteq cubes /\ c \in cubes
        BY <1>2, <2>1, <2>2, <2>4
    <2>7. CASE c \in B(i - 1)
        <3>1. Near(c, i - 1)
            BY <2>5, <2>7
        <3> QED BY <1>3, <2>2, <2>4, <2>6, <3>1
    <2>8. CASE c \in Around(B(i - 1), moves)
        <3>1. PICK d \in B(i - 1), m \in moves : c = Moved[d][InverseOf[m]]
            BY <2>8 DEF Around
        <3>2. d \in cubes /\ InverseOf[m] \in moves
            BY <2>6, <3>1 DEF IsSearched
        <3>3. coordinate[j][c] \in Range(Neighbours[j][coordinate[j][d]])
            BY <3>1, <3>2 DEF IsCoordinate
        <3>4. Near(d, i - 1)
            BY <2>5, <3>1
        <3>5. /\ Distance[j][coordinate[j][c]] # Unvisited
              /\ Distance[j][coordinate[j][c]] <= Distance[j][coordinate[j][d]] + 1
            BY <1>3, <3>2, <3>3, <3>4, DistanceAssumption
        <3>6. Distance[j][coordinate[j][c]] \in Int /\ Distance[j][coordinate[j][d]] \in Int
            BY <1>3, <2>6, <3>2
        <3> QED BY <2>2, <2>4, <3>4, <3>5, <3>6
    <2> QED BY <2>6, <2>7, <2>8
<1> QED BY <1>4, <1>5

\* Nor is an entry more than that.
LEMMA LookupIsSafe ==
    ASSUME NEW cubes, NEW goal, NEW moves, IsSearched(cubes, goal, moves),
           NEW coordinate, IsCoordinate(coordinate, cubes, goal, moves),
           NEW tables, AreTrue(tables),
           NEW j \in Job, NEW n \in Nat, NEW c \in Ball(goal, moves, n)
    PROVE  /\ tables[j][EntryOf[j][coordinate[j][c]]] \in Nat
           /\ tables[j][EntryOf[j][coordinate[j][c]]] <= n
<1>1. c \in cubes
    BY SearchedBall
<1>2. coordinate[j][c] \in Value(j)
    BY <1>1 DEF IsCoordinate
<1>3. /\ tables[j][EntryOf[j][coordinate[j][c]]] \in Nat
      /\ tables[j][EntryOf[j][coordinate[j][c]]] <= Distance[j][coordinate[j][c]]
    BY <1>2 DEF AreTrue
<1>4. Distance[j][coordinate[j][c]] <= n
    BY CoordinateIsNearer
<1>5. Distance[j][coordinate[j][c]] \in Int
    BY <1>2, Types, ByteIsInteger
<1> QED BY <1>3, <1>4, <1>5

\* A bound looked up in true tables, of the cube as it is or turned to another axis, is admissible:
\* a cube with bound b is not within b - 1 moves of the goal (nodeLowerBound, solver.cpp:820, and
\* the bounds of both phases).  With all cubes and moves this is OptimalSearch's BoundAssumption; with
\* the goal, the moves and the cubes of a phase, FastSolve's BoundsAssumption.
THEOREM TablesAreAdmissible ==
    ASSUME NEW cubes, NEW goal, NEW moves, IsSearched(cubes, goal, moves),
           NEW coordinates, \A coordinate \in coordinates : IsCoordinate(coordinate, cubes, goal, moves),
           NEW tables, AreTrue(tables),
           NEW bound, \A c \in cubes : IsLookedUp(bound[c], tables, coordinates, c),
           NEW c \in cubes, bound[c] > 0
    PROVE  c \notin Ball(goal, moves, bound[c] - 1)
<1> SUFFICES ASSUME c \in Ball(goal, moves, bound[c] - 1) PROVE FALSE
    OBVIOUS
<1>1. bound[c] \in Nat /\ bound[c] - 1 \in Nat
    BY DEF IsLookedUp
<1>2. PICK coordinate \in coordinates, j \in Job : bound[c] <= tables[j][EntryOf[j][coordinate[j][c]]]
    BY DEF IsLookedUp
<1>3. /\ tables[j][EntryOf[j][coordinate[j][c]]] \in Nat
      /\ tables[j][EntryOf[j][coordinate[j][c]]] <= bound[c] - 1
    BY <1>1, LookupIsSafe
<1> QED BY <1>1, <1>2, <1>3

\* EarlyReturn returns one of the values, or nought; it exceeds the limit when one of them does and
\* only then, and is the largest when none does: cutting the lookups short prunes what the
\* whole maximum would (nodeBaseLowerBound and the others, solver.cpp:599-750).
THEOREM EarlyReturnPrunesAlike ==
    ASSUME NEW values \in Seq(Nat), NEW pruneAbove \in Nat
    PROVE  /\ \/ EarlyReturn(values, pruneAbove) = 0
              \/ \E i \in 1 .. Len(values) : EarlyReturn(values, pruneAbove) = values[i]
           /\ EarlyReturn(values, pruneAbove) > pruneAbove
                <=> \E i \in 1 .. Len(values) : values[i] > pruneAbove
           /\ (\A i \in 1 .. Len(values) : values[i] <= pruneAbove) =>
                \A i \in 1 .. Len(values) : values[i] <= EarlyReturn(values, pruneAbove)
<1> DEFINE larger(n, b) == IF b > pruneAbove \/ values[n + 1] <= b THEN b ELSE values[n + 1]
           step == [n \in Nat |-> [b \in Nat |-> IF n < Len(values) THEN larger(n, b) ELSE b]]
           size == Len(values)
<1>1. size \in Nat /\ \A i \in 1 .. size : values[i] \in Nat
    OBVIOUS
<1>2. step \in [Nat -> [Nat -> Nat]]
    <2>1. ASSUME NEW n \in Nat, NEW b \in Nat PROVE (IF n < size THEN larger(n, b) ELSE b) \in Nat
        <3>1. CASE n < size
            <4>1. n + 1 \in 1 .. size
                BY <1>1, <3>1
            <4> QED BY <1>1, <4>1
        <3>2. CASE ~(n < size)
            BY <3>2
        <3> QED BY <3>1, <3>2
    <2> QED BY <2>1
<1> HIDE DEF step
<1>3. PICK g : Recurs(g, Nat, 0, step)
    BY <1>2, Recursion
<1> USE DEF step
<1>4. g \in [Nat -> Nat] /\ g[0] = 0 /\ \A n \in Nat : g[n + 1] = step[n][g[n]]
    BY <1>3 DEF Recurs
<1>5. \A n \in Nat : n < size => g[n + 1] = larger(n, g[n])
    BY <1>4
<1> HIDE DEF step
<1>6. EarlyReturn(values, pruneAbove) = g[size]
    <2> DEFINE Fold(f) == [n \in 0 .. size |->
                   IF n = 0 THEN 0
                   ELSE IF f[n - 1] > pruneAbove \/ values[n] <= f[n - 1] THEN f[n - 1] ELSE values[n]]
               Folds(f) == f = Fold(f)
               largest == CHOOSE f : Folds(f)
               h == [n \in 0 .. size |-> g[n]]
    <2>1. EarlyReturn(values, pruneAbove) = largest[size]
        BY DEF EarlyReturn
    <2>2. Folds(h)
        <3>1. ASSUME NEW n \in 0 .. size, n # 0
              PROVE  h[n] = IF h[n - 1] > pruneAbove \/ values[n] <= h[n - 1] THEN h[n - 1] ELSE values[n]
            <4>1. n - 1 \in Nat /\ (n - 1) + 1 = n /\ n - 1 \in 0 .. size /\ n - 1 < size
                BY <1>1, <3>1
            <4> QED BY <1>5, <4>1
        <3> QED BY <1>4, <3>1
    <2>3. Folds(largest)
        <3> HIDE DEF Folds, h
        <3> QED BY <2>2
    <2> HIDE DEF largest
    <2>4. \A n \in 0 .. size :
             largest[n] = IF n = 0 THEN 0
                          ELSE IF largest[n - 1] > pruneAbove \/ values[n] <= largest[n - 1]
                                 THEN largest[n - 1] ELSE values[n]
        BY <2>3
    <2> DEFINE Bad == {n \in Nat : n <= size /\ largest[n] # g[n]}
    <2>5. CASE Bad = {}
        BY <1>1, <2>1, <2>5
    <2>6. CASE Bad # {}
        <3>1. PICK n \in Bad : \A k \in Bad : n <= k
            BY <2>6, LeastNatural
        <3>2. n # 0
            <4>1. 0 \in 0 .. size
                BY <1>1
            <4>2. largest[0] = g[0]
                BY <1>4, <2>4, <4>1
            <4>3. n \in Nat /\ largest[n] # g[n]
                BY <3>1
            <4> QED BY <4>2, <4>3
        <3>3. n - 1 \in Nat /\ n - 1 < n /\ n - 1 < size /\ (n - 1) + 1 = n /\ n \in 0 .. size
            BY <1>1, <3>1, <3>2
        <3>4. largest[n - 1] = g[n - 1]
            BY <1>1, <3>1, <3>3
        <3>5. g[n] = larger(n - 1, g[n - 1])
            BY <1>5, <3>3
        <3> QED BY <2>4, <3>1, <3>2, <3>3, <3>4, <3>5
    <2> QED BY <2>5, <2>6
<1> DEFINE Taken(n) == g[n] = 0 \/ \E i \in 1 .. n : g[n] = values[i]
           Alike(n) == g[n] > pruneAbove <=> \E i \in 1 .. n : values[i] > pruneAbove
           Largest(n) == g[n] <= pruneAbove => \A i \in 1 .. n : values[i] <= g[n]
           Wrong == {n \in Nat : n <= size /\ ~(Taken(n) /\ Alike(n) /\ Largest(n))}
<1>7. CASE Wrong # {}
    <2>1. PICK n \in Wrong : \A k \in Wrong : n <= k
        BY <1>7, LeastNatural
    <2>2. n # 0
        <3>1. Taken(0) /\ ~(g[0] > pruneAbove) /\ \A i \in 1 .. 0 : FALSE
            BY <1>4
        <3>2. Alike(0) /\ Largest(0)
            BY <3>1
        <3> QED BY <2>1, <3>1, <3>2
    <2>3. n - 1 \in Nat /\ n - 1 < n /\ n - 1 < size /\ (n - 1) + 1 = n /\ n \in 1 .. size
        BY <1>1, <2>1, <2>2
    <2>4. Taken(n - 1) /\ Alike(n - 1) /\ Largest(n - 1)
        BY <2>1, <2>3
    <2>5. g[n] = IF g[n - 1] > pruneAbove \/ values[n] <= g[n - 1] THEN g[n - 1] ELSE values[n]
        BY <1>5, <2>3
    <2>6. g[n] \in Nat /\ g[n - 1] \in Nat /\ values[n] \in Nat
        BY <1>1, <1>4, <2>3
    <2>7. \A i \in 1 .. n : (i \in 1 .. n - 1 \/ i = n) /\ values[i] \in Nat
        BY <1>1, <2>3
    <2>8. 1 .. n - 1 \subseteq 1 .. n /\ n \in 1 .. n
        BY <2>3
    <2> HIDE DEF Wrong
    <2>9. Taken(n)
        BY <2>4, <2>5, <2>8
    <2>10. Alike(n)
        BY <2>4, <2>5, <2>6, <2>7, <2>8
    <2>11. Largest(n)
        BY <2>4, <2>5, <2>6, <2>7, <2>8
    <2> QED BY <2>1, <2>9, <2>10, <2>11 DEF Wrong
<1>8. CASE Wrong = {}
    <2>1. Taken(size) /\ Alike(size) /\ Largest(size)
        BY <1>1, <1>8
    <2>2. g[size] \in Nat
        BY <1>1, <1>4
    <2>3. (\A i \in 1 .. size : values[i] <= pruneAbove) => g[size] <= pruneAbove
        BY <1>1, <2>1, <2>2
    <2> QED BY <1>6, <2>1, <2>3
<1> QED BY <1>7, <1>8

\* So the largest of what is looked up is looked up, also when the largest are of the largest.
LEMMA LargestIsLookedUp ==
    ASSUME NEW tables, NEW coordinates, NEW c, NEW values \in Seq(Nat), NEW pruneAbove \in Nat,
           \A i \in 1 .. Len(values) : IsLookedUp(values[i], tables, coordinates, c)
    PROVE  IsLookedUp(EarlyReturn(values, pruneAbove), tables, coordinates, c)
<1>1. \/ EarlyReturn(values, pruneAbove) = 0
      \/ \E i \in 1 .. Len(values) : EarlyReturn(values, pruneAbove) = values[i]
    BY EarlyReturnPrunesAlike
<1>2. IsLookedUp(0, tables, coordinates, c)
    BY DEF IsLookedUp
<1> QED BY <1>1, <1>2

\* And the tables are true: what a search reads from a table that a builder has finished, at the
\* coordinate of a cube, never exceeds how far the cube is, for any puzzle whose moves are
\* moves of the coordinate, as CoordinatesFollowCube has it of the real one.
THEOREM BoundIsAdmissible ==
    ASSUME NEW CONSTANT cubes, NEW CONSTANT goal, NEW CONSTANT moves, IsSearched(cubes, goal, moves),
           NEW CONSTANT coordinate, IsCoordinate(coordinate, cubes, goal, moves)
    PROVE  Spec => [](Done => \A c \in cubes, n \in Nat :
                                 c \in Ball(goal, moves, n) => table[EntryOf[job][coordinate[job][c]]] <= n)
<1>1. IInv => (Done => \A c \in cubes, n \in Nat :
                         c \in Ball(goal, moves, n) => table[EntryOf[job][coordinate[job][c]]] <= n)
    <2> SUFFICES ASSUME IInv, Done, NEW c \in cubes, NEW n \in Nat, c \in Ball(goal, moves, n)
                 PROVE  table[EntryOf[job][coordinate[job][c]]] <= n
        OBVIOUS
    <2>1. job \in Job /\ table \in [Entry(job) -> Byte]
        BY DEF IInv, TypeOK
    <2>2. /\ EntryOf[job] \in [Value(job) -> Entry(job)] /\ Distance[job] \in [Value(job) -> Byte]
          /\ coordinate[job][c] \in Value(job)
        BY <2>1, Types DEF IsCoordinate
    <2>3. table[EntryOf[job][coordinate[job][c]]] <= Distance[job][coordinate[job][c]]
        BY <2>2, DoneIsTrue DEF TableIsTrue
    <2>4. Distance[job][coordinate[job][c]] <= n
        BY <2>1, CoordinateIsNearer
    <2>5. table[EntryOf[job][coordinate[job][c]]] \in Int /\ Distance[job][coordinate[job][c]] \in Int
        BY <2>1, <2>2, ByteIsInteger
    <2> QED BY <2>3, <2>4, <2>5
<1> QED BY <1>1, InvariantHolds, PTL
=============================================================================
