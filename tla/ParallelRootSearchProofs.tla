---------------------- MODULE ParallelRootSearchProofs ----------------------
(***************************************************************************)
(* Proofs about ParallelRootSearch for every set of calls, any number of   *)
(* tasks, nodes and threads.  IInv is inductive: one lemma per action, one *)
(* step per conjunct; the theorems follow at the end.                      *)
(***************************************************************************)
EXTENDS ParallelRootSearch, FiniteSetTheorems, WellFoundedInduction, TLAPS

USE DEF mainVars, sharedVars, profiles, localVars, Holding, SearchState

\* What the assumption on Calls says of the current call.
LEMMA CallFacts ==
    ASSUME call \in Calls
    PROVE  /\ Task \subseteq Nat \ {0}
           /\ \A t \in Task : /\ Size(t) \in Nat \ {0}
                             /\ SolvedAt(t) \in 0 .. Size(t)
                             /\ RootOf(t) \in Nat \ {0}
           /\ Task # {} => WorkerCount \in 1 .. MaxThreads
           /\ None \notin Nat
           /\ MaxThreads \in Nat
  <1>1. WellFormed(call)
    BY CallsAssumption
  <1>2. call.tasks \in Seq(TaskType) /\ call.threads \in 2 .. MaxThreads
    BY <1>1 DEF WellFormed, CallType
  <1>3. Task = 1 .. Len(call.tasks) /\ Len(call.tasks) \in Nat
    BY <1>2 DEF Task
  <1>4. \A t \in Task : call.tasks[t] \in TaskType /\ call.tasks[t].solvedAt <= call.tasks[t].size
    BY <1>1, <1>2, <1>3 DEF WellFormed, Task
  <1>5. Task # {} => WorkerCount \in 1 .. MaxThreads
    BY <1>2, <1>3, CallsAssumption DEF WorkerCount
  <1>6. Task \subseteq Nat \ {0}
    BY <1>3
  <1> QED
    BY <1>4, <1>5, <1>6, CallsAssumption DEF TaskType, Size, SolvedAt, RootOf

\* The counter leaves the task indices at the end of the list only.
LEMMA CounterPastTasks ==
    ASSUME call \in Calls, NEW n \in Nat \ {0}, n \notin Task
    PROVE  n + 1 \notin Task /\ \A t \in Task : t < n
  <1>1. call.tasks \in Seq(TaskType)
    BY CallsAssumption DEF WellFormed, CallType
  <1>2. Task = 1 .. Len(call.tasks) /\ Len(call.tasks) \in Nat
    BY <1>1 DEF Task
  <1> QED BY <1>2

\* Adding to one entry of a function into the naturals.
LEMMA AddAt ==
    ASSUME NEW S, NEW f \in [S -> Nat], NEW x \in S, NEW n \in Nat
    PROVE  [f EXCEPT ![x] = @ + n] \in [S -> Nat]
  OBVIOUS

-----------------------------------------------------------------------------
(* Each action preserves the invariant. *)

LEMMA DeadlineExpiresStep == ASSUME IInv, DeadlineExpires PROVE IInv'
  <1> USE CallFacts DEF IInv, DeadlineExpires, Task, Worker, Size, SolvedAt, RootOf, RootPath
  <1>1. TypeOK'
    <2>1. ProfilesOK'
      BY DEF ProfilesOK, TypeOK, Roots, WorkerCount, WorkerInv
    <2> QED BY <2>1 DEF TypeOK, MainInv
  <1>2. MainInv'
    BY DEF MainInv, TypeOK, WorkerCount
  <1>3. WorkerInv'
    BY DEF WorkerInv, TypeOK, MainInv
  <1>4. TasksClaimedOnce'
    BY DEF TasksClaimedOnce, WorkerInv, TypeOK
  <1>5. CauseInv'
    BY DEF CauseInv, CarriesSolution, CarriesTimeout, Carries, TypeOK, WorkerInv
  <1>6. StopInv'
    BY DEF StopInv, Recorded, TypeOK, WorkerInv
  <1>7. PendingInv'
    BY DEF PendingInv, Decided, Recorded, CarriesSolution, CarriesTimeout, Carries, TypeOK, WorkerInv
  <1>8. ResultInv'
    BY DEF ResultInv, MainInv, GenuineSolutions, TypeOK, WorkerInv, CauseInv
  <1> QED BY <1>1, <1>2, <1>3, <1>4, <1>5, <1>6, <1>7, <1>8

LEMMA StartReturnsStep == ASSUME IInv, StartReturns PROVE IInv'
  <1> USE CallFacts DEF IInv, StartReturns, Return, Task, Worker, Size, SolvedAt, RootOf, RootPath
  <1>1. TypeOK'
    <2>1. ProfilesOK'
      BY DEF ProfilesOK, TypeOK, Roots, WorkerCount, WorkerInv
    <2> QED BY <2>1 DEF TypeOK, MainInv
  <1>2. MainInv'
    BY DEF MainInv, TypeOK, WorkerCount
  <1>3. WorkerInv'
    BY DEF WorkerInv, TypeOK, MainInv
  <1>4. TasksClaimedOnce'
    BY DEF TasksClaimedOnce, WorkerInv, TypeOK
  <1>5. CauseInv'
    BY DEF CauseInv, CarriesSolution, CarriesTimeout, Carries, TypeOK, WorkerInv
  <1>6. StopInv'
    BY DEF StopInv, Recorded, TypeOK, WorkerInv
  <1>7. PendingInv'
    BY DEF PendingInv, Decided, Recorded, CarriesSolution, CarriesTimeout, Carries, TypeOK, WorkerInv
  <1>8. ResultInv'
    BY DEF ResultInv, MainInv, GenuineSolutions, TypeOK, WorkerInv, CauseInv
  <1> QED BY <1>1, <1>2, <1>3, <1>4, <1>5, <1>6, <1>7, <1>8

LEMMA StartSearchStep == ASSUME IInv, StartSearch PROVE IInv'
  <1> USE CallFacts DEF IInv, StartSearch, Task, Worker, Size, SolvedAt, RootOf, RootPath
  <1>1. TypeOK'
    <2>1. ProfilesOK'
      BY DEF ProfilesOK, TypeOK, Roots, WorkerCount, WorkerInv
    <2> QED BY <2>1 DEF TypeOK, MainInv
  <1>2. MainInv'
    BY DEF MainInv, TypeOK, WorkerCount
  <1>3. WorkerInv'
    BY DEF WorkerInv, TypeOK, MainInv
  <1>4. TasksClaimedOnce'
    BY DEF TasksClaimedOnce, WorkerInv, TypeOK
  <1>5. CauseInv'
    BY DEF CauseInv, CarriesSolution, CarriesTimeout, Carries, TypeOK, WorkerInv
  <1>6. StopInv'
    BY DEF StopInv, Recorded, TypeOK, WorkerInv
  <1>7. PendingInv'
    BY DEF PendingInv, Decided, Recorded, CarriesSolution, CarriesTimeout, Carries, TypeOK, WorkerInv
  <1>8. ResultInv'
    BY DEF ResultInv, MainInv, GenuineSolutions, TypeOK, WorkerInv, CauseInv
  <1> QED BY <1>1, <1>2, <1>3, <1>4, <1>5, <1>6, <1>7, <1>8

LEMMA SpawnStep == ASSUME IInv, Spawn PROVE IInv'
  <1> USE CallFacts DEF IInv, Spawn, Task, Worker, Size, SolvedAt, RootOf, RootPath
  <1>1. TypeOK'
    <2>1. ProfilesOK'
      BY DEF ProfilesOK, TypeOK, Roots, WorkerCount, WorkerInv
    <2> QED BY <2>1 DEF TypeOK, MainInv
  <1>2. MainInv'
    BY DEF MainInv, TypeOK, WorkerCount
  <1>3. WorkerInv'
    BY DEF WorkerInv, TypeOK, MainInv
  <1>4. TasksClaimedOnce'
    BY DEF TasksClaimedOnce, WorkerInv, TypeOK
  <1>5. CauseInv'
    BY DEF CauseInv, CarriesSolution, CarriesTimeout, Carries, TypeOK, WorkerInv
  <1>6. StopInv'
    BY DEF StopInv, Recorded, TypeOK, WorkerInv
  <1>7. PendingInv'
    <2> SUFFICES ASSUME NEW t \in Task, t < nextTask', SolvedAt(t) # 0, ~Decided'
                 PROVE  \E v \in Worker :
                            pc'[v] = "dfs" /\ task'[v] = t /\ visited'[v] < SolvedAt(t)
      BY DEF PendingInv
    <2>1. ~Decided
      BY DEF Decided, Recorded, CarriesSolution, CarriesTimeout, Carries, TypeOK, WorkerInv, StopInv
    <2>2. PICK v \in Worker : pc[v] = "dfs" /\ task[v] = t /\ visited[v] < SolvedAt(t)
      BY <2>1 DEF PendingInv
    <2> QED BY <2>2 DEF TypeOK, MainInv, WorkerInv
  <1>8. ResultInv'
    BY DEF ResultInv, MainInv, GenuineSolutions, TypeOK, WorkerInv, CauseInv
  <1> QED BY <1>1, <1>2, <1>3, <1>4, <1>5, <1>6, <1>7, <1>8

LEMMA JoinStep == ASSUME IInv, Join PROVE IInv'
  <1> USE CallFacts DEF IInv, Join, Return, AllJoined, Outcome, Task, Worker, Size, SolvedAt, RootOf, RootPath
  <1>1. TypeOK'
    <2>1. ProfilesOK'
      BY DEF ProfilesOK, TypeOK, Roots, WorkerCount, WorkerInv
    <2> QED BY <2>1 DEF TypeOK, MainInv
  <1>2. MainInv'
    BY DEF MainInv, TypeOK, WorkerCount
  <1>3. WorkerInv'
    BY DEF WorkerInv, TypeOK, MainInv
  <1>4. TasksClaimedOnce'
    BY DEF TasksClaimedOnce, WorkerInv, TypeOK
  <1>5. CauseInv'
    BY DEF CauseInv, CarriesSolution, CarriesTimeout, Carries, TypeOK, WorkerInv
  <1>6. StopInv'
    BY DEF StopInv, Recorded, TypeOK, WorkerInv
  <1>7. PendingInv'
    BY DEF PendingInv, Decided, Recorded, CarriesSolution, CarriesTimeout, Carries, TypeOK, WorkerInv
  <1>8. ResultInv'
    <2>1. \A w \in Worker : pc[w] \in {"unspawned", "exited"}
      BY DEF WorkerInv, MainInv, TypeOK
    <2>2. ~Recorded => GenuineSolutions = {}
      <3> SUFFICES ASSUME ~Recorded, NEW t \in Task, SolvedAt(t) # 0 PROVE FALSE
        BY DEF GenuineSolutions, MainInv
      <3>1. 0 \in Worker /\ pc[0] = "exited"
        BY DEF MainInv, TypeOK
      <3>2. nextTask \notin Task
        BY <3>1 DEF StopInv
      <3>3. t < nextTask
        BY <3>2, CounterPastTasks DEF TypeOK
      <3>4. ~Decided
        BY <2>1 DEF Decided, CarriesSolution, CarriesTimeout, Carries
      <3> QED BY <2>1, <3>3, <3>4 DEF PendingInv
    <2>3. foundSolution # None => foundSolution \in GenuineSolutions
      BY DEF GenuineSolutions, MainInv, CauseInv, TypeOK
    <2>4. timedOut => deadlineExpired
      BY DEF CauseInv
    <2>5. GenuineSolutions' = GenuineSolutions
      BY DEF GenuineSolutions
    <2> QED BY <2>1, <2>2, <2>3, <2>4, <2>5 DEF ResultInv, Recorded
  <1> QED BY <1>1, <1>2, <1>3, <1>4, <1>5, <1>6, <1>7, <1>8

LEMMA LoopTestStep == ASSUME IInv, NEW w \in Worker, LoopTest(w) PROVE IInv'
  <1> USE CallFacts DEF IInv, LoopTest, ReadsStop, ReadsGo, Goto, Task, Worker, Size, SolvedAt, RootOf, RootPath
  <1>1. TypeOK'
    <2>1. ProfilesOK'
      BY DEF ProfilesOK, TypeOK, Roots, WorkerCount, WorkerInv
    <2>2. pc' \in [Worker -> Holding \cup {"unspawned", "loop", "claim", "exit", "exited"}]
      BY DEF TypeOK
    <2>3. sawStop' \in [Worker -> BOOLEAN]
      BY DEF TypeOK
    <2>4. UNCHANGED <<call, deadlineExpired, mainVars, sharedVars, profiles, task, visited, state, localNodes, localRoots>>
      OBVIOUS
    <2> QED BY <2>1, <2>2, <2>3, <2>4 DEF TypeOK, mainVars, sharedVars, profiles
  <1>2. MainInv'
    BY DEF MainInv, TypeOK, WorkerCount, WorkerInv, ResultInv
  <1>3. WorkerInv'
    BY DEF WorkerInv, TypeOK, MainInv
  <1>4. TasksClaimedOnce'
    BY DEF TasksClaimedOnce, WorkerInv, TypeOK
  <1>5. CauseInv'
    BY DEF CauseInv, CarriesSolution, CarriesTimeout, Carries, TypeOK, WorkerInv
  <1>6. StopInv'
    BY DEF StopInv, Recorded, TypeOK, WorkerInv
  <1>7. PendingInv'
    <2> SUFFICES ASSUME NEW t \in Task, t < nextTask', SolvedAt(t) # 0, ~Decided'
                 PROVE  \E v \in Worker :
                            pc'[v] = "dfs" /\ task'[v] = t /\ visited'[v] < SolvedAt(t)
      BY DEF PendingInv
    <2>1. ~Decided
      BY DEF Decided, Recorded, CarriesSolution, CarriesTimeout, Carries, TypeOK, WorkerInv, StopInv
    <2>2. PICK v \in Worker : pc[v] = "dfs" /\ task[v] = t /\ visited[v] < SolvedAt(t)
      BY <2>1 DEF PendingInv
    <2> QED BY <2>2 DEF TypeOK, MainInv, WorkerInv
  <1>8. ResultInv'
    BY DEF ResultInv, MainInv, GenuineSolutions, TypeOK, WorkerInv, CauseInv
  <1> QED BY <1>1, <1>2, <1>3, <1>4, <1>5, <1>6, <1>7, <1>8

LEMMA ClaimTaskStep == ASSUME IInv, NEW w \in Worker, ClaimTask(w) PROVE IInv'
  <1> USE CallFacts DEF IInv, ClaimTask, Goto, FetchAdd, Task, Worker, Size, SolvedAt, RootOf, RootPath
  <1>1. TypeOK'
    <2>1. ProfilesOK'
      BY DEF ProfilesOK, TypeOK, Roots, WorkerCount, WorkerInv
    <2>2. pc' \in [Worker -> Holding \cup {"unspawned", "loop", "claim", "exit", "exited"}]
      BY DEF TypeOK
    <2>3. visited' \in [Worker -> Nat] /\ localNodes' \in [Worker -> Nat]
      BY DEF TypeOK, WorkerInv
    <2>4. task' \in [Worker -> Task \cup {None}] /\ state' \in [Worker -> SearchState]
      BY DEF TypeOK
    <2>5. localRoots' \in [Worker -> Nat] /\ sawStop' \in [Worker -> BOOLEAN]
      BY DEF TypeOK
    <2> QED BY <2>1, <2>2, <2>3, <2>4, <2>5 DEF TypeOK
  <1>2. MainInv'
    BY DEF MainInv, TypeOK, WorkerCount, WorkerInv, ResultInv
  <1>3. WorkerInv'
    BY DEF WorkerInv, TypeOK, MainInv
  <1>4. TasksClaimedOnce'
    BY DEF TasksClaimedOnce, WorkerInv, TypeOK
  <1>5. CauseInv'
    BY DEF CauseInv, CarriesSolution, CarriesTimeout, Carries, TypeOK, WorkerInv
  <1>6. StopInv'
    BY DEF StopInv, Recorded, TypeOK, WorkerInv
  <1>7. PendingInv'
    <2> SUFFICES ASSUME NEW t \in Task, t < nextTask', SolvedAt(t) # 0, ~Decided'
                 PROVE  \E v \in Worker :
                            pc'[v] = "dfs" /\ task'[v] = t /\ visited'[v] < SolvedAt(t)
      BY DEF PendingInv
    <2>1. ~Decided
      BY DEF Decided, Recorded, CarriesSolution, CarriesTimeout, Carries, TypeOK, WorkerInv, StopInv
    <2>2. CASE t = nextTask
      BY <2>2 DEF TypeOK
    <2>3. CASE t < nextTask
      <3>1. PICK v \in Worker : pc[v] = "dfs" /\ task[v] = t /\ visited[v] < SolvedAt(t)
        BY <2>1, <2>3 DEF PendingInv
      <3>2. v # w
        BY <3>1
      <3> QED BY <3>1, <3>2 DEF TypeOK
    <2> QED BY <2>2, <2>3 DEF TypeOK
  <1>8. ResultInv'
    BY DEF ResultInv, MainInv, GenuineSolutions, TypeOK, WorkerInv, CauseInv
  <1> QED BY <1>1, <1>2, <1>3, <1>4, <1>5, <1>6, <1>7, <1>8

LEMMA NoTaskLeftStep == ASSUME IInv, NEW w \in Worker, NoTaskLeft(w) PROVE IInv'
  <1> USE CallFacts DEF IInv, NoTaskLeft, Goto, FetchAdd, Task, Worker, Size, SolvedAt, RootOf, RootPath
  <1>1. TypeOK'
    <2>1. ProfilesOK'
      BY DEF ProfilesOK, TypeOK, Roots, WorkerCount, WorkerInv
    <2> QED BY <2>1 DEF TypeOK, MainInv
  <1>2. MainInv'
    BY DEF MainInv, TypeOK, WorkerCount, WorkerInv, ResultInv
  <1>3. WorkerInv'
    BY DEF WorkerInv, TypeOK, MainInv
  <1>4. TasksClaimedOnce'
    BY DEF TasksClaimedOnce, WorkerInv, TypeOK
  <1>5. CauseInv'
    BY DEF CauseInv, CarriesSolution, CarriesTimeout, Carries, TypeOK, WorkerInv
  <1>6. StopInv'
    <2>1. nextTask + 1 \notin Task /\ Task' = Task
      BY CounterPastTasks DEF TypeOK
    <2> HIDE DEF Task
    <2> QED BY <2>1 DEF StopInv, Recorded, TypeOK, WorkerInv
  <1>7. PendingInv'
    <2> SUFFICES ASSUME NEW t \in Task, t < nextTask', SolvedAt(t) # 0, ~Decided'
                 PROVE  \E v \in Worker :
                            pc'[v] = "dfs" /\ task'[v] = t /\ visited'[v] < SolvedAt(t)
      BY DEF PendingInv
    <2>1. ~Decided
      BY DEF Decided, Recorded, CarriesSolution, CarriesTimeout, Carries, TypeOK, WorkerInv, StopInv
    <2>2. PICK v \in Worker : pc[v] = "dfs" /\ task[v] = t /\ visited[v] < SolvedAt(t)
      <3>1. t < nextTask
        BY DEF TypeOK
      <3> QED BY <2>1, <3>1 DEF PendingInv
    <2> QED BY <2>2 DEF TypeOK, MainInv, WorkerInv
  <1>8. ResultInv'
    BY DEF ResultInv, MainInv, GenuineSolutions, TypeOK, WorkerInv, CauseInv
  <1> QED BY <1>1, <1>2, <1>3, <1>4, <1>5, <1>6, <1>7, <1>8

LEMMA VisitStoppedStep == ASSUME IInv, NEW w \in Worker, VisitStopped(w) PROVE IInv'
  <1>1. TypeOK'
    <2> USE DEF IInv, TypeOK, DfsUnchanged
    <2>1. PICK n \in 1 .. Size(task[w]) - visited[w] : CountNodes(w, n)
      BY DEF VisitStopped
    <2>2. n \in Nat
      BY <2>1, CallFacts DEF VisitStopped, WorkerInv, Holding
    <2>3. visited' \in [Worker -> Nat] /\ localNodes' \in [Worker -> Nat]
      BY <2>1, <2>2, AddAt DEF CountNodes
    <2>4. DfsReturns(w, "NotFound") /\ DfsUnchanged /\ ReadsStop(w)
      BY DEF VisitStopped
    <2>5. localRoots' \in [Worker -> Nat]
      BY <2>4, AddAt DEF DfsReturns
    <2>6. pc' \in [Worker -> Holding \cup {"unspawned", "loop", "claim", "exit", "exited"}] /\ state' \in [Worker -> SearchState]
      BY <2>4 DEF DfsReturns, Goto
    <2>7. ProfilesOK'
      BY <2>4 DEF ProfilesOK, Roots, WorkerCount, Task, RootOf
    <2> QED BY <2>3, <2>4, <2>5, <2>6, <2>7 DEF ReadsStop, Task
  <1> USE CallFacts DEF IInv, VisitStopped, ReadsStop, CountNodes, DfsReturns, Goto, DfsUnchanged, Task, Worker, Size, SolvedAt, RootOf, RootPath
  <1>2. MainInv'
    BY DEF MainInv, TypeOK, WorkerCount, WorkerInv, ResultInv
  <1>3. WorkerInv'
    BY DEF WorkerInv, TypeOK, MainInv
  <1>4. TasksClaimedOnce'
    BY DEF TasksClaimedOnce, WorkerInv, TypeOK
  <1>5. CauseInv'
    BY DEF CauseInv, CarriesSolution, CarriesTimeout, Carries, TypeOK, WorkerInv
  <1>6. StopInv'
    BY DEF StopInv, Recorded, TypeOK, WorkerInv
  <1>7. PendingInv'
    <2> SUFFICES ASSUME NEW t \in Task, t < nextTask', SolvedAt(t) # 0, ~Decided'
                 PROVE  \E v \in Worker :
                            pc'[v] = "dfs" /\ task'[v] = t /\ visited'[v] < SolvedAt(t)
      BY DEF PendingInv
    <2>1. ~Decided
      BY DEF Decided, Recorded, CarriesSolution, CarriesTimeout, Carries, TypeOK, WorkerInv, StopInv
    <2>2. PICK v \in Worker : pc[v] = "dfs" /\ task[v] = t /\ visited[v] < SolvedAt(t)
      BY <2>1 DEF PendingInv
    <2>3. CASE v = w
      BY <2>1, <2>2, <2>3 DEF TypeOK, WorkerInv, StopInv, Decided, Recorded, CarriesSolution, CarriesTimeout, Carries
    <2>4. CASE v # w
      BY <2>2, <2>4 DEF TypeOK
    <2> QED BY <2>3, <2>4
  <1>8. ResultInv'
    BY DEF ResultInv, MainInv, GenuineSolutions, TypeOK, WorkerInv, CauseInv
  <1> QED BY <1>1, <1>2, <1>3, <1>4, <1>5, <1>6, <1>7, <1>8

LEMMA VisitExpiredStep == ASSUME IInv, NEW w \in Worker, VisitExpired(w) PROVE IInv'
  <1>1. TypeOK'
    <2> USE DEF IInv, TypeOK, DfsUnchanged
    <2>1. CountNodes(w, 1)
      BY DEF VisitExpired
    <2>3. visited' \in [Worker -> Nat] /\ localNodes' \in [Worker -> Nat]
      BY <2>1, AddAt DEF CountNodes
    <2>4. DfsReturns(w, "Timeout") /\ DfsUnchanged /\ ReadsGo(w)
      BY DEF VisitExpired
    <2>5. localRoots' \in [Worker -> Nat]
      BY <2>4, AddAt DEF DfsReturns
    <2>6. pc' \in [Worker -> Holding \cup {"unspawned", "loop", "claim", "exit", "exited"}] /\ state' \in [Worker -> SearchState]
      BY <2>4 DEF DfsReturns, Goto
    <2>7. ProfilesOK'
      BY <2>4 DEF ProfilesOK, Roots, WorkerCount, Task, RootOf
    <2> QED BY <2>3, <2>4, <2>5, <2>6, <2>7 DEF ReadsGo, Task
  <1> USE CallFacts DEF IInv, VisitExpired, ReadsGo, CountNodes, DfsReturns, Goto, DfsUnchanged, Task, Worker, Size, SolvedAt, RootOf, RootPath
  <1>2. MainInv'
    BY DEF MainInv, TypeOK, WorkerCount, WorkerInv, ResultInv
  <1>3. WorkerInv'
    BY DEF WorkerInv, TypeOK, MainInv
  <1>4. TasksClaimedOnce'
    BY DEF TasksClaimedOnce, WorkerInv, TypeOK
  <1>5. CauseInv'
    BY DEF CauseInv, CarriesSolution, CarriesTimeout, Carries, TypeOK, WorkerInv
  <1>6. StopInv'
    BY DEF StopInv, Recorded, TypeOK, WorkerInv
  <1>7. PendingInv'
    <2> SUFFICES ASSUME NEW t \in Task, t < nextTask', SolvedAt(t) # 0, ~Decided'
                 PROVE  \E v \in Worker :
                            pc'[v] = "dfs" /\ task'[v] = t /\ visited'[v] < SolvedAt(t)
      BY DEF PendingInv
    <2>1. ~Decided
      BY DEF Decided, Recorded, CarriesSolution, CarriesTimeout, Carries, TypeOK, WorkerInv, StopInv
    <2>2. PICK v \in Worker : pc[v] = "dfs" /\ task[v] = t /\ visited[v] < SolvedAt(t)
      BY <2>1 DEF PendingInv
    <2>3. CASE v = w
      BY <2>1, <2>2, <2>3 DEF TypeOK, WorkerInv, StopInv, Decided, Recorded, CarriesSolution, CarriesTimeout, Carries
    <2>4. CASE v # w
      BY <2>2, <2>4 DEF TypeOK
    <2> QED BY <2>3, <2>4
  <1>8. ResultInv'
    BY DEF ResultInv, MainInv, GenuineSolutions, TypeOK, WorkerInv, CauseInv
  <1> QED BY <1>1, <1>2, <1>3, <1>4, <1>5, <1>6, <1>7, <1>8

LEMMA VisitSolvedStep == ASSUME IInv, NEW w \in Worker, VisitSolved(w) PROVE IInv'
  <1>1. TypeOK'
    <2> USE DEF IInv, TypeOK, DfsUnchanged
    <2>1. CountNodes(w, 1)
      BY DEF VisitSolved
    <2>3. visited' \in [Worker -> Nat] /\ localNodes' \in [Worker -> Nat]
      BY <2>1, AddAt DEF CountNodes
    <2>4. DfsReturns(w, "Found") /\ DfsUnchanged /\ ReadsGo(w)
      BY DEF VisitSolved
    <2>5. localRoots' \in [Worker -> Nat]
      BY <2>4, AddAt DEF DfsReturns
    <2>6. pc' \in [Worker -> Holding \cup {"unspawned", "loop", "claim", "exit", "exited"}] /\ state' \in [Worker -> SearchState]
      BY <2>4 DEF DfsReturns, Goto
    <2>7. ProfilesOK'
      BY <2>4 DEF ProfilesOK, Roots, WorkerCount, Task, RootOf
    <2> QED BY <2>3, <2>4, <2>5, <2>6, <2>7 DEF ReadsGo, Task
  <1> USE CallFacts DEF IInv, VisitSolved, ReadsGo, CountNodes, DfsReturns, Goto, DfsUnchanged, Task, Worker, Size, SolvedAt, RootOf, RootPath
  <1>2. MainInv'
    BY DEF MainInv, TypeOK, WorkerCount, WorkerInv, ResultInv
  <1>3. WorkerInv'
    BY DEF WorkerInv, TypeOK, MainInv
  <1>4. TasksClaimedOnce'
    BY DEF TasksClaimedOnce, WorkerInv, TypeOK
  <1>5. CauseInv'
    <2>1. SolvedAt(task[w]) # 0
      <3>1. visited[w] \in Nat
        BY DEF TypeOK
      <3>2. SolvedAt(task[w]) = visited[w] + 1
        OBVIOUS
      <3> HIDE DEF SolvedAt
      <3> QED BY <3>1, <3>2
    <2>2. UNCHANGED <<call, task, foundSolution, timedOut, deadlineExpired>>
      OBVIOUS
    <2>3. \A v \in Worker : v # w => pc'[v] = pc[v] /\ state'[v] = state[v]
      BY DEF TypeOK
    <2>4. pc'[w] = "profile" /\ state'[w] = "Found"
      BY DEF TypeOK
    <2> QED
      BY <2>1, <2>2, <2>3, <2>4 DEF CauseInv, CarriesSolution, CarriesTimeout, Carries
  <1>6. StopInv'
    BY DEF StopInv, Recorded, TypeOK, WorkerInv
  <1>7. PendingInv'
    <2> SUFFICES ASSUME NEW t \in Task, t < nextTask', SolvedAt(t) # 0, ~Decided'
                 PROVE  \E v \in Worker :
                            pc'[v] = "dfs" /\ task'[v] = t /\ visited'[v] < SolvedAt(t)
      BY DEF PendingInv
    <2>1. ~Decided
      BY DEF Decided, Recorded, CarriesSolution, CarriesTimeout, Carries, TypeOK, WorkerInv, StopInv
    <2>2. PICK v \in Worker : pc[v] = "dfs" /\ task[v] = t /\ visited[v] < SolvedAt(t)
      BY <2>1 DEF PendingInv
    <2>3. CASE v = w
      BY <2>1, <2>2, <2>3 DEF TypeOK, WorkerInv, StopInv, Decided, Recorded, CarriesSolution, CarriesTimeout, Carries
    <2>4. CASE v # w
      BY <2>2, <2>4 DEF TypeOK
    <2> QED BY <2>3, <2>4
  <1>8. ResultInv'
    BY DEF ResultInv, MainInv, GenuineSolutions, TypeOK, WorkerInv, CauseInv
  <1> QED BY <1>1, <1>2, <1>3, <1>4, <1>5, <1>6, <1>7, <1>8

LEMMA VisitLastStep == ASSUME IInv, NEW w \in Worker, VisitLast(w) PROVE IInv'
  <1>1. TypeOK'
    <2> USE DEF IInv, TypeOK, DfsUnchanged
    <2>1. CountNodes(w, 1)
      BY DEF VisitLast
    <2>3. visited' \in [Worker -> Nat] /\ localNodes' \in [Worker -> Nat]
      BY <2>1, AddAt DEF CountNodes
    <2>4. DfsReturns(w, "NotFound") /\ DfsUnchanged /\ ReadsGo(w)
      BY DEF VisitLast
    <2>5. localRoots' \in [Worker -> Nat]
      BY <2>4, AddAt DEF DfsReturns
    <2>6. pc' \in [Worker -> Holding \cup {"unspawned", "loop", "claim", "exit", "exited"}] /\ state' \in [Worker -> SearchState]
      BY <2>4 DEF DfsReturns, Goto
    <2>7. ProfilesOK'
      BY <2>4 DEF ProfilesOK, Roots, WorkerCount, Task, RootOf
    <2> QED BY <2>3, <2>4, <2>5, <2>6, <2>7 DEF ReadsGo, Task
  <1> USE CallFacts DEF IInv, VisitLast, ReadsGo, CountNodes, DfsReturns, Goto, DfsUnchanged, Task, Worker, Size, SolvedAt, RootOf, RootPath
  <1>2. MainInv'
    BY DEF MainInv, TypeOK, WorkerCount, WorkerInv, ResultInv
  <1>3. WorkerInv'
    BY DEF WorkerInv, TypeOK, MainInv
  <1>4. TasksClaimedOnce'
    BY DEF TasksClaimedOnce, WorkerInv, TypeOK
  <1>5. CauseInv'
    BY DEF CauseInv, CarriesSolution, CarriesTimeout, Carries, TypeOK, WorkerInv
  <1>6. StopInv'
    BY DEF StopInv, Recorded, TypeOK, WorkerInv
  <1>7. PendingInv'
    <2> SUFFICES ASSUME NEW t \in Task, t < nextTask', SolvedAt(t) # 0, ~Decided'
                 PROVE  \E v \in Worker :
                            pc'[v] = "dfs" /\ task'[v] = t /\ visited'[v] < SolvedAt(t)
      BY DEF PendingInv
    <2>1. ~Decided
      BY DEF Decided, Recorded, CarriesSolution, CarriesTimeout, Carries, TypeOK, WorkerInv, StopInv
    <2>2. PICK v \in Worker : pc[v] = "dfs" /\ task[v] = t /\ visited[v] < SolvedAt(t)
      BY <2>1 DEF PendingInv
    <2>3. CASE v = w
      <3>1. visited[w] < SolvedAt(t) /\ SolvedAt(t) # visited[w] + 1 /\ visited[w] + 1 = Size(t)
        BY <2>2, <2>3 DEF TypeOK
      <3>2. visited[w] \in Nat /\ SolvedAt(t) \in 0 .. Size(t) /\ Size(t) \in Nat
        BY DEF TypeOK
      <3> QED BY <3>1, <3>2
    <2>4. CASE v # w
      BY <2>2, <2>4 DEF TypeOK
    <2> QED BY <2>3, <2>4
  <1>8. ResultInv'
    BY DEF ResultInv, MainInv, GenuineSolutions, TypeOK, WorkerInv, CauseInv
  <1> QED BY <1>1, <1>2, <1>3, <1>4, <1>5, <1>6, <1>7, <1>8

LEMMA VisitInnerStep == ASSUME IInv, NEW w \in Worker, VisitInner(w) PROVE IInv'
  <1>1. TypeOK'
    <2> USE DEF IInv, TypeOK, DfsUnchanged
    <2>1. CountNodes(w, 1)
      BY DEF VisitInner
    <2>3. visited' \in [Worker -> Nat] /\ localNodes' \in [Worker -> Nat]
      BY <2>1, AddAt DEF CountNodes
    <2>4. UNCHANGED <<pc, state, localRoots>> /\ DfsUnchanged /\ ReadsGo(w)
      BY DEF VisitInner
    <2>5. ProfilesOK'
      BY <2>4 DEF ProfilesOK, Roots, WorkerCount, Task, RootOf
    <2> QED BY <2>3, <2>4, <2>5 DEF ReadsGo, Task
  <1> USE CallFacts DEF IInv, VisitInner, ReadsGo, CountNodes, DfsUnchanged, Task, Worker, Size, SolvedAt, RootOf, RootPath
  <1>2. MainInv'
    BY DEF MainInv, TypeOK, WorkerCount, WorkerInv, ResultInv
  <1>3. WorkerInv'
    BY DEF WorkerInv, TypeOK, MainInv
  <1>4. TasksClaimedOnce'
    BY DEF TasksClaimedOnce, WorkerInv, TypeOK
  <1>5. CauseInv'
    BY DEF CauseInv, CarriesSolution, CarriesTimeout, Carries, TypeOK, WorkerInv
  <1>6. StopInv'
    BY DEF StopInv, Recorded, TypeOK, WorkerInv
  <1>7. PendingInv'
    <2> SUFFICES ASSUME NEW t \in Task, t < nextTask', SolvedAt(t) # 0, ~Decided'
                 PROVE  \E v \in Worker :
                            pc'[v] = "dfs" /\ task'[v] = t /\ visited'[v] < SolvedAt(t)
      BY DEF PendingInv
    <2>1. ~Decided
      BY DEF Decided, Recorded, CarriesSolution, CarriesTimeout, Carries, TypeOK, WorkerInv, StopInv
    <2>2. PICK v \in Worker : pc[v] = "dfs" /\ task[v] = t /\ visited[v] < SolvedAt(t)
      BY <2>1 DEF PendingInv
    <2>3. CASE v = w
      <3>1. visited[w] < SolvedAt(t) /\ SolvedAt(t) # visited[w] + 1 /\ visited'[w] = visited[w] + 1
        BY <2>2, <2>3 DEF TypeOK
      <3>2. visited[w] \in Nat /\ SolvedAt(t) \in Nat
        BY DEF TypeOK
      <3>3. visited'[w] < SolvedAt(t)
        BY <3>1, <3>2
      <3> QED BY <2>2, <2>3, <3>3
    <2>4. CASE v # w
      BY <2>2, <2>4 DEF TypeOK
    <2> QED BY <2>3, <2>4
  <1>8. ResultInv'
    BY DEF ResultInv, MainInv, GenuineSolutions, TypeOK, WorkerInv, CauseInv
  <1> QED BY <1>1, <1>2, <1>3, <1>4, <1>5, <1>6, <1>7, <1>8

LEMMA UpdateProfileStep == ASSUME IInv, NEW w \in Worker, UpdateProfile(w) PROVE IInv'
  <1> USE CallFacts DEF IInv, UpdateProfile, Goto, AfterProfile, ProfileEntry, Task, Worker, Size, SolvedAt, RootOf, RootPath
  <1>1. TypeOK'
    <2>1. ProfilesOK'
      <3> SUFFICES ASSUME mainPc = "threads" PROVE ProfilesOK'
        BY DEF ProfilesOK
      <3> DEFINE r == RootOf(task[w])
                 E == [nodes : Nat, state : SearchState, visited : BOOLEAN]
      <3>1. r \in Roots /\ rootProfile \in [Roots -> E]
        BY DEF TypeOK, WorkerInv, ProfilesOK, Roots
      <3>2. visited[w] \in Nat /\ state[w] \in SearchState
        BY DEF TypeOK
      <3>3. ProfileEntry(rootProfile[r], visited[w], state[w]) \in E
        BY <3>1, <3>2, SMTT(40)
      <3>4. rootProfile' = [rootProfile EXCEPT ![r] = ProfileEntry(@, visited[w], state[w])]
        OBVIOUS
      <3> HIDE DEF ProfileEntry, E, r
      <3>5. rootProfile' \in [Roots -> E]
        BY <3>1, <3>3, <3>4
      <3>6. Roots' = Roots /\ UNCHANGED <<workerProfile, mainPc>> /\ WorkerCount' = WorkerCount
        BY DEF Roots, WorkerCount
      <3> QED BY <3>5, <3>6 DEF ProfilesOK, TypeOK, E
    <2> QED BY <2>1 DEF TypeOK, MainInv
  <1>2. MainInv'
    BY DEF MainInv, TypeOK, WorkerCount, WorkerInv, ResultInv
  <1>3. WorkerInv'
    BY DEF WorkerInv, TypeOK, MainInv
  <1>4. TasksClaimedOnce'
    BY SMTT(40) DEF TasksClaimedOnce, WorkerInv, TypeOK
  <1>5. CauseInv'
    BY DEF CauseInv, CarriesSolution, CarriesTimeout, Carries, TypeOK, WorkerInv
  <1>6. StopInv'
    BY DEF StopInv, Recorded, TypeOK, WorkerInv
  <1>7. PendingInv'
    <2> SUFFICES ASSUME NEW t \in Task, t < nextTask', SolvedAt(t) # 0, ~Decided'
                 PROVE  \E v \in Worker :
                            pc'[v] = "dfs" /\ task'[v] = t /\ visited'[v] < SolvedAt(t)
      BY DEF PendingInv
    <2>1. ~Decided
      BY DEF Decided, Recorded, CarriesSolution, CarriesTimeout, Carries, TypeOK, WorkerInv, StopInv
    <2>2. PICK v \in Worker : pc[v] = "dfs" /\ task[v] = t /\ visited[v] < SolvedAt(t)
      BY <2>1 DEF PendingInv
    <2> QED BY <2>2 DEF TypeOK, MainInv, WorkerInv
  <1>8. ResultInv'
    BY DEF ResultInv, MainInv, GenuineSolutions, TypeOK, WorkerInv, CauseInv
  <1> QED BY <1>1, <1>2, <1>3, <1>4, <1>5, <1>6, <1>7, <1>8

LEMMA PublishStep == ASSUME IInv, NEW w \in Worker, Publish(w) PROVE IInv'
  <1> USE CallFacts DEF IInv, Publish, Goto, KeepFirst, Task, Worker, Size, SolvedAt, RootOf, RootPath
  <1>1. TypeOK'
    <2>1. ProfilesOK'
      BY DEF ProfilesOK, TypeOK, Roots, WorkerCount, WorkerInv
    <2> QED BY <2>1 DEF TypeOK, MainInv
  <1>2. MainInv'
    BY DEF MainInv, TypeOK, WorkerCount, WorkerInv, ResultInv
  <1>3. WorkerInv'
    BY DEF WorkerInv, TypeOK, MainInv
  <1>4. TasksClaimedOnce'
    BY DEF TasksClaimedOnce, WorkerInv, TypeOK
  <1>5. CauseInv'
    BY DEF CauseInv, CarriesSolution, CarriesTimeout, Carries, TypeOK, WorkerInv
  <1>6. StopInv'
    BY DEF StopInv, Recorded, TypeOK, WorkerInv
  <1>7. PendingInv'
    <2> SUFFICES ASSUME NEW t \in Task, t < nextTask', SolvedAt(t) # 0, ~Decided'
                 PROVE  \E v \in Worker :
                            pc'[v] = "dfs" /\ task'[v] = t /\ visited'[v] < SolvedAt(t)
      BY DEF PendingInv
    <2>1. ~Decided
      BY DEF Decided, Recorded, CarriesSolution, CarriesTimeout, Carries, TypeOK, WorkerInv, StopInv
    <2>2. PICK v \in Worker : pc[v] = "dfs" /\ task[v] = t /\ visited[v] < SolvedAt(t)
      BY <2>1 DEF PendingInv
    <2> QED BY <2>2 DEF TypeOK, MainInv, WorkerInv
  <1>8. ResultInv'
    BY DEF ResultInv, MainInv, GenuineSolutions, TypeOK, WorkerInv, CauseInv
  <1> QED BY <1>1, <1>2, <1>3, <1>4, <1>5, <1>6, <1>7, <1>8

LEMMA ExpiredStep == ASSUME IInv, NEW w \in Worker, Expired(w) PROVE IInv'
  <1> USE CallFacts DEF IInv, Expired, Goto, RecordTimeout, Task, Worker, Size, SolvedAt, RootOf, RootPath
  <1>1. TypeOK'
    <2>1. ProfilesOK'
      BY DEF ProfilesOK, TypeOK, Roots, WorkerCount, WorkerInv
    <2> QED BY <2>1 DEF TypeOK, MainInv
  <1>2. MainInv'
    BY DEF MainInv, TypeOK, WorkerCount, WorkerInv, ResultInv
  <1>3. WorkerInv'
    BY DEF WorkerInv, TypeOK, MainInv
  <1>4. TasksClaimedOnce'
    BY DEF TasksClaimedOnce, WorkerInv, TypeOK
  <1>5. CauseInv'
    BY DEF CauseInv, CarriesSolution, CarriesTimeout, Carries, TypeOK, WorkerInv
  <1>6. StopInv'
    BY DEF StopInv, Recorded, TypeOK, WorkerInv
  <1>7. PendingInv'
    <2> SUFFICES ASSUME NEW t \in Task, t < nextTask', SolvedAt(t) # 0, ~Decided'
                 PROVE  \E v \in Worker :
                            pc'[v] = "dfs" /\ task'[v] = t /\ visited'[v] < SolvedAt(t)
      BY DEF PendingInv
    <2>1. ~Decided
      BY DEF Decided, Recorded, CarriesSolution, CarriesTimeout, Carries, TypeOK, WorkerInv, StopInv
    <2>2. PICK v \in Worker : pc[v] = "dfs" /\ task[v] = t /\ visited[v] < SolvedAt(t)
      BY <2>1 DEF PendingInv
    <2> QED BY <2>2 DEF TypeOK, MainInv, WorkerInv
  <1>8. ResultInv'
    BY DEF ResultInv, MainInv, GenuineSolutions, TypeOK, WorkerInv, CauseInv
  <1> QED BY <1>1, <1>2, <1>3, <1>4, <1>5, <1>6, <1>7, <1>8

LEMMA StopStep == ASSUME IInv, NEW w \in Worker, Stop(w) PROVE IInv'
  <1> USE CallFacts DEF IInv, Stop, Goto, Task, Worker, Size, SolvedAt, RootOf, RootPath
  <1>1. TypeOK'
    <2>1. ProfilesOK'
      BY DEF ProfilesOK, TypeOK, Roots, WorkerCount, WorkerInv
    <2> QED BY <2>1 DEF TypeOK, MainInv
  <1>2. MainInv'
    BY DEF MainInv, TypeOK, WorkerCount, WorkerInv, ResultInv
  <1>3. WorkerInv'
    BY DEF WorkerInv, TypeOK, MainInv
  <1>4. TasksClaimedOnce'
    BY DEF TasksClaimedOnce, WorkerInv, TypeOK
  <1>5. CauseInv'
    BY DEF CauseInv, CarriesSolution, CarriesTimeout, Carries, TypeOK, WorkerInv
  <1>6. StopInv'
    BY DEF StopInv, Recorded, TypeOK, WorkerInv
  <1>7. PendingInv'
    <2> SUFFICES ASSUME NEW t \in Task, t < nextTask', SolvedAt(t) # 0, ~Decided'
                 PROVE  \E v \in Worker :
                            pc'[v] = "dfs" /\ task'[v] = t /\ visited'[v] < SolvedAt(t)
      BY DEF PendingInv
    <2>1. ~Decided
      BY DEF Decided, Recorded, CarriesSolution, CarriesTimeout, Carries, TypeOK, WorkerInv, StopInv
    <2>2. PICK v \in Worker : pc[v] = "dfs" /\ task[v] = t /\ visited[v] < SolvedAt(t)
      BY <2>1 DEF PendingInv
    <2> QED BY <2>2 DEF TypeOK, MainInv, WorkerInv
  <1>8. ResultInv'
    BY DEF ResultInv, MainInv, GenuineSolutions, TypeOK, WorkerInv, CauseInv
  <1> QED BY <1>1, <1>2, <1>3, <1>4, <1>5, <1>6, <1>7, <1>8

LEMMA ExitStep == ASSUME IInv, NEW w \in Worker, Exit(w) PROVE IInv'
  <1> USE CallFacts DEF IInv, Exit, Goto, TotalWith, Task, Worker, Size, SolvedAt, RootOf, RootPath
  <1>1. TypeOK'
    <2>1. ProfilesOK'
      <3> SUFFICES ASSUME mainPc = "threads" PROVE ProfilesOK'
        BY DEF ProfilesOK
      <3> DEFINE E == [roots : Nat, nodes : Nat]
                 e == [roots |-> localRoots[w], nodes |-> localNodes[w]]
                 D == 0 .. WorkerCount - 1
      <3>1. workerProfile \in [D -> E] /\ e \in E
        BY DEF TypeOK, ProfilesOK
      <3>2. workerProfile' = [workerProfile EXCEPT ![w] = e]
        OBVIOUS
      <3> HIDE DEF D, E, e
      <3>3. workerProfile' \in [D -> E]
        BY <3>1, <3>2
      <3>4. Roots' = Roots /\ UNCHANGED <<rootProfile, mainPc>> /\ WorkerCount' = WorkerCount
        BY DEF Roots, WorkerCount
      <3> QED BY <3>3, <3>4 DEF ProfilesOK, TypeOK, D, E
    <2>2. totalWorkerNodes' \in Nat
      BY DEF TypeOK
    <2>3. pc' \in [Worker -> Holding \cup {"unspawned", "loop", "claim", "exit", "exited"}]
      BY DEF TypeOK
    <2> QED BY <2>1, <2>2, <2>3 DEF TypeOK
  <1>2. MainInv'
    BY DEF MainInv, TypeOK, WorkerCount, WorkerInv, ResultInv
  <1>3. WorkerInv'
    BY DEF WorkerInv, TypeOK, MainInv
  <1>4. TasksClaimedOnce'
    BY DEF TasksClaimedOnce, WorkerInv, TypeOK
  <1>5. CauseInv'
    BY DEF CauseInv, CarriesSolution, CarriesTimeout, Carries, TypeOK, WorkerInv
  <1>6. StopInv'
    BY DEF StopInv, Recorded, TypeOK, WorkerInv
  <1>7. PendingInv'
    <2> SUFFICES ASSUME NEW t \in Task, t < nextTask', SolvedAt(t) # 0, ~Decided'
                 PROVE  \E v \in Worker :
                            pc'[v] = "dfs" /\ task'[v] = t /\ visited'[v] < SolvedAt(t)
      BY DEF PendingInv
    <2>1. ~Decided
      BY DEF Decided, Recorded, CarriesSolution, CarriesTimeout, Carries, TypeOK, WorkerInv, StopInv
    <2>2. PICK v \in Worker : pc[v] = "dfs" /\ task[v] = t /\ visited[v] < SolvedAt(t)
      BY <2>1 DEF PendingInv
    <2> QED BY <2>2 DEF TypeOK, MainInv, WorkerInv
  <1>8. ResultInv'
    BY DEF ResultInv, MainInv, GenuineSolutions, TypeOK, WorkerInv, CauseInv
  <1> QED BY <1>1, <1>2, <1>3, <1>4, <1>5, <1>6, <1>7, <1>8

-----------------------------------------------------------------------------

LEMMA InitInv == Init => IInv
  <1> SUFFICES ASSUME Init PROVE IInv
    OBVIOUS
  <1>1. TypeOK
    <2>1. ProfilesOK
      BY DEF Init, ProfilesOK
    <2>2. pc \in [Worker -> Holding \cup {"unspawned", "loop", "claim", "exit", "exited"}]
      BY DEF Init
    <2>3. task \in [Worker -> Task \cup {None}] /\ sawStop \in [Worker -> BOOLEAN]
      BY DEF Init
    <2>4. state \in [Worker -> SearchState] /\ visited \in [Worker -> Nat]
      BY DEF Init
    <2>5. localNodes \in [Worker -> Nat] /\ localRoots \in [Worker -> Nat]
      BY DEF Init
    <2>6. call \in Calls /\ nextTask \in Nat \ {0} /\ foundSolution = None /\ solution = None
      BY DEF Init
    <2>7. /\ deadlineExpired = FALSE /\ stopRequested = FALSE /\ timedOut = FALSE
          /\ mainPc = "start" /\ spawned = 0 /\ result = "running"
          /\ nodesExpanded = 0 /\ totalWorkerNodes = 0
      BY DEF Init
    <2> QED BY <2>1, <2>2, <2>3, <2>4, <2>5, <2>6, <2>7 DEF TypeOK
  <1>2. MainInv /\ TasksClaimedOnce /\ ResultInv
    BY DEF Init, MainInv, TasksClaimedOnce, ResultInv
  <1>3. WorkerInv
    BY CallsAssumption DEF Init, WorkerInv, Worker
  <1>4. CauseInv /\ StopInv
    BY DEF Init, CauseInv, StopInv, CarriesSolution, CarriesTimeout, Carries
  <1>5. PendingInv
    BY <1>1, CallFacts DEF Init, PendingInv, TypeOK
  <1> QED BY <1>1, <1>2, <1>3, <1>4, <1>5 DEF IInv

LEMMA StutterInv == IInv /\ UNCHANGED vars => IInv'
  <1> SUFFICES ASSUME IInv, UNCHANGED vars PROVE IInv'
    OBVIOUS
  <1> USE DEF IInv, vars, Task, Size, SolvedAt, RootOf
  <1>1. TypeOK'
    BY DEF TypeOK, ProfilesOK, Roots, WorkerCount
  <1>2. MainInv' /\ WorkerInv' /\ TasksClaimedOnce'
    BY DEF MainInv, WorkerInv, TasksClaimedOnce, WorkerCount
  <1>3. CauseInv' /\ StopInv'
    BY DEF CauseInv, StopInv, CarriesSolution, CarriesTimeout, Carries, Recorded
  <1>4. PendingInv'
    BY DEF PendingInv, Decided, CarriesSolution, CarriesTimeout, Carries, Recorded
  <1>5. ResultInv'
    BY DEF ResultInv, GenuineSolutions
  <1> QED BY <1>1, <1>2, <1>3, <1>4, <1>5

LEMMA NextInv == IInv /\ [Next]_vars => IInv'
  <1> SUFFICES ASSUME IInv, [Next]_vars PROVE IInv'
    OBVIOUS
  <1>1. CASE DeadlineExpires
    BY <1>1, DeadlineExpiresStep
  <1>2. CASE Main
    BY <1>2, StartReturnsStep, StartSearchStep, SpawnStep, JoinStep DEF Main
  <1>3. ASSUME NEW w \in Worker, Work(w) PROVE IInv'
    <2>1. CASE Dfs(w)
      BY <2>1, VisitStoppedStep, VisitExpiredStep, VisitSolvedStep, VisitLastStep,
         VisitInnerStep DEF Dfs
    <2>2. CASE LoopTest(w) \/ ClaimTask(w) \/ NoTaskLeft(w) \/ UpdateProfile(w)
      BY <2>2, LoopTestStep, ClaimTaskStep, NoTaskLeftStep, UpdateProfileStep
    <2>3. CASE Publish(w) \/ Expired(w) \/ Stop(w) \/ Exit(w)
      BY <2>3, PublishStep, ExpiredStep, StopStep, ExitStep
    <2> QED BY <1>3, <2>1, <2>2, <2>3 DEF Work
  <1>4. CASE Returned \/ UNCHANGED vars
    BY <1>4, StutterInv DEF Returned
  <1> QED BY <1>1, <1>2, <1>3, <1>4 DEF Next

THEOREM Inductive == Spec => []IInv
  BY InitInv, NextInv, PTL DEF Spec

\* The types of every variable, for every set of calls.
THEOREM TypeCorrect == Spec => []TypeOK
  <1>1. IInv => TypeOK
    BY DEF IInv
  <1> QED BY <1>1, Inductive, PTL

\* NotFound is returned only when no task has a solution: the fact the caller's
\* iterative deepening, and so the word "optimal", rests on.
THEOREM NotFoundExhaustive == Spec => []NotFoundIsExhaustive
  <1>1. IInv => NotFoundIsExhaustive
    BY DEF IInv, ResultInv, NotFoundIsExhaustive
  <1> QED BY <1>1, Inductive, PTL

\* Timeout is returned only after the deadline and never over a published solution.
THEOREM TimeoutHonest == Spec => []TimeoutIsHonest
  <1>1. IInv => TimeoutIsHonest
    BY DEF IInv, ResultInv, TimeoutIsHonest
  <1> QED BY <1>1, Inductive, PTL

\* No two workers ever search the same task.
THEOREM ClaimedOnce == Spec => []TasksClaimedOnce
  <1>1. IInv => TasksClaimedOnce
    BY DEF IInv
  <1> QED BY <1>1, Inductive, PTL

\* A published solution is never replaced.
THEOREM WrittenOnce == Spec => SolutionWrittenOnce
  <1>1. [Next]_vars => (foundSolution # None => foundSolution' = foundSolution)
    BY DEF Next, vars, DeadlineExpires, Main, StartReturns, StartSearch, Spawn, Join, Work,
           LoopTest, ClaimTask, NoTaskLeft, Dfs, VisitStopped, VisitExpired, VisitSolved,
           VisitLast, VisitInner, DfsUnchanged, UpdateProfile, Publish, KeepFirst, Expired,
           Stop, Exit, Returned
  <1> QED BY <1>1, PTL DEF Spec, SolutionWrittenOnce

-----------------------------------------------------------------------------
(* Refinement: every step of the threads is a step of RootSearchOutcome, or *)
(* a stutter of it.                                                         *)

LEMMA InitRefines == Init => Outcomes!Init
  <1> SUFFICES ASSUME Init PROVE Outcomes!Init
    OBVIOUS
  <1>1. GenuineSolutions \subseteq Nat
    BY CallFacts DEF Init, GenuineSolutions, RootPath
  <1> QED BY <1>1 DEF Init, Outcomes!Init

LEMMA StepRefines == IInv /\ IInv' /\ [Next]_vars => [Outcomes!Next]_Outcomes!vars
  <1> SUFFICES ASSUME IInv, IInv', [Next]_vars PROVE [Outcomes!Next]_Outcomes!vars
    OBVIOUS
  <1> DEFINE Same == UNCHANGED <<GenuineSolutions, deadlineExpired, result, solution>>
  <1>1. call' = call => GenuineSolutions' = GenuineSolutions
    BY DEF GenuineSolutions, Task, SolvedAt
  <1>2. Same => [Outcomes!Next]_Outcomes!vars
    BY DEF Outcomes!vars
  <1>3. CASE DeadlineExpires
    BY <1>1, <1>3 DEF DeadlineExpires, Outcomes!Next, Outcomes!DeadlineExpires
  <1>4. ASSUME result = "running", mainPc' = "done", UNCHANGED <<call, deadlineExpired>>
        PROVE  [Outcomes!Next]_Outcomes!vars
    <2>1. result' \in SearchState /\ GenuineSolutions' = GenuineSolutions /\ solution = None
      BY <1>1, <1>4 DEF IInv, TypeOK, MainInv
    <2>2. CASE result' = "Found"
      BY <1>4, <2>1, <2>2 DEF IInv, ResultInv, Outcomes!Next, Outcomes!AnswerFound
    <2>3. CASE result' = "NotFound"
      BY <1>4, <2>1, <2>3 DEF IInv, ResultInv, MainInv, Outcomes!Next, Outcomes!AnswerNotFound
    <2>4. CASE result' = "Timeout"
      BY <1>4, <2>1, <2>4 DEF IInv, ResultInv, MainInv, Outcomes!Next, Outcomes!AnswerTimeout
    <2> QED BY <2>1, <2>2, <2>3, <2>4 DEF SearchState
  <1>5. CASE StartReturns \/ Join
    BY <1>4, <1>5 DEF StartReturns, Join, Return, AllJoined, IInv, MainInv
  <1>6. CASE StartSearch \/ Spawn
    BY <1>1, <1>2, <1>6 DEF StartSearch, Spawn
  <1>7. CASE \E w \in Worker : Work(w)
    BY <1>1, <1>2, <1>7 DEF Work, LoopTest, ClaimTask, NoTaskLeft, Dfs, VisitStopped, VisitExpired,
           VisitSolved, VisitLast, VisitInner, DfsUnchanged, UpdateProfile, Publish, Expired,
           Stop, Exit, mainVars
  <1>8. CASE Returned \/ UNCHANGED vars
    BY <1>1, <1>2, <1>8 DEF Returned, vars
  <1> QED BY <1>3, <1>5, <1>6, <1>7, <1>8 DEF Next, Main

\* The threads, however many and however they interleave, implement the search
\* that answers once and truthfully.
THEOREM Refinement == Spec => ImplementsOutcome
  BY InitRefines, StepRefines, Inductive, PTL DEF Spec, Outcomes!Spec, ImplementsOutcome

-----------------------------------------------------------------------------
(***************************************************************************)
(* That the nodes reported add up, for every set of calls, any number of   *)
(* tasks, roots and threads: ProfilesAgree.  ProfilesInv, on top of IInv,  *)
(* follows the counts through the run: what the workers have counted is in *)
(* a root's entry or about to be entered; a worker adds its count to the   *)
(* total and to its profile at once; and until an outcome is on its way,   *)
(* every task entered has been searched to the end.                        *)
(***************************************************************************)

-----------------------------------------------------------------------------
(* Sums over finite sets. *)

LEMMA LeastNatural ==
    ASSUME NEW S \in SUBSET Nat, S # {}
    PROVE  \E m \in S : \A k \in S : m <= k
<1> DEFINE Less == OpToRel(<, Nat)
<1>1. IsWellFoundedOn(Less, Nat)
    BY NatLessThanWellFounded
<1>2. \A k, m \in Nat : k < m => <<k, m>> \in Less
    BY DEF OpToRel
<1> HIDE DEF Less
<1>3. \E m \in S : \A k \in S : ~(<<k, m>> \in Less)
    BY <1>1, WFMin
<1>4. PICK m \in S : \A k \in S : ~(<<k, m>> \in Less)
    BY <1>3
<1>5. \A k \in S : ~(k < m)
    BY <1>2, <1>4
<1>6. \A k \in S : m <= k
    BY <1>5
<1> QED BY <1>4, <1>6

\* Of some sets, one from which nothing can be taken away.
LEMMA LeastSet ==
    ASSUME NEW S, IsFiniteSet(S), NEW sets \in SUBSET (SUBSET S), sets # {}
    PROVE  \E s \in sets : \A x \in s : s \ {x} \notin sets
<1>1. \A s \in SUBSET S : IsFiniteSet(s) /\ Cardinality(s) \in Nat
    BY FS_Subset, FS_CardinalityType
<1> DEFINE sizes == {Cardinality(s) : s \in sets}
<1>2. sizes \in SUBSET Nat /\ sizes # {}
    BY <1>1
<1>3. PICK n \in sizes : \A k \in sizes : n <= k
    BY <1>2, LeastNatural
<1>4. PICK s \in sets : n = Cardinality(s)
    BY <1>3
<1>5. ASSUME NEW x \in s, s \ {x} \in sets PROVE FALSE
    <2>1. Cardinality(s \ {x}) = Cardinality(s) - 1 /\ Cardinality(s) \in Nat
        BY <1>1, FS_RemoveElement
    <2>2. Cardinality(s) <= Cardinality(s \ {x})
        BY <1>3, <1>4, <1>5
    <2>3. Cardinality(s \ {x}) \in Nat
        BY <1>1, <1>5
    <2> QED BY <2>1, <2>2, <2>3
<1> QED BY <1>5

Sum(f) == FoldFunction(LAMBDA a, b : a + b, 0, f)

\* The element a fold takes from a set.
Pick(s) == CHOOSE x \in s : TRUE

LEMMA Picked == ASSUME NEW s, s # {} PROVE Pick(s) \in s
BY DEF Pick

\* total are the sums of f over the subsets of S.
Totals(total, f, S) ==
    total = [s \in SUBSET S |-> IF s = {} THEN 0 ELSE f[Pick(s)] + total[s \ {Pick(s)}]]

LEMMA TotalsOf ==
    ASSUME NEW f, NEW S, NEW total, Totals(total, f, S)
    PROVE  /\ total[{}] = 0
           /\ \A s \in SUBSET S : s # {} => total[s] = f[Pick(s)] + total[s \ {Pick(s)}]
<1> DEFINE t == [s \in SUBSET S |-> IF s = {} THEN 0 ELSE f[Pick(s)] + total[s \ {Pick(s)}]]
<1>1. total = t
    BY DEF Totals
<1>2. \A s \in SUBSET S : t[s] = IF s = {} THEN 0 ELSE f[Pick(s)] + total[s \ {Pick(s)}]
    OBVIOUS
<1>3. {} \in SUBSET S
    OBVIOUS
<1> HIDE DEF t
<1> QED BY <1>1, <1>2, <1>3

LEMMA TotalsAgree ==
    ASSUME NEW f, NEW S, NEW T, IsFiniteSet(S), NEW p, NEW q, Totals(p, f, S), Totals(q, f, T)
    PROVE  \A s \in SUBSET S : s \in SUBSET T => p[s] = q[s]
<1> DEFINE bad == {s \in SUBSET S : s \in SUBSET T /\ p[s] # q[s]}
<1>1. CASE bad = {}
    BY <1>1
<1>2. CASE bad # {}
    <2>1. PICK s \in bad : \A x \in s : s \ {x} \notin bad
        BY <1>2, LeastSet
    <2>2. s \in SUBSET S /\ s \in SUBSET T /\ p[s] # q[s]
        BY <2>1
    <2>3. s # {}
        BY <2>2, TotalsOf
    <2>4. Pick(s) \in s /\ s \ {Pick(s)} \in SUBSET S /\ s \ {Pick(s)} \in SUBSET T
        BY <2>2, <2>3, Picked
    <2>5. p[s \ {Pick(s)}] = q[s \ {Pick(s)}]
        BY <2>1, <2>4
    <2>6. p[s] = f[Pick(s)] + p[s \ {Pick(s)}]
        BY <2>2, <2>3, TotalsOf
    <2>7. q[s] = f[Pick(s)] + q[s \ {Pick(s)}]
        BY <2>2, <2>3, TotalsOf
    <2> QED BY <2>2, <2>5, <2>6, <2>7
<1> QED BY <1>1, <1>2

LEMMA TotalsExist ==
    ASSUME NEW f, NEW S, IsFiniteSet(S)
    PROVE  \E total : Totals(total, f, S)
<1> DEFINE bad == {s \in SUBSET S : ~ \E total : Totals(total, f, s)}
<1>1. CASE bad = {}
    BY <1>1
<1>2. CASE bad # {}
    <2>1. PICK r \in bad : \A x \in r : r \ {x} \notin bad
        BY <1>2, LeastSet
    <2>2. r \in SUBSET S /\ IsFiniteSet(r) /\ ~ \E total : Totals(total, f, r)
        BY <2>1, FS_Subset
    <2> DEFINE part(x) == CHOOSE total : Totals(total, f, r \ {x})
    <2>3. ASSUME NEW x \in r PROVE Totals(part(x), f, r \ {x}) /\ IsFiniteSet(r \ {x})
        <3>1. \E total : Totals(total, f, r \ {x})
            BY <2>1, <2>2
        <3>2. IsFiniteSet(r \ {x})
            BY <2>2, FS_RemoveElement
        <3> QED BY <3>1, <3>2
    <2> HIDE DEF part
    \* A subset of r other than r lacks some element; the parts agree on it.
    <2> DEFINE missing(s) == CHOOSE x \in r : x \notin s
               whole == part(Pick(r))[r \ {Pick(r)}]
               total == [s \in SUBSET r |->
                            IF s = r THEN (IF r = {} THEN 0 ELSE f[Pick(r)] + whole)
                            ELSE part(missing(s))[s]]
    <2>4. ASSUME NEW s \in SUBSET r, s # r
          PROVE  missing(s) \in r /\ s \in SUBSET (r \ {missing(s)})
        <3>1. \E x \in r : x \notin s
            BY <2>4
        <3>2. missing(s) \in r /\ missing(s) \notin s
            BY <3>1
        <3> QED BY <3>2
    <2> HIDE DEF missing
    <2>5. ASSUME NEW s \in SUBSET r, NEW x \in r, x \notin s
          PROVE  total[s] = part(x)[s]
        <3>1. s # r /\ s \in SUBSET (r \ {x})
            BY <2>5
        <3>2. total[s] = part(missing(s))[s]
            <4> HIDE DEF whole
            <4> QED BY <3>1
        <3>3. Totals(part(x), f, r \ {x}) /\ IsFiniteSet(r \ {x})
            BY <2>3
        <3>4. missing(s) \in r /\ s \in SUBSET (r \ {missing(s)})
            BY <2>4, <3>1
        <3>5. Totals(part(missing(s)), f, r \ {missing(s)})
            BY <2>3, <3>4
        <3> HIDE DEF total
        <3>6. part(x)[s] = part(missing(s))[s]
            BY <3>1, <3>3, <3>4, <3>5, TotalsAgree
        <3> QED BY <3>2, <3>6
    <2>6. ASSUME NEW s \in SUBSET r
          PROVE  total[s] = IF s = {} THEN 0 ELSE f[Pick(s)] + total[s \ {Pick(s)}]
        <3>1. CASE s = r /\ r = {}
            BY <3>1
        <3>2. CASE s = r /\ r # {}
            <4>1. Pick(r) \in r /\ r \ {Pick(r)} \in SUBSET r
                BY <3>2, Picked
            <4>2. total[r] = f[Pick(r)] + whole
                <5> HIDE DEF whole
                <5> QED BY <3>2
            <4>3. total[r \ {Pick(r)}] = part(Pick(r))[r \ {Pick(r)}]
                BY <2>5, <4>1
            <4> HIDE DEF total
            <4> QED BY <3>2, <4>2, <4>3
        <3>3. CASE s # r
            <4>1. missing(s) \in r /\ s \in SUBSET (r \ {missing(s)})
                BY <2>4, <3>3
            <4>2. missing(s) \notin s /\ missing(s) \notin s \ {Pick(s)} /\ s \ {Pick(s)} \in SUBSET r
                  /\ s \ {Pick(s)} \in SUBSET (r \ {missing(s)})
                BY <4>1
            <4>3. total[s] = part(missing(s))[s] /\ total[s \ {Pick(s)}] = part(missing(s))[s \ {Pick(s)}]
                BY <2>5, <4>1, <4>2
            <4>4. Totals(part(missing(s)), f, r \ {missing(s)})
                BY <2>3, <4>1
            <4> HIDE DEF total
            <4>5. /\ part(missing(s))[{}] = 0
                  /\ s # {} => part(missing(s))[s] = f[Pick(s)] + part(missing(s))[s \ {Pick(s)}]
                BY <4>1, <4>4, TotalsOf
            <4> QED BY <4>3, <4>5
        <3> QED BY <3>1, <3>2, <3>3
    <2>7. total = [s \in SUBSET r |-> total[s]]
        OBVIOUS
    <2> HIDE DEF total
    <2>8. Totals(total, f, r)
        BY <2>6, <2>7 DEF Totals
    <2> QED BY <2>2, <2>8
<1> QED BY <1>1, <1>2

LEMMA SumIs ==
    ASSUME NEW f, IsFiniteSet(DOMAIN f)
    PROVE  \E total : Totals(total, f, DOMAIN f) /\ Sum(f) = total[DOMAIN f]
<1> DEFINE T(total) == Totals(total, f, DOMAIN f)
           iter == CHOOSE total : T(total)
<1>1. Sum(f) = iter[DOMAIN f]
    BY DEF Sum, FoldFunction, FoldFunctionOnSet, MapThenFoldSet, Totals, Pick
<1>2. T(iter)
    <2>1. \E total : T(total)
        BY TotalsExist
    <2> HIDE DEF T
    <2> QED BY <2>1
<1> QED BY <1>1, <1>2

LEMMA SumIsNatural ==
    ASSUME NEW S, IsFiniteSet(S), NEW f \in [S -> Nat]
    PROVE  Sum(f) \in Nat
<1>1. DOMAIN f = S
    OBVIOUS
<1>2. PICK total : Totals(total, f, S) /\ Sum(f) = total[S]
    BY <1>1, SumIs
<1> DEFINE bad == {s \in SUBSET S : total[s] \notin Nat}
<1>3. CASE bad = {}
    BY <1>2, <1>3
<1>4. CASE bad # {}
    <2>1. PICK s \in bad : \A x \in s : s \ {x} \notin bad
        BY <1>4, LeastSet
    <2>2. s # {}
        <3>1. total[{}] = 0
            BY <1>2, TotalsOf
        <3> QED BY <2>1, <3>1
    <2>3. Pick(s) \in s /\ s \in SUBSET S /\ s \ {Pick(s)} \in SUBSET S
        BY <2>1, <2>2, Picked
    <2>4. total[s \ {Pick(s)}] \in Nat
        BY <2>1, <2>3
    <2>5. total[s] = f[Pick(s)] + total[s \ {Pick(s)}]
        BY <1>2, <2>2, <2>3, TotalsOf
    <2> QED BY <2>1, <2>3, <2>4, <2>5
<1> QED BY <1>3, <1>4

LEMMA SumOfZeros ==
    ASSUME NEW S, IsFiniteSet(S), NEW f \in [S -> Nat], \A x \in S : f[x] = 0
    PROVE  Sum(f) = 0
<1>1. DOMAIN f = S
    OBVIOUS
<1>2. PICK total : Totals(total, f, S) /\ Sum(f) = total[S]
    BY <1>1, SumIs
<1> DEFINE bad == {s \in SUBSET S : total[s] # 0}
<1>3. CASE bad = {}
    BY <1>2, <1>3
<1>4. CASE bad # {}
    <2>1. PICK s \in bad : \A x \in s : s \ {x} \notin bad
        BY <1>4, LeastSet
    <2>2. s # {}
        BY <1>2, <2>1, TotalsOf
    <2>3. Pick(s) \in s /\ s \in SUBSET S /\ s \ {Pick(s)} \in SUBSET S
        BY <2>1, <2>2, Picked
    <2>4. total[s \ {Pick(s)}] = 0
        BY <2>1, <2>3
    <2>5. total[s] = f[Pick(s)] + total[s \ {Pick(s)}]
        BY <1>2, <2>2, <2>3, TotalsOf
    <2> QED BY <2>1, <2>3, <2>4, <2>5
<1> QED BY <1>3, <1>4

\* Adding to one of the terms adds to the sum.
LEMMA SumAdds ==
    ASSUME NEW S, IsFiniteSet(S), NEW f \in [S -> Nat], NEW g \in [S -> Nat], NEW y \in S, NEW n \in Nat,
           g[y] = f[y] + n, \A x \in S : x # y => g[x] = f[x]
    PROVE  Sum(g) = Sum(f) + n
<1>1. DOMAIN f = S /\ DOMAIN g = S
    OBVIOUS
<1>2. PICK p : Totals(p, f, S) /\ Sum(f) = p[S]
    BY <1>1, SumIs
<1>3. PICK q : Totals(q, g, S) /\ Sum(g) = q[S]
    BY <1>1, SumIs
<1> DEFINE more(s) == IF y \in s THEN n ELSE 0
           bad == {s \in SUBSET S : p[s] \notin Nat \/ q[s] # p[s] + more(s)}
<1>4. CASE bad = {}
    <2>1. p[S] \in Nat /\ q[S] = p[S] + more(S)
        BY <1>4
    <2> QED BY <1>2, <1>3, <2>1
<1>5. CASE bad # {}
    <2>1. PICK s \in bad : \A x \in s : s \ {x} \notin bad
        BY <1>5, LeastSet
    <2>2. s # {}
        <3>1. p[{}] = 0
            BY <1>2, TotalsOf
        <3>2. q[{}] = 0
            <4> HIDE DEF more, bad
            <4>1. Totals(q, g, S)
                BY <1>3
            <4> QED BY <4>1, TotalsOf
        <3>3. p[s] \notin Nat \/ q[s] # p[s] + more(s)
            BY <2>1
        <3>4. more({}) = 0
            OBVIOUS
        <3> HIDE DEF bad, more
        <3>5. ASSUME s = {} PROVE FALSE
            <4>1. p[s] = 0 /\ q[s] = 0 /\ more(s) = 0
                BY <3>1, <3>2, <3>4, <3>5
            <4> QED BY <3>3, <4>1
        <3> QED BY <3>5
    <2> DEFINE x == Pick(s)
    <2>3. x \in s /\ s \in SUBSET S /\ s \ {x} \in SUBSET S
        BY <2>1, <2>2, Picked
    <2>4. p[s \ {x}] \in Nat /\ q[s \ {x}] = p[s \ {x}] + more(s \ {x})
        BY <2>1, <2>3
    <2>5. p[s] = f[x] + p[s \ {x}] /\ q[s] = g[x] + q[s \ {x}]
        BY <1>2, <1>3, <2>2, <2>3, TotalsOf
    <2>6. p[s] \notin Nat \/ q[s] # p[s] + more(s)
        BY <2>1
    <2>7. f[x] \in Nat /\ g[x] \in Nat
        BY <2>3
    <2> HIDE DEF x
    <2>8. p[s] \in Nat
        BY <2>4, <2>5, <2>7
    <2>9. CASE x = y
        BY <2>3, <2>4, <2>5, <2>6, <2>7, <2>8, <2>9
    <2>10. CASE x # y
        <3>1. g[x] = f[x] /\ more(s \ {x}) = more(s) /\ more(s) \in Nat
            BY <2>3, <2>10
        <3> HIDE DEF more
        <3> QED BY <2>4, <2>5, <2>6, <2>7, <2>8, <3>1
    <2> QED BY <2>9, <2>10
<1> QED BY <1>4, <1>5

-----------------------------------------------------------------------------
Team == 0 .. WorkerCount - 1

\* The task t is being searched, or its search is about to be entered in the
\* per-root profile; and the tasks that have been entered.
Searching(w) == pc[w] \in {"dfs", "profile"}
Held(t)      == \E w \in Worker : Searching(w) /\ task[w] = t
Finished(t)  == t < nextTask /\ ~Held(t)

\* The nodes each root, each worker's profile, and each worker has counted; those
\* not yet in a root's entry; and those of the tasks searched to the end.
RootNodes    == [r \in DOMAIN rootProfile |-> rootProfile[r].nodes]
ProfileNodes == [w \in DOMAIN workerProfile |-> workerProfile[w].nodes]
CountedNodes == [w \in Team |-> localNodes[w]]
PendingNodes == [w \in Team |-> IF Searching(w) THEN visited[w] ELSE 0]
FinishedNodes == [t \in Task |-> IF Finished(t) THEN Size(t) ELSE 0]

NothingCounted ==
    /\ nodesExpanded = 0
    /\ totalWorkerNodes = 0
    /\ nextTask = 1
    /\ rootProfile = <<>>
    /\ localNodes = [w \in Worker |-> 0]

\* Exit adds a worker's nodes to the total and to its profile at once.
WorkersAddUp ==
    /\ nodesExpanded = 1
    /\ totalWorkerNodes = Sum(ProfileNodes)
    /\ \A w \in Team :
          workerProfile[w].nodes = IF pc[w] = "exited" THEN localNodes[w] ELSE 0

\* What the workers have counted is in the roots' entries or about to be.
NodesBalance == Sum(RootNodes) + Sum(PendingNodes) = Sum(CountedNodes)

\* Until an outcome is on its way no task is cut short.
NothingCutShort ==
    ~Decided =>
        /\ \A w \in Worker : Carries(w, "NotFound") => visited[w] = Size(task[w])
        /\ Sum(RootNodes) = Sum(FinishedNodes)

\* In the root split a root's entry is written once.
RootsFresh ==
    ~call.deep =>
        \A t \in Task : ~Finished(t) =>
            rootProfile[t].nodes = 0 /\ rootProfile[t].state = "NotFound"

ShownFound(t) == rootProfile[RootOf(t)].state = "Found"

\* A solution on its way, or published, is shown at its root.
SolutionShown ==
    /\ \A w \in Worker : pc[w] = "publish" => ShownFound(task[w])
    /\ foundSolution # None => ShownFound(foundSolution) /\ Finished(foundSolution)

HasSolution == foundSolution # None \/ \E w \in Worker : pc[w] = "publish"

\* A root shown Found has a solution behind it, and a time-out shows at a root
\* unless a solution covers it.
TimeoutShown ==
    /\ \A r \in Roots : rootProfile[r].state = "Found" => HasSolution
    /\ timedOut \/ (\E w \in Worker : pc[w] = "expired") =>
          HasSolution \/ \E r \in Roots : rootProfile[r].state = "Timeout"

RootsVisited == \A t \in Task : Finished(t) => rootProfile[RootOf(t)].visited

\* ProfilesAgree, with the sums above.
SumsAgree ==
    mainPc = "done" /\ Started =>
        /\ nodesExpanded = 1 + Sum(RootNodes)
        /\ nodesExpanded = 1 + Sum(ProfileNodes)
        /\ result = "NotFound" => nodesExpanded = 1 + Sum([t \in Task |-> Size(t)])
        /\ result = "Found" => rootProfile[RootOf(solution)].state = "Found"
        /\ result = "Timeout" => \E r \in Roots : rootProfile[r].state = "Timeout"
        /\ result = "NotFound" => \A r \in Roots : rootProfile[r].visited

\* The inductive invariant.
ProfilesInv ==
    /\ mainPc = "start" => NothingCounted
    /\ mainPc = "threads" =>
          /\ WorkersAddUp
          /\ NodesBalance
          /\ NothingCutShort
          /\ RootsFresh
          /\ SolutionShown
          /\ TimeoutShown
          /\ RootsVisited
    /\ SumsAgree

-----------------------------------------------------------------------------

\* The sets of a call with a task are finite.
LEMMA CallSets ==
    ASSUME call \in Calls, Task # {}
    PROVE  /\ IsFiniteSet(Team) /\ IsFiniteSet(Roots) /\ IsFiniteSet(Task)
           /\ Team \subseteq Worker
           /\ \A t \in Task : RootOf(t) \in Roots /\ (~call.deep => RootOf(t) = t)
<1>1. WellFormed(call)
    BY CallsAssumption
<1>2. call.tasks \in Seq(TaskType)
    BY <1>1 DEF WellFormed, CallType
<1>3. Task = 1 .. Len(call.tasks) /\ Len(call.tasks) \in Nat
    BY <1>2 DEF Task
<1>4. WorkerCount \in 1 .. MaxThreads /\ MaxThreads \in Nat
    BY CallFacts
<1>5. \A t \in Task : RootOf(t) \in 1 .. Len(call.tasks) /\ (~call.deep => RootOf(t) = t)
    <2>1. \A t \in Task : RootOf(t) \in Nat \ {0}
        BY CallFacts
    <2>2. \A t \in Task : RootOf(t) <= Len(call.tasks) /\ (~call.deep => RootOf(t) = t)
        BY <1>1 DEF WellFormed, Task, RootOf
    <2> QED BY <1>3, <2>1, <2>2
<1>6. Roots \subseteq 1 .. Len(call.tasks) /\ \A t \in Task : RootOf(t) \in Roots
    BY <1>5 DEF Roots
<1>7. IsFiniteSet(1 .. Len(call.tasks)) /\ IsFiniteSet(0 .. WorkerCount - 1)
    BY <1>3, <1>4, FS_Interval
<1>8. IsFiniteSet(Team) /\ IsFiniteSet(Roots) /\ IsFiniteSet(Task)
    BY <1>3, <1>6, <1>7, FS_Subset DEF Team
<1>9. Team \subseteq Worker
    BY <1>4 DEF Team, Worker
<1> QED BY <1>5, <1>6, <1>8, <1>9

\* What is known while the workers run.
LEMMA ThreadFacts ==
    ASSUME IInv, mainPc = "threads"
    PROVE  /\ IsFiniteSet(Team) /\ IsFiniteSet(Roots) /\ IsFiniteSet(Task)
           /\ Team \subseteq Worker
           /\ \A t \in Task : RootOf(t) \in Roots /\ (~call.deep => RootOf(t) = t)
           /\ \A w \in Worker : pc[w] # "unspawned" => w \in Team
           /\ rootProfile \in [Roots -> [nodes : Nat, state : SearchState, visited : BOOLEAN]]
           /\ workerProfile \in [Team -> [roots : Nat, nodes : Nat]]
           /\ \A t \in Task : Size(t) \in Nat
<1>1. call \in Calls /\ Task # {}
    BY DEF IInv, TypeOK, MainInv
<1>2. WorkerCount \in 1 .. MaxThreads /\ MaxThreads \in Nat /\ \A t \in Task : Size(t) \in Nat
    BY <1>1, CallFacts
<1>3. ASSUME NEW w \in Worker, pc[w] # "unspawned" PROVE w \in Team
    <2>1. ~(spawned <= w) /\ spawned <= WorkerCount /\ spawned \in Nat
        BY <1>3 DEF IInv, MainInv, WorkerInv, TypeOK
    <2> QED BY <1>2, <2>1 DEF Team, Worker
<1>4. /\ rootProfile \in [Roots -> [nodes : Nat, state : SearchState, visited : BOOLEAN]]
      /\ workerProfile \in [Team -> [roots : Nat, nodes : Nat]]
    BY DEF IInv, TypeOK, ProfilesOK, Team
<1> QED BY <1>1, <1>2, <1>3, <1>4, CallSets

\* The sums are natural numbers.
LEMMA CountsAreNatural ==
    ASSUME IInv, mainPc = "threads"
    PROVE  /\ RootNodes \in [Roots -> Nat]
           /\ ProfileNodes \in [Team -> Nat]
           /\ CountedNodes \in [Team -> Nat]
           /\ PendingNodes \in [Team -> Nat]
           /\ FinishedNodes \in [Task -> Nat]
           /\ Sum(RootNodes) \in Nat
           /\ Sum(ProfileNodes) \in Nat
           /\ Sum(CountedNodes) \in Nat
           /\ Sum(PendingNodes) \in Nat
           /\ Sum(FinishedNodes) \in Nat
<1>1. RootNodes \in [Roots -> Nat] /\ ProfileNodes \in [Team -> Nat]
    BY ThreadFacts DEF RootNodes, ProfileNodes
<1>2. CountedNodes \in [Team -> Nat] /\ PendingNodes \in [Team -> Nat]
    BY ThreadFacts DEF IInv, TypeOK, CountedNodes, PendingNodes
<1>3. FinishedNodes \in [Task -> Nat]
    BY CallFacts DEF IInv, TypeOK, FinishedNodes
<1>4. IsFiniteSet(Team) /\ IsFiniteSet(Roots) /\ IsFiniteSet(Task)
    BY ThreadFacts
<1>5. Sum(RootNodes) \in Nat
    BY <1>1, <1>4, SumIsNatural
<1>6. Sum(ProfileNodes) \in Nat
    BY <1>1, <1>4, SumIsNatural
<1>7. Sum(CountedNodes) \in Nat
    BY <1>2, <1>4, SumIsNatural
<1>8. Sum(PendingNodes) \in Nat
    BY <1>2, <1>4, SumIsNatural
<1>9. Sum(FinishedNodes) \in Nat
    BY <1>3, <1>4, SumIsNatural
<1> QED BY <1>1, <1>2, <1>3, <1>5, <1>6, <1>7, <1>8, <1>9

\* Only while the calling thread waits do workers run.
LEMMA WorkersRunInThreads ==
    ASSUME IInv, NEW w \in Worker, pc[w] \notin {"unspawned", "exited"}
    PROVE  mainPc = "threads"
<1>1. mainPc # "done"
    BY DEF IInv, ResultInv
<1>2. mainPc # "start"
    <2>1. ASSUME mainPc = "start" PROVE FALSE
        <3>1. spawned = 0 /\ 0 <= w
            BY <2>1 DEF IInv, MainInv, Worker
        <3> QED BY <3>1 DEF IInv, WorkerInv
    <2> QED BY <2>1
<1> QED BY <1>1, <1>2 DEF IInv, TypeOK

\* The constants of a call.
LEMMA CallKept ==
    ASSUME UNCHANGED call
    PROVE  /\ Task' = Task /\ Roots' = Roots /\ Team' = Team /\ WorkerCount' = WorkerCount
           /\ \A t : Size(t)' = Size(t) /\ RootOf(t)' = RootOf(t)
BY DEF Task, Roots, Team, WorkerCount, Size, RootOf

\* The parts that hold while the workers run.
ThreadsInv ==
    /\ WorkersAddUp
    /\ NodesBalance
    /\ NothingCutShort
    /\ RootsFresh
    /\ SolutionShown
    /\ TimeoutShown
    /\ RootsVisited

LEMMA InitCounts == Init => ProfilesInv
<1> SUFFICES ASSUME Init PROVE ProfilesInv
    OBVIOUS
<1>1. [r \in {} |-> None] = <<>>
    OBVIOUS
<1> QED BY <1>1 DEF Init, ProfilesInv, NothingCounted, SumsAgree

\* The parts speak only of these variables.
LEMMA NothingTouched ==
    ASSUME ProfilesInv,
           UNCHANGED <<call, mainVars, nextTask, timedOut, foundSolution, totalWorkerNodes,
                       profiles, pc, task, visited, state, localNodes>>
    PROVE  ProfilesInv'
<1>1. NothingCounted' = NothingCounted
    BY CallKept DEF NothingCounted, Worker
<1>2. WorkersAddUp' = WorkersAddUp
    BY CallKept DEF WorkersAddUp, ProfileNodes
<1>3. NodesBalance' = NodesBalance
    BY CallKept DEF NodesBalance, RootNodes, PendingNodes, CountedNodes, Searching
<1>4. NothingCutShort' = NothingCutShort
    BY CallKept DEF NothingCutShort, Decided, Recorded, CarriesSolution, CarriesTimeout, Carries,
                    RootNodes, FinishedNodes, Finished, Held, Searching, Size, Task
<1>5. RootsFresh' = RootsFresh
    BY CallKept DEF RootsFresh, Finished, Held, Searching
<1>6. SolutionShown' = SolutionShown
    BY CallKept DEF SolutionShown, ShownFound, RootOf, Finished, Held, Searching
<1>7. TimeoutShown' = TimeoutShown
    BY CallKept DEF TimeoutShown, HasSolution
<1>8. RootsVisited' = RootsVisited
    BY CallKept DEF RootsVisited, RootOf, Finished, Held, Searching, Task
<1>9. SumsAgree' = SumsAgree
    BY CallKept DEF SumsAgree, Started, RootNodes, ProfileNodes, Size, RootOf, Task, Roots
<1> QED BY <1>1, <1>2, <1>3, <1>4, <1>5, <1>6, <1>7, <1>8, <1>9 DEF ProfilesInv

LEMMA DeadlineCounts == ASSUME ProfilesInv, DeadlineExpires PROVE ProfilesInv'
BY NothingTouched DEF DeadlineExpires

LEMMA StartReturnsCounts == ASSUME IInv, ProfilesInv, StartReturns PROVE ProfilesInv'
<1>1. ~Started'
    BY DEF StartReturns, ProfilesInv, NothingCounted, Started
<1>2. mainPc' = "done"
    BY DEF StartReturns, Return
<1> QED BY <1>1, <1>2 DEF ProfilesInv, SumsAgree

LEMMA StartSearchCounts == ASSUME IInv, IInv', ProfilesInv, StartSearch PROVE ProfilesInv'
<1>1. mainPc = "start" /\ mainPc' = "threads" /\ UNCHANGED <<call, sharedVars, pc, localVars>>
    BY DEF StartSearch
<1>2. NothingCounted
    BY <1>1 DEF ProfilesInv
<1>3. \A w \in Worker : pc'[w] = "unspawned"
    BY <1>1 DEF IInv, MainInv, WorkerInv, Worker
<1>4. \A w \in Worker : ~Searching(w)'
    BY <1>3 DEF Searching
<1>5. nextTask' = 1 /\ foundSolution' = None /\ ~timedOut'
    BY <1>1, <1>2 DEF NothingCounted, IInv, MainInv
<1>6. \A t \in Task' : ~Finished(t)'
    BY <1>1, <1>5, CallFacts, CallKept DEF Finished, IInv, TypeOK
<1>7. rootProfile' = [r \in Roots' |-> [nodes |-> 0, state |-> "NotFound", visited |-> FALSE]]
    BY <1>1, CallKept DEF StartSearch
<1>8. workerProfile' = [w \in Team' |-> [roots |-> 0, nodes |-> 0]]
    BY <1>1, CallKept DEF StartSearch, Team
<1>9. /\ IsFiniteSet(Team') /\ IsFiniteSet(Roots') /\ IsFiniteSet(Task') /\ Team' \subseteq Worker
      /\ \A t \in Task' : RootOf(t)' \in Roots'
    BY <1>1, CallSets, CallKept DEF IInv, TypeOK, StartSearch
<1>10. WorkersAddUp'
    <2>1. \A w \in Team' : workerProfile'[w].nodes = 0 /\ ProfileNodes'[w] = 0
        BY <1>8 DEF ProfileNodes
    <2>2. ProfileNodes' \in [Team' -> Nat]
        BY <1>8 DEF ProfileNodes
    <2>3. Sum(ProfileNodes') = 0
        BY <1>9, <2>1, <2>2, SumOfZeros
    <2>4. nodesExpanded' = 1 /\ totalWorkerNodes' = 0
        BY <1>1, <1>2 DEF StartSearch, NothingCounted
    <2> QED BY <1>3, <1>9, <2>1, <2>3, <2>4 DEF WorkersAddUp
<1>11. Sum(RootNodes') = 0
    <2>1. RootNodes' \in [Roots' -> Nat] /\ \A r \in Roots' : RootNodes'[r] = 0
        BY <1>7 DEF RootNodes
    <2> QED BY <1>9, <2>1, SumOfZeros
<1>12. NodesBalance'
    <2>1. PendingNodes' \in [Team' -> Nat] /\ \A w \in Team' : PendingNodes'[w] = 0
        BY <1>4, <1>9 DEF PendingNodes
    <2>2. CountedNodes' \in [Team' -> Nat] /\ \A w \in Team' : CountedNodes'[w] = 0
        BY <1>1, <1>2, <1>9 DEF CountedNodes, NothingCounted
    <2>3. Sum(PendingNodes') = 0
        BY <1>9, <2>1, SumOfZeros
    <2>4. Sum(CountedNodes') = 0
        BY <1>9, <2>2, SumOfZeros
    <2> QED BY <1>11, <2>3, <2>4 DEF NodesBalance
<1>13. NothingCutShort'
    <2>1. FinishedNodes' \in [Task' -> Nat] /\ \A t \in Task' : FinishedNodes'[t] = 0
        BY <1>6 DEF FinishedNodes
    <2>2. Sum(FinishedNodes') = 0
        BY <1>9, <2>1, SumOfZeros
    <2> QED BY <1>3, <1>11, <2>2 DEF NothingCutShort, Carries
<1>14. RootsFresh' /\ RootsVisited'
    <2>1. \A t \in Task' : ~call'.deep => t \in Roots'
        BY <1>1, CallSets, CallKept DEF IInv, TypeOK, StartSearch
    <2> QED BY <1>6, <1>7, <2>1 DEF RootsFresh, RootsVisited
<1>15. SolutionShown' /\ TimeoutShown'
    BY <1>3, <1>5, <1>7 DEF SolutionShown, TimeoutShown
<1>16. ThreadsInv'
    BY <1>10, <1>12, <1>13, <1>14, <1>15 DEF ThreadsInv
<1> QED BY <1>1, <1>16 DEF ProfilesInv, ThreadsInv, SumsAgree

LEMMA WhileThreadsRun == ASSUME ProfilesInv, mainPc = "threads" PROVE ThreadsInv
BY DEF ProfilesInv, ThreadsInv

LEMMA StillRunning ==
    ASSUME mainPc' = "threads", ThreadsInv'
    PROVE  ProfilesInv'
BY DEF ProfilesInv, ThreadsInv, SumsAgree

\* A step that writes no profile and finishes no task.
LEMMA QuietStep ==
    ASSUME IInv, mainPc = "threads", ThreadsInv,
           UNCHANGED <<call, profiles, nodesExpanded, totalWorkerNodes>>,
           \A v \in Worker : pc'[v] = "exited" <=> pc[v] = "exited",
           \A v \in Worker : pc[v] = "exited" => localNodes'[v] = localNodes[v],
           \A t \in Task : Finished(t)' <=> Finished(t),
           Decided => Decided'
    PROVE  /\ WorkersAddUp'
           /\ RootsFresh'
           /\ RootsVisited'
           /\ ~Decided' => Sum(RootNodes') = Sum(FinishedNodes')
<1>1. WorkersAddUp'
    <2>1. ProfileNodes' = ProfileNodes
        BY DEF ProfileNodes
    <2> QED BY <2>1, ThreadFacts, CallKept DEF ThreadsInv, WorkersAddUp
<1>2. RootsFresh' /\ RootsVisited'
    BY CallKept DEF ThreadsInv, RootsFresh, RootsVisited, RootOf
<1>3. RootNodes' = RootNodes
    BY DEF RootNodes
<1>4. FinishedNodes' = FinishedNodes
    <2>1. \A t \in Task : (IF Finished(t) THEN Size(t) ELSE 0)' = IF Finished(t) THEN Size(t) ELSE 0
        BY CallKept
    <2> QED BY <2>1, CallKept DEF FinishedNodes
<1> QED BY <1>1, <1>2, <1>3, <1>4 DEF ThreadsInv, NothingCutShort

\* What is counted but not entered stays so.
LEMMA BalanceKept ==
    ASSUME IInv, mainPc = "threads", NodesBalance,
           UNCHANGED <<call, rootProfile, localNodes>>,
           \A v \in Team : (IF Searching(v) THEN visited[v] ELSE 0)' = IF Searching(v) THEN visited[v] ELSE 0
    PROVE  NodesBalance'
<1>1. PendingNodes' = PendingNodes
    BY CallKept DEF PendingNodes
<1>2. RootNodes' = RootNodes /\ CountedNodes' = CountedNodes
    BY CallKept DEF RootNodes, CountedNodes
<1> QED BY <1>1, <1>2 DEF NodesBalance

\* A worker that is not searching before or after its step leaves what is searched.
LEMMA SearchingKept ==
    ASSUME IInv, NEW w \in Worker, UNCHANGED <<task, visited>>,
           \A v \in Worker : v # w => pc'[v] = pc[v],
           ~Searching(w), ~Searching(w)'
    PROVE  /\ \A v \in Worker : Searching(v)' <=> Searching(v)
           /\ \A t : Held(t)' <=> Held(t)
           /\ \A v \in Worker :
                 (IF Searching(v) THEN visited[v] ELSE 0)' = IF Searching(v) THEN visited[v] ELSE 0
<1>1. \A v \in Worker : Searching(v)' <=> Searching(v)
    BY DEF Searching
<1>2. \A t : Held(t)' <=> Held(t)
    BY <1>1 DEF Held
<1> QED BY <1>1, <1>2

LEMMA SpawnCounts == ASSUME IInv, ProfilesInv, Spawn PROVE ProfilesInv'
<1>1. mainPc = "threads" /\ mainPc' = "threads"
    BY DEF Spawn
<1>2. ThreadsInv
    BY <1>1, WhileThreadsRun
<1>3. PICK w \in Worker : pc[w] = "unspawned" /\ pc' = [pc EXCEPT ![w] = "loop"]
    <2>1. WorkerCount \in 1 .. MaxThreads /\ MaxThreads \in Nat /\ spawned \in Nat
        BY <1>1, CallFacts DEF IInv, TypeOK, MainInv
    <2>2. spawned \in Worker
        BY <2>1 DEF Spawn, Worker
    <2>3. spawned <= spawned
        BY <2>1
    <2>4. pc[spawned] = "unspawned" /\ pc' = [pc EXCEPT ![spawned] = "loop"]
        BY <2>2, <2>3 DEF Spawn, IInv, WorkerInv
    <2> QED BY <2>2, <2>4
<1>4. UNCHANGED <<call, profiles, nodesExpanded, sharedVars, localVars>>
    BY DEF Spawn
<1>5. pc'[w] = "loop" /\ \A v \in Worker : v # w => pc'[v] = pc[v]
    BY <1>3 DEF IInv, TypeOK
<1>6. ~Searching(w) /\ ~Searching(w)'
    BY <1>3, <1>5 DEF Searching
<1>7. /\ \A t : Held(t)' <=> Held(t)
      /\ \A v \in Worker :
            (IF Searching(v) THEN visited[v] ELSE 0)' = IF Searching(v) THEN visited[v] ELSE 0
    BY <1>3, <1>4, <1>5, <1>6, SearchingKept
<1>8. Decided' <=> Decided
    BY <1>3, <1>4, <1>5 DEF Decided, Recorded, CarriesSolution, CarriesTimeout, Carries
<1>9. \A t : Finished(t)' <=> Finished(t)
    BY <1>4, <1>7 DEF Finished
<1>10. /\ WorkersAddUp' /\ RootsFresh' /\ RootsVisited'
       /\ ~Decided' => Sum(RootNodes') = Sum(FinishedNodes')
    BY <1>1, <1>2, <1>3, <1>4, <1>5, <1>8, <1>9, QuietStep
<1>11. NodesBalance'
    BY <1>1, <1>2, <1>4, <1>7, BalanceKept, ThreadFacts DEF ThreadsInv
<1>12. NothingCutShort'
    BY <1>2, <1>3, <1>4, <1>5, <1>8, <1>10, CallKept DEF ThreadsInv, NothingCutShort, Carries
<1>13. SolutionShown'
    BY <1>2, <1>3, <1>4, <1>5, <1>9, CallKept DEF ThreadsInv, SolutionShown, ShownFound
<1>14. TimeoutShown'
    BY <1>2, <1>3, <1>4, <1>5, CallKept DEF ThreadsInv, TimeoutShown, HasSolution
<1> QED BY <1>1, <1>10, <1>11, <1>12, <1>13, <1>14, StillRunning DEF ThreadsInv

-----------------------------------------------------------------------------
(* A worker's steps. *)

\* A worker that goes from one place to another without holding a task it searches.
LEMMA MoveOn ==
    ASSUME IInv, NEW w \in Worker, mainPc = "threads", ThreadsInv,
           UNCHANGED <<call, profiles, nodesExpanded, totalWorkerNodes, task, visited, state, localNodes>>,
           \A v \in Worker : v # w => pc'[v] = pc[v],
           pc[w] \in {"loop", "claim", "publish", "expired", "stop"},
           pc'[w] \in {"loop", "claim", "stop", "exit"},
           \A t \in Task : t < nextTask' <=> t < nextTask,
           Decided => Decided'
    PROVE  /\ WorkersAddUp' /\ RootsFresh' /\ RootsVisited' /\ NodesBalance' /\ NothingCutShort'
           /\ \A t \in Task : Finished(t)' <=> Finished(t)
<1>1. ~Searching(w) /\ ~Searching(w)'
    BY DEF Searching
<1>2. /\ \A t : Held(t)' <=> Held(t)
      /\ \A v \in Worker :
            (IF Searching(v) THEN visited[v] ELSE 0)' = IF Searching(v) THEN visited[v] ELSE 0
    BY <1>1, SearchingKept
<1>3. \A t \in Task : Finished(t)' <=> Finished(t)
    BY <1>2 DEF Finished
<1>4. /\ WorkersAddUp' /\ RootsFresh' /\ RootsVisited'
      /\ ~Decided' => Sum(RootNodes') = Sum(FinishedNodes')
    BY <1>3, QuietStep
<1>5. NodesBalance'
    BY <1>2, BalanceKept, ThreadFacts DEF ThreadsInv
<1>6. NothingCutShort'
    BY <1>4, CallKept DEF ThreadsInv, NothingCutShort, Carries
<1> QED BY <1>3, <1>4, <1>5, <1>6

\* ... and with nothing to show.
LEMMA LoopCounts ==
    ASSUME IInv, ProfilesInv, NEW w \in Worker, LoopTest(w) \/ NoTaskLeft(w) \/ Stop(w)
    PROVE  ProfilesInv'
<1>1. mainPc = "threads" /\ mainPc' = "threads"
    BY WorkersRunInThreads DEF LoopTest, NoTaskLeft, Stop
<1>2. ThreadsInv
    BY <1>1, WhileThreadsRun
<1>3. UNCHANGED <<call, profiles, nodesExpanded, totalWorkerNodes, foundSolution, timedOut,
                  task, visited, state, localNodes>>
    BY DEF LoopTest, NoTaskLeft, Stop
<1>4. /\ \A v \in Worker : v # w => pc'[v] = pc[v]
      /\ pc[w] \in {"loop", "claim", "stop"}
      /\ pc'[w] \in {"claim", "exit"}
    BY DEF LoopTest, NoTaskLeft, Stop, Goto, ReadsStop, ReadsGo, IInv, TypeOK
<1>5. \A t \in Task : t < nextTask' <=> t < nextTask
    <2>1. CASE LoopTest(w) \/ Stop(w)
        BY <2>1 DEF LoopTest, Stop
    <2>2. CASE NoTaskLeft(w)
        <3>1. call \in Calls /\ nextTask \in Nat \ {0} /\ nextTask \notin Task /\ nextTask' = nextTask + 1
            BY <2>2 DEF NoTaskLeft, FetchAdd, IInv, TypeOK
        <3>2. Task \subseteq Nat /\ \A t \in Task : t < nextTask
            BY <3>1, CounterPastTasks, CallFacts
        <3> QED BY <3>1, <3>2
    <2> QED BY <2>1, <2>2
<1>6. Decided' <=> Decided
    BY <1>3, <1>4 DEF Decided, Recorded, CarriesSolution, CarriesTimeout, Carries
<1>7. /\ WorkersAddUp' /\ RootsFresh' /\ RootsVisited' /\ NodesBalance' /\ NothingCutShort'
      /\ \A t \in Task : Finished(t)' <=> Finished(t)
    BY <1>1, <1>2, <1>3, <1>4, <1>5, <1>6, MoveOn
<1>8. SolutionShown'
    BY <1>2, <1>3, <1>4, <1>7, CallKept DEF ThreadsInv, SolutionShown, ShownFound, IInv, TypeOK
<1>9. TimeoutShown'
    BY <1>2, <1>3, <1>4, CallKept DEF ThreadsInv, TimeoutShown, HasSolution
<1> QED BY <1>1, <1>7, <1>8, <1>9, StillRunning DEF ThreadsInv

LEMMA PublishCounts == ASSUME IInv, ProfilesInv, NEW w \in Worker, Publish(w) PROVE ProfilesInv'
<1>1. mainPc = "threads" /\ mainPc' = "threads"
    BY WorkersRunInThreads DEF Publish
<1>2. ThreadsInv
    BY <1>1, WhileThreadsRun
<1>3. UNCHANGED <<call, profiles, nodesExpanded, totalWorkerNodes, timedOut,
                  nextTask, task, visited, state, localNodes>>
    BY DEF Publish
<1>4. /\ \A v \in Worker : v # w => pc'[v] = pc[v]
      /\ pc[w] = "publish" /\ pc'[w] = "stop"
    BY DEF Publish, Goto, IInv, TypeOK
<1>5. task[w] \in Task /\ task[w] < nextTask /\ None \notin Task
    BY <1>4, CallFacts DEF IInv, TypeOK, WorkerInv
<1>6. foundSolution' # None /\ foundSolution' \in {task[w], foundSolution}
      /\ (foundSolution' = foundSolution \/ foundSolution' = task[w])
    BY <1>5 DEF Publish, KeepFirst
<1>7. Decided'
    BY <1>6 DEF Decided, Recorded
<1>8. /\ WorkersAddUp' /\ RootsFresh' /\ RootsVisited' /\ NodesBalance' /\ NothingCutShort'
      /\ \A t \in Task : Finished(t)' <=> Finished(t)
    BY <1>1, <1>2, <1>3, <1>4, <1>7, MoveOn
<1>9. Finished(task[w]) /\ ShownFound(task[w])
    <2>1. ASSUME NEW v \in Worker, Searching(v) PROVE task[v] # task[w]
        BY <1>4, <2>1 DEF Searching, IInv, TasksClaimedOnce
    <2> QED BY <1>2, <1>4, <1>5, <2>1 DEF Finished, Held, ThreadsInv, SolutionShown
<1>10. foundSolution # None => foundSolution \in Task
    BY DEF IInv, TypeOK
<1>11. SolutionShown'
    <2>1. \A t \in Task : ShownFound(t)' <=> ShownFound(t)
        BY <1>3, CallKept DEF ShownFound
    <2>2. ShownFound(foundSolution)' /\ Finished(foundSolution)'
        BY <1>2, <1>3, <1>5, <1>6, <1>8, <1>9, <1>10, <2>1, CallKept
           DEF ThreadsInv, SolutionShown, ShownFound, Finished, Held, Searching
    <2>3. \A v \in Worker : pc'[v] = "publish" => ShownFound(task[v])'
        BY <1>2, <1>3, <1>4, CallKept DEF ThreadsInv, SolutionShown, ShownFound
    <2> QED BY <2>2, <2>3 DEF SolutionShown
<1>12. TimeoutShown'
    BY <1>6 DEF TimeoutShown, HasSolution
<1> QED BY <1>1, <1>8, <1>11, <1>12, StillRunning DEF ThreadsInv

LEMMA ExpiredCounts == ASSUME IInv, ProfilesInv, NEW w \in Worker, Expired(w) PROVE ProfilesInv'
<1>1. mainPc = "threads" /\ mainPc' = "threads"
    BY WorkersRunInThreads DEF Expired
<1>2. ThreadsInv
    BY <1>1, WhileThreadsRun
<1>3. UNCHANGED <<call, profiles, nodesExpanded, totalWorkerNodes, foundSolution,
                  nextTask, task, visited, state, localNodes>>
    BY DEF Expired
<1>4. /\ \A v \in Worker : v # w => pc'[v] = pc[v]
      /\ pc[w] = "expired" /\ pc'[w] = "stop" /\ timedOut'
    BY DEF Expired, RecordTimeout, Goto, IInv, TypeOK
<1>5. Decided'
    BY <1>4 DEF Decided, Recorded
<1>6. /\ WorkersAddUp' /\ RootsFresh' /\ RootsVisited' /\ NodesBalance' /\ NothingCutShort'
      /\ \A t \in Task : Finished(t)' <=> Finished(t)
    BY <1>1, <1>2, <1>3, <1>4, <1>5, MoveOn
<1>7. SolutionShown'
    BY <1>2, <1>3, <1>4, <1>6, CallKept DEF ThreadsInv, SolutionShown, ShownFound, IInv, TypeOK
<1>8. TimeoutShown'
    BY <1>2, <1>3, <1>4, CallKept DEF ThreadsInv, TimeoutShown, HasSolution
<1> QED BY <1>1, <1>6, <1>7, <1>8, StillRunning DEF ThreadsInv

LEMMA ClaimCounts == ASSUME IInv, IInv', ProfilesInv, NEW w \in Worker, ClaimTask(w) PROVE ProfilesInv'
<1>1. mainPc = "threads" /\ mainPc' = "threads"
    BY WorkersRunInThreads DEF ClaimTask
<1>2. ThreadsInv
    BY <1>1, WhileThreadsRun
<1>3. UNCHANGED <<call, profiles, nodesExpanded, totalWorkerNodes, timedOut, foundSolution,
                  state, localNodes>>
    BY DEF ClaimTask
<1>4. /\ \A v \in Worker : v # w => pc'[v] = pc[v] /\ task'[v] = task[v] /\ visited'[v] = visited[v]
      /\ pc[w] = "claim" /\ pc'[w] = "dfs" /\ task'[w] = nextTask /\ visited'[w] = 0
      /\ nextTask \in Task /\ nextTask' = nextTask + 1
    BY DEF ClaimTask, FetchAdd, Goto, IInv, TypeOK
<1>5. \A t \in Task : Finished(t)' <=> Finished(t)
    <2>1. Task \subseteq Nat
        BY CallFacts DEF IInv, TypeOK
    <2>2. \A t \in Task : t # nextTask => (t < nextTask' <=> t < nextTask)
        BY <1>4, <2>1
    <2>3. \A t \in Task : t # nextTask => (Held(t)' <=> Held(t))
        BY <1>4 DEF Held, Searching
    <2>4. ~Finished(nextTask)
        BY <1>4, <2>1 DEF Finished
    <2>5. \A t \in Task : t = nextTask => ~Finished(t)'
        BY <1>4 DEF Finished, Held, Searching
    <2> QED BY <2>2, <2>3, <2>4, <2>5 DEF Finished
<1>6. Decided' <=> Decided
    BY <1>3, <1>4 DEF Decided, Recorded, CarriesSolution, CarriesTimeout, Carries
<1>7. /\ WorkersAddUp' /\ RootsFresh' /\ RootsVisited'
      /\ ~Decided' => Sum(RootNodes') = Sum(FinishedNodes')
    BY <1>1, <1>2, <1>3, <1>4, <1>5, <1>6, QuietStep
<1>8. NodesBalance'
    <2>1. \A v \in Worker :
             (IF Searching(v) THEN visited[v] ELSE 0)' = IF Searching(v) THEN visited[v] ELSE 0
        BY <1>4 DEF Searching
    <2> QED BY <1>1, <1>2, <1>3, <2>1, BalanceKept, ThreadFacts DEF ThreadsInv
<1>9. NothingCutShort'
    BY <1>2, <1>3, <1>4, <1>6, <1>7, CallKept DEF ThreadsInv, NothingCutShort, Carries
<1>10. SolutionShown'
    <2>1. \A t \in Task : ShownFound(t)' <=> ShownFound(t)
        BY <1>3, CallKept DEF ShownFound
    <2>2. ASSUME NEW v \in Worker, pc'[v] = "publish" PROVE ShownFound(task[v])'
        <3>1. v # w
            BY <1>4, <2>2
        <3>2. pc[v] = "publish" /\ task'[v] = task[v] /\ task[v] \in Task
            BY <1>4, <2>2, <3>1 DEF IInv, WorkerInv, Holding
        <3>3. ShownFound(task[v])
            BY <1>2, <3>2 DEF ThreadsInv, SolutionShown
        <3> QED BY <2>1, <3>2, <3>3 DEF ShownFound
    <2>3. ASSUME foundSolution' # None PROVE ShownFound(foundSolution)' /\ Finished(foundSolution)'
        <3>1. foundSolution' = foundSolution /\ foundSolution \in Task
            BY <1>3, <2>3 DEF IInv, TypeOK
        <3>2. ShownFound(foundSolution) /\ Finished(foundSolution)
            BY <1>2, <1>3, <2>3 DEF ThreadsInv, SolutionShown
        <3> QED BY <1>5, <2>1, <3>1, <3>2 DEF ShownFound, Finished, Held, Searching
    <2> QED BY <2>2, <2>3 DEF SolutionShown
<1>11. TimeoutShown'
    BY <1>2, <1>3, <1>4, CallKept DEF ThreadsInv, TimeoutShown, HasSolution
<1> QED BY <1>1, <1>7, <1>8, <1>9, <1>10, <1>11, StillRunning DEF ThreadsInv

\* A visit counts its nodes for the worker and for the task it searches.
LEMMA VisitCounts ==
    ASSUME IInv, ProfilesInv, NEW w \in Worker, NEW n \in Nat, pc[w] = "dfs", DfsUnchanged, CountNodes(w, n),
           \A v \in Worker : v # w => pc'[v] = pc[v] /\ state'[v] = state[v],
           pc'[w] \in {"dfs", "profile"},
           Carries(w, "NotFound")' => stopRequested \/ visited'[w] = Size(task[w])
    PROVE  ProfilesInv'
<1>1. mainPc = "threads" /\ mainPc' = "threads"
    BY WorkersRunInThreads DEF DfsUnchanged
<1>2. ThreadsInv
    BY <1>1, WhileThreadsRun
<1>3. UNCHANGED <<call, profiles, nodesExpanded, totalWorkerNodes, nextTask, timedOut, foundSolution, task>>
    BY DEF DfsUnchanged
<1>4. /\ \A v \in Worker : v # w => visited'[v] = visited[v] /\ localNodes'[v] = localNodes[v]
      /\ visited'[w] = visited[w] + n /\ localNodes'[w] = localNodes[w] + n
      /\ visited[w] \in Nat /\ localNodes[w] \in Nat /\ visited' \in [Worker -> Nat]
      /\ localNodes' \in [Worker -> Nat]
    BY DEF CountNodes, IInv, TypeOK
<1>5. \A v \in Worker : Searching(v)' <=> Searching(v)
    BY DEF Searching
<1>6. \A t \in Task : Finished(t)' <=> Finished(t)
    BY <1>3, <1>5 DEF Finished, Held
<1>7. Decided => Decided'
    BY <1>3 DEF Decided, Recorded, CarriesSolution, CarriesTimeout, Carries
<1>8. /\ WorkersAddUp' /\ RootsFresh' /\ RootsVisited'
      /\ ~Decided' => Sum(RootNodes') = Sum(FinishedNodes')
    BY <1>1, <1>2, <1>3, <1>4, <1>6, <1>7, QuietStep
<1>9. NodesBalance'
    <2>1. w \in Team /\ Team \subseteq Worker /\ IsFiniteSet(Team) /\ Team' = Team
        BY <1>1, <1>3, ThreadFacts, CallKept
    <2>2. PendingNodes \in [Team -> Nat] /\ CountedNodes \in [Team -> Nat]
          /\ Sum(PendingNodes) \in Nat /\ Sum(CountedNodes) \in Nat /\ Sum(RootNodes) \in Nat
        BY <1>1, CountsAreNatural
    <2>3. PendingNodes' \in [Team -> Nat] /\ CountedNodes' \in [Team -> Nat]
        BY <1>4, <2>1 DEF PendingNodes, CountedNodes
    <2>4. PendingNodes'[w] = PendingNodes[w] + n /\ CountedNodes'[w] = CountedNodes[w] + n
        BY <1>4, <1>5, <2>1 DEF PendingNodes, CountedNodes, Searching
    <2>5. \A v \in Team : v # w => PendingNodes'[v] = PendingNodes[v] /\ CountedNodes'[v] = CountedNodes[v]
        BY <1>4, <1>5, <2>1 DEF PendingNodes, CountedNodes
    <2>6. Sum(PendingNodes') = Sum(PendingNodes) + n
        BY <2>1, <2>2, <2>3, <2>4, <2>5, SumAdds
    <2>7. Sum(CountedNodes') = Sum(CountedNodes) + n
        BY <2>1, <2>2, <2>3, <2>4, <2>5, SumAdds
    <2>8. RootNodes' = RootNodes
        BY <1>3 DEF RootNodes
    <2> QED BY <1>2, <2>2, <2>6, <2>7, <2>8 DEF ThreadsInv, NodesBalance
<1>10. NothingCutShort'
    <2>1. stopRequested => Decided'
        BY <1>3 DEF IInv, StopInv, Decided, Recorded
    <2>2. ~Decided' => \A v \in Worker : Carries(v, "NotFound")' => visited'[v] = Size(task[v])
        BY <1>2, <1>4, <1>7, <2>1 DEF ThreadsInv, NothingCutShort, Carries
    <2> QED BY <1>3, <1>8, <2>2, CallKept DEF NothingCutShort
<1>11. SolutionShown'
    BY <1>2, <1>3, <1>6, CallKept DEF ThreadsInv, SolutionShown, ShownFound, IInv, TypeOK
<1>12. TimeoutShown'
    BY <1>2, <1>3, CallKept DEF ThreadsInv, TimeoutShown, HasSolution
<1> QED BY <1>1, <1>8, <1>9, <1>10, <1>11, <1>12, StillRunning DEF ThreadsInv

LEMMA DfsCounts == ASSUME IInv, ProfilesInv, NEW w \in Worker, Dfs(w) PROVE ProfilesInv'
<1>1. pc[w] = "dfs" /\ DfsUnchanged /\ pc \in [Worker -> Holding \cup {"unspawned", "loop", "claim", "exit", "exited"}]
      /\ state \in [Worker -> SearchState] /\ visited \in [Worker -> Nat]
    BY DEF Dfs, VisitStopped, VisitExpired, VisitSolved, VisitLast, VisitInner, IInv, TypeOK
<1>2. CASE VisitStopped(w)
    <2>1. PICK n \in 1 .. Size(task[w]) - visited[w] : CountNodes(w, n)
        BY <1>2 DEF VisitStopped
    <2>2. n \in Nat /\ stopRequested
        BY <1>2 DEF VisitStopped, ReadsStop
    <2>3. /\ \A v \in Worker : v # w => pc'[v] = pc[v] /\ state'[v] = state[v]
          /\ pc'[w] = "profile"
        BY <1>1, <1>2 DEF VisitStopped, DfsReturns, Goto
    <2> QED BY <1>1, <2>1, <2>2, <2>3, VisitCounts
<1>3. CASE VisitExpired(w) \/ VisitSolved(w)
    <2>1. CountNodes(w, 1)
        BY <1>3 DEF VisitExpired, VisitSolved
    <2>2. /\ \A v \in Worker : v # w => pc'[v] = pc[v] /\ state'[v] = state[v]
          /\ pc'[w] = "profile" /\ state'[w] # "NotFound"
        BY <1>1, <1>3 DEF VisitExpired, VisitSolved, DfsReturns, Goto
    <2> QED BY <1>1, <2>1, <2>2, VisitCounts DEF Carries
<1>4. CASE VisitLast(w)
    <2>1. CountNodes(w, 1) /\ visited[w] + 1 = Size(task[w])
        BY <1>4 DEF VisitLast
    <2>2. /\ \A v \in Worker : v # w => pc'[v] = pc[v] /\ state'[v] = state[v]
          /\ pc'[w] = "profile"
        BY <1>1, <1>4 DEF VisitLast, DfsReturns, Goto
    <2>3. visited'[w] = Size(task[w])
        BY <1>1, <2>1 DEF CountNodes
    <2> QED BY <1>1, <2>1, <2>2, <2>3, VisitCounts
<1>5. CASE VisitInner(w)
    <2>1. CountNodes(w, 1) /\ UNCHANGED <<pc, state>>
        BY <1>5 DEF VisitInner
    <2> QED BY <1>1, <2>1, VisitCounts DEF Carries
<1> QED BY <1>2, <1>3, <1>4, <1>5 DEF Dfs

\* What one task adds to its root's entry.
LEMMA EntryCounts ==
    ASSUME IInv, ProfilesInv, NEW w \in Worker, UpdateProfile(w)
    PROVE  /\ mainPc = "threads" /\ ThreadsInv
           /\ RootOf(task[w]) \in Roots
           /\ rootProfile' \in [Roots -> [nodes : Nat, state : SearchState, visited : BOOLEAN]]
           /\ rootProfile'[RootOf(task[w])].nodes = rootProfile[RootOf(task[w])].nodes + visited[w]
           /\ rootProfile'[RootOf(task[w])].visited
           /\ \A r \in Roots : r # RootOf(task[w]) => rootProfile'[r] = rootProfile[r]
           /\ rootProfile'[RootOf(task[w])].state =
                 IF \/ state[w] = "Found"
                    \/ state[w] = "Timeout" /\ rootProfile[RootOf(task[w])].state # "Found"
                 THEN state[w] ELSE rootProfile[RootOf(task[w])].state
           /\ ~call.deep => rootProfile[RootOf(task[w])].state = "NotFound"
<1> DEFINE r == RootOf(task[w])
           e == rootProfile[r]
           R == [nodes : Nat, state : SearchState, visited : BOOLEAN]
<1>1. mainPc = "threads" /\ pc[w] = "profile"
    BY WorkersRunInThreads DEF UpdateProfile
<1>2. ThreadsInv
    BY <1>1, WhileThreadsRun
<1>3. task[w] \in Task /\ visited[w] \in Nat /\ state[w] \in SearchState
    BY <1>1 DEF IInv, WorkerInv, TypeOK
<1>4. r \in Roots /\ rootProfile \in [Roots -> R] /\ (~call.deep => r = task[w])
    BY <1>1, <1>3, ThreadFacts
<1>5. e \in R
    <2> HIDE DEF R
    <2> QED BY <1>4
<1>6. e.nodes \in Nat /\ e.state \in SearchState
    BY <1>5
<1>7. ~call.deep => e.nodes = 0 /\ e.state = "NotFound"
    <2>1. Held(task[w])
        BY <1>1 DEF Held, Searching
    <2> QED BY <1>2, <1>3, <1>4, <2>1 DEF ThreadsInv, RootsFresh, Finished
<1> DEFINE new == ProfileEntry(e, visited[w], state[w])
<1>8. /\ new \in R /\ new.nodes = e.nodes + visited[w] /\ new.visited
      /\ new.state = IF state[w] = "Found" \/ (state[w] = "Timeout" /\ e.state # "Found")
                     THEN state[w] ELSE e.state
    <2> HIDE DEF e
    <2>1. CASE call.deep
        BY <1>3, <1>6, <2>1 DEF ProfileEntry
    <2>2. CASE ~call.deep
        <3>1. new = [nodes |-> visited[w], state |-> state[w], visited |-> TRUE]
            BY <2>2 DEF ProfileEntry
        <3> HIDE DEF new
        <3> QED BY <1>3, <1>6, <1>7, <2>2, <3>1
    <2> QED BY <2>1, <2>2
<1>9. rootProfile' = [rootProfile EXCEPT ![r] = new]
    BY DEF UpdateProfile
<1> HIDE DEF new, R
<1>10. rootProfile' \in [Roots -> R] /\ rootProfile'[r] = new
       /\ \A q \in Roots : q # r => rootProfile'[q] = rootProfile[q]
    BY <1>4, <1>8, <1>9
<1> QED BY <1>1, <1>2, <1>4, <1>7, <1>8, <1>10 DEF R

LEMMA UpdateCounts == ASSUME IInv, ProfilesInv, NEW w \in Worker, UpdateProfile(w) PROVE ProfilesInv'
<1> DEFINE r == RootOf(task[w])
<1>1. mainPc = "threads" /\ mainPc' = "threads" /\ ThreadsInv
    BY EntryCounts DEF UpdateProfile
<1>2. UNCHANGED <<call, workerProfile, nodesExpanded, totalWorkerNodes, nextTask, timedOut, foundSolution,
                  task, visited, state, localNodes>>
    BY DEF UpdateProfile
<1>3. /\ \A v \in Worker : v # w => pc'[v] = pc[v]
      /\ pc[w] = "profile" /\ pc'[w] = AfterProfile(state[w])
    BY DEF UpdateProfile, Goto, IInv, TypeOK
<1>4. /\ task[w] \in Task /\ task[w] < nextTask /\ visited[w] \in Nat /\ state[w] \in SearchState
      /\ \A v \in Worker : task[v] \in Task \cup {None} /\ visited[v] \in Nat
      /\ None \notin Task
    BY <1>3, CallFacts DEF IInv, WorkerInv, TypeOK
<1>5. pc'[w] \in {"publish", "expired", "loop"} /\ ~Searching(w)'
      /\ (pc'[w] = "publish" <=> state[w] = "Found") /\ (pc'[w] = "expired" <=> state[w] = "Timeout")
    BY <1>3, <1>4 DEF AfterProfile, Searching
<1>6. \A v \in Worker : v # w => (Searching(v)' <=> Searching(v))
    BY <1>3 DEF Searching
<1>7. \A v \in Worker : v # w /\ pc[v] \in Holding => task[v] # task[w]
    BY <1>3 DEF IInv, TasksClaimedOnce
<1>8. \A t \in Task : /\ t = task[w] => Finished(t)' /\ ~Finished(t)
                      /\ t # task[w] => (Finished(t)' <=> Finished(t))
    <2>1. Searching(w)
        BY <1>3 DEF Searching
    <2>2. \A t \in Task : t # task[w] => (Held(t)' <=> Held(t))
        BY <1>2, <1>5, <1>6, <2>1 DEF Held
    <2>3. Held(task[w])
        BY <2>1 DEF Held
    <2>4. \A t \in Task : t = task[w] => ~Held(t)'
        BY <1>2, <1>5, <1>6, <1>7 DEF Held, Searching
    <2> QED BY <1>2, <1>4, <2>2, <2>3, <2>4 DEF Finished
<1>9. WorkersAddUp'
    <2>1. ProfileNodes' = ProfileNodes
        BY <1>2 DEF ProfileNodes
    <2>2. \A v \in Worker : pc'[v] = "exited" <=> pc[v] = "exited"
        BY <1>3, <1>5
    <2> QED BY <1>1, <1>2, <2>1, <2>2, ThreadFacts, CallKept DEF ThreadsInv, WorkersAddUp
<1>10. Sum(RootNodes') = Sum(RootNodes) + visited[w]
    <2>1. RootNodes' \in [Roots -> Nat] /\ RootNodes \in [Roots -> Nat] /\ IsFiniteSet(Roots)
        BY <1>1, EntryCounts, CountsAreNatural, ThreadFacts DEF RootNodes
    <2>2. r \in Roots /\ RootNodes'[r] = RootNodes[r] + visited[w]
        BY <1>1, EntryCounts, ThreadFacts DEF RootNodes
    <2>3. \A q \in Roots : q # r => RootNodes'[q] = RootNodes[q]
        BY <1>1, EntryCounts, ThreadFacts DEF RootNodes
    <2> HIDE DEF r
    <2> QED BY <1>4, <2>1, <2>2, <2>3, SumAdds
<1>11. NodesBalance'
    <2>1. w \in Team /\ Team \subseteq Worker /\ IsFiniteSet(Team) /\ Team' = Team
        BY <1>1, <1>2, <1>3, ThreadFacts, CallKept
    <2>2. PendingNodes \in [Team -> Nat] /\ Sum(PendingNodes) \in Nat /\ Sum(CountedNodes) \in Nat
          /\ Sum(RootNodes) \in Nat
        BY <1>1, CountsAreNatural
    <2>3. PendingNodes' \in [Team -> Nat]
        BY <1>2, <1>4, <2>1 DEF PendingNodes
    <2>4. PendingNodes[w] = PendingNodes'[w] + visited[w]
        BY <1>3, <1>4, <1>5, <2>1 DEF PendingNodes, Searching
    <2>5. \A v \in Team : v # w => PendingNodes[v] = PendingNodes'[v]
        BY <1>2, <1>6, <2>1 DEF PendingNodes
    <2>6. Sum(PendingNodes) = Sum(PendingNodes') + visited[w]
        BY <1>4, <2>1, <2>2, <2>3, <2>4, <2>5, SumAdds
    <2>7. Sum(PendingNodes') \in Nat
        BY <2>1, <2>3, SumIsNatural
    <2>8. CountedNodes' = CountedNodes
        BY <1>2, CallKept DEF CountedNodes
    <2>9. Sum(RootNodes) + Sum(PendingNodes) = Sum(CountedNodes)
        BY <1>1 DEF ThreadsInv, NodesBalance
    <2> QED BY <1>4, <1>10, <2>2, <2>6, <2>7, <2>8, <2>9 DEF NodesBalance
<1>12. NothingCutShort'
    <2> SUFFICES ASSUME ~Decided'
                 PROVE  /\ \A v \in Worker : Carries(v, "NotFound")' => visited'[v] = Size(task[v])'
                        /\ Sum(RootNodes') = Sum(FinishedNodes')
        BY DEF NothingCutShort
    <2>1. state[w] = "NotFound" /\ ~Decided
        BY <1>2, <1>3, <1>4, <1>5 DEF Decided, Recorded, CarriesSolution, CarriesTimeout, Carries
    <2>2. visited[w] = Size(task[w]) /\ Sum(RootNodes) = Sum(FinishedNodes)
        BY <1>1, <1>3, <2>1 DEF ThreadsInv, NothingCutShort, Carries
    <2>3. IsFiniteSet(Task) /\ FinishedNodes \in [Task -> Nat] /\ Task' = Task
          /\ \A t \in Task : Size(t) \in Nat /\ Size(t)' = Size(t)
        BY <1>1, <1>2, ThreadFacts, CountsAreNatural, CallKept
    <2>4. FinishedNodes' \in [Task -> Nat]
        BY <2>3 DEF FinishedNodes
    <2>5. FinishedNodes'[task[w]] = FinishedNodes[task[w]] + visited[w]
        <3>1. ASSUME NEW t \in Task, t = task[w] PROVE FinishedNodes'[t] = Size(t) /\ FinishedNodes[t] = 0
            BY <1>8, <2>3, <3>1 DEF FinishedNodes
        <3> QED BY <1>4, <2>2, <3>1
    <2>6. \A t \in Task : t # task[w] => FinishedNodes'[t] = FinishedNodes[t]
        BY <1>8, <2>3 DEF FinishedNodes
    <2>7. Sum(FinishedNodes') = Sum(FinishedNodes) + visited[w]
        BY <1>4, <2>3, <2>4, <2>5, <2>6, SumAdds
    <2>8. \A v \in Worker : Carries(v, "NotFound")' => visited'[v] = Size(task[v])'
        BY <1>1, <1>2, <1>3, <1>5, <2>1, CallKept DEF ThreadsInv, NothingCutShort, Carries
    <2> QED BY <1>10, <2>2, <2>7, <2>8
<1>13. RootsFresh'
    <2>1. ASSUME ~call.deep, NEW t \in Task, ~Finished(t)'
          PROVE  rootProfile'[t] = rootProfile[t] /\ ~Finished(t)
        <3>1. t # task[w]
            BY <1>8, <2>1
        <3>2. t \in Roots /\ r = task[w]
            BY <1>1, <1>4, <2>1, ThreadFacts
        <3> QED BY <1>8, <2>1, <3>1, <3>2, EntryCounts
    <2> QED BY <1>1, <1>2, <2>1, CallKept DEF ThreadsInv, RootsFresh
<1>14. \A t \in Task : ShownFound(t) => ShownFound(t)'
    <2>1. \A t \in Task : RootOf(t) \in Roots /\ RootOf(t)' = RootOf(t)
        BY <1>1, <1>2, ThreadFacts, CallKept
    <2> QED BY <1>4, <2>1, EntryCounts DEF ShownFound
<1>15. SolutionShown'
    <2>1. ASSUME NEW v \in Worker, pc'[v] = "publish" PROVE ShownFound(task[v])'
        <3>1. CASE v = w
            <4>1. state[w] = "Found"
                BY <1>5, <2>1, <3>1
            <4>2. rootProfile'[r].state = "Found" /\ RootOf(task[w])' = RootOf(task[w])
                BY <1>2, <4>1, EntryCounts DEF RootOf
            <4> QED BY <3>1, <4>2 DEF ShownFound
        <3>2. CASE v # w
            <4>1. pc[v] = "publish" /\ task[v] \in Task
                BY <1>3, <2>1, <3>2 DEF IInv, WorkerInv
            <4>2. ShownFound(task[v])
                BY <1>1, <4>1 DEF ThreadsInv, SolutionShown
            <4> QED BY <1>2, <1>14, <4>1, <4>2 DEF ShownFound
        <3> QED BY <3>1, <3>2
    <2>2. ASSUME foundSolution # None PROVE ShownFound(foundSolution)' /\ Finished(foundSolution)'
        <3>1. foundSolution \in Task /\ ShownFound(foundSolution) /\ Finished(foundSolution)
            BY <1>1, <2>2 DEF ThreadsInv, SolutionShown, IInv, TypeOK
        <3> QED BY <1>2, <1>8, <1>14, <3>1 DEF ShownFound, Finished, Held
    <2> QED BY <1>2, <2>1, <2>2 DEF SolutionShown
<1>16. TimeoutShown'
    <2>1. HasSolution => HasSolution'
        BY <1>2, <1>3 DEF HasSolution
    <2>2. state[w] = "Found" => HasSolution'
        BY <1>5 DEF HasSolution
    <2>3. ASSUME NEW q \in Roots, rootProfile'[q].state = "Found" PROVE HasSolution'
        BY <1>1, <2>1, <2>2, <2>3, EntryCounts DEF ThreadsInv, TimeoutShown
    <2>4. ASSUME timedOut' \/ (\E v \in Worker : pc'[v] = "expired")
          PROVE  HasSolution' \/ \E q \in Roots : rootProfile'[q].state = "Timeout"
        <3>1. CASE pc'[w] = "expired"
            <4>1. state[w] = "Timeout" /\ r \in Roots
                BY <1>5, <3>1, EntryCounts
            <4>2. rootProfile'[r].state = "Timeout" \/ rootProfile[r].state = "Found"
                BY <4>1, EntryCounts
            <4> QED BY <1>1, <2>1, <4>1, <4>2 DEF ThreadsInv, TimeoutShown
        <3>2. CASE pc'[w] # "expired"
            <4>1. timedOut \/ \E v \in Worker : pc[v] = "expired"
                BY <1>2, <1>3, <2>4, <3>2
            <4>2. CASE HasSolution
                BY <2>1, <4>2
            <4>3. CASE ~HasSolution
                <5>1. PICK q \in Roots : rootProfile[q].state = "Timeout"
                    BY <1>1, <4>1, <4>3 DEF ThreadsInv, TimeoutShown
                <5>2. rootProfile'[q].state = "Timeout" \/ state[w] = "Found"
                    BY <1>4, <5>1, EntryCounts
                <5> QED BY <2>2, <5>1, <5>2
            <4> QED BY <4>2, <4>3
        <3> QED BY <3>1, <3>2
    <2> QED BY <1>2, <2>3, <2>4, CallKept DEF TimeoutShown
<1>17. RootsVisited'
    <2>1. ASSUME NEW t \in Task, Finished(t)' PROVE rootProfile'[RootOf(t)].visited
        <3>1. RootOf(t) \in Roots
            BY <1>1, ThreadFacts
        <3>2. CASE RootOf(t) = r
            BY <3>2, EntryCounts
        <3>3. CASE RootOf(t) # r
            <4>1. Finished(t)
                BY <1>8, <2>1, <3>3
            <4>2. rootProfile[RootOf(t)].visited
                BY <1>1, <4>1 DEF ThreadsInv, RootsVisited
            <4> QED BY <3>1, <3>3, <4>2, EntryCounts
        <3> QED BY <3>2, <3>3
    <2> QED BY <1>2, <2>1, CallKept DEF RootsVisited
<1> QED BY <1>1, <1>9, <1>11, <1>12, <1>13, <1>15, <1>16, <1>17, StillRunning DEF ThreadsInv

LEMMA ExitCounts == ASSUME IInv, ProfilesInv, NEW w \in Worker, Exit(w) PROVE ProfilesInv'
<1>1. mainPc = "threads" /\ mainPc' = "threads"
    BY WorkersRunInThreads DEF Exit
<1>2. ThreadsInv
    BY <1>1, WhileThreadsRun
<1>3. UNCHANGED <<call, rootProfile, nodesExpanded, nextTask, timedOut, foundSolution,
                  task, visited, state, localNodes>>
    BY DEF Exit
<1>4. /\ \A v \in Worker : v # w => pc'[v] = pc[v]
      /\ pc[w] = "exit" /\ pc'[w] = "exited"
    BY DEF Exit, Goto, IInv, TypeOK
<1>5. ~Searching(w) /\ ~Searching(w)'
    BY <1>4 DEF Searching
<1>6. /\ \A t : Held(t)' <=> Held(t)
      /\ \A v \in Worker :
            (IF Searching(v) THEN visited[v] ELSE 0)' = IF Searching(v) THEN visited[v] ELSE 0
    BY <1>3, <1>4, <1>5, SearchingKept
<1>7. \A t \in Task : Finished(t)' <=> Finished(t)
    BY <1>3, <1>6 DEF Finished
<1>8. WorkersAddUp'
    <2>1. w \in Team /\ Team \subseteq Worker /\ IsFiniteSet(Team) /\ Team' = Team
          /\ workerProfile \in [Team -> [roots : Nat, nodes : Nat]]
        BY <1>1, <1>3, <1>4, ThreadFacts, CallKept
    <2>2. /\ workerProfile' \in [Team -> [roots : Nat, nodes : Nat]]
          /\ workerProfile'[w].nodes = localNodes[w]
          /\ \A v \in Team : v # w => workerProfile'[v] = workerProfile[v]
        <3> DEFINE E == [roots : Nat, nodes : Nat]
                   e == [roots |-> localRoots[w], nodes |-> localNodes[w]]
        <3>1. e \in E /\ e.nodes = localNodes[w]
            BY DEF IInv, TypeOK
        <3>2. workerProfile' = [workerProfile EXCEPT ![w] = e] /\ workerProfile \in [Team -> E]
            BY <2>1 DEF Exit
        <3> HIDE DEF e, E
        <3>3. workerProfile' \in [Team -> E] /\ workerProfile'[w] = e
              /\ \A v \in Team : v # w => workerProfile'[v] = workerProfile[v]
            BY <2>1, <3>1, <3>2
        <3> QED BY <3>1, <3>3 DEF E
    <2>3. workerProfile[w].nodes = 0 /\ localNodes[w] \in Nat
        BY <1>2, <1>4, <2>1 DEF ThreadsInv, WorkersAddUp, IInv, TypeOK
    <2>4. ProfileNodes' \in [Team -> Nat] /\ ProfileNodes \in [Team -> Nat]
        BY <2>1, <2>2 DEF ProfileNodes
    <2>5. ProfileNodes'[w] = ProfileNodes[w] + localNodes[w]
          /\ \A v \in Team : v # w => ProfileNodes'[v] = ProfileNodes[v]
        BY <2>1, <2>2, <2>3 DEF ProfileNodes
    <2>6. Sum(ProfileNodes') = Sum(ProfileNodes) + localNodes[w]
        <3>1. IsFiniteSet(Team) /\ w \in Team /\ localNodes[w] \in Nat
            BY <2>1, <2>3
        <3> QED BY <2>4, <2>5, <3>1, SumAdds
    <2>7. totalWorkerNodes' = Sum(ProfileNodes')
        BY <1>2, <2>6 DEF Exit, TotalWith, ThreadsInv, WorkersAddUp
    <2>8. \A v \in Team : workerProfile'[v].nodes = IF pc'[v] = "exited" THEN localNodes'[v] ELSE 0
        BY <1>2, <1>3, <1>4, <2>1, <2>2 DEF ThreadsInv, WorkersAddUp
    <2> QED BY <1>2, <1>3, <2>1, <2>7, <2>8 DEF ThreadsInv, WorkersAddUp
<1>9. NodesBalance'
    BY <1>1, <1>2, <1>3, <1>6, BalanceKept, ThreadFacts DEF ThreadsInv
<1>10. Decided' <=> Decided
    BY <1>3, <1>4 DEF Decided, Recorded, CarriesSolution, CarriesTimeout, Carries
<1>11. NothingCutShort'
    <2>1. RootNodes' = RootNodes
        BY <1>3 DEF RootNodes
    <2>2. FinishedNodes' = FinishedNodes
        <3>1. \A t \in Task : (IF Finished(t) THEN Size(t) ELSE 0)' = IF Finished(t) THEN Size(t) ELSE 0
            BY <1>3, <1>7, CallKept
        <3> QED BY <1>3, <3>1, CallKept DEF FinishedNodes
    <2> QED BY <1>2, <1>3, <1>4, <1>10, <2>1, <2>2, CallKept DEF ThreadsInv, NothingCutShort, Carries
<1>12. RootsFresh' /\ RootsVisited'
    BY <1>2, <1>3, <1>7, CallKept DEF ThreadsInv, RootsFresh, RootsVisited, RootOf
<1>13. SolutionShown'
    BY <1>2, <1>3, <1>4, <1>7, CallKept DEF ThreadsInv, SolutionShown, ShownFound, IInv, TypeOK
<1>14. TimeoutShown'
    BY <1>2, <1>3, <1>4, CallKept DEF ThreadsInv, TimeoutShown, HasSolution
<1> QED BY <1>1, <1>8, <1>9, <1>11, <1>12, <1>13, <1>14, StillRunning DEF ThreadsInv

-----------------------------------------------------------------------------
(* The calling thread's last step: every worker has exited. *)

LEMMA JoinCounts == ASSUME IInv, ProfilesInv, Join PROVE ProfilesInv'
<1>1. mainPc = "threads" /\ mainPc' = "done" /\ result' = Outcome /\ solution' = foundSolution
      /\ nodesExpanded' = nodesExpanded + totalWorkerNodes
      /\ UNCHANGED <<call, profiles, foundSolution, timedOut>>
    BY DEF Join, AllJoined, Return
<1>2. ThreadsInv
    BY <1>1, WhileThreadsRun
<1>3. /\ IsFiniteSet(Team) /\ Team \subseteq Worker
      /\ \A w \in Worker : pc[w] # "unspawned" => w \in Team
      /\ workerProfile \in [Team -> [roots : Nat, nodes : Nat]]
    BY <1>1, ThreadFacts
<1>4. 0 \in Worker /\ 0 < WorkerCount /\ WorkerCount \in Nat
    BY <1>1, CallFacts DEF IInv, TypeOK, MainInv, Worker
<1>5. \A w \in Team : pc[w] = "exited"
    BY <1>3, <1>4 DEF Join, AllJoined, Team
<1>6. \A w \in Worker : pc[w] \in {"unspawned", "exited"}
    BY <1>3, <1>5
<1>7. \A w \in Worker : ~Searching(w) /\ ~CarriesSolution(w) /\ ~CarriesTimeout(w)
    BY <1>6 DEF Searching, CarriesSolution, CarriesTimeout, Carries
<1>8. nodesExpanded = 1 /\ totalWorkerNodes = Sum(ProfileNodes)
    BY <1>2 DEF ThreadsInv, WorkersAddUp
<1>9. Sum(RootNodes) = Sum(ProfileNodes)
    <2>1. ProfileNodes = CountedNodes
        BY <1>2, <1>3, <1>5 DEF ThreadsInv, WorkersAddUp, ProfileNodes, CountedNodes
    <2>2. PendingNodes \in [Team -> Nat] /\ \A w \in Team : PendingNodes[w] = 0
        BY <1>3, <1>7 DEF PendingNodes
    <2>3. Sum(PendingNodes) = 0
        BY <1>3, <2>2, SumOfZeros
    <2>4. Sum(RootNodes) \in Nat
        BY <1>1, CountsAreNatural
    <2> QED BY <1>2, <2>1, <2>3, <2>4 DEF ThreadsInv, NodesBalance
<1>10. ASSUME ~Recorded
       PROVE  /\ Sum(RootNodes) = Sum([t \in Task |-> Size(t)])
              /\ \A r \in Roots : rootProfile[r].visited
    <2>1. ~Decided
        BY <1>7, <1>10 DEF Decided
    <2>2. nextTask \notin Task /\ call \in Calls /\ nextTask \in Nat \ {0}
        <3>1. 0 \in Team
            BY <1>4 DEF Team
        <3> QED BY <1>4, <1>5, <1>10, <3>1 DEF IInv, StopInv, TypeOK
    <2>3. \A t \in Task : Finished(t)
        BY <1>7, <2>2, CounterPastTasks DEF Finished, Held
    <2>4. FinishedNodes = [t \in Task |-> Size(t)]
        BY <2>3 DEF FinishedNodes
    <2>5. \A r \in Roots : rootProfile[r].visited
        BY <1>2, <2>3 DEF Roots, ThreadsInv, RootsVisited
    <2> QED BY <1>2, <2>1, <2>4, <2>5 DEF ThreadsInv, NothingCutShort
<1>11. foundSolution # None => rootProfile[RootOf(foundSolution)].state = "Found"
    BY <1>2 DEF ThreadsInv, SolutionShown, ShownFound
<1>12. foundSolution = None /\ timedOut => \E r \in Roots : rootProfile[r].state = "Timeout"
    BY <1>2, <1>6 DEF ThreadsInv, TimeoutShown, HasSolution
<1>13. RootNodes' = RootNodes /\ ProfileNodes' = ProfileNodes
    BY <1>1 DEF RootNodes, ProfileNodes
<1>14. SumsAgree'
    <2>1. nodesExpanded' = 1 + Sum(RootNodes') /\ nodesExpanded' = 1 + Sum(ProfileNodes')
        BY <1>1, <1>8, <1>9, <1>13
    <2>2. ASSUME result' = "NotFound" PROVE ~Recorded
        BY <1>1, <2>2 DEF Outcome, Recorded
    <2>3. result' = "NotFound" => nodesExpanded' = 1 + Sum([t \in Task' |-> Size(t)'])
        <3>1. [t \in Task' |-> Size(t)'] = [t \in Task |-> Size(t)]
            BY <1>1, CallKept
        <3> QED BY <1>1, <1>8, <1>9, <1>10, <2>2, <3>1
    <2>4. result' = "NotFound" => \A r \in Roots' : rootProfile'[r].visited
        BY <1>1, <1>10, <2>2, CallKept
    <2>5. result' = "Found" => rootProfile'[RootOf(solution)'].state = "Found"
        BY <1>1, <1>11 DEF Outcome, RootOf
    <2>6. result' = "Timeout" => \E r \in Roots' : rootProfile'[r].state = "Timeout"
        BY <1>1, <1>12, CallKept DEF Outcome
    <2> QED BY <2>1, <2>3, <2>4, <2>5, <2>6 DEF SumsAgree
<1> QED BY <1>1, <1>14 DEF ProfilesInv

-----------------------------------------------------------------------------

LEMMA StepCounts == ASSUME IInv, IInv', ProfilesInv, [Next]_vars PROVE ProfilesInv'
<1>1. CASE DeadlineExpires
    BY <1>1, DeadlineCounts
<1>2. CASE Main
    BY <1>2, StartReturnsCounts, StartSearchCounts, SpawnCounts, JoinCounts DEF Main
<1>3. CASE \E w \in Worker : Work(w)
    <2>1. PICK w \in Worker : Work(w)
        BY <1>3
    <2>2. CASE LoopTest(w) \/ NoTaskLeft(w) \/ Stop(w)
        BY <2>2, LoopCounts
    <2>3. CASE ClaimTask(w) \/ Dfs(w) \/ UpdateProfile(w)
        BY <2>3, ClaimCounts, DfsCounts, UpdateCounts
    <2>4. CASE Publish(w) \/ Expired(w) \/ Exit(w)
        BY <2>4, PublishCounts, ExpiredCounts, ExitCounts
    <2> QED BY <2>1, <2>2, <2>3, <2>4 DEF Work
<1>4. CASE Returned \/ UNCHANGED vars
    BY <1>4, NothingTouched DEF Returned, vars
<1> QED BY <1>1, <1>2, <1>3, <1>4 DEF Next

\* ProfilesInv holds in every state of every run, together with IInv.
THEOREM CountsInductive == Spec => [](IInv /\ ProfilesInv)
<1>1. Init => IInv /\ ProfilesInv
    BY InitInv, InitCounts
<1>2. IInv /\ ProfilesInv /\ [Next]_vars => (IInv /\ ProfilesInv)'
    BY NextInv, StepCounts
<1> QED BY <1>1, <1>2, PTL DEF Spec

LEMMA SumsAre == SumsAgree => ProfilesAgree
<1>1. SumOver(DOMAIN rootProfile, NodesOfRoot) = Sum(RootNodes)
    BY DEF SumOver, NodesOfRoot, Sum, RootNodes
<1>2. SumOver(DOMAIN workerProfile, NodesOfWorker) = Sum(ProfileNodes)
    BY DEF SumOver, NodesOfWorker, Sum, ProfileNodes
<1>3. SumOver(Task, Size) = Sum([t \in Task |-> Size(t)])
    BY DEF SumOver, Sum
<1> QED BY <1>1, <1>2, <1>3 DEF SumsAgree, ProfilesAgree

\* The nodes reported, per root and per worker, agree with the total and with
\* the outcome, for any number of tasks, roots and threads.
THEOREM ProfilesAlwaysAgree == Spec => []ProfilesAgree
<1>1. IInv /\ ProfilesInv => ProfilesAgree
    BY SumsAre DEF ProfilesInv
<1> QED BY <1>1, CountsInductive, PTL
====
