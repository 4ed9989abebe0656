-------------------------- MODULE WaitGroupProofs --------------------------
(* Theorems about WaitGroup, for every number of workers, every budget of   *)
(* calls and every argument of add.                                         *)
EXTENDS WaitGroup, FiniteSetTheorems, TLAPS

-----------------------------------------------------------------------------
\* The invariants

\* Nobody is lost between mWaiters, a broadcast under way and the semaphore.
Counted ==
    /\ mSem + mWaiters + n = Cardinality(Sleepers)
    /\ wait_count = Cardinality(Blocked)
    /\ task_count = 0 => mWaiters = 0
    /\ mLock = NoThread => n = 0

SleepInv == TypeOK /\ Counted

Reporters == {w \in Workers : dones[w] = 1}

\* The count is what was announced less what was reported.
Balanced ==
    /\ \A w \in Workers : dones[w] > 0 => os[w] # "none"
    /\ tame => /\ \A w \in Workers : dones[w] <= 1
               /\ Cardinality(Started) <= added
               /\ task_count = added - Cardinality(Reporters)

CountInv == TypeOK /\ Balanced

Methods == {"starting", "joining", "detaching"}

\* A thread that has a target is in a method that did not end yet.
Targeted(t, w) ==
    /\ t \in Owners /\ pc[t] \in Methods /\ alive[w]
    /\ pc[t] = "starting" => state[w] = 0 /\ os[w] # "none" /\ cb[w] # "object"
    /\ pc[t] # "starting" => state[w] = 1

\* Where the closure of object w and its thread are.
Owned(w) ==
    /\ cb[w] = "object" => frees[w] = 0 /\ os[w] = "none"
    /\ cb[w] = "thread" => frees[w] = 0 /\ os[w] = "running"
    /\ cb[w] = "nobody" => frees[w] = 1 /\ os[w] # "running"
    /\ state[w] = 2 => closes[w] = 1 /\ os[w] # "none"
    /\ state[w] = 1 => closes[w] = 0 /\ os[w] # "none"
    /\ state[w] = 0 => /\ closes[w] = 0
                       /\ os[w] # "none" => \E t \in Threads : target[t] = w
    /\ ~alive[w] => cb[w] # "object" /\ state[w] # 1

OwnInv ==
    /\ TypeOK
    /\ \A t \in Threads : pc[t] \in Methods => target[t] \in Workers
    /\ \A t \in Threads : \A w \in Workers : target[t] = w => Targeted(t, w)
    /\ \A w \in Workers : Owned(w)

GInv == SleepInv /\ CountInv /\ OwnInv
-----------------------------------------------------------------------------
\* Waiting threads

\* Any set of threads is finite, with one more or one less member.
LEMMA ThreadSets ==
    ASSUME NEW S \in SUBSET Threads, NEW t \in Threads
    PROVE  /\ IsFiniteSet(S) /\ Cardinality(S) \in Nat
           /\ t \notin S => Cardinality(S \cup {t}) = Cardinality(S) + 1
           /\ t \in S => Cardinality(S \ {t}) = Cardinality(S) - 1
<1>1. IsFiniteSet(Threads)
  BY WaitGroupAssumption, FS_AddElement DEF Threads
<1>2. IsFiniteSet(S)
  BY <1>1, FS_Subset
<1> QED
  BY <1>2, FS_CardinalityType, FS_AddElement, FS_RemoveElement

\* What a thread that goes to l does to the two sets, and to their sizes.
LEMMA Moves ==
    ASSUME TypeOK, NEW t \in Threads, NEW l, GoTo(t, l)
    PROVE  /\ Sleepers' = IF l = "asleep" THEN Sleepers \cup {t} ELSE Sleepers \ {t}
           /\ Blocked' = IF l \in {"asleep", "woken"} THEN Blocked \cup {t}
                                                       ELSE Blocked \ {t}
BY DEF TypeOK, GoTo, Sleepers, Blocked

\* A thread that neither was nor will be blocked changes neither set.
LEMMA MovesOutside ==
    ASSUME TypeOK, NEW t \in Threads, NEW l, GoTo(t, l),
           pc[t] \notin {"asleep", "woken"}, l \notin {"asleep", "woken"}
    PROVE  Sleepers' = Sleepers /\ Blocked' = Blocked
BY Moves DEF Sleepers, Blocked

\* The steps of add, done and wait keep the types and the tokens.
LEMMA GroupStep ==
    ASSUME SleepInv, NEW t \in Threads,
           \/ \E d \in Adds[t] : AddQuietly(t, d) \/ AddCompletes(t, d)
           \/ Release(t)
    PROVE  SleepInv'
<1> USE DEF SleepInv
<1>1. ASSUME NEW d \in Adds[t], AddQuietly(t, d)
      PROVE  SleepInv'
  <2>1. d \in Int /\ NewCount(d) \in Nat
    BY WaitGroupAssumption DEF TypeOK, NewCount
  <2>2. TypeOK'
    BY <1>1, <2>1 DEF AddQuietly, Call, Note, TypeOK, objects
  <2>3. Sleepers' = Sleepers /\ Blocked' = Blocked
    BY <1>1 DEF AddQuietly, Sleepers, Blocked
  <2>4. ASSUME task_count' = 0
        PROVE  mWaiters = 0
    <3>1. Cardinality(Blocked) = 0
      BY <1>1, <2>4 DEF AddQuietly, Counted
    <3>2. Blocked = {}
      BY <3>1, ThreadSets, FS_EmptySet DEF Blocked
    <3>3. Sleepers = {}
      BY <3>2 DEF Blocked, Sleepers
    <3> QED
      BY <3>3, FS_EmptySet DEF Counted, TypeOK
  <2> QED
    BY <1>1, <2>2, <2>3, <2>4 DEF AddQuietly, Counted
<1>2. ASSUME NEW d \in Adds[t], AddCompletes(t, d)
      PROVE  SleepInv'
  <2>1. d \in Int /\ NewCount(d) \in Nat
    BY WaitGroupAssumption DEF TypeOK, NewCount
  <2>2. TypeOK'
    BY <1>2, <2>1 DEF AddCompletes, Call, Note, TypeOK, objects, GoTo
  <2>3. Sleepers' = Sleepers /\ Blocked' = Blocked
    BY <1>2, MovesOutside DEF AddCompletes, Call, At
  <2>4. mLock' # NoThread
    BY <1>2, WaitGroupAssumption DEF AddCompletes
  <2> QED
    BY <1>2, <2>2, <2>3, <2>4 DEF AddCompletes, Counted, TypeOK
<1>3. CASE Release(t)
  <2>1. TypeOK'
    BY <1>3 DEF Release, TypeOK, objects, history, GoTo
  <2>2. Sleepers' = Sleepers /\ Blocked' = Blocked
    BY <1>3, MovesOutside DEF Release, At
  <2> QED
    BY <1>3, <2>1, <2>2 DEF Release, Counted, TypeOK
<1> QED
  BY <1>1, <1>2, <1>3

\* wait keeps them.
LEMMA WaitStep ==
    ASSUME SleepInv, NEW t \in Threads,
           \/ WaitPasses(t) \/ WaitSleeps(t)
           \/ TakeToken(t) \/ SleepAgain(t) \/ WaitEnds(t)
    PROVE  SleepInv'
<1> USE DEF SleepInv
<1>s. /\ Sleepers \in SUBSET Threads /\ Blocked \in SUBSET Threads
      /\ Cardinality(Sleepers) \in Nat /\ Cardinality(Blocked) \in Nat
  BY ThreadSets DEF Sleepers, Blocked
<1>1. CASE WaitPasses(t)
  BY <1>1 DEF WaitPasses, Call, TypeOK, Counted, group, objects, history,
              Sleepers, Blocked
<1>2. CASE WaitSleeps(t)
  <2>1. TypeOK'
    BY <1>2 DEF WaitSleeps, Call, TypeOK, objects, history, GoTo
  <2>2. t \notin Sleepers /\ t \notin Blocked
    BY <1>2 DEF WaitSleeps, Call, At, Sleepers, Blocked
  <2>3. Sleepers' = Sleepers \cup {t} /\ Blocked' = Blocked \cup {t}
    BY <1>2, Moves DEF WaitSleeps
  <2>4. /\ Cardinality(Sleepers') = Cardinality(Sleepers) + 1
        /\ Cardinality(Blocked') = Cardinality(Blocked) + 1
    BY <1>s, <2>2, <2>3, ThreadSets
  <2> QED
    BY <1>2, <2>1, <2>4 DEF WaitSleeps, Counted, TypeOK
<1>3. CASE TakeToken(t)
  <2>1. TypeOK'
    BY <1>3 DEF TakeToken, TypeOK, objects, history, GoTo
  <2>2. t \in Sleepers /\ t \in Blocked
    BY <1>3 DEF TakeToken, At, Sleepers, Blocked
  <2>3. Sleepers' = Sleepers \ {t} /\ Blocked' = Blocked
    BY <1>3, <2>2, Moves DEF TakeToken
  <2>4. Cardinality(Sleepers') = Cardinality(Sleepers) - 1
    BY <1>s, <2>2, <2>3, ThreadSets
  <2> QED
    BY <1>3, <2>1, <2>3, <2>4 DEF TakeToken, Counted, TypeOK
<1>4. CASE SleepAgain(t)
  <2>1. TypeOK'
    BY <1>4 DEF SleepAgain, TypeOK, objects, history, GoTo
  <2>2. t \notin Sleepers /\ t \in Blocked
    BY <1>4 DEF SleepAgain, At, Sleepers, Blocked
  <2>3. Sleepers' = Sleepers \cup {t} /\ Blocked' = Blocked
    BY <1>4, <2>2, Moves DEF SleepAgain
  <2>4. Cardinality(Sleepers') = Cardinality(Sleepers) + 1
    BY <1>s, <2>2, <2>3, ThreadSets
  <2> QED
    BY <1>4, <2>1, <2>3, <2>4 DEF SleepAgain, Counted, TypeOK
<1>5. CASE WaitEnds(t)
  <2>1. t \notin Sleepers /\ t \in Blocked
    BY <1>5 DEF WaitEnds, At, Sleepers, Blocked
  <2>2. Sleepers' = Sleepers /\ Blocked' = Blocked \ {t}
    BY <1>5, <2>1, Moves DEF WaitEnds
  <2>3. /\ Cardinality(Blocked') = Cardinality(Blocked) - 1
        /\ Cardinality(Blocked') \in Nat
    BY <1>s, <2>1, <2>2, ThreadSets
  <2>4. wait_count' = Cardinality(Blocked')
    BY <1>5, <2>3 DEF WaitEnds, Counted
  <2>5. TypeOK'
    BY <1>5, <2>3, <2>4 DEF WaitEnds, TypeOK, objects, history, GoTo
  <2> QED
    BY <1>5, <2>2, <2>4, <2>5 DEF WaitEnds, Counted, TypeOK
<1> QED
  BY <1>1, <1>2, <1>3, <1>4, <1>5

\* The methods of Thread do not touch the group.
LEMMA MethodStep ==
    ASSUME SleepInv, NEW t \in Threads,
           \/ SetStarted(t) \/ Closed(t) \/ DetachFails(t)
           \/ \E w \in Workers :
                 \/ Start(t, w) \/ StartFails(t, w) \/ Refused(t, w) \/ Destruct(t, w)
                 \/ \E l \in {"joining", "detaching"} : JoinOrDetach(t, w, l)
    PROVE  SleepInv'
<1> USE DEF SleepInv
<1>1. ASSUME UNCHANGED group, Sleepers' = Sleepers, Blocked' = Blocked
      PROVE  Counted'
  BY <1>1 DEF group, Counted
<1>2. ASSUME UNCHANGED pc
      PROVE  Sleepers' = Sleepers /\ Blocked' = Blocked
  BY <1>2 DEF Sleepers, Blocked
<1>3. CASE SetStarted(t)
  <2>1. TypeOK'
    <3>1. target' \in [Threads -> Workers \cup {NoThread}]
      BY <1>3 DEF SetStarted, TypeOK
    <3>2. state' = [w \in Workers |-> IF w = target[t] THEN 1 ELSE state[w]]
      BY <1>3 DEF SetStarted, TypeOK
    <3>3. state' \in [Workers -> 0 .. 2]
      BY <3>2 DEF TypeOK
    <3> QED
      BY <1>3, <3>1, <3>3 DEF SetStarted, TypeOK, group, history, GoTo
  <2>2. Sleepers' = Sleepers /\ Blocked' = Blocked
    BY <1>3, MovesOutside DEF SetStarted, At
  <2> QED
    BY <1>1, <1>3, <2>1, <2>2 DEF SetStarted
<1>4. CASE Closed(t)
  <2>1. TypeOK'
    <3>1. target' \in [Threads -> Workers \cup {NoThread}]
      BY <1>4 DEF Closed, TypeOK
    <3>2. /\ state' = [w \in Workers |-> IF w = target[t] THEN 2 ELSE state[w]]
          /\ closes' = [w \in Workers |-> IF w = target[t] THEN closes[w] + 1
                                                         ELSE closes[w]]
      BY <1>4 DEF Closed, TypeOK
    <3>3. state' \in [Workers -> 0 .. 2] /\ closes' \in [Workers -> Nat]
      BY <3>2 DEF TypeOK
    <3> QED
      BY <1>4, <3>1, <3>3 DEF Closed, TypeOK, group, history, GoTo
  <2>2. Sleepers' = Sleepers /\ Blocked' = Blocked
    BY <1>4, MovesOutside DEF Closed, At
  <2> QED
    BY <1>1, <1>4, <2>1, <2>2 DEF Closed
<1>10. CASE DetachFails(t)
  <2>1. TypeOK'
    BY <1>10 DEF DetachFails, TypeOK, group, history, GoTo
  <2>2. Sleepers' = Sleepers /\ Blocked' = Blocked
    BY <1>10, MovesOutside DEF DetachFails, At
  <2> QED
    BY <1>1, <1>10, <2>1, <2>2 DEF DetachFails
<1>5. ASSUME NEW w \in Workers, Start(t, w)
      PROVE  SleepInv'
  <2>1. TypeOK'
    BY <1>5 DEF Start, Method, Call, TypeOK, group, GoTo
  <2>2. Sleepers' = Sleepers /\ Blocked' = Blocked
    BY <1>5, MovesOutside DEF Start, Method, Call, At
  <2> QED
    BY <1>1, <1>5, <2>1, <2>2 DEF Start
<1>6. ASSUME NEW w \in Workers, StartFails(t, w)
      PROVE  SleepInv'
  <2>1. TypeOK'
    BY <1>6 DEF StartFails, Method, Call, TypeOK, group, history
  <2> QED
    BY <1>1, <1>2, <1>6, <2>1 DEF StartFails
<1>7. ASSUME NEW w \in Workers, Refused(t, w)
      PROVE  SleepInv'
  BY <1>1, <1>2, <1>7 DEF Refused, vars, group, objects, history, TypeOK
<1>8. ASSUME NEW w \in Workers, Destruct(t, w)
      PROVE  SleepInv'
  <2>1. TypeOK'
    BY <1>8 DEF Destruct, Method, Call, TypeOK, group, history
  <2> QED
    BY <1>1, <1>2, <1>8, <2>1 DEF Destruct
<1>9. ASSUME NEW w \in Workers, NEW l \in {"joining", "detaching"},
             JoinOrDetach(t, w, l)
      PROVE  SleepInv'
  <2>1. TypeOK'
    BY <1>9 DEF JoinOrDetach, Method, Call, TypeOK, group, history, GoTo
  <2>2. Sleepers' = Sleepers /\ Blocked' = Blocked
    BY <1>9, MovesOutside DEF JoinOrDetach, Method, Call, At
  <2> QED
    BY <1>1, <1>9, <2>1, <2>2 DEF JoinOrDetach
<1> QED
  BY <1>3, <1>4, <1>5, <1>6, <1>7, <1>8, <1>9, <1>10

\* Every step keeps the types and the tokens.
LEMMA SleepStep == SleepInv /\ [Next]_vars => SleepInv'
<1> SUFFICES ASSUME SleepInv, [Next]_vars
             PROVE  SleepInv'
  OBVIOUS
<1>1. ASSUME NEW w \in Workers, WorkerEnds(w)
      PROVE  SleepInv'
  <2>1. TypeOK'
    BY <1>1 DEF WorkerEnds, SleepInv, TypeOK, group, history
  <2>2. Counted'
    BY <1>1 DEF WorkerEnds, SleepInv, Counted, group, Sleepers, Blocked
  <2> QED
    BY <2>1, <2>2 DEF SleepInv
<1>2. CASE UNCHANGED vars
  BY <1>2 DEF vars, group, objects, history, SleepInv, TypeOK, Counted, Sleepers, Blocked
<1>3. ASSUME NEW t \in Threads, Begins(t) \/ Proceeds(t)
      PROVE  SleepInv'
  BY <1>3, GroupStep, WaitStep, MethodStep DEF Begins, Proceeds
<1> QED
  BY <1>1, <1>2, <1>3 DEF Next

\* The initial state has nobody asleep.
LEMMA SleepInit == Init => SleepInv
<1> SUFFICES ASSUME Init PROVE SleepInv
  OBVIOUS
<1>1. TypeOK
  BY DEF Init, TypeOK
<1>2. Sleepers = {} /\ Blocked = {}
  BY DEF Init, Sleepers, Blocked
<1> QED
  BY <1>1, <1>2, FS_EmptySet DEF Init, SleepInv, Counted

\* No number goes below 0: neither the tasks nor the sleepers are miscounted.
THEOREM TypeCorrect == Spec => []TypeOK
<1> QED
  BY SleepInit, SleepStep, PTL DEF Spec, SleepInv

\* No sleeper is left behind by a notification, in every behaviour.
THEOREM NobodyStranded == Spec => []NoneStranded
<1>1. SleepInv => NoneStranded
  BY DEF SleepInv, TypeOK, Counted, NoneStranded
<1> QED
  BY <1>1, SleepInit, SleepStep, PTL DEF Spec

-----------------------------------------------------------------------------
\* What a count of 0 says

\* Any set of workers is finite, and so is one with one more member.
LEMMA WorkerSets ==
    ASSUME NEW S \in SUBSET Workers, NEW w \in Workers
    PROVE  /\ IsFiniteSet(S) /\ Cardinality(S) \in Nat
           /\ w \notin S => Cardinality(S \cup {w}) = Cardinality(S) + 1
           /\ w \in S => S \cup {w} = S
<1>1. IsFiniteSet(S)
  BY WaitGroupAssumption, FS_Subset
<1> QED
  BY <1>1, FS_CardinalityType, FS_AddElement

\* Started workers are at least as many as those that reported.
LEMMA ReportersStarted ==
    ASSUME Balanced
    PROVE  /\ Reporters \subseteq Started
           /\ Cardinality(Reporters) <= Cardinality(Started)
           /\ Cardinality(Reporters) = Cardinality(Started) => Reporters = Started
<1>1. Reporters \subseteq Started
  BY DEF Balanced, Reporters, Started
<1>2. IsFiniteSet(Started)
  BY WaitGroupAssumption, FS_Subset DEF Started
<1> QED
  BY <1>1, <1>2, FS_Subset

\* add and done: the count and the reports change together.
LEMMA ReportStep ==
    ASSUME TypeOK, TypeOK', Balanced, NEW t \in Threads, NEW d \in Adds[t],
           At(t, "idle"), task_count' = NewCount(d), Note(t, d), UNCHANGED os
    PROVE  Balanced'
<1>d. d \in Int /\ added \in Int /\ task_count \in Nat
  BY WaitGroupAssumption DEF TypeOK
<1>s. Started' = Started
  BY DEF Started
<1>f. /\ Cardinality(Reporters) \in Nat /\ Cardinality(Started) \in Nat
      /\ Cardinality(Reporters) <= Cardinality(Started)
  BY WorkerSets, ReportersStarted, WaitGroupAssumption, FS_Subset, FS_CardinalityType
     DEF Reporters, Started
<1>1. \A w \in Workers : dones'[w] > 0 => os'[w] # "none"
  <2>1. CASE t \in Workers /\ d = -1
    <3>1. dones' = [dones EXCEPT ![t] = @ + 1] /\ os[t] = "running"
      BY <2>1, WaitGroupAssumption DEF Note, At, Running
    <3> QED
      BY <3>1 DEF Balanced, TypeOK
  <2>2. CASE ~(t \in Workers /\ d = -1)
    BY <2>2 DEF Note, Balanced
  <2> QED
    BY <2>1, <2>2
<1>2. CASE t = Main
  <2>1. dones' = dones /\ Reporters' = Reporters /\ added' = added + d
    BY <1>2, WaitGroupAssumption DEF Note, Reporters
  <2>2. tame' => tame /\ d > 0
    BY <1>2 DEF Note
  <2>3. d > 0 => NewCount(d) = task_count + d
    BY <1>d DEF NewCount
  <2> QED
    BY <1>1, <1>d, <1>f, <1>s, <2>1, <2>2, <2>3 DEF Balanced, TypeOK
<1>3. CASE t # Main
  <2>1. t \in Workers
    BY <1>3 DEF Threads
  <2>2. SUFFICES ASSUME tame'
                 PROVE  /\ \A w \in Workers : dones'[w] <= 1
                        /\ Cardinality(Started') <= added'
                        /\ task_count' = added' - Cardinality(Reporters')
    BY <1>1 DEF Balanced
  <2>3. tame /\ d = -1 /\ dones[t] = 0 /\ added' = added
    BY <1>3, <2>2 DEF Note
  <2>4. dones' = [dones EXCEPT ![t] = 1]
    BY <2>1, <2>3 DEF Note, TypeOK
  <2>5. t \notin Reporters /\ Reporters' = Reporters \cup {t} /\ t \in Started
    BY <2>1, <2>3, <2>4, <1>3 DEF Reporters, TypeOK, At, Running, Started
  <2>6. Cardinality(Reporters') = Cardinality(Reporters) + 1
    BY <2>1, <2>5, WorkerSets DEF Reporters
  <2>7. Reporters # Started
    BY <2>5
  <2>8. Cardinality(Reporters) < Cardinality(Started)
    BY <2>7, <1>f, ReportersStarted
  <2>9. task_count = added - Cardinality(Reporters) /\ Cardinality(Started) <= added
    BY <2>3 DEF Balanced
  <2>10. NewCount(d) = task_count - 1
    BY <2>3, <2>8, <2>9, <1>d, <1>f DEF NewCount
  <2>11. \A w \in Workers : dones'[w] <= 1
    BY <2>1, <2>3, <2>4 DEF Balanced, TypeOK
  <2>12. task_count' = added' - Cardinality(Reporters')
    BY <2>3, <2>6, <2>9, <2>10, <1>d, <1>f
  <2> QED
    BY <2>3, <2>9, <2>11, <2>12, <1>s
<1> QED
  BY <1>2, <1>3

\* Every step keeps the balance.
LEMMA CountStep == CountInv /\ SleepInv /\ [Next]_vars => CountInv'
<1> SUFFICES ASSUME CountInv, SleepInv, [Next]_vars
             PROVE  Balanced'
  BY SleepStep DEF CountInv, SleepInv
<1> USE DEF CountInv
<1>t. TypeOK'
  BY SleepStep DEF SleepInv
<1>0. ASSUME UNCHANGED <<task_count, os, history>>
      PROVE  Balanced'
  BY <1>0 DEF Balanced, history, Started, Reporters
<1>1. ASSUME NEW t \in Threads, NEW d \in Adds[t], AddQuietly(t, d) \/ AddCompletes(t, d)
      PROVE  Balanced'
  <2>1. At(t, "idle") /\ task_count' = NewCount(d) /\ Note(t, d) /\ UNCHANGED os
    BY <1>1 DEF AddQuietly, AddCompletes, Call, objects
  <2> QED
    BY <2>1, <1>t, ReportStep
<1>2. ASSUME NEW t \in Threads, NEW w \in Workers, Start(t, w)
      PROVE  Balanced'
  <2>1. os' = [os EXCEPT ![w] = "running"] /\ UNCHANGED <<task_count, added, dones>>
    BY <1>2 DEF Start, group
  <2>2. Reporters' = Reporters /\ Started' = Started \cup {w}
    BY <2>1 DEF Reporters, Started, TypeOK
  <2>3. tame' => tame /\ Cardinality(Started) < added
    BY <1>2 DEF Start
  <2>4. /\ Cardinality(Started) \in Nat
        /\ \/ Cardinality(Started') = Cardinality(Started) + 1
           \/ Cardinality(Started') = Cardinality(Started)
    BY <2>2, WorkerSets DEF Started
  <2>5. tame' => Cardinality(Started') <= added'
    BY <2>1, <2>3, <2>4 DEF TypeOK
  <2>6. \A u \in Workers : dones'[u] > 0 => os'[u] # "none"
    BY <2>1 DEF Balanced, TypeOK
  <2> QED
    BY <2>1, <2>2, <2>3, <2>5, <2>6 DEF Balanced
<1>3. ASSUME NEW w \in Workers, WorkerEnds(w)
      PROVE  Balanced'
  <2>1. /\ os' = [os EXCEPT ![w] = "ended"]
        /\ UNCHANGED <<task_count, added, dones, tame>>
    BY <1>3 DEF WorkerEnds, group, history
  <2>2. os[w] = "running"
    BY <1>3, WaitGroupAssumption DEF WorkerEnds, At, Running
  <2>3. Reporters' = Reporters /\ Started' = Started
    BY <2>1, <2>2 DEF Reporters, Started, TypeOK
  <2> QED
    BY <2>1, <2>3 DEF Balanced, TypeOK
<1>4. CASE UNCHANGED vars
  BY <1>0, <1>4 DEF vars, group, objects
<1>5. ASSUME NEW t \in Threads,
             WaitPasses(t) \/ WaitSleeps(t) \/ Proceeds(t)
      PROVE  Balanced'
  BY <1>0, <1>5 DEF WaitPasses, WaitSleeps, Proceeds, Release, TakeToken, SleepAgain,
                    WaitEnds, SetStarted, Closed, DetachFails, group, objects
<1>6. ASSUME NEW t \in Threads, NEW w \in Workers,
             \/ StartFails(t, w) \/ Refused(t, w) \/ Destruct(t, w)
             \/ \E l \in {"joining", "detaching"} : JoinOrDetach(t, w, l)
      PROVE  Balanced'
  BY <1>0, <1>6 DEF StartFails, Refused, Destruct, JoinOrDetach, vars, group, objects
<1> QED
  BY <1>1, <1>2, <1>3, <1>4, <1>5, <1>6 DEF Next, Begins

\* Where tasks are announced before they start and reported once, a count of
\* 0 is the end of all of them, whatever the interleaving.
THEOREM ZeroIsDone == Spec => []ZeroMeansDone
<1>1. Init => CountInv
  <2> SUFFICES ASSUME Init PROVE CountInv
    OBVIOUS
  <2>1. TypeOK
    BY DEF Init, TypeOK
  <2>2. Started = {} /\ Reporters = {}
    BY DEF Init, Started, Reporters
  <2> QED
    BY <2>1, <2>2, FS_EmptySet DEF Init, CountInv, Balanced
<1>2. CountInv => ZeroMeansDone
  <2> SUFFICES ASSUME CountInv, tame, task_count = 0
               PROVE  \A w \in Started : dones[w] = 1
    BY DEF ZeroMeansDone
  <2>1. /\ Cardinality(Started) <= added /\ added \in Int
        /\ added = Cardinality(Reporters) /\ Cardinality(Reporters) \in Nat
        /\ Cardinality(Started) \in Nat
    BY WorkerSets, WaitGroupAssumption, FS_Subset, FS_CardinalityType
       DEF CountInv, Balanced, TypeOK, Reporters, Started
  <2>2. Reporters = Started
    BY <2>1, ReportersStarted DEF CountInv
  <2> QED
    BY <2>2 DEF Reporters
<1> QED
  BY <1>1, <1>2, SleepInit, SleepStep, CountStep, PTL DEF Spec

-----------------------------------------------------------------------------
\* What becomes of closures and threads

\* Two owners could both find a running thread, and join it twice.
OneOwner == \A a, b \in Owners : a = b

\* Steps that leave the objects alone, and move no thread in or out of a method.
LEMMA OwnFrame ==
    ASSUME OwnInv, TypeOK', UNCHANGED objects,
           \A t \in Threads : pc'[t] = pc[t] \/ (pc[t] \notin Methods /\ pc'[t] \notin Methods)
    PROVE  OwnInv'
<1>1. \A w \in Workers : Owned(w)'
  BY DEF OwnInv, Owned, objects
<1>2. \A t \in Threads : \A w \in Workers : target'[t] = w => Targeted(t, w)'
  BY DEF OwnInv, Targeted, objects
<1>3. \A t \in Threads : pc'[t] \in Methods => target'[t] \in Workers
  BY DEF OwnInv, objects
<1> QED
  BY <1>1, <1>2, <1>3 DEF OwnInv

\* Methods begin: nobody is in a method of the object, for its owner is not.
LEMMA Untargeted ==
    ASSUME OneOwner, OwnInv, NEW t \in Threads, NEW w \in Workers, Method(t, w)
    PROVE  /\ pc[t] = "idle" /\ t \in Owners /\ alive[w]
           /\ \A u \in Threads : target[u] \notin Workers
<1>1. pc[t] = "idle" /\ t \in Owners /\ alive[w]
  BY DEF Method, Call, At
<1>2. ASSUME NEW u \in Threads, target[u] \in Workers
      PROVE  FALSE
  <2>1. Targeted(u, target[u])
    BY <1>2 DEF OwnInv
  <2> QED
    BY <1>1, <2>1 DEF Targeted, OneOwner, Methods
<1> QED
  BY <1>1, <1>2

\* Start gives the closure away, and the object has a thread.
LEMMA StartStep ==
    ASSUME OneOwner, OwnInv, TypeOK', NEW t \in Threads, NEW w \in Workers, Start(t, w)
    PROVE  OwnInv'
<1>m. Method(t, w)
  BY DEF Start
<1>u. /\ pc[t] = "idle" /\ t \in Owners /\ alive[w]
      /\ \A u \in Threads : target[u] \notin Workers
  BY <1>m, Untargeted
<1>1. /\ pc' = [pc EXCEPT ![t] = "starting"] /\ target' = [target EXCEPT ![t] = w]
      /\ cb' = [cb EXCEPT ![w] = "thread"] /\ os' = [os EXCEPT ![w] = "running"]
      /\ state[w] = 0 /\ cb[w] = "object"
      /\ UNCHANGED <<state, alive, frees, closes>>
  BY DEF Start, GoTo
<1>2. \A u \in Threads : pc'[u] \in Methods => target'[u] \in Workers
  BY <1>1 DEF OwnInv, TypeOK
<1>3. \A u \in Threads : \A x \in Workers : target'[u] = x => Targeted(u, x)'
  BY <1>u, <1>1 DEF OwnInv, TypeOK, Targeted, Methods
<1>4. ASSUME NEW x \in Workers
      PROVE  Owned(x)'
  <2>1. CASE x = w
    <3>1. target'[t] = w
      BY <1>1 DEF OwnInv, TypeOK
    <3> QED
      BY <1>u, <1>1, <2>1, <3>1 DEF OwnInv, Owned, TypeOK
  <2>2. CASE x # w
    <3>1. state[x] = 0 => os[x] = "none"
      BY <1>u DEF OwnInv, Owned
    <3> QED
      BY <1>1, <2>2, <3>1 DEF OwnInv, Owned, TypeOK
  <2> QED
    BY <2>1, <2>2
<1> QED
  BY <1>2, <1>3, <1>4 DEF OwnInv

\* A method that begins on a running thread.
LEMMA CloseBegins ==
    ASSUME OneOwner, OwnInv, TypeOK', NEW t \in Threads, NEW w \in Workers,
           NEW l \in {"joining", "detaching"}, JoinOrDetach(t, w, l)
    PROVE  OwnInv'
<1>u. /\ pc[t] = "idle" /\ t \in Owners /\ alive[w]
      /\ \A u \in Threads : target[u] \notin Workers
  BY Untargeted DEF JoinOrDetach
<1>1. /\ pc' = [pc EXCEPT ![t] = l] /\ target' = [target EXCEPT ![t] = w]
      /\ state[w] = 1 /\ UNCHANGED <<state, cb, os, alive, frees, closes>>
  BY DEF JoinOrDetach, GoTo
<1>2. \A u \in Threads : pc'[u] \in Methods => target'[u] \in Workers
  BY <1>1 DEF OwnInv, TypeOK
<1>3. \A u \in Threads : \A x \in Workers : target'[u] = x => Targeted(u, x)'
  BY <1>u, <1>1 DEF OwnInv, TypeOK, Targeted, Methods
<1>4. \A x \in Workers : Owned(x)'
  BY <1>u, <1>1 DEF OwnInv, Owned
<1> QED
  BY <1>2, <1>3, <1>4 DEF OwnInv

\* start, join and detach end: the object's state is set, or detach has failed.
LEMMA MethodEnds ==
    ASSUME OneOwner, OwnInv, TypeOK', NEW t \in Threads,
           SetStarted(t) \/ Closed(t) \/ DetachFails(t)
    PROVE  OwnInv'
<1>1. pc[t] \in Methods /\ target[t] \in Workers
  BY DEF SetStarted, Closed, DetachFails, At, OwnInv, Methods
<1>w. PICK w \in Workers : w = target[t]
  BY <1>1
<1>2. Targeted(t, w)
  BY <1>w DEF OwnInv
<1>3. \A u \in Threads : u # t => target[u] \notin Workers
  <2>1. ASSUME NEW u \in Threads, target[u] \in Workers
        PROVE  u = t
    <3>1. Targeted(u, target[u])
      BY <2>1 DEF OwnInv
    <3> QED
      BY <1>2, <3>1 DEF Targeted, OneOwner
  <2> QED
    BY <2>1
<1>4. pc' = [pc EXCEPT ![t] = "idle"] /\ target' = [target EXCEPT ![t] = NoThread]
      /\ UNCHANGED <<cb, os, alive, frees>>
  BY DEF SetStarted, Closed, DetachFails, GoTo
<1>5. \A u \in Threads : target'[u] \notin Workers
  BY <1>3, <1>4, WaitGroupAssumption DEF OwnInv, TypeOK, Threads
<1>6. \A u \in Threads : pc'[u] \notin Methods
  BY <1>3, <1>4 DEF OwnInv, TypeOK, Methods
<1>7. \A x \in Workers : x # w /\ state[x] = 0 => os[x] = "none"
  BY <1>3, <1>w DEF OwnInv, Owned
<1>8. \A x \in Workers : x # w => Owned(x)'
  <2>1. \A x \in Workers : x # w => state'[x] = state[x] /\ closes'[x] = closes[x]
    BY <1>w DEF SetStarted, Closed, DetachFails, OwnInv, TypeOK
  <2> QED
    BY <1>4, <1>7, <2>1 DEF OwnInv, Owned
<1>9. Owned(w)'
  <2>1. CASE SetStarted(t)
    <3>1. state'[w] = 1 /\ closes'[w] = closes[w] /\ pc[t] = "starting"
      BY <1>w, <2>1 DEF SetStarted, At, OwnInv, TypeOK
    <3> QED
      BY <1>w, <1>2, <1>4, <3>1 DEF OwnInv, Owned, Targeted
  <2>2. CASE Closed(t)
    <3>1. state'[w] = 2 /\ closes'[w] = closes[w] + 1 /\ pc[t] # "starting"
      BY <1>w, <2>2 DEF Closed, At, OwnInv, TypeOK
    <3> QED
      BY <1>w, <1>2, <1>4, <3>1 DEF OwnInv, Owned, Targeted
  <2>3. CASE DetachFails(t)
    <3>1. UNCHANGED <<state, closes>> /\ pc[t] # "starting"
      BY <2>3 DEF DetachFails, At
    <3> QED
      BY <1>w, <1>2, <1>4, <3>1 DEF OwnInv, Owned, Targeted
  <2> QED
    BY <2>1, <2>2, <2>3
<1> QED
  BY <1>5, <1>6, <1>8, <1>9 DEF OwnInv

\* A failed start and a destructor free the closure that is still there.
LEMMA FreeStep ==
    ASSUME OneOwner, OwnInv, TypeOK', NEW t \in Threads, NEW w \in Workers,
           StartFails(t, w) \/ Destruct(t, w)
    PROVE  OwnInv'
<1>u. alive[w] /\ \A u \in Threads : target[u] \notin Workers
  BY Untargeted DEF StartFails, Destruct
<1>1. UNCHANGED <<pc, target, os>>
  BY DEF StartFails, Destruct
<1>2. \A u \in Threads : pc'[u] \notin Methods
  BY <1>u, <1>1 DEF OwnInv
<1>3. \A x \in Workers : x # w => /\ state'[x] = state[x] /\ cb'[x] = cb[x]
                                  /\ alive'[x] = alive[x] /\ frees'[x] = frees[x]
                                  /\ closes'[x] = closes[x]
  BY DEF StartFails, Destruct, OwnInv, TypeOK
<1>4. \A x \in Workers : x # w => Owned(x)'
  BY <1>1, <1>3 DEF OwnInv, Owned
<1>5. Owned(w)'
  <2>1. CASE StartFails(t, w)
    BY <1>u, <1>1, <2>1 DEF StartFails, OwnInv, Owned, TypeOK
  <2>2. CASE Destruct(t, w)
    <3>1. /\ ~alive'[w]
          /\ state'[w] = IF state[w] = 1 THEN 2 ELSE state[w]
          /\ closes'[w] = IF state[w] = 1 THEN closes[w] + 1 ELSE closes[w]
          /\ frees'[w] = IF cb[w] = "object" THEN frees[w] + 1 ELSE frees[w]
          /\ cb'[w] = IF cb[w] = "object" THEN "nobody" ELSE cb[w]
      BY <2>2 DEF Destruct, OwnInv, TypeOK
    <3> QED
      BY <1>u, <1>1, <3>1 DEF OwnInv, Owned, TypeOK
  <2> QED
    BY <2>1, <2>2
<1> QED
  BY <1>u, <1>1, <1>2, <1>4, <1>5 DEF OwnInv

\* The new thread frees the closure when it ends.
LEMMA EndStep ==
    ASSUME OwnInv, TypeOK', NEW w \in Workers, WorkerEnds(w)
    PROVE  OwnInv'
<1>1. /\ os' = [os EXCEPT ![w] = "ended"] /\ cb' = [cb EXCEPT ![w] = "nobody"]
      /\ frees' = [frees EXCEPT ![w] = @ + 1]
      /\ UNCHANGED <<pc, target, state, alive, closes>>
  BY DEF WorkerEnds
<1>2. os[w] = "running"
  BY WaitGroupAssumption DEF WorkerEnds, At, Running
<1>3. cb[w] = "thread" /\ frees[w] = 0
  BY <1>2 DEF OwnInv, Owned, TypeOK
<1>4. \A x \in Workers : Owned(x)'
  BY <1>1, <1>2, <1>3 DEF OwnInv, Owned, TypeOK
<1>5. \A u \in Threads : \A x \in Workers : target'[u] = x => Targeted(u, x)'
  BY <1>1, <1>2, <1>3 DEF OwnInv, Targeted, TypeOK
<1> QED
  BY <1>1, <1>4, <1>5 DEF OwnInv

\* Every step keeps track of the closures and the threads.
LEMMA OwnStep == OneOwner /\ OwnInv /\ SleepInv /\ [Next]_vars => OwnInv'
<1> SUFFICES ASSUME OneOwner, OwnInv, SleepInv, [Next]_vars
             PROVE  OwnInv'
  OBVIOUS
<1>t. TypeOK'
  BY SleepStep DEF SleepInv
<1>1. ASSUME NEW t \in Threads,
             \/ \E d \in Adds[t] : AddQuietly(t, d) \/ AddCompletes(t, d)
             \/ WaitPasses(t) \/ WaitSleeps(t) \/ Release(t) \/ TakeToken(t)
             \/ SleepAgain(t) \/ WaitEnds(t)
      PROVE  OwnInv'
  <2>1. UNCHANGED objects
    BY <1>1 DEF AddQuietly, AddCompletes, WaitPasses, WaitSleeps, Release, TakeToken,
                SleepAgain, WaitEnds, group
  <2>2. \A u \in Threads : pc'[u] = pc[u] \/ (pc[u] \notin Methods /\ pc'[u] \notin Methods)
    BY <1>1 DEF AddQuietly, AddCompletes, WaitPasses, WaitSleeps, Release, TakeToken,
                SleepAgain, WaitEnds, group, GoTo, Call, At, Methods, SleepInv, TypeOK
  <2> QED
    BY <1>t, <2>1, <2>2, OwnFrame
<1>2. CASE UNCHANGED vars
  BY <1>2, <1>t, OwnFrame DEF vars
<1>3. ASSUME NEW t \in Threads, NEW w \in Workers, Refused(t, w)
      PROVE  OwnInv'
  BY <1>3, <1>t, OwnFrame DEF Refused, vars
<1>4. ASSUME NEW t \in Threads, Begins(t) \/ Proceeds(t)
      PROVE  OwnInv'
  BY <1>1, <1>3, <1>4, <1>t, StartStep, CloseBegins, MethodEnds, FreeStep
     DEF Begins, Proceeds
<1> QED
  BY <1>2, <1>4, <1>t, EndStep DEF Next

\* With one owner, each closure is freed and each thread closed exactly once,
\* in every behaviour.
THEOREM NothingLeaks == OneOwner => (Spec => []ResourcesReturned)
<1> SUFFICES ASSUME OneOwner
             PROVE  Spec => []ResourcesReturned
  OBVIOUS
<1>1. Init => OwnInv
  <2> SUFFICES ASSUME Init PROVE OwnInv
    OBVIOUS
  <2>1. TypeOK
    BY DEF Init, TypeOK
  <2> QED
    BY <2>1, WaitGroupAssumption DEF Init, OwnInv, Owned, Targeted, Methods, Threads
<1>2. OwnInv => ResourcesReturned
  <2> SUFFICES ASSUME OwnInv, NEW w \in Workers
               PROVE  /\ frees[w] <= 1 /\ closes[w] <= 1
                      /\ ~alive[w] /\ os[w] # "running" =>
                            frees[w] = 1 /\ (closes[w] = 1 <=> os[w] = "ended")
    BY DEF ResourcesReturned
  <2>1. Owned(w) /\ cb[w] \in {"object", "thread", "nobody"} /\ state[w] \in 0 .. 2
        /\ os[w] \in {"none", "running", "ended"}
    BY DEF OwnInv, TypeOK
  <2>2. ~alive[w] => \A t \in Threads : target[t] # w
    BY DEF OwnInv, Targeted
  <2> QED
    BY <2>1, <2>2 DEF Owned
<1>3. OwnInv /\ SleepInv /\ [Next]_vars => OwnInv'
  BY OwnStep
<1> QED
  BY <1>1, <1>2, <1>3, SleepInit, SleepStep, PTL DEF Spec

-----------------------------------------------------------------------------
\* The code implements the latch

\* Every step is one of the latch, or leaves the count and the blocked alone.
LEMMA LatchStep ==
    ASSUME TypeOK, [Next]_vars
    PROVE  [L!Next]_<<task_count, Blocked>>
<1> USE DEF L!Next
<1>1. ASSUME NEW t \in Threads, NEW d \in Adds[t], AddQuietly(t, d) \/ AddCompletes(t, d)
      PROVE  L!Next
  <2>1. Blocked' = Blocked
    BY <1>1, MovesOutside DEF AddQuietly, AddCompletes, Call, At, Blocked
  <2>2. d \in Deltas
    BY WaitGroupAssumption
  <2>3. L!Add(d)
    BY <1>1, <2>1 DEF AddQuietly, AddCompletes, NewCount, L!Add
  <2> QED
    BY <2>2, <2>3
<1>2. ASSUME NEW t \in Threads, WaitSleeps(t)
      PROVE  L!Next
  <2>1. t \notin Blocked /\ Blocked' = Blocked \cup {t}
    BY <1>2, Moves DEF WaitSleeps, Call, At, Blocked
  <2> QED
    BY <1>2, <2>1 DEF WaitSleeps, L!Enter
<1>3. ASSUME NEW t \in Threads, WaitEnds(t)
      PROVE  L!Next
  <2>1. t \in Blocked /\ Blocked' = Blocked \ {t} /\ task_count = 0
    BY <1>3, Moves DEF WaitEnds, At, Blocked, TypeOK
  <2> QED
    BY <1>3, <2>1 DEF WaitEnds, L!Leave
<1>4. ASSUME NEW t \in Threads, TakeToken(t) \/ SleepAgain(t)
      PROVE  UNCHANGED <<task_count, Blocked>>
  <2>1. t \in Blocked
    BY <1>4 DEF TakeToken, SleepAgain, At, Blocked
  <2> QED
    BY <1>4, <2>1, Moves DEF TakeToken, SleepAgain
<1>5. ASSUME NEW t \in Threads, NEW l, GoTo(t, l), UNCHANGED task_count,
             pc[t] \notin {"asleep", "woken"}, l \notin {"asleep", "woken"}
      PROVE  UNCHANGED <<task_count, Blocked>>
  BY <1>5, MovesOutside
<1>6. ASSUME UNCHANGED <<task_count, pc>>
      PROVE  UNCHANGED <<task_count, Blocked>>
  BY <1>6 DEF Blocked
<1>7. ASSUME NEW t \in Threads,
             Release(t) \/ SetStarted(t) \/ Closed(t) \/ DetachFails(t)
      PROVE  UNCHANGED <<task_count, Blocked>>
  BY <1>5, <1>7 DEF Release, SetStarted, Closed, DetachFails, At, group
<1>8. ASSUME NEW t \in Threads, NEW w \in Workers,
             \/ Start(t, w)
             \/ \E l \in {"joining", "detaching"} : JoinOrDetach(t, w, l)
      PROVE  UNCHANGED <<task_count, Blocked>>
  BY <1>5, <1>8 DEF Start, JoinOrDetach, Method, Call, At, group
<1>9. ASSUME NEW t \in Threads, NEW w \in Workers,
             StartFails(t, w) \/ Refused(t, w) \/ Destruct(t, w)
      PROVE  UNCHANGED <<task_count, Blocked>>
  BY <1>6, <1>9 DEF StartFails, Refused, Destruct, group, vars
<1>10. ASSUME NEW w \in Workers, WorkerEnds(w)
       PROVE  UNCHANGED <<task_count, Blocked>>
  BY <1>6, <1>10 DEF WorkerEnds, group
<1>11. ASSUME NEW t \in Threads, WaitPasses(t)
       PROVE  UNCHANGED <<task_count, Blocked>>
  BY <1>6, <1>11 DEF WaitPasses, group
<1>12. CASE UNCHANGED vars
  BY <1>6, <1>12 DEF vars, group
<1> QED
  BY <1>1, <1>2, <1>3, <1>4, <1>7, <1>8, <1>9, <1>10, <1>11, <1>12
     DEF Next, Begins, Proceeds

\* wait waits for an instant at which the count is 0, in every behaviour: the
\* mutex, the semaphore and the spurious sleeps do not show.
THEOREM IsALatch == Spec => ImplementsLatch
<1>1. Init => L!Init
  BY DEF Init, L!Init, Blocked
<1> QED
  BY <1>1, LatchStep, TypeCorrect, PTL DEF Spec, ImplementsLatch, L!Spec
=============================================================================
