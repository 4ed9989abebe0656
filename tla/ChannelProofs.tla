--------------------------- MODULE ChannelProofs ---------------------------
(* Theorems about Channel, for every number of threads, capacity and bound. *)
EXTENDS Channel, FiniteSetTheorems, FunctionTheorems, SequenceTheorems, TLAPS

-----------------------------------------------------------------------------
\* The inductive invariant

\* The mutex is held exactly between mtx_lock and mtx_unlock.
LockInv == \A t \in Threads : mtx = t <=> pc[t] \in {"check", "commit"}

\* The program counter agrees with the call in progress.
CallInv ==
    \A t \in Threads :
        /\ pc[t] = "idle" <=> op[t] = "none"
        /\ pc[t] = "read" <=> op[t] = "isClosed"
        /\ op[t] \in PushOps => arg[t] \in Values
        /\ pc[t] = "wait" => op[t] \in {"push", "pop"}

SleepInv ==
    /\ \A t \in notFull  : pc[t] = "wait" /\ op[t] = "push"
    /\ \A t \in notEmpty : pc[t] = "wait" /\ op[t] = "pop"

\* What the test under the lock found still holds at the update.
CommitInv ==
    \A t \in Threads : pc[t] = "commit" =>
        \/ op[t] \in PushOps /\ ~isClosed /\ count < Capacity
        \/ op[t] \in PopOps /\ count > 0

\* Nobody sleeps on a closed channel.
ClosedInv == isClosed => notFull = {} /\ notEmpty = {}

ControlInv == LockInv /\ CallInv /\ SleepInv /\ CommitInv /\ ClosedInv

IInv == TypeOK /\ ControlInv /\ NoLostWakeup

-----------------------------------------------------------------------------
\* Facts about the constants and the helpers

\* The constructor leaves room for at least one element.
LEMMA CapacityType == Capacity \in Nat /\ Capacity > 0
BY CapacityAssumption DEF Capacity

\* Advancing a slot index stays in the buffer.
LEMMA AdvanceType == \A i \in Slots : Advance(i) \in Slots
BY CapacityType DEF Slots, Advance

\* cnd_signal wakes one sleeping thread, if there is one.
LEMMA SignalType ==
    ASSUME NEW S, NEW R \in SignalOne(S)
    PROVE  /\ R \subseteq S
           /\ S # {} => \E w \in S : R = S \ {w}
           /\ S = {} => R = {}
BY DEF SignalOne

\* The destructor releases each value a finite number of times.
LEMMA RemainingFinite ==
    TypeOK => \A v : ReleasedOf(v) \in Nat
<1> SUFFICES ASSUME TypeOK, NEW v
             PROVE  ReleasedOf(v) \in Nat
  OBVIOUS
<1> DEFINE R == {i \in Remaining : ring[i] = v}
<1>1. IsFiniteSet(Slots)
  BY CapacityType, FS_Interval DEF Slots
<1>2. R \subseteq Slots
  BY CapacityType DEF TypeOK, Remaining, Slots
<1>3. IsFiniteSet(R)
  BY <1>1, <1>2, FS_Subset
<1> QED
  BY <1>3, FS_CardinalityType DEF ReleasedOf

-----------------------------------------------------------------------------
\* Type correctness

\* Every pair of an outcome and a value is a result.
LEMMA ResultType ==
    \A o \in Outcomes, v \in Values \cup {NullValue} \cup 0 .. Capacity :
        [outcome |-> o, val |-> v] \in Results
BY DEF Results

\* So is the result of a call that has not returned.
LEMMA NoResultType == NoResult \in Results
BY ResultType DEF NoResult, Outcomes

\* Returning keeps the types of the fields that Return writes.
LEMMA ReturnType ==
    ASSUME TypeOK, NEW t \in Threads, NEW o \in Outcomes,
           NEW v \in Values \cup {NullValue} \cup 0 .. Capacity, Return(t, o, v)
    PROVE  /\ mtx' \in Threads \cup {NoThread} /\ alive' \in BOOLEAN
           /\ pc' \in [Threads -> PCs] /\ op' \in [Threads -> Methods \cup {"none"}]
           /\ arg' \in [Threads -> Values \cup {NullValue}]
           /\ ret' \in [Threads -> Results]
           /\ spins' \in [Threads -> 0 .. SpinRounds]
           /\ budget' \in [Threads -> 0 .. Budget]
           /\ spurious' \in 0 .. MaxSpurious
BY ResultType, BoundsAssumption DEF TypeOK, Return, PCs

\* A new channel, and threads outside of every call, are well typed.
LEMMA TypeInit == Init => TypeOK
<1> SUFFICES ASSUME Init PROVE TypeOK
  OBVIOUS
<1>1. ret \in [Threads -> Results]
  BY NoResultType DEF Init
<1>2. /\ head \in Slots /\ tail \in Slots /\ count \in 0 .. Capacity
      /\ ring \in [Slots -> Values \cup {NullValue}]
  BY CapacityType DEF Init, Slots
<1>3. /\ spins \in [Threads -> 0 .. SpinRounds] /\ budget \in [Threads -> 0 .. Budget]
      /\ spurious \in 0 .. MaxSpurious
  BY BoundsAssumption DEF Init
<1>4. /\ pc \in [Threads -> PCs] /\ op \in [Threads -> Methods \cup {"none"}]
      /\ arg \in [Threads -> Values \cup {NullValue}] /\ refs \in [Values -> Int]
  BY DEF Init, PCs
<1>5. /\ isClosed \in BOOLEAN /\ alive \in BOOLEAN /\ mtx \in Threads \cup {NoThread}
      /\ notFull \in SUBSET Threads /\ notEmpty \in SUBSET Threads
  BY DEF Init
<1> QED
  BY <1>1, <1>2, <1>3, <1>4, <1>5 DEF TypeOK

\* Each step keeps the types; PushStores and PopTakes need CommitInv to keep
\* count in range.
LEMMA TypeStep == TypeOK /\ ControlInv /\ [Next]_vars => TypeOK'
<1> SUFFICES ASSUME TypeOK, ControlInv, [Next]_vars
             PROVE  TypeOK'
  OBVIOUS
<1> USE DEF state, calls
<1>1. ASSUME NEW t \in Threads, NEW m \in Methods, NEW v \in Values \cup {NullValue},
             Invoke(t, m, v)
      PROVE  TypeOK'
  BY <1>1, NoResultType, BoundsAssumption DEF TypeOK, Invoke, PCs
<1>2. ASSUME NEW t \in Threads, WakeSpuriously(t)
      PROVE  TypeOK'
  BY <1>2, BoundsAssumption DEF TypeOK, WakeSpuriously
<1>3. ASSUME NEW t \in Threads, Lock(t)
      PROVE  TypeOK'
  BY <1>3 DEF TypeOK, Lock, PCs
<1>4. ASSUME NEW t \in Threads, PushThrows(t) \/ TryPushRefuses(t) \/ PopReturnsNull(t)
                                 \/ Length(t)
      PROVE  TypeOK'
  <2>1. \E o \in Outcomes, v \in Values \cup {NullValue} \cup 0 .. Capacity :
            Return(t, o, v)
    BY <1>4 DEF TypeOK, PushThrows, TryPushRefuses, PopReturnsNull, Length, Outcomes
  <2>2. UNCHANGED <<state, notFull, notEmpty>>
    BY <1>4 DEF PushThrows, TryPushRefuses, PopReturnsNull, Length
  <2> QED
    BY <2>1, <2>2, ReturnType DEF TypeOK
<1>5. ASSUME NEW t \in Threads, PushFindsRoom(t) \/ PopFindsItem(t)
      PROVE  TypeOK'
  BY <1>5 DEF TypeOK, PushFindsRoom, PopFindsItem, Proceed, PCs
<1>6. ASSUME NEW t \in Threads, PushSpins(t) \/ PopSpins(t)
      PROVE  TypeOK'
  BY <1>6, BoundsAssumption DEF TypeOK, PushSpins, PopSpins, Spin, PCs
<1>7. ASSUME NEW t \in Threads, PushSleeps(t) \/ PopSleeps(t)
      PROVE  TypeOK'
  BY <1>7 DEF TypeOK, PushSleeps, PopSleeps, Sleep, PCs
<1>8. ASSUME NEW t \in Threads, PushStores(t)
      PROVE  TypeOK'
  <2>1. arg[t] \in Values /\ count < Capacity
    BY <1>8 DEF TypeOK, ControlInv, CallInv, CommitInv, PushStores, PushOps, PopOps
  <2>2. tail' \in Slots /\ count' \in 0 .. Capacity
    BY <1>8, <2>1, AdvanceType, CapacityType DEF TypeOK, PushStores
  <2>3. notEmpty' \in SUBSET Threads
    BY <1>8, SignalType DEF TypeOK, PushStores
  <2>4. ring' \in [Slots -> Values \cup {NullValue}] /\ refs' \in [Values -> Int]
    BY <1>8, <2>1 DEF TypeOK, PushStores
  <2>5. "done" \in Outcomes /\ Return(t, "done", NullValue)
    BY <1>8 DEF PushStores, Outcomes
  <2> QED
    BY <1>8, <2>2, <2>3, <2>4, <2>5, ReturnType DEF TypeOK, PushStores
<1>9. ASSUME NEW t \in Threads, PopTakes(t)
      PROVE  TypeOK'
  <2>1. count > 0
    BY <1>9 DEF TypeOK, ControlInv, CallInv, CommitInv, PopTakes, PushOps, PopOps
  <2>2. head' \in Slots /\ count' \in 0 .. Capacity
    BY <1>9, <2>1, AdvanceType, CapacityType DEF TypeOK, PopTakes
  <2>3. notFull' \in SUBSET Threads
    BY <1>9, SignalType DEF TypeOK, PopTakes
  <2>4. ring[head] \in Values \cup {NullValue}
    BY DEF TypeOK
  <2>5. refs' \in [Values -> Int]
    <3>1. CASE ring[head] \in Values
      BY <1>9, <3>1 DEF TypeOK, PopTakes
    <3>2. CASE ring[head] \notin Values
      BY <1>9, <3>2 DEF TypeOK, PopTakes
    <3> QED
      BY <3>1, <3>2
  <2>6. "value" \in Outcomes /\ Return(t, "value", ring[head])
    BY <1>9 DEF PopTakes, Outcomes
  <2> QED
    BY <1>9, <2>2, <2>3, <2>4, <2>5, <2>6, ReturnType DEF TypeOK, PopTakes
<1>10. ASSUME NEW t \in Threads, Close(t)
       PROVE  TypeOK'
  <2>1. "done" \in Outcomes /\ Return(t, "done", NullValue)
    BY <1>10 DEF Close, Outcomes
  <2> QED
    BY <1>10, <2>1, ReturnType DEF TypeOK, Close, Broadcast
<1>11. ASSUME NEW t \in Threads, IsClosed(t)
       PROVE  TypeOK'
  BY <1>11, ResultType DEF TypeOK, IsClosed, PCs, Outcomes
<1>12. ASSUME Destruct
       PROVE  TypeOK'
  <2>1. refs' \in [Values -> Int]
    <3>1. \A v \in Values : refs[v] - ReleasedOf(v) \in Int
      BY RemainingFinite DEF TypeOK
    <3> QED
      BY <1>12, <3>1 DEF Destruct
  <2> QED
    BY <1>12, <2>1 DEF TypeOK, Destruct
<1>13. ASSUME UNCHANGED vars
       PROVE  TypeOK'
  BY <1>13 DEF TypeOK, vars, Slots
<1> QED
  BY <1>1, <1>2, <1>3, <1>4, <1>5, <1>6, <1>7, <1>8, <1>9, <1>10, <1>11, <1>12, <1>13
     DEF Next, Step

-----------------------------------------------------------------------------
\* Control: the mutex, the wait sets and the tests made under the lock

\* Nobody holds the mutex or sleeps at first.
LEMMA ControlInit == Init => ControlInv
BY ThreadsAssumption
   DEF Init, ControlInv, LockInv, CallInv, SleepInv, CommitInv, ClosedInv, PushOps

\* Each step keeps what holds of the mutex, the wait sets and the tests that
\* were made under the lock.
LEMMA ControlStep == TypeOK /\ ControlInv /\ [Next]_vars => ControlInv'
<1> SUFFICES ASSUME TypeOK, ControlInv, [Next]_vars
             PROVE  ControlInv'
  OBVIOUS
<1> USE ThreadsAssumption
        DEF state, calls, ControlInv, LockInv, CallInv, SleepInv, CommitInv, ClosedInv,
            Checks, PushOps, PopOps, Methods, TypeOK
<1>1. ASSUME NEW t \in Threads, NEW m \in Methods, NEW v \in Values \cup {NullValue},
             Invoke(t, m, v)
      PROVE  ControlInv'
  BY <1>1 DEF Invoke
<1>2. ASSUME NEW t \in Threads, WakeSpuriously(t)
      PROVE  ControlInv'
  BY <1>2 DEF WakeSpuriously
<1>3. ASSUME NEW t \in Threads, Lock(t)
      PROVE  ControlInv'
  BY <1>3 DEF Lock, Asleep
<1>4. ASSUME NEW t \in Threads, PushThrows(t) \/ TryPushRefuses(t) \/ PopReturnsNull(t)
                                 \/ Length(t)
      PROVE  ControlInv'
  BY <1>4 DEF PushThrows, TryPushRefuses, PopReturnsNull, Length, Return
<1>5. ASSUME NEW t \in Threads, PushFindsRoom(t) \/ PopFindsItem(t)
      PROVE  ControlInv'
  BY <1>5 DEF PushFindsRoom, PopFindsItem, HasRoom, Proceed
<1>6. ASSUME NEW t \in Threads, PushSpins(t) \/ PopSpins(t)
      PROVE  ControlInv'
  BY <1>6 DEF PushSpins, PopSpins, Spin
<1>7. ASSUME NEW t \in Threads, PushSleeps(t) \/ PopSleeps(t)
      PROVE  ControlInv'
  BY <1>7 DEF PushSleeps, PopSleeps, Sleep
<1>8. ASSUME NEW t \in Threads, PushStores(t)
      PROVE  ControlInv'
  BY <1>8, SignalType DEF PushStores, Return
<1>9. ASSUME NEW t \in Threads, PopTakes(t)
      PROVE  ControlInv'
  BY <1>9, SignalType DEF PopTakes, Return
<1>10. ASSUME NEW t \in Threads, Close(t)
       PROVE  ControlInv'
  BY <1>10 DEF Close, Broadcast, Return
<1>11. ASSUME NEW t \in Threads, IsClosed(t)
       PROVE  ControlInv'
  BY <1>11 DEF IsClosed
<1>12. ASSUME Destruct
       PROVE  ControlInv'
  BY <1>12 DEF Destruct
<1>13. ASSUME UNCHANGED vars
       PROVE  ControlInv'
  BY <1>13 DEF vars
<1> QED
  BY <1>1, <1>2, <1>3, <1>4, <1>5, <1>6, <1>7, <1>8, <1>9, <1>10, <1>11, <1>12, <1>13
     DEF Next, Step

-----------------------------------------------------------------------------
\* No lost wake-up, by counting the blocking calls that are awake

\* Counting facts about sets of threads.
LEMMA CountMonotone ==
    ASSUME NEW A, NEW B, A \subseteq B, B \subseteq Threads
    PROVE  /\ Cardinality(A) \in Nat /\ Cardinality(B) \in Nat
           /\ Cardinality(A) <= Cardinality(B)
<1>1. IsFiniteSet(B) /\ IsFiniteSet(A)
  BY ThreadsAssumption, FS_Subset
<1> QED
  BY <1>1, FS_Subset, FS_CardinalityType

\* One more thread adds one.
LEMMA CountAdd ==
    ASSUME NEW A, A \subseteq Threads, NEW x \in Threads, x \notin A
    PROVE  /\ Cardinality(A) \in Nat
           /\ Cardinality(A \cup {x}) = Cardinality(A) + 1
BY ThreadsAssumption, FS_Subset, FS_AddElement, FS_CardinalityType

\* One thread less takes away at most one.
LEMMA CountRemove ==
    ASSUME NEW A, A \subseteq Threads, NEW x
    PROVE  /\ Cardinality(A) \in Nat /\ Cardinality(A \ {x}) \in Nat
           /\ Cardinality(A \ {x}) >= Cardinality(A) - 1
BY ThreadsAssumption, FS_Subset, FS_RemoveElement, FS_CardinalityType

\* A step that puts nobody to sleep, takes no awake call away and leaves the
\* buffer alone.
LEMMA WakeupHarmless ==
    ASSUME TypeOK, NoLostWakeup,
           notFull' \subseteq notFull, notEmpty' \subseteq notEmpty, count' = count,
           Awake("push", notFull) \subseteq Awake("push", notFull)',
           Awake("pop", notEmpty) \subseteq Awake("pop", notEmpty)'
    PROVE  NoLostWakeup'
<1> DEFINE P == Awake("push", notFull)
           Q == Awake("pop", notEmpty)
<1>1. P' \subseteq Threads /\ Q' \subseteq Threads
  BY DEF Awake
<1>2. /\ Cardinality(P) \in Nat /\ Cardinality(P') \in Nat
      /\ Cardinality(P) <= Cardinality(P')
  BY <1>1, CountMonotone
<1>3. /\ Cardinality(Q) \in Nat /\ Cardinality(Q') \in Nat
      /\ Cardinality(Q) <= Cardinality(Q')
  BY <1>1, CountMonotone
<1>4. count \in Int /\ Capacity \in Int /\ Capacity' = Capacity
  BY CapacityType DEF TypeOK, Capacity
<1>5. notFull' # {} => Capacity' - count' <= Cardinality(P')
  BY <1>2, <1>4 DEF NoLostWakeup
<1>6. notEmpty' # {} => count' <= Cardinality(Q')
  BY <1>3, <1>4 DEF NoLostWakeup
<1> QED
  BY <1>5, <1>6 DEF NoLostWakeup

\* Each step keeps a call awake for every slot or element that others sleep for.
LEMMA WakeupStep == TypeOK /\ ControlInv /\ NoLostWakeup /\ [Next]_vars => NoLostWakeup'
<1> SUFFICES ASSUME TypeOK, ControlInv, NoLostWakeup, [Next]_vars
             PROVE  NoLostWakeup'
  OBVIOUS
<1> DEFINE P == Awake("push", notFull)
           Q == Awake("pop", notEmpty)
<1> USE DEF state, calls, Checks, PushOps, PopOps
<1>a. /\ count \in Int /\ Capacity \in Int /\ Capacity' = Capacity
      /\ P \subseteq Threads /\ Q \subseteq Threads
      /\ P' \subseteq Threads /\ Q' \subseteq Threads
  BY CapacityType DEF TypeOK, Capacity, Awake
<1>b. /\ Cardinality(P) \in Nat /\ Cardinality(Q) \in Nat
      /\ Cardinality(P') \in Nat /\ Cardinality(Q') \in Nat
  BY <1>a, CountMonotone
<1>c. CASE isClosed'
  \* nobody sleeps on a closed channel
  <2>1. notFull' = {} /\ notEmpty' = {}
    BY <1>c, ControlStep DEF ControlInv, ClosedInv
  <2> QED
    BY <2>1 DEF NoLostWakeup
<1>d. CASE ~isClosed'
  <2>1. ASSUME NEW t \in Threads, NEW m \in Methods, NEW v \in Values \cup {NullValue},
               Invoke(t, m, v)
        PROVE  NoLostWakeup'
    BY <2>1, WakeupHarmless DEF Invoke, Awake, TypeOK, ControlInv, CallInv
  <2>2. ASSUME NEW t \in Threads, WakeSpuriously(t)
        PROVE  NoLostWakeup'
    BY <2>2, WakeupHarmless DEF WakeSpuriously, Awake
  <2>3. ASSUME NEW t \in Threads,
               \/ Lock(t) \/ PushFindsRoom(t) \/ PopFindsItem(t) \/ PushSpins(t) \/ PopSpins(t)
        PROVE  NoLostWakeup'
    <3>1. UNCHANGED <<op, notFull, notEmpty, count>>
      BY <2>3 DEF Lock, PushFindsRoom, PopFindsItem, PushSpins, PopSpins, Proceed, Spin
    <3> QED
      BY <3>1, WakeupHarmless DEF Awake
  <2>4. ASSUME NEW t \in Threads,
               PushThrows(t) \/ TryPushRefuses(t) \/ PopReturnsNull(t) \/ Length(t)
        PROVE  NoLostWakeup'
    \* push and pop do not leave this way while the channel is open
    <3>1. op[t] \notin {"push", "pop"}
      BY <2>4, <1>d DEF PushThrows, TryPushRefuses, PopReturnsNull, Length
    <3>2. /\ UNCHANGED <<notFull, notEmpty, count>>
          /\ op' = [op EXCEPT ![t] = "none"]
      BY <2>4 DEF PushThrows, TryPushRefuses, PopReturnsNull, Length, Return
    <3> QED
      BY <3>1, <3>2, WakeupHarmless DEF Awake, TypeOK
  <2>5. ASSUME NEW t \in Threads, PushSleeps(t)
        PROVE  NoLostWakeup'
    <3>1. count' = count /\ Capacity - count <= 0
      BY <2>5, <1>a DEF PushSleeps, Sleep, HasRoom, TypeOK
    <3>2. Q' = Q /\ notEmpty' = notEmpty
      BY <2>5 DEF PushSleeps, Sleep, Awake
    <3> QED
      BY <3>1, <3>2, <1>a, <1>b DEF NoLostWakeup
  <2>6. ASSUME NEW t \in Threads, PopSleeps(t)
        PROVE  NoLostWakeup'
    <3>1. count' = count /\ count = 0
      BY <2>6 DEF PopSleeps, Sleep
    <3>2. P' = P /\ notFull' = notFull
      BY <2>6 DEF PopSleeps, Sleep, Awake
    <3> QED
      BY <3>1, <3>2, <1>a, <1>b DEF NoLostWakeup
  <2>7. ASSUME NEW t \in Threads, PushStores(t)
        PROVE  NoLostWakeup'
    <3>1. /\ count' = count + 1 /\ notFull' = notFull
          /\ notEmpty' \in SignalOne(notEmpty)
          /\ op' = [op EXCEPT ![t] = "none"] /\ op[t] \in {"push", "tryPush"}
      BY <2>7 DEF PushStores, Return
    <3>2. P' = P \ {t}
      BY <3>1 DEF Awake, TypeOK
    <3>3. notFull' # {} => Capacity' - count' <= Cardinality(P')
      <4>1. Cardinality(P') >= Cardinality(P) - 1
        BY <3>2, <1>a, CountRemove
      <4> QED
        BY <3>1, <4>1, <1>a, <1>b DEF NoLostWakeup
    <3>4. ASSUME notEmpty' # {}
          PROVE  count' <= Cardinality(Q')
      <4>1. PICK w \in notEmpty : notEmpty' = notEmpty \ {w}
        BY <3>1, <3>4, SignalType
      <4>2. w \in Threads /\ w \notin Q /\ op[w] = "pop"
        BY <4>1 DEF TypeOK, ControlInv, SleepInv, Awake
      <4>3. Q' = Q \cup {w}
        BY <3>1, <4>1, <4>2 DEF Awake, TypeOK
      <4>4. Cardinality(Q') = Cardinality(Q) + 1
        BY <4>2, <4>3, <1>a, CountAdd
      <4>5. count <= Cardinality(Q)
        BY <4>1 DEF NoLostWakeup
      <4> QED
        BY <3>1, <4>4, <4>5, <1>a, <1>b
    <3> QED
      BY <3>3, <3>4 DEF NoLostWakeup
  <2>8. ASSUME NEW t \in Threads, PopTakes(t)
        PROVE  NoLostWakeup'
    <3>1. /\ count' = count - 1 /\ notEmpty' = notEmpty
          /\ notFull' \in SignalOne(notFull)
          /\ op' = [op EXCEPT ![t] = "none"] /\ op[t] \in {"pop", "tryPop"}
      BY <2>8 DEF PopTakes, Return
    <3>2. Q' = Q \ {t}
      BY <3>1 DEF Awake, TypeOK
    <3>3. notEmpty' # {} => count' <= Cardinality(Q')
      <4>1. Cardinality(Q') >= Cardinality(Q) - 1
        BY <3>2, <1>a, CountRemove
      <4> QED
        BY <3>1, <4>1, <1>a, <1>b DEF NoLostWakeup
    <3>4. ASSUME notFull' # {}
          PROVE  Capacity' - count' <= Cardinality(P')
      <4>1. PICK w \in notFull : notFull' = notFull \ {w}
        BY <3>1, <3>4, SignalType
      <4>2. w \in Threads /\ w \notin P /\ op[w] = "push"
        BY <4>1 DEF TypeOK, ControlInv, SleepInv, Awake
      <4>3. P' = P \cup {w}
        BY <3>1, <4>1, <4>2 DEF Awake, TypeOK
      <4>4. Cardinality(P') = Cardinality(P) + 1
        BY <4>2, <4>3, <1>a, CountAdd
      <4>5. Capacity - count <= Cardinality(P)
        BY <4>1 DEF NoLostWakeup
      <4> QED
        BY <3>1, <4>4, <4>5, <1>a, <1>b
    <3> QED
      BY <3>3, <3>4 DEF NoLostWakeup
  <2>9. ASSUME NEW t \in Threads, Close(t)
        PROVE  NoLostWakeup'
    BY <2>9, <1>d DEF Close
  <2>10. ASSUME NEW t \in Threads, IsClosed(t)
         PROVE  NoLostWakeup'
    <3>1. op[t] = "isClosed"
      BY <2>10 DEF IsClosed, ControlInv, CallInv
    <3>2. UNCHANGED <<notFull, notEmpty, count>> /\ op' = [op EXCEPT ![t] = "none"]
      BY <2>10 DEF IsClosed
    <3> QED
      BY <3>1, <3>2, WakeupHarmless DEF Awake, TypeOK
  <2>11. ASSUME Destruct \/ UNCHANGED vars
         PROVE  NoLostWakeup'
    <3>1. UNCHANGED <<op, notFull, notEmpty, count>>
      BY <2>11 DEF Destruct, vars
    <3> QED
      BY <3>1, WakeupHarmless DEF Awake
  <2> QED
    BY <2>1, <2>2, <2>3, <2>4, <2>5, <2>6, <2>7, <2>8, <2>9, <2>10, <2>11 DEF Next, Step
<1> QED
  BY <1>c, <1>d

-----------------------------------------------------------------------------
\* The theorems

\* The conjunction is inductive.
LEMMA Invariance == Spec => []IInv
<1>1. Init => IInv
  BY TypeInit, ControlInit DEF IInv, Init, NoLostWakeup
<1>2. IInv /\ [Next]_vars => IInv'
  BY TypeStep, ControlStep, WakeupStep DEF IInv
<1> QED
  BY <1>1, <1>2, PTL DEF Spec

\* Type correctness: in particular every ringbuf index of push, pop and the
\* destructor is inside the allocated buffer, for every capacity and any
\* number of threads.
THEOREM TypeCorrectness == Spec => []TypeOK
BY Invariance, PTL DEF IInv

\* No wake-up is lost: signalling one thread per push and per pop is enough,
\* whatever tryPush, tryPop, spinning threads and spurious wake-ups do.
THEOREM WakeupsNotLost == Spec => []NoLostWakeup
BY Invariance, PTL DEF IInv

\* The critical sections exclude each other.
THEOREM MutualExclusion ==
    Spec => [](\A s, t \in Threads :
                  pc[s] \in {"check", "commit"} /\ pc[t] \in {"check", "commit"} => s = t)
<1>1. IInv => \A s, t \in Threads :
                  pc[s] \in {"check", "commit"} /\ pc[t] \in {"check", "commit"} => s = t
  BY DEF IInv, ControlInv, LockInv
<1> QED
  BY <1>1, Invariance, PTL

-----------------------------------------------------------------------------
\* The elements in the ring, and the references to them

\* The slot of the element at position i of the contents.
At(i) == (head + i - 1) % Capacity

\* tail follows the last element, and every element was pushed; once the
\* channel is destructed no call is in progress; only a push has an argument.
BufferInv ==
    /\ tail = (head + count) % Capacity
    /\ \A i \in 1 .. count : ring[At(i)] \in Values
    /\ ~alive => \A t \in Threads : pc[t] = "idle"
    /\ \A t \in Threads : op[t] \notin PushOps => arg[t] = NullValue

QInv == IInv /\ BufferInv /\ ReferencesBalanced

\* Positions of the elements equal to v in a sequence of n elements.
Positions(f, n, v) == {i \in 1 .. n : f[i] = v}

\* The remainder of a number that goes round at most once.
LEMMA WrapOnce ==
    ASSUME NEW n \in Nat, NEW k \in Nat, k < 2 * n
    PROVE  k % n = IF k < n THEN k ELSE k - n
OBVIOUS

\* Each position of the contents has a slot of its own.
LEMMA SlotsDiffer ==
    ASSUME TypeOK, NEW i \in 1 .. Capacity
    PROVE  /\ At(i) \in Slots
           /\ \A j \in 1 .. Capacity : At(i) = At(j) => i = j
<1>1. Capacity \in Nat /\ head \in 0 .. Capacity - 1
  BY CapacityType DEF TypeOK, Slots
<1>2. ASSUME NEW j \in 1 .. Capacity
      PROVE  /\ head + j - 1 < Capacity => At(j) = head + j - 1
             /\ head + j - 1 >= Capacity => At(j) = head + j - 1 - Capacity
  <2>1. PICK k \in Nat : k = head + j - 1 /\ k < 2 * Capacity
    BY <1>1
  <2>2. At(j) = k % Capacity
    BY <2>1 DEF At
  <2>3. k % Capacity = IF k < Capacity THEN k ELSE k - Capacity
    BY <1>1, <2>1, WrapOnce
  <2> QED
    BY <1>1, <2>1, <2>2, <2>3
<1> QED
  BY <1>1, <1>2 DEF Slots

\* The contents are a sequence of values.
LEMMA ContentsType ==
    ASSUME TypeOK, BufferInv
    PROVE  /\ Contents \in Seq(Values) /\ Len(Contents) = count
           /\ DOMAIN Contents = 1 .. count
           /\ \A i \in 1 .. count : Contents[i] = ring[At(i)]
<1>1. count \in Nat
  BY CapacityType DEF TypeOK
<1>2. Contents \in [1 .. count -> Values]
  BY DEF Contents, BufferInv, At
<1>3. Contents \in Seq(Values)
  BY <1>1, <1>2, SeqDef
<1>4. DOMAIN Contents = 1 .. count /\ Len(Contents) = count
  BY <1>1, <1>2, <1>3, LenProperties
<1> QED
  BY <1>3, <1>4 DEF Contents, At

\* Positions are finitely many, and one more element adds one position or none.
LEMMA CountPositions ==
    ASSUME NEW f, NEW g, NEW n \in Nat, NEW v, \A i \in 1 .. n : g[i] = f[i]
    PROVE  /\ IsFiniteSet(Positions(f, n, v)) /\ Cardinality(Positions(f, n, v)) \in Nat
           /\ Cardinality(Positions(g, n + 1, v)) =
                 Cardinality(Positions(f, n, v)) + (IF g[n + 1] = v THEN 1 ELSE 0)
<1>1. IsFiniteSet(1 .. n)
  BY FS_Interval
<1>2. IsFiniteSet(Positions(f, n, v))
  BY <1>1, FS_Subset DEF Positions
<1>3. Cardinality(Positions(f, n, v)) \in Nat
  BY <1>2, FS_CardinalityType
<1>4. CASE g[n + 1] = v
  <2>1. /\ Positions(g, n + 1, v) = Positions(f, n, v) \cup {n + 1}
        /\ n + 1 \notin Positions(f, n, v)
    BY <1>4 DEF Positions
  <2>2. Cardinality(Positions(f, n, v) \cup {n + 1}) = Cardinality(Positions(f, n, v)) + 1
    BY <1>2, <2>1, FS_AddElement
  <2> QED
    BY <1>2, <1>3, <1>4, <2>1, <2>2
<1>5. CASE g[n + 1] # v
  <2>1. Positions(g, n + 1, v) = Positions(f, n, v)
    BY <1>5 DEF Positions
  <2> QED
    BY <1>2, <1>3, <1>5, <2>1
<1> QED
  BY <1>4, <1>5

\* Appending an element adds its position.
LEMMA CountAppended ==
    ASSUME NEW S, NEW s \in Seq(S), NEW a \in S, NEW v
    PROVE  Cardinality(Positions(Append(s, a), Len(s) + 1, v)) =
              Cardinality(Positions(s, Len(s), v)) + (IF a = v THEN 1 ELSE 0)
<1> DEFINE n == Len(s)
           g == Append(s, a)
<1>1. n \in Nat
  BY LenProperties
<1>2. (\A i \in 1 .. n : g[i] = s[i]) /\ g[n + 1] = a
  BY AppendProperties
<1> HIDE DEF n, g
<1>3. Cardinality(Positions(g, n + 1, v)) =
         Cardinality(Positions(s, n, v)) + (IF g[n + 1] = v THEN 1 ELSE 0)
  BY <1>1, <1>2, CountPositions
<1> QED
  BY <1>2, <1>3 DEF n, g

\* Taking the first element away takes its position away and moves the others.
LEMMA CountTail ==
    ASSUME NEW f, NEW g, NEW n \in Nat, NEW v, \A i \in 1 .. n : g[i] = f[i + 1]
    PROVE  Cardinality(Positions(f, n + 1, v)) =
              Cardinality(Positions(g, n, v)) + (IF f[1] = v THEN 1 ELSE 0)
<1> DEFINE S == Positions(g, n, v)
           T == Positions(f, n + 1, v) \ {1}
           F == [i \in S |-> i + 1]
<1>1. IsFiniteSet(S) /\ Cardinality(S) \in Nat
  BY CountPositions
<1>2. F \in Bijection(S, T)
  <2>1. F \in [S -> T]
    BY DEF Positions
  <2>2. \A a, b \in S : F[a] = F[b] => a = b
    BY DEF Positions
  <2>3. \A y \in T : \E x \in S : F[x] = y
    <3>1. ASSUME NEW y \in T
          PROVE  y - 1 \in S /\ F[y - 1] = y
      <4>1. y \in 2 .. n + 1 /\ f[y] = v
        BY DEF Positions
      <4>2. y - 1 \in 1 .. n /\ g[y - 1] = f[(y - 1) + 1] /\ (y - 1) + 1 = y
        BY <4>1
      <4> QED
        BY <4>1, <4>2 DEF Positions
    <3> QED
      BY <3>1
  <2> HIDE DEF S, T, F
  <2> QED
    BY <2>1, <2>2, <2>3 DEF Bijection, Injection, Surjection, IsInjective
<1>3. IsFiniteSet(T) /\ Cardinality(T) = Cardinality(S)
  BY <1>1, <1>2, FS_Bijection DEF ExistsBijection
<1>4. CASE f[1] = v
  <2>1. Positions(f, n + 1, v) = T \cup {1} /\ 1 \notin T
    BY <1>4 DEF Positions
  <2>2. Cardinality(T \cup {1}) = Cardinality(T) + 1
    BY <1>3, <2>1, FS_AddElement
  <2> QED
    BY <1>3, <1>4, <2>1, <2>2
<1>5. CASE f[1] # v
  <2>1. Positions(f, n + 1, v) = T
    BY <1>5 DEF Positions
  <2> QED
    BY <1>1, <1>3, <1>5, <2>1
<1> QED
  BY <1>4, <1>5

\* A push appends to the contents.
LEMMA StoreAppends ==
    ASSUME TypeOK, ControlInv, BufferInv, NEW t \in Threads, PushStores(t)
    PROVE  /\ arg[t] \in Values /\ count < Capacity /\ ~isClosed
           /\ count' = count + 1 /\ tail' = (head' + count') % Capacity
           /\ Contents' = Append(Contents, arg[t])
           /\ \A i \in 1 .. count' : ring'[At(i)'] \in Values
<1>1. arg[t] \in Values /\ count < Capacity /\ ~isClosed
  BY DEF TypeOK, ControlInv, CallInv, CommitInv, PushStores, PushOps, PopOps
<1>2. /\ count \in Nat /\ Capacity \in Nat /\ head \in 0 .. Capacity - 1 /\ Capacity > 0
      /\ count' = count + 1 /\ head' = head /\ tail' = (tail + 1) % Capacity
      /\ ring' = [ring EXCEPT ![tail] = arg[t]] /\ tail = (head + count) % Capacity
  BY CapacityType DEF TypeOK, PushStores, Slots, Advance, BufferInv
<1>3. tail = At(count + 1)
  BY <1>2 DEF At
<1>4. \A i \in 1 .. count + 1 : At(i)' = At(i)
  BY <1>2 DEF At, Capacity
<1>5. /\ ring'[At(count + 1)] = arg[t]
      /\ \A i \in 1 .. count : ring'[At(i)] = ring[At(i)]
  <2>1. \A i \in 1 .. count + 1 : i \in 1 .. Capacity
    BY <1>1, <1>2
  <2>2. At(count + 1) \in Slots
    BY <1>2, <2>1, SlotsDiffer
  <2>3. \A i \in 1 .. count : At(i) # At(count + 1) /\ At(i) \in Slots
    BY <1>2, <2>1, SlotsDiffer
  <2> QED
    BY <1>2, <1>3, <2>2, <2>3 DEF TypeOK
<1>6. tail' = (head' + count') % Capacity
  <2>1. head + count \in Nat /\ head + count + 1 \in Nat
        /\ head + count < 2 * Capacity /\ head + count + 1 <= 2 * Capacity
    BY <1>1, <1>2
  <2>2. (((head + count) % Capacity) + 1) % Capacity = (head + count + 1) % Capacity
    BY <1>2, <2>1
  <2> QED
    BY <1>2, <2>2
<1>7. Contents' = Append(Contents, arg[t])
  <2> DEFINE C == [i \in 1 .. count + 1 |-> ring'[At(i)]]
  <2>1. Contents' = C
    BY <1>2, <1>4 DEF Contents, At
  <2>2. /\ Contents \in Seq(Values) /\ Len(Contents) = count
        /\ \A i \in 1 .. count : Contents[i] = ring[At(i)]
    BY ContentsType
  <2>3. /\ Append(Contents, arg[t]) \in Seq(Values)
        /\ Len(Append(Contents, arg[t])) = count + 1
        /\ \A i \in 1 .. count : Append(Contents, arg[t])[i] = Contents[i]
        /\ Append(Contents, arg[t])[count + 1] = arg[t]
    BY <1>1, <2>2, AppendProperties
  <2>4. \A i \in 1 .. count + 1 : C[i] = Append(Contents, arg[t])[i]
    BY <1>2, <1>5, <2>2, <2>3
  <2>5. Append(Contents, arg[t]) = [i \in 1 .. count + 1 |-> Append(Contents, arg[t])[i]]
    BY <2>3, LenProperties
  <2> HIDE DEF C
  <2>6. C = [i \in 1 .. count + 1 |-> C[i]]
    BY DEF C
  <2> QED
    BY <2>1, <2>4, <2>5, <2>6
<1>8. \A i \in 1 .. count' : ring'[At(i)'] \in Values
  BY <1>1, <1>2, <1>4, <1>5 DEF BufferInv
<1> QED
  BY <1>1, <1>2, <1>6, <1>7, <1>8

\* Advancing a slot shifts the slots after it.
LEMMA NextSlot ==
    ASSUME NEW n \in Nat, NEW h \in 0 .. n - 1, NEW k \in 0 .. n - 1
    PROVE  (((h + 1) % n) + k) % n = (h + 1 + k) % n
<1>1. CASE h + 1 < n
  <2>1. PICK m \in Nat : m = h + 1 /\ m < n /\ m < 2 * n
    BY <1>1
  <2>2. m % n = m
    BY <2>1, WrapOnce
  <2> QED
    BY <2>1, <2>2
<1>2. CASE h + 1 = n
  <2>1. (h + 1) % n = 0 /\ k % n = k
    BY <1>2, WrapOnce
  <2>2. PICK m \in Nat : m = h + 1 + k /\ m < 2 * n /\ m >= n /\ m - n = k
    BY <1>2
  <2>3. m % n = k
    BY <2>2, WrapOnce
  <2> QED
    BY <2>1, <2>2, <2>3
<1> QED
  BY <1>1, <1>2

\* A pop takes the first element of the contents.
LEMMA TakeRemoves ==
    ASSUME TypeOK, ControlInv, BufferInv, NEW t \in Threads, PopTakes(t)
    PROVE  /\ count > 0 /\ count' = count - 1 /\ tail' = (head' + count') % Capacity
           /\ ring[head] \in Values /\ ring[head] = Contents[1]
           /\ Contents # <<>> /\ ring[head] = Head(Contents)
           /\ Contents' = Tail(Contents)
           /\ \A i \in 1 .. count' : ring'[At(i)'] \in Values
<1>1. count > 0
  BY DEF TypeOK, ControlInv, CallInv, CommitInv, PopTakes, PushOps, PopOps
<1>2. /\ count \in 1 .. Capacity /\ Capacity \in Nat /\ head \in 0 .. Capacity - 1
      /\ count' = count - 1 /\ head' = (head + 1) % Capacity /\ tail' = tail
      /\ ring' = ring /\ tail = (head + count) % Capacity
  BY <1>1, CapacityType DEF TypeOK, PopTakes, Slots, Advance, BufferInv
<1>3. head = At(1)
  BY <1>2 DEF At
<1>4. ASSUME NEW i \in 1 .. count'
      PROVE  At(i)' = At(i + 1)
  <2>1. i - 1 \in 0 .. Capacity - 1 /\ i \in Nat
    BY <1>2
  <2>2. (((head + 1) % Capacity) + (i - 1)) % Capacity = (head + 1 + (i - 1)) % Capacity
    BY <1>2, <2>1, NextSlot
  <2>3. At(i)' = (((head + 1) % Capacity) + i - 1) % Capacity
    BY <1>2 DEF At, Capacity
  <2>4. At(i + 1) = (head + 1 + (i - 1)) % Capacity
    BY <1>2, <2>1 DEF At
  <2>5. ((head + 1) % Capacity) + i - 1 = ((head + 1) % Capacity) + (i - 1)
    BY <1>2, <2>1
  <2> QED
    BY <2>2, <2>3, <2>4, <2>5
<1>5. tail' = (head' + count') % Capacity
  <2>1. count - 1 \in 0 .. Capacity - 1
    BY <1>2
  <2>2. (((head + 1) % Capacity) + (count - 1)) % Capacity = (head + 1 + (count - 1)) % Capacity
    BY <1>2, <2>1, NextSlot
  <2>3. head + 1 + (count - 1) = head + count
    BY <1>2
  <2> QED
    BY <1>2, <2>2, <2>3
<1>6. /\ Contents \in Seq(Values) /\ Len(Contents) = count
      /\ \A i \in 1 .. count : Contents[i] = ring[At(i)]
      /\ \A i \in 1 .. count : ring[At(i)] \in Values
  BY ContentsType DEF BufferInv
<1>7. /\ ring[head] = Contents[1] /\ ring[head] \in Values
      /\ Contents # <<>> /\ Contents[1] = Head(Contents)
  BY <1>2, <1>3, <1>6
<1>8. Contents' = Tail(Contents)
  <2> DEFINE C == [i \in 1 .. count - 1 |-> ring[At(i + 1)]]
             T == Tail(Contents)
  <2>1. Contents' = [i \in 1 .. count' |-> ring'[At(i)']]
    BY DEF Contents, At
  <2>2. Contents' = C
    BY <1>2, <1>4, <2>1
  <2>3. /\ T \in Seq(Values) /\ Len(T) = count - 1
        /\ \A i \in 1 .. count - 1 : T[i] = Contents[i + 1]
    BY <1>2, <1>6, <1>7, HeadTailProperties
  <2>4. \A i \in 1 .. count - 1 : C[i] = T[i]
    BY <1>2, <1>6, <2>3
  <2>5. T = [i \in 1 .. count - 1 |-> T[i]]
    BY <2>3, LenProperties
  <2>6. C = [i \in 1 .. count - 1 |-> C[i]]
    OBVIOUS
  <2> HIDE DEF C, T
  <2>7. C = T
    BY <2>4, <2>5, <2>6
  <2> QED
    BY <2>2, <2>7 DEF T
<1>9. \A i \in 1 .. count' : ring'[At(i)'] \in Values
  BY <1>2, <1>4, <1>6
<1> QED
  BY <1>1, <1>2, <1>5, <1>7, <1>8, <1>9

\* The destructor releases a value once for each of its positions.
LEMMA ReleasedIsHeld ==
    ASSUME TypeOK, BufferInv, NEW v
    PROVE  ReleasedOf(v) = Cardinality(Positions(Contents, count, v))
<1> DEFINE P == Positions(Contents, count, v)
           R == {s \in Remaining : ring[s] = v}
           F == [i \in P |-> At(i)]
<1>1. /\ count \in 0 .. Capacity /\ Capacity \in Nat /\ head \in 0 .. Capacity - 1
      /\ \A i \in 1 .. count : i \in 1 .. Capacity /\ Contents[i] = ring[At(i)]
  BY ContentsType, CapacityType DEF TypeOK, Slots
<1>2. Remaining = {At(i) : i \in 1 .. count}
  <2>1. ASSUME NEW i \in 0 .. count - 1
        PROVE  i + 1 \in 1 .. count /\ (head + i) % Capacity = At(i + 1)
    BY <1>1 DEF At
  <2>2. ASSUME NEW i \in 1 .. count
        PROVE  i - 1 \in 0 .. count - 1 /\ At(i) = (head + (i - 1)) % Capacity
    <3>1. i - 1 \in 0 .. count - 1 /\ head + i - 1 = head + (i - 1)
      BY <1>1
    <3> QED
      BY <3>1 DEF At
  <2> QED
    BY <2>1, <2>2 DEF Remaining
<1>3. F \in [P -> R]
  BY <1>1, <1>2 DEF Positions
<1>4. \A a, b \in P : F[a] = F[b] => a = b
  BY <1>1, SlotsDiffer DEF Positions
<1>5. \A y \in R : \E x \in P : F[x] = y
  BY <1>1, <1>2 DEF Positions
<1>6. IsFiniteSet(P)
  <2>1. IsFiniteSet(1 .. count) /\ P \subseteq 1 .. count
    BY <1>1, FS_Interval DEF Positions
  <2> QED
    BY <2>1, FS_Subset
<1>7. ReleasedOf(v) = Cardinality(R)
  BY DEF ReleasedOf
<1> HIDE DEF P, R, F
<1>8. F \in Bijection(P, R)
  BY <1>3, <1>4, <1>5 DEF Bijection, Injection, Surjection, IsInjective
<1>9. Cardinality(R) = Cardinality(P)
  BY <1>6, <1>8, FS_Bijection DEF ExistsBijection
<1> QED
  BY <1>7, <1>9 DEF P

\* A new channel is empty, and owns nothing.
LEMMA BufferInit == Init => BufferInv /\ ReferencesBalanced
<1> SUFFICES ASSUME Init PROVE BufferInv /\ ReferencesBalanced
  OBVIOUS
<1>1. BufferInv
  BY CapacityType, WrapOnce DEF Init, BufferInv, PushOps
<1>2. ASSUME NEW v \in Values
      PROVE  refs[v] = IF alive THEN Cardinality({i \in DOMAIN Contents : Contents[i] = v})
                                ELSE 0
  <2>1. {i \in DOMAIN Contents : Contents[i] = v} = {}
    BY DEF Init, Contents
  <2> QED
    BY <1>2, <2>1, FS_EmptySet DEF Init
<1> QED
  BY <1>1, <1>2 DEF ReferencesBalanced

\* The references, counted by the positions of a value in the contents.
LEMMA BalancedByPositions ==
    ASSUME TypeOK, BufferInv
    PROVE  ReferencesBalanced <=>
              \A v \in Values :
                  refs[v] = IF alive THEN Cardinality(Positions(Contents, count, v)) ELSE 0
BY ContentsType DEF ReferencesBalanced, Positions

\* The steps that leave the buffer alone.
Untouched == UNCHANGED <<ring, head, tail, count, refs, alive>>

\* They leave its contents and its references alone.
LEMMA UntouchedKeeps ==
    ASSUME Untouched
    PROVE  /\ Contents' = Contents /\ (ReferencesBalanced => ReferencesBalanced')
           /\ \A i : At(i)' = At(i)
           /\ Capacity' = Capacity
<1>1. Contents' = Contents /\ Capacity' = Capacity /\ \A i : At(i)' = At(i)
  BY DEF Untouched, Contents, Capacity, At
<1> QED
  BY <1>1 DEF Untouched, ReferencesBalanced

\* Each step keeps the elements in their slots and the references counted.
LEMMA BufferStep == QInv /\ [Next]_vars => BufferInv' /\ ReferencesBalanced'
<1> SUFFICES ASSUME QInv, [Next]_vars
             PROVE  BufferInv' /\ ReferencesBalanced'
  OBVIOUS
<1> USE DEF state, calls
<1>a. /\ TypeOK /\ ControlInv /\ BufferInv /\ ReferencesBalanced
      /\ TypeOK' /\ ControlInv'
  BY TypeStep, ControlStep DEF QInv, IInv
<1>b. ASSUME Untouched,
             ~alive => \A t \in Threads : pc'[t] = "idle",
             \A t \in Threads : op'[t] \notin PushOps => arg'[t] = NullValue
      PROVE  BufferInv' /\ ReferencesBalanced'
  BY <1>a, <1>b, UntouchedKeeps DEF BufferInv, Untouched
<1>c. ASSUME \A v \in Values :
                 refs'[v] = IF alive' THEN Cardinality(Positions(Contents', count', v)) ELSE 0
      PROVE  ReferencesBalanced'
  <2>1. DOMAIN Contents' = 1 .. count'
    BY DEF Contents
  <2> QED
    BY <1>c, <2>1 DEF ReferencesBalanced, Positions
<1>1. ASSUME NEW t \in Threads, NEW m \in Methods, NEW v \in Values \cup {NullValue},
             Invoke(t, m, v)
      PROVE  BufferInv' /\ ReferencesBalanced'
  BY <1>1, <1>a, <1>b DEF Invoke, Untouched, TypeOK, BufferInv
<1>2. ASSUME NEW t \in Threads, WakeSpuriously(t)
      PROVE  BufferInv' /\ ReferencesBalanced'
  BY <1>2, <1>a, <1>b DEF WakeSpuriously, Untouched, BufferInv
<1>3. ASSUME NEW t \in Threads,
             \/ Lock(t) \/ PushFindsRoom(t) \/ PopFindsItem(t) \/ PushSpins(t) \/ PopSpins(t)
             \/ PushSleeps(t) \/ PopSleeps(t)
      PROVE  BufferInv' /\ ReferencesBalanced'
  <2>1. Untouched /\ UNCHANGED <<op, arg>> /\ pc[t] # "idle"
    BY <1>3 DEF Lock, PushFindsRoom, PopFindsItem, PushSpins, PopSpins, PushSleeps, PopSleeps,
                Checks, Proceed, Spin, Sleep, Untouched
  <2> QED
    BY <2>1, <1>a, <1>b DEF BufferInv
<1>4. ASSUME NEW t \in Threads,
             \/ PushThrows(t) \/ TryPushRefuses(t) \/ PopReturnsNull(t) \/ Length(t)
             \/ Close(t)
      PROVE  BufferInv' /\ ReferencesBalanced'
  <2>1. /\ Untouched /\ pc[t] # "idle"
        /\ op' = [op EXCEPT ![t] = "none"] /\ arg' = [arg EXCEPT ![t] = NullValue]
    BY <1>4 DEF PushThrows, TryPushRefuses, PopReturnsNull, Length, Close, Checks, Return,
                Untouched
  <2> QED
    BY <2>1, <1>a, <1>b DEF BufferInv, TypeOK
<1>5. ASSUME NEW t \in Threads, IsClosed(t)
      PROVE  BufferInv' /\ ReferencesBalanced'
  <2>1. /\ Untouched /\ pc[t] # "idle" /\ op[t] = "isClosed"
        /\ op' = [op EXCEPT ![t] = "none"] /\ arg' = arg
    BY <1>5, <1>a DEF IsClosed, Untouched, ControlInv, CallInv
  <2> QED
    BY <2>1, <1>a, <1>b DEF BufferInv, TypeOK, PushOps
<1>6. ASSUME NEW t \in Threads, PushStores(t)
      PROVE  BufferInv' /\ ReferencesBalanced'
  <2>1. /\ arg[t] \in Values /\ count' = count + 1 /\ tail' = (head' + count') % Capacity
        /\ Contents' = Append(Contents, arg[t])
        /\ \A i \in 1 .. count' : ring'[At(i)'] \in Values
    BY <1>6, <1>a, StoreAppends
  <2>2. /\ alive' = alive /\ pc[t] # "idle"
        /\ op' = [op EXCEPT ![t] = "none"] /\ arg' = [arg EXCEPT ![t] = NullValue]
        /\ refs' = [refs EXCEPT ![arg[t]] = @ + 1]
    BY <1>6 DEF PushStores, Return
  <2>3. BufferInv'
    BY <2>1, <2>2, <1>a DEF BufferInv, TypeOK, Capacity
  <2>4. ASSUME NEW v \in Values
        PROVE  refs'[v] = IF alive' THEN Cardinality(Positions(Contents', count', v)) ELSE 0
    <3>1. alive /\ refs[v] = Cardinality(Positions(Contents, count, v))
      BY <2>2, <1>a, BalancedByPositions DEF BufferInv
    <3>2. Contents \in Seq(Values) /\ Len(Contents) = count
      BY <1>a, ContentsType
    <3>3. Cardinality(Positions(Contents', count + 1, v)) =
             Cardinality(Positions(Contents, count, v)) + (IF arg[t] = v THEN 1 ELSE 0)
      <4>1. Cardinality(Positions(Append(Contents, arg[t]), Len(Contents) + 1, v)) =
               Cardinality(Positions(Contents, Len(Contents), v))
                  + (IF arg[t] = v THEN 1 ELSE 0)
        BY <2>1, <3>2, CountAppended
      <4> QED
        BY <2>1, <3>2, <4>1
    <3>4. refs'[v] = refs[v] + (IF arg[t] = v THEN 1 ELSE 0)
      <4>1. refs \in [Values -> Int]
        BY <1>a DEF TypeOK
      <4> QED
        BY <2>1, <2>2, <4>1
    <3> QED
      BY <2>1, <2>2, <3>1, <3>3, <3>4
  <2> QED
    BY <2>3, <2>4, <1>c
<1>7. ASSUME NEW t \in Threads, PopTakes(t)
      PROVE  BufferInv' /\ ReferencesBalanced'
  <2>1. /\ count > 0 /\ count' = count - 1 /\ tail' = (head' + count') % Capacity
        /\ ring[head] \in Values /\ ring[head] = Contents[1] /\ Contents # <<>>
        /\ Contents' = Tail(Contents)
        /\ \A i \in 1 .. count' : ring'[At(i)'] \in Values
    BY <1>7, <1>a, TakeRemoves
  <2>2. /\ alive' = alive /\ pc[t] # "idle"
        /\ op' = [op EXCEPT ![t] = "none"] /\ arg' = [arg EXCEPT ![t] = NullValue]
        /\ refs' = [refs EXCEPT ![ring[head]] = @ - 1]
    BY <1>7 DEF PopTakes, Return
  <2>3. BufferInv'
    BY <2>1, <2>2, <1>a DEF BufferInv, TypeOK, Capacity
  <2>4. ASSUME NEW v \in Values
        PROVE  refs'[v] = IF alive' THEN Cardinality(Positions(Contents', count', v)) ELSE 0
    <3>1. alive /\ refs[v] = Cardinality(Positions(Contents, count, v))
      BY <2>2, <1>a, BalancedByPositions DEF BufferInv
    <3>2. count - 1 \in Nat /\ (count - 1) + 1 = count
      BY <2>1, <1>a, CapacityType DEF TypeOK
    <3>3. \A i \in 1 .. count - 1 : Contents'[i] = Contents[i + 1]
      BY <2>1, <1>a, ContentsType, HeadTailProperties
    <3>4. Cardinality(Positions(Contents, (count - 1) + 1, v)) =
             Cardinality(Positions(Contents', count - 1, v))
                + (IF Contents[1] = v THEN 1 ELSE 0)
      BY <3>2, <3>3, CountTail
    <3>5. refs'[v] = refs[v] - (IF Contents[1] = v THEN 1 ELSE 0)
      <4>1. refs \in [Values -> Int]
        BY <1>a DEF TypeOK
      <4> QED
        BY <2>1, <2>2, <4>1
    <3>6. Cardinality(Positions(Contents', count - 1, v)) \in Nat
      BY <3>2, CountPositions
    <3> QED
      BY <2>1, <2>2, <3>1, <3>2, <3>4, <3>5, <3>6
  <2> QED
    BY <2>3, <2>4, <1>c
<1>8. ASSUME Destruct
      PROVE  BufferInv' /\ ReferencesBalanced'
  <2>1. /\ UNCHANGED <<ring, head, tail, count, pc, op, arg>> /\ alive /\ ~alive'
        /\ \A t \in Threads : pc[t] = "idle"
        /\ \A v \in Values : refs'[v] = refs[v] - ReleasedOf(v)
    BY <1>8 DEF Destruct
  <2>2. BufferInv'
    BY <2>1, <1>a DEF BufferInv, At, Capacity
  <2>3. \A v \in Values : refs'[v] = 0
    BY <2>1, <1>a, BalancedByPositions, ReleasedIsHeld DEF TypeOK
  <2> QED
    BY <2>1, <2>2, <2>3 DEF ReferencesBalanced
<1>9. ASSUME UNCHANGED vars
      PROVE  BufferInv' /\ ReferencesBalanced'
  BY <1>9, <1>a, <1>b DEF vars, Untouched, BufferInv
<1> QED
  BY <1>1, <1>2, <1>3, <1>4, <1>5, <1>6, <1>7, <1>8, <1>9 DEF Next, Step

\* With the buffer, the conjunction is still inductive.
LEMMA BufferInvariance == Spec => []QInv
<1>1. Init => QInv
  BY TypeInit, ControlInit, BufferInit DEF QInv, IInv, Init, NoLostWakeup
<1>2. QInv /\ [Next]_vars => QInv'
  BY TypeStep, ControlStep, WakeupStep, BufferStep DEF QInv, IInv
<1> QED
  BY <1>1, <1>2, PTL DEF Spec

\* The channel owns exactly one reference per element it holds, for every
\* capacity: through wrap-around, with stale values left in popped slots, and
\* none after the destructor.
THEOREM ReferencesKept == Spec => []ReferencesBalanced
BY BufferInvariance, PTL DEF QInv

-----------------------------------------------------------------------------
\* The refinement: a push takes effect at the store, a pop at the take, and
\* every other call where it looks under the lock (isClosed: at its read).

\* What the elements of a channel look like from outside.
Elements == IF alive THEN Contents ELSE <<>>

\* The variables of BoundedQueue.
queueVars == <<Elements, isClosed, alive, op, arg, ret>>

\* A call in progress keeps the channel alive, so its queue is the contents.
LEMMA InCallAlive ==
    ASSUME QInv, NEW t \in Threads, pc[t] # "idle"
    PROVE  /\ alive /\ Elements = Contents
           /\ Contents \in Seq(Values) /\ Len(Contents) = count
           /\ count \in 0 .. Capacity /\ Capacity \in Nat
           /\ Contents = <<>> <=> count = 0
<1>1. alive /\ Elements = Contents
  BY DEF QInv, BufferInv, Elements
<1>2. Contents \in Seq(Values) /\ Len(Contents) = count
  BY ContentsType DEF QInv, IInv
<1>3. count \in 0 .. Capacity /\ Capacity \in Nat
  BY CapacityType DEF QInv, IInv, TypeOK
<1>4. Contents = <<>> <=> count = 0
  BY <1>2, <1>3, EmptySeq
<1> QED
  BY <1>1, <1>2, <1>3, <1>4

\* Return ends the call of BoundedQueue with the same result.
LEMMA ReturnFinishes ==
    ASSUME NEW t \in Threads, NEW o, NEW v, Return(t, o, v)
    PROVE  Queue!Finish(t, Queue!Result(o, v))
BY DEF Return, Queue!Finish, Queue!Result

\* Each step of the channel is a step of the queue, or one it does not see.
LEMMA QueueStep ==
    ASSUME QInv, [Next]_vars
    PROVE  [Queue!Next]_queueVars
<1> USE DEF state, calls, Checks
<1>a. /\ TypeOK /\ ControlInv /\ BufferInv
  BY DEF QInv, IInv
<1>b. ASSUME NEW t \in Threads
      PROVE  (op[t] = "none") = (pc[t] = "idle")
  BY <1>a DEF ControlInv, CallInv
<1>1. ASSUME NEW t \in Threads, NEW m \in Methods, NEW v \in Values \cup {NullValue},
             Invoke(t, m, v)
      PROVE  Queue!Invoke(t, m, v)
  <2>1. Elements' = Elements
    BY <1>1 DEF Invoke, Elements, Contents, Capacity
  <2> QED
    BY <1>1, <1>b, <2>1 DEF Invoke, Queue!Invoke, Elements, Queue!PushOps, PushOps,
                            Queue!NoResult, Queue!Result, NoResult
<1>2. ASSUME NEW t \in Threads,
             \/ WakeSpuriously(t) \/ Lock(t) \/ PushFindsRoom(t) \/ PopFindsItem(t)
             \/ PushSpins(t) \/ PopSpins(t) \/ PushSleeps(t) \/ PopSleeps(t)
      PROVE  UNCHANGED queueVars
  <2>1. UNCHANGED <<ring, head, tail, count, isClosed, alive, op, arg, ret>>
    BY <1>2 DEF WakeSpuriously, Lock, PushFindsRoom, PopFindsItem, PushSpins, PopSpins,
                PushSleeps, PopSleeps, Proceed, Spin, Sleep
  <2> QED
    BY <2>1 DEF queueVars, Elements, Contents, Capacity
<1>3. ASSUME NEW t \in Threads, PushThrows(t)
      PROVE  Queue!EnqueueThrows(t)
  <2>1. UNCHANGED <<Elements, isClosed>>
    BY <1>3 DEF PushThrows, Return, Elements, Contents, Capacity
  <2>2. Queue!Finish(t, Queue!Result("ChannelClosedException", NullValue))
    BY <1>3, ReturnFinishes DEF PushThrows
  <2> QED
    BY <1>3, <2>1, <2>2 DEF PushThrows, Queue!EnqueueThrows, Elements, PushOps, Queue!PushOps
<1>4. ASSUME NEW t \in Threads, TryPushRefuses(t)
      PROVE  Queue!EnqueueRefused(t)
  <2>1. UNCHANGED <<Elements, isClosed>>
    BY <1>4 DEF TryPushRefuses, Return, Elements, Contents, Capacity
  <2>2. Queue!Finish(t, Queue!Result("full", NullValue))
    BY <1>4, ReturnFinishes DEF TryPushRefuses
  <2>3. Len(Elements) = Capacity
    BY <1>4, InCallAlive DEF TryPushRefuses, HasRoom
  <2> QED
    BY <1>4, <2>1, <2>2, <2>3 DEF TryPushRefuses, Queue!EnqueueRefused, Elements
<1>5. ASSUME NEW t \in Threads, PushStores(t)
      PROVE  Queue!Enqueue(t)
  <2>1. /\ ~isClosed /\ count < Capacity /\ Contents' = Append(Contents, arg[t])
    BY <1>5, <1>a, StoreAppends
  <2>2. Elements = Contents /\ Len(Contents) = count /\ alive
    BY <1>5, InCallAlive DEF PushStores
  <2>3. alive' = alive /\ isClosed' = isClosed /\ op[t] \in Queue!PushOps
    BY <1>5 DEF PushStores, Return, PushOps, Queue!PushOps
  <2>4. Elements' = Append(Elements, arg[t]) /\ Len(Elements) < Capacity
    BY <2>1, <2>2, <2>3 DEF Elements
  <2>5. Queue!Finish(t, Queue!Result("done", NullValue))
    BY <1>5, ReturnFinishes DEF PushStores
  <2> QED
    BY <2>1, <2>3, <2>4, <2>5 DEF Queue!Enqueue, Elements
<1>6. ASSUME NEW t \in Threads, PopTakes(t)
      PROVE  Queue!Dequeue(t)
  <2>1. /\ Contents # <<>> /\ Contents' = Tail(Contents) /\ ring[head] = Head(Contents)
    BY <1>6, <1>a, TakeRemoves
  <2>2. Elements = Contents /\ alive
    BY <1>6, InCallAlive DEF PopTakes
  <2>3. alive' = alive /\ isClosed' = isClosed /\ op[t] \in Queue!PopOps
    BY <1>6 DEF PopTakes, Return, PopOps, Queue!PopOps
  <2>4. Elements' = Tail(Elements) /\ Elements # <<>> /\ Head(Elements) = ring[head]
    BY <2>1, <2>2, <2>3 DEF Elements
  <2>5. Queue!Finish(t, Queue!Result("value", ring[head]))
    BY <1>6, ReturnFinishes DEF PopTakes
  <2>6. Queue!Finish(t, Queue!Result("value", Head(Elements)))
    BY <2>4, <2>5
  <2> QED
    BY <2>3, <2>4, <2>6 DEF Queue!Dequeue, Elements
<1>7. ASSUME NEW t \in Threads, PopReturnsNull(t)
      PROVE  Queue!DequeueNull(t)
  <2>1. UNCHANGED <<Elements, isClosed>>
    BY <1>7 DEF PopReturnsNull, Return, Elements, Contents, Capacity
  <2>2. Queue!Finish(t, Queue!Result("null", NullValue))
    BY <1>7, ReturnFinishes DEF PopReturnsNull
  <2>3. Elements = <<>>
    BY <1>7, InCallAlive DEF PopReturnsNull
  <2> QED
    BY <1>7, <2>1, <2>2, <2>3
       DEF PopReturnsNull, Queue!DequeueNull, Elements, PopOps, Queue!PopOps
<1>8. ASSUME NEW t \in Threads, Close(t)
      PROVE  Queue!Close(t)
  <2>1. Elements' = Elements /\ isClosed' = TRUE
    BY <1>8 DEF Close, Return, Elements, Contents, Capacity
  <2>2. Queue!Finish(t, Queue!Result("done", NullValue))
    BY <1>8, ReturnFinishes DEF Close
  <2> QED
    BY <1>8, <2>1, <2>2 DEF Close, Queue!Close, Elements
<1>9. ASSUME NEW t \in Threads, Length(t)
      PROVE  Queue!Observe(t)
  <2>1. UNCHANGED <<Elements, isClosed>>
    BY <1>9 DEF Length, Return, Elements, Contents, Capacity
  <2>2. Queue!Finish(t, Queue!Result("length", count))
    BY <1>9, ReturnFinishes DEF Length
  <2>3. Len(Elements) = count
    BY <1>9, InCallAlive DEF Length
  <2>4. Queue!Finish(t, Queue!Result("length", Len(Elements)))
    BY <2>2, <2>3
  <2> QED
    BY <1>9, <2>1, <2>4 DEF Length, Queue!Observe, Elements
<1>10. ASSUME NEW t \in Threads, IsClosed(t)
       PROVE  Queue!Observe(t)
  <2>1. UNCHANGED <<Elements, isClosed, alive>>
    BY <1>10 DEF IsClosed, Elements, Contents, Capacity
  <2>2. op[t] = "isClosed" /\ arg[t] = NullValue
    BY <1>10, <1>a DEF IsClosed, ControlInv, CallInv, BufferInv, PushOps
  <2>3. arg' = [arg EXCEPT ![t] = NullValue]
    BY <1>10, <1>a, <2>2 DEF IsClosed, TypeOK
  <2>4. Queue!Finish(t, Queue!Result(IF isClosed THEN "true" ELSE "false", NullValue))
    BY <1>10, <2>1, <2>3 DEF IsClosed, Queue!Finish, Queue!Result
  <2> QED
    BY <2>1, <2>2, <2>4 DEF Queue!Observe, Elements
<1>11. ASSUME Destruct
       PROVE  Queue!Dispose
  <2>1. UNCHANGED <<isClosed, op, arg, ret>> /\ alive /\ alive' = FALSE
    BY <1>11 DEF Destruct
  <2>2. \A t \in Threads : op[t] = "none"
    BY <1>11, <1>b DEF Destruct
  <2> QED
    BY <2>1, <2>2 DEF Queue!Dispose, Elements
<1>12. ASSUME UNCHANGED vars
       PROVE  UNCHANGED queueVars
  BY <1>12 DEF vars, queueVars, Elements, Contents, Capacity
<1>13. ASSUME NEW t \in Threads, Step(t)
       PROVE  \/ UNCHANGED queueVars
              \/ Queue!Enqueue(t) \/ Queue!EnqueueThrows(t) \/ Queue!EnqueueRefused(t)
              \/ Queue!Dequeue(t) \/ Queue!DequeueNull(t)
              \/ Queue!Close(t) \/ Queue!Observe(t)
  BY <1>13, <1>2, <1>3, <1>4, <1>5, <1>6, <1>7, <1>8, <1>9, <1>10 DEF Step
<1>14. ASSUME NEW t \in Threads, NEW m \in Methods, NEW v \in Values \cup {NullValue},
              Invoke(t, m, v)
       PROVE  Queue!Next
  BY <1>14, <1>1
     DEF Queue!Next, Queue!Methods, Queue!PushOps, Queue!PopOps, Methods, PushOps, PopOps
<1> QED
  BY <1>2, <1>11, <1>12, <1>13, <1>14 DEF Next, Queue!Next

\* The code implements the bounded FIFO queue, for every number of threads
\* and every capacity: no element is lost, duplicated, reordered or accepted
\* after close, whatever the interleaving and the spurious wake-ups.
THEOREM IsAQueue == Spec => ImplementsQueue
<1>1. Init => Queue!Init
  BY DEF Init, Queue!Init, Queue!NoResult, Queue!Result, NoResult, Contents
<1>2. QInv /\ [Next]_vars => [Queue!Next]_queueVars
  BY QueueStep
<1> QED
  BY <1>1, <1>2, BufferInvariance, PTL
     DEF Spec, ImplementsQueue, Queue!Spec, Queue!qvars, queueVars, Elements
=============================================================================
