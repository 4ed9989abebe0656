---------------------------- MODULE FutureProofs ----------------------------
(* Theorems about Future, for any number of threads and futures and any      *)
(* calls; those about results are for builds that keep plain stores in order.*)
EXTENDS Future, SequenceTheorems, TLAPS

-----------------------------------------------------------------------------
\* The inductive invariant

Locked == {"test", "storeState", "storeValue"}
Looking == {"look", "wait", "take"}

\* A mutex is held exactly between mtx_lock and mtx_unlock or cnd_wait.
LockInv ==
    \A t \in Threads, f \in Futures :
        mtx[f] = t <=> pc[t] \in Locked /\ Focus(t) = f

\* The program counter agrees with the call in progress and with the array
\* position it has reached.
ControlInv ==
    \A t \in Threads :
        /\ pc[t] # "idle" => call[t] \in Programs[t]
        /\ pc[t] = "idle" => pos[t] = 1 /\ values[t] = <<>>
        /\ pc[t] \in {"storeState", "storeValue"} => Settles(t)
        /\ pc[t] \in {"lock", "test"} => call[t].method \in Settlers \cup Waiters
        /\ pc[t] \in Looking => call[t].method \in Waiters
        /\ pc[t] = "poll" => call[t].method = "race"
        /\ pc[t] = "peek" => call[t].method = "isReady"
        /\ pc[t] \in Locked \cup {"lock", "wait", "take"} => call[t].futs # <<>>

TypeInv == TypeOK /\ ControlInv

\* A settled future has the value that its state speaks of.
SettledInv ==
    \A f \in Futures :
        /\ state[f] = "resolved" => result[f] \in Values
        /\ state[f] = "rejected" => error[f] \in Errors

\* Between the two stores the future is pending and holds the new value; what
\* is read without the lock is read from a settled future.
StoreInv ==
    \A t \in Threads :
        /\ pc[t] # "storeValue"
        /\ pc[t] = "storeState" =>
              /\ Pending(Focus(t))
              /\ call[t].method = "resolve" => result[Focus(t)] = call[t].val
              /\ call[t].method = "reject" => error[Focus(t)] = call[t].val
        /\ pc[t] = "take" => ~Pending(Focus(t))

\* What all has collected are the results of the elements before its position.
CollectInv ==
    \A t \in Threads : call[t].method = "all" /\ call[t].futs # <<>> =>
        \A j \in 1 .. pos[t] - 1 :
            /\ state[call[t].futs[j]] = "resolved"
            /\ values[t][j] = result[call[t].futs[j]]

\* No element that race has passed in this round was settled before the call.
PassedInv ==
    \A t \in Threads :
        /\ early[t] \subseteq Settled
        /\ call[t].method = "race" /\ call[t].futs # <<>> =>
              \A j \in 1 .. pos[t] - 1 : call[t].futs[j] \notin early[t]

\* What await has returned is the outcome of a future that is settled.
AwaitedInv ==
    \A t \in Threads : Done(t, "await") => ~Pending(call[t].futs[1])

IInv ==
    /\ TypeInv /\ LockInv /\ SettledInv /\ StoreInv /\ CollectInv /\ PassedInv
    /\ AwaitedInv /\ AwaitersAgree /\ AllFollowsArray /\ RaceTakesSettled

-----------------------------------------------------------------------------
\* Facts about calls and outcomes

OutcomeSet == [kind : OutcomeKinds, val : Results \cup Seq(Values \cup {NullValue})]
FieldsOK ==
    /\ state \in [Futures -> {"pending", "resolved", "rejected"}]
    /\ result \in [Futures -> Values \cup {NullValue}]
    /\ error \in [Futures -> Errors \cup {NullValue}]
    /\ mtx \in [Futures -> Threads \cup {NoThread}]
    /\ asleep \in [Futures -> SUBSET Threads]

\* A sequence is empty exactly if its length is 0.
LEMMA EmptyLen == Len(<<>>) = 0
BY EmptySeq

\* The same, for a sequence that is not known to be empty.
LEMMA NotEmpty ==
    ASSUME NEW s, Len(s) = 1
    PROVE  s # <<>>
BY EmptyLen

\* The future that a call in progress looks at is one of those it was given.
LEMMA FocusType ==
    ASSUME TypeInv, NEW t \in Threads, pc[t] # "idle", call[t].futs # <<>>
    PROVE  /\ call[t] \in Programs[t] /\ call[t].futs \in Seq(Futures)
           /\ pos[t] \in 1 .. Len(call[t].futs)
           /\ Focus(t) \in Futures
<1>1. call[t] \in Programs[t]
  BY DEF TypeInv, ControlInv
<1>2. call[t].futs \in Seq(Futures)
  BY <1>1, ProgramsAssumption
<1>3. pos[t] \in 1 .. Len(call[t].futs)
  BY DEF TypeInv, TypeOK
<1> QED
  BY <1>1, <1>2, <1>3, ElementOfSeq DEF Focus

\* So it is wherever the thread needs one.
LEMMA FocusHere ==
    ASSUME TypeInv, NEW t \in Threads, pc[t] \in Locked \cup {"lock", "wait", "take", "peek"}
    PROVE  /\ call[t].futs # <<>> /\ Focus(t) \in Futures
           /\ Len(call[t].futs) \in Nat /\ pos[t] \in 1 .. Len(call[t].futs)
<1>1. pc[t] # "idle"
  BY DEF Locked
<1>2. call[t] \in Programs[t]
  BY <1>1 DEF TypeInv, ControlInv
<1>3. call[t].futs # <<>>
  <2>1. CASE pc[t] = "peek"
    <3>1. Len(call[t].futs) = 1
      BY <1>2, <2>1, ProgramsAssumption DEF TypeInv, ControlInv
    <3> QED
      BY <3>1, NotEmpty
  <2> QED
    BY <2>1 DEF TypeInv, ControlInv
<1>4. call[t].futs \in Seq(Futures)
  BY <1>2, ProgramsAssumption
<1> QED
  BY <1>1, <1>3, <1>4, FocusType, LenProperties

\* A call about a single future stays at the first position.
LEMMA SinglePosition ==
    ASSUME TypeInv, NEW t \in Threads, pc[t] # "idle",
           call[t].method \notin {"all", "race"}
    PROVE  /\ Len(call[t].futs) = 1 /\ pos[t] = 1 /\ call[t].futs # <<>>
           /\ Focus(t) = call[t].futs[1] /\ Focus(t) \in Futures
<1>1. call[t] \in Programs[t]
  BY DEF TypeInv, ControlInv
<1>2. Len(call[t].futs) = 1
  BY <1>1, ProgramsAssumption
<1>3. call[t].futs # <<>>
  BY <1>2, NotEmpty
<1> QED
  BY <1>2, <1>3, FocusType DEF Focus

\* What is read from a future is an outcome.
LEMMA ReadType ==
    ASSUME TypeOK, NEW f \in Futures
    PROVE  /\ ReadOutcome(f) \in OutcomeSet
           /\ ReadOutcome(f).kind \in {"resolved", "rejected"}
           /\ ReadOutcome(f).val \in Results
           /\ ReadOutcome(f).kind = "resolved" => ReadOutcome(f).val \in Values \cup {NullValue}
BY DEF TypeOK, ReadOutcome, Outcome, OutcomeSet, OutcomeKinds, Results

\* The two stores write a value and a state of the right type.
LEMMA StoreType ==
    ASSUME TypeInv, NEW t \in Threads, pc[t] \in Locked, Settles(t)
    PROVE  /\ StoreValue(t) =>
                 /\ result' \in [Futures -> Values \cup {NullValue}]
                 /\ error' \in [Futures -> Errors \cup {NullValue}]
           /\ StoreState(t) => state' \in [Futures -> {"pending", "resolved", "rejected"}]
<1>1. call[t] \in Programs[t] /\ call[t].method \in {"resolve", "reject"}
  BY DEF TypeInv, ControlInv, Settles, Settlers, Locked
<1>2. /\ call[t].method = "resolve" => call[t].val \in Values
      /\ call[t].method = "reject" => call[t].val \in Errors
  BY <1>1, ProgramsAssumption
<1> QED
  BY <1>1, <1>2 DEF StoreValue, StoreState, TypeInv, TypeOK

-----------------------------------------------------------------------------
\* Type correctness

\* The end of a call keeps the types, if what it does to the futures does.
LEMMA FinishType ==
    ASSUME TypeInv, NEW t \in Threads, NEW o \in OutcomeSet, Finish(t, o), FieldsOK'
    PROVE  TypeInv'
<1>1. /\ pc' \in [Threads -> {"idle", "lock", "test", "storeState", "storeValue", "look",
                              "wait", "take", "poll", "peek"}]
      /\ pos' \in [Threads -> Nat \ {0}]
      /\ values' \in [Threads -> Seq(Values \cup {NullValue})]
      /\ ret' \in [Threads -> OutcomeSet]
  <2>1. <<>> \in Seq(Values \cup {NullValue})
    OBVIOUS
  <2> QED
    BY <2>1 DEF TypeInv, TypeOK, Finish, OutcomeSet
<1>2. UNCHANGED <<call, early, budget, spurious>>
  BY DEF Finish
<1>3. \A u \in Threads :
        /\ pc'[u] = IF u = t THEN "idle" ELSE pc[u]
        /\ pos'[u] = IF u = t THEN 1 ELSE pos[u]
        /\ values'[u] = IF u = t THEN <<>> ELSE values[u]
  BY DEF TypeInv, TypeOK, Finish
<1>4. TypeOK'
  <2>1. \A u \in Threads :
            pc'[u] # "idle" => pos'[u] \in 1 .. Len(call'[u].futs) \/ call'[u].futs = <<>>
    BY <1>2, <1>3 DEF TypeInv, TypeOK
  <2>2. \A u \in Threads : Len(values'[u]) = pos'[u] - 1 \/ call'[u].method = "race"
    <3>1. Len(values'[t]) = 0 /\ pos'[t] = 1
      BY <1>3, EmptyLen
    <3>2. \A u \in Threads \ {t} : values'[u] = values[u] /\ pos'[u] = pos[u]
      BY <1>3
    <3>3. Len(values'[t]) = pos'[t] - 1
      BY <3>1
    <3>4. ASSUME NEW u \in Threads \ {t}
          PROVE  Len(values'[u]) = pos'[u] - 1 \/ call'[u].method = "race"
      BY <1>2, <3>2 DEF TypeInv, TypeOK
    <3> QED
      BY <3>3, <3>4
  <2> QED
    BY <1>1, <1>2, <2>1, <2>2 DEF TypeInv, TypeOK, FieldsOK, OutcomeSet
<1>5. ControlInv'
  BY <1>2, <1>3 DEF TypeInv, ControlInv, Settles, Locked, Looking
<1> QED
  BY <1>4, <1>5 DEF TypeInv

\* So does a step that moves a thread inside its call.
LEMMA GotoType ==
    ASSUME TypeInv, NEW t \in Threads, pc[t] # "idle", NEW where, Goto(t, where), FieldsOK',
           UNCHANGED <<call, pos, values, ret, early, budget>>,
           spurious' \in 0 .. MaxSpurious,
           \/ where \in {"storeState", "storeValue"} /\ Settles(t) /\ call[t].futs # <<>>
           \/ where = "test" /\ call[t].method \in Settlers \cup Waiters /\ call[t].futs # <<>>
           \/ where \in {"take", "wait"} /\ call[t].method \in Waiters /\ call[t].futs # <<>>
           \/ where = "lock" /\ call[t].method \in Waiters /\ call[t].futs # <<>>
    PROVE  TypeInv'
<1>1. \A u \in Threads : pc'[u] = IF u = t THEN where ELSE pc[u]
  BY DEF TypeInv, TypeOK, Goto
<1>2. pc' \in [Threads -> {"idle", "lock", "test", "storeState", "storeValue", "look",
                           "wait", "take", "poll", "peek"}]
  BY DEF TypeInv, TypeOK, Goto
<1>3. TypeOK'
  <2>1. \A u \in Threads :
            pc'[u] # "idle" => pos'[u] \in 1 .. Len(call'[u].futs) \/ call'[u].futs = <<>>
    BY <1>1 DEF TypeInv, TypeOK
  <2> QED
    BY <1>2, <2>1 DEF TypeInv, TypeOK, FieldsOK
<1>4. ControlInv'
  BY <1>1 DEF TypeInv, ControlInv, Settles, Locked, Looking, Waiters, Settlers
<1> QED
  BY <1>3, <1>4 DEF TypeInv

\* At first nobody is in a call and every future is pending.
LEMMA TypeInit == Init => TypeInv
<1> SUFFICES ASSUME Init PROVE TypeInv
  OBVIOUS
<1>1. <<>> \in Seq(Values \cup {NullValue})
  OBVIOUS
<1>2. ret \in [Threads -> OutcomeSet]
  BY DEF Init, Outcome, OutcomeSet, OutcomeKinds, Results
<1>3. TypeOK
  BY <1>1, <1>2, EmptyLen, FutureAssumption DEF Init, TypeOK, OutcomeSet
<1>4. ControlInv
  BY DEF Init, ControlInv, Locked, Looking
<1> QED
  BY <1>3, <1>4 DEF TypeInv

\* Each step keeps the types and the agreement of program counter and call.
LEMMA TypeStep == TypeInv /\ [Next]_vars => TypeInv'
<1> SUFFICES ASSUME TypeInv, [Next]_vars PROVE TypeInv'
  OBVIOUS
<1> USE DEF fields
<1>1. ASSUME NEW t \in Threads, NEW c \in Programs[t], Begin(t, c)
      PROVE  TypeInv'
  <2>1. PICK where \in {"lock", "look", "poll", "peek"} :
          /\ pc' = [pc EXCEPT ![t] = where]
          /\ where = "lock" => c.method \in Settlers
          /\ where = "look" => c.method \in Waiters
          /\ where = "poll" => c.method = "race"
          /\ where = "peek" => c.method = "isReady"
    <3>1. c.method \in Settlers \cup Waiters \cup {"race", "isReady"}
      BY ProgramsAssumption DEF Settlers, Waiters
    <3>2. CASE c.method \in Settlers
      BY <1>1, <3>2 DEF Begin, Settlers, Waiters
    <3>3. CASE c.method \in Waiters
      BY <1>1, <3>3 DEF Begin, Settlers, Waiters
    <3>4. CASE c.method = "race"
      BY <1>1, <3>4 DEF Begin, Settlers, Waiters
    <3>5. CASE c.method = "isReady"
      BY <1>1, <3>5 DEF Begin, Settlers, Waiters
    <3> QED
      BY <3>1, <3>2, <3>3, <3>4, <3>5
  <2>2. /\ pc[t] = "idle" /\ budget[t] > 0
        /\ call' = [call EXCEPT ![t] = c]
        /\ early' = [early EXCEPT ![t] = Settled]
        /\ ret' = [ret EXCEPT ![t] = Outcome("none", NullValue)]
        /\ budget' = [budget EXCEPT ![t] = @ - 1]
        /\ UNCHANGED <<fields, mtx, asleep, pos, values, spurious>>
    BY <1>1 DEF Begin
  <2>3. /\ c.futs \in Seq(Futures) /\ pos[t] = 1 /\ values[t] = <<>>
        /\ c.method \in Settlers => c.futs # <<>>
    BY <2>2, ProgramsAssumption, EmptyLen DEF TypeInv, ControlInv, Settlers
  <2>4. /\ pc' \in [Threads -> {"idle", "lock", "test", "storeState", "storeValue", "look",
                              "wait", "take", "poll", "peek"}]
        /\ call' \in [Threads -> {NoCall} \cup UNION {Programs[u] : u \in Threads}]
        /\ early' \in [Threads -> SUBSET Futures]
        /\ ret' \in [Threads -> OutcomeSet]
        /\ budget' \in [Threads -> 0 .. Budget]
    <3>1. Outcome("none", NullValue) \in OutcomeSet
      BY DEF Outcome, OutcomeSet, OutcomeKinds, Results
    <3>2. ret \in [Threads -> OutcomeSet]
      BY DEF TypeInv, TypeOK, OutcomeSet
    <3> QED
      BY <2>1, <2>2, <3>1, <3>2, FutureAssumption DEF TypeInv, TypeOK, Settled
  <2>5. \A u \in Threads :
          /\ pc'[u] = IF u = t THEN pc'[t] ELSE pc[u]
          /\ call'[u] = IF u = t THEN c ELSE call[u]
          /\ pc'[t] \in {"lock", "look", "poll", "peek"}
          /\ pc'[t] = "lock" => c.method \in Settlers
          /\ pc'[t] = "look" => c.method \in Waiters
          /\ pc'[t] = "poll" => c.method = "race"
          /\ pc'[t] = "peek" => c.method = "isReady"
    BY <2>1, <2>2 DEF TypeInv, TypeOK
  <2>6. TypeOK'
    <3>1. \A u \in Threads :
            pc'[u] # "idle" => pos'[u] \in 1 .. Len(call'[u].futs) \/ call'[u].futs = <<>>
      <4>1. c.futs = <<>> \/ 1 \in 1 .. Len(c.futs)
        BY <2>3, EmptySeq
      <4> QED
        BY <2>2, <2>3, <2>5, <4>1 DEF TypeInv, TypeOK
    <3>2. \A u \in Threads : Len(values'[u]) = pos'[u] - 1 \/ call'[u].method = "race"
      BY <2>2, <2>3, <2>5, EmptyLen DEF TypeInv, TypeOK
    <3> QED
      BY <2>2, <2>4, <3>1, <3>2 DEF TypeInv, TypeOK, OutcomeSet
  <2>7. ControlInv'
    BY <2>2, <2>3, <2>5 DEF TypeInv, ControlInv, Settles, Locked, Looking
  <2> QED
    BY <2>6, <2>7 DEF TypeInv
<1>2. ASSUME NEW t \in Threads, NEW f \in Futures, WakeSpuriously(t, f)
      PROVE  TypeInv'
  <2>1. /\ asleep' \in [Futures -> SUBSET Threads] /\ spurious' \in 0 .. MaxSpurious
        /\ UNCHANGED <<fields, mtx, threads>>
    BY <1>2, FutureAssumption DEF WakeSpuriously, TypeInv, TypeOK
  <2> QED
    BY <2>1 DEF TypeInv, TypeOK, ControlInv, Settles, threads
<1>3. ASSUME NEW t \in Threads, Lock(t)
      PROVE  TypeInv'
  <2>1. call[t].futs # <<>> /\ Focus(t) \in Futures
    BY <1>3, FocusHere DEF Lock
  <2>2. call[t].method \in Settlers \cup Waiters
    BY <1>3 DEF Lock, TypeInv, ControlInv, Looking
  <2>3. FieldsOK'
    BY <1>3, <2>1 DEF Lock, TypeInv, TypeOK, FieldsOK
  <2> QED
    BY <1>3, <2>1, <2>2, <2>3, GotoType DEF Lock, TypeInv, TypeOK
<1>4. ASSUME NEW t \in Threads, AlreadySettled(t)
      PROVE  TypeInv'
  <2>1. Focus(t) \in Futures
    BY <1>4, FocusHere DEF AlreadySettled, Locked
  <2>2. FieldsOK'
    BY <1>4, <2>1 DEF AlreadySettled, TypeInv, TypeOK, FieldsOK
  <2>3. Outcome("already settled", NullValue) \in OutcomeSet
    BY DEF Outcome, OutcomeSet, OutcomeKinds, Results
  <2> QED
    BY <1>4, <2>2, <2>3, FinishType DEF AlreadySettled
<1>5. ASSUME NEW t \in Threads, FirstStore(t)
      PROVE  TypeInv'
  <2>1. call[t].futs # <<>> /\ Focus(t) \in Futures /\ pc[t] # "idle"
    BY <1>5, FocusHere DEF FirstStore, Locked
  <2>s. pc[t] \in Locked /\ Settles(t)
    BY <1>5 DEF FirstStore, Locked
  <2>2. PICK where \in {"storeState", "storeValue"} : Goto(t, where)
    BY <1>5 DEF FirstStore
  <2>3. FieldsOK'
    BY <1>5, <2>1, <2>s, StoreType DEF FirstStore, TypeInv, TypeOK, FieldsOK
  <2> QED
    BY <1>5, <2>1, <2>2, <2>3, GotoType DEF FirstStore, TypeInv, TypeOK
<1>6. ASSUME NEW t \in Threads, SecondStore(t)
      PROVE  TypeInv'
  <2>1. Focus(t) \in Futures /\ pc[t] # "idle" /\ Settles(t)
    BY <1>6, FocusHere DEF SecondStore, Locked, TypeInv, ControlInv
  <2>s. pc[t] \in Locked
    BY <1>6 DEF SecondStore, Locked
  <2>2. FieldsOK'
    BY <1>6, <2>1, <2>s, StoreType DEF SecondStore, TypeInv, TypeOK, FieldsOK, WakeAll
  <2>3. Outcome("done", NullValue) \in OutcomeSet
    BY DEF Outcome, OutcomeSet, OutcomeKinds, Results
  <2> QED
    BY <1>6, <2>2, <2>3, FinishType DEF SecondStore
<1>7. ASSUME NEW t \in Threads, Look(t)
      PROVE  TypeInv'
  <2>1. call[t].futs # <<>> /\ pc[t] # "idle" /\ call[t].method \in Waiters
    BY <1>7 DEF Look, TypeInv, ControlInv, Looking
  <2>2. PICK where \in {"lock", "take"} : Goto(t, where)
    BY <1>7 DEF Look
  <2>3. FieldsOK'
    BY <1>7 DEF Look, TypeInv, TypeOK, FieldsOK
  <2> QED
    BY <1>7, <2>1, <2>2, <2>3, GotoType DEF Look, TypeInv, TypeOK
<1>8. ASSUME NEW t \in Threads, Sleep(t) \/ StopWaiting(t)
      PROVE  TypeInv'
  <2>1. call[t].futs # <<>> /\ Focus(t) \in Futures /\ pc[t] # "idle"
    BY <1>8, FocusHere DEF Sleep, StopWaiting, Locked
  <2>2. call[t].method \in Waiters
    BY <1>8 DEF Sleep, StopWaiting, Settles, TypeInv, ControlInv
  <2>3. PICK where \in {"wait", "take"} : Goto(t, where)
    BY <1>8 DEF Sleep, StopWaiting
  <2>4. FieldsOK'
    <3>1. CASE Sleep(t)
      BY <3>1, <2>1 DEF Sleep, TypeInv, TypeOK, FieldsOK
    <3>2. CASE StopWaiting(t)
      BY <3>2, <2>1 DEF StopWaiting, TypeInv, TypeOK, FieldsOK
    <3> QED
      BY <1>8, <3>1, <3>2
  <2> QED
    BY <1>8, <2>1, <2>2, <2>3, <2>4, GotoType DEF Sleep, StopWaiting, TypeInv, TypeOK
<1>9. ASSUME NEW t \in Threads,
             AwaitEnds(t) \/ ThenOrCatchEnds(t) \/ AllOfNone(t) \/ RaceOfNone(t) \/ IsReady(t)
      PROVE  TypeInv'
  <2>1. FieldsOK'
    BY <1>9 DEF AwaitEnds, ThenOrCatchEnds, AllOfNone, RaceOfNone, IsReady,
                TypeInv, TypeOK, FieldsOK
  <2>2. \E o \in OutcomeSet : Finish(t, o)
    <3>1. CASE AwaitEnds(t) \/ ThenOrCatchEnds(t)
      <4>1. ReadOutcome(Focus(t)) \in OutcomeSet
        BY <3>1, FocusHere, ReadType DEF AwaitEnds, ThenOrCatchEnds, Takes, TypeInv
      <4>2. /\ \A v \in Values : Outcome("resolved", v) \in OutcomeSet
            /\ \A e \in Errors : Outcome("threw", e) \in OutcomeSet
        BY DEF Outcome, OutcomeSet, OutcomeKinds, Results
      <4> QED
        BY <3>1, <4>1, <4>2 DEF AwaitEnds, ThenOrCatchEnds
    <3>2. CASE AllOfNone(t)
      <4>1. Outcome("resolvedAll", <<>>) \in OutcomeSet
        BY DEF Outcome, OutcomeSet, OutcomeKinds, Results
      <4> QED
        BY <3>2, <4>1 DEF AllOfNone
    <3>3. CASE RaceOfNone(t) \/ IsReady(t)
      <4>1. \A k \in {"pending", "true", "false"} : Outcome(k, NullValue) \in OutcomeSet
        BY DEF Outcome, OutcomeSet, OutcomeKinds, Results
      <4> QED
        BY <3>3, <4>1 DEF RaceOfNone, IsReady
    <3> QED
      BY <1>9, <3>1, <3>2, <3>3
  <2> QED
    BY <2>1, <2>2, FinishType
<1>10. ASSUME NEW t \in Threads, AllTakes(t)
       PROVE  TypeInv'
  <2> DEFINE got == ReadOutcome(Focus(t))
             all == Append(values[t], got.val)
  <2>1. /\ call[t].futs # <<>> /\ Focus(t) \in Futures
        /\ Len(call[t].futs) \in Nat /\ pos[t] \in 1 .. Len(call[t].futs)
    BY <1>10, FocusHere DEF AllTakes, Takes
  <2>2. FieldsOK'
    BY <1>10 DEF AllTakes, TypeInv, TypeOK, FieldsOK
  <2>3. got \in OutcomeSet /\ (got.kind = "resolved" => got.val \in Values \cup {NullValue})
    BY <2>1, ReadType DEF TypeInv
  <2>4. ASSUME got.kind = "resolved"
        PROVE  /\ all \in Seq(Values \cup {NullValue}) /\ Len(all) = Len(values[t]) + 1
               /\ Outcome("resolvedAll", all) \in OutcomeSet
    <3>1. values[t] \in Seq(Values \cup {NullValue})
      BY DEF TypeInv, TypeOK
    <3>2. all \in Seq(Values \cup {NullValue}) /\ Len(all) = Len(values[t]) + 1
      BY <2>3, <2>4, <3>1, AppendProperties
    <3> QED
      BY <3>2 DEF Outcome, OutcomeSet, OutcomeKinds
  <2>5. CASE got.kind = "rejected" /\ Finish(t, got)
    BY <2>2, <2>3, <2>5, FinishType
  <2>6. CASE got.kind = "resolved" /\ Finish(t, Outcome("resolvedAll", all))
    BY <2>2, <2>4, <2>6, FinishType
  <2>7. CASE /\ got.kind = "resolved" /\ pos[t] < Len(call[t].futs)
             /\ pos' = [pos EXCEPT ![t] = @ + 1]
             /\ values' = [values EXCEPT ![t] = all]
             /\ Goto(t, "look")
             /\ UNCHANGED <<call, ret, early, budget, spurious>>
    <3>1. all \in Seq(Values \cup {NullValue}) /\ Len(all) = Len(values[t]) + 1
      BY <2>4, <2>7
    <3>2. \A u \in Threads :
            /\ pos'[u] = IF u = t THEN pos[t] + 1 ELSE pos[u]
            /\ values'[u] = IF u = t THEN all ELSE values[u]
            /\ pc'[u] = IF u = t THEN "look" ELSE pc[u]
      BY <2>7 DEF Goto, TypeInv, TypeOK
    <3>3. /\ pc' \in [Threads -> {"idle", "lock", "test", "storeState", "storeValue",
                                  "look", "wait", "take", "poll", "peek"}]
          /\ pos' \in [Threads -> Nat \ {0}]
          /\ values' \in [Threads -> Seq(Values \cup {NullValue})]
      BY <2>7, <3>1 DEF Goto, TypeInv, TypeOK
    <3>4. call[t].method = "all" /\ Len(values[t]) = pos[t] - 1 /\ pos[t] \in Nat
      BY <1>10 DEF AllTakes, Takes, TypeInv, TypeOK
    <3>5. TypeOK'
      <4>1. \A u \in Threads :
              pc'[u] # "idle" => pos'[u] \in 1 .. Len(call'[u].futs) \/ call'[u].futs = <<>>
        BY <2>1, <2>7, <3>2 DEF TypeInv, TypeOK
      <4>2. \A u \in Threads : Len(values'[u]) = pos'[u] - 1 \/ call'[u].method = "race"
        BY <2>7, <3>1, <3>2, <3>4 DEF TypeInv, TypeOK
      <4> QED
        BY <2>2, <2>7, <3>3, <4>1, <4>2 DEF TypeInv, TypeOK, FieldsOK
    <3>6. pc[t] # "idle"
      BY <1>10 DEF AllTakes, Takes
    <3>7. ControlInv'
      BY <2>7, <3>2, <3>4, <3>6 DEF TypeInv, ControlInv, Settles, Locked, Looking, Waiters
    <3> QED
      BY <3>5, <3>7 DEF TypeInv
  <2> QED
    BY <1>10, <2>5, <2>6, <2>7 DEF AllTakes, Collect
<1>11. ASSUME NEW t \in Threads, RacePolls(t)
       PROVE  TypeInv'
  <2>1. /\ call[t] \in Programs[t] /\ call[t].futs \in Seq(Futures)
        /\ pos[t] \in 1 .. Len(call[t].futs) /\ Focus(t) \in Futures
    BY <1>11, FocusType DEF RacePolls
  <2>2. FieldsOK'
    BY <1>11 DEF RacePolls, TypeInv, TypeOK, FieldsOK
  <2>3. CASE Finish(t, ReadOutcome(Focus(t)))
    BY <2>1, <2>2, <2>3, FinishType, ReadType DEF TypeInv
  <2>4. CASE PollNext(t) /\ UNCHANGED <<pc, call, values, ret, early, budget, spurious>>
    <3>1. (pos[t] % Len(call[t].futs)) + 1 \in 1 .. Len(call[t].futs)
      BY <2>1, LenProperties
    <3>2. /\ pos' \in [Threads -> Nat \ {0}] /\ pos'[t] \in 1 .. Len(call[t].futs)
          /\ \A u \in Threads \ {t} : pos'[u] = pos[u]
      BY <2>4, <3>1 DEF PollNext, TypeInv, TypeOK
    <3>3. call[t].method = "race" /\ pc[t] = "poll"
      BY <1>11 DEF RacePolls, TypeInv, ControlInv
    <3>4. TypeOK'
      <4>1. \A u \in Threads :
              pc'[u] # "idle" => pos'[u] \in 1 .. Len(call'[u].futs) \/ call'[u].futs = <<>>
        BY <2>4, <3>2 DEF TypeInv, TypeOK
      <4>2. \A u \in Threads : Len(values'[u]) = pos'[u] - 1 \/ call'[u].method = "race"
        BY <2>4, <3>2, <3>3 DEF TypeInv, TypeOK
      <4> QED
        BY <2>2, <2>4, <3>2, <4>1, <4>2 DEF TypeInv, TypeOK, FieldsOK
    <3>5. ControlInv'
      BY <2>4, <3>2, <3>3 DEF TypeInv, ControlInv, Settles
    <3> QED
      BY <3>4, <3>5 DEF TypeInv
  <2> QED
    BY <1>11, <2>3, <2>4 DEF RacePolls
<1>12. ASSUME UNCHANGED vars
       PROVE  TypeInv'
  BY <1>12 DEF vars, threads, TypeInv, TypeOK, ControlInv, Settles
<1> QED
  BY <1>1, <1>2, <1>3, <1>4, <1>5, <1>6, <1>7, <1>8, <1>9, <1>10, <1>11, <1>12
     DEF Next, Step

-----------------------------------------------------------------------------
\* What a step changes

\* The other threads' program counters, calls and outcomes.
OthersStay(t) ==
    \A u \in Threads \ {t} :
        /\ pc'[u] = pc[u] /\ call'[u] = call[u] /\ pos'[u] = pos[u]
        /\ values'[u] = values[u] /\ ret'[u] = ret[u] /\ early'[u] = early[u]

\* A step of one thread does not move another one.
LEMMA StepIsLocal ==
    ASSUME TypeInv, NEW t \in Threads, Step(t) \/ \E c \in Programs[t] : Begin(t, c)
    PROVE  OthersStay(t)
<1> USE DEF OthersStay, TypeInv, TypeOK, Finish, Goto
<1>1. CASE \E c \in Programs[t] : Begin(t, c)
  BY <1>1 DEF Begin
<1>2. CASE Lock(t) \/ AlreadySettled(t) \/ FirstStore(t)
  BY <1>2 DEF Lock, AlreadySettled, FirstStore
<1>3. CASE SecondStore(t) \/ Look(t) \/ Sleep(t) \/ StopWaiting(t)
  BY <1>3 DEF SecondStore, Look, Sleep, StopWaiting
<1>4. CASE AwaitEnds(t) \/ ThenOrCatchEnds(t)
  BY <1>4 DEF AwaitEnds, ThenOrCatchEnds
<1>5. CASE AllTakes(t)
  BY <1>5 DEF AllTakes
<1>6. CASE AllOfNone(t) \/ RacePolls(t) \/ RaceOfNone(t) \/ IsReady(t)
  BY <1>6 DEF AllOfNone, RacePolls, PollNext, RaceOfNone, IsReady
<1> QED
  BY <1>1, <1>2, <1>3, <1>4, <1>5, <1>6 DEF Step

\* At first nobody holds a mutex.
LEMMA LockInit == Init => LockInv
BY FutureAssumption DEF Init, LockInv, Locked

\* Each step keeps the owners of the mutexes.
LEMMA LockStep == TypeInv /\ LockInv /\ [Next]_vars => LockInv'
<1> SUFFICES ASSUME TypeInv, LockInv, [Next]_vars PROVE LockInv'
  OBVIOUS
<1>1. ASSUME NEW t \in Threads, OthersStay(t), mtx' = mtx,
             pc[t] \notin Locked, pc'[t] \notin Locked
      PROVE  LockInv'
  BY <1>1 DEF LockInv, OthersStay, Focus
<1>2. ASSUME NEW t \in Threads, OthersStay(t), pc[t] \in Locked, pc'[t] \notin Locked,
             mtx' = [mtx EXCEPT ![Focus(t)] = NoThread]
      PROVE  LockInv'
  <2>1. Focus(t) \in Futures /\ mtx[Focus(t)] = t
    BY <1>2, FocusHere DEF LockInv
  <2>2. \A f \in Futures : mtx'[f] = IF f = Focus(t) THEN NoThread ELSE mtx[f]
    BY <1>2, <2>1 DEF TypeInv, TypeOK
  <2>3. ASSUME NEW u \in Threads, NEW f \in Futures
        PROVE  mtx'[f] = u <=> pc'[u] \in Locked /\ Focus(u)' = f
    <3>1. u # NoThread
      BY FutureAssumption
    <3>2. CASE u = t
      BY <1>2, <2>2, <3>1, <3>2 DEF LockInv
    <3>3. CASE u # t
      <4>1. pc'[u] = pc[u] /\ Focus(u)' = Focus(u)
        BY <1>2, <3>3 DEF OthersStay, Focus
      <4> QED
        BY <2>1, <2>2, <3>1, <3>3, <4>1 DEF LockInv
    <3> QED
      BY <3>2, <3>3
  <2> QED
    BY <2>3 DEF LockInv
<1>3. ASSUME NEW t \in Threads, NEW c \in Programs[t], Begin(t, c)
      PROVE  LockInv'
  <2>1. pc[t] = "idle" /\ mtx' = mtx
    BY <1>3 DEF Begin
  <2>2. pc'[t] \notin Locked
    <3>1. c.method \in Settlers \cup Waiters \cup {"race", "isReady"}
      BY ProgramsAssumption DEF Settlers, Waiters
    <3> QED
      BY <1>3, <3>1 DEF Begin, Locked, TypeInv, TypeOK, Settlers, Waiters
  <2> QED
    BY <1>1, <1>3, <2>1, <2>2, StepIsLocal DEF Locked
<1>4. ASSUME NEW t \in Threads, NEW f \in Futures, WakeSpuriously(t, f)
      PROVE  LockInv'
  BY <1>4 DEF WakeSpuriously, threads, LockInv, Focus
<1>5. ASSUME NEW t \in Threads, Lock(t)
      PROVE  LockInv'
  <2>1. Focus(t) \in Futures /\ mtx[Focus(t)] = NoThread
    BY <1>5, FocusHere DEF Lock
  <2>2. /\ mtx' = [mtx EXCEPT ![Focus(t)] = t] /\ pc'[t] = "test" /\ pc[t] \notin Locked
        /\ call' = call /\ pos' = pos
    BY <1>5 DEF Lock, Goto, Locked, TypeInv, TypeOK
  <2>3. OthersStay(t)
    BY <1>5, StepIsLocal DEF Step
  <2>4. \A u \in Threads : Focus(u)' = Focus(u)
    BY <2>2 DEF Focus
  <2>5. \A f \in Futures : mtx'[f] = IF f = Focus(t) THEN t ELSE mtx[f]
    BY <2>1, <2>2 DEF TypeInv, TypeOK
  <2>6. ASSUME NEW u \in Threads, NEW f \in Futures
        PROVE  mtx'[f] = u <=> pc'[u] \in Locked /\ Focus(u)' = f
    <3>1. CASE u = t
      BY <2>2, <2>4, <2>5, <3>1 DEF LockInv, Locked
    <3>2. CASE u # t
      <4>1. pc'[u] = pc[u]
        BY <2>3, <3>2 DEF OthersStay
      <4>2. mtx[Focus(t)] # u
        BY <2>1, FutureAssumption
      <4> QED
        BY <2>1, <2>4, <2>5, <3>2, <4>1, <4>2 DEF LockInv
    <3> QED
      BY <3>1, <3>2
  <2> QED
    BY <2>6 DEF LockInv
<1>6. ASSUME NEW t \in Threads, FirstStore(t)
      PROVE  LockInv'
  <2>1. /\ mtx' = mtx /\ pc[t] \in Locked /\ pc'[t] \in Locked /\ call' = call /\ pos' = pos
    BY <1>6 DEF FirstStore, Goto, Locked, TypeInv, TypeOK
  <2>2. OthersStay(t)
    BY <1>6, StepIsLocal DEF Step
  <2> QED
    BY <2>1, <2>2 DEF LockInv, OthersStay, Focus
<1>7. ASSUME NEW t \in Threads, AlreadySettled(t) \/ SecondStore(t) \/ Sleep(t) \/ StopWaiting(t)
      PROVE  LockInv'
  <2>1. /\ pc[t] \in Locked /\ pc'[t] \notin Locked
        /\ mtx' = [mtx EXCEPT ![Focus(t)] = NoThread]
    BY <1>7 DEF AlreadySettled, SecondStore, Sleep, StopWaiting, Finish, Goto, Locked,
                TypeInv, TypeOK
  <2>2. OthersStay(t)
    BY <1>7, StepIsLocal DEF Step
  <2> QED
    BY <1>2, <2>1, <2>2
<1>8. ASSUME NEW t \in Threads,
             \/ Look(t) \/ AwaitEnds(t) \/ ThenOrCatchEnds(t) \/ AllTakes(t) \/ AllOfNone(t)
             \/ RacePolls(t) \/ RaceOfNone(t) \/ IsReady(t)
      PROVE  LockInv'
  <2>1. mtx' = mtx
    BY <1>8 DEF Look, AwaitEnds, ThenOrCatchEnds, AllTakes, AllOfNone, RacePolls, RaceOfNone,
                IsReady
  <2>2. pc[t] \in {"look", "take", "poll", "peek"}
    BY <1>8 DEF Look, AwaitEnds, ThenOrCatchEnds, AllTakes, Takes, AllOfNone, RacePolls,
                RaceOfNone, IsReady
  <2>3. pc'[t] \in {"lock", "take", "idle", "look", "poll"}
    <3>1. CASE Look(t)
      BY <3>1 DEF Look, Goto, TypeInv, TypeOK
    <3>2. CASE AllTakes(t)
      BY <3>2 DEF AllTakes, Finish, Goto, TypeInv, TypeOK
    <3>3. CASE AwaitEnds(t) \/ ThenOrCatchEnds(t) \/ AllOfNone(t)
      BY <3>3 DEF AwaitEnds, ThenOrCatchEnds, AllOfNone, Finish, TypeInv, TypeOK
    <3>4. CASE RacePolls(t) \/ RaceOfNone(t) \/ IsReady(t)
      BY <2>2, <3>4 DEF RacePolls, RaceOfNone, IsReady, Finish, TypeInv, TypeOK
    <3> QED
      BY <1>8, <3>1, <3>2, <3>3, <3>4
  <2>4. OthersStay(t)
    BY <1>8, StepIsLocal DEF Step
  <2> QED
    BY <1>1, <2>1, <2>2, <2>3, <2>4 DEF Locked
<1>9. ASSUME UNCHANGED vars
      PROVE  LockInv'
  BY <1>9 DEF vars, threads, LockInv, Focus
<1> QED
  BY <1>3, <1>4, <1>5, <1>6, <1>7, <1>8, <1>9 DEF Next, Step

-----------------------------------------------------------------------------
\* Futures and what is read from them, with the stores in order

DataInv == TypeInv /\ LockInv /\ SettledInv /\ StoreInv

\* At first all futures are pending.
LEMMA DataInit == Init => SettledInv /\ StoreInv
BY DEF Init, SettledInv, StoreInv, Pending

\* Which steps write to a future: the first store of a call writes the value,
\* the second one the state, both while the future is pending.
FirstWrites(t) ==
    /\ pc[t] = "test" /\ pc'[t] = "storeState"
    /\ Settles(t) /\ Pending(Focus(t)) /\ StoreValue(t) /\ UNCHANGED state

SecondWrites(t) ==
    /\ pc[t] = "storeState" /\ pc'[t] = "idle"
    /\ Settles(t) /\ Pending(Focus(t)) /\ StoreState(t) /\ UNCHANGED <<result, error>>

\* Every step is the first store or the second store, or leaves the futures alone.
LEMMA Writes ==
    ASSUME ReorderStores = FALSE, TypeInv, StoreInv, NEW t \in Threads,
           Step(t) \/ \E c \in Programs[t] : Begin(t, c)
    PROVE  \/ FirstWrites(t) \/ SecondWrites(t)
           \/ UNCHANGED fields /\ pc'[t] # "storeState" /\ pc'[t] # "storeValue"
<1>1. CASE \E c \in Programs[t] : Begin(t, c)
  <2>1. PICK c \in Programs[t] : Begin(t, c)
    BY <1>1
  <2>2. c.method \in Settlers \cup Waiters \cup {"race", "isReady"}
    BY ProgramsAssumption DEF Settlers, Waiters
  <2> QED
    BY <2>1, <2>2 DEF Begin, TypeInv, TypeOK, Settlers, Waiters
<1>2. CASE Lock(t) \/ AlreadySettled(t) \/ Look(t) \/ Sleep(t) \/ StopWaiting(t)
  BY <1>2 DEF Lock, AlreadySettled, Look, Sleep, StopWaiting, Finish, Goto, TypeInv, TypeOK
<1>3. CASE FirstStore(t)
  BY <1>3 DEF FirstStore, FirstWrites, MaySettle, Goto, TypeInv, TypeOK
<1>4. CASE SecondStore(t)
  <2>1. pc[t] # "storeValue"
    BY DEF StoreInv
  <2>2. pc[t] = "storeState" /\ Settles(t) /\ Pending(Focus(t))
    BY <1>4, <2>1 DEF SecondStore, StoreInv, TypeInv, ControlInv
  <2> QED
    BY <1>4, <2>1, <2>2 DEF SecondStore, SecondWrites, Finish, TypeInv, TypeOK
<1>5. CASE AwaitEnds(t) \/ ThenOrCatchEnds(t) \/ AllOfNone(t) \/ RaceOfNone(t) \/ IsReady(t)
  BY <1>5 DEF AwaitEnds, ThenOrCatchEnds, AllOfNone, RaceOfNone, IsReady, Finish,
              TypeInv, TypeOK
<1>6. CASE AllTakes(t)
  BY <1>6 DEF AllTakes, Finish, Goto, TypeInv, TypeOK
<1>7. CASE RacePolls(t)
  BY <1>7 DEF RacePolls, Finish, TypeInv, TypeOK
<1> QED
  BY <1>1, <1>2, <1>3, <1>4, <1>5, <1>6, <1>7 DEF Step

\* The value and the state that a call of resolve or reject writes.
LEMMA SettlerWrites ==
    ASSUME TypeInv, NEW t \in Threads, pc[t] \in Locked, Settles(t)
    PROVE  /\ Focus(t) \in Futures
           /\ \/ call[t].method = "resolve" /\ call[t].val \in Values
              \/ call[t].method = "reject" /\ call[t].val \in Errors
           /\ StoreValue(t) =>
                /\ \A f \in Futures \ {Focus(t)} : result'[f] = result[f] /\ error'[f] = error[f]
                /\ call[t].method = "resolve" => result'[Focus(t)] = call[t].val
                /\ call[t].method = "reject" => error'[Focus(t)] = call[t].val
           /\ StoreState(t) =>
                /\ \A f \in Futures \ {Focus(t)} : state'[f] = state[f]
                /\ call[t].method = "resolve" => state'[Focus(t)] = "resolved"
                /\ call[t].method = "reject" => state'[Focus(t)] = "rejected"
<1>1. call[t] \in Programs[t] /\ call[t].method \in {"resolve", "reject"}
  BY DEF TypeInv, ControlInv, Settles, Settlers, Locked
<1>2. Focus(t) \in Futures
  BY FocusHere
<1>3. \/ call[t].method = "resolve" /\ call[t].val \in Values
      \/ call[t].method = "reject" /\ call[t].val \in Errors
  BY <1>1, ProgramsAssumption
<1>4. /\ StoreValue(t) =>
          /\ \A f \in Futures \ {Focus(t)} : result'[f] = result[f] /\ error'[f] = error[f]
          /\ call[t].method = "resolve" => result'[Focus(t)] = call[t].val
          /\ call[t].method = "reject" => error'[Focus(t)] = call[t].val
  BY <1>2, <1>3 DEF StoreValue, TypeInv, TypeOK
<1>5. /\ StoreState(t) =>
          /\ \A f \in Futures \ {Focus(t)} : state'[f] = state[f]
          /\ call[t].method = "resolve" => state'[Focus(t)] = "resolved"
          /\ call[t].method = "reject" => state'[Focus(t)] = "rejected"
  BY <1>2, <1>3 DEF StoreState, TypeInv, TypeOK
<1> QED
  BY <1>2, <1>3, <1>4, <1>5

\* A settled future keeps its state, its result and its error.
Kept(f) == state'[f] = state[f] /\ result'[f] = result[f] /\ error'[f] = error[f]

LEMMA SettledStays ==
    ASSUME ReorderStores = FALSE, DataInv, [Next]_vars
    PROVE  \A f \in Futures : ~Pending(f) => Kept(f)
<1>1. ASSUME NEW t \in Threads, Step(t) \/ \E c \in Programs[t] : Begin(t, c)
      PROVE  \A f \in Futures : ~Pending(f) => Kept(f)
  <2>1. CASE FirstWrites(t)
    BY <2>1, SettlerWrites DEF FirstWrites, Locked, Kept, DataInv, Pending
  <2>2. CASE SecondWrites(t)
    BY <2>2, SettlerWrites DEF SecondWrites, Locked, Kept, DataInv, Pending
  <2>3. CASE UNCHANGED fields
    BY <2>3 DEF fields, Kept
  <2> QED
    BY <1>1, <2>1, <2>2, <2>3, Writes DEF DataInv
<1>2. ASSUME NEW t \in Threads, NEW f \in Futures, WakeSpuriously(t, f)
      PROVE  UNCHANGED fields
  BY <1>2 DEF WakeSpuriously
<1>3. UNCHANGED fields => \A f \in Futures : ~Pending(f) => Kept(f)
  BY DEF fields, Kept
<1> QED
  BY <1>1, <1>2, <1>3 DEF Next, vars

\* The stores keep each other's invariants: two threads that settle the same
\* future exclude each other by its mutex.
LEMMA DataStep ==
    ASSUME ReorderStores = FALSE, DataInv, [Next]_vars
    PROVE  SettledInv' /\ StoreInv'
<1>0. TypeInv /\ LockInv /\ SettledInv /\ StoreInv
  BY DEF DataInv
<1>1. ASSUME UNCHANGED <<fields, pc, call, pos>>
      PROVE  SettledInv' /\ StoreInv'
  BY <1>0, <1>1 DEF fields, SettledInv, StoreInv, Pending, Focus
<1>2. ASSUME NEW t \in Threads, Step(t) \/ \E c \in Programs[t] : Begin(t, c)
      PROVE  SettledInv' /\ StoreInv'
  <2>1. OthersStay(t)
    BY <1>0, <1>2, StepIsLocal
  <2>2. \A f \in Futures : ~Pending(f) => Kept(f)
    BY SettledStays
  <2>3. \/ FirstWrites(t) \/ SecondWrites(t)
        \/ UNCHANGED fields /\ pc'[t] # "storeState" /\ pc'[t] # "storeValue"
    BY <1>0, <1>2, Writes
  <2>4. SettledInv'
    <3>1. CASE FirstWrites(t)
      BY <1>0, <2>2, <3>1, SettlerWrites
         DEF FirstWrites, Locked, SettledInv, Pending, Kept
    <3>2. CASE SecondWrites(t)
      <4>1. /\ call[t].method = "resolve" => result[Focus(t)] = call[t].val
            /\ call[t].method = "reject" => error[Focus(t)] = call[t].val
        BY <1>0, <3>2 DEF SecondWrites, StoreInv
      <4> QED
        BY <1>0, <2>2, <3>2, <4>1, SettlerWrites
           DEF SecondWrites, Locked, SettledInv, Pending, Kept
    <3>3. CASE UNCHANGED fields
      BY <1>0, <3>3 DEF fields, SettledInv
    <3> QED
      BY <2>3, <3>1, <3>2, <3>3
  <2>5. ASSUME NEW u \in Threads \ {t}
        PROVE  /\ pc'[u] # "storeValue"
               /\ pc'[u] = "storeState" =>
                     /\ Pending(Focus(u))'
                     /\ call'[u].method = "resolve" => (result[Focus(u)])' = call'[u].val
                     /\ call'[u].method = "reject" => (error[Focus(u)])' = call'[u].val
               /\ pc'[u] = "take" => ~Pending(Focus(u))'
    <3>1. pc'[u] = pc[u] /\ call'[u] = call[u] /\ Focus(u)' = Focus(u)
      BY <2>1 DEF OthersStay, Focus
    <3>2. ASSUME pc[u] = "take"
          PROVE  ~Pending(Focus(u))'
      <4>1. Focus(u) \in Futures /\ ~Pending(Focus(u))
        BY <1>0, <3>2, FocusHere DEF StoreInv
      <4> QED
        BY <2>2, <3>1, <4>1 DEF Kept, Pending
    <3>3. ASSUME pc[u] = "storeState"
          PROVE  /\ Pending(Focus(u))'
                 /\ call'[u].method = "resolve" => (result[Focus(u)])' = call'[u].val
                 /\ call'[u].method = "reject" => (error[Focus(u)])' = call'[u].val
      <4>1. Focus(u) \in Futures /\ mtx[Focus(u)] = u
        BY <1>0, <3>3, FocusHere DEF LockInv, Locked
      <4>2. ASSUME pc[t] \in Locked
            PROVE  Focus(t) \in Futures /\ Focus(t) # Focus(u)
        BY <1>0, <4>1, <4>2, FocusHere DEF LockInv
      <4>3. Kept(Focus(u))
        <5>1. CASE FirstWrites(t)
          BY <1>0, <4>1, <4>2, <5>1, SettlerWrites DEF FirstWrites, Locked, Kept
        <5>2. CASE SecondWrites(t)
          BY <1>0, <4>1, <4>2, <5>2, SettlerWrites DEF SecondWrites, Locked, Kept
        <5>3. CASE UNCHANGED fields
          BY <5>3 DEF fields, Kept
        <5> QED
          BY <2>3, <5>1, <5>2, <5>3
      <4> QED
        BY <1>0, <3>1, <3>3, <4>3 DEF StoreInv, Kept, Pending
    <3> QED
      BY <1>0, <3>1, <3>2, <3>3 DEF StoreInv
  <2>6. /\ pc'[t] # "storeValue"
        /\ pc'[t] = "storeState" =>
              /\ Pending(Focus(t))'
              /\ call'[t].method = "resolve" => (result[Focus(t)])' = call'[t].val
              /\ call'[t].method = "reject" => (error[Focus(t)])' = call'[t].val
    <3>1. CASE FirstWrites(t)
      <4>1. FirstStore(t)
        BY <1>2, <3>1 DEF FirstWrites, Step, Lock, AlreadySettled, SecondStore, Look, Sleep,
                StopWaiting, AwaitEnds, ThenOrCatchEnds, AllTakes, Takes, AllOfNone, RacePolls,
                RaceOfNone, IsReady, Begin, Pending
      <4>2. call' = call /\ Focus(t)' = Focus(t)
        BY <4>1 DEF FirstStore, Focus
      <4> QED
        BY <1>0, <3>1, <4>2, SettlerWrites DEF FirstWrites, Locked, Pending
    <3>2. CASE SecondWrites(t)
      BY <3>2 DEF SecondWrites
    <3> QED
      BY <2>3, <3>1, <3>2
  <2>7. pc'[t] = "take" => ~Pending(Focus(t))'
    <3>1. SUFFICES ASSUME pc'[t] = "take" PROVE ~Pending(Focus(t))'
      OBVIOUS
    <3>2. Look(t) \/ StopWaiting(t)
      <4>1. \A c \in Programs[t] : ~Begin(t, c)
        <5>1. \A c \in Programs[t] : c.method \in Settlers \cup Waiters \cup {"race", "isReady"}
          BY ProgramsAssumption DEF Settlers, Waiters
        <5> QED
          BY <1>0, <3>1, <5>1 DEF Begin, TypeInv, TypeOK, Settlers, Waiters
      <4>2. ~(Lock(t) \/ AlreadySettled(t) \/ FirstStore(t) \/ SecondStore(t) \/ Sleep(t))
        BY <1>0, <3>1 DEF Lock, AlreadySettled, FirstStore, SecondStore, Sleep, Finish, Goto,
              TypeInv, TypeOK
      <4>3. ~(AwaitEnds(t) \/ ThenOrCatchEnds(t) \/ AllTakes(t))
        BY <1>0, <3>1 DEF AwaitEnds, ThenOrCatchEnds, AllTakes, Finish, Goto,
              TypeInv, TypeOK
      <4>4. ~(AllOfNone(t) \/ RacePolls(t) \/ RaceOfNone(t) \/ IsReady(t))
        BY <1>0, <3>1 DEF AllOfNone, RacePolls, RaceOfNone, IsReady, Finish,
              TypeInv, TypeOK
      <4> QED
        BY <1>2, <4>1, <4>2, <4>3, <4>4 DEF Step
    <3>3. /\ ~Pending(Focus(t)) /\ UNCHANGED <<fields, call, pos>>
      BY <1>0, <3>1, <3>2 DEF Look, StopWaiting, Goto, TypeInv, TypeOK
    <3> QED
      BY <3>3 DEF fields, Pending, Focus
  <2>8. StoreInv'
    BY <2>5, <2>6, <2>7 DEF StoreInv
  <2> QED
    BY <2>4, <2>8
<1>3. ASSUME NEW t \in Threads, NEW f \in Futures, WakeSpuriously(t, f)
      PROVE  UNCHANGED <<fields, pc, call, pos>>
  BY <1>3 DEF WakeSpuriously, threads
<1>4. UNCHANGED vars => UNCHANGED <<fields, pc, call, pos>>
  BY DEF vars, threads
<1> QED
  BY <1>1, <1>2, <1>3, <1>4 DEF Next

-----------------------------------------------------------------------------
\* all and race on their way through the array

\* Where the position of a thread in its array may go: back to the first
\* element, or past one that all has collected or that race found pending.
Advances(t) ==
    \/ /\ call[t].method = "all" /\ state[Focus(t)] = "resolved"
       /\ values' = [values EXCEPT ![t] = Append(@, result[Focus(t)])]
    \/ call[t].method = "race" /\ Pending(Focus(t))

Moves(t) ==
    \/ call'[t] = call[t] /\ pos'[t] = pos[t] /\ values'[t] = values[t]
    \/ pos'[t] = 1
    \/ /\ call'[t] = call[t] /\ pos'[t] = pos[t] + 1 /\ UNCHANGED fields
       /\ Focus(t) \in Futures /\ Advances(t)

\* The index after the last one is the first.
LEMMA WrapAround ==
    ASSUME NEW n \in Nat, NEW k \in 1 .. n
    PROVE  /\ k < n => (k % n) + 1 = k + 1
           /\ k = n => (k % n) + 1 = 1
OBVIOUS

\* Every step moves the position in one of these ways.
LEMMA StepMoves ==
    ASSUME DataInv, NEW t \in Threads, Step(t) \/ \E c \in Programs[t] : Begin(t, c)
    PROVE  Moves(t)
<1>0. TypeInv /\ StoreInv
  BY DEF DataInv
<1>1. CASE \E c \in Programs[t] : Begin(t, c)
  BY <1>0, <1>1 DEF Begin, Moves, TypeInv, ControlInv
<1>2. CASE Lock(t) \/ FirstStore(t) \/ Look(t) \/ Sleep(t) \/ StopWaiting(t)
  BY <1>2 DEF Lock, FirstStore, Look, Sleep, StopWaiting, Moves
<1>3. ASSUME NEW o, Finish(t, o)
      PROVE  Moves(t)
  BY <1>0, <1>3 DEF Finish, Moves, TypeInv, TypeOK
<1>4. CASE AlreadySettled(t) \/ SecondStore(t) \/ AwaitEnds(t) \/ ThenOrCatchEnds(t)
              \/ AllOfNone(t) \/ RaceOfNone(t) \/ IsReady(t)
  BY <1>3, <1>4 DEF AlreadySettled, SecondStore, AwaitEnds, ThenOrCatchEnds, AllOfNone,
                    RaceOfNone, IsReady
<1>5. CASE AllTakes(t)
  <2>1. /\ Focus(t) \in Futures /\ pos[t] \in Nat /\ UNCHANGED fields
        /\ call[t].method = "all" /\ ~Pending(Focus(t))
    BY <1>0, <1>5, FocusHere DEF AllTakes, Takes, StoreInv
  <2>2. CASE \E o : Finish(t, o)
    BY <1>3, <2>2
  <2>3. CASE /\ ReadOutcome(Focus(t)).kind = "resolved"
             /\ pos' = [pos EXCEPT ![t] = @ + 1]
             /\ values' = [values EXCEPT ![t] = Append(@, ReadOutcome(Focus(t)).val)]
             /\ UNCHANGED call
    <3>1. /\ state[Focus(t)] = "resolved" /\ ReadOutcome(Focus(t)).val = result[Focus(t)]
      BY <1>0, <2>1, <2>3 DEF ReadOutcome, Outcome, Pending, TypeInv, TypeOK
    <3> QED
      BY <1>0, <2>1, <2>3, <3>1 DEF Moves, Advances, TypeInv, TypeOK
  <2> QED
    BY <1>5, <2>2, <2>3 DEF AllTakes, Collect
<1>6. CASE RacePolls(t)
  <2>1. CASE \E o : Finish(t, o)
    BY <1>3, <2>1
  <2>2. CASE ~Won(t) /\ PollNext(t) /\ UNCHANGED <<call, values>>
    <3>1. /\ pos[t] \in 1 .. Len(call[t].futs) /\ Focus(t) \in Futures
          /\ Len(call[t].futs) \in Nat
      BY <1>0, <1>6, FocusType, LenProperties DEF RacePolls
    <3>2. UNCHANGED fields /\ call[t].method = "race" /\ Pending(Focus(t))
      BY <1>0, <1>6, <2>2 DEF RacePolls, Won, TypeInv, ControlInv
    <3>3. pos'[t] = (pos[t] % Len(call[t].futs)) + 1
      BY <1>0, <2>2 DEF PollNext, TypeInv, TypeOK
    <3>4. CASE pos[t] < Len(call[t].futs)
      <4>1. pos'[t] = pos[t] + 1
        BY <3>1, <3>3, <3>4, WrapAround
      <4> QED
        BY <2>2, <3>1, <3>2, <4>1 DEF Moves, Advances
    <3>5. CASE pos[t] = Len(call[t].futs)
      <4>1. pos'[t] = 1
        BY <3>1, <3>3, <3>5, WrapAround
      <4> QED
        BY <4>1 DEF Moves
    <3> QED
      BY <3>1, <3>4, <3>5
  <2> QED
    BY <1>6, <2>1, <2>2 DEF RacePolls
<1> QED
  BY <1>1, <1>2, <1>4, <1>5, <1>6 DEF Step

\* The array of a call that was made has futures of the program in it.
LEMMA CallFutures ==
    ASSUME TypeOK, NEW t \in Threads, call[t].method # "none"
    PROVE  /\ call[t].futs \in Seq(Futures) /\ Len(call[t].futs) \in Nat
           /\ DOMAIN call[t].futs = 1 .. Len(call[t].futs)
           /\ \A k \in 1 .. Len(call[t].futs) : call[t].futs[k] \in Futures
           /\ call[t].method \notin {"all", "race"} => Len(call[t].futs) = 1
<1>1. PICK u \in Threads : call[t] \in Programs[u]
  BY DEF TypeOK, NoCall, Call
<1>2. /\ call[t].futs \in Seq(Futures)
      /\ call[t].method \notin {"all", "race"} => Len(call[t].futs) = 1
  BY <1>1, ProgramsAssumption
<1> QED
  BY <1>2, LenProperties, ElementOfSeq

\* The positions before the current one are positions of the array.
LEMMA PassedPositions ==
    ASSUME TypeInv, NEW t \in Threads, call[t].method # "none",
           NEW j \in 1 .. pos[t] - 1, call[t].futs # <<>>
    PROVE  j \in 1 .. Len(call[t].futs) /\ call[t].futs[j] \in Futures
<1>1. pos[t] \in Nat /\ pos[t] > 1
  BY DEF TypeInv, TypeOK
<1>2. pc[t] # "idle"
  BY <1>1 DEF TypeInv, ControlInv
<1>3. pos[t] \in 1 .. Len(call[t].futs) /\ Len(call[t].futs) \in Nat
  BY <1>2, CallFutures DEF TypeInv, TypeOK
<1>4. j \in 1 .. Len(call[t].futs)
  BY <1>3
<1> QED
  BY <1>4, CallFutures DEF TypeInv

\* What all has collected stays, and what it adds is the result it looked at.
LEMMA CollectStep ==
    ASSUME ReorderStores = FALSE, DataInv, CollectInv, [Next]_vars
    PROVE  CollectInv'
<1>0. TypeInv /\ TypeOK
  BY DEF DataInv, TypeInv
<1>1. \A f \in Futures : ~Pending(f) => Kept(f)
  BY SettledStays
<1>2. ASSUME NEW u \in Threads, call'[u] = call[u], pos'[u] = pos[u], values'[u] = values[u],
             call[u].method = "all", call[u].futs # <<>>, NEW j \in 1 .. pos[u] - 1
      PROVE  /\ state'[call'[u].futs[j]] = "resolved"
             /\ values'[u][j] = result'[call'[u].futs[j]]
  <2>1. state[call[u].futs[j]] = "resolved" /\ values[u][j] = result[call[u].futs[j]]
    BY <1>2 DEF CollectInv
  <2>3. call[u].futs[j] \in Futures
    BY <1>0, <1>2, PassedPositions
  <2> QED
    BY <1>1, <1>2, <2>1, <2>3 DEF Kept, Pending
<1>3. ASSUME NEW t \in Threads, call'[t] = call[t], pos'[t] = pos[t] + 1, UNCHANGED fields,
             Focus(t) \in Futures, Advances(t), call[t].method = "all",
             NEW j \in 1 .. pos'[t] - 1, call[t].futs # <<>>
      PROVE  /\ state'[call'[t].futs[j]] = "resolved"
             /\ values'[t][j] = result'[call'[t].futs[j]]
  <2>1. /\ pos[t] \in Nat \ {0} /\ Len(values[t]) = pos[t] - 1
        /\ values[t] \in Seq(Values \cup {NullValue})
        /\ result[Focus(t)] \in Values \cup {NullValue}
    BY <1>0, <1>3 DEF TypeOK
  <2>2. values'[t] = Append(values[t], result[Focus(t)]) /\ state[Focus(t)] = "resolved"
    BY <1>0, <1>3 DEF Advances, TypeOK
  <2>3. CASE j = pos[t]
    BY <1>3, <2>1, <2>2, <2>3, AppendProperties DEF Focus, fields
  <2>4. CASE j \in 1 .. pos[t] - 1
    <3>1. state[call[t].futs[j]] = "resolved" /\ values[t][j] = result[call[t].futs[j]]
      BY <1>3, <2>4 DEF CollectInv
    <3>2. values'[t][j] = values[t][j]
      BY <2>1, <2>2, <2>4, AppendProperties
    <3> QED
      BY <1>3, <3>1, <3>2 DEF fields
  <2> QED
    BY <1>3, <2>1, <2>3, <2>4
<1>4. ASSUME NEW t \in Threads, Step(t) \/ \E c \in Programs[t] : Begin(t, c)
      PROVE  CollectInv'
  <2>1. OthersStay(t) /\ Moves(t)
    BY <1>0, <1>4, StepIsLocal, StepMoves
  <2>2. ASSUME NEW u \in Threads, call'[u].method = "all", call'[u].futs # <<>>,
               NEW j \in 1 .. pos'[u] - 1
        PROVE  /\ state'[call'[u].futs[j]] = "resolved"
               /\ values'[u][j] = result'[call'[u].futs[j]]
    <3>1. CASE call'[u] = call[u] /\ pos'[u] = pos[u] /\ values'[u] = values[u]
      BY <1>2, <2>2, <3>1
    <3>2. CASE u = t /\ pos'[t] = 1
      BY <2>2, <3>2
    <3>3. CASE /\ u = t /\ call'[t] = call[t] /\ pos'[t] = pos[t] + 1 /\ UNCHANGED fields
               /\ Focus(t) \in Futures /\ Advances(t)
      BY <1>3, <2>2, <3>3
    <3> QED
      BY <2>1, <3>1, <3>2, <3>3 DEF OthersStay, Moves
  <2> QED
    BY <2>2 DEF CollectInv
<1>5. ASSUME UNCHANGED <<fields, call, pos, values>>
      PROVE  CollectInv'
  BY <1>5 DEF fields, CollectInv
<1>6. ASSUME NEW t \in Threads, NEW f \in Futures, WakeSpuriously(t, f)
      PROVE  UNCHANGED <<fields, call, pos, values>>
  BY <1>6 DEF WakeSpuriously, threads
<1>7. UNCHANGED vars => UNCHANGED <<fields, call, pos, values>>
  BY DEF vars, threads
<1> QED
  BY <1>4, <1>5, <1>6, <1>7 DEF Next

\* What race has passed was pending during the call, so not settled before it.
LEMMA PassedStep ==
    ASSUME ReorderStores = FALSE, DataInv, PassedInv, [Next]_vars
    PROVE  PassedInv'
<1>0. TypeInv /\ TypeOK
  BY DEF DataInv, TypeInv
<1>1. Settled \subseteq Settled'
  <2>1. \A f \in Futures : ~Pending(f) => Kept(f)
    BY SettledStays
  <2> QED
    BY <2>1 DEF Settled, Pending, Kept
<1>2. ASSUME NEW t \in Threads, Step(t) \/ \E c \in Programs[t] : Begin(t, c)
      PROVE  PassedInv'
  <2>1. OthersStay(t) /\ Moves(t)
    BY <1>0, <1>2, StepIsLocal, StepMoves
  <2>2. \/ early'[t] = early[t] /\ call'[t] = call[t]
        \/ early'[t] = Settled /\ pos'[t] = 1
    <3>1. CASE \E c \in Programs[t] : Begin(t, c)
      BY <1>0, <3>1 DEF Begin, TypeInv, TypeOK, ControlInv
    <3>2. CASE Step(t)
      <4>1. \A o : Finish(t, o) => early' = early /\ call' = call
        BY DEF Finish
      <4>2. early' = early /\ call' = call
        BY <3>2, <4>1 DEF Step, Lock, AlreadySettled, FirstStore, SecondStore, Look, Sleep,
              StopWaiting, AwaitEnds, ThenOrCatchEnds, AllTakes, AllOfNone, RacePolls,
              RaceOfNone, IsReady
      <4> QED
        BY <4>2
    <3> QED
      BY <1>2, <3>1, <3>2
  <2>3. ASSUME NEW u \in Threads
        PROVE  early'[u] \subseteq Settled'
    <3>1. early'[u] = early[u] \/ early'[u] = Settled
      BY <2>1, <2>2 DEF OthersStay
    <3> QED
      BY <1>1, <3>1 DEF PassedInv
  <2>4. ASSUME NEW u \in Threads, call'[u].method = "race", call'[u].futs # <<>>,
               NEW j \in 1 .. pos'[u] - 1
        PROVE  call'[u].futs[j] \notin early'[u]
    <3>1. CASE pos'[u] = 1
      BY <2>4, <3>1
    <3>2. CASE call'[u] = call[u] /\ pos'[u] = pos[u] /\ early'[u] = early[u]
      BY <2>4, <3>2 DEF PassedInv
    <3>3. CASE /\ u = t /\ call'[t] = call[t] /\ pos'[t] = pos[t] + 1 /\ early'[t] = early[t]
               /\ Focus(t) \in Futures /\ Advances(t)
      <4>1. Focus(t) \notin early[t]
        BY <2>4, <3>3 DEF Advances, PassedInv, Settled
      <4>2. pos[t] \in Nat
        BY <1>0 DEF TypeOK
      <4>3. CASE j = pos[t]
        BY <3>3, <4>1, <4>3 DEF Focus
      <4>4. CASE j \in 1 .. pos[t] - 1
        BY <2>4, <3>3, <4>4 DEF PassedInv
      <4> QED
        BY <2>4, <3>3, <4>2, <4>3, <4>4
    <3> QED
      BY <2>1, <2>2, <3>1, <3>2, <3>3 DEF OthersStay, Moves
  <2> QED
    BY <2>3, <2>4 DEF PassedInv
<1>3. ASSUME UNCHANGED <<call, pos, early>>
      PROVE  PassedInv'
  BY <1>1, <1>3 DEF PassedInv
<1>4. ASSUME NEW t \in Threads, NEW f \in Futures, WakeSpuriously(t, f)
      PROVE  UNCHANGED <<call, pos, early>>
  BY <1>4 DEF WakeSpuriously, threads
<1>5. UNCHANGED vars => UNCHANGED <<call, pos, early>>
  BY DEF vars, threads
<1> QED
  BY <1>2, <1>3, <1>4, <1>5 DEF Next

-----------------------------------------------------------------------------
\* The outcomes

\* What a call that ends in this step ends with.
EndsAwait(t) ==
    Focus(t) = call[t].futs[1] /\ ~Pending(Focus(t)) /\ ret'[t] = ReadOutcome(Focus(t))

EndsAll(t) ==
    \/ call[t].futs = <<>> /\ ret'[t] = Outcome("resolvedAll", <<>>)
    \/ /\ call[t].futs # <<>> /\ ~Pending(Focus(t))
       /\ \/ state[Focus(t)] = "rejected" /\ ret'[t] = ReadOutcome(Focus(t))
          \/ /\ state[Focus(t)] = "resolved" /\ pos[t] = Len(call[t].futs)
             /\ ret'[t] = Outcome("resolvedAll", Append(values[t], result[Focus(t)]))

EndsRace(t) ==
    call[t].futs # <<>> => ~Pending(Focus(t)) /\ ret'[t] = ReadOutcome(Focus(t))

\* A call ends with what it read from a settled future.
LEMMA Ends ==
    ASSUME DataInv, NEW t \in Threads, Step(t) \/ \E c \in Programs[t] : Begin(t, c),
           pc'[t] = "idle"
    PROVE  /\ call' = call /\ early' = early /\ pc[t] # "idle"
           /\ call[t].method = "await" => EndsAwait(t)
           /\ call[t].method = "all" => EndsAll(t)
           /\ call[t].method = "race" => EndsRace(t)
<1>0. TypeInv /\ StoreInv /\ ret \in [Threads -> OutcomeSet]
  BY DEF DataInv, TypeInv, TypeOK, OutcomeSet
<1>a. \A o : Finish(t, o) => call' = call /\ early' = early /\ ret'[t] = o
  BY <1>0 DEF Finish
<1>1. ~\E c \in Programs[t] : Begin(t, c)
  <2>1. \A c \in Programs[t] : c.method \in Settlers \cup Waiters \cup {"race", "isReady"}
    BY ProgramsAssumption DEF Settlers, Waiters
  <2> QED
    BY <1>0, <2>1 DEF Begin, TypeInv, TypeOK, Settlers, Waiters
<1>2. ~(Lock(t) \/ FirstStore(t) \/ Look(t) \/ Sleep(t) \/ StopWaiting(t))
  BY <1>0 DEF Lock, FirstStore, Look, Sleep, StopWaiting, Goto, TypeInv, TypeOK
<1>3. CASE AlreadySettled(t) \/ SecondStore(t)
  BY <1>0, <1>3, <1>a DEF AlreadySettled, SecondStore, Settles, Settlers, TypeInv, ControlInv
<1>4. CASE AwaitEnds(t)
  <2>1. Focus(t) = call[t].futs[1] /\ ~Pending(Focus(t))
    BY <1>0, <1>4, SinglePosition DEF AwaitEnds, Takes, StoreInv
  <2> QED
    BY <1>4, <1>a, <2>1 DEF AwaitEnds, Takes, EndsAwait
<1>5. CASE ThenOrCatchEnds(t)
  BY <1>5, <1>a DEF ThenOrCatchEnds, Takes
<1>6. CASE AllTakes(t)
  <2>1. Focus(t) \in Futures /\ call[t].futs # <<>> /\ ~Pending(Focus(t))
    BY <1>0, <1>6, FocusHere DEF AllTakes, Takes, StoreInv
  <2>2. \/ /\ state[Focus(t)] = "rejected" /\ ReadOutcome(Focus(t)).kind = "rejected"
        \/ /\ state[Focus(t)] = "resolved" /\ ReadOutcome(Focus(t)).kind = "resolved"
           /\ ReadOutcome(Focus(t)).val = result[Focus(t)]
    BY <1>0, <2>1 DEF ReadOutcome, Outcome, Pending, TypeInv, TypeOK
  <2>3. ~Goto(t, "look")
    BY <1>0 DEF Goto, TypeInv, TypeOK
  <2>4. /\ call[t].method = "all" /\ pc[t] # "idle"
        /\ \/ ReadOutcome(Focus(t)).kind = "rejected" /\ Finish(t, ReadOutcome(Focus(t)))
           \/ /\ ReadOutcome(Focus(t)).kind = "resolved" /\ pos[t] = Len(call[t].futs)
              /\ Finish(t, Outcome("resolvedAll",
                                   Append(values[t], ReadOutcome(Focus(t)).val)))
    BY <1>6, <2>3 DEF AllTakes, Takes, Collect
  <2> QED
    BY <1>a, <2>1, <2>2, <2>4 DEF EndsAll
<1>7. CASE AllOfNone(t)
  <2>1. /\ pc[t] # "idle" /\ call[t].futs = <<>> /\ call[t].method \in Waiters
        /\ call' = call /\ early' = early /\ ret'[t] = Outcome("resolvedAll", <<>>)
    BY <1>0, <1>7, <1>a DEF AllOfNone, TypeInv, ControlInv, Looking
  <2>2. call[t].method = "all"
    BY <1>0, <2>1, SinglePosition DEF Waiters
  <2> QED
    BY <2>1, <2>2 DEF EndsAll
<1>8. CASE RacePolls(t)
  <2>1. call[t].method = "race" /\ pc[t] = "poll"
    BY <1>0, <1>8 DEF RacePolls, TypeInv, ControlInv
  <2> QED
    BY <1>8, <1>a, <2>1 DEF RacePolls, Won, EndsRace
<1>9. CASE RaceOfNone(t)
  BY <1>0, <1>9, <1>a DEF RaceOfNone, EndsRace, TypeInv, ControlInv
<1>10. CASE IsReady(t)
  BY <1>0, <1>10, <1>a DEF IsReady, TypeInv, ControlInv
<1> QED
  BY <1>1, <1>2, <1>3, <1>4, <1>5, <1>6, <1>7, <1>8, <1>9, <1>10 DEF Step

\* What a thread that has returned has returned does not change until its next call.
LEMMA DoneStays ==
    ASSUME TypeInv, NEW t \in Threads, OthersStay(t), NEW u \in Threads \ {t}, NEW m,
           Done(u, m)'
    PROVE  Done(u, m) /\ call'[u] = call[u] /\ ret'[u] = ret[u] /\ early'[u] = early[u]
BY DEF OthersStay, Done

\* Reading a settled future gives what it was settled with.
LEMMA ReadSettled ==
    ASSUME TypeOK, NEW f \in Futures, ~Pending(f), Kept(f)
    PROVE  /\ ReadOutcome(f) = SettledWith(f)
           /\ SettledWith(f)' = SettledWith(f) /\ ~Pending(f)' /\ state'[f] = state[f]
BY DEF TypeOK, ReadOutcome, SettledWith, Pending, Kept

\* What await returned is, and stays, what its future was settled with.
LEMMA AwaitStep ==
    ASSUME ReorderStores = FALSE, DataInv, AwaitedInv, AwaitersAgree,
           NEW t \in Threads, Step(t) \/ \E c \in Programs[t] : Begin(t, c), [Next]_vars
    PROVE  AwaitedInv' /\ AwaitersAgree'
<1>0. TypeInv /\ TypeOK /\ SettledInv
  BY DEF DataInv, TypeInv
<1>1. OthersStay(t) /\ \A f \in Futures : ~Pending(f) => Kept(f)
  BY <1>0, StepIsLocal, SettledStays
<1>2. ASSUME NEW u \in Threads, Done(u, "await")'
      PROVE  (/\ ~Pending(call[u].futs[1])
              /\ ret[u] = SettledWith(call[u].futs[1]) /\ ret[u].val # NullValue)'
  <2> PICK f : f = call[u].futs[1]
    OBVIOUS
  <2>1. call'[u] = call[u] /\ call[u].method = "await"
    BY <1>1, <1>2, Ends DEF Done, OthersStay
  <2>2. f \in Futures
    <3>1. Len(call[u].futs) = 1 /\ \A k \in 1 .. Len(call[u].futs) : call[u].futs[k] \in Futures
      BY <1>0, <2>1, CallFutures
    <3> QED
      BY <3>1
  <2>3. ~Pending(f) /\ ret'[u] = SettledWith(f)
    <3>1. CASE u = t
      <4>1. ~Pending(f) /\ ret'[u] = ReadOutcome(f)
        BY <1>2, <2>1, <3>1, Ends DEF Done, EndsAwait
      <4> QED
        BY <1>0, <1>1, <2>2, <4>1, ReadSettled
    <3>2. CASE u # t
      <4>1. Done(u, "await") /\ ret'[u] = ret[u]
        BY <1>0, <1>1, <1>2, <3>2, DoneStays
      <4> QED
        BY <4>1 DEF AwaitedInv, AwaitersAgree
    <3> QED
      BY <3>1, <3>2
  <2>4. SettledWith(f)' = SettledWith(f) /\ ~Pending(f)'
    BY <1>0, <1>1, <2>2, <2>3, ReadSettled
  <2>5. SettledWith(f).val # NullValue
    BY <1>0, <2>2, <2>3, FutureAssumption DEF SettledInv, SettledWith, Outcome, Pending, TypeOK
  <2> QED
    BY <2>1, <2>3, <2>4, <2>5 DEF Pending, SettledWith
<1> QED
  BY <1>2 DEF AwaitedInv, AwaitersAgree

\* What race returned is, and stays, the outcome of an element that none settled
\* before the call precedes.
LEMMA RaceStep ==
    ASSUME ReorderStores = FALSE, DataInv, PassedInv, RaceTakesSettled,
           NEW t \in Threads, Step(t) \/ \E c \in Programs[t] : Begin(t, c), [Next]_vars
    PROVE  RaceTakesSettled'
<1>0. TypeInv /\ TypeOK
  BY DEF DataInv, TypeInv
<1>1. OthersStay(t) /\ \A f \in Futures : ~Pending(f) => Kept(f)
  BY <1>0, StepIsLocal, SettledStays
<1>2. ASSUME NEW u \in Threads, Done(u, "race")', call'[u].futs # <<>>
      PROVE  (\E k \in DOMAIN call[u].futs :
                /\ ret[u] = SettledWith(call[u].futs[k]) /\ call[u].futs[k] \in Settled
                /\ \A j \in 1 .. k - 1 : call[u].futs[j] \notin early[u])'
  <2> PICK fs : fs = call[u].futs
    OBVIOUS
  <2>1. call'[u] = call[u] /\ call[u].method = "race" /\ early'[u] = early[u]
    BY <1>1, <1>2, Ends DEF Done, OthersStay
  <2>2. DOMAIN fs = 1 .. Len(fs) /\ \A k \in 1 .. Len(fs) : fs[k] \in Futures
    BY <1>0, <2>1, CallFutures
  <2>3. \E k \in DOMAIN fs :
            /\ ret'[u] = SettledWith(fs[k]) /\ ~Pending(fs[k])
            /\ \A j \in 1 .. k - 1 : fs[j] \notin early[u]
    <3>1. CASE u = t
      <4>1. ~Pending(Focus(t)) /\ ret'[t] = ReadOutcome(Focus(t)) /\ pc[t] # "idle"
        BY <1>2, <2>1, <3>1, Ends DEF Done, EndsRace
      <4>2. pos[t] \in 1 .. Len(fs) /\ Focus(t) = fs[pos[t]]
        BY <1>0, <1>2, <2>1, <3>1, <4>1, FocusType DEF Focus
      <4>3. ret'[t] = SettledWith(Focus(t))
        BY <1>0, <1>1, <2>2, <4>1, <4>2, ReadSettled
      <4>4. \A j \in 1 .. pos[t] - 1 : fs[j] \notin early[u]
        BY <1>2, <2>1, <3>1 DEF PassedInv
      <4> QED
        BY <2>2, <3>1, <4>1, <4>2, <4>3, <4>4
    <3>2. CASE u # t
      <4>1. Done(u, "race") /\ ret'[u] = ret[u]
        BY <1>0, <1>1, <1>2, <3>2, DoneStays
      <4> QED
        BY <1>2, <2>1, <4>1 DEF RaceTakesSettled, Settled
    <3> QED
      BY <3>1, <3>2
  <2>4. PICK k \in DOMAIN fs :
            /\ ret'[u] = SettledWith(fs[k]) /\ ~Pending(fs[k])
            /\ \A j \in 1 .. k - 1 : fs[j] \notin early[u]
    BY <2>3
  <2>5. fs[k] \in Futures /\ SettledWith(fs[k])' = SettledWith(fs[k]) /\ ~Pending(fs[k])'
    BY <1>0, <1>1, <2>2, <2>4, ReadSettled
  <2> QED
    BY <2>1, <2>4, <2>5 DEF Settled, Pending, SettledWith
<1> QED
  BY <1>2 DEF RaceTakesSettled

\* What all returned is, and stays, what the header promises of its array.
LEMMA AllStep ==
    ASSUME ReorderStores = FALSE, DataInv, CollectInv, AllFollowsArray,
           NEW t \in Threads, Step(t) \/ \E c \in Programs[t] : Begin(t, c), [Next]_vars
    PROVE  AllFollowsArray'
<1>0. TypeInv /\ TypeOK
  BY DEF DataInv, TypeInv
<1>1. OthersStay(t) /\ \A f \in Futures : ~Pending(f) => Kept(f)
  BY <1>0, StepIsLocal, SettledStays
<1> DEFINE Follows(fs, r) ==
        \/ /\ r.kind = "resolvedAll"
           /\ r.val = [k \in DOMAIN fs |-> result[fs[k]]]
           /\ \A k \in DOMAIN fs : state[fs[k]] = "resolved"
        \/ \E k \in DOMAIN fs :
              /\ r = SettledWith(fs[k]) /\ state[fs[k]] = "rejected"
              /\ \A j \in 1 .. k - 1 : state[fs[j]] = "resolved"
<1>2. ASSUME NEW u \in Threads, Done(u, "all")'
      PROVE  Follows(call[u].futs, ret[u])'
  <2> PICK fs : fs = call[u].futs
    OBVIOUS
  <2> PICK r : r = ret'[u]
    OBVIOUS
  <2>1. call'[u] = call[u] /\ call[u].method = "all"
    BY <1>1, <1>2, Ends DEF Done, OthersStay
  <2>2. /\ DOMAIN fs = 1 .. Len(fs) /\ Len(fs) \in Nat
        /\ \A k \in 1 .. Len(fs) : fs[k] \in Futures
    BY <1>0, <2>1, CallFutures
  <2>3. Follows(fs, r)
    <3>1. CASE u # t
      <4>1. Done(u, "all") /\ ret'[u] = ret[u]
        BY <1>0, <1>1, <1>2, <3>1, DoneStays
      <4> QED
        BY <4>1 DEF AllFollowsArray
    <3>2. CASE u = t /\ fs = <<>>
      <4>1. r = Outcome("resolvedAll", <<>>)
        BY <1>2, <2>1, <3>2, Ends DEF Done, EndsAll
      <4>2. DOMAIN fs = {}
        BY <3>2
      <4>3. <<>> = [k \in DOMAIN fs |-> result[fs[k]]]
        BY <3>2, <4>2
      <4> QED
        BY <4>1, <4>2, <4>3 DEF Outcome
    <3>3. CASE u = t /\ fs # <<>>
      <4>1. /\ ~Pending(Focus(t)) /\ pc[t] # "idle"
            /\ \/ state[Focus(t)] = "rejected" /\ r = ReadOutcome(Focus(t))
               \/ /\ state[Focus(t)] = "resolved" /\ pos[t] = Len(fs)
                  /\ r = Outcome("resolvedAll", Append(values[t], result[Focus(t)]))
        BY <1>2, <2>1, <3>3, Ends DEF Done, EndsAll
      <4>2. pos[t] \in 1 .. Len(fs) /\ Focus(t) = fs[pos[t]] /\ Focus(t) \in Futures
        BY <1>0, <3>3, <4>1, FocusType DEF Focus
      <4>3. \A j \in 1 .. pos[t] - 1 :
                state[fs[j]] = "resolved" /\ values[t][j] = result[fs[j]]
        BY <2>1, <3>3 DEF CollectInv
      <4>4. CASE state[Focus(t)] = "rejected" /\ r = ReadOutcome(Focus(t))
        <5>1. r = SettledWith(Focus(t))
          BY <1>0, <1>1, <4>1, <4>2, <4>4, ReadSettled
        <5> QED
          BY <2>2, <4>2, <4>3, <4>4, <5>1
      <4>5. CASE /\ state[Focus(t)] = "resolved" /\ pos[t] = Len(fs)
                 /\ r = Outcome("resolvedAll", Append(values[t], result[Focus(t)]))
        <5> DEFINE all == Append(values[t], result[Focus(t)])
        <5>1. /\ values[t] \in Seq(Values \cup {NullValue}) /\ Len(values[t]) = pos[t] - 1
              /\ result[Focus(t)] \in Values \cup {NullValue}
          BY <1>0, <2>1, <3>3, <4>2 DEF TypeOK
        <5>2. /\ all \in Seq(Values \cup {NullValue}) /\ Len(all) = Len(fs)
              /\ \A j \in 1 .. Len(values[t]) : all[j] = values[t][j]
              /\ all[Len(fs)] = result[Focus(t)]
          BY <2>2, <4>2, <4>5, <5>1, AppendProperties
        <5>3. \A k \in 1 .. Len(fs) : all[k] = result[fs[k]] /\ state[fs[k]] = "resolved"
          BY <2>2, <4>2, <4>3, <4>5, <5>1, <5>2
        <5>4. all = [k \in 1 .. Len(fs) |-> all[k]]
          BY <5>2, LenProperties
        <5>5. all = [k \in DOMAIN fs |-> result[fs[k]]]
          BY <2>2, <5>3, <5>4
        <5>6. r.kind = "resolvedAll" /\ r.val = all
          BY <4>5 DEF Outcome
        <5>7. \A k \in DOMAIN fs : state[fs[k]] = "resolved"
          BY <2>2, <5>3
        <5> HIDE DEF all
        <5> QED
          BY <5>5, <5>6, <5>7
      <4> QED
        BY <4>1, <4>4, <4>5
    <3> QED
      BY <3>1, <3>2, <3>3
  <2>4. CASE /\ r.kind = "resolvedAll"
             /\ r.val = [k \in DOMAIN fs |-> result[fs[k]]]
             /\ \A k \in DOMAIN fs : state[fs[k]] = "resolved"
    <3>1. \A k \in DOMAIN fs : state'[fs[k]] = "resolved" /\ result'[fs[k]] = result[fs[k]]
      BY <1>1, <2>2, <2>4 DEF Pending, Kept
    <3>2. r.val = [k \in DOMAIN fs |-> result'[fs[k]]]
      BY <2>4, <3>1
    <3> QED
      BY <2>1, <2>4, <3>1, <3>2
  <2>5. CASE \E k \in DOMAIN fs :
              /\ r = SettledWith(fs[k]) /\ state[fs[k]] = "rejected"
              /\ \A j \in 1 .. k - 1 : state[fs[j]] = "resolved"
    <3>1. PICK k \in DOMAIN fs :
              /\ r = SettledWith(fs[k]) /\ state[fs[k]] = "rejected"
              /\ \A j \in 1 .. k - 1 : state[fs[j]] = "resolved"
      BY <2>5
    <3>2. SettledWith(fs[k])' = SettledWith(fs[k]) /\ state'[fs[k]] = "rejected"
      BY <1>0, <1>1, <2>2, <3>1, ReadSettled DEF Pending
    <3>3. \A j \in 1 .. k - 1 : state'[fs[j]] = "resolved"
      BY <1>1, <2>2, <3>1 DEF Pending, Kept
    <3> QED
      BY <2>1, <3>1, <3>2, <3>3 DEF SettledWith
  <2> QED
    BY <2>3, <2>4, <2>5
<1> QED
  BY <1>2 DEF AllFollowsArray

-----------------------------------------------------------------------------
\* The theorems

\* Types and control, in every build.
LEMMA TypeInvariance == Spec => []TypeInv
BY TypeInit, TypeStep, PTL DEF Spec

\* The conjunction is inductive when stores stay in order.
LEMMA Invariance ==
    ASSUME ReorderStores = FALSE
    PROVE  Spec => []IInv
<1>1. Init => IInv
  <2> SUFFICES ASSUME Init PROVE IInv
    OBVIOUS
  <2>1. \A t \in Threads : pos[t] = 1 /\ early[t] = {} /\ ret[t].kind = "none"
    BY DEF Init, Outcome
  <2>2. CollectInv /\ PassedInv
    BY <2>1 DEF CollectInv, PassedInv
  <2>3. AwaitedInv /\ AwaitersAgree /\ AllFollowsArray /\ RaceTakesSettled
    BY <2>1 DEF AwaitedInv, AwaitersAgree, AllFollowsArray, RaceTakesSettled, Done
  <2> QED
    BY <2>2, <2>3, TypeInit, LockInit, DataInit DEF IInv
<1>2. IInv /\ [Next]_vars => IInv'
  <2> SUFFICES ASSUME IInv, [Next]_vars PROVE IInv'
    OBVIOUS
  <2>1. DataInv /\ CollectInv /\ PassedInv
    BY DEF IInv, DataInv
  <2>2. TypeInv' /\ LockInv' /\ SettledInv' /\ StoreInv' /\ CollectInv' /\ PassedInv'
    BY <2>1, TypeStep, LockStep, DataStep, CollectStep, PassedStep DEF DataInv
  <2>3. ASSUME NEW t \in Threads, Step(t) \/ \E c \in Programs[t] : Begin(t, c)
        PROVE  AwaitedInv' /\ AwaitersAgree' /\ AllFollowsArray' /\ RaceTakesSettled'
    BY <2>1, <2>3, AwaitStep, AllStep, RaceStep DEF IInv
  <2>4. ASSUME UNCHANGED <<fields, threads>>
        PROVE  AwaitedInv' /\ AwaitersAgree' /\ AllFollowsArray' /\ RaceTakesSettled'
    BY <2>4 DEF IInv, fields, threads, AwaitedInv, AwaitersAgree, AllFollowsArray,
        RaceTakesSettled, Done, SettledWith, Settled, Pending
  <2>5. ASSUME NEW t \in Threads, NEW f \in Futures, WakeSpuriously(t, f)
        PROVE  UNCHANGED <<fields, threads>>
    BY <2>5 DEF WakeSpuriously
  <2>6. UNCHANGED vars => UNCHANGED <<fields, threads>>
    BY DEF vars
  <2>7. AwaitedInv' /\ AwaitersAgree' /\ AllFollowsArray' /\ RaceTakesSettled'
    BY <2>3, <2>4, <2>5, <2>6 DEF Next
  <2> QED
    BY <2>2, <2>7 DEF IInv
<1> QED
  BY <1>1, <1>2, PTL DEF Spec

\* The types are right in every build, for any program: in particular nobody
\* looks outside of the array given to all or race.
THEOREM TypeCorrect == Spec => []TypeOK
<1>1. TypeInv => TypeOK
  BY DEF TypeInv
<1> QED
  BY <1>1, TypeInvariance, PTL

\* A settled future never changes, if the build keeps stores in order.
THEOREM NeverSettledTwice ==
    ASSUME ReorderStores = FALSE
    PROVE  Spec => SettledForever
<1>1. IInv /\ [Next]_vars =>
          [\A f \in Futures : ~Pending(f) =>
              state'[f] = state[f] /\ result'[f] = result[f] /\ error'[f] = error[f]]_vars
  BY SettledStays DEF IInv, DataInv, Kept
<1> QED
  BY <1>1, Invariance, PTL DEF Spec, SettledForever

\* All who await a future get what it was settled with, and never the null of a
\* fresh one, if the build keeps stores in order.
THEOREM OneOutcome ==
    ASSUME ReorderStores = FALSE
    PROVE  Spec => []AwaitersAgree
<1>1. IInv => AwaitersAgree
  BY DEF IInv
<1> QED
  BY <1>1, Invariance, PTL

\* all answers in the order of its array, if the build keeps stores in order.
THEOREM AllInArrayOrder ==
    ASSUME ReorderStores = FALSE
    PROVE  Spec => []AllFollowsArray
<1>1. IInv => AllFollowsArray
  BY DEF IInv
<1> QED
  BY <1>1, Invariance, PTL

\* race takes no element behind one that was settled before the call, if the
\* build keeps stores in order.
THEOREM RaceIsFair ==
    ASSUME ReorderStores = FALSE
    PROVE  Spec => []RaceTakesSettled
<1>1. IInv => RaceTakesSettled
  BY DEF IInv
<1> QED
  BY <1>1, Invariance, PTL
=============================================================================
