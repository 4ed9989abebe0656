------------------------------ MODULE Channel ------------------------------
(***************************************************************************)
(* class Channel of include/object/channel.h: a ring buffer guarded by one *)
(* mutex, with the condition variables not_full and not_empty.  A blocked  *)
(* push or pop first re-takes the lock TPHP_CHAN_SPIN times and only then  *)
(* sleeps.  An action is one step of one thread between two points where   *)
(* another thread can run: taking the mutex, the test made under it, and   *)
(* the update that ends with mtx_unlock.  count and is_closed, which are   *)
(* also read without the lock, are written once per critical section, so   *)
(* no reader sees a half-made update.                                      *)
(*                                                                         *)
(* The mutex and the condition variables are the POSIX ones: cnd_wait      *)
(* unlocks and sleeps in one step, may wake without a signal, and returns  *)
(* with the mutex taken again.  A thread sleeps while it is in a wait set. *)
(***************************************************************************)
EXTENDS Integers, FiniteSets

CONSTANTS
    Threads,      \* threads holding a reference to the channel
    NoThread,     \* the owner of a free mutex
    Values,       \* t_var values the program pushes
    NullValue,    \* VAR_NULL(), also the zeroed content of a fresh slot
    Requested,    \* the argument of new Channel()
    SpinRounds,   \* TPHP_CHAN_SPIN
    Allowed,      \* Allowed[t]: the methods thread t calls
    Budget,       \* bound: calls a thread makes
    MaxSpurious   \* bound: wake-ups without a signal

PushOps == {"push", "tryPush"}
PopOps  == {"pop", "tryPop"}
Methods == PushOps \cup PopOps \cup {"close", "length", "isClosed"}

ASSUME ThreadsAssumption ==
    /\ IsFiniteSet(Threads) /\ NoThread \notin Threads
    /\ NullValue \notin Values
    /\ Allowed \in [Threads -> SUBSET Methods]

\* The constructor narrows its 64-bit argument to an int: from 2^31 on the
\* result would be another capacity (or none).  No caller in the repository
\* comes near it, and the model stays below.
ASSUME CapacityAssumption == Requested \in Int /\ Requested <= 2147483647

ASSUME BoundsAssumption ==
    SpinRounds \in Nat /\ Budget \in Nat /\ MaxSpurious \in Nat

VARIABLES
    ring,         \* ringbuf; a slot keeps its value after a pop
    head, tail,   \* next slot to pop, next slot to push
    count,        \* elements in the buffer
    isClosed,
    mtx,          \* the thread that holds the mutex, or NoThread
    notFull,      \* threads asleep in cnd_wait(&not_full)
    notEmpty,     \* threads asleep in cnd_wait(&not_empty)
    alive,        \* the destructor has not run
    pc,           \* where each thread is inside its call
    op, arg, ret, \* the call, its argument, the last call's outcome
    spins,        \* failed rounds of the spin loop of this call
    refs,         \* references to each value that the channel owns
    budget,       \* calls left to each thread
    spurious      \* wake-ups without a signal left

state == <<ring, head, tail, count, isClosed, refs>>
calls == <<op, arg, ret, spins, budget>>
vars  == <<state, mtx, notFull, notEmpty, alive, pc, calls, spurious>>

-----------------------------------------------------------------------------
\* The buffer

Capacity == IF Requested < 1 THEN 1 ELSE Requested
Slots    == 0 .. Capacity - 1

AdvanceNoWrap(i) == i + 1
Advance(i) == (i + 1) % Capacity

HasRoomOffByOne == count <= Capacity
HasRoom == count < Capacity

\* The buffer as the sequence of its elements, oldest first.
Contents == [i \in 1 .. count |-> ring[(head + i - 1) % Capacity]]

\* Slots the destructor releases; the mutant also visits popped slots.
RemainingAll == Slots
Remaining == {(head + i) % Capacity : i \in 0 .. count - 1}

\* How many times the destructor releases v.
ReleasedOf(v) == Cardinality({i \in Remaining : ring[i] = v})

NoResult == [outcome |-> "none", val |-> NullValue]

Init ==
    /\ ring = [i \in Slots |-> NullValue]
    /\ head = 0 /\ tail = 0 /\ count = 0
    /\ isClosed = FALSE
    /\ mtx = NoThread
    /\ notFull = {} /\ notEmpty = {}
    /\ alive = TRUE
    /\ pc = [t \in Threads |-> "idle"]
    /\ op = [t \in Threads |-> "none"]
    /\ arg = [t \in Threads |-> NullValue]
    /\ ret = [t \in Threads |-> NoResult]
    /\ spins = [t \in Threads |-> 0]
    /\ refs = [v \in Values |-> 0]
    /\ budget = [t \in Threads |-> Budget]
    /\ spurious = MaxSpurious

-----------------------------------------------------------------------------
\* Condition variables, as the sets of threads that may remain asleep

SignalNone(S) == {S}
SignalOne(S) == IF S = {} THEN {{}} ELSE {S \ {t} : t \in S}

BroadcastOne(S) == SignalOne(S)
Broadcast(S) == {{}}

Asleep == notFull \cup notEmpty

\* pthread_cond_wait may return unasked.
WakeSpuriously(t) ==
    /\ t \in Asleep /\ spurious > 0
    /\ spurious' = spurious - 1
    /\ notFull' = notFull \ {t}
    /\ notEmpty' = notEmpty \ {t}
    /\ UNCHANGED <<state, mtx, alive, pc, calls>>

-----------------------------------------------------------------------------
\* Calls

Invoke(t, m, v) ==
    /\ alive /\ pc[t] = "idle" /\ budget[t] > 0
    /\ m \in Allowed[t]
    /\ m \in PushOps <=> v # NullValue
    /\ pc' = [pc EXCEPT ![t] = IF m = "isClosed" THEN "read" ELSE "lock"]
    /\ op' = [op EXCEPT ![t] = m]
    /\ arg' = [arg EXCEPT ![t] = v]
    /\ ret' = [ret EXCEPT ![t] = NoResult]
    /\ budget' = [budget EXCEPT ![t] = @ - 1]
    /\ UNCHANGED <<state, mtx, notFull, notEmpty, alive, spins, spurious>>

\* mtx_lock, and the re-locking with which cnd_wait returns.
Lock(t) ==
    /\ pc[t] \in {"lock", "wait"} /\ t \notin Asleep
    /\ mtx = NoThread
    /\ mtx' = t
    /\ pc' = [pc EXCEPT ![t] = "check"]
    /\ UNCHANGED <<state, notFull, notEmpty, alive, calls, spurious>>

\* mtx_unlock and return (or throw): the end of every locked call.
Return(t, outcome, v) ==
    /\ mtx' = NoThread
    /\ pc'  = [pc EXCEPT ![t] = "idle"]
    /\ op'  = [op EXCEPT ![t] = "none"]
    /\ arg' = [arg EXCEPT ![t] = NullValue]
    /\ ret' = [ret EXCEPT ![t] = [outcome |-> outcome, val |-> v]]
    /\ spins' = [spins EXCEPT ![t] = 0]
    /\ UNCHANGED <<budget, alive, spurious>>

\* Under the lock, deciding what to do.
Checks(t, ops) == pc[t] = "check" /\ op[t] \in ops

\* The test succeeded: the lock is kept for the update.
Proceed(t) ==
    /\ pc' = [pc EXCEPT ![t] = "commit"]
    /\ UNCHANGED <<state, mtx, notFull, notEmpty, alive, calls, spurious>>

\* A failed round of the spin loop: unlock, thrd_yield, lock again.
Spin(t) ==
    /\ spins[t] < SpinRounds
    /\ spins' = [spins EXCEPT ![t] = @ + 1]
    /\ mtx' = NoThread
    /\ pc' = [pc EXCEPT ![t] = "lock"]
    /\ UNCHANGED <<state, notFull, notEmpty, alive, op, arg, ret, budget, spurious>>

\* The spin loop is over: cnd_wait unlocks and sleeps.
Sleep(t) ==
    /\ spins[t] = SpinRounds
    /\ mtx' = NoThread
    /\ pc' = [pc EXCEPT ![t] = "wait"]
    /\ UNCHANGED <<state, alive, calls, spurious>>

-----------------------------------------------------------------------------
\* push and tryPush

PushThrows(t) ==
    /\ Checks(t, PushOps) /\ isClosed
    /\ Return(t, "ChannelClosedException", NullValue)
    /\ UNCHANGED <<state, notFull, notEmpty>>

PushFindsRoom(t) ==
    /\ Checks(t, PushOps) /\ ~isClosed /\ HasRoom
    /\ Proceed(t)

PushSpins(t) ==
    /\ Checks(t, {"push"}) /\ ~isClosed /\ ~HasRoom
    /\ Spin(t)

PushSleeps(t) ==
    /\ Checks(t, {"push"}) /\ ~isClosed /\ ~HasRoom
    /\ Sleep(t)
    /\ notFull' = notFull \cup {t}
    /\ UNCHANGED notEmpty

TryPushRefuses(t) ==
    /\ Checks(t, {"tryPush"}) /\ ~isClosed /\ ~HasRoom
    /\ Return(t, "full", NullValue)
    /\ UNCHANGED <<state, notFull, notEmpty>>

\* The value is retained, stored, and one popper is signalled.
PushStores(t) ==
    /\ pc[t] = "commit" /\ op[t] \in PushOps
    /\ ring' = [ring EXCEPT ![tail] = arg[t]]
    /\ tail' = Advance(tail)
    /\ count' = count + 1
    /\ refs' = [refs EXCEPT ![arg[t]] = @ + 1]
    /\ notEmpty' \in SignalOne(notEmpty)
    /\ Return(t, "done", NullValue)
    /\ UNCHANGED <<head, isClosed, notFull>>

-----------------------------------------------------------------------------
\* pop and tryPop

PopFindsItem(t) ==
    /\ Checks(t, PopOps) /\ count > 0
    /\ Proceed(t)

\* tryPop does not look at is_closed.
PopReturnsNull(t) ==
    /\ Checks(t, PopOps) /\ count = 0
    /\ op[t] = "pop" => isClosed
    /\ Return(t, "null", NullValue)
    /\ UNCHANGED <<state, notFull, notEmpty>>

PopSpins(t) ==
    /\ Checks(t, {"pop"}) /\ count = 0 /\ ~isClosed
    /\ Spin(t)

PopSleeps(t) ==
    /\ Checks(t, {"pop"}) /\ count = 0 /\ ~isClosed
    /\ Sleep(t)
    /\ notEmpty' = notEmpty \cup {t}
    /\ UNCHANGED notFull

\* The element moves to the caller together with the channel's reference to
\* it (no retain, no release); the slot keeps the stale value.
PopTakes(t) ==
    /\ pc[t] = "commit" /\ op[t] \in PopOps
    /\ head' = Advance(head)
    /\ count' = count - 1
    /\ refs' = [refs EXCEPT ![ring[head]] = @ - 1]
    /\ notFull' \in SignalOne(notFull)
    /\ Return(t, "value", ring[head])
    /\ UNCHANGED <<ring, tail, isClosed, notEmpty>>

-----------------------------------------------------------------------------
\* close, length, isClosed and the destructor

Close(t) ==
    /\ Checks(t, {"close"})
    /\ isClosed' = TRUE
    /\ notFull' \in Broadcast(notFull)
    /\ notEmpty' \in Broadcast(notEmpty)
    /\ Return(t, "done", NullValue)
    /\ UNCHANGED <<ring, head, tail, count, refs>>

Length(t) ==
    /\ Checks(t, {"length"})
    /\ Return(t, "length", count)
    /\ UNCHANGED <<state, notFull, notEmpty>>

\* isClosed reads the field without taking the mutex.
IsClosed(t) ==
    /\ pc[t] = "read"
    /\ pc' = [pc EXCEPT ![t] = "idle"]
    /\ op' = [op EXCEPT ![t] = "none"]
    /\ ret' = [ret EXCEPT ![t] =
          [outcome |-> IF isClosed THEN "true" ELSE "false", val |-> NullValue]]
    /\ UNCHANGED <<state, mtx, notFull, notEmpty, alive, arg, spins, budget, spurious>>

\* Runs when the last reference is dropped, so with no call in progress; it
\* releases what the buffer still holds, closed or not.
Destruct ==
    /\ alive /\ \A t \in Threads : pc[t] = "idle"
    /\ alive' = FALSE
    /\ refs' = [v \in Values |-> refs[v] - ReleasedOf(v)]
    /\ UNCHANGED <<ring, head, tail, count, isClosed, mtx, notFull, notEmpty,
                   pc, calls, spurious>>

-----------------------------------------------------------------------------
Step(t) ==
    \/ Lock(t)
    \/ PushThrows(t) \/ PushFindsRoom(t) \/ PushSpins(t) \/ PushSleeps(t)
    \/ TryPushRefuses(t) \/ PushStores(t)
    \/ PopFindsItem(t) \/ PopReturnsNull(t) \/ PopSpins(t) \/ PopSleeps(t)
    \/ PopTakes(t)
    \/ Close(t) \/ Length(t) \/ IsClosed(t)

Next ==
    \/ \E t \in Threads :
        \/ \E m \in Methods, v \in Values \cup {NullValue} : Invoke(t, m, v)
        \/ WakeSpuriously(t)
        \/ Step(t)
    \/ Destruct

Spec == Init /\ [][Next]_vars

\* A thread inside a call keeps running; whether it calls again, wakes
\* unasked or drops the object is its own affair.
Fairness == \A t \in Threads : WF_vars(Step(t))
FairSpec == Spec /\ Fairness

-----------------------------------------------------------------------------
\* Properties

Outcomes == {"none", "done", "full", "null", "value", "length", "true", "false",
             "ChannelClosedException"}
Results  == [outcome : Outcomes, val : Values \cup {NullValue} \cup 0 .. Capacity]
PCs == {"idle", "lock", "check", "commit", "wait", "read"}

\* The fields keep their ranges: head and tail are slots, count fits the
\* capacity (what the unchecked ringbuf[] accesses rely on).
TypeOK ==
    /\ ring \in [Slots -> Values \cup {NullValue}]
    /\ head \in Slots /\ tail \in Slots
    /\ count \in 0 .. Capacity
    /\ isClosed \in BOOLEAN /\ alive \in BOOLEAN
    /\ mtx \in Threads \cup {NoThread}
    /\ notFull \in SUBSET Threads /\ notEmpty \in SUBSET Threads
    /\ pc \in [Threads -> PCs]
    /\ op \in [Threads -> Methods \cup {"none"}]
    /\ arg \in [Threads -> Values \cup {NullValue}]
    /\ ret \in [Threads -> Results]
    /\ spins \in [Threads -> 0 .. SpinRounds]
    /\ refs \in [Values -> Int]
    /\ budget \in [Threads -> 0 .. Budget]
    /\ spurious \in 0 .. MaxSpurious

\* Blocking calls not asleep: they will still look at the buffer.
Awake(m, S) == {t \in Threads : op[t] = m} \ S

\* No wake-up is lost: while a push sleeps, every free slot has a push that
\* is awake to take it, and while a pop sleeps, every element has a pop that
\* is awake to take it; so no thread sleeps beside work nobody else will do.
\* cnd_signal wakes one thread only, other threads may steal the slot before
\* it runs, and tryPush and tryPop do so without ever sleeping.
NoLostWakeup ==
    /\ notFull # {} => Capacity - count <= Cardinality(Awake("push", notFull))
    /\ notEmpty # {} => count <= Cardinality(Awake("pop", notEmpty))

\* The channel owns one reference per element it holds and none once it is
\* destructed: push adds one, pop hands one over, the destructor drops those
\* left, through wrap-around and with stale values in the popped slots.
ReferencesBalanced ==
    \A v \in Values :
        refs[v] = IF alive THEN Cardinality({i \in DOMAIN Contents : Contents[i] = v})
                           ELSE 0

Queue == INSTANCE BoundedQueue WITH
    queue <- IF alive THEN Contents ELSE <<>>, closed <- isClosed

\* Every call takes effect at one instant, as on a bounded FIFO queue: no
\* element is lost, duplicated, reordered or accepted after close.
ImplementsQueue == Queue!Spec

\* A sleeping thread does not stay asleep beside what it waits for.
WakeupsArrive ==
    \A t \in Threads :
        /\ []<>(t \notin notFull \/ count = Capacity)
        /\ []<>(t \notin notEmpty \/ count = 0)

\* close() ends every blocked call.
CloseReleasesAll == isClosed ~> \A t \in Threads : op[t] = "none"
=============================================================================
