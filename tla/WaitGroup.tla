----------------------------- MODULE WaitGroup -----------------------------
(***************************************************************************)
(* Classes Thread and WaitGroup of include/object/thread.h over            *)
(* include/compat/tinycthread.h: one thread that creates Thread objects,   *)
(* starts and joins them, and worker threads that report to a WaitGroup.   *)
(* The condition variable is the one of TCC builds for Windows, a          *)
(* semaphore and a count of waiters (native ones promise more).            *)
(*                                                                         *)
(* What a thread does while it holds mLock is one step unless another      *)
(* thread can see the middle of it: only the release of the semaphore,     *)
(* which follows the reading of mWaiters, is a step of its own.            *)
(***************************************************************************)
EXTENDS Integers, FiniteSets

CONSTANTS
    Main,      \* the thread that created the objects
    Workers,   \* the Thread objects, and the threads they start
    Owners,    \* the threads that call methods of Thread objects
    NoThread,
    Deltas,    \* arguments of add; done() is add(-1)
    Adds,      \* Adds[t]: those that thread t uses
    Budget     \* bound: Budget[t] calls are made by thread t

Threads == Workers \cup {Main}

ASSUME WaitGroupAssumption ==
    /\ Main \notin Workers /\ NoThread \notin Threads
    /\ IsFiniteSet(Workers)
    /\ Owners \subseteq Threads
    /\ Deltas \subseteq Int /\ Adds \in [Threads -> SUBSET Deltas]
    /\ Budget \in [Threads -> Nat]

VARIABLES
    task_count, wait_count, mLock,  \* tphp_wg_t; mLock is the holder
    mWaiters, mSem,                 \* its cnd_t
    n,          \* cnd_broadcast: the waiters to release
    pc,         \* where each thread is; "idle" outside these classes
    target,     \* the Thread object of the method a thread is in
    state,      \* Thread.state: 0 not started, 1 running, 2 joined or detached
    cb,         \* who frees the copy of the closure: "object" or "thread"
    os,         \* the operating system's thread: "none", "running", "ended"
    alive,      \* the Thread object was not destructed
    frees,      \* history: how often cb was freed
    closes,     \* history: how often the thread was joined or detached
    calls,      \* calls made so far
    added,      \* history: tasks announced by Main
    dones,      \* history: calls of done by each worker
    tame        \* history: Main announced each task before starting it, each
                \* worker called done at most once, and nobody did otherwise

group   == <<task_count, wait_count, mLock, mWaiters, mSem, n>>
objects == <<target, state, cb, os, alive, frees, closes>>
history == <<added, dones, tame>>
vars    == <<group, pc, objects, calls, history>>

Init ==
    /\ task_count = 0 /\ wait_count = 0 /\ mLock = NoThread
    /\ mWaiters = 0 /\ mSem = 0 /\ n = 0
    /\ pc = [t \in Threads |-> "idle"]
    /\ target = [t \in Threads |-> NoThread]
    /\ state = [w \in Workers |-> 0]
    /\ cb = [w \in Workers |-> "object"]
    /\ os = [w \in Workers |-> "none"]
    /\ alive = [w \in Workers |-> TRUE]
    /\ frees = [w \in Workers |-> 0]
    /\ closes = [w \in Workers |-> 0]
    /\ calls = [t \in Threads |-> 0]
    /\ added = 0
    /\ dones = [w \in Workers |-> 0]
    /\ tame = TRUE

Started == {w \in Workers : os[w] # "none"}
Running == {Main} \cup {w \in Workers : os[w] = "running"}
At(t, l) == t \in Running /\ pc[t] = l

\* Thread t makes a call; a method that takes the mutex finds it free.
Call(t) ==
    /\ At(t, "idle") /\ calls[t] < Budget[t]
    /\ calls' = [calls EXCEPT ![t] = @ + 1]

GoTo(t, l) == pc' = [pc EXCEPT ![t] = l]

-----------------------------------------------------------------------------
\* WaitGroup::add and done

\* Mutant: the count is not kept from going below 0.
UnclampedCount(d) == task_count + d

\* Mutant: the lower bound is off by one.
OverclampedCount(d) == IF task_count + d <= 1 THEN 0 ELSE task_count + d

\* The counts are ints and WaitGroup::add casts its argument to one: sums are
\* taken to fit.
NewCount(d) == IF task_count + d < 0 THEN 0 ELSE task_count + d

Note(t, d) ==
    /\ added' = IF t = Main THEN added + d ELSE added
    /\ dones' = IF t \in Workers /\ d = -1 THEN [dones EXCEPT ![t] = @ + 1]
                                           ELSE dones
    /\ tame' = (tame /\ IF t = Main THEN d > 0 ELSE d = -1 /\ dones[t] = 0)

AddQuietly(t, d) ==
    /\ Call(t) /\ mLock = NoThread
    /\ task_count' = NewCount(d)
    /\ task_count' # 0 \/ wait_count = 0
    /\ Note(t, d)
    /\ UNCHANGED <<wait_count, mLock, mWaiters, mSem, n, pc, objects>>

\* The count is 0 and somebody waits: cnd_broadcast reads mWaiters.
AddCompletes(t, d) ==
    /\ Call(t) /\ mLock = NoThread
    /\ task_count' = NewCount(d)
    /\ task_count' = 0 /\ wait_count > 0
    /\ n' = mWaiters /\ mWaiters' = 0
    /\ mLock' = t /\ GoTo(t, "releasing")
    /\ Note(t, d)
    /\ UNCHANGED <<wait_count, mSem, objects>>

\* Mutant: one sleeper is woken, as the original tinycthread did.
ReleaseOne(t) ==
    /\ At(t, "releasing")
    /\ mSem' = mSem + 1 /\ n' = 0
    /\ mLock' = NoThread /\ GoTo(t, "idle")
    /\ UNCHANGED <<task_count, wait_count, mWaiters, objects, calls, history>>

\* ReleaseSemaphore(mSem, n), then mtx_unlock.
Release(t) ==
    /\ At(t, "releasing")
    /\ mSem' = mSem + n /\ n' = 0
    /\ mLock' = NoThread /\ GoTo(t, "idle")
    /\ UNCHANGED <<task_count, wait_count, mWaiters, objects, calls, history>>

-----------------------------------------------------------------------------
\* WaitGroup::wait

WaitPasses(t) ==
    /\ Call(t) /\ mLock = NoThread
    /\ task_count <= 0
    /\ UNCHANGED <<group, pc, objects, history>>

\* Mutant: the mutex is released before mWaiters++, as if a notification
\* could not come in between: the sleeper is not counted.
UncountedSleep(t) ==
    /\ Call(t) /\ mLock = NoThread
    /\ task_count > 0
    /\ wait_count' = wait_count + 1
    /\ GoTo(t, "asleep")
    /\ UNCHANGED <<task_count, mLock, mWaiters, mSem, n, objects, history>>

\* cnd_wait: mWaiters++ before the mutex is released.
WaitSleeps(t) ==
    /\ Call(t) /\ mLock = NoThread
    /\ task_count > 0
    /\ wait_count' = wait_count + 1
    /\ mWaiters' = mWaiters + 1
    /\ GoTo(t, "asleep")
    /\ UNCHANGED <<task_count, mLock, mSem, n, objects, history>>

\* WaitForSingleObject(mSem): any sleeper takes any token.
TakeToken(t) ==
    /\ At(t, "asleep") /\ mSem > 0
    /\ mSem' = mSem - 1 /\ GoTo(t, "woken")
    /\ UNCHANGED <<task_count, wait_count, mLock, mWaiters, n, objects, calls, history>>

\* With the mutex again, while (task_count > 0) sleeps another time ...
SleepAgain(t) ==
    /\ At(t, "woken") /\ mLock = NoThread
    /\ task_count > 0
    /\ mWaiters' = mWaiters + 1 /\ GoTo(t, "asleep")
    /\ UNCHANGED <<task_count, wait_count, mLock, mSem, n, objects, calls, history>>

\* Mutant: if instead of while around cnd_wait.
WaitEndsUntested(t) ==
    /\ At(t, "woken") /\ mLock = NoThread
    /\ wait_count' = wait_count - 1 /\ GoTo(t, "idle")
    /\ UNCHANGED <<task_count, mLock, mWaiters, mSem, n, objects, calls, history>>

\* ... or wait returns.
WaitEnds(t) ==
    /\ At(t, "woken") /\ mLock = NoThread
    /\ task_count <= 0
    /\ wait_count' = wait_count - 1 /\ GoTo(t, "idle")
    /\ UNCHANGED <<task_count, mLock, mWaiters, mSem, n, objects, calls, history>>

-----------------------------------------------------------------------------
\* Class Thread.  No method takes a lock.

Method(t, w) == t \in Owners /\ alive[w] /\ Call(t)

\* Mutant: self->cb is not set to NULL when the new thread takes the closure.
StartKeepsCallback(t, w) ==
    /\ Method(t, w) /\ state[w] = 0 /\ cb[w] = "object"
    /\ os' = [os EXCEPT ![w] = "running"]
    /\ GoTo(t, "starting") /\ target' = [target EXCEPT ![t] = w]
    /\ tame' = (tame /\ Cardinality(Started) < added)
    /\ UNCHANGED <<group, state, cb, alive, frees, closes, added, dones>>

\* The closure goes to the new thread before thrd_create, state is set after it.
Start(t, w) ==
    /\ Method(t, w) /\ state[w] = 0 /\ cb[w] = "object"
    /\ cb' = [cb EXCEPT ![w] = "thread"]
    /\ os' = [os EXCEPT ![w] = "running"]
    /\ GoTo(t, "starting") /\ target' = [target EXCEPT ![t] = w]
    /\ tame' = (tame /\ Cardinality(Started) < added)
    /\ UNCHANGED <<group, state, alive, frees, closes, added, dones>>

\* thrd_create fails: the closure is freed and start throws.
StartFails(t, w) ==
    /\ Method(t, w) /\ state[w] = 0 /\ cb[w] = "object"
    /\ cb' = [cb EXCEPT ![w] = "nobody"]
    /\ frees' = [frees EXCEPT ![w] = @ + 1]
    /\ UNCHANGED <<group, pc, target, state, os, alive, closes, history>>

SetStarted(t) ==
    /\ At(t, "starting")
    /\ state' = [state EXCEPT ![target[t]] = 1]
    /\ target' = [target EXCEPT ![t] = NoThread] /\ GoTo(t, "idle")
    /\ UNCHANGED <<group, cb, os, alive, frees, closes, calls, history>>

\* start of a started object and detach of one that does not run throw; join
\* of one that does not run returns the value kept.
Refused(t, w) ==
    /\ t \in Owners /\ alive[w] /\ At(t, "idle")
    /\ \/ state[w] # 0 \/ cb[w] # "object"   \* start
       \/ state[w] # 1                       \* join, detach
    /\ UNCHANGED vars

JoinOrDetach(t, w, l) ==
    /\ Method(t, w) /\ state[w] = 1
    /\ GoTo(t, l) /\ target' = [target EXCEPT ![t] = w]
    /\ UNCHANGED <<group, state, cb, os, alive, frees, closes, history>>

\* thrd_join or thrd_detach returned.  join does not look at what thrd_join
\* returns, which is taken to be success.
Closed(t) ==
    /\ \/ At(t, "detaching")
       \/ At(t, "joining") /\ os[target[t]] = "ended"
    /\ closes' = [closes EXCEPT ![target[t]] = @ + 1]
    /\ state' = [state EXCEPT ![target[t]] = 2]
    /\ target' = [target EXCEPT ![t] = NoThread] /\ GoTo(t, "idle")
    /\ UNCHANGED <<group, cb, os, alive, frees, calls, history>>

\* thrd_detach failed: detach throws, and the object stays as it was.
DetachFails(t) ==
    /\ At(t, "detaching")
    /\ target' = [target EXCEPT ![t] = NoThread] /\ GoTo(t, "idle")
    /\ UNCHANGED <<group, state, cb, os, alive, frees, closes, calls, history>>

\* The last reference goes: a running thread is detached (whether that fails is
\* not looked at; it is taken not to), and the closure is freed unless a thread
\* has it.
Destruct(t, w) ==
    /\ Method(t, w) /\ \A u \in Threads : target[u] # w
    /\ alive' = [alive EXCEPT ![w] = FALSE]
    /\ closes' = [closes EXCEPT ![w] = IF state[w] = 1 THEN @ + 1 ELSE @]
    /\ state' = [state EXCEPT ![w] = IF @ = 1 THEN 2 ELSE @]
    /\ frees' = [frees EXCEPT ![w] = IF cb[w] = "object" THEN @ + 1 ELSE @]
    /\ cb' = [cb EXCEPT ![w] = IF @ = "object" THEN "nobody" ELSE @]
    /\ UNCHANGED <<group, pc, target, os, history>>

\* The closure returns: _tphp_thread_entry frees it and the thread ends.
WorkerEnds(w) ==
    /\ At(w, "idle") /\ w \in Workers
    /\ os' = [os EXCEPT ![w] = "ended"]
    /\ frees' = [frees EXCEPT ![w] = @ + 1]
    /\ cb' = [cb EXCEPT ![w] = "nobody"]
    /\ UNCHANGED <<group, pc, target, state, alive, closes, calls, history>>

-----------------------------------------------------------------------------
\* What a thread does inside a call it has begun.
Proceeds(t) ==
    \/ Release(t) \/ TakeToken(t) \/ SleepAgain(t) \/ WaitEnds(t)
    \/ SetStarted(t) \/ Closed(t) \/ DetachFails(t)

Begins(t) ==
    \/ \E d \in Adds[t] : AddQuietly(t, d) \/ AddCompletes(t, d)
    \/ WaitPasses(t) \/ WaitSleeps(t)
    \/ \E w \in Workers :
          \/ Start(t, w) \/ StartFails(t, w) \/ Refused(t, w) \/ Destruct(t, w)
          \/ \E l \in {"joining", "detaching"} : JoinOrDetach(t, w, l)

Next ==
    \/ \E t \in Threads : Begins(t) \/ Proceeds(t)
    \/ \E w \in Workers : WorkerEnds(w)

Spec == Init /\ [][Next]_vars

\* A thread that is inside a call and can go on does so.
FairSpec == Spec /\ \A t \in Threads : WF_vars(Proceeds(t))
-----------------------------------------------------------------------------
Sleepers == {t \in Threads : pc[t] = "asleep"}
Blocked  == {t \in Threads : pc[t] \in {"asleep", "woken"}}

\* Typing; each number of sleepers, tokens and calls is a natural number.
TypeOK ==
    /\ task_count \in Nat /\ wait_count \in Nat
    /\ mWaiters \in Nat /\ mSem \in Nat /\ n \in Nat
    /\ mLock \in Threads \cup {NoThread}
    /\ pc \in [Threads -> {"idle", "releasing", "asleep", "woken", "starting",
                           "joining", "detaching"}]
    /\ target \in [Threads -> Workers \cup {NoThread}]
    /\ state \in [Workers -> 0 .. 2]
    /\ cb \in [Workers -> {"object", "thread", "nobody"}]
    /\ os \in [Workers -> {"none", "running", "ended"}]
    /\ alive \in [Workers -> BOOLEAN]
    /\ frees \in [Workers -> Nat] /\ closes \in [Workers -> Nat]
    /\ calls \in [Threads -> Nat]
    /\ added \in Int /\ dones \in [Workers -> Nat]
    /\ tame \in BOOLEAN

\* A token goes to any sleeper, one that began to wait later included, and
\* still none is lost: tokens, waiters not yet notified and those a broadcast
\* is about to release are together as many as there are sleepers.  So when
\* the count is 0 and no add is under way, each sleeper has a token.
NoneStranded ==
    /\ mSem + mWaiters + n = Cardinality(Sleepers)
    /\ wait_count = Cardinality(Blocked)
    /\ task_count = 0 /\ mLock = NoThread => mSem = Cardinality(Sleepers)

\* What wait is for: when Main announces each task before starting it and each
\* worker reports once, a count of 0 means that every started worker reported,
\* in whatever order add, start and done take the mutex.
ZeroMeansDone ==
    tame /\ task_count = 0 => \A w \in Started : dones[w] = 1

\* For each Thread object, whichever of start, failed start, join, detach and
\* destructor were called and whenever the thread ended: its closure is freed
\* once, and its thread is joined or detached once, if there was one.
ResourcesReturned ==
    \A w \in Workers :
        /\ frees[w] <= 1 /\ closes[w] <= 1
        /\ ~alive[w] /\ os[w] # "running" =>
              frees[w] = 1 /\ (closes[w] = 1 <=> os[w] = "ended")

\* wait is a wait for an instant at which the count is 0.
L == INSTANCE Latch WITH count <- task_count, inside <- Blocked
ImplementsLatch == L!Spec

\* Once the count stays 0, every wait returns, woken ones that had to sleep
\* again included.
WaitersReturn ==
    <>[](task_count = 0) => \A t \in Threads : [](t \in Blocked => <>(t \notin Blocked))
=============================================================================
