# Specifications of the TinyPHP runtime

TinyPHP compiles a subset of PHP (with its own additions: threads, channels,
futures, `or { }` blocks) to C and links it with a runtime written as header
files under `include/`. This directory holds TLA+ specifications of the parts
of that runtime whose correctness depends on order: the order of steps of
several threads, or the order of a long sequence of legal calls. Paths below
are relative to the repository (`include/` is `src/include/` in PROJECT.json,
where the compiler itself is `src/src/*.php`).

Contents: [parts of the system](#the-parts-of-the-system) ·
[modules](#the-modules) · [runs](#the-runs) · [bounds](#bounds) ·
[fairness](#fairness) · [proofs](#what-is-proved) ·
[where code and documents disagree](#where-the-code-and-its-documents-disagree) ·
[not modelled](#what-is-not-modelled) · [plan](#plan)

## The parts of the system

| part | source | state | operations | what makes it hard | what makes it correct |
|---|---|---|---|---|---|
| Channel | `include/object/channel.h` 41–244 | ring buffer, `head`, `tail`, `count`, `is_closed`, a mutex, `not_full`, `not_empty` | push, pop, tryPush, tryPop, close, length, isClosed, destructor | spinning before sleeping, one `cnd_signal` per operation, elements taken by threads that never slept, close at any point | a bounded FIFO queue; no lost wake-up; balanced references |
| chan_select | `channel.h` 528–586 | loop variable, `all_closed`, deadline | one polling function | two unlocked reads per channel while others push, pop, close | what its three kinds of result mean; it returns |
| Future | `channel.h` 246–526 | `state`, `result`, `error`, a mutex, `done` | create, resolve, reject, await, then, catch, all, race, isReady, isRejected | unlocked look first, lock only to sleep, unlocked reads of the outcome | settled once; everyone sees the same outcome; waits end |
| exceptions | `include/object/try.h`, the try statement of `CodeGenerator.php` and `CodeGenDataTrait.php` | `_tp_ex_top` and the frames linked from it | try, throw, catch, finally, break, return | non-local jumps into C frames that may be gone; one list for all threads | a throw lands in the innermost try; finally runs |
| Thread, Mutex, CondVar, WaitGroup | `include/object/thread.h`, `include/compat/tinycthread.h` | thread object state, semaphore and waiter counts, task counts | start, join, detach; wait, signal, timed wait; add, done, wait | emulation of condition variables by a semaphore, a closure that changes owner, counters clamped at 0 | no wake-up is lost; wait returns at 0 and only then; closures freed once, threads closed once |
| Array | `include/array.h` | entries, integer and string hash index with tombstones | get, set, push, unset, pop, shift, grow | unset moves the last entry; the index is built late and repaired step by step, not by every operation | index and entries agree; lookups end |
| Generator | `include/object/generator.h` | coroutine state, shared storage of values, cached key, value and result | current, next, send, yield, return, destroy | where coroutines are threads (macOS with TCC) hand-over and destruction; one storage for both directions | one side runs at a time; a sent value reaches its yield; calls return |
| Parallel | `include/object/parallel.h` | chunks of a range, thread handles | map, for | thread creation that fails half way, rounding | each index is visited once, all before the return |
| objects, resources | `include/object/object.h`, `resource.h` | reference counts, table of resources with a free stack | retain, release, register, close | plain counters shared by threads | freed once, after the last use |
| runtime memory | `include/runtime.h`, `include/compat/tls.h` | thread-local string pools and free lists | alloc, free, cleanup at thread exit | which cleanup the thread wrapper is compiled with | — |
| compiler | `src/Lexer.php` … `src/CodeGenerator.php` | trees and symbol tables | one pass after the other | sequential | — |
| library, extensions, driver | `include/std/`, `include/os/`, `ext/`, `tphp.php` | none that outlives a call | — | — | — |

How they interact. Generated code calls the runtime's functions directly;
there are no processes or messages. A `Thread` runs a closure in a C thread;
objects captured by the closure (channels, futures, mutexes, arrays) are shared
by pointer and reference count. Channel and Future use `mtx_*` and `cnd_*` of
`tinycthread.h`, and throw through `tp_throw_ex` of `try.h` (`push` on a closed
channel, `await` of a rejected future). `chan_select` reads fields of Channel
objects directly. The compiler's try statement expands to the macros of `try.h`,
and an `or { }` block is such a statement with the one class `Exception`.

PROJECT.json lists each hazard of this code with the line where it bites and
the properties that would catch it going wrong.

## The modules

| module | models | uses |
|---|---|---|
| `BoundedQueue` | what Channel promises: a FIFO queue on which each call takes effect in one step | |
| `Channel` | class Channel, one action per step between two points where another thread can run | instantiates `BoundedQueue` |
| `ChannelProofs` | theorems about `Channel`, its refinement of `BoundedQueue` among them | extends `Channel` |
| `ChanSelect` | `chan_select` against concurrent channel calls | |
| `ChanSelectProofs` | theorems about `ChanSelect` | extends `ChanSelect` |
| `Future` | class Future with its unlocked reads | |
| `FutureProofs` | theorems about `Future`, for builds that keep its stores in order | extends `Future` |
| `ExceptionFrames` | frames of `try.h` under every program built from given try statements | |
| `ExceptionFramesProofs` | theorems about `ExceptionFrames`, for exceptions in one thread | extends `ExceptionFrames` |
| `Latch` | what WaitGroup promises: a count, and a wait for an instant at which it is 0 | |
| `WaitGroup` | classes Thread and WaitGroup over the semaphore that stands in for a condition variable | instantiates `Latch` |
| `WaitGroupProofs` | theorems about `WaitGroup`, its refinement of `Latch` among them | extends `WaitGroup` |
| `Generator` | class Generator where a coroutine is a thread: caller, body, and what they pass | |
| `GeneratorProofs` | theorems about `Generator` | extends `Generator` |
| `PhpMap` | what an array promises about its keys | |
| `ArrayMap` | `t_array`: entries, two hash tables, and what each operation does to both | instantiates `PhpMap` |
| `ArrayMapProofs` | theorems about `ArrayMap`, `MeansMap` among them | extends `ArrayMap` |
| `ParallelLoop` | what Parallel promises: each index once, all before the return | |
| `Parallel` | one call of `Parallel::for` or `map`, its workers and every failure | instantiates `ParallelLoop` |
| `ParallelProofs` | theorems about `Parallel`, its refinement of `ParallelLoop` among them | extends `Parallel` |
| `MC…` | constants for TLC | extend the module they are named after |

Definitions named `…OffByOne`, `SignalNone` and the like, each followed by the
definition it varies, are faulty variants (the comment above calls them
mutants); `PROJECT.json` lists under `mutants` which property each one breaks.

### Channel

Each field of `tphp_class_Channel` is a variable. `pc` says where a thread is in
its call:

| `pc` | in the code |
|---|---|
| `idle` | outside |
| `lock` | at `mtx_lock`, the first time or in the spin loop |
| `check` | has the mutex, about to test `is_closed` and `count` |
| `commit` | the test succeeded, the mutex is kept, about to update |
| `wait` | inside `cnd_wait`: asleep while in `notFull` or `notEmpty`, then re-locking |
| `read` | at the unlocked read of `isClosed` |

`push` is `Lock`, then one of `PushThrows`, `PushFindsRoom` followed by
`PushStores`, `PushSpins` (unlock, `thrd_yield`, lock again, at most
`TPHP_CHAN_SPIN` times) and `PushSleeps`; `pop` is the same with its own tests
in its own order (count before `is_closed`). `tryPush` and `tryPop` never spin
or sleep. The spin loop and the wait loop of the code repeat the same test; in
the model they share `check`, and `spins` says which loop the thread is in.
`refs` counts the references that the channel owns: `push` retains, `pop` hands
its reference to the caller, the destructor releases what is left between
`head` and `head + count`.

The mutex and the condition variables have their POSIX meaning: `cnd_wait`
gives up the mutex and falls asleep in one step, `cnd_signal` wakes any one of
the sleepers, wake-ups without signal happen (bounded by `MaxSpurious`).

### ChanSelect

The selector's two unlocked reads of a channel are two actions (`ReadClosed`,
`ReadCount`), with any number of pushes, pops and closes between them. Channels
appear as `BoundedQueue` promises them, reduced to length and closed flag.
`Rivals` are the channels that other threads pop from, too. The clock is reduced
to whether the deadline has passed; it is looked at only after a whole scan.
The caller pops from the channel it was given (`PopSelected`) and, after a
timeout, may call again.

### Future

`resolve` and `reject` store the value and the state in two steps (`FirstStore`,
`SecondStore`) while they hold the mutex; in between, `await`, `then`, `catch`,
`all`, `race` and `isReady` look without it. `Look` is the unlocked test that
also stands for the spin loop of `await`; `Sleep` and `StopWaiting` are the
loop around `cnd_wait`; `AwaitEnds`, `ThenOrCatchEnds`, `AllTakes` and
`RacePolls` read the outcome without the lock. With `ReorderStores` the two
stores may become visible in either order, as plain C stores may.

`then` and `catch` run the callback at once in the calling thread, so the
future they return is settled before anybody else knows it: it is the outcome
of the call in the model. The same holds for the futures of `all` and `race`.

### ExceptionFrames

`ctl[t]` is the stack of regions thread `t` is inside of: calls, and the parts
of try statements. Which region comes next is free, so TLC runs every program
that can be built from the given shapes of try statements: catch of one class,
with and without `finally`, `finally` alone, and the `or { }` block. Exceptions are of
two classes or, when `tp_throw` found no memory for an object, a mere message,
which no clause with a class takes. A frame
lives in the C stack slot of its statement, known by thread, depth and shape,
so that a statement in a loop finds the same slot again. `Jump` is `longjmp`:
it resumes the control that `setjmp` recorded if the calls of that time are
still active; it may also be undefined (`status = "wild"`) if the block that
holds the slot has been left.

`habits` is a history variable that remembers what the program did that the
frames do not expect:

- `plain`: a try statement without `finally` ended with no exception thrown;
- `leave`: `return` or `break` left a try body, or a catch with a `finally` to come;
- `rethrow`: a throw left the catch of a statement with `finally`.

The properties that hold say what the frames achieve for programs without
(some of) these; the violated one states the documented behaviour for all.

### WaitGroup

`Main` creates one Thread object per worker and calls their methods
(`thread.h` 36–137); every thread may call `add`, `done` and `wait` of one
WaitGroup (289–335). Its condition variable is the one of TCC builds for Windows
(`tinycthread.h` 640–705): `mWaiters` counts sleepers not yet notified, and a
notification releases a semaphore. Native condition variables promise more, so
what holds here holds for them. (README.md:307 and FUNCTIONS.md:3253 describe
WaitGroup as one `u64` and a semaphore; the code has a mutex, two counts and a
condition variable.)

| `pc` | in the code |
|---|---|
| `idle` | outside these classes |
| `releasing` | in `cnd_broadcast`: `mWaiters` is read and reset, `ReleaseSemaphore` to come; holds the mutex |
| `asleep` | in `WaitForSingleObject` on the semaphore |
| `woken` | has a token, about to take the mutex and to look at the count again |
| `starting` | `thrd_create` returned, `state = 1` to come |
| `joining`, `detaching` | in `thrd_join`, `thrd_detach` |

All that a thread does under the mutex is one step, but for the release of the
semaphore: sleepers see it without the mutex. A token may be taken by a thread
that went to sleep after the broadcast it belongs to; the one it was meant for then sleeps on,
counted in `mWaiters` in the other's place, until the next broadcast.
`cb` says who has to free the copy of the closure, `frees` and `closes` count how often
it was freed and the thread was joined or detached.

`Owners` are the threads that call methods of Thread objects. The methods take no
lock: with two owners, `join` and `detach` may both find state 1 and close the
handle twice, and `start` may create two threads. FUNCTIONS.md does not say that a
Thread may be shared; the run, and the theorem about resources, have one owner.

`tame` is a history variable: Main announced every task before it started it and each
worker reported once. Without it 0 means little: `add` clamps at 0, so a `done` before its
`add` is lost.

`thrd_create` and `thrd_detach` may fail in the model (`StartFails`, `DetachFails`), where
the code looks at their result; `join` and the destructor do not look, and there the
calls are taken to succeed. `WaitGroup::add` casts its 64-bit argument to int
(`thread.h:319`) and the counts are ints: arguments and sums are taken to fit.

### Generator

Coroutines are threads only in TCC builds on macOS (`generator.h` 84–294); with
other compilers control is switched within a thread, which allows a subset of
these behaviours. The caller's side is `Call` (rewind and the method), `Resume`,
`AwaitBody`, `CacheReturn`, `CacheYield` (343–480) and `Destroy`; the body's side is
the code that the compiler makes of `yield` and `return` (`CodeGenDataTrait.php`
3118–3140, 3252–3274): `Yield`, `Suspend`, `Receive`, `Return`, `Finish`. Both directions
pass values through one stack, `storage`, without a lock, which is sound only
because one of them runs at a time (`OneRuns`). Values are numbered: the n-th yield
yields n, the n-th call sends n, so that one value cannot pass for another.

`Destroy` and `Joined` are `mco_destroy`, which sets a suspended generator DEAD, wakes
its thread and joins it. What that does depends on where the body is:

- never started: the thread has waited in `_mco_thread_entry`, which does not look at the
  state, so the whole body runs, from its beginning; `mco_yield` sees DEAD and refuses
  (`Refuse`), the yield returns null, and the body goes on. It ends if it would end with
  every yield answered by null; a loop without end, such as `while (true) { yield $i; }`,
  never does, and neither does the destructor;
- suspended at a yield: the thread has waited in `mco_yield`, which sets the state to
  RUNNING again when it wakes (`Unpark`). Its next yield is therefore not refused: it
  signals a caller that is in `pthread_join`, and waits to be resumed, for ever, even if
  the body would return at the yield after it;
- ended: there is nothing to wait for.

The comment at `generator.h:202` says of both that the thread is woken to exit.
`DestroyEnds` says what does hold: the destructor of a generator that was never
started or has ended returns, if the body does (`BodyReturns`, an assumption about the
program that is a premise of the property).

### ArrayMap

An entry is its key, and what the string part of the key's union holds: writing
an int key leaves the string's length behind, and freeing a string leaves the
empty one. `mem` reaches beyond `length`, because slots left stale by `pop` name
cells there. A hash table is built by the first lookup or insertion of an array of
`Threshold` entries (`Ensured`, `Build`) and from then on told of changes by
`Insert` and `Delete`; `Probe` is the loop that every one of those contains, and says -1
when it does not end. What the code does, and the model therefore does:

- `push` tells no table, since the fast path finds its entry;
- `push` uses the length as key, which after `unset`, `shift` or an assignment to a
  larger key may be there already; `tame` is FALSE from then on;
- `unset` of an int key not below the length does nothing, whether the key is there or
  not;
- `pop` shortens the array before it asks the table to delete the key, so the
  table does not recognise it and keeps the slot. These slots count, so tables double
  under a repeated set and pop;
- doubling hashes, for such a slot, the string that its cell holds by now, which may be
  one that the array no longer owns (`status = "undefined"`);
- the slots used once are never empty again, so a table can run out of them, and a search
  for an absent key goes round for ever (`status = "hung"`, run `array_hang`).

`InitialCap` and `Threshold` are 16 and 8 in the code, 4 and 2 in the runs: the table is
never smaller than twice the length when it is built, and the load factor of 3/4 leaves
a slot from four slots on, which is why `ArrayAssumption` asks for four. The loops of
building and of doubling are recursive functions (`CapFor`, `Filled`), not RECURSIVE
operators, so that the proofs can use them.

### Parallel

One call of `Parallel::for` or `map` (`parallel.h` 52–101, 139–211). The caller's loop
over the chunks is `Spawn` (context and thread created), `SpawnFails` (the caller runs the
chunk itself, `RunOne`), `NoContext` and `AllSpawned`; then it joins handle by handle. A
worker visits its indices one by one. `visits[x]` counts calls of the callback with
x, and in `map` also the store to `results[x]`, which nobody reads before the joins; the
copy of the results is part of the return.

`handles` is indexed by the number of threads created, not by the chunk; joining a place
where no handle was stored never ends in the model. The argument `threads` is 64 bits
wide and is cast to int (`ToInt`), so it may turn out zero or negative, and the caller
then does all. `chunk` rounds up a sum that `for` forms in 64 bits and `map` in int (line
167), where it overflows for arrays near 2^31 entries: `ParallelAssumption` excludes
lengths of 2^30 and more.

When there is no memory for a context, `tp_throw` does not come back: the `break` and the
joins behind it are dead code, workers go on after the call was left, and
`handles` (in `map` also `results` and the reference to the input) leak. `ParallelLoop` allows
visits after a throw for that reason. The environment of the callback, which line 96 says
the joins protect, is then protected by nobody.

## The runs

| run | what is asked | result |
|---|---|---|
| `channel` | two producers, two consumers, capacity 2, spurious wake-ups, tryPush, tryPop, close, length, destructor: ranges of the fields, lost wake-ups, references, refinement of `BoundedQueue` | holds, 800 000 states |
| `channel_live` | capacity 1 (the constructor's minimum, requested as 0), one spin round: sleepers wake for work, close ends every blocked call | holds, 125 000 states |
| `chan_select` | three channels, one with rival readers, a deadline: meaning of the index, of -1 and of -2; termination | holds, 250 000 states |
| `future` | two settlers, two waiters, two futures, all methods: one outcome for everybody, array order of `all`, fairness of `race` to settled elements, waits end | holds, 140 000 states |
| `future_reorder` | does `await` return the result in builds that reorder plain stores? | violated |
| `exceptions` | up to three try statements, three throws, one call: nesting of the frames, landing of throws, finally, for programs without (some) bad habits | holds, 2.8 million states |
| `exceptions_dangling` | does every throw land in the try around it? (one thread) | violated |
| `waitgroup` | Main with two workers: add, done, wait, start, failed start, join, detach, failing detach, destructor: no waiter stranded, what 0 means, closures and threads, refinement of `Latch`, waits return | holds, 292 000 states |
| `generator` | up to four yields and six calls: one side runs at a time, values and states agree, calls return, and so does the destructor where it can | holds, 1 500 states |
| `arraymap` | five keys, three entries, tables of four and eight slots, eight operations: keys distinct, tables agree with entries, operations mean what `PhpMap` says | holds, 255 000 states |
| `parallel` | up to five indices, all numbers of threads, every failure of memory and thread creation: bounds, refinement of `ParallelLoop`, the call ends | holds, 18 000 states |
| `array_hang` | does every lookup end? | violated, in six steps |

What the main properties say, beyond the ranges of fields:

- `NoLostWakeup`: while a push sleeps, every free slot has a push that is
  awake; while a pop sleeps, every element has a pop that is awake. This is
  why one `cnd_signal` per operation is enough although the signalled thread may
  find its slot stolen. It is stronger than the absence of deadlock and, unlike
  it, says something in every state.
- `ImplementsQueue`: every call takes effect at one instant between its
  invocation and its return (the update under the mutex, or the unlocked read
  of `isClosed`); what is pushed comes out once, in order, also after close,
  and nothing is accepted after close.
- `ReferencesBalanced`: the channel owns one reference per stored element and,
  once destructed, none.
- `SelectedDoesNotBlock`, `AllClosedMeansDrained`, `ReadyIsFound`: a pop from the channel of
  the index does not block, unless a rival took its last element after the look; -2 means that
  everything has been handed out, and data present at the call is never passed
  over by any of the three results.
- `AwaitersAgree`, `AllFollowsArray`, `RaceTakesSettled`, `SettledForever`:
  every reader gets the one outcome of the future.
- `FramesNest`, `CarefulThrowsLand`, `FinallyOfCareful`: for programs without the habits
  above, the frames linked from `_tp_ex_top` are those of the open try bodies; every
  exception in flight inside of a try body (thrown, rethrown, or pending at the end of a
  finally block that is not left by break or return) lands in the innermost one, which goes on where its `setjmp` was; outside
  of all try bodies a throw ends the program, and an exception that comes through a
  statement is forgotten there (`ThrowsOutside`, which is what the code does and not what is
  documented); a statement is not left before its finally block began.
- `NoneStranded`: tokens, sleepers not yet notified and those about to be released are
  together the sleepers; at count 0, with the mutex free, each sleeper has a token.
- `ImplementsLatch`, `ZeroMeansDone`: a thread leaves `wait` at an instant at which the
  count is 0, and 0 means that every started worker reported (`tame`).
- `ResourcesReturned`: whatever became of start, join, detach, destructor and
  thread, in whatever order, the closure is freed once and a thread closed once.
- `OneRuns`, `InStep`: body and caller, threads though they are, never run at once;
  between two calls, each yield has returned the value sent to it, nothing is
  left on the storage, and the object holds the last yield and the result.
- `InsertsEnd`, `KeysDistinct`, `IndexAgrees`, `MeansMap`: a table never fills up with slots
  in use; a key is there once; a search with the table finds exactly what is present, after any
  sequence of operations in which no push met its key; each operation adds or removes the
  key it should and no other, while keys are distinct. Two operations do that for some keys
  only, and `MeansMap` says for which by the state before the step: unset of an int key
  removes it if it is below the length and changes no key otherwise, present or not; a push
  adds the length as a key if it is free and changes no key otherwise.
- `ImplementsLoop`: no index is visited twice, whoever does it; when the call returns
  all were, so `map` copies no result that was not stored.
- Liveness: `WakeupsArrive`, `CloseReleasesAll`, `SelectReturns`, `WaitsEnd`, `WaitersReturn`
  (every wait returns once the count stays 0), `CallsReturn`, `DestroyEnds` (if the body returns), `CallEnds` (no
  handle is joined that is none).

## Bounds

- `Channel`: two calls per thread (`Budget`) and one wake-up without signal.
  Capacity 2 with up to four pushed elements wraps both indices around; two
  producers and two consumers are the least with which a signalled thread can
  be overtaken by one that never slept. In `channel` `SpinRounds` is 0, because
  a failed spin round changes nothing but the thread's own counter; in
  `channel_live` it is 1, so that close and signals also meet threads in the
  spin loop. The theorems are about any number of threads, capacity, budget and
  spin rounds.
- `ChanSelect`: three channels of capacity 2 with at most two pushes each
  (`MaxPushes`), so that data may be before, at and behind the scanned index,
  and a rival channel may fill again. The theorems are about any number.
- `Future`: one call per thread (`Budget`). Every method meets another on the
  same future; a second call of a thread starts from the same state as the first
  call of another. The array of `all` and `race` has two elements, and the empty
  array is among the calls. The theorems are about any programs of calls, any
  number of threads and futures, and arrays of any length.
- `ExceptionFrames`: at most four nested regions (`MaxDepth`), three entered
  try statements, three throws and one call in a run. A statement with its
  enclosing one, an exception that both rethrow, and a call between them fit
  inside; so does the same slot used a second time. The theorems are about any
  depth, any number of throws and calls, and any set of try statements.
- `WaitGroup`: two workers with two calls each and six calls of Main, which are enough
  for announcing both, starting both and waiting while a third waits, too;
  arguments of `add` are 1 and 2 for Main, -1 for the workers, and 1 for one of them, so
  that waiting may begin anew while tokens are out. The theorems are about any number.
- `Generator`: four yields and six calls, so that the body may end before, with or
  after the last call, at every stage; a storage of four values, of which three
  are the most in use. Yields are counted, and numbered, while there is a caller: after the
  destructor has set the state to DEAD a body may yield without end, which is refused. The theorems are about any bounds and a storage of two or more.
- `ArrayMap`: two strings with one home, a third one that shares its home with the
  freed string, two int keys; three entries of tables of four slots, which double to eight;
  eight operations. Two tombstones, a stale slot and a
  doubling fit into these. `array_hang` has four strings with a home each. The theorems
  are about any keys, any hash function, any threshold, first tables of four slots or
  more, and any number of operations on arrays of any length.
- `Parallel`: lengths -1 to 5 and an int of five bits, so that requests come out as -7, 0,
  1, 2, 3, 4 and more than there are indices: chunks of one, two and three indices, a short last one,
  and fewer chunks than threads. The theorems are about any length, request and width.

TLC's deadlock check is off in all runs: programs of the model end when their
budget is used up, and a thread may block for ever on a channel or a future
that nobody serves, which the code does, too. What must not block is stated by
`NoLostWakeup`, `NoneStranded` and the liveness properties.

## Fairness

Weak fairness of `Step(t)` for each thread (`Select` in `ChanSelect`, `Proceeds(t)` in
`WaitGroup`, `InCall` and `InBody` for the two threads of `Generator`, `Caller` and
`Worker(c)` in `Parallel`): a thread that is inside a call and can take a step does so.
The operating system's scheduler gives that to a runnable thread, and no step of these
calls waits for anything but the mutex, a signal or the state it tests. Nothing is
assumed of threads outside of calls: they need not push, pop, close, settle or call
again. Weak fairness does not promise the mutex to a thread that always finds it taken
at the wrong moment; the liveness properties do not need it, because with `Budget` calls
per thread the others finish at some time. A woken waiter of a WaitGroup competes for
the mutex with threads whose calls are bounded, too. In `Generator`, `InBody` assumes
that the code of a body reaches its next yield or its end, which is up to the program,
but not that it ever ends: `DestroyEnds` has that as a premise
(`BodyReturns`: a body that can return again and again does so in the end),
and in `Parallel` the callbacks terminate. A polling thread of `race` and `chan_select`
never blocks, so its fairness is that of a running thread.

## What is proved

The theorems hold for every value of the constants that meets the named assumptions:
`ThreadsAssumption` (finitely many threads, and the special values are special),
`CapacityAssumption` (the argument of the constructor fits an int), `BoundsAssumption`
(bounds are natural numbers), `SelectAssumption` (at least one channel, of positive
capacity), `WaitGroupAssumption` (finitely many workers, Main not among them),
`GeneratorAssumption` (the storage has room for the pair of a yield),
`ParallelAssumption` (twice the length fits an int), `FutureAssumption` and `ProgramsAssumption`
(finitely many threads; each has a set of calls that it may make, well formed),
`FramesAssumption` (classes, shapes and bounds are what they are called),
`ArrayAssumption` (int keys are natural numbers and no strings; every key has a hash;
four slots or more). Two theorem groups have a hypothesis besides: `ReorderStores =
FALSE` in `FutureProofs` is about builds that keep plain stores in order (run
`future_reorder` shows what happens in others), and `OneThread` in
`ExceptionFramesProofs` says that only one thread uses exceptions, because `_tp_ex_top`
is one variable for all.

**Channel.** `NoLostWakeup` is not inductive. The invariant is

    IInv == TypeOK /\ ControlInv /\ NoLostWakeup

where `ControlInv` ties the control to the data: the owner of the mutex and only
it is between a lock and an unlock (`LockInv`); `op`, `arg` and `pc` belong
together (`CallInv`); who is in a wait set is in `cnd_wait` of the fitting method
(`SleepInv`); the test made under the mutex still holds when the update is made
(`CommitInv`); nobody sleeps on a closed channel (`ClosedInv`). `CommitInv` is
what `TypeOK` needs, since `push` adds to `count` without a second test.
For `NoLostWakeup`, a push uses up one free slot and one awake push, so it
cancels out for `not_full`; for `not_empty` it adds one element and signals one
sleeping pop, which is then awake. Falling asleep is allowed only when there is
no free slot at all, and then the claim asks for nothing. Theorems:
`TypeCorrectness` (`TypeOK`; every access to `ringbuf` is inside it),
`MutualExclusion` and `WakeupsNotLost` (`NoLostWakeup`).

The buffer needs

    QInv == IInv /\ BufferInv /\ ReferencesBalanced

where `BufferInv` puts `tail` `count` slots behind `head`, modulo the capacity, and the
pushed values into the slots between. Modular arithmetic is confined to two lemmas,
`StoreAppends` and `TakeRemoves`: what `push` does to ring and indices appends to
`Contents`, what `pop` does takes its first element, around the end of the ring and
wherever stale values are. `ReferencesKept` then counts the positions of a value in
`Contents` (`CountAppended`, `CountTail`). `IsAQueue` is the refinement of
`BoundedQueue`: one lemma per action maps it to the step of the queue that takes effect
there (`commit`, or the unlocked read of `isClosed`), or to a stutter.

**chan_select.** The invariant adds to `TypeOK`: `all_closed` stands for the
channels passed in this scan, each closed and empty, which nothing can undo since
a closed channel accepts no push (`ScanInv`); a channel that had data at the
call, and has no rival, still has it and has not been passed (`ReadyInv`); the returned
channel has data or is closed, unless a rival took its last element (`ResultInv`).
The order of the two reads matters: with `count` read first, a push and a close
between them would make -2 a lie (variant `LookSwapped`). Theorems: `TypeCorrectness`,
`SelectionDoesNotBlock`, `AllClosedIsFinal`, `NoReadyChannelMissed`.

**Future.** `LockInv` and `ControlInv` tie the mutex, the program counter and the
position in the array to the call in progress; they need no hypothesis, so `TypeCorrect`
holds in every build. With the stores in order, `SettledInv` says that a settled future
has the value its state speaks of; `StoreInv` that between the two stores the future is
still pending and already holds the new value, and that whoever reads without the lock
(`take`) reads a settled one. From these `NeverSettledTwice` follows: the only action
that makes a state settled found it pending under the mutex. `AwaitedInv`, `CollectInv`
(what `all` has collected are the results of the elements before its position) and
`PassedInv` (`race` has passed in this round no element that was settled before the
call) make `AwaitersAgree`, `AllFollowsArray` and `RaceTakesSettled` inductive:
`OneOutcome`, `AllInArrayOrder`, `RaceIsFair`.

**ExceptionFrames.** `TypeCorrect` holds for any number of threads. For programs without bad habits,

    NestInv == TypeOK /\ LinkedInv /\ LandedInv /\ TameInv /\ FramesNest

`FramesNest` says of each thread's control that the frames of its open try bodies,
innermost first, are the list from `_tp_ex_top`; it is inductive with `LinkedInv` (a
frame on the list recorded the control in which its statement began) and `LandedInv`
(`setjmp` returns 1 into the innermost region only). A throw resumes the control of the
topmost frame, in which the frames below are those of the try bodies around it; since
these frames and the open try bodies are the same, there is none exactly if there is no
open body, and only then does a throw call exit, or `TP_END_TRY` forget an exception.
`FramesNestAlways` and `CarefulThrows` (the action property) come from the same step
lemma, one case per kind of step: push, take off, jump, return.

`FinallyRuns` is harder, because programs that end a try statement normally (`plain`)
are among those it is about: frames of statements that are gone stay on the list, above
frames that are needed. Its invariant `OwedInv` says for each statement that still owes
its finally block: the list leads from `_tp_ex_top` to its frame (`LeadsTo`), through
frames of a set S only, and each frame of S recorded a control that still contains the
owed statement (`Guarded`). Whatever frame a throw takes, it therefore lands inside of
the statement. The lemmas `GuardedMoves`, `GuardedTop`, `GuardedPush` and `GuardedFrame`
say how S changes when the control, the top or one frame does.

**WaitGroup.** `Counted` strengthens `NoneStranded`: besides both sums, `mWaiters` is 0
while the count is 0, and `n` is 0 while the mutex is free. A sleeper that takes a token
lowers both sides of the first sum; a broadcast moves `mWaiters` to `n` and `n` to the
semaphore. An `add` that ends at 0 and finds nobody waiting relies on `wait_count`
counting all who block. For `ZeroIsDone`, `Balanced` relates the count to announced and
reported tasks in `tame` behaviours: nothing was clamped, so the count is their
difference, and at most as many workers started as were announced. `NothingLeaks`
assumes `OneOwner` and rests on `OwnInv`: state, owner of the closure, thread and call
under way of each Thread object belong together. `IsALatch`: each step is a step of
`Latch` or a stutter.

**Generator.** `TurnInv` lists the joint states of caller and body: whose turn it is follows
from `pc`, `gpc` and the two flags, which no signal, late or spurious, can put
out of step. `NeverAtOnce` and `AlwaysInStep` follow from it with what is on the storage at
each of these; the type theorem shows on the way that the storage cannot overflow.

**Parallel.** The first lemmas are arithmetic: a range of `len` is not longer than `m` chunks
of length ⌈`len`/`m`⌉ (`RoundedUp`), and an index lies in one chunk only (`OneInterval`).
`Done(x)` tells from the control of the caller and of the worker of x's chunk
whether x was visited; `VisitInv` says that `visits` is exactly that, so a visit is always
the first (`RunOneStep`, `WorkOneStep`), and `WorkerInv` relates handles, joins and ended
workers, so that everything is done at the return (`AllVisited`). `IsALoop` combines them.

**ArrayMap.** The library's induction theorems take an operator as a parameter, which
the provers cannot instantiate, but that the order of the natural numbers is well
founded is a statement about sets. From it come `LeastNumber` (a set of numbers has a
least one), `UpTo` (induction up to N, with a set for the induction hypothesis) and
`Recursion` (a function given by first value and step exists, hence the CHOOSE that a
recursive function stands for is that function). With these `FilledTable` and
`CapForEnough` prove what the loops of building and doubling compute, for any number of
rounds, and `ProbeStops` that a probe stops at the first slot of those it looks for.

The invariant `IInv` says of each table that it is one that `insert` can use
(`GoodTable`: its count is the number of slots in use and less than the capacity), of
each entry with a string key that its cell holds that string (`Shaped`, on which
doubling relies), and, in tame behaviours, that keys are distinct and that each table
covers the entries of its kind: an entry is found by the fast path or its position is in
the table, with no empty slot between its home and its slot (`InTable`, `Covers`).
Tombstones and stale slots are not mentioned: a probe passes the ones and finds the
others to be of another key or of the right one. That `unset`, `pop` and the move of the
last entry into the hole leave the tables in disagreement for a while is `CoversBut`, a
table that covers all entries but one; `delete` keeps that (`DeleteCovers`: it takes
away no slot of an entry with another key), `insert` of the missing one ends it
(`InsertTable`). Entries on the fast path stay there, because a key on it says where it
is (`CoversMoved`). Theorems: `TypeCorrect`, `InsertsAlwaysEnd`, `KeysStayDistinct`,
`TablesAgree` and the action property `ArrayMeansMap`.

**Only model-checked:** liveness (`WakeupsArrive`, `CloseReleasesAll`, `SelectReturns`,
`WaitsEnd`, `WaitersReturn`, `CallsReturn`, `DestroyEnds`, `CallEnds`), which is beyond
this prover, as is ENABLED. Every other property of a passing run is stated by a
theorem.

## Where the code and its documents disagree

Three runs show a violated statement; their counterexamples are short and can be
followed in the source. PROJECT.json quotes the document or comment of each.

- `future_reorder`: `state`, `result` and `error` are plain fields
  (`channel.h:315`–`316`, read at 343–357). GCC and Clang at the default `-O2`,
  and aarch64, which README.md:33 supports, may reorder them; `await` then returns
  the null of a fresh future.
- `exceptions_dangling`: a try without finally that ends with no exception
  leaves its frame on `_tp_ex_top`; the next throw jumps to it.
- `array_hang`: FUNCTIONS.md:278 gives lookups constant time from eight keys on, and the comment
  at `array.h:124` lets a lookup return -1; the loop (`array.h:131`) stops at an
  empty slot only. Setting and unsetting different keys turns all slots into entries and
  tombstones; the next lookup of an absent key does not end.

The model contains the following, too. The properties of the passing runs say what the
code does instead of what is documented:

- chan_select: FUNCTIONS.md:3359 says that its index is of a channel
  that has an element to pop *or is closed*. The code (`channel.h:565`) looks at `count`
  only and reports closed channels when all are closed and empty; a call without timeout
  goes on polling an open and empty channel next to a closed one. `SelectReturns` promises
  no more than that, and `SelectedDoesNotBlock` allows both documented meanings.
- Uncaught exceptions: FUNCTIONS.md:3068 lets an exception that nobody catches end the
  program with `exit(1)`. One that passes a try statement on its way is forgotten where
  there is no frame below (`try.h:253`, and 256–273 for one that no clause took): at top
  level, `try { throw … } finally { }` goes on behind the statement (`ThrowsOutside`).
- finally: FUNCTIONS.md:3064 says that it always runs, but `break`,
  `continue` and `return` in a try statement are plain C statements inside `do { } while (0)`;
  they, and a throw in a catch clause, leave it without the finally block. These are the
  programs that `FinallyOfCareful` excludes.
- Swallowed exceptions: the comment at `CodeGenerator.php:2911` adds a clause for string
  exceptions; the clause takes exception objects of any class and forgets them
  (`AnyIgnores`).
- Generator's destructor: the comment at `generator.h:202` says that it wakes the body's
  thread to exit; the body runs on, as described [above](#generator), and the join may never
  return. `DestroyEnds` has premises for that reason.
- unset of an int key: the comment at `array.h:576` says that it deletes the element; a key
  that is not below the length (`array.h:579`) is ignored, there or not (`RemovesIfBelow`).
- push: FUNCTIONS.md:305 names a single difference from PHP, the number of
  arguments; but the key of a pushed element is the length (`array.h:471`), which may be
  there (`AppendsIfFree`, `tame`).

Smaller ones, and some that the runs leave out:
`_tp_ex_top` (`try.h:81`) is one variable for all threads, so a throw in one can jump to
a frame of another. FUNCTIONS.md:3315 and others speak of
750 spin rounds (64 in `channel.h:35`); 3331 calls `length` lock-free (it locks);
3343 and 3370 let `await` throw a `FutureRejectedException` (it rethrows the object
given to `reject`); the comment at `channel.h:376` says that callbacks of `then` run
at `await` (they run at once); `race([])` returns a future that stays pending.

## What is not modelled

- Allocation failure, null receivers and null elements of arrays; contents of
  messages and who frees them.
- In Future: reference counts of results, the destructor.
- In exceptions: `break N` (a goto), `defer`, generators, the text of messages.
- Weak memory beyond the two stores of Future: `chan_select` is modelled for
  builds that keep its two loads in order.
- Timed waits, spin locks and the classes Mutex and CondVar; WaitGroup's destructor.
- In Generator: `yield from`, a body that resumes its own generator, exceptions out of a
  body, coroutines without threads.
- In ArrayMap: values and their reference counts, growth of the entries and the free list of
  arrays, `unshift`, and functions that build a new array (sort, merge, slice, ...), which start
  without tables.
- In Parallel: callbacks that throw or are not pure, which the header excludes.
- Reference counts and resources: planned below.
- The compiler passes other than the code around exceptions, the library of pure
  functions, file, process and network I/O, vendored code: sequential, without
  state of their own, or not the project's; tests on inputs say more about them.

## Plan

In the order of what could go wrong worst; each module comes with an MC module,
passing runs, and variants that break each property.

1. Done: `BoundedQueue`, `Channel`, `ChanSelect`, `Future`, `ExceptionFrames`;
   `WaitGroup` over the emulated condition variable, with the life cycle of `Thread`,
   `Latch`; `Generator`; `ArrayMap` and `PhpMap`; `Parallel` and `ParallelLoop`.
2. Done: theorems about all of them; every safety and action property of a
   passing run is stated by one.
3. `ResourceTable` and reference counts shared by threads; the timed wait of
   the emulation (a timeout that races a release leaves a token behind).
4. Proofs still worth having: what holds of the frames when several threads use
   exceptions, each with a list of its own; that a table without room for another
   tombstone is the only way for a lookup to hang (`LookupsEnd` with that hypothesis).
