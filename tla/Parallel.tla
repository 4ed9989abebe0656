------------------------------ MODULE Parallel ------------------------------
(***************************************************************************)
(* Class Parallel (include/object/parallel.h): one call of for or map.     *)
(* The range is cut into chunks, each of which gets a thread; the chunk of *)
(* a thread that cannot be created is done by the caller, and so is the    *)
(* whole range when it is small or there is no memory for the handles.     *)
(* map stores what the callback returns at the index it was called with.   *)
(***************************************************************************)
EXTENDS Integers

CONSTANTS
    Lengths,    \* possible lengths of the range
    Requests,   \* possible values of the argument threads
    HalfInt,    \* an int of C is in -HalfInt .. HalfInt - 1 (2^31 in the code)
    MaxLength   \* bound: the greatest of Lengths

Indices == 0 .. MaxLength - 1
Unset   == -1

ASSUME ParallelAssumption ==
    /\ MaxLength \in Nat /\ HalfInt \in Nat /\ 2 * MaxLength < HalfInt
    /\ Lengths \subseteq {len \in Int : len <= MaxLength}
    /\ Requests \subseteq Int

VARIABLES
    kind, n, threads,   \* the method, and its arguments
    pc,                 \* where the caller is
    t,                  \* the loop over the chunks
    i, end,             \* the loop over what the caller does itself
    whole,              \* that is the whole range
    handles, spawned,   \* handles[c]: the worker whose thread it is
    joined,             \* handles joined
    os,                 \* the thread of each chunk: "none", "running", "ended"
    at,                 \* the loop of each worker
    visits              \* visits[x]: calls of the callback with x, and for map
                        \* writes of results[x]

arguments == <<kind, n, threads>>
inline    == <<i, end, whole>>
workers   == <<handles, spawned, os, at>>
vars      == <<arguments, pc, t, inline, workers, joined, visits>>

Init ==
    /\ kind \in {"for", "map"} /\ n \in Lengths /\ threads \in Requests
    /\ pc = "called" /\ t = 0
    /\ i = 0 /\ end = 0 /\ whole = FALSE
    /\ handles = [c \in Indices |-> Unset] /\ spawned = 0 /\ joined = 0
    /\ os = [c \in Indices |-> "none"]
    /\ at = [c \in Indices |-> 0]
    /\ visits = [x \in Indices |-> 0]

\* A cast to int.
ToInt(x) == ((x + HalfInt) % (2 * HalfInt)) - HalfInt

nthreads ==
    LET wanted == IF threads > 0 THEN ToInt(threads) ELSE 4 IN
    IF wanted > n THEN n ELSE wanted

\* Mutant: the division rounds down.
ChunkDown == n \div nthreads

\* map adds in int, where the sum, less than 2 * n, must fit: lengths of 2^30
\* and more are excluded by ParallelAssumption.
chunk == (n + nthreads - 1) \div nthreads

Start(c) == c * chunk

\* Mutant: the last chunk is not cut at n.
StopUncut(c) == Start(c) + chunk

Stop(c) == IF Start(c) + chunk > n THEN n ELSE Start(c) + chunk

Visit(x) == visits' = [visits EXCEPT ![x] = @ + 1]

-----------------------------------------------------------------------------
\* The caller

Empty ==
    /\ pc = "called" /\ n <= 0
    /\ pc' = "returned"
    /\ UNCHANGED <<arguments, t, inline, workers, joined, visits>>

\* map has no memory for the results.
NoResults ==
    /\ pc = "called" /\ n > 0 /\ kind = "map"
    /\ pc' = "thrown"
    /\ UNCHANGED <<arguments, t, inline, workers, joined, visits>>

\* One thread would do, or there is no memory for the handles.
RunWhole ==
    /\ pc = "called" /\ n > 0
    /\ pc' = "inline" /\ i' = 0 /\ end' = n /\ whole' = TRUE
    /\ UNCHANGED <<arguments, t, workers, joined, visits>>

Divide ==
    /\ pc = "called" /\ n > 0 /\ nthreads > 1
    /\ pc' = "spawn" /\ t' = 0
    /\ UNCHANGED <<arguments, inline, workers, joined, visits>>

HasChunk == pc = "spawn" /\ t < nthreads /\ Start(t) < n

\* Mutant: the handle goes to the place of its chunk, after a failure, too.
SpawnAtChunk ==
    /\ HasChunk
    /\ handles' = [handles EXCEPT ![t] = t] /\ spawned' = spawned + 1
    /\ os' = [os EXCEPT ![t] = "running"]
    /\ at' = [at EXCEPT ![t] = Start(t)]
    /\ t' = t + 1
    /\ UNCHANGED <<arguments, pc, inline, joined, visits>>

Spawn ==
    /\ HasChunk
    /\ handles' = [handles EXCEPT ![spawned] = t] /\ spawned' = spawned + 1
    /\ os' = [os EXCEPT ![t] = "running"]
    /\ at' = [at EXCEPT ![t] = Start(t)]
    /\ t' = t + 1
    /\ UNCHANGED <<arguments, pc, inline, joined, visits>>

\* thrd_create fails: the caller does the chunk.
SpawnFails ==
    /\ HasChunk
    /\ pc' = "inline" /\ i' = Start(t) /\ end' = Stop(t) /\ whole' = FALSE
    /\ UNCHANGED <<arguments, t, workers, joined, visits>>

\* No memory for the context: tp_throw does not come back, nobody joins.
NoContext ==
    /\ HasChunk
    /\ pc' = "thrown"
    /\ UNCHANGED <<arguments, t, inline, workers, joined, visits>>

AllSpawned ==
    /\ pc = "spawn" /\ ~(t < nthreads /\ Start(t) < n)
    /\ pc' = "join"
    /\ UNCHANGED <<arguments, t, inline, workers, joined, visits>>

RunOne ==
    /\ pc = "inline" /\ i < end
    /\ Visit(i) /\ i' = i + 1
    /\ UNCHANGED <<arguments, pc, t, end, whole, workers, joined>>

InlineEnds ==
    /\ pc = "inline" /\ i >= end
    /\ IF whole THEN pc' = "returned" /\ UNCHANGED t
                ELSE pc' = "spawn" /\ t' = t + 1
    /\ UNCHANGED <<arguments, inline, workers, joined, visits>>

\* thrd_join returns when the thread has ended; never, for no thread's handle.
Join ==
    /\ pc = "join" /\ joined < spawned
    /\ handles[joined] # Unset /\ os[handles[joined]] = "ended"
    /\ joined' = joined + 1
    /\ UNCHANGED <<arguments, pc, t, inline, workers, visits>>

\* map copies the results now.
AllJoined ==
    /\ pc = "join" /\ joined >= spawned
    /\ pc' = "returned"
    /\ UNCHANGED <<arguments, t, inline, workers, joined, visits>>

-----------------------------------------------------------------------------
\* The worker of chunk c

WorkOne(c) ==
    /\ os[c] = "running" /\ at[c] < Stop(c)
    /\ Visit(at[c]) /\ at' = [at EXCEPT ![c] = @ + 1]
    /\ UNCHANGED <<arguments, pc, t, inline, handles, spawned, os, joined>>

WorkEnds(c) ==
    /\ os[c] = "running" /\ at[c] >= Stop(c)
    /\ os' = [os EXCEPT ![c] = "ended"]
    /\ UNCHANGED <<arguments, pc, t, inline, handles, spawned, at, joined, visits>>

-----------------------------------------------------------------------------
Caller ==
    \/ Empty \/ NoResults \/ RunWhole \/ Divide
    \/ Spawn \/ SpawnFails \/ NoContext \/ AllSpawned
    \/ RunOne \/ InlineEnds \/ Join \/ AllJoined

Worker(c) == WorkOne(c) \/ WorkEnds(c)

Next == Caller \/ \E c \in Indices : Worker(c)

Spec == Init /\ [][Next]_vars

\* All threads run; the callback terminates, which is up to the program.
FairSpec == Spec /\ WF_vars(Caller) /\ \A c \in Indices : WF_vars(Worker(c))

-----------------------------------------------------------------------------
\* Typing; in particular the arrays of handles, results and input are accessed
\* within their bounds, whatever the number of threads asked for.
TypeOK ==
    /\ kind \in {"for", "map"} /\ n \in Lengths /\ threads \in Requests
    /\ pc \in {"called", "inline", "spawn", "join", "returned", "thrown"}
    /\ t \in 0 .. MaxLength
    /\ i \in 0 .. MaxLength /\ end \in 0 .. MaxLength /\ whole \in BOOLEAN
    /\ handles \in [Indices -> Indices \cup {Unset}]
    /\ spawned \in 0 .. t /\ joined \in 0 .. spawned
    /\ os \in [Indices -> {"none", "running", "ended"}]
    /\ at \in [Indices -> 0 .. MaxLength]
    /\ visits \in [Indices -> 0 .. 1]
    /\ \A c \in Indices : os[c] = "running" => at[c] <= n

\* Each index is visited once, by one of the threads or the caller, whatever
\* threads could not be created, and when the call returns all have been (so
\* that map copies no result that was not stored) and no worker goes on.
Status == IF pc \in {"returned", "thrown"} THEN pc ELSE "running"
Loop   == INSTANCE ParallelLoop WITH size <- n, status <- Status
ImplementsLoop == Loop!Spec

\* The call ends: each handle that is joined is one of a thread.
CallEnds == <>(pc \in {"returned", "thrown"})
=============================================================================
