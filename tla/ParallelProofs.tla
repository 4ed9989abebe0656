--------------------------- MODULE ParallelProofs ---------------------------
(* Theorems about Parallel, for every length, every number of threads and    *)
(* every width of int.                                                        *)
EXTENDS Parallel, TLAPS

-----------------------------------------------------------------------------
\* Arithmetic of chunks

\* Multiplication keeps the order of natural numbers.
LEMMA TimesMonotonic ==
    ASSUME NEW a \in Nat, NEW b \in Nat, NEW k \in Nat, a <= b
    PROVE  a * k \in Nat /\ b * k \in Nat /\ a * k <= b * k
<1>1. a * k \in Nat /\ (b - a) * k \in Nat
  OBVIOUS
<1>2. b * k = a * k + (b - a) * k
  OBVIOUS
<1> QED
  BY <1>1, <1>2

\* A number is in one interval of length k only, the one that division tells.
LEMMA OneInterval ==
    ASSUME NEW a \in Nat, NEW b \in Nat, NEW k \in Nat, NEW x \in Nat,
           a * k <= x, x < a * k + k, b * k <= x, x < b * k + k
    PROVE  a = b
<1>1. ASSUME NEW c \in Nat, NEW d \in Nat, c < d
      PROVE  c * k + k <= d * k
  <2>1. (c + 1) * k <= d * k
    BY <1>1, TimesMonotonic
  <2>2. (c + 1) * k = c * k + k
    OBVIOUS
  <2> QED
    BY <2>1, <2>2
<1>2. a * k \in Nat /\ b * k \in Nat
  BY TimesMonotonic
<1>3. CASE a < b
  BY <1>1, <1>2, <1>3
<1>4. CASE b < a
  BY <1>1, <1>2, <1>4
<1> QED
  BY <1>3, <1>4

\* What division by a positive number returns.
LEMMA Division ==
    ASSUME NEW x \in Nat, NEW k \in Nat, k > 0
    PROVE  /\ x \div k \in Nat
           /\ (x \div k) * k <= x /\ x < (x \div k) * k + k
OBVIOUS

\* A range of len is not longer than m chunks of the length rounded up.
LEMMA RoundedUp ==
    ASSUME NEW len \in Nat, NEW m \in Nat, m > 0, len > 0
    PROVE  /\ (len + m - 1) \div m \in Nat /\ (len + m - 1) \div m > 0
           /\ m * ((len + m - 1) \div m) >= len
<1> DEFINE q == (len + m - 1) \div m
<1>1. q \in Nat /\ q * m <= len + m - 1 /\ len + m - 1 < q * m + m
  BY Division
<1>2. q * m >= len
  BY <1>1
<1>3. q # 0
  BY <1>2
<1>4. m * q = q * m
  BY <1>1
<1> QED
  BY <1>1, <1>2, <1>3, <1>4

-----------------------------------------------------------------------------
\* The invariant

\* The chunk of index x.
Owner(x) == x \div chunk

\* What was done of the range.
Done(x) ==
    IF whole THEN x < i
    ELSE /\ t > 0 \/ pc = "inline"
         /\ \/ Owner(x) < t /\ (os[Owner(x)] = "none" \/ x < at[Owner(x)])
            \/ pc = "inline" /\ Owner(x) = t /\ x < i

\* Before the range is divided, and when it is not, there are no workers.
WholeInv ==
    /\ pc = "called" => ~whole /\ \A x \in Indices : visits[x] = 0
    /\ pc = "called" \/ whole => t = 0 /\ spawned = 0
    /\ whole => /\ n > 0 /\ pc \in {"inline", "returned"}
                /\ end = n /\ i <= n /\ (pc = "returned" => i = n)

\* The chunks before t were given to a worker or done by the caller, who may
\* be at chunk t.
ChunkInv ==
    /\ t > 0 \/ pc \in {"spawn", "join"} \/ (pc = "inline" /\ ~whole)
          => nthreads > 1 /\ t <= nthreads
    /\ pc = "inline" /\ ~whole =>
          /\ t < nthreads /\ Start(t) < n
          /\ Start(t) <= i /\ i <= end /\ end = Stop(t)
    /\ pc \in {"spawn", "join", "inline"} => n > 0
    /\ pc = "join" => Start(t) >= n
    /\ pc = "returned" /\ ~whole /\ n > 0 => nthreads > 1 /\ Start(t) >= n

\* The workers are inside their chunks; the caller has a handle of each.
WorkerInv ==
    /\ \A c \in Indices : os[c] # "none" =>
          /\ c < t /\ Start(c) < n
          /\ Start(c) <= at[c] /\ at[c] <= Stop(c)
          /\ os[c] = "ended" => at[c] = Stop(c)
    /\ \A c \in Indices : os[c] # "none" => \E k \in 0 .. spawned - 1 : handles[k] = c
    /\ \A k \in 0 .. joined - 1 : handles[k] \in Indices /\ os[handles[k]] = "ended"
    /\ pc = "returned" => \A c \in Indices : os[c] # "running"

\* Each index was visited once or not at all.
VisitInv ==
    \A x \in Indices :
        /\ x < n => visits[x] = (IF Done(x) THEN 1 ELSE 0)
        /\ x >= n => visits[x] = 0

IInv == TypeOK /\ WholeInv /\ ChunkInv /\ WorkerInv /\ VisitInv

-----------------------------------------------------------------------------
\* The geometry of the chunks

\* A range that is divided is not empty.
LEMMA NotEmpty ==
    ASSUME TypeOK, nthreads > 1
    PROVE  n > 0
<1>1. n \in Int /\ ToInt(threads) \in Int
  BY ParallelAssumption DEF ToInt, TypeOK
<1>2. nthreads \in Int /\ nthreads <= n
  BY <1>1 DEF nthreads
<1> QED
  BY <1>1, <1>2

\* As many chunks as threads are enough for the range.
LEMMA Enough ==
    ASSUME TypeOK, n > 0, nthreads > 1
    PROVE  /\ chunk \in Nat /\ chunk > 0
           /\ nthreads \in Nat /\ nthreads <= n /\ n \in Nat /\ n <= MaxLength
           /\ Start(nthreads) >= n
<1>1. threads \in Int /\ n \in Nat /\ n <= MaxLength /\ MaxLength \in Nat
  BY ParallelAssumption DEF TypeOK
<1>2. ToInt(threads) \in Int
  <2>1. HalfInt \in Nat /\ 2 * HalfInt \in Nat /\ 2 * HalfInt > 0 /\ threads + HalfInt \in Int
    BY <1>1, ParallelAssumption
  <2>2. (threads + HalfInt) % (2 * HalfInt) \in Int
    BY <2>1
  <2> QED
    BY <2>1, <2>2 DEF ToInt
<1>3. nthreads \in Nat /\ nthreads <= n
  BY <1>1, <1>2 DEF nthreads
<1> QED
  BY <1>1, <1>3, RoundedUp DEF chunk, Start

\* Each index is in one chunk.
LEMMA Owners ==
    ASSUME TypeOK, n > 0, nthreads > 1, NEW x \in Indices, x < n
    PROVE  /\ Owner(x) \in Indices /\ Owner(x) <= x
           /\ Start(Owner(x)) <= x /\ x < Stop(Owner(x))
           /\ \A c \in Nat : Start(c) <= x /\ x < Stop(c) => c = Owner(x)
<1>1. chunk \in Nat /\ chunk > 0 /\ x \in Nat /\ MaxLength \in Nat
  BY Enough, ParallelAssumption DEF Indices
<1>2. Owner(x) \in Nat /\ Start(Owner(x)) <= x /\ x < Start(Owner(x)) + chunk
  BY <1>1, Division DEF Owner, Start
<1>3. Owner(x) <= x
  <2>1. Owner(x) * 1 <= Owner(x) * chunk
    <3>1. 1 * Owner(x) <= chunk * Owner(x)
      BY <1>1, <1>2, TimesMonotonic
    <3> QED
      BY <1>1, <1>2, <3>1
  <2> QED
    BY <1>1, <1>2, <2>1 DEF Start
<1>4. ASSUME NEW c \in Nat, Start(c) <= x, x < Stop(c)
      PROVE  c = Owner(x)
  <2>1. c * chunk <= x /\ x < c * chunk + chunk
    <3>1. c * chunk \in Nat
      BY <1>1, TimesMonotonic
    <3> QED
      BY <1>1, <1>4, <3>1, Enough DEF Start, Stop
  <2> QED
    BY <1>1, <1>2, <2>1, OneInterval DEF Start
<1>5. Owner(x) \in Indices
  BY <1>1, <1>2, <1>3 DEF Indices
<1>6. x < Stop(Owner(x))
  BY <1>2 DEF Stop
<1> QED
  BY <1>2, <1>3, <1>4, <1>5, <1>6

\* A chunk begins and ends within the range, and the next one where it ends.
LEMMA Chunks ==
    ASSUME TypeOK, n > 0, nthreads > 1, NEW c \in Nat
    PROVE  /\ Start(c) \in Nat /\ Stop(c) \in Nat /\ Stop(c) <= n
           /\ Start(c) < n => Start(c) < Stop(c)
           /\ Start(c + 1) >= Stop(c)
           /\ \A d \in Nat : c <= d => Start(c) <= Start(d)
<1>1. chunk \in Nat /\ chunk > 0 /\ n \in Nat
  BY Enough
<1>2. c * chunk \in Nat
  BY <1>1, TimesMonotonic
<1>3. (c + 1) * chunk = c * chunk + chunk
  BY <1>1
<1>4. \A d \in Nat : c <= d => c * chunk <= d * chunk
  BY <1>1, TimesMonotonic
<1> QED
  BY <1>1, <1>2, <1>3, <1>4 DEF Start, Stop

\* An index before the chunk where the loop stands has an owner before it, and
\* the other way round.
LEMMA Before ==
    ASSUME TypeOK, n > 0, nthreads > 1, NEW x \in Indices, x < n, NEW c \in Nat
    PROVE  Owner(x) < c <=> x < Start(c)
<1>1. Owner(x) \in Nat /\ x \in Nat
  BY Owners, ParallelAssumption DEF Indices
<1>2. ASSUME Owner(x) < c
      PROVE  x < Start(c)
  BY <1>1, <1>2, Owners, Chunks
<1>3. ASSUME x < Start(c), c <= Owner(x)
      PROVE  FALSE
  BY <1>1, <1>3, Owners, Chunks
<1> QED
  BY <1>1, <1>2, <1>3

\* No step changes the arguments, or the chunks.
LEMMA Fixed ==
    ASSUME UNCHANGED arguments
    PROVE  /\ n' = n /\ kind' = kind /\ threads' = threads
           /\ nthreads' = nthreads /\ chunk' = chunk
           /\ \A c : Start(c)' = Start(c) /\ Stop(c)' = Stop(c) /\ Owner(c)' = Owner(c)
BY DEF arguments, nthreads, chunk, Start, Stop, Owner

-----------------------------------------------------------------------------
\* The steps keep the invariant

\* The invariant holds when the call begins.
LEMMA InvInit == Init => IInv
<1> SUFFICES ASSUME Init PROVE IInv
  OBVIOUS
<1> USE DEF Init
<1>0. MaxLength \in Nat /\ Unset \notin Indices
  BY ParallelAssumption DEF Indices, Unset
<1>1. TypeOK
  <2>1. handles \in [Indices -> Indices \cup {Unset}] /\ whole \in BOOLEAN
    OBVIOUS
  <2>2. \A c \in Indices : os[c] # "running"
    OBVIOUS
  <2>3. visits \in [Indices -> 0 .. 1] /\ at \in [Indices -> 0 .. MaxLength]
    BY <1>0
  <2> QED
    BY <1>0, <2>1, <2>2, <2>3 DEF TypeOK
<1>2. WholeInv /\ ChunkInv
  BY DEF WholeInv, ChunkInv
<1>3. WorkerInv
  BY DEF WorkerInv
<1>4. VisitInv
  BY DEF VisitInv, Done
<1> QED
  BY <1>1, <1>2, <1>3, <1>4 DEF IInv

\* Steps of the caller that neither visit an index nor create a thread.
LEMMA ControlStep ==
    ASSUME IInv, Empty \/ NoResults \/ Divide \/ NoContext \/ AllSpawned
    PROVE  IInv'
<1> USE DEF IInv
<1>1. /\ UNCHANGED <<arguments, inline, workers, joined, visits>>
      /\ t' = t /\ pc' \in {"returned", "thrown", "spawn", "join"}
      /\ pc \in {"called", "spawn"} /\ ~whole
  BY DEF Empty, NoResults, Divide, NoContext, AllSpawned, HasChunk, WholeInv, TypeOK
<1>2. /\ n' = n /\ kind' = kind /\ threads' = threads /\ nthreads' = nthreads
      /\ \A c : Start(c)' = Start(c) /\ Stop(c)' = Stop(c) /\ Owner(c)' = Owner(c)
  BY <1>1, Fixed
<1>3. /\ i' = i /\ end' = end /\ whole' = whole /\ handles' = handles
      /\ spawned' = spawned /\ os' = os /\ at' = at /\ joined' = joined
      /\ visits' = visits
  BY <1>1 DEF inline, workers
<1>4. TypeOK'
  BY <1>1, <1>2, <1>3 DEF TypeOK
<1>5. WholeInv'
  BY <1>1, <1>3 DEF WholeInv
<1>6. ChunkInv'
  <2>1. CASE Empty \/ NoResults \/ NoContext
    <3>1. /\ pc' \in {"returned", "thrown"} /\ (pc' = "returned" => n <= 0)
          /\ t > 0 => nthreads > 1 /\ t <= nthreads
      BY <1>1, <2>1 DEF ChunkInv, Empty, NoResults, NoContext
    <3> QED
      BY <1>1, <1>2, <1>3, <3>1, ParallelAssumption DEF ChunkInv, TypeOK
  <2>2. CASE Divide
    BY <1>1, <1>2, <1>3, <2>2, Enough DEF ChunkInv, WholeInv, Divide
  <2>3. CASE AllSpawned
    <3>1. n > 0 /\ nthreads > 1 /\ t <= nthreads /\ t \in Nat
      BY <2>3, ParallelAssumption DEF AllSpawned, ChunkInv, TypeOK
    <3>2. Start(t) >= n
      <4>1. t = nthreads \/ ~(Start(t) < n)
        BY <2>3, <3>1, Enough DEF AllSpawned
      <4>2. CASE t = nthreads
        BY <3>1, <4>2, Enough
      <4>3. CASE ~(Start(t) < n)
        BY <3>1, <4>3, Enough, Chunks
      <4> QED
        BY <4>1, <4>2, <4>3
    <3> QED
      BY <1>1, <1>2, <1>3, <2>3, <3>1, <3>2 DEF ChunkInv, AllSpawned
  <2> QED
    BY <2>1, <2>2, <2>3
<1>7. WorkerInv'
  <2>1. pc' = "returned" => \A c \in Indices : os[c] = "none"
    BY ParallelAssumption DEF Empty, NoResults, Divide, NoContext, AllSpawned, HasChunk,
        WholeInv, WorkerInv, Indices
  <2> QED
    BY <1>1, <1>2, <1>3, <2>1 DEF WorkerInv
<1>8. VisitInv'
  <2>1. \A x \in Indices : Done(x)' = Done(x)
    BY <1>1, <1>2, <1>3 DEF Done
  <2> QED
    BY <1>2, <1>3, <2>1 DEF VisitInv
<1> QED
  BY <1>4, <1>5, <1>6, <1>7, <1>8

\* The caller begins with the whole range or with a chunk, which nobody has
\* touched.
LEMMA InlineStep ==
    ASSUME IInv, RunWhole \/ SpawnFails
    PROVE  IInv'
<1> USE DEF IInv
<1>1. /\ UNCHANGED <<arguments, workers, joined, visits>>
      /\ t' = t /\ pc' = "inline" /\ pc \in {"called", "spawn"} /\ ~whole /\ n > 0
  BY DEF RunWhole, SpawnFails, HasChunk, WholeInv, ChunkInv, TypeOK
<1>2. /\ n' = n /\ kind' = kind /\ threads' = threads /\ nthreads' = nthreads
      /\ \A c : Start(c)' = Start(c) /\ Stop(c)' = Stop(c) /\ Owner(c)' = Owner(c)
  BY <1>1, Fixed
<1>3. /\ handles' = handles /\ spawned' = spawned /\ os' = os /\ at' = at
      /\ joined' = joined /\ visits' = visits
  BY <1>1 DEF workers
<1>4. n \in Nat /\ n <= MaxLength /\ t \in Nat
  BY <1>1, ParallelAssumption DEF TypeOK
<1>5. CASE RunWhole
  <2>1. /\ i' = 0 /\ end' = n /\ whole' = TRUE /\ t = 0 /\ spawned = 0
        /\ \A x \in Indices : visits[x] = 0
    BY <1>5 DEF RunWhole, WholeInv
  <2>2. TypeOK'
    BY <1>1, <1>2, <1>3, <1>4, <2>1 DEF TypeOK
  <2>3. WholeInv' /\ ChunkInv'
    BY <1>1, <1>2, <1>3, <1>4, <2>1 DEF WholeInv, ChunkInv
  <2>4. WorkerInv'
    BY <1>1, <1>2, <1>3 DEF WorkerInv
  <2>5. VisitInv'
    BY <1>2, <1>3, <1>4, <2>1, ParallelAssumption DEF VisitInv, Done, Indices
  <2> QED
    BY <2>2, <2>3, <2>4, <2>5
<1>6. CASE SpawnFails
  <2>1. /\ pc = "spawn" /\ t < nthreads /\ Start(t) < n
        /\ i' = Start(t) /\ end' = Stop(t) /\ whole' = FALSE /\ nthreads > 1
    BY <1>6 DEF SpawnFails, HasChunk, ChunkInv
  <2>2. /\ Start(t) \in Nat /\ Stop(t) \in Nat /\ Stop(t) <= n /\ Start(t) < Stop(t)
        /\ nthreads \in Nat
    BY <1>1, <1>4, <2>1, Chunks, Enough
  <2>3. TypeOK'
    <3>1. i' \in 0 .. MaxLength /\ end' \in 0 .. MaxLength
      <4>1. i' = Start(t) /\ end' = Stop(t)
        BY <2>1
      <4> QED
        BY <1>4, <4>1, <2>2, ParallelAssumption
    <3>2. whole' \in BOOLEAN
      BY <2>1
    <3> QED
      BY <1>1, <1>2, <1>3, <3>1, <3>2 DEF TypeOK
  <2>4. WholeInv'
    BY <1>1, <2>1 DEF WholeInv
  <2>5. ChunkInv'
    BY <1>1, <1>2, <1>4, <2>1, <2>2 DEF ChunkInv
  <2>6. WorkerInv'
    BY <1>1, <1>2, <1>3 DEF WorkerInv
  <2>7. VisitInv'
    <3> SUFFICES ASSUME NEW x \in Indices, x < n
                 PROVE  Done(x)' = Done(x)
      BY <1>2, <1>3 DEF VisitInv
    <3>1. Owner(x) = t => ~(x < Start(t))
      BY <1>1, <1>4, <2>1, <2>2, Owners, ParallelAssumption DEF Indices
    <3>2. Owner(x) \in Nat
      BY <1>1, <2>1, Owners, ParallelAssumption DEF Indices
    <3> QED
      BY <1>1, <1>2, <1>3, <1>4, <2>1, <3>1, <3>2 DEF Done
  <2> QED
    BY <2>3, <2>4, <2>5, <2>6, <2>7
<1> QED
  BY <1>5, <1>6

\* A new worker begins at the start of its chunk, and the handle is kept.
LEMMA SpawnStep ==
    ASSUME IInv, Spawn
    PROVE  IInv'
<1> USE DEF IInv
<1>1. /\ UNCHANGED <<arguments, inline, joined, visits>>
      /\ pc' = pc /\ t' = t + 1 /\ spawned' = spawned + 1
      /\ pc = "spawn" /\ t < nthreads /\ Start(t) < n /\ ~whole
      /\ n > 0 /\ nthreads > 1
  BY DEF Spawn, HasChunk, WholeInv, ChunkInv
<1>2. /\ n' = n /\ kind' = kind /\ threads' = threads /\ nthreads' = nthreads
      /\ \A c : Start(c)' = Start(c) /\ Stop(c)' = Stop(c) /\ Owner(c)' = Owner(c)
  BY <1>1, Fixed
<1>3. i' = i /\ end' = end /\ whole' = whole /\ joined' = joined /\ visits' = visits
  BY <1>1 DEF inline
<1>4. /\ t \in Nat /\ spawned \in Nat /\ joined \in Nat
      /\ spawned <= t /\ joined <= spawned /\ MaxLength \in Nat
  BY ParallelAssumption DEF TypeOK
<1>5. n \in Nat /\ n <= MaxLength /\ nthreads \in Nat /\ nthreads <= n
  BY <1>1, Enough
<1>6. /\ Start(t) \in Nat /\ Stop(t) \in Nat /\ Stop(t) <= n /\ Start(t) < Stop(t)
  BY <1>1, <1>4, Chunks
<1>7. t \in Indices /\ spawned \in Indices
  BY <1>1, <1>4, <1>5 DEF Indices
<1>8. \A c \in Indices : os[c] # "none" => c < t
  BY DEF WorkerInv
<1>9. os[t] = "none"
  BY <1>4, <1>7, <1>8
<1>10. /\ os' = [os EXCEPT ![t] = "running"] /\ at' = [at EXCEPT ![t] = Start(t)]
       /\ handles' = [handles EXCEPT ![spawned] = t]
  BY DEF Spawn
<1>11. TypeOK'
  <2>1. t' \in 0 .. MaxLength /\ spawned' \in 0 .. t' /\ joined' \in 0 .. spawned'
    BY <1>1, <1>3, <1>4, <1>5
  <2>2. handles' \in [Indices -> Indices \cup {Unset}]
    BY <1>7, <1>10 DEF TypeOK
  <2>3. os' \in [Indices -> {"none", "running", "ended"}]
    BY <1>7, <1>10 DEF TypeOK
  <2>4. at' \in [Indices -> 0 .. MaxLength]
    <3>1. Start(t) \in 0 .. MaxLength
      BY <1>1, <1>4, <1>5, <1>6
    <3> QED
      BY <1>7, <1>10, <3>1 DEF TypeOK
  <2>5. \A c \in Indices : os'[c] = "running" => at'[c] <= n
    BY <1>1, <1>5, <1>6, <1>7, <1>10 DEF TypeOK
  <2> QED
    BY <1>1, <1>2, <1>3, <2>1, <2>2, <2>3, <2>4, <2>5 DEF TypeOK
<1>12. WholeInv'
  BY <1>1, <1>3 DEF WholeInv
<1>13. ChunkInv'
  BY <1>1, <1>2, <1>4, <1>5 DEF ChunkInv
<1>14. WorkerInv'
  <2>1. ASSUME NEW c \in Indices, os'[c] # "none"
        PROVE  /\ c < t' /\ Start(c) < n
               /\ Start(c) <= at'[c] /\ at'[c] <= Stop(c)
               /\ os'[c] = "ended" => at'[c] = Stop(c)
    <3>1. CASE c = t
      BY <1>1, <1>4, <1>6, <1>7, <1>10, <3>1 DEF TypeOK
    <3>2. CASE c # t
      <4>1. os'[c] = os[c] /\ at'[c] = at[c]
        BY <1>7, <1>10, <3>2 DEF TypeOK
      <4>2. c < t'
        BY <1>1, <1>4, <1>8, <2>1, <4>1 DEF Indices
      <4> QED
        BY <2>1, <4>1, <4>2 DEF WorkerInv
    <3> QED
      BY <3>1, <3>2
  <2>2. ASSUME NEW c \in Indices, os'[c] # "none"
        PROVE  \E k \in 0 .. spawned' - 1 : handles'[k] = c
    <3>1. CASE c = t
      <4>1. handles'[spawned] = c /\ spawned \in 0 .. spawned' - 1
        BY <1>1, <1>4, <1>7, <1>10, <3>1 DEF TypeOK
      <4> QED
        BY <4>1
    <3>2. CASE c # t
      <4>1. PICK k \in 0 .. spawned - 1 : handles[k] = c
        BY <1>7, <1>10, <2>2, <3>2 DEF TypeOK, WorkerInv
      <4>2. k # spawned /\ k \in Indices /\ k \in 0 .. spawned' - 1
        BY <1>1, <1>4, <1>7 DEF Indices
      <4>3. handles'[k] = c
        BY <1>7, <1>10, <4>1, <4>2 DEF TypeOK
      <4> QED
        BY <4>2, <4>3
    <3> QED
      BY <3>1, <3>2
  <2>3. ASSUME NEW k \in 0 .. joined' - 1
        PROVE  handles'[k] \in Indices /\ os'[handles'[k]] = "ended"
    <3>1. k # spawned /\ k \in Indices /\ k \in 0 .. joined - 1
      BY <1>3, <1>4, <1>7 DEF Indices
    <3>2. handles'[k] = handles[k] /\ handles[k] \in Indices /\ os[handles[k]] = "ended"
      BY <1>7, <1>10, <3>1 DEF TypeOK, WorkerInv
    <3>3. handles[k] # t
      BY <1>9, <3>2
    <3> QED
      BY <1>7, <1>10, <3>2, <3>3 DEF TypeOK
  <2>4. pc' # "returned"
    BY <1>1
  <2> QED
    BY <1>2, <2>1, <2>2, <2>3, <2>4 DEF WorkerInv
<1>15. VisitInv'
  <2> SUFFICES ASSUME NEW x \in Indices, x < n
               PROVE  Done(x)' <=> Done(x)
    BY <1>2, <1>3 DEF VisitInv
  <2>1. Owner(x) \in Indices /\ Start(Owner(x)) <= x /\ Owner(x) \in Nat
    BY <1>1, Owners DEF Indices
  <2>2. CASE Owner(x) = t
    <3>1. ~(x < Start(t)) /\ x \in Nat
      BY <1>6, <2>1, <2>2 DEF Indices
    <3>2. at'[t] = Start(t) /\ os'[t] = "running"
      BY <1>7, <1>10 DEF TypeOK
    <3> QED
      BY <1>1, <1>2, <1>3, <1>4, <2>2, <3>1, <3>2 DEF Done
  <2>3. CASE Owner(x) # t
    <3>1. os'[Owner(x)] = os[Owner(x)] /\ at'[Owner(x)] = at[Owner(x)]
      BY <1>7, <1>10, <2>1, <2>3 DEF TypeOK
    <3>2. Owner(x) < t' <=> Owner(x) < t
      BY <1>1, <1>4, <2>1, <2>3
    <3>3. Owner(x) < t => t > 0
      BY <1>4, <2>1
    <3> QED
      BY <1>1, <1>2, <1>3, <1>4, <2>1, <3>1, <3>2, <3>3 DEF Done
  <2> QED
    BY <2>2, <2>3
<1> QED
  BY <1>11, <1>12, <1>13, <1>14, <1>15

\* The caller visits the next index of the range or of the chunk, which nobody
\* has visited.
LEMMA RunOneStep ==
    ASSUME IInv, RunOne
    PROVE  /\ IInv'
           /\ i \in Indices /\ i < n /\ visits[i] = 0
<1> USE DEF IInv
<1>1. /\ UNCHANGED <<arguments, workers>>
      /\ pc = "inline" /\ pc' = pc /\ t' = t /\ end' = end /\ whole' = whole
      /\ joined' = joined /\ i < end /\ i' = i + 1
      /\ visits' = [visits EXCEPT ![i] = @ + 1] /\ n > 0
  BY DEF RunOne, Visit, ChunkInv
<1>2. /\ n' = n /\ kind' = kind /\ threads' = threads /\ nthreads' = nthreads
      /\ \A c : Start(c)' = Start(c) /\ Stop(c)' = Stop(c) /\ Owner(c)' = Owner(c)
  BY <1>1, Fixed
<1>3. handles' = handles /\ spawned' = spawned /\ os' = os /\ at' = at
  BY <1>1 DEF workers
<1>4. /\ MaxLength \in Nat /\ n \in Nat /\ n <= MaxLength
      /\ t \in Nat /\ i \in Nat /\ end \in Nat
  BY <1>1, ParallelAssumption DEF TypeOK
<1>5. ~whole => /\ nthreads > 1 /\ t < nthreads /\ Start(t) < n /\ Start(t) <= i
                /\ end = Stop(t) /\ Start(t) \in Nat /\ Stop(t) <= n
  BY <1>1, <1>4, Chunks DEF ChunkInv
<1>6. end <= n
  BY <1>4, <1>5 DEF WholeInv
<1>7. i \in Indices /\ i < n
  BY <1>1, <1>4, <1>6 DEF Indices
<1>8. ~whole => Owner(i) = t
  BY <1>1, <1>4, <1>5, <1>7, Owners
<1>9. ~Done(i)
  BY <1>4, <1>8 DEF Done
<1>10. visits[i] = 0
  BY <1>7, <1>9 DEF VisitInv
<1>11. TypeOK'
  <2>1. i' \in 0 .. MaxLength
    BY <1>1, <1>4, <1>6
  <2>2. visits' \in [Indices -> 0 .. 1]
    BY <1>1, <1>7, <1>10 DEF TypeOK
  <2> QED
    BY <1>1, <1>2, <1>3, <2>1, <2>2 DEF TypeOK
<1>12. WholeInv'
  BY <1>1, <1>2, <1>3, <1>4, <1>7 DEF WholeInv
<1>13. ChunkInv'
  BY <1>1, <1>2, <1>4, <1>5 DEF ChunkInv
<1>14. WorkerInv'
  BY <1>1, <1>2, <1>3 DEF WorkerInv
<1>15. VisitInv'
  <2> SUFFICES ASSUME NEW x \in Indices
               PROVE  /\ x < n => visits'[x] = (IF Done(x)' THEN 1 ELSE 0)
                      /\ x >= n => visits'[x] = 0
    BY <1>2 DEF VisitInv
  <2>1. CASE x = i
    <3>1. visits'[x] = 1
      BY <1>1, <1>7, <1>10, <2>1 DEF TypeOK
    <3>2. Done(x)'
      BY <1>1, <1>2, <1>4, <1>8, <2>1 DEF Done
    <3> QED
      BY <1>4, <1>7, <2>1, <3>1, <3>2
  <2>2. CASE x # i
    <3>1. visits'[x] = visits[x]
      BY <1>1, <1>7, <2>2 DEF TypeOK
    <3>2. x < i' <=> x < i
      BY <1>1, <1>4, <2>2 DEF Indices
    <3>3. Done(x)' <=> Done(x)
      BY <1>1, <1>2, <1>3, <3>2 DEF Done
    <3> QED
      BY <3>1, <3>3 DEF VisitInv
  <2> QED
    BY <2>1, <2>2
<1> QED
  BY <1>7, <1>10, <1>11, <1>12, <1>13, <1>14, <1>15

\* The caller has done the whole range, or its chunk.
LEMMA InlineEndsStep ==
    ASSUME IInv, InlineEnds
    PROVE  IInv'
<1> USE DEF IInv
<1>1. /\ UNCHANGED <<arguments, inline, workers, joined, visits>>
      /\ pc = "inline" /\ i >= end /\ n > 0
  BY DEF InlineEnds, ChunkInv
<1>2. /\ n' = n /\ kind' = kind /\ threads' = threads /\ nthreads' = nthreads
      /\ \A c : Start(c)' = Start(c) /\ Stop(c)' = Stop(c) /\ Owner(c)' = Owner(c)
  BY <1>1, Fixed
<1>3. /\ i' = i /\ end' = end /\ whole' = whole /\ handles' = handles
      /\ spawned' = spawned /\ os' = os /\ at' = at /\ joined' = joined
      /\ visits' = visits
  BY <1>1 DEF inline, workers
<1>4. /\ MaxLength \in Nat /\ n \in Nat /\ n <= MaxLength
      /\ t \in Nat /\ i \in Nat /\ end \in Nat
  BY <1>1, ParallelAssumption DEF TypeOK
<1>5. CASE whole
  <2>1. pc' = "returned" /\ t' = t /\ t = 0 /\ i = n
    BY <1>1, <1>4, <1>5 DEF InlineEnds, WholeInv
  <2>2. TypeOK'
    BY <1>2, <1>3, <2>1 DEF TypeOK
  <2>3. WholeInv' /\ ChunkInv'
    BY <1>1, <1>2, <1>3, <1>5, <2>1 DEF WholeInv, ChunkInv
  <2>4. \A c \in Indices : os[c] = "none"
    BY <2>1 DEF WorkerInv, Indices
  <2>5. WorkerInv'
    BY <1>2, <1>3, <2>1, <2>4 DEF WorkerInv
  <2>6. VisitInv'
    BY <1>2, <1>3, <1>5 DEF VisitInv, Done
  <2> QED
    BY <2>2, <2>3, <2>5, <2>6
<1>6. CASE ~whole
  <2>1. /\ pc' = "spawn" /\ t' = t + 1 /\ nthreads > 1 /\ t < nthreads
        /\ i = Stop(t)
    <3>1. pc' = "spawn" /\ t' = t + 1
      BY <1>6 DEF InlineEnds
    <3>2. nthreads > 1 /\ t < nthreads /\ i <= end /\ end = Stop(t)
      BY <1>1, <1>6 DEF ChunkInv
    <3> QED
      BY <1>1, <1>4, <3>1, <3>2
  <2>2. nthreads \in Nat /\ nthreads <= n
    BY <1>1, <2>1, Enough
  <2>3. TypeOK'
    <3>1. t' \in 0 .. MaxLength /\ spawned' \in 0 .. t'
      BY <1>3, <1>4, <2>1, <2>2 DEF TypeOK
    <3> QED
      BY <1>2, <1>3, <2>1, <3>1 DEF TypeOK
  <2>4. WholeInv' /\ ChunkInv'
    BY <1>1, <1>2, <1>3, <1>4, <1>6, <2>1, <2>2 DEF WholeInv, ChunkInv
  <2>5. WorkerInv'
    <3>1. \A c \in Indices : c < t => c < t'
      BY <1>4, <2>1 DEF Indices
    <3> QED
      BY <1>2, <1>3, <2>1, <3>1 DEF WorkerInv
  <2>6. VisitInv'
    <3> SUFFICES ASSUME NEW x \in Indices, x < n
                 PROVE  Done(x)' <=> Done(x)
      BY <1>2, <1>3 DEF VisitInv
    <3>1. Owner(x) \in Indices /\ Owner(x) \in Nat /\ x < Stop(Owner(x))
      BY <1>1, <2>1, Owners DEF Indices
    <3>2. Owner(x) = t => x < i /\ os[t] = "none"
      BY <1>4, <2>1, <3>1 DEF WorkerInv
    <3>3. Owner(x) < t' <=> Owner(x) < t \/ Owner(x) = t
      BY <1>4, <2>1, <3>1
    <3> QED
      BY <1>1, <1>2, <1>3, <1>4, <1>6, <2>1, <3>1, <3>2, <3>3 DEF Done
  <2> QED
    BY <2>3, <2>4, <2>5, <2>6
<1> QED
  BY <1>5, <1>6

\* The caller waits for its workers; when it returns, none is left.
LEMMA JoinStep ==
    ASSUME IInv, Join \/ AllJoined
    PROVE  IInv'
<1> USE DEF IInv
<1>1. /\ UNCHANGED <<arguments, inline, workers, visits>>
      /\ pc = "join" /\ t' = t /\ ~whole
  BY DEF Join, AllJoined, WholeInv, TypeOK
<1>2. /\ n' = n /\ kind' = kind /\ threads' = threads /\ nthreads' = nthreads
      /\ \A c : Start(c)' = Start(c) /\ Stop(c)' = Stop(c) /\ Owner(c)' = Owner(c)
  BY <1>1, Fixed
<1>3. /\ i' = i /\ end' = end /\ whole' = whole /\ handles' = handles
      /\ spawned' = spawned /\ os' = os /\ at' = at /\ visits' = visits
  BY <1>1 DEF inline, workers
<1>4. joined \in Nat /\ spawned \in Nat /\ joined <= spawned
  BY ParallelAssumption DEF TypeOK
<1>5. nthreads > 1 /\ t <= nthreads /\ n > 0 /\ Start(t) >= n
  BY <1>1 DEF ChunkInv
<1>6. VisitInv'
  <2>1. pc' \in {"join", "returned"}
    BY <1>1 DEF Join, AllJoined
  <2>2. \A x \in Indices : Done(x)' = Done(x)
    BY <1>1, <1>2, <1>3, <2>1 DEF Done
  <2> QED
    BY <1>2, <1>3, <2>2 DEF VisitInv
<1>7. CASE Join
  <2>1. /\ pc' = pc /\ joined' = joined + 1 /\ joined < spawned
        /\ handles[joined] # Unset /\ os[handles[joined]] = "ended"
    BY <1>7 DEF Join
  <2>2. joined \in Indices
    BY <1>4, <2>1, ParallelAssumption DEF TypeOK, Indices
  <2>3. TypeOK' /\ WholeInv' /\ ChunkInv'
    <3>1. joined' \in 0 .. spawned
      BY <1>4, <2>1
    <3> QED
      BY <1>1, <1>2, <1>3, <2>1, <3>1 DEF TypeOK, WholeInv, ChunkInv
  <2>4. ASSUME NEW k \in 0 .. joined' - 1
        PROVE  handles[k] \in Indices /\ os[handles[k]] = "ended"
    <3>1. CASE k = joined
      BY <2>1, <2>2, <3>1 DEF TypeOK
    <3>2. CASE k # joined
      <4>1. k \in 0 .. joined - 1
        BY <1>4, <2>1, <3>2
      <4> QED
        BY <4>1 DEF WorkerInv
    <3> QED
      BY <3>1, <3>2
  <2>5. WorkerInv'
    BY <1>1, <1>2, <1>3, <2>1, <2>4 DEF WorkerInv
  <2> QED
    BY <1>6, <2>3, <2>5
<1>8. CASE AllJoined
  <2>1. pc' = "returned" /\ joined' = joined /\ joined >= spawned
    BY <1>8 DEF AllJoined
  <2>2. TypeOK' /\ WholeInv'
    BY <1>1, <1>2, <1>3, <2>1 DEF TypeOK, WholeInv
  <2>3. ChunkInv'
    BY <1>1, <1>2, <1>3, <1>5, <2>1 DEF ChunkInv
  <2>4. ASSUME NEW c \in Indices, os[c] # "none"
        PROVE  os[c] = "ended"
    <3>1. PICK k \in 0 .. spawned - 1 : handles[k] = c
      BY <2>4 DEF WorkerInv
    <3>2. k \in 0 .. joined - 1
      BY <1>4, <2>1
    <3> QED
      BY <3>1, <3>2 DEF WorkerInv
  <2>5. WorkerInv'
    BY <1>1, <1>2, <1>3, <2>1, <2>4 DEF WorkerInv
  <2> QED
    BY <1>6, <2>2, <2>3, <2>5
<1> QED
  BY <1>7, <1>8

\* A worker visits the next index of its chunk, which nobody has visited.
LEMMA WorkOneStep ==
    ASSUME IInv, NEW c \in Indices, WorkOne(c)
    PROVE  /\ IInv'
           /\ at[c] \in Indices /\ at[c] < n /\ visits[at[c]] = 0
           /\ pc # "returned"
<1> USE DEF IInv
<1>1. /\ UNCHANGED <<arguments, inline>>
      /\ pc' = pc /\ t' = t /\ handles' = handles /\ spawned' = spawned
      /\ os' = os /\ joined' = joined /\ os[c] = "running" /\ at[c] < Stop(c)
      /\ at' = [at EXCEPT ![c] = @ + 1]
      /\ visits' = [visits EXCEPT ![at[c]] = @ + 1]
  BY DEF WorkOne, Visit
<1>2. /\ n' = n /\ kind' = kind /\ threads' = threads /\ nthreads' = nthreads
      /\ \A d : Start(d)' = Start(d) /\ Stop(d)' = Stop(d) /\ Owner(d)' = Owner(d)
  BY <1>1, Fixed
<1>3. i' = i /\ end' = end /\ whole' = whole
  BY <1>1 DEF inline
<1>4. /\ c \in Nat /\ MaxLength \in Nat /\ t \in Nat /\ at[c] \in Nat
      /\ n \in Int /\ n <= MaxLength
  BY ParallelAssumption DEF TypeOK, Indices
<1>5. c < t /\ Start(c) < n /\ Start(c) <= at[c]
  BY <1>1 DEF WorkerInv
<1>6. t > 0 /\ nthreads > 1 /\ ~whole
  BY <1>4, <1>5 DEF ChunkInv, WholeInv
<1>7. n > 0
  BY <1>6, NotEmpty
<1>8. Start(c) \in Nat /\ Stop(c) \in Nat /\ Stop(c) <= n
  BY <1>4, <1>6, <1>7, Chunks
<1>9. at[c] < n /\ at[c] \in Indices
  BY <1>1, <1>4, <1>8 DEF Indices
<1>10. Owner(at[c]) = c
  BY <1>1, <1>4, <1>5, <1>6, <1>7, <1>9, Owners
<1>11. ~Done(at[c])
  BY <1>1, <1>4, <1>5, <1>6, <1>10 DEF Done
<1>12. visits[at[c]] = 0
  BY <1>9, <1>11 DEF VisitInv
<1>13. pc # "returned"
  BY <1>1 DEF WorkerInv
<1>14. TypeOK'
  <2>1. at' \in [Indices -> 0 .. MaxLength]
    BY <1>1, <1>4, <1>9 DEF TypeOK
  <2>2. visits' \in [Indices -> 0 .. 1]
    BY <1>1, <1>9, <1>12 DEF TypeOK
  <2>3. \A d \in Indices : os[d] = "running" => at'[d] <= n
    BY <1>1, <1>4, <1>9 DEF TypeOK
  <2> QED
    BY <1>1, <1>2, <1>3, <2>1, <2>2, <2>3 DEF TypeOK
<1>15. WholeInv' /\ ChunkInv'
  BY <1>1, <1>2, <1>3, <1>6, <1>13 DEF WholeInv, ChunkInv
<1>16. WorkerInv'
  <2>1. ASSUME NEW d \in Indices, os[d] # "none"
        PROVE  /\ Start(d) <= at'[d] /\ at'[d] <= Stop(d)
               /\ os[d] = "ended" => at'[d] = Stop(d)
    <3>1. CASE d = c
      <4>1. at'[d] = at[c] + 1
        BY <1>1, <3>1 DEF TypeOK
      <4> QED
        BY <1>1, <1>4, <1>5, <1>8, <3>1, <4>1
    <3>2. CASE d # c
      <4>1. at'[d] = at[d]
        BY <1>1, <3>2 DEF TypeOK
      <4> QED
        BY <2>1, <4>1 DEF WorkerInv
    <3> QED
      BY <3>1, <3>2
  <2> QED
    BY <1>1, <1>2, <2>1 DEF WorkerInv
<1>17. VisitInv'
  <2> SUFFICES ASSUME NEW x \in Indices
               PROVE  /\ x < n => visits'[x] = (IF Done(x)' THEN 1 ELSE 0)
                      /\ x >= n => visits'[x] = 0
    BY <1>2 DEF VisitInv
  <2>1. CASE x = at[c]
    <3>1. visits'[x] = 1 /\ at'[c] = x + 1
      BY <1>1, <1>9, <1>12, <2>1 DEF TypeOK
    <3>2. Owner(x) = c /\ x < at'[c] /\ x \in Nat
      BY <1>4, <1>10, <2>1, <3>1
    <3>3. Done(x)'
      BY <1>1, <1>2, <1>3, <1>5, <1>6, <3>2 DEF Done
    <3> QED
      BY <1>4, <1>9, <2>1, <3>1, <3>3
  <2>2. CASE x # at[c]
    <3>1. visits'[x] = visits[x]
      BY <1>1, <1>9, <2>2 DEF TypeOK
    <3>2. ASSUME x < n
          PROVE  Done(x)' <=> Done(x)
      <4>1. Owner(x) \in Indices
        BY <1>6, <1>7, <3>2, Owners
      <4>2. x < at'[Owner(x)] <=> x < at[Owner(x)]
        <5>1. CASE Owner(x) = c
          <6>1. at'[c] = at[c] + 1
            BY <1>1 DEF TypeOK
          <6> QED
            BY <1>4, <2>2, <5>1, <6>1 DEF Indices
        <5>2. CASE Owner(x) # c
          BY <1>1, <4>1, <5>2 DEF TypeOK
        <5> QED
          BY <5>1, <5>2
      <4> QED
        BY <1>1, <1>2, <1>3, <4>2 DEF Done
    <3> QED
      BY <3>1, <3>2 DEF VisitInv
  <2> QED
    BY <2>1, <2>2
<1> QED
  BY <1>9, <1>12, <1>13, <1>14, <1>15, <1>16, <1>17

\* A worker whose chunk is done ends.
LEMMA WorkEndsStep ==
    ASSUME IInv, NEW c \in Indices, WorkEnds(c)
    PROVE  IInv'
<1> USE DEF IInv
<1>1. /\ UNCHANGED <<arguments, inline>>
      /\ pc' = pc /\ t' = t /\ handles' = handles /\ spawned' = spawned
      /\ at' = at /\ joined' = joined /\ visits' = visits
      /\ os[c] = "running" /\ at[c] >= Stop(c)
      /\ os' = [os EXCEPT ![c] = "ended"]
  BY DEF WorkEnds
<1>2. /\ n' = n /\ kind' = kind /\ threads' = threads /\ nthreads' = nthreads
      /\ \A d : Start(d)' = Start(d) /\ Stop(d)' = Stop(d) /\ Owner(d)' = Owner(d)
  BY <1>1, Fixed
<1>3. i' = i /\ end' = end /\ whole' = whole
  BY <1>1 DEF inline
<1>4. \A d \in Indices : d # c => os'[d] = os[d]
  BY <1>1 DEF TypeOK
<1>5. os'[c] = "ended"
  BY <1>1 DEF TypeOK
<1>6. TypeOK' /\ WholeInv' /\ ChunkInv'
  <2>1. os' \in [Indices -> {"none", "running", "ended"}]
    BY <1>1 DEF TypeOK
  <2>2. \A d \in Indices : os'[d] = "running" => at[d] <= n
    BY <1>4, <1>5 DEF TypeOK
  <2> QED
    BY <1>1, <1>2, <1>3, <2>1, <2>2 DEF TypeOK, WholeInv, ChunkInv
<1>7. c \in Nat /\ t > 0 /\ nthreads > 1 /\ n > 0 /\ ~whole
  <2>1. c < t /\ c \in Nat /\ t \in Nat
    BY <1>1, ParallelAssumption DEF WorkerInv, TypeOK, Indices
  <2>2. t > 0 /\ nthreads > 1 /\ ~whole
    BY <2>1 DEF ChunkInv, WholeInv
  <2> QED
    BY <2>1, <2>2, NotEmpty
<1>8. at[c] = Stop(c)
  <2>1. at[c] <= Stop(c)
    BY <1>1 DEF WorkerInv
  <2>2. at[c] \in Nat /\ Stop(c) \in Nat
    BY <1>7, Chunks, ParallelAssumption DEF TypeOK
  <2> QED
    BY <1>1, <2>1, <2>2
<1>9. WorkerInv'
  <2>1. \A d \in Indices : os'[d] # "none" <=> os[d] # "none"
    BY <1>1, <1>4, <1>5
  <2>2. \A d \in Indices : os'[d] = "ended" => os[d] = "ended" \/ d = c
    BY <1>4
  <2>3. \A k \in 0 .. joined - 1 : handles[k] \in Indices /\ os'[handles[k]] = "ended"
    BY <1>4, <1>5 DEF WorkerInv
  <2>4. \A d \in Indices : os'[d] = "running" => os[d] = "running"
    BY <1>4, <1>5
  <2> QED
    BY <1>1, <1>2, <1>8, <2>1, <2>2, <2>3, <2>4 DEF WorkerInv
<1>10. VisitInv'
  <2> SUFFICES ASSUME NEW x \in Indices, x < n
               PROVE  Done(x)' <=> Done(x)
    BY <1>1, <1>2 DEF VisitInv
  <2>1. Owner(x) \in Indices
    BY <1>7, Owners
  <2>2. os'[Owner(x)] = "none" <=> os[Owner(x)] = "none"
    BY <1>1, <1>4, <1>5, <2>1
  <2> QED
    BY <1>1, <1>2, <1>3, <2>2 DEF Done
<1> QED
  BY <1>6, <1>9, <1>10

\* Every behaviour keeps the invariant.
LEMMA Invariance == Spec => []IInv
<1>1. ASSUME IInv, UNCHANGED vars
      PROVE  IInv'
  <2>1. /\ pc' = pc /\ t' = t /\ i' = i /\ end' = end /\ whole' = whole
        /\ handles' = handles /\ spawned' = spawned /\ os' = os /\ at' = at
        /\ joined' = joined /\ visits' = visits /\ n' = n /\ kind' = kind
        /\ threads' = threads /\ nthreads' = nthreads
        /\ \A c : Start(c)' = Start(c) /\ Stop(c)' = Stop(c) /\ Owner(c)' = Owner(c)
    BY <1>1, Fixed DEF vars, inline, workers
  <2>2. TypeOK' /\ WholeInv' /\ ChunkInv' /\ WorkerInv'
    BY <1>1, <2>1 DEF IInv, TypeOK, WholeInv, ChunkInv, WorkerInv
  <2>3. \A x : Done(x)' = Done(x)
    BY <2>1 DEF Done
  <2> QED
    BY <1>1, <2>1, <2>2, <2>3 DEF IInv, VisitInv
<1>2. ASSUME IInv, Next
      PROVE  IInv'
  BY <1>2, ControlStep, InlineStep, SpawnStep, RunOneStep, InlineEndsStep, JoinStep,
     WorkOneStep, WorkEndsStep DEF Next, Caller, Worker
<1> QED
  BY InvInit, <1>1, <1>2, PTL DEF Spec

-----------------------------------------------------------------------------
\* The types are right: no access to the handles, the input or the results is
\* outside of them, for any number of threads asked for.
THEOREM TypeCorrect == Spec => []TypeOK
BY Invariance, PTL DEF IInv

\* When the call returns, every index was visited.
LEMMA AllVisited ==
    ASSUME IInv, (InlineEnds /\ whole) \/ AllJoined \/ Empty, NEW x \in Indices, x < n
    PROVE  visits[x] = 1
<1> USE DEF IInv
<1>1. x \in Nat /\ n \in Int /\ t \in Nat
  BY ParallelAssumption DEF Indices, TypeOK
<1>2. n > 0
  BY <1>1
<1>3. CASE InlineEnds /\ whole
  <2>1. pc = "inline" /\ i >= end /\ end = n /\ i \in Nat
    BY <1>3, ParallelAssumption DEF InlineEnds, WholeInv, TypeOK
  <2>2. Done(x)
    BY <1>1, <1>3, <2>1 DEF Done
  <2> QED
    BY <2>2 DEF VisitInv
<1>4. CASE AllJoined
  <2>1. pc = "join" /\ joined >= spawned /\ nthreads > 1 /\ Start(t) >= n /\ ~whole
    BY <1>4 DEF AllJoined, ChunkInv, WholeInv
  <2>2. Start(t) \in Nat /\ Owner(x) \in Indices /\ Owner(x) \in Nat
    BY <1>1, <1>2, <2>1, Chunks, Owners DEF Indices
  <2>3. Owner(x) < t
    BY <1>1, <1>2, <2>1, <2>2, Before
  <2>4. os[Owner(x)] # "none" => os[Owner(x)] = "ended"
    <3>1. ASSUME os[Owner(x)] # "none"
          PROVE  os[Owner(x)] = "ended"
      <4>1. PICK k \in 0 .. spawned - 1 : handles[k] = Owner(x)
        BY <2>2, <3>1 DEF WorkerInv
      <4>2. k \in 0 .. joined - 1
        BY <2>1, <4>1, ParallelAssumption DEF TypeOK
      <4> QED
        BY <4>1, <4>2 DEF WorkerInv
    <3> QED
      BY <3>1
  <2>5. os[Owner(x)] # "none" => x < at[Owner(x)]
    BY <1>2, <2>1, <2>2, <2>4, Owners DEF WorkerInv
  <2>6. Done(x)
    BY <1>1, <2>1, <2>2, <2>3, <2>5 DEF Done
  <2> QED
    BY <2>6 DEF VisitInv
<1>5. CASE Empty
  BY <1>1, <1>2, <1>5 DEF Empty
<1> QED
  BY <1>3, <1>4, <1>5

\* Each step visits an index that was not visited, returns when all are, gives
\* up, or does not show.
LEMMA LoopStep ==
    ASSUME IInv, [Next]_vars
    PROVE  [Loop!Next]_<<n, visits, Status>>
<1>1. ASSUME UNCHANGED <<n, visits>>, pc' = pc \/ {pc, pc'} \cap {"returned", "thrown"} = {}
      PROVE  UNCHANGED <<n, visits, Status>>
  BY <1>1 DEF Status
<1>2. ASSUME Empty \/ (InlineEnds /\ whole) \/ AllJoined
      PROVE  Loop!Return
  <2>1. UNCHANGED <<n, visits>> /\ pc \in {"called", "inline", "join"} /\ pc' = "returned"
    BY <1>2 DEF Empty, InlineEnds, AllJoined, arguments
  <2>2. \A x \in Indices : x < n => visits[x] = 1
    BY <1>2, AllVisited
  <2> QED
    BY <2>1, <2>2 DEF Loop!Return, Status
<1>3. ASSUME NoResults \/ NoContext
      PROVE  Loop!Throw
  BY <1>3 DEF NoResults, NoContext, HasChunk, Loop!Throw, Status, arguments
<1>4. ASSUME RunOne
      PROVE  Loop!Visit(i) /\ i \in Indices
  <2>1. visits' = [visits EXCEPT ![i] = 1]
    <3>1. visits' = [visits EXCEPT ![i] = visits[i] + 1]
      BY <1>4 DEF RunOne, Visit
    <3>2. visits[i] + 1 = 1
      BY <1>4, RunOneStep
    <3> QED
      BY <3>1, <3>2, Zenon
  <2> QED
    BY <1>4, <2>1, RunOneStep DEF RunOne, Loop!Visit, Status, arguments
<1>5. ASSUME NEW c \in Indices, WorkOne(c)
      PROVE  Loop!Visit(at[c]) /\ at[c] \in Indices
  <2>1. visits' = [visits EXCEPT ![at[c]] = 1]
    <3>1. visits' = [visits EXCEPT ![at[c]] = visits[at[c]] + 1]
      BY <1>5 DEF WorkOne, Visit
    <3>2. visits[at[c]] + 1 = 1
      BY <1>5, WorkOneStep
    <3> QED
      BY <3>1, <3>2, Zenon
  <2>2. Status # "returned"
    BY <1>5, WorkOneStep DEF Status
  <2> QED
    BY <1>5, <2>1, <2>2, WorkOneStep DEF WorkOne, Loop!Visit, Status, arguments
<1>6. ASSUME RunWhole \/ Divide \/ Spawn \/ SpawnFails \/ AllSpawned
             \/ (InlineEnds /\ ~whole) \/ Join
      PROVE  UNCHANGED <<n, visits, Status>>
  BY <1>1, <1>6 DEF RunWhole, Divide, Spawn, SpawnFails, AllSpawned, InlineEnds,
     Join, HasChunk, arguments
<1>7. ASSUME NEW c \in Indices, WorkEnds(c)
      PROVE  UNCHANGED <<n, visits, Status>>
  BY <1>1, <1>7 DEF WorkEnds, arguments
<1>8. CASE UNCHANGED vars
  BY <1>1, <1>8 DEF vars, arguments
<1> QED
  BY <1>2, <1>3, <1>4, <1>5, <1>6, <1>7, <1>8
     DEF Next, Caller, Worker, Loop!Next

\* The call does what a loop over the range promises, with each index once and
\* all of them before it returns, however many threads could be created.
THEOREM IsALoop == Spec => ImplementsLoop
<1>1. Init => Loop!Init
  BY DEF Init, Loop!Init, Status
<1> QED
  BY <1>1, LoopStep, Invariance, PTL DEF Spec, ImplementsLoop, Loop!Spec
=============================================================================
