----------------------------- MODULE Generator -----------------------------
(***************************************************************************)
(* Class Generator (include/object/generator.h) where a coroutine is a     *)
(* thread of its own (TCC on macOS): the caller's thread and the body's    *)
(* hand control to each other through one mutex, two condition variables   *)
(* and two flags, and values through a stack of t_var.  The body is what   *)
(* the compiler makes of a function with yield: any number of yields, then *)
(* return or the end of the function, or neither.  The bound on the yields *)
(* is on those that hand control over: a body whose yields are refused, in *)
(* the destructor, may go on for ever.                                     *)
(*                                                                         *)
(* A step is what a thread does while it holds the mutex, up to the sleep  *)
(* on a condition variable, or what it does outside between two of those.  *)
(***************************************************************************)
EXTENDS Naturals, Sequences

CONSTANTS
    Null,        \* VAR_NULL()
    Room,        \* t_vars that the storage of a coroutine can hold
    MaxYields,   \* bound: yields a body executes before the coroutine is DEAD
    MaxCalls     \* bound: method calls on the generator

ASSUME GeneratorAssumption ==
    /\ Null \notin Nat
    /\ Room \in Nat /\ Room >= 2 /\ MaxYields \in Nat /\ MaxCalls \in Nat

VARIABLES
    state,         \* co->state
    gen_resume,    \* co->gen_resume: the body may go on
    main_resume,   \* co->main_resume: the caller may go on
    storage,       \* co->storage, a stack of t_var
    pc,            \* where the caller is
    op,            \* the method the caller is in
    started, done, \* Generator.started, .done
    cur, ret,      \* Generator.cur_key and .cur_val, .ret_val
    gpc,           \* where the body's thread is
    yields,        \* yields executed until DEAD; the n-th one yields n with key n
    calls,         \* calls made; the n-th one sends n, if it sends
    sent, got,     \* history: values sent, values the body received until DEAD
    result         \* history: what the body returned

co     == <<state, gen_resume, main_resume>>
object == <<started, done, cur, ret>>
caller == <<pc, op, calls, sent>>
body   == <<gpc, yields, got, result>>
vars   == <<co, storage, object, caller, body>>

\* new_tphp_class_Generator after mco_create: the thread exists and has not
\* reached the wait for the first resume.
Init ==
    /\ state = "SUSPENDED" /\ gen_resume = FALSE /\ main_resume = FALSE
    /\ storage = <<>>
    /\ pc = "idle" /\ op = "none" /\ calls = 0 /\ sent = <<>>
    /\ started = FALSE /\ done = FALSE /\ cur = Null /\ ret = Null
    /\ gpc = "entry" /\ yields = 0 /\ got = <<>> /\ result = Null

\* Mutant: mco_push without the test for room.
PushAlways(s, vs) == s \o vs

\* mco_push and mco_pop: a push without room and a pop of too much do nothing.
Push(s, vs) == IF Len(s) + Len(vs) <= Room THEN s \o vs ELSE s
Drop(k)   == SubSeq(storage, 1, Len(storage) - k)
Top       == IF storage = <<>> THEN Null ELSE storage[Len(storage)]
DropTop   == IF storage = <<>> THEN storage ELSE Drop(1)

\* pthread_cond_signal: a thread asleep goes on to look at its flag again.
SignalMain == pc'  = IF pc = "asleep" THEN "awake" ELSE pc
SignalBody == gpc' = CASE gpc = "waiting" -> "entry"
                       [] gpc = "parked"  -> "unparked"
                       [] OTHER           -> gpc

-----------------------------------------------------------------------------
\* The caller

\* The first call of any method resumes only (rewind); next and send of a
\* started generator push what the yield will return, and resume.  Calls that
\* resume nothing return the cached values.
Call(m) ==
    /\ pc = "idle" /\ ~done /\ calls < MaxCalls
    /\ started => m # "look"
    /\ op' = m /\ calls' = calls + 1
    /\ started' = TRUE /\ pc' = "resume"
    /\ LET v == IF m = "send" THEN calls + 1 ELSE Null IN
       IF started THEN sent' = Append(sent, v) /\ storage' = Push(storage, <<v>>)
                  ELSE UNCHANGED <<sent, storage>>
    /\ UNCHANGED <<co, done, cur, ret, body>>

\* mco_resume: signal, then the first round of the loop around
\* pthread_cond_wait(main_cv).
Resume ==
    /\ pc = "resume" /\ state = "SUSPENDED"
    /\ state' = "RUNNING" /\ gen_resume' = TRUE /\ SignalBody
    /\ main_resume' = FALSE
    /\ pc' = IF main_resume THEN "cache" ELSE "asleep"
    /\ UNCHANGED <<storage, object, op, calls, sent, yields, got, result>>

\* Mutant: an if instead of the while around pthread_cond_wait(main_cv).
AwaitBodyOnce ==
    /\ pc = "awake"
    /\ main_resume' = FALSE /\ pc' = "cache"
    /\ UNCHANGED <<state, gen_resume, storage, object, op, calls, sent, body>>

\* Another round of the loop, after a signal or a spurious wake-up.
AwaitBody ==
    /\ pc = "awake"
    /\ main_resume' = FALSE
    /\ pc' = IF main_resume THEN "cache" ELSE "asleep"
    /\ UNCHANGED <<state, gen_resume, storage, object, op, calls, sent, body>>

\* The end of rewind and of _gen_resume_and_cache for a body that ended.
CacheReturn ==
    /\ pc = "cache" /\ state = "DEAD"
    /\ done' = TRUE
    /\ ret' = Top /\ storage' = DropTop
    /\ pc' = "idle" /\ op' = "none"
    /\ UNCHANGED <<co, started, cur, calls, sent, body>>

\* What is left of the storage when the pair of a yield is taken off it, if a
\* pair is there.
HasPair  == Len(storage) >= 2
DropPair == IF HasPair THEN Drop(2) ELSE storage

\* The same for one that yielded.  A send that had to start the generator goes
\* on to send.
CacheYield ==
    /\ pc = "cache" /\ state # "DEAD"
    /\ cur' = IF HasPair THEN Top ELSE Null
    /\ IF op = "send" /\ sent = <<>>
       THEN /\ storage' = Push(DropPair, <<calls>>)
            /\ sent' = <<calls>> /\ pc' = "resume" /\ UNCHANGED op
       ELSE /\ storage' = DropPair
            /\ pc' = "idle" /\ op' = "none" /\ UNCHANGED sent
    /\ UNCHANGED <<co, started, done, ret, calls, body>>

\* Mutant: the destructor sets the coroutine DEAD and signals, but does not
\* raise the flag that the body looks at.
DestroyUnflagged ==
    /\ pc = "idle"
    /\ pc' = "joining"
    /\ IF state = "SUSPENDED" THEN state' = "DEAD" /\ SignalBody
                              ELSE UNCHANGED <<state, gpc>>
    /\ UNCHANGED <<gen_resume, main_resume, storage, object, op, calls, sent,
                   yields, got, result>>

\* __destruct: mco_destroy of a suspended coroutine sets it DEAD, lets the
\* body go on, and joins its thread.
Destroy ==
    /\ pc = "idle"
    /\ pc' = "joining"
    /\ IF state = "SUSPENDED"
       THEN state' = "DEAD" /\ gen_resume' = TRUE /\ SignalBody
       ELSE UNCHANGED <<state, gen_resume, gpc>>
    /\ UNCHANGED <<main_resume, storage, object, op, calls, sent, yields, got, result>>

Joined ==
    /\ pc = "joining" /\ gpc = "ended"
    /\ pc' = "gone"
    /\ UNCHANGED <<co, storage, object, op, calls, sent, body>>

-----------------------------------------------------------------------------
\* The body's thread

\* _mco_thread_entry: the loop around pthread_cond_wait(gen_cv).
Enter ==
    /\ gpc = "entry"
    /\ gen_resume' = FALSE
    /\ gpc' = IF gen_resume THEN "run" ELSE "waiting"
    /\ UNCHANGED <<state, main_resume, storage, object, caller, yields, got, result>>

\* yield: the pair goes on the storage ...
Yield ==
    /\ gpc = "run" /\ (yields < MaxYields \/ state = "DEAD")
    /\ yields' = IF state = "DEAD" THEN yields ELSE yields + 1
    /\ storage' = Push(storage, <<yields', yields'>>)
    /\ gpc' = "yield"
    /\ UNCHANGED <<co, object, caller, got, result>>

\* ... mco_yield hands control over and waits for its turn ...
Suspend ==
    /\ gpc = "yield" /\ state = "RUNNING"
    /\ main_resume' = TRUE /\ SignalMain
    /\ gen_resume' = FALSE
    /\ IF gen_resume THEN gpc' = "receive" /\ state' = "RUNNING"
                     ELSE gpc' = "parked"  /\ state' = "SUSPENDED"
    /\ UNCHANGED <<storage, object, op, calls, sent, yields, got, result>>

Unpark ==
    /\ gpc = "unparked"
    /\ gen_resume' = FALSE
    /\ IF gen_resume THEN gpc' = "receive" /\ state' = "RUNNING"
                     ELSE gpc' = "parked"  /\ UNCHANGED state
    /\ UNCHANGED <<main_resume, storage, object, caller, yields, got, result>>

\* ... (the yield of a DEAD coroutine returns at once, and the body goes on as
\* if it had been resumed: it is not told to end) ...
Refuse ==
    /\ gpc = "yield" /\ state # "RUNNING"
    /\ gpc' = "receive"
    /\ UNCHANGED <<co, storage, object, caller, yields, got, result>>

\* Mutant: the value sent is read and left on the storage.
ReceiveKeeps ==
    /\ gpc = "receive"
    /\ got' = IF state = "DEAD" THEN got ELSE Append(got, Top)
    /\ gpc' = "run"
    /\ UNCHANGED <<co, storage, object, caller, yields, result>>

\* ... and takes the value sent off the storage.
Receive ==
    /\ gpc = "receive"
    /\ got' = IF state = "DEAD" THEN got ELSE Append(got, Top)
    /\ storage' = DropTop
    /\ gpc' = "run"
    /\ UNCHANGED <<co, object, caller, yields, result>>

\* return v pushes v; the end of the function pushes nothing.
Return ==
    /\ gpc = "run"
    /\ \/ result' = MaxCalls + 1 /\ storage' = Push(storage, <<result'>>)
       \/ UNCHANGED <<result, storage>>
    /\ gpc' = "finish"
    /\ UNCHANGED <<co, object, caller, yields, got>>

\* Mutant: the end of the body does not signal main_cv.
FinishUnsignalled ==
    /\ gpc = "finish"
    /\ state' = "DEAD" /\ main_resume' = TRUE
    /\ gpc' = "ended"
    /\ UNCHANGED <<gen_resume, storage, object, caller, yields, got, result>>

\* The end of _mco_thread_entry.
Finish ==
    /\ gpc = "finish"
    /\ state' = "DEAD" /\ main_resume' = TRUE /\ SignalMain
    /\ gpc' = "ended"
    /\ UNCHANGED <<gen_resume, storage, object, op, calls, sent, yields, got, result>>

\* Each wait may end without a signal.
WakeMain ==
    /\ pc = "asleep" /\ pc' = "awake"
    /\ UNCHANGED <<co, storage, object, op, calls, sent, body>>

WakeBody ==
    /\ gpc \in {"waiting", "parked"} /\ SignalBody
    /\ UNCHANGED <<co, storage, object, caller, yields, got, result>>

-----------------------------------------------------------------------------
InCall == Resume \/ AwaitBody \/ CacheReturn \/ CacheYield \/ Joined
InBody == Enter \/ Yield \/ Suspend \/ Unpark \/ Refuse \/ Receive \/ Return \/ Finish

Next ==
    \/ \E m \in {"look", "next", "send"} : Call(m)
    \/ Destroy \/ InCall \/ InBody \/ WakeMain \/ WakeBody

Spec == Init /\ [][Next]_vars

\* The two threads run.  The code of a body between two yields terminates: an
\* assumption about the program, not about the runtime.  The body as a whole
\* need not end.
FairSpec == Spec /\ WF_vars(InCall) /\ WF_vars(InBody)

-----------------------------------------------------------------------------
Values == (0 .. MaxYields + MaxCalls + 1) \cup {Null}

\* Every variable has its type; the storage never overflows.
TypeOK ==
    /\ state \in {"SUSPENDED", "RUNNING", "DEAD"}
    /\ gen_resume \in BOOLEAN /\ main_resume \in BOOLEAN
    /\ storage \in Seq(Values) /\ Len(storage) <= Room
    /\ pc \in {"idle", "resume", "asleep", "awake", "cache", "joining", "gone"}
    /\ op \in {"none", "look", "next", "send"}
    /\ started \in BOOLEAN /\ done \in BOOLEAN
    /\ cur \in Values /\ ret \in Values /\ result \in Values
    /\ gpc \in {"entry", "waiting", "run", "yield", "parked", "unparked",
               "receive", "finish", "ended"}
    /\ yields \in 0 .. MaxYields /\ calls \in 0 .. MaxCalls
    /\ sent \in Seq(Values) /\ got \in Seq(Values)

\* Though the two are threads, they never run at once: while the body executes
\* (and uses the storage, which no lock protects), the caller is inside the
\* wait of mco_resume or in the join of mco_destroy.
OneRuns ==
    gpc \in {"run", "yield", "receive", "finish"} =>
        pc \in {"asleep", "awake", "joining"}

\* Between two calls both sides agree on how far the generator has come: one
\* yield more than values sent until it ends, each yield has returned the value
\* sent to it (though both directions share one stack), nothing is left on the
\* storage, and the object holds the last yield, or what the body returned.
InStep ==
    pc = "idle" =>
        /\ storage = <<>> /\ got = sent
        /\ yields = Len(sent) + (IF started /\ ~done THEN 1 ELSE 0)
        /\ cur = (IF yields = 0 THEN Null ELSE yields)
        /\ ret = result

\* A call that resumes the body returns: no signal between the two is lost.
CallsReturn == pc \in {"resume", "asleep", "awake", "cache"} ~> pc = "idle"

\* An assumption about the program that DestroyEnds needs and FairSpec does not
\* make: a body that is at liberty to return again and again does so in the end.
\* (A body such as while (true) { yield $i; } never does.)
BodyReturns == SF_vars(Return)

\* The destructor of a generator that was never started, or that has ended,
\* returns if the body does: the flag and the signal reach a body that has not
\* begun to wait, that waits, or that woke up for nothing; it then runs from its
\* beginning to its end with every yield refused.  The comment in mco_destroy
\* says that the thread is woken up to exit, without that condition, and of any
\* suspended generator.  But nothing makes a body exit that was never started;
\* and in one suspended at a yield, mco_yield sets the state back to RUNNING
\* when it wakes up, so that the next yield hands control to a caller that is
\* not there, and the destructor may wait for ever though the body would return.
DestroyEnds ==
    BodyReturns => ((pc = "joining" /\ (~started \/ done)) ~> pc = "gone")
=============================================================================
