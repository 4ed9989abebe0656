------------------------------- MODULE Future -------------------------------
(***************************************************************************)
(* class Future of include/object/channel.h: one-shot results that threads *)
(* resolve or reject under the future's mutex and that others wait for.    *)
(* await, then, catch and all look at `state' without the lock first, take *)
(* the lock only to sleep on `done', and read state, result and error      *)
(* without it afterwards; race only ever polls.                            *)
(*                                                                         *)
(* These unlocked reads race with the two stores of resolve and reject.    *)
(* ReorderStores says whether the build may make `state' visible before    *)
(* the value: the stores are plain C, so an optimising compiler or a       *)
(* weakly ordered processor may swap them; TCC on x86 does not.            *)
(*                                                                         *)
(* then and catch run their callback at once, in the calling thread, and   *)
(* the future they return is already settled: it is shared with nobody     *)
(* before they return, so it appears here as the outcome of the call.      *)
(***************************************************************************)
EXTENDS Integers, Sequences, FiniteSets

CONSTANTS
    Threads, NoThread,
    Futures,        \* the futures that Future::create() returned
    Values,         \* t_var values of resolve and of callbacks
    Errors,         \* exception objects of reject
    NullValue,      \* VAR_NULL(), in both fields of a fresh future
    Programs,       \* Programs[t]: the calls thread t may make
    Budget,         \* bound: calls a thread makes
    MaxSpurious,    \* bound: wake-ups without a signal
    ReorderStores

\* A call: a method, the futures it is about (one, or the array of all and
\* race) and the value of resolve or reject.
Call(m, fs, v) == [method |-> m, futs |-> fs, val |-> v]

Settlers == {"resolve", "reject"}
Waiters  == {"await", "then", "catch", "all"}

ASSUME FutureAssumption ==
    /\ IsFiniteSet(Threads) /\ NoThread \notin Threads
    /\ NullValue \notin Values \cup Errors
    /\ Budget \in Nat /\ MaxSpurious \in Nat /\ ReorderStores \in BOOLEAN

\* Only all and race take an array; resolve takes a value and reject an error.
ASSUME ProgramsAssumption ==
    \A t \in Threads : \A c \in Programs[t] :
        /\ c.futs \in Seq(Futures)
        /\ \/ c.method \in {"all", "race"}
           \/ Len(c.futs) = 1 /\ c.method \in {"await", "then", "catch", "isReady"}
           \/ Len(c.futs) = 1 /\ c.method = "resolve" /\ c.val \in Values
           \/ Len(c.futs) = 1 /\ c.method = "reject" /\ c.val \in Errors

VARIABLES
    state, result, error, \* the fields of each future
    mtx, asleep,          \* its mutex, and the threads in cnd_wait(&done)
    pc, call,             \* where each thread is, and in which call
    pos,                  \* the array position that all and race look at
    values,               \* what all has collected
    ret,                  \* the outcome of the thread's last call
    early,                \* history: futures settled when the call began
    budget, spurious

fields  == <<state, result, error>>
threads == <<pc, call, pos, values, ret, early, budget>>
vars    == <<fields, mtx, asleep, threads, spurious>>

NoCall == Call("none", <<>>, NullValue)

\* How a call ended: "resolved" with a value, "rejected" with an error (both
\* for the future returned and for what await returns or throws), "threw" for
\* a callback that threw, "pending" for race([]), and so on.
Outcome(kind, v) == [kind |-> kind, val |-> v]

Pending(f) == state[f] = "pending"
Settled == {f \in Futures : ~Pending(f)}
Focus(t) == call[t].futs[pos[t]]

\* What an unlocked reader takes from a settled future.
ReadOutcome(f) ==
    IF state[f] = "rejected" THEN Outcome("rejected", error[f])
                             ELSE Outcome("resolved", result[f])

Init ==
    /\ state = [f \in Futures |-> "pending"]
    /\ result = [f \in Futures |-> NullValue]
    /\ error = [f \in Futures |-> NullValue]
    /\ mtx = [f \in Futures |-> NoThread]
    /\ asleep = [f \in Futures |-> {}]
    /\ pc = [t \in Threads |-> "idle"]
    /\ call = [t \in Threads |-> NoCall]
    /\ pos = [t \in Threads |-> 1]
    /\ values = [t \in Threads |-> <<>>]
    /\ ret = [t \in Threads |-> Outcome("none", NullValue)]
    /\ early = [t \in Threads |-> {}]
    /\ budget = [t \in Threads |-> Budget]
    /\ spurious = MaxSpurious

-----------------------------------------------------------------------------
\* Calls begin and end

Begin(t, c) ==
    /\ pc[t] = "idle" /\ budget[t] > 0
    /\ pc' = [pc EXCEPT ![t] =
          CASE c.method \in Settlers -> "lock"
            [] c.method \in Waiters  -> "look"
            [] c.method = "race"     -> "poll"
            [] c.method = "isReady"  -> "peek"]
    /\ call' = [call EXCEPT ![t] = c]
    /\ early' = [early EXCEPT ![t] = Settled]
    /\ ret' = [ret EXCEPT ![t] = Outcome("none", NullValue)]
    /\ budget' = [budget EXCEPT ![t] = @ - 1]
    /\ UNCHANGED <<fields, mtx, asleep, pos, values, spurious>>

\* The call stays on record until the next one, for the properties.
Finish(t, outcome) ==
    /\ pc' = [pc EXCEPT ![t] = "idle"]
    /\ pos' = [pos EXCEPT ![t] = 1]
    /\ values' = [values EXCEPT ![t] = <<>>]
    /\ ret' = [ret EXCEPT ![t] = outcome]
    /\ UNCHANGED <<call, early, budget, spurious>>

Goto(t, where) == pc' = [pc EXCEPT ![t] = where]

\* Mutant: `if' instead of `while' around cnd_wait.
LockWithoutRetest(t) ==
    /\ pc[t] \in {"lock", "wait"}
    /\ mtx[Focus(t)] = NoThread /\ t \notin asleep[Focus(t)]
    /\ IF pc[t] = "wait" THEN Goto(t, "take") /\ UNCHANGED mtx
                         ELSE Goto(t, "test") /\ mtx' = [mtx EXCEPT ![Focus(t)] = t]
    /\ UNCHANGED <<fields, asleep, call, pos, values, ret, early, budget, spurious>>

\* mtx_lock, or the re-locking at the end of cnd_wait.
Lock(t) ==
    /\ pc[t] \in {"lock", "wait"}
    /\ mtx[Focus(t)] = NoThread /\ t \notin asleep[Focus(t)]
    /\ mtx' = [mtx EXCEPT ![Focus(t)] = t]
    /\ Goto(t, "test")
    /\ UNCHANGED <<fields, asleep, call, pos, values, ret, early, budget, spurious>>

WakeSpuriously(t, f) ==
    /\ t \in asleep[f] /\ spurious > 0
    /\ asleep' = [asleep EXCEPT ![f] = @ \ {t}]
    /\ spurious' = spurious - 1
    /\ UNCHANGED <<fields, mtx, threads>>

-----------------------------------------------------------------------------
\* resolve and reject

Settles(t) == call[t].method \in Settlers

AlreadySettled(t) ==
    /\ pc[t] = "test" /\ Settles(t) /\ ~Pending(Focus(t))
    /\ mtx' = [mtx EXCEPT ![Focus(t)] = NoThread]
    /\ Finish(t, Outcome("already settled", NullValue))
    /\ UNCHANGED <<fields, asleep>>

StoreValue(t) ==
    IF call[t].method = "resolve"
    THEN result' = [result EXCEPT ![Focus(t)] = call[t].val] /\ UNCHANGED error
    ELSE error' = [error EXCEPT ![Focus(t)] = call[t].val] /\ UNCHANGED result

StoreState(t) ==
    state' = [state EXCEPT ![Focus(t)] =
                 IF call[t].method = "resolve" THEN "resolved" ELSE "rejected"]

\* Mutant: the state is not tested before settling.
MaySettleAgain(t) == TRUE
MaySettle(t) == Pending(Focus(t))

\* The first of the two stores to become visible.
FirstStore(t) ==
    /\ pc[t] = "test" /\ Settles(t) /\ MaySettle(t)
    /\ \/ StoreValue(t) /\ UNCHANGED state /\ Goto(t, "storeState")
       \/ ReorderStores /\ StoreState(t) /\ UNCHANGED <<result, error>> /\ Goto(t, "storeValue")
    /\ UNCHANGED <<mtx, asleep, call, pos, values, ret, early, budget, spurious>>

\* Mutant: the broadcast is missing.
WakeNone(S) == S
WakeAll(S) == {}

\* The second, then cnd_broadcast and mtx_unlock.
SecondStore(t) ==
    /\ \/ pc[t] = "storeState" /\ StoreState(t) /\ UNCHANGED <<result, error>>
       \/ pc[t] = "storeValue" /\ StoreValue(t) /\ UNCHANGED state
    /\ asleep' = [asleep EXCEPT ![Focus(t)] = WakeAll(@)]
    /\ mtx' = [mtx EXCEPT ![Focus(t)] = NoThread]
    /\ Finish(t, Outcome("done", NullValue))

-----------------------------------------------------------------------------
\* Waiting, in await, then, catch and for each element of all

\* The unlocked look: settled, or (after the spin loop) on to the lock.
Look(t) ==
    /\ pc[t] = "look" /\ call[t].futs # <<>>
    /\ Goto(t, IF Pending(Focus(t)) THEN "lock" ELSE "take")
    /\ UNCHANGED <<fields, mtx, asleep, call, pos, values, ret, early, budget, spurious>>

Sleep(t) ==
    /\ pc[t] = "test" /\ ~Settles(t) /\ Pending(Focus(t))
    /\ asleep' = [asleep EXCEPT ![Focus(t)] = @ \cup {t}]
    /\ mtx' = [mtx EXCEPT ![Focus(t)] = NoThread]
    /\ Goto(t, "wait")
    /\ UNCHANGED <<fields, call, pos, values, ret, early, budget, spurious>>

StopWaiting(t) ==
    /\ pc[t] = "test" /\ ~Settles(t) /\ ~Pending(Focus(t))
    /\ mtx' = [mtx EXCEPT ![Focus(t)] = NoThread]
    /\ Goto(t, "take")
    /\ UNCHANGED <<fields, asleep, call, pos, values, ret, early, budget, spurious>>

\* The future is settled: its fields are read, without the lock.
Takes(t, m) == pc[t] = "take" /\ call[t].method = m

AwaitEnds(t) ==
    /\ Takes(t, "await")
    /\ Finish(t, ReadOutcome(Focus(t)))
    /\ UNCHANGED <<fields, mtx, asleep>>

\* then maps a result and passes an error through, catch the other way round.
\* The callback returns some value, or throws out of then itself.
ThenOrCatchEnds(t) ==
    /\ Takes(t, "then") \/ Takes(t, "catch")
    /\ LET got == ReadOutcome(Focus(t))
           handled == got.kind = IF call[t].method = "then" THEN "resolved" ELSE "rejected"
       IN  \/ ~handled /\ Finish(t, got)
           \/ handled /\ \E v \in Values : Finish(t, Outcome("resolved", v))
           \/ handled /\ \E e \in Errors : Finish(t, Outcome("threw", e))
    /\ UNCHANGED <<fields, mtx, asleep>>

\* Mutant: the results end up in the reverse order.
CollectFront(vs, v) == <<v>> \o vs
Collect(vs, v) == Append(vs, v)

\* all visits the array in order: the first rejected element, in array order,
\* rejects the whole; the last element resolves it.
AllTakes(t) ==
    /\ Takes(t, "all")
    /\ LET got == ReadOutcome(Focus(t))
           all == Collect(values[t], got.val)
       IN  \/ /\ got.kind = "rejected"
              /\ Finish(t, got)
           \/ /\ got.kind = "resolved" /\ pos[t] = Len(call[t].futs)
              /\ Finish(t, Outcome("resolvedAll", all))
           \/ /\ got.kind = "resolved" /\ pos[t] < Len(call[t].futs)
              /\ pos' = [pos EXCEPT ![t] = @ + 1]
              /\ values' = [values EXCEPT ![t] = all]
              /\ Goto(t, "look")
              /\ UNCHANGED <<call, ret, early, budget, spurious>>
    /\ UNCHANGED <<fields, mtx, asleep>>

AllOfNone(t) ==
    /\ pc[t] = "look" /\ call[t].futs = <<>>
    /\ Finish(t, Outcome("resolvedAll", <<>>))
    /\ UNCHANGED <<fields, mtx, asleep>>

-----------------------------------------------------------------------------
\* race and isReady

\* One look at one element; after the last comes the first again.
\* Mutant: the index runs past the array instead of starting over.
PollOffEnd(t) == pos' = [pos EXCEPT ![t] = @ + 1]
PollNext(t) == pos' = [pos EXCEPT ![t] = (@ % Len(call[t].futs)) + 1]

\* Mutant: the state of the element is not looked at.
WonAlways(t) == TRUE
Won(t) == ~Pending(Focus(t))

RacePolls(t) ==
    /\ pc[t] = "poll" /\ call[t].futs # <<>>
    /\ \/ Won(t) /\ Finish(t, ReadOutcome(Focus(t)))
       \/ ~Won(t) /\ PollNext(t)
          /\ UNCHANGED <<pc, call, values, ret, early, budget, spurious>>
    /\ UNCHANGED <<fields, mtx, asleep>>

\* race([]) returns a future that nobody will ever settle.
RaceOfNone(t) ==
    /\ pc[t] = "poll" /\ call[t].futs = <<>>
    /\ Finish(t, Outcome("pending", NullValue))
    /\ UNCHANGED <<fields, mtx, asleep>>

IsReady(t) ==
    /\ pc[t] = "peek"
    /\ Finish(t, Outcome(IF Pending(Focus(t)) THEN "false" ELSE "true", NullValue))
    /\ UNCHANGED <<fields, mtx, asleep>>

-----------------------------------------------------------------------------
Step(t) ==
    \/ Lock(t)
    \/ AlreadySettled(t) \/ FirstStore(t) \/ SecondStore(t)
    \/ Look(t) \/ Sleep(t) \/ StopWaiting(t)
    \/ AwaitEnds(t) \/ ThenOrCatchEnds(t) \/ AllTakes(t) \/ AllOfNone(t)
    \/ RacePolls(t) \/ RaceOfNone(t) \/ IsReady(t)

Next ==
    \E t \in Threads :
        \/ \E c \in Programs[t] : Begin(t, c)
        \/ \E f \in Futures : WakeSpuriously(t, f)
        \/ Step(t)

Spec == Init /\ [][Next]_vars

\* A thread inside a call keeps running; it need not make another one.
FairSpec == Spec /\ \A t \in Threads : WF_vars(Step(t))

-----------------------------------------------------------------------------
\* Properties

\* What future f was settled with, as long as both stores are visible.
SettledWith(f) ==
    Outcome(state[f], IF state[f] = "resolved" THEN result[f] ELSE error[f])

Done(t, m) == pc[t] = "idle" /\ call[t].method = m /\ ret[t].kind # "none"

OutcomeKinds == {"none", "done", "already settled", "resolved", "rejected", "threw",
                 "resolvedAll", "pending", "true", "false"}
Results == Values \cup Errors \cup {NullValue}

TypeOK ==
    /\ state \in [Futures -> {"pending", "resolved", "rejected"}]
    /\ result \in [Futures -> Values \cup {NullValue}]
    /\ error \in [Futures -> Errors \cup {NullValue}]
    /\ mtx \in [Futures -> Threads \cup {NoThread}]
    /\ asleep \in [Futures -> SUBSET Threads]
    /\ pc \in [Threads -> {"idle", "lock", "test", "storeState", "storeValue", "look",
                           "wait", "take", "poll", "peek"}]
    /\ call \in [Threads -> {NoCall} \cup UNION {Programs[t] : t \in Threads}]
    /\ pos \in [Threads -> Nat \ {0}]
    /\ values \in [Threads -> Seq(Values \cup {NullValue})]
    /\ ret \in [Threads ->
          [kind : OutcomeKinds, val : Results \cup Seq(Values \cup {NullValue})]]
    /\ early \in [Threads -> SUBSET Futures]
    /\ \A t \in Threads : pc[t] # "idle" => pos[t] \in 1 .. Len(call[t].futs) \/ call[t].futs = <<>>
    /\ \A t \in Threads : Len(values[t]) = pos[t] - 1 \/ call[t].method = "race"
    /\ budget \in [Threads -> 0 .. Budget] /\ spurious \in 0 .. MaxSpurious

\* A settled future never changes again, whoever tries to settle it.
SettledForever ==
    [][\A f \in Futures : ~Pending(f) =>
          state'[f] = state[f] /\ result'[f] = result[f] /\ error'[f] = error[f]]_vars

\* Whoever awaited a future got what it was settled with: never the null of a
\* fresh future, and the same for every awaiting thread.
AwaitersAgree ==
    \A t \in Threads : Done(t, "await") =>
        /\ ret[t] = SettledWith(call[t].futs[1])
        /\ ret[t].val # NullValue

\* all resolves with the results in the order of the array, whatever order
\* they arrived in, or rejects with the error of the first rejected element
\* after all the elements before it resolved.
AllFollowsArray ==
    \A t \in Threads : Done(t, "all") =>
        LET fs == call[t].futs IN
        \/ /\ ret[t].kind = "resolvedAll"
           /\ ret[t].val = [k \in DOMAIN fs |-> result[fs[k]]]
           /\ \A k \in DOMAIN fs : state[fs[k]] = "resolved"
        \/ \E k \in DOMAIN fs :
              /\ ret[t] = SettledWith(fs[k]) /\ state[fs[k]] = "rejected"
              /\ \A j \in 1 .. k - 1 : state[fs[j]] = "resolved"

\* race ends with the outcome of a settled element, and never of one behind
\* an element that was settled before the call.
RaceTakesSettled ==
    \A t \in Threads : Done(t, "race") /\ call[t].futs # <<>> =>
        LET fs == call[t].futs IN
        \E k \in DOMAIN fs :
            /\ ret[t] = SettledWith(fs[k]) /\ fs[k] \in Settled
            /\ \A j \in 1 .. k - 1 : fs[j] \notin early[t]

\* A waiting call ends once all its futures are settled, a race once one is:
\* the broadcast is never missed between the look and the sleep.
WaitsEnd ==
    \A t \in Threads :
        (/\ pc[t] # "idle"
         /\ LET fs == {call[t].futs[k] : k \in DOMAIN call[t].futs}
            IN  fs \subseteq Settled \/ (call[t].method = "race" /\ fs \cap Settled # {}))
        ~> pc[t] = "idle"
=============================================================================
