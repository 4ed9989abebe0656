----------------------------- MODULE ChanSelect -----------------------------
(***************************************************************************)
(* chan_select of include/object/channel.h: one thread polls several       *)
(* channels without taking their mutexes, reading is_closed and then count *)
(* of each in array order, while other threads push, pop and close.  The   *)
(* channels appear as class Channel promises them (BoundedQueue): calls    *)
(* take effect at one instant, and the selector sees of them only the      *)
(* length and the closed flag.  The two unlocked reads happen in program   *)
(* order, as in the builds that neither reorder loads in the compiler nor  *)
(* in the processor (TCC on x86).                                          *)
(***************************************************************************)
EXTENDS Integers

CONSTANTS
    N,           \* channels in the array; the index is the position
    Capacity,    \* of each channel
    Rivals,      \* channels that other threads pop from, too
    HasDeadline, \* timeout_ms >= 0
    MaxPushes    \* bound: elements pushed into each channel

Indices == 0 .. N - 1

ASSUME SelectAssumption ==
    /\ N \in Nat \ {0} /\ Capacity \in Nat \ {0} /\ MaxPushes \in Nat
    /\ Rivals \subseteq Indices /\ HasDeadline \in BOOLEAN

VARIABLES
    count, closed, \* what each channel shows to unlocked readers
    pushes,        \* elements pushed into each channel so far
    pc,            \* where the selecting thread is
    i,             \* the loop variable: the channel being looked at
    allClosed,     \* all_closed
    expired,       \* the clock has passed the deadline of this call
    result,        \* the value returned by the last call
    ready,         \* history: channels with data when the call began
    stolen         \* history: a rival emptied the returned channel since the look

channels == <<count, closed, pushes>>
selector == <<pc, i, allClosed, result, ready>>
vars == <<channels, selector, expired, stolen>>

Timeout == -1
AllClosed == -2

Init ==
    /\ count = [c \in Indices |-> 0]
    /\ closed = [c \in Indices |-> FALSE]
    /\ pushes = [c \in Indices |-> 0]
    /\ pc = "idle" /\ i = 0 /\ allClosed = TRUE /\ expired = FALSE
    /\ result = Timeout
    /\ ready = {} /\ stolen = FALSE

-----------------------------------------------------------------------------
\* The other threads

Push(c) ==
    /\ ~closed[c] /\ count[c] < Capacity /\ pushes[c] < MaxPushes
    /\ count' = [count EXCEPT ![c] = @ + 1]
    /\ pushes' = [pushes EXCEPT ![c] = @ + 1]
    /\ UNCHANGED <<closed, selector, expired, stolen>>

RivalPop(c) ==
    /\ c \in Rivals /\ count[c] > 0
    /\ count' = [count EXCEPT ![c] = @ - 1]
    /\ stolen' = (stolen \/ (pc = "selected" /\ c = result /\ count[c] = 1))
    /\ UNCHANGED <<closed, pushes, selector, expired>>

Close(c) ==
    /\ ~closed[c]
    /\ closed' = [closed EXCEPT ![c] = TRUE]
    /\ UNCHANGED <<count, pushes, selector, expired, stolen>>

\* The deadline passes while the call runs.
ClockTick ==
    /\ HasDeadline /\ pc # "idle" /\ ~expired
    /\ expired' = TRUE
    /\ UNCHANGED <<channels, selector, stolen>>

-----------------------------------------------------------------------------
\* The selecting thread

Call ==
    /\ pc = "idle"
    /\ pc' = "readClosed" /\ i' = 0 /\ allClosed' = TRUE
    /\ expired' = FALSE /\ stolen' = FALSE
    /\ ready' = {c \in Indices : count[c] > 0}
    /\ UNCHANGED <<channels, result>>

\* if (!ch->is_closed) all_closed = 0;
ReadClosed ==
    /\ pc = "readClosed"
    /\ allClosed' = (allClosed /\ closed[i])
    /\ pc' = "readCount"
    /\ UNCHANGED <<channels, stolen, expired, i, result, ready>>

\* if (ch->count > 0) return i; then the next channel, or the end of the scan.
ReadCount ==
    /\ pc = "readCount"
    /\ \/ /\ count[i] > 0
          /\ result' = i /\ pc' = "selected"
          /\ UNCHANGED i
       \/ /\ count[i] = 0 /\ i < N - 1
          /\ i' = i + 1 /\ pc' = "readClosed"
          /\ UNCHANGED result
       \/ /\ count[i] = 0 /\ i = N - 1
          /\ pc' = "scanned"
          /\ UNCHANGED <<i, result>>
    /\ UNCHANGED <<channels, stolen, expired, allClosed, ready>>

\* Mutants of a look at one channel: count before is_closed; the count is
\* compared with >= instead of >; the deadline is tested before the channel;
\* the loop runs one index too far.
LookSwapped ==
    \/ /\ pc = "readClosed" /\ count[i] > 0
       /\ result' = i /\ pc' = "selected"
       /\ UNCHANGED <<channels, stolen, expired, i, allClosed, ready>>
    \/ /\ pc = "readClosed" /\ count[i] = 0
       /\ pc' = "readCount"
       /\ UNCHANGED <<channels, stolen, expired, i, allClosed, result, ready>>
    \/ /\ pc = "readCount"
       /\ allClosed' = (allClosed /\ closed[i])
       /\ i' = (i + 1) % N
       /\ pc' = IF i = N - 1 THEN "scanned" ELSE "readClosed"
       /\ UNCHANGED <<channels, stolen, expired, result, ready>>
LookAtLeastZero ==
    \/ ReadClosed \/ ReadCount
    \/ /\ pc = "readCount" /\ count[i] >= 0
       /\ result' = i /\ pc' = "selected"
       /\ UNCHANGED <<channels, stolen, expired, i, allClosed, ready>>
LookAtDeadline ==
    \/ ReadClosed \/ ReadCount
    \/ /\ pc = "readClosed" /\ expired
       /\ result' = Timeout /\ pc' = "timedOut"
       /\ UNCHANGED <<channels, stolen, expired, i, allClosed, ready>>
LookTooFar ==
    \/ ReadClosed \/ ReadCount
    \/ /\ pc = "readCount" /\ count[i] = 0
       /\ i' = i + 1 /\ pc' = "readClosed"
       /\ UNCHANGED <<channels, stolen, expired, allClosed, result, ready>>

Look == ReadClosed \/ ReadCount

\* Nothing readable in the whole scan.  The deadline is looked at only here,
\* so even a timeout of 0 scans once.  Mutant: all_closed is not set again.
Rescan(flag) ==
    /\ pc = "scanned" /\ ~allClosed /\ ~expired
    /\ pc' = "readClosed" /\ i' = 0 /\ allClosed' = flag
    /\ UNCHANGED <<channels, stolen, expired, result, ready>>

ReportAllClosed ==
    /\ pc = "scanned" /\ allClosed
    /\ result' = AllClosed /\ pc' = "ended"
    /\ UNCHANGED <<channels, stolen, expired, i, allClosed, ready>>

ReportTimeout ==
    /\ pc = "scanned" /\ ~allClosed /\ expired
    /\ result' = Timeout /\ pc' = "timedOut"
    /\ UNCHANGED <<channels, stolen, expired, i, allClosed, ready>>

EndScanKeepsFlag == ReportAllClosed \/ ReportTimeout \/ Rescan(allClosed)
EndScan == ReportAllClosed \/ ReportTimeout \/ Rescan(TRUE)

\* The caller pops from the channel it was given; a rival may have been
\* faster, and then this pop waits for the next element or for close.
PopSelected ==
    /\ pc = "selected"
    /\ \/ /\ count[result] > 0
          /\ count' = [count EXCEPT ![result] = @ - 1]
       \/ /\ count[result] = 0 /\ closed[result]
          /\ UNCHANGED count
    /\ pc' = "idle"
    /\ UNCHANGED <<closed, pushes, stolen, expired, i, allClosed, result, ready>>

\* After a timeout the caller may call again.
GiveUp ==
    /\ pc = "timedOut"
    /\ pc' = "idle"
    /\ UNCHANGED <<channels, stolen, expired, i, allClosed, result, ready>>

Select == Look \/ EndScan

Next ==
    \/ \E c \in Indices : Push(c) \/ RivalPop(c) \/ Close(c)
    \/ ClockTick
    \/ Call \/ Select \/ PopSelected \/ GiveUp

Spec == Init /\ [][Next]_vars

\* The polling thread is never blocked inside chan_select, so the scheduler
\* keeps running it.  Nothing is assumed of the other threads.
FairSpec == Spec /\ WF_vars(Select)

-----------------------------------------------------------------------------
\* Properties

Scanning == pc \in {"readClosed", "readCount", "scanned"}

TypeOK ==
    /\ count \in [Indices -> 0 .. Capacity]
    /\ closed \in [Indices -> BOOLEAN]
    /\ pushes \in [Indices -> 0 .. MaxPushes]
    /\ pc \in {"idle", "readClosed", "readCount", "scanned", "selected", "timedOut", "ended"}
    /\ i \in Indices /\ result \in Indices \cup {Timeout, AllClosed}
    /\ allClosed \in BOOLEAN /\ expired \in BOOLEAN /\ stolen \in BOOLEAN
    /\ ready \subseteq Indices

\* The caller's pop on the channel it was given does not have to wait: it has
\* an element, or is closed and null is returned, which are the two cases
\* FUNCTIONS.md gives for an index.  Pushes, pops and closes of all other
\* threads may come between; only a rival that took the last element of this
\* very channel after the look makes the caller wait.
SelectedDoesNotBlock ==
    pc = "selected" => count[result] > 0 \/ closed[result] \/ stolen

\* "All closed" is only reported when every element has been handed out, even
\* with a push and a close between the two unlocked reads of a channel.
AllClosedMeansDrained ==
    pc = "ended" => \A c \in Indices : closed[c] /\ count[c] = 0

\* A channel that had data from the start of the call is never passed over:
\* the call returns it or a channel before it, however late it is.
ReadyIsFound ==
    pc \in {"selected", "timedOut", "ended"} =>
        \A c \in ready \ Rivals : result \in 0 .. c

\* A call ends once a channel of its own has data, or all are closed.
\* FUNCTIONS.md promises more: an index may also name a channel without data that
\* is closed.  The code looks at is_closed only to find out whether all are, and
\* polls on, for ever if it must, next to one that is open and empty.
SelectReturns ==
    Scanning /\ (\/ \E c \in Indices \ Rivals : count[c] > 0
                 \/ \A c \in Indices : closed[c]) ~> ~Scanning
=============================================================================
