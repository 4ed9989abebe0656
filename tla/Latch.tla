------------------------------- MODULE Latch -------------------------------
(***************************************************************************)
(* What class WaitGroup (include/object/thread.h) promises: a count of     *)
(* unfinished tasks, and a wait that returns at an instant at which the    *)
(* count is 0.  WaitGroup.tla models the code, mutex and condition         *)
(* variable included, and is shown to implement this module.               *)
(***************************************************************************)
EXTENDS Integers

CONSTANTS
    Threads,
    Deltas     \* arguments of add; done() is add(-1)

VARIABLES
    count,   \* tasks announced and not done
    inside   \* the threads blocked in wait

Init == count = 0 /\ inside = {}

\* add(delta) and done(): a count that would be negative becomes 0.
Add(d) ==
    /\ count' = IF count + d < 0 THEN 0 ELSE count + d
    /\ UNCHANGED inside

\* wait() blocks only a thread that finds unfinished tasks.
Enter(t) ==
    /\ t \notin inside /\ count > 0
    /\ inside' = inside \cup {t}
    /\ UNCHANGED count

Leave(t) ==
    /\ t \in inside /\ count = 0
    /\ inside' = inside \ {t}
    /\ UNCHANGED count

Next ==
    \/ \E d \in Deltas : Add(d)
    \/ \E t \in Threads : Enter(t) \/ Leave(t)

Spec == Init /\ [][Next]_<<count, inside>>
=============================================================================
