---------------------------- MODULE ParallelLoop ----------------------------
(***************************************************************************)
(* What Parallel::for and Parallel::map (include/object/parallel.h)        *)
(* promise: the callback is called once with each index of the range, in   *)
(* any order, and the call returns when all have been; or it throws, out   *)
(* of memory, and what was begun may still go on.                          *)
(***************************************************************************)
EXTENDS Integers

CONSTANTS Lengths, Indices

VARIABLES
    size,     \* the length of the range
    visits,   \* visits[i]: calls of the callback with i
    status    \* "running", "returned" or "thrown"

Init ==
    /\ size \in Lengths
    /\ visits = [i \in Indices |-> 0]
    /\ status = "running"

Visit(i) ==
    /\ status # "returned" /\ i < size /\ visits[i] = 0
    /\ visits' = [visits EXCEPT ![i] = 1]
    /\ UNCHANGED <<size, status>>

Return ==
    /\ status = "running" /\ \A i \in Indices : i < size => visits[i] = 1
    /\ status' = "returned" /\ UNCHANGED <<size, visits>>

Throw ==
    /\ status = "running"
    /\ status' = "thrown" /\ UNCHANGED <<size, visits>>

Next == (\E i \in Indices : Visit(i)) \/ Return \/ Throw
Spec == Init /\ [][Next]_<<size, visits, status>>
=============================================================================
