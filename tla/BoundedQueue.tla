---------------------------- MODULE BoundedQueue ----------------------------
(***************************************************************************)
(* What class Channel (include/object/channel.h) promises its users: a     *)
(* bounded FIFO queue on which each call takes effect in one indivisible   *)
(* step between its invocation and its return.  Channel.tla models the     *)
(* code (ring buffer, mutex, condition variables, spinning) and is shown   *)
(* to implement this module.                                               *)
(***************************************************************************)
EXTENDS Naturals, Sequences

CONSTANTS
    Threads,    \* threads that hold a reference to the channel
    Values,     \* what can be pushed
    NullValue,  \* VAR_NULL()
    Capacity    \* room in the channel

VARIABLES
    queue,      \* the elements accepted and not yet handed out, oldest first
    closed,     \* close() took effect
    alive,      \* the object has not been destructed
    op,         \* op[t]: the method t is in, "none" outside
    arg,        \* arg[t]: the value t is pushing
    ret         \* ret[t]: what t's last call returned or threw

qvars == <<queue, closed, alive, op, arg, ret>>

PushOps == {"push", "tryPush"}
PopOps  == {"pop", "tryPop"}
Methods == PushOps \cup PopOps \cup {"close", "length", "isClosed"}

Result(outcome, v) == [outcome |-> outcome, val |-> v]
NoResult == Result("none", NullValue)

Init ==
    /\ queue = <<>>
    /\ closed = FALSE
    /\ alive = TRUE
    /\ op = [t \in Threads |-> "none"]
    /\ arg = [t \in Threads |-> NullValue]
    /\ ret = [t \in Threads |-> NoResult]

\* A thread invokes a method; only the two push methods take a value.
Invoke(t, m, v) ==
    /\ alive /\ op[t] = "none"
    /\ m \in PushOps <=> v # NullValue
    /\ op'  = [op EXCEPT ![t] = m]
    /\ arg' = [arg EXCEPT ![t] = v]
    /\ ret' = [ret EXCEPT ![t] = NoResult]
    /\ UNCHANGED <<queue, closed, alive>>

Finish(t, r) ==
    /\ op'  = [op EXCEPT ![t] = "none"]
    /\ arg' = [arg EXCEPT ![t] = NullValue]
    /\ ret' = [ret EXCEPT ![t] = r]
    /\ UNCHANGED alive

\* push and tryPush on an open channel with room.
Enqueue(t) ==
    /\ op[t] \in PushOps /\ ~closed /\ Len(queue) < Capacity
    /\ queue' = Append(queue, arg[t])
    /\ Finish(t, Result("done", NullValue))
    /\ UNCHANGED closed

\* push and tryPush throw on a closed channel, full or not.
EnqueueThrows(t) ==
    /\ op[t] \in PushOps /\ closed
    /\ Finish(t, Result("ChannelClosedException", NullValue))
    /\ UNCHANGED <<queue, closed>>

\* Only tryPush gives up on a full channel.
EnqueueRefused(t) ==
    /\ op[t] = "tryPush" /\ ~closed /\ Len(queue) = Capacity
    /\ Finish(t, Result("full", NullValue))
    /\ UNCHANGED <<queue, closed>>

\* pop and tryPop hand out the oldest element, also after close.
Dequeue(t) ==
    /\ op[t] \in PopOps /\ queue # <<>>
    /\ queue' = Tail(queue)
    /\ Finish(t, Result("value", Head(queue)))
    /\ UNCHANGED closed

\* pop returns null only when nothing can arrive any more, tryPop at once.
DequeueNull(t) ==
    /\ op[t] \in PopOps /\ queue = <<>>
    /\ op[t] = "pop" => closed
    /\ Finish(t, Result("null", NullValue))
    /\ UNCHANGED <<queue, closed>>

Close(t) ==
    /\ op[t] = "close"
    /\ closed' = TRUE
    /\ Finish(t, Result("done", NullValue))
    /\ UNCHANGED queue

\* length and isClosed report the state at one instant of the call.
Observe(t) ==
    /\ \/ op[t] = "length" /\ Finish(t, Result("length", Len(queue)))
       \/ /\ op[t] = "isClosed"
          /\ Finish(t, Result(IF closed THEN "true" ELSE "false", NullValue))
    /\ UNCHANGED <<queue, closed>>

\* The last reference goes away: what is left in the queue goes with it.
Dispose ==
    /\ alive /\ \A t \in Threads : op[t] = "none"
    /\ alive' = FALSE
    /\ queue' = <<>>
    /\ UNCHANGED <<closed, op, arg, ret>>

Next ==
    \/ \E t \in Threads :
        \/ \E m \in Methods, v \in Values \cup {NullValue} : Invoke(t, m, v)
        \/ Enqueue(t) \/ EnqueueThrows(t) \/ EnqueueRefused(t)
        \/ Dequeue(t) \/ DequeueNull(t)
        \/ Close(t) \/ Observe(t)
    \/ Dispose

Spec == Init /\ [][Next]_qvars
=============================================================================
