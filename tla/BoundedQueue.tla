---------------------------- MODULE BoundedQueue ----------------------------
(***************************************************************************)
(* What the x_ring and the task queue of the thread pool promise: a first  *)
(* in, first out queue that never holds more than Capacity items, loses    *)
(* none and delivers none twice.                                           *)
(***************************************************************************)
EXTENDS Integers, Sequences

CONSTANTS Item, Capacity

VARIABLES queue,      \* the items put and not yet delivered, oldest first
          delivered   \* the items delivered, in order

qvars == <<queue, delivered>>

Init == queue = << >> /\ delivered = << >>

Put(x) ==
    /\ Len(queue) < Capacity
    /\ queue' = Append(queue, x)
    /\ UNCHANGED delivered

Get ==
    /\ queue # << >>
    /\ queue' = Tail(queue)
    /\ delivered' = Append(delivered, Head(queue))

Next == Get \/ \E x \in Item : Put(x)

Spec == Init /\ [][Next]_qvars
=============================================================================
