---------------------------- MODULE BoundedQueue ----------------------------
(***************************************************************************)
(* What LockFreeRingQueue promises: a first-in first-out queue of limited   *)
(* capacity.  RingQueue implements it.                                      *)
(***************************************************************************)
EXTENDS Integers, Sequences

CONSTANTS Values, Capacity

VARIABLES
  queue,  \* the tasks in the queue
  last    \* the task pop() returned last

Init == queue = <<>> /\ last \notin Values

Put(v) == Len(queue) < Capacity /\ queue' = Append(queue, v) /\ last' = last

Get == queue # <<>> /\ last' = Head(queue) /\ queue' = Tail(queue)

Next == Get \/ \E v \in Values : Put(v)

Spec == Init /\ [][Next]_<<queue, last>>
=============================================================================
