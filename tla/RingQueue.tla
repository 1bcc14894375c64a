----------------------------- MODULE RingQueue -----------------------------
(***************************************************************************)
(* LockFreeRingQueue (ring_buffer.h) between one thread that pushes and one *)
(* that pops.  Every access to head_, tail_ and the buffer is a step of its *)
(* own, except a thread's load of the index only it writes; the acquire     *)
(* loads and release stores keep the steps of a thread in order.            *)
(*                                                                          *)
(* FullForgotten is a seeded fault that shows what the property detects;    *)
(* RingNext does not use it.                                                *)
(***************************************************************************)
EXTENDS Integers, Sequences

CONSTANTS
  Size,     \* size_, at most 2^32: mask_ has 32 bits and uses no more places
  Values,   \* tasks
  NoTask    \* a std::function that was moved from, or never set

(* The constructor accepts the powers of two and 0, which leaves no place to *)
(* write to.  Nothing below needs more than a place.                         *)
ASSUME RingAssumption ==
  /\ Size \in Nat \ {0}
  /\ NoTask \notin Values

VARIABLES
  buffer,   \* buffer_
  head,     \* head_
  tail,     \* tail_
  ppc,      \* where push() is: "idle", "write", "store"
  task,     \* its argument, NoTask outside
  cpc,      \* where pop() is: "idle", "move", "store"
  moved,    \* the task it has moved out of the buffer
  last      \* what pop() returned last

ringVars == <<buffer, head, tail, ppc, task, cpc, moved, last>>

RingInit ==
  /\ buffer = [i \in 0 .. Size - 1 |-> NoTask]
  /\ head = 0
  /\ tail = 0
  /\ ppc = "idle"
  /\ task = NoTask
  /\ cpc = "idle"
  /\ moved = NoTask
  /\ last = NoTask

(* (index + 1) & mask_, which is this for a power of two. *)
After(index) == (index + 1) % Size

FullForgotten == FALSE
Full == After(tail) = head

(* push: refused when the queue is full. *)
PushRefused ==
  /\ ppc = "idle"
  /\ Full
  /\ UNCHANGED ringVars

PushBegin(v) ==
  /\ ppc = "idle"
  /\ ~Full
  /\ ppc' = "write"
  /\ task' = v
  /\ UNCHANGED <<buffer, head, tail, cpc, moved, last>>

PushWrite ==
  /\ ppc = "write"
  /\ buffer' = [buffer EXCEPT ![tail] = task]
  /\ ppc' = "store"
  /\ UNCHANGED <<head, tail, task, cpc, moved, last>>

PushStore ==
  /\ ppc = "store"
  /\ tail' = After(tail)
  /\ task' = NoTask
  /\ ppc' = "idle"
  /\ UNCHANGED <<buffer, head, cpc, moved, last>>

(* pop: nothing when the queue is empty. *)
PopNone ==
  /\ cpc = "idle"
  /\ head = tail
  /\ UNCHANGED ringVars

PopBegin ==
  /\ cpc = "idle"
  /\ head # tail
  /\ cpc' = "move"
  /\ UNCHANGED <<buffer, head, tail, ppc, task, moved, last>>

(* The task is moved out before the place is given free. *)
PopMove ==
  /\ cpc = "move"
  /\ moved' = buffer[head]
  /\ buffer' = [buffer EXCEPT ![head] = NoTask]
  /\ cpc' = "store"
  /\ UNCHANGED <<head, tail, ppc, task, last>>

PopStore ==
  /\ cpc = "store"
  /\ head' = After(head)
  /\ last' = moved
  /\ moved' = NoTask
  /\ cpc' = "idle"
  /\ UNCHANGED <<buffer, tail, ppc, task>>

RingNext ==
  \/ PushRefused \/ PushWrite \/ PushStore \/ \E v \in Values : PushBegin(v)
  \/ PopNone \/ PopBegin \/ PopMove \/ PopStore

RingSpec == RingInit /\ [][RingNext]_ringVars
-----------------------------------------------------------------------------
(* What is between head_ and tail_; the first may already be moved out. *)
Held == (tail - head) % Size
Contents ==
  [i \in 1 .. Held |->
     IF i = 1 /\ cpc = "store" THEN moved ELSE buffer[(head + i - 1) % Size]]

BQ == INSTANCE BoundedQueue WITH queue <- Contents, Capacity <- Size - 1

(* The ring implements a bounded queue of one task less than its size: no    *)
(* task is lost, duplicated, overtaken, or read before it is written,        *)
(* although neither side ever locks.                                         *)
RingIsQueue == BQ!Spec
=============================================================================
