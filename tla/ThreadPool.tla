----------------------------- MODULE ThreadPool -----------------------------
(***************************************************************************)
(* HncThreadPool (thread_pool/): the task queue guarded by m_task_mtx_, the *)
(* worker threads of both modes, submit_task, start and the destructor.     *)
(*                                                                          *)
(* A section of code that runs while m_task_mtx_ is held is one action.     *)
(* What the code does outside the lock is an action of its own: the store   *)
(* to m_running_ in the destructor, the updates of m_idle_size_ around a    *)
(* task, the steps of start(), the expiry of a timed wait.                  *)
(*                                                                          *)
(* A worker is an operating-system thread (an element of Workers).  The map *)
(* m_threads_ holds HncThread objects by thread id; each call of            *)
(* HncThread::start() detaches one more worker that carries that id.        *)
(*                                                                          *)
(* NotifyOneLost, NotifyExitForgotten, HasRoomOffByOne, GetTaskNewestFirst, *)
(* GetTaskCountedTwice, ReclaimAnyThread, ReclaimStaysIdle and              *)
(* ExitPredicateIgnored are seeded faults that show what the properties     *)
(* detect; Next uses none of them.                                          *)
(***************************************************************************)
EXTENDS Integers, Sequences, FiniteSets

CONSTANTS
  Mode,           \* m_mode_: "FIXED" or "CACHED"
  InitSize,       \* m_init_size_
  TaskHolds,      \* values m_thresh_hold_task_size_ may be given
  Starts,         \* how often the owner calls start() before using the pool
  Workers,        \* bound: the threads the run may create
  Clients,        \* threads that call submit_task
  Tasks,          \* the tasks they may submit
  NoTask

ASSUME PoolAssumption ==
  /\ Mode \in {"FIXED", "CACHED"}
  /\ InitSize \in Nat
  /\ TaskHolds \subseteq Nat /\ TaskHolds # {}
  /\ Starts \in Nat
  /\ NoTask \notin Tasks

VARIABLES
  m_threads,      \* m_threads_: the ids in the map
  generateId,     \* HncThread::m_generateId_
  m_cur_size,     \* m_cur_size_
  m_idle_size,    \* m_idle_size_
  m_running,      \* m_running_
  m_task_que,     \* m_task_que_
  m_task_size,    \* m_task_size_
  m_task_hold,    \* m_thresh_hold_task_size_
  pc,             \* where each worker is (see WorkerStates)
  tid,            \* the id a worker was started with, 0 before
  held,           \* the task a worker has taken and not finished
  blocked,        \* the task a client is waiting to enqueue, or NoTask
  future,         \* the state of the future of each task
  owner,          \* where the thread that owns the pool is
  starts,         \* calls of start() so far
  toSpawn         \* ids whose HncThread the current start() still has to start

queueVars  == <<m_task_que, m_task_size>>
workerVars == <<pc, tid, held>>
ownerVars  == <<owner, starts, toSpawn>>
sizeVars   == <<m_threads, generateId, m_cur_size>>
vars == <<m_threads, generateId, m_cur_size, m_idle_size, m_running, m_task_que,
          m_task_size, m_task_hold, pc, tid, held, blocked, future, owner,
          starts, toSpawn>>

WorkerStates ==
  {"none",      \* not created
   "lock",      \* about to take m_task_mtx_ and evaluate the loop condition
   "wait",      \* in m_cond_not_empty_.wait / wait_for
   "woken",     \* has left that wait, about to take m_task_mtx_ again
   "got",       \* has taken a task and released the lock
   "run",       \* in task()
   "ran",       \* task() has returned
   "exited"}    \* the thread function has returned

OwnerStates ==
  {"built", "spawning", "ready",
   "stopping",  \* destructor: m_running_ is false, the lock not yet taken
   "waitExit",  \* in m_cond_exit_.wait
   "wokenExit", \* notified there, about to evaluate the predicate
   "destroyed"}

FutureStates ==
  {"none", "waiting", "pending", "ready",
   "broken"}    \* the packaged_task was dropped without having been run

Live(w)  == pc[w] \notin {"none", "exited"}
Waiters  == {w \in Workers : pc[w] = "wait"}
Carried  == {held[w] : w \in Workers} \ {NoTask}
-----------------------------------------------------------------------------
(* The constructor. *)
Init ==
  /\ m_threads = {}
  /\ generateId = 0
  /\ m_cur_size = InitSize
  /\ m_idle_size = 0
  /\ m_running = FALSE
  /\ m_task_que = <<>>
  /\ m_task_size = 0
  /\ m_task_hold \in TaskHolds
  /\ pc = [w \in Workers |-> "none"]
  /\ tid = [w \in Workers |-> 0]
  /\ held = [w \in Workers |-> NoTask]
  /\ blocked = [c \in Clients |-> NoTask]
  /\ future = [t \in Tasks |-> "none"]
  /\ owner = "built"
  /\ starts = 0
  /\ toSpawn = {}
-----------------------------------------------------------------------------
(* std::condition_variable (external).  notify_one wakes one waiter if there *)
(* is one, notify_all every waiter; each yields the new pc of the workers.   *)
NotifyOneLost == {pc}
NotifyOne ==
  IF Waiters = {} THEN {pc} ELSE {[pc EXCEPT ![w] = "woken"] : w \in Waiters}

NotifyAll == [w \in Workers |-> IF pc[w] = "wait" THEN "woken" ELSE pc[w]]

NotifyExitForgotten == owner
NotifyExit == IF owner = "waitExit" THEN "wokenExit" ELSE owner

SpuriousWake(w) ==
  /\ pc[w] = "wait"
  /\ pc' = [pc EXCEPT ![w] = "woken"]
  /\ UNCHANGED <<m_threads, generateId, m_cur_size, m_idle_size, m_running,
                 queueVars, m_task_hold, tid, held, blocked, future, ownerVars>>
-----------------------------------------------------------------------------
(* The owner before use: set_task_thresh_hold and start().  start() enters   *)
(* InitSize new ids into the map, sets m_running_, and then starts every     *)
(* HncThread that is in the map.                                             *)
SetTaskThreshHold(n) ==
  /\ owner \in {"built", "ready"}
  /\ ~m_running
  /\ m_task_hold' = n
  /\ UNCHANGED <<sizeVars, m_idle_size, m_running, queueVars, workerVars,
                 blocked, future, ownerVars>>

StartRegister ==
  /\ owner \in {"built", "ready"}
  /\ starts < Starts
  /\ m_threads' = m_threads \cup (generateId + 1 .. generateId + InitSize)
  /\ generateId' = generateId + InitSize
  /\ m_running' = TRUE
  /\ toSpawn' = m_threads'
  /\ owner' = "spawning"
  /\ starts' = starts + 1
  /\ UNCHANGED <<m_cur_size, m_idle_size, queueVars, m_task_hold, workerVars,
                 blocked, future>>

(* HncThread::start(): a detached thread w runs with the object's id. *)
ThreadStart(w, i, pcs) ==
  /\ pc[w] = "none"
  /\ tid' = [tid EXCEPT ![w] = i]
  /\ pc' = [pcs EXCEPT ![w] = "lock"]

StartOne(i, w) ==
  /\ owner = "spawning"
  /\ i \in toSpawn
  /\ toSpawn' = toSpawn \ {i}
  /\ ThreadStart(w, i, pc)
  /\ UNCHANGED <<sizeVars, m_idle_size, m_running, queueVars, m_task_hold, held,
                 blocked, future, owner, starts>>

StartDone ==
  /\ owner = "spawning"
  /\ toSpawn = {}
  /\ m_idle_size' = InitSize
  /\ owner' = "ready"
  /\ UNCHANGED <<sizeVars, m_running, queueVars, m_task_hold, workerVars,
                 blocked, future, starts, toSpawn>>
-----------------------------------------------------------------------------
(* submit_task, in both its overloads.                                       *)
HasRoomOffByOne == m_task_size <= m_task_hold
HasRoom == m_task_size < m_task_hold

MustGrow ==
  /\ Mode = "CACHED"
  /\ m_task_size + 1 > m_idle_size
  /\ m_cur_size < m_task_hold

(* A new HncThread enters the map and its thread w starts. *)
Grow(w, woken) ==
  /\ generateId' = generateId + 1
  /\ m_threads' = m_threads \cup {generateId + 1}
  /\ ThreadStart(w, generateId + 1, woken)
  /\ m_cur_size' = m_cur_size + 1
  /\ m_idle_size' = m_idle_size + 1

KeepSize(woken) ==
  /\ pc' = woken
  /\ UNCHANGED <<m_threads, generateId, m_cur_size, m_idle_size, tid>>

(* The queue has room: the task is appended, one waiting worker notified,    *)
(* and in CACHED mode a worker may be created for it.                        *)
Enqueue(t) ==
  /\ m_task_que' = Append(m_task_que, t)
  /\ m_task_size' = m_task_size + 1
  /\ future' = [future EXCEPT ![t] = "pending"]
  /\ \E woken \in NotifyOne :
       \/ MustGrow /\ \E w \in Workers : Grow(w, woken)
       \/ ~MustGrow /\ KeepSize(woken)
  /\ UNCHANGED <<m_running, m_task_hold, held, ownerVars>>

Submit(c, t) ==
  /\ owner = "ready" /\ starts = Starts
  /\ blocked[c] = NoTask
  /\ future[t] = "none"
  /\ \/ /\ HasRoom
        /\ Enqueue(t)
        /\ UNCHANGED blocked
     \/ /\ ~HasRoom
        /\ blocked' = [blocked EXCEPT ![c] = t]
        /\ future' = [future EXCEPT ![t] = "waiting"]
        /\ UNCHANGED <<sizeVars, m_idle_size, m_running, queueVars, m_task_hold,
                       workerVars, ownerVars>>

(* Nothing ever notifies m_cond_not_full_: a client leaves the wait_for when *)
(* its second has passed (or spuriously).  The predicate is evaluated then;  *)
(* when it is false the future handed out is that of a packaged_task that    *)
(* is destroyed without having been run.                                     *)
SubmitWake(c) ==
  /\ blocked[c] # NoTask
  /\ blocked' = [blocked EXCEPT ![c] = NoTask]
  /\ \/ HasRoom /\ Enqueue(blocked[c])
     \/ /\ ~HasRoom
        /\ future' = [future EXCEPT ![blocked[c]] = "broken"]
        /\ UNCHANGED <<sizeVars, m_idle_size, m_running, queueVars, m_task_hold,
                       workerVars, ownerVars>>
-----------------------------------------------------------------------------
(* m_fixed_func and m_cached_func: the loop under m_task_mtx_.               *)

(* m_get_task: the old value fetch_sub returns is never 0 here, so every     *)
(* worker that takes a task notifies all the others.                         *)
GetTaskNewestFirst(w) ==
  /\ m_task_size # 0
  /\ held' = [held EXCEPT ![w] = m_task_que[Len(m_task_que)]]
  /\ m_task_que' = SubSeq(m_task_que, 1, Len(m_task_que) - 1)
  /\ m_task_size' = m_task_size - 1
  /\ pc' = [NotifyAll EXCEPT ![w] = "got"]
  /\ UNCHANGED <<sizeVars, m_idle_size, m_running, m_task_hold, tid, blocked,
                 future, ownerVars>>

GetTaskCountedTwice(w) ==
  /\ m_task_size # 0
  /\ held' = [held EXCEPT ![w] = Head(m_task_que)]
  /\ m_task_que' = Tail(m_task_que)
  /\ m_task_size' = m_task_size - 2
  /\ pc' = [NotifyAll EXCEPT ![w] = "got"]
  /\ UNCHANGED <<sizeVars, m_idle_size, m_running, m_task_hold, tid, blocked,
                 future, ownerVars>>

GetTask(w) ==
  /\ m_task_size # 0
  /\ held' = [held EXCEPT ![w] = Head(m_task_que)]
  /\ m_task_que' = Tail(m_task_que)
  /\ m_task_size' = m_task_size - 1
  /\ pc' = [NotifyAll EXCEPT ![w] = "got"]
  /\ UNCHANGED <<sizeVars, m_idle_size, m_running, m_task_hold, tid, blocked,
                 future, ownerVars>>

Exit(w) ==
  /\ m_task_size = 0
  /\ ~m_running
  /\ m_threads' = m_threads \ {tid[w]}
  /\ owner' = IF m_threads' = {} THEN NotifyExit ELSE owner
  /\ pc' = [pc EXCEPT ![w] = "exited"]
  /\ UNCHANGED <<generateId, m_cur_size, m_idle_size, m_running, queueVars,
                 m_task_hold, tid, held, blocked, future, starts, toSpawn>>

Block(w) ==
  /\ m_task_size = 0
  /\ m_running
  /\ pc' = [pc EXCEPT ![w] = "wait"]
  /\ UNCHANGED <<sizeVars, m_idle_size, m_running, queueVars, m_task_hold, tid,
                 held, blocked, future, ownerVars>>

Loop(w) == GetTask(w) \/ Exit(w) \/ Block(w)

Fetch(w) ==
  /\ pc[w] = "lock"
  /\ Loop(w)

(* CACHED mode: the wait is bounded by one second.                           *)
WaitTimeout(w) ==
  /\ Mode = "CACHED"
  /\ pc[w] = "wait"
  /\ pc' = [pc EXCEPT ![w] = "woken"]
  /\ UNCHANGED <<sizeVars, m_idle_size, m_running, queueVars, m_task_hold, tid,
                 held, blocked, future, ownerVars>>

ReclaimAnyThread(w) ==
  /\ m_threads' = m_threads \ {tid[w]}
  /\ m_cur_size' = m_cur_size - 1
  /\ m_idle_size' = m_idle_size - 1
  /\ pc' = [pc EXCEPT ![w] = "exited"]
  /\ UNCHANGED <<generateId, m_running, queueVars, m_task_hold, tid, held,
                 blocked, future, ownerVars>>

ReclaimStaysIdle(w) ==
  /\ m_cur_size > InitSize
  /\ m_threads' = m_threads \ {tid[w]}
  /\ m_cur_size' = m_cur_size - 1
  /\ pc' = [pc EXCEPT ![w] = "exited"]
  /\ UNCHANGED <<generateId, m_idle_size, m_running, queueVars, m_task_hold, tid,
                 held, blocked, future, ownerVars>>

Reclaim(w) ==
  /\ m_cur_size > InitSize
  /\ m_threads' = m_threads \ {tid[w]}
  /\ m_cur_size' = m_cur_size - 1
  /\ m_idle_size' = m_idle_size - 1
  /\ pc' = [pc EXCEPT ![w] = "exited"]
  /\ UNCHANGED <<generateId, m_running, queueVars, m_task_hold, tid, held,
                 blocked, future, ownerVars>>

(* Back from the wait.  wait_for has no predicate and reports a timeout by    *)
(* the clock, so whatever woke the worker, a notification included, it may   *)
(* find its second over; when it has been idle for THREAD_IDLE_TIME and the  *)
(* pool has grown it leaves without a look at the queue.  How late it is and *)
(* how long it has been idle are left open.                                  *)
Woken(w) ==
  /\ pc[w] = "woken"
  /\ Loop(w) \/ (Mode = "CACHED" /\ Reclaim(w))

(* Outside the lock: the idle count is taken down, the task runs and fills   *)
(* its future, the idle count goes up again.  FIXED mode leaves it alone.    *)
AddIdle(n) ==
  m_idle_size' = IF Mode = "CACHED" THEN m_idle_size + n ELSE m_idle_size

BeginTask(w) ==
  /\ pc[w] = "got"
  /\ pc' = [pc EXCEPT ![w] = "run"]
  /\ AddIdle(-1)
  /\ UNCHANGED <<sizeVars, m_running, queueVars, m_task_hold, tid, held,
                 blocked, future, ownerVars>>

RunTask(w) ==
  /\ pc[w] = "run"
  /\ pc' = [pc EXCEPT ![w] = "ran"]
  /\ held' = [held EXCEPT ![w] = NoTask]
  /\ future' = [future EXCEPT ![held[w]] = "ready"]
  /\ UNCHANGED <<sizeVars, m_idle_size, m_running, queueVars, m_task_hold, tid,
                 blocked, ownerVars>>

EndTask(w) ==
  /\ pc[w] = "ran"
  /\ pc' = [pc EXCEPT ![w] = "lock"]
  /\ AddIdle(1)
  /\ UNCHANGED <<sizeVars, m_running, queueVars, m_task_hold, tid, held,
                 blocked, future, ownerVars>>
-----------------------------------------------------------------------------
(* The destructor runs when the last user has let go of the pool, so no      *)
(* submit_task is in progress.                                               *)
DestroyStore ==
  /\ owner \in {"built", "ready"}
  /\ \A c \in Clients : blocked[c] = NoTask
  /\ m_running' = FALSE
  /\ owner' = "stopping"
  /\ UNCHANGED <<sizeVars, m_idle_size, queueVars, m_task_hold, workerVars,
                 blocked, future, starts, toSpawn>>

ExitPredicateIgnored == "destroyed"
ExitPredicate == IF m_threads = {} THEN "destroyed" ELSE "waitExit"

DestroyLock ==
  /\ owner = "stopping"
  /\ pc' = NotifyAll
  /\ owner' = ExitPredicate
  /\ UNCHANGED <<sizeVars, m_idle_size, m_running, queueVars, m_task_hold, tid,
                 held, blocked, future, starts, toSpawn>>

DestroyWake ==
  /\ owner = "wokenExit"
  /\ owner' = ExitPredicate
  /\ UNCHANGED <<sizeVars, m_idle_size, m_running, queueVars, m_task_hold,
                 workerVars, blocked, future, starts, toSpawn>>

SpuriousExitWake ==
  /\ owner = "waitExit"
  /\ owner' = "wokenExit"
  /\ UNCHANGED <<sizeVars, m_idle_size, m_running, queueVars, m_task_hold,
                 workerVars, blocked, future, starts, toSpawn>>

(* The pool is gone and every worker has returned. *)
Terminated ==
  /\ owner = "destroyed"
  /\ \A w \in Workers : ~Live(w)
  /\ UNCHANGED vars
-----------------------------------------------------------------------------
ClientNext == \E c \in Clients : SubmitWake(c) \/ \E t \in Tasks : Submit(c, t)

WorkerNext(w) ==
  \/ Fetch(w)
  \/ WaitTimeout(w)
  \/ Woken(w)
  \/ BeginTask(w)
  \/ RunTask(w)
  \/ EndTask(w)
  \/ SpuriousWake(w)

StartNext ==
  \/ \E n \in TaskHolds : SetTaskThreshHold(n)
  \/ StartRegister
  \/ \E i \in toSpawn, w \in Workers : StartOne(i, w)
  \/ StartDone

DestroyNext ==
  \/ DestroyStore
  \/ DestroyLock
  \/ DestroyWake
  \/ SpuriousExitWake

Next ==
  \/ StartNext
  \/ ClientNext
  \/ \E w \in Workers : WorkerNext(w)
  \/ DestroyNext
  \/ Terminated

Spec == Init /\ [][Next]_vars

(* Threads run whenever they can: a worker between two waits, a timed wait    *)
(* that expires, a client whose second has passed, the owner inside start()  *)
(* or the destructor.  Nobody has to submit, to destroy, or to wake without  *)
(* a reason, so those actions carry no fairness.                             *)
Fairness ==
  /\ WF_vars(\E i \in toSpawn, w \in Workers : StartOne(i, w))
  /\ WF_vars(StartDone)
  /\ \A c \in Clients : WF_vars(SubmitWake(c))
  /\ \A w \in Workers :
       /\ WF_vars(Fetch(w))
       /\ WF_vars(WaitTimeout(w))
       /\ WF_vars(Woken(w))
       /\ WF_vars(BeginTask(w))
       /\ WF_vars(RunTask(w))
       /\ WF_vars(EndTask(w))
  /\ WF_vars(DestroyLock)
  /\ WF_vars(DestroyWake)

FairSpec == Spec /\ Fairness
-----------------------------------------------------------------------------
(* Every variable of the pool has the type its declaration gives it. *)
TypeOK ==
  /\ m_threads \subseteq Nat
  /\ generateId \in Nat
  /\ m_cur_size \in Nat
  /\ m_idle_size \in Int
  /\ m_running \in BOOLEAN
  /\ m_task_que \in Seq(Tasks)
  /\ m_task_size \in Nat
  /\ m_task_hold \in TaskHolds
  /\ pc \in [Workers -> WorkerStates]
  /\ tid \in [Workers -> Nat]
  /\ held \in [Workers -> Tasks \cup {NoTask}]
  /\ blocked \in [Clients -> Tasks \cup {NoTask}]
  /\ future \in [Tasks -> FutureStates]
  /\ owner \in OwnerStates
  /\ starts \in Nat
  /\ toSpawn \subseteq Nat

(* The queue never holds more than m_thresh_hold_task_size_ tasks, however   *)
(* many clients come out of the one-second wait of submit_task together, and *)
(* m_task_size_ is always the length of the queue that m_get_task reads.     *)
QueueBounded ==
  /\ m_task_size = Len(m_task_que)
  /\ m_task_size <= m_task_hold

(* Once the destructor of the pool has returned, no worker is left that      *)
(* could still use the pool's lock, queue or map (~HncThreadPool waits for   *)
(* m_threads_ to become empty).                                              *)
SafeDestroy == owner = "destroyed" => \A w \in Workers : ~Live(w)

(* A task is queued and no worker is on its way to the queue. *)
Stranded == m_task_que # <<>> /\ \A w \in Workers : ~Live(w) \/ pc[w] = "wait"

(* No wakeup is lost, whatever notify_one hit, with one exception: a worker  *)
(* that was notified and returns past its deadline is reclaimed              *)
(* (m_cur_size_ goes down) and takes the notification with it.  Nothing else *)
(* leaves a queued task with every worker asleep.                            *)
NoStrandedTask ==
  [][Stranded' => Stranded \/ m_cur_size' < m_cur_size]_vars

(* While the pool runs, m_cur_size_ is the number of threads in the map and  *)
(* m_idle_size_ the number of workers that are not inside a task, although   *)
(* both are updated on several paths and m_idle_size_ outside the lock.  In  *)
(* particular neither unsigned counter wraps.                                *)
SizesExact ==
  owner = "ready" =>
    /\ m_cur_size = Cardinality(m_threads)
    /\ m_idle_size = Cardinality({w \in Workers : Live(w) /\ pc[w] \notin {"run", "ran"}})

(* Every task submit_task has accepted is executed, a stranded one when the  *)
(* next timed wait of a CACHED worker is over.                               *)
AcceptedTaskRuns == \A t \in Tasks : future[t] = "pending" ~> future[t] = "ready"

(* The destructor returns once every worker has noticed m_running_. *)
DestructorReturns == owner = "stopping" ~> owner = "destroyed"

(* A CACHED pool drains, too: once the destructor has begun all threads      *)
(* leave the map, and the one that empties it wakes the destructor, with one *)
(* exception: a surplus thread that is reclaimed (m_cur_size_ goes down)     *)
(* notifies nobody, and as the last one it leaves the destructor waiting.    *)
LastOutNotifies ==
  /\ owner = "stopping" ~> m_threads = {}
  /\ [][owner = "waitExit" /\ m_threads # {} /\ m_threads' = {}
          => owner' = "wokenExit" \/ m_cur_size' < m_cur_size]_vars

(* The pool implements TaskService: tasks are begun in the order in which    *)
(* they were accepted, each exactly once, and the destructor returns only    *)
(* when everything accepted has been executed.                               *)
Service == INSTANCE TaskService WITH
  queue <- m_task_que,
  busy  <- Carried,
  done  <- {t \in Tasks : future[t] = "ready"},
  open  <- owner # "destroyed"

ServiceSpec == Service!Spec
=============================================================================
