-------------------------- MODULE ThreadPoolProofs --------------------------
(***************************************************************************)
(* Proofs about ThreadPool for every number of workers, clients and tasks.  *)
(***************************************************************************)
EXTENDS ThreadPool, FiniteSetTheorems, FunctionTheorems, TLAPS

(* What every critical section of submit_task does that finds room, without *)
(* the choice of the worker that is woken or created.                       *)
LEMMA NotifyOneType ==
  ASSUME TypeOK, NEW woken \in NotifyOne
  PROVE  woken \in [Workers -> WorkerStates]
  BY DEF NotifyOne, Waiters, TypeOK, WorkerStates

LEMMA NotifyAllType ==
  ASSUME TypeOK
  PROVE  NotifyAll \in [Workers -> WorkerStates]
  BY DEF NotifyAll, TypeOK, WorkerStates

LEMMA EnqueueType ==
  ASSUME TypeOK, NEW t \in Tasks, Enqueue(t),
         blocked' \in [Clients -> Tasks \cup {NoTask}]
  PROVE  TypeOK'
PROOF
  <1>1. PICK woken \in NotifyOne :
          (\E w \in Workers : Grow(w, woken)) \/ KeepSize(woken)
    BY DEF Enqueue
  <1>2. woken \in [Workers -> WorkerStates]
    BY NotifyOneType
  <1>3. /\ pc' \in [Workers -> WorkerStates]
        /\ tid' \in [Workers -> Nat]
        /\ m_threads' \subseteq Nat
        /\ generateId' \in Nat
        /\ m_cur_size' \in Nat
        /\ m_idle_size' \in Int
    <2>1. ASSUME NEW w \in Workers, Grow(w, woken)
          PROVE  <1>3!:
      BY <1>2, <2>1 DEF Grow, ThreadStart, TypeOK, WorkerStates
    <2>2. CASE KeepSize(woken)
      BY <1>2, <2>2 DEF KeepSize, TypeOK
    <2> QED
      BY <1>1, <2>1, <2>2
  <1>4. /\ m_task_que' \in Seq(Tasks)
        /\ m_task_size' \in Nat
        /\ future' \in [Tasks -> FutureStates]
    BY DEF Enqueue, TypeOK, FutureStates
  <1> QED
    BY <1>3, <1>4 DEF Enqueue, TypeOK, ownerVars

LEMMA LoopType ==
  ASSUME TypeOK, QueueBounded, NEW w \in Workers, Loop(w)
  PROVE  TypeOK'
PROOF
  <1> USE DEF sizeVars, queueVars, ownerVars
  <1>1. CASE GetTask(w)
    <2>1. m_task_que # <<>>
      BY <1>1 DEF GetTask, QueueBounded, TypeOK
    <2>2. Head(m_task_que) \in Tasks /\ Tail(m_task_que) \in Seq(Tasks)
      BY <2>1 DEF TypeOK
    <2>3. held' \in [Workers -> Tasks \cup {NoTask}]
      BY <1>1, <2>2 DEF GetTask, TypeOK
    <2>4. pc' \in [Workers -> WorkerStates]
      BY <1>1, NotifyAllType DEF GetTask, WorkerStates
    <2> QED
      BY <1>1, <2>2, <2>3, <2>4 DEF GetTask, TypeOK
  <1>2. CASE Exit(w)
    BY <1>2 DEF Exit, NotifyExit, TypeOK, WorkerStates, OwnerStates
  <1>3. CASE Block(w)
    BY <1>3 DEF Block, TypeOK, WorkerStates
  <1> QED
    BY <1>1, <1>2, <1>3 DEF Loop

(* One step of the pool keeps every variable in its type.  That m_task_size_ *)
(* is the length of the queue is needed: m_get_task reads the front of the   *)
(* queue on the strength of the counter alone.                               *)
LEMMA TypeStep ==
  ASSUME TypeOK, QueueBounded, [Next]_vars
  PROVE  TypeOK'
PROOF
  <1> USE DEF sizeVars, queueVars, workerVars, ownerVars
  <1>1. ASSUME NEW n \in TaskHolds, SetTaskThreshHold(n) PROVE TypeOK'
    BY <1>1 DEF SetTaskThreshHold, TypeOK
  <1>2. CASE StartRegister
    BY <1>2, PoolAssumption DEF StartRegister, TypeOK, OwnerStates
  <1>3. ASSUME NEW i \in toSpawn, NEW w \in Workers, StartOne(i, w) PROVE TypeOK'
    BY <1>3 DEF StartOne, ThreadStart, TypeOK, WorkerStates
  <1>4. CASE StartDone
    BY <1>4, PoolAssumption DEF StartDone, TypeOK, OwnerStates
  <1>5. ASSUME NEW c \in Clients, NEW t \in Tasks, Submit(c, t) PROVE TypeOK'
    <2>1. CASE Enqueue(t) /\ UNCHANGED blocked
      BY <2>1, EnqueueType DEF TypeOK
    <2>2. CASE /\ blocked' = [blocked EXCEPT ![c] = t]
               /\ future' = [future EXCEPT ![t] = "waiting"]
               /\ UNCHANGED <<sizeVars, m_idle_size, m_running, queueVars,
                              m_task_hold, workerVars, ownerVars>>
      BY <2>2 DEF TypeOK, FutureStates
    <2> QED
      BY <1>5, <2>1, <2>2 DEF Submit
  <1>6. ASSUME NEW c \in Clients, SubmitWake(c) PROVE TypeOK'
    <2>1. blocked[c] \in Tasks /\ blocked' \in [Clients -> Tasks \cup {NoTask}]
      BY <1>6 DEF SubmitWake, TypeOK
    <2>2. CASE Enqueue(blocked[c])
      BY <2>1, <2>2, EnqueueType
    <2>3. CASE /\ future' = [future EXCEPT ![blocked[c]] = "broken"]
               /\ UNCHANGED <<sizeVars, m_idle_size, m_running, queueVars,
                              m_task_hold, workerVars, ownerVars>>
      BY <2>1, <2>3 DEF TypeOK, FutureStates
    <2> QED
      BY <1>6, <2>2, <2>3 DEF SubmitWake
  <1>7. ASSUME NEW w \in Workers, WorkerNext(w) PROVE TypeOK'
    <2>1. CASE Fetch(w)
      BY <2>1, LoopType DEF Fetch
    <2>2. CASE WaitTimeout(w)
      BY <2>2 DEF WaitTimeout, TypeOK, WorkerStates
    <2>3. CASE Woken(w)
      <3>1. CASE Reclaim(w)
        <4>1. m_cur_size' \in Nat /\ m_idle_size' \in Int
          BY <3>1, PoolAssumption DEF Reclaim, TypeOK
        <4> QED
          BY <3>1, <4>1 DEF Reclaim, TypeOK, WorkerStates
      <3> QED
        BY <2>3, <3>1, LoopType DEF Woken
    <2>4. CASE BeginTask(w)
      BY <2>4 DEF BeginTask, AddIdle, TypeOK, WorkerStates
    <2>5. CASE RunTask(w)
      BY <2>5 DEF RunTask, TypeOK, WorkerStates, FutureStates
    <2>6. CASE EndTask(w)
      BY <2>6 DEF EndTask, AddIdle, TypeOK, WorkerStates
    <2>7. CASE SpuriousWake(w)
      BY <2>7 DEF SpuriousWake, TypeOK, WorkerStates
    <2> QED
      BY <1>7, <2>1, <2>2, <2>3, <2>4, <2>5, <2>6, <2>7 DEF WorkerNext
  <1>8. CASE DestroyNext
    <2>1. CASE DestroyStore
      BY <2>1 DEF DestroyStore, TypeOK, OwnerStates
    <2>2. CASE DestroyLock
      BY <2>2, NotifyAllType DEF DestroyLock, ExitPredicate, TypeOK, OwnerStates
    <2>3. CASE DestroyWake
      BY <2>3 DEF DestroyWake, ExitPredicate, TypeOK, OwnerStates
    <2>4. CASE SpuriousExitWake
      BY <2>4 DEF SpuriousExitWake, TypeOK, OwnerStates
    <2> QED
      BY <1>8, <2>1, <2>2, <2>3, <2>4 DEF DestroyNext
  <1>9. CASE UNCHANGED vars
    BY <1>9 DEF vars, TypeOK
  <1> QED
    BY <1>1, <1>2, <1>3, <1>4, <1>5, <1>6, <1>7, <1>8, <1>9
    DEF Next, StartNext, ClientNext, Terminated
-----------------------------------------------------------------------------
(* What ties the queue to the life of the pool: set_task_thresh_hold can     *)
(* lower the limit only while nothing is queued.                             *)
OwnerInv ==
  /\ owner = "built" => m_task_que = <<>>
  /\ owner # "ready" \/ starts # Starts => \A c \in Clients : blocked[c] = NoTask
  /\ owner \in {"spawning", "ready"} => m_running

LEMMA EnqueueQueue ==
  ASSUME TypeOK, QueueBounded, NEW t \in Tasks, HasRoom, Enqueue(t)
  PROVE  QueueBounded'
  BY PoolAssumption DEF Enqueue, HasRoom, QueueBounded, TypeOK

LEMMA LoopQueue ==
  ASSUME TypeOK, QueueBounded, OwnerInv, NEW w \in Workers, Loop(w)
  PROVE  QueueBounded' /\ OwnerInv'
PROOF
  <1> USE DEF sizeVars, queueVars, ownerVars
  <1>1. CASE GetTask(w)
    <2>1. m_task_que # <<>>
      BY <1>1 DEF GetTask, QueueBounded, TypeOK
    <2>2. QueueBounded'
      BY <1>1, <2>1, PoolAssumption DEF GetTask, QueueBounded, TypeOK
    <2>3. OwnerInv'
      BY <1>1, <2>1 DEF GetTask, OwnerInv
    <2> QED
      BY <2>2, <2>3
  <1>2. CASE Exit(w)
    BY <1>2 DEF Exit, NotifyExit, QueueBounded, OwnerInv
  <1>3. CASE Block(w)
    BY <1>3 DEF Block, QueueBounded, OwnerInv
  <1> QED
    BY <1>1, <1>2, <1>3 DEF Loop

LEMMA QueueStep ==
  ASSUME TypeOK, QueueBounded, OwnerInv, [Next]_vars
  PROVE  QueueBounded' /\ OwnerInv'
PROOF
  <1> USE DEF sizeVars, queueVars, workerVars, ownerVars
  <1>1. ASSUME NEW n \in TaskHolds, SetTaskThreshHold(n)
        PROVE  QueueBounded' /\ OwnerInv'
    <2>1. owner = "built" /\ m_task_que = <<>>
      BY <1>1 DEF SetTaskThreshHold, OwnerInv
    <2>2. m_task_size = 0 /\ n >= 0
      BY <2>1, PoolAssumption DEF QueueBounded
    <2>3. QueueBounded'
      BY <1>1, <2>2 DEF SetTaskThreshHold, QueueBounded
    <2>4. OwnerInv'
      BY <1>1 DEF SetTaskThreshHold, OwnerInv
    <2> QED
      BY <2>3, <2>4
  <1>2. CASE StartRegister
    <2>1. starts # Starts
      BY <1>2, PoolAssumption DEF StartRegister, TypeOK
    <2> QED
      BY <1>2, <2>1 DEF StartRegister, QueueBounded, OwnerInv
  <1>3. ASSUME NEW i \in toSpawn, NEW w \in Workers, StartOne(i, w)
        PROVE  QueueBounded' /\ OwnerInv'
    BY <1>3 DEF StartOne, QueueBounded, OwnerInv
  <1>4. CASE StartDone
    BY <1>4 DEF StartDone, QueueBounded, OwnerInv
  <1>5. ASSUME NEW c \in Clients, NEW t \in Tasks, Submit(c, t)
        PROVE  QueueBounded' /\ OwnerInv'
    <2>1. OwnerInv'
      BY <1>5 DEF Submit, Enqueue, OwnerInv
    <2>2. QueueBounded'
      BY <1>5, EnqueueQueue DEF Submit, QueueBounded
    <2> QED
      BY <2>1, <2>2
  <1>6. ASSUME NEW c \in Clients, SubmitWake(c)
        PROVE  QueueBounded' /\ OwnerInv'
    <2>1. blocked[c] \in Tasks /\ owner = "ready" /\ starts = Starts
      BY <1>6 DEF SubmitWake, TypeOK, OwnerInv
    <2>2. UNCHANGED <<owner, starts, m_running>>
      BY <1>6 DEF SubmitWake, Enqueue
    <2>4. OwnerInv'
      BY <2>1, <2>2 DEF OwnerInv
    <2>3. QueueBounded'
      BY <1>6, <2>1, EnqueueQueue DEF SubmitWake, QueueBounded
    <2> QED
      BY <2>3, <2>4
  <1>7. ASSUME NEW w \in Workers, WorkerNext(w)
        PROVE  QueueBounded' /\ OwnerInv'
    <2>1. CASE Fetch(w) \/ Woken(w)
      BY <2>1, LoopQueue DEF Fetch, Woken, Reclaim, QueueBounded, OwnerInv
    <2>2. CASE \/ WaitTimeout(w) \/ BeginTask(w) \/ RunTask(w)
               \/ EndTask(w) \/ SpuriousWake(w)
      BY <2>2 DEF WaitTimeout, BeginTask, RunTask, EndTask, SpuriousWake,
                  QueueBounded, OwnerInv
    <2> QED
      BY <1>7, <2>1, <2>2 DEF WorkerNext
  <1>8. CASE DestroyNext
    BY <1>8 DEF DestroyNext, DestroyStore, DestroyLock, DestroyWake,
                SpuriousExitWake, ExitPredicate, QueueBounded, OwnerInv
  <1>9. CASE UNCHANGED vars
    BY <1>9 DEF vars, QueueBounded, OwnerInv
  <1> QED
    BY <1>1, <1>2, <1>3, <1>4, <1>5, <1>6, <1>7, <1>8, <1>9
    DEF Next, StartNext, ClientNext, Terminated

LEMMA InitQueue == Init => TypeOK /\ QueueBounded /\ OwnerInv
PROOF
  <1> SUFFICES ASSUME Init PROVE TypeOK /\ QueueBounded /\ OwnerInv
    OBVIOUS
  <1>1. TypeOK
    <2>1. /\ pc \in [Workers -> WorkerStates]
          /\ tid \in [Workers -> Nat]
          /\ held \in [Workers -> Tasks \cup {NoTask}]
          /\ blocked \in [Clients -> Tasks \cup {NoTask}]
          /\ future \in [Tasks -> FutureStates]
      BY DEF Init, WorkerStates, FutureStates
    <2>2. m_task_que \in Seq(Tasks)
      BY DEF Init
    <2>5. m_running \in BOOLEAN
      BY Zenon DEF Init
    <2>3. /\ m_threads \subseteq Nat /\ generateId \in Nat
          /\ m_cur_size \in Nat /\ m_idle_size \in Int /\ m_task_size \in Nat
          /\ m_task_hold \in TaskHolds
          /\ starts \in Nat /\ toSpawn \subseteq Nat
      BY PoolAssumption DEF Init
    <2>4. owner \in OwnerStates
      BY DEF Init, OwnerStates
    <2> QED
      BY <2>1, <2>2, <2>3, <2>4, <2>5 DEF TypeOK
  <1>2. QueueBounded /\ OwnerInv
    BY PoolAssumption DEF Init, QueueBounded, OwnerInv
  <1> QED
    BY <1>1, <1>2

(* Type correctness and the bound on the queue need each other, so they are *)
(* proved together: every variable keeps its type, m_task_size_ stays equal  *)
(* to the length of the queue, and the queue stays within                    *)
(* m_thresh_hold_task_size_ however submit_task, the workers and the         *)
(* destructor interleave.                                                    *)
THEOREM QueueSafe == Spec => [](TypeOK /\ QueueBounded /\ OwnerInv)
PROOF
  <1>1. Init => TypeOK /\ QueueBounded /\ OwnerInv
    BY InitQueue
  <1>2. TypeOK /\ QueueBounded /\ OwnerInv /\ [Next]_vars
          => (TypeOK /\ QueueBounded /\ OwnerInv)'
    BY TypeStep, QueueStep
  <1> QED
    BY <1>1, <1>2, PTL DEF Spec

(* Every variable keeps its type, and m_task_size_ is the length of the      *)
(* queue after every step, however often start() is called.                  *)
THEOREM PoolTypes == Spec => []TypeOK
  BY QueueSafe, PTL
-----------------------------------------------------------------------------
(* A pool that is started at most once: the ids in m_threads_ that start()   *)
(* has dealt with are exactly the ids of the live workers, one worker each.  *)
IdInv ==
  /\ m_threads \subseteq 1 .. generateId
  /\ toSpawn \subseteq m_threads
  /\ \A w \in Workers : Live(w) => tid[w] \in m_threads \ toSpawn
  /\ \A v, w \in Workers : Live(v) /\ Live(w) /\ tid[v] = tid[w] => v = w
  /\ \A i \in m_threads \ toSpawn : \E w \in Workers : Live(w) /\ tid[w] = i

PhaseInv ==
  /\ owner # "spawning" => toSpawn = {}
  /\ owner = "built" => m_threads = {} /\ starts = 0
  /\ owner \in {"spawning", "ready"} => starts >= 1
  /\ owner = "destroyed" => m_threads = {}
  /\ owner \in {"built", "spawning"} => m_task_que = <<>>

LEMMA SameThreads ==
  ASSUME IdInv, UNCHANGED <<m_threads, generateId, tid, toSpawn>>,
         \A w \in Workers : Live(w)' <=> Live(w)
  PROVE  IdInv'
  BY DEF IdInv

LEMMA NotifyOneLive ==
  ASSUME TypeOK, NEW woken \in NotifyOne
  PROVE  \A w \in Workers : woken[w] \notin {"none", "exited"} <=> Live(w)
  BY DEF NotifyOne, Waiters, TypeOK, Live

LEMMA NotifyAllLive ==
  ASSUME TypeOK
  PROVE  \A w \in Workers : NotifyAll[w] \notin {"none", "exited"} <=> Live(w)
  BY DEF NotifyAll, TypeOK, Live

(* A fresh id goes to a fresh worker. *)
LEMMA AddThread ==
  ASSUME TypeOK, IdInv, NEW v \in Workers, NEW i \in Nat,
         ~Live(v), Live(v)', tid' = [tid EXCEPT ![v] = i],
         \A w \in Workers \ {v} : Live(w)' <=> Live(w),
         m_threads' \subseteq 1 .. generateId',
         toSpawn' \subseteq m_threads',
         m_threads' \ toSpawn' = (m_threads \ toSpawn) \cup {i},
         i \notin m_threads \ toSpawn
  PROVE  IdInv'
PROOF
  <1>1. tid'[v] = i /\ \A w \in Workers \ {v} : tid'[w] = tid[w]
    BY DEF TypeOK
  <1>2. \A w \in Workers : Live(w)' => tid'[w] \in m_threads' \ toSpawn'
    BY <1>1 DEF IdInv
  <1>3. \A u, w \in Workers : Live(u)' /\ Live(w)' /\ tid'[u] = tid'[w] => u = w
    BY <1>1 DEF IdInv
  <1>4. \A j \in m_threads' \ toSpawn' : \E w \in Workers : Live(w)' /\ tid'[w] = j
    <2>1. SUFFICES ASSUME NEW j \in m_threads' \ toSpawn'
                   PROVE  \E w \in Workers : Live(w)' /\ tid'[w] = j
      OBVIOUS
    <2>2. CASE j = i
      BY <1>1, <2>2
    <2>3. CASE j \in m_threads \ toSpawn
      <3>1. PICK w \in Workers : Live(w) /\ tid[w] = j
        BY <2>3 DEF IdInv
      <3> QED
        BY <1>1, <3>1
    <2> QED
      BY <2>2, <2>3
  <1> QED
    BY <1>2, <1>3, <1>4 DEF IdInv

(* A worker that returns takes its id with it. *)
LEMMA DropThread ==
  ASSUME TypeOK, IdInv, NEW v \in Workers,
         Live(v), ~(Live(v)'), UNCHANGED <<generateId, tid, toSpawn>>,
         \A w \in Workers \ {v} : Live(w)' <=> Live(w),
         m_threads' = m_threads \ {tid[v]}
  PROVE  IdInv'
PROOF
  <1>1. tid[v] \notin toSpawn
    BY DEF IdInv
  <1>2. \A w \in Workers : Live(w)' => tid[w] \in m_threads' \ toSpawn
    BY DEF IdInv
  <1>3. \A i \in m_threads' \ toSpawn : \E w \in Workers : Live(w)' /\ tid[w] = i
    BY DEF IdInv
  <1>4. \A u, w \in Workers : Live(u)' /\ Live(w)' /\ tid[u] = tid[w] => u = w
    BY DEF IdInv
  <1> QED
    BY <1>1, <1>2, <1>3, <1>4 DEF IdInv

LEMMA EnqueueIds ==
  ASSUME TypeOK, IdInv, NEW t \in Tasks, Enqueue(t)
  PROVE  IdInv'
PROOF
  <1>1. PICK woken \in NotifyOne :
          (\E w \in Workers : Grow(w, woken)) \/ KeepSize(woken)
    BY DEF Enqueue
  <1>2. woken \in [Workers -> WorkerStates]
    BY NotifyOneType
  <1>3. \A w \in Workers : woken[w] \notin {"none", "exited"} <=> Live(w)
    BY NotifyOneLive
  <1>4. toSpawn' = toSpawn
    BY DEF Enqueue, ownerVars
  <1>5. ASSUME NEW w \in Workers, Grow(w, woken)
        PROVE  IdInv'
    <2>1. ~Live(w) /\ Live(w)' /\ \A v \in Workers \ {w} : Live(v)' <=> Live(v)
      BY <1>2, <1>3, <1>5 DEF Grow, ThreadStart, Live
    <2>2. generateId + 1 \in Nat /\ generateId + 1 \notin m_threads
      BY DEF TypeOK, IdInv
    <2>3. /\ m_threads' \subseteq 1 .. generateId'
          /\ toSpawn' \subseteq m_threads'
          /\ m_threads' \ toSpawn' = (m_threads \ toSpawn) \cup {generateId + 1}
      BY <1>4, <1>5, <2>2 DEF Grow, TypeOK, IdInv
    <2>4. tid' = [tid EXCEPT ![w] = generateId + 1]
      BY <1>5 DEF Grow, ThreadStart
    <2> QED
      BY <2>1, <2>2, <2>3, <2>4, AddThread
  <1>6. CASE KeepSize(woken)
    <2>1. \A w \in Workers : Live(w)' <=> Live(w)
      BY <1>3, <1>6 DEF KeepSize, Live
    <2> QED
      BY <1>4, <1>6, <2>1, SameThreads DEF KeepSize
  <1> QED
    BY <1>1, <1>5, <1>6

LEMMA LoopIds ==
  ASSUME TypeOK, IdInv, NEW w \in Workers, Live(w), Loop(w)
  PROVE  IdInv'
PROOF
  <1> USE DEF sizeVars, queueVars, ownerVars
  <1>1. CASE GetTask(w)
    <2>1. \A v \in Workers : Live(v)' <=> Live(v)
      BY <1>1, NotifyAllType, NotifyAllLive DEF GetTask, Live
    <2> QED
      BY <1>1, <2>1, SameThreads DEF GetTask
  <1>2. CASE Exit(w)
    <2>1. ~(Live(w)') /\ \A v \in Workers \ {w} : Live(v)' <=> Live(v)
      BY <1>2 DEF Exit, Live, TypeOK
    <2> QED
      BY <1>2, <2>1, DropThread DEF Exit
  <1>3. CASE Block(w)
    <2>1. \A v \in Workers : Live(v)' <=> Live(v)
      BY <1>3 DEF Block, Live, TypeOK
    <2> QED
      BY <1>3, <2>1, SameThreads DEF Block
  <1> QED
    BY <1>1, <1>2, <1>3 DEF Loop

(* The hypothesis that start() is called at most once is where the proof     *)
(* would fail for the pool of the timer: a second start() starts the         *)
(* HncThread objects of the first one again.                                 *)
LEMMA IdStep ==
  ASSUME Starts <= 1, TypeOK, OwnerInv, IdInv, PhaseInv, [Next]_vars
  PROVE  IdInv'
PROOF
  <1> USE DEF sizeVars, queueVars, workerVars, ownerVars
  <1>1. ASSUME NEW n \in TaskHolds, SetTaskThreshHold(n) PROVE IdInv'
    BY <1>1, SameThreads DEF SetTaskThreshHold, Live
  <1>2. CASE StartRegister
    <2>1. m_threads = {}
      <3>1. owner = "built"
        BY <1>2, PoolAssumption DEF StartRegister, PhaseInv, TypeOK
      <3> QED
        BY <3>1 DEF PhaseInv
    <2>2. m_threads' \subseteq 1 .. generateId' /\ toSpawn' = m_threads'
      BY <1>2, <2>1, PoolAssumption DEF StartRegister, TypeOK
    <2>3. \A w \in Workers : ~Live(w)
      BY <2>1 DEF IdInv
    <2>4. \A w \in Workers : ~(Live(w)')
      BY <1>2, <2>3 DEF StartRegister, Live
    <2> QED
      BY <2>2, <2>4 DEF IdInv
  <1>3. ASSUME NEW i \in toSpawn, NEW w \in Workers, StartOne(i, w) PROVE IdInv'
    <2>1. ~Live(w) /\ Live(w)' /\ \A v \in Workers \ {w} : Live(v)' <=> Live(v)
      BY <1>3 DEF StartOne, ThreadStart, Live, TypeOK
    <2>2. /\ i \in Nat /\ i \notin m_threads \ toSpawn
          /\ m_threads' \subseteq 1 .. generateId'
          /\ toSpawn' \subseteq m_threads'
          /\ m_threads' \ toSpawn' = (m_threads \ toSpawn) \cup {i}
          /\ tid' = [tid EXCEPT ![w] = i]
      BY <1>3 DEF StartOne, ThreadStart, TypeOK, IdInv
    <2> QED
      BY <2>1, <2>2, AddThread
  <1>4. CASE StartDone
    BY <1>4, SameThreads DEF StartDone, Live
  <1>5. ASSUME NEW c \in Clients, NEW t \in Tasks, Submit(c, t) PROVE IdInv'
    BY <1>5, EnqueueIds, SameThreads DEF Submit, Live
  <1>6. ASSUME NEW c \in Clients, SubmitWake(c) PROVE IdInv'
    <2>1. blocked[c] \in Tasks
      BY <1>6 DEF SubmitWake, TypeOK
    <2> QED
      BY <1>6, <2>1, EnqueueIds, SameThreads DEF SubmitWake, Live
  <1>7. ASSUME NEW w \in Workers, WorkerNext(w) PROVE IdInv'
    <2>1. CASE Fetch(w)
      BY <2>1, LoopIds DEF Fetch, Live
    <2>2. CASE Woken(w)
      <3>1. Live(w)
        BY <2>2 DEF Woken, Live
      <3>2. CASE Reclaim(w)
        <4>1. ~(Live(w)') /\ \A v \in Workers \ {w} : Live(v)' <=> Live(v)
          BY <3>2 DEF Reclaim, Live, TypeOK
        <4> QED
          BY <3>1, <3>2, <4>1, DropThread DEF Reclaim
      <3> QED
        BY <2>2, <3>1, <3>2, LoopIds DEF Woken
    <2>3. CASE \/ WaitTimeout(w) \/ BeginTask(w) \/ RunTask(w)
               \/ EndTask(w) \/ SpuriousWake(w)
      <3>1. \A v \in Workers : Live(v)' <=> Live(v)
        BY <2>3 DEF WaitTimeout, BeginTask, RunTask, EndTask, SpuriousWake,
                    Live, TypeOK
      <3>2. UNCHANGED <<m_threads, generateId, tid, toSpawn>>
        BY <2>3 DEF WaitTimeout, BeginTask, RunTask, EndTask, SpuriousWake
      <3> QED
        BY <3>1, <3>2, SameThreads
    <2> QED
      BY <1>7, <2>1, <2>2, <2>3 DEF WorkerNext
  <1>8. CASE DestroyNext
    <2>1. UNCHANGED <<m_threads, generateId, tid, toSpawn>>
      BY <1>8 DEF DestroyNext, DestroyStore, DestroyLock, DestroyWake,
                  SpuriousExitWake
    <2>2. \A v \in Workers : Live(v)' <=> Live(v)
      BY <1>8, NotifyAllLive DEF DestroyNext, DestroyStore, DestroyLock,
                  DestroyWake, SpuriousExitWake, Live
    <2> QED
      BY <2>1, <2>2, SameThreads
  <1>9. CASE UNCHANGED vars
    BY <1>9, SameThreads DEF vars, Live
  <1> QED
    BY <1>1, <1>2, <1>3, <1>4, <1>5, <1>6, <1>7, <1>8, <1>9
    DEF Next, StartNext, ClientNext, Terminated

LEMMA PhaseStep ==
  ASSUME Starts <= 1, TypeOK, QueueBounded, OwnerInv, PhaseInv, [Next]_vars
  PROVE  PhaseInv'
PROOF
  <1> USE DEF sizeVars, queueVars, workerVars, ownerVars
  <1>1. CASE StartNext
    <2>1. CASE \E n \in TaskHolds : SetTaskThreshHold(n)
      BY <2>1 DEF SetTaskThreshHold, PhaseInv
    <2>2. CASE StartRegister
      <3>1. owner = "built" /\ starts' >= 1
        BY <2>2, PoolAssumption DEF StartRegister, PhaseInv, TypeOK
      <3> QED
        BY <2>2, <3>1 DEF StartRegister, PhaseInv
    <2>3. CASE \E i \in toSpawn, w \in Workers : StartOne(i, w)
      BY <2>3 DEF StartOne, PhaseInv
    <2>4. CASE StartDone
      BY <2>4 DEF StartDone, PhaseInv
    <2> QED
      BY <1>1, <2>1, <2>2, <2>3, <2>4 DEF StartNext
  <1>2. CASE ClientNext
    <2>1. owner = "ready" /\ UNCHANGED <<owner, starts, toSpawn>>
      BY <1>2 DEF ClientNext, Submit, SubmitWake, Enqueue, OwnerInv
    <2> QED
      BY <2>1 DEF PhaseInv
  <1>3. ASSUME NEW w \in Workers, WorkerNext(w) PROVE PhaseInv'
    <2>1. /\ UNCHANGED <<starts, toSpawn>>
          /\ owner' = owner \/ (owner = "waitExit" /\ owner' = "wokenExit")
      BY <1>3 DEF WorkerNext, Fetch, Woken, Loop, GetTask, Exit, Block, Reclaim,
         WaitTimeout, BeginTask, RunTask, EndTask, SpuriousWake, NotifyExit
    <2>2. m_threads' \subseteq m_threads
      BY <1>3 DEF WorkerNext, Fetch, Woken, Loop, GetTask, Exit, Block, Reclaim,
         WaitTimeout, BeginTask, RunTask, EndTask, SpuriousWake
    <2>3. m_task_que = <<>> => m_task_que' = <<>>
      BY <1>3 DEF WorkerNext, Fetch, Woken, Loop, GetTask, Exit, Block, Reclaim,
         WaitTimeout, BeginTask, RunTask, EndTask, SpuriousWake, QueueBounded
    <2> QED
      BY <2>1, <2>2, <2>3 DEF PhaseInv
  <1>4. CASE DestroyNext
    BY <1>4 DEF DestroyNext, DestroyStore, DestroyLock, DestroyWake,
                SpuriousExitWake, ExitPredicate, PhaseInv
  <1>5. CASE UNCHANGED vars
    BY <1>5 DEF vars, PhaseInv
  <1> QED
    BY <1>1, <1>2, <1>3, <1>4, <1>5 DEF Next, Terminated

LEMMA InitThreads == Init => IdInv /\ PhaseInv
  BY PoolAssumption DEF Init, IdInv, PhaseInv, Live

LEMMA DestroyedIsEmpty ==
  ASSUME IdInv, PhaseInv
  PROVE  SafeDestroy
  BY DEF IdInv, PhaseInv, SafeDestroy

(* A pool that is started at most once is never destroyed under a worker:    *)
(* when ~HncThreadPool returns, every detached thread has left the loop that *)
(* uses the pool's members.                                                  *)
THEOREM DestroySafe ==
  ASSUME Starts <= 1
  PROVE  Spec => []SafeDestroy
PROOF
  <1>1. Init => IdInv /\ PhaseInv
    BY InitThreads
  <1>2. TypeOK /\ QueueBounded /\ OwnerInv /\ IdInv /\ PhaseInv /\ [Next]_vars
          => (IdInv /\ PhaseInv)'
    BY IdStep, PhaseStep
  <1>3. IdInv /\ PhaseInv => SafeDestroy
    BY DestroyedIsEmpty
  <1> QED
    BY <1>1, <1>2, <1>3, QueueSafe, PTL DEF Spec
-----------------------------------------------------------------------------
(* There is always a thread: while the pool is open or has work, m_cur_size_  *)
(* counts the map, and no thread leaves when it is down to m_init_size_.     *)
SizeInv ==
  /\ IsFiniteSet(m_threads)
  /\ m_cur_size >= InitSize
  /\ owner = "built" => m_cur_size = InitSize
  /\ owner \in {"spawning", "ready"} \/ m_task_que # <<>>
       => m_cur_size = Cardinality(m_threads)

LEMMA EnqueueSizes ==
  ASSUME TypeOK, IdInv, SizeInv, owner = "ready", NEW t \in Tasks, Enqueue(t)
  PROVE  SizeInv'
PROOF
  <1>1. PICK woken \in NotifyOne :
          (\E w \in Workers : Grow(w, woken)) \/ KeepSize(woken)
    BY DEF Enqueue
  <1>2. owner' = owner
    BY DEF Enqueue, ownerVars
  <1>3. ASSUME NEW w \in Workers, Grow(w, woken) PROVE SizeInv'
    <2>1. generateId + 1 \notin m_threads
      BY DEF TypeOK, IdInv
    <2>2. /\ IsFiniteSet(m_threads')
          /\ Cardinality(m_threads') = Cardinality(m_threads) + 1
      BY <1>3, <2>1, FS_AddElement DEF Grow, SizeInv
    <2> QED
      BY <1>2, <1>3, <2>2, PoolAssumption DEF Grow, SizeInv, TypeOK
  <1>4. CASE KeepSize(woken)
    BY <1>2, <1>4 DEF KeepSize, SizeInv
  <1> QED
    BY <1>1, <1>3, <1>4

LEMMA LoopSizes ==
  ASSUME TypeOK, QueueBounded, OwnerInv, SizeInv, NEW w \in Workers, Loop(w)
  PROVE  SizeInv'
PROOF
  <1> USE DEF sizeVars, queueVars, ownerVars
  <1>1. CASE GetTask(w)
    <2>1. m_task_que # <<>>
      BY <1>1 DEF GetTask, QueueBounded, TypeOK
    <2> QED
      BY <1>1, <2>1 DEF GetTask, SizeInv
  <1>2. CASE Exit(w)
    <2>1. owner \notin {"spawning", "ready"}
      BY <1>2 DEF Exit, OwnerInv
    <2>4. m_task_que' = <<>>
      <3>1. Len(m_task_que) = 0 /\ m_task_que' = m_task_que
        BY <1>2 DEF Exit, QueueBounded
      <3> QED
        BY <3>1 DEF TypeOK
    <2>2. owner' \notin {"spawning", "ready"} /\ (owner' = "built" => owner = "built")
      BY <1>2, <2>1 DEF Exit, NotifyExit
    <2>3. IsFiniteSet(m_threads')
      BY <1>2, FS_RemoveElement DEF Exit, SizeInv
    <2> QED
      BY <1>2, <2>2, <2>3, <2>4 DEF Exit, SizeInv
  <1>3. CASE Block(w)
    BY <1>3 DEF Block, SizeInv
  <1> QED
    BY <1>1, <1>2, <1>3 DEF Loop

LEMMA SizeStep ==
  ASSUME Starts <= 1, TypeOK, QueueBounded, OwnerInv, IdInv, PhaseInv, SizeInv,
         [Next]_vars
  PROVE  SizeInv'
PROOF
  <1> USE DEF sizeVars, queueVars, workerVars, ownerVars
  <1>1. CASE StartRegister
    <2>1. owner = "built"
      BY <1>1, PoolAssumption DEF StartRegister, PhaseInv, TypeOK
    <2>2. m_threads' = generateId + 1 .. generateId + InitSize /\ m_cur_size' = InitSize
      BY <1>1, <2>1 DEF StartRegister, PhaseInv, SizeInv
    <2>3. IsFiniteSet(m_threads') /\ Cardinality(m_threads') = InitSize
      <3>1. generateId + 1 \in Int /\ generateId + InitSize \in Int
        BY PoolAssumption DEF TypeOK
      <3>2. /\ IsFiniteSet(m_threads')
            /\ Cardinality(m_threads') =
                 IF generateId + 1 > generateId + InitSize THEN 0
                 ELSE (generateId + InitSize) - (generateId + 1) + 1
        BY <2>2, <3>1, FS_Interval
      <3> QED
        BY <3>2, PoolAssumption DEF TypeOK
    <2> QED
      <3>1. m_cur_size' >= InitSize /\ m_cur_size' = Cardinality(m_threads')
        BY <2>2, <2>3, PoolAssumption
      <3> QED
        BY <1>1, <2>2, <2>3, <3>1 DEF StartRegister, SizeInv
  <1>2. CASE \/ \E n \in TaskHolds : SetTaskThreshHold(n)
             \/ \E i \in toSpawn, w \in Workers : StartOne(i, w)
             \/ StartDone
    BY <1>2 DEF SetTaskThreshHold, StartOne, StartDone, SizeInv
  <1>3. CASE ClientNext
    <2>1. ASSUME NEW c \in Clients, NEW t \in Tasks, Submit(c, t) PROVE SizeInv'
      BY <2>1, EnqueueSizes DEF Submit, SizeInv
    <2>2. ASSUME NEW c \in Clients, SubmitWake(c) PROVE SizeInv'
      <3>1. blocked[c] \in Tasks /\ owner = "ready"
        BY <2>2 DEF SubmitWake, TypeOK, OwnerInv
      <3> QED
        BY <2>2, <3>1, EnqueueSizes DEF SubmitWake, SizeInv
    <2> QED
      BY <1>3, <2>1, <2>2 DEF ClientNext
  <1>4. ASSUME NEW w \in Workers, WorkerNext(w) PROVE SizeInv'
    <2>1. CASE Fetch(w)
      BY <2>1, LoopSizes DEF Fetch
    <2>2. CASE Woken(w)
      <3>1. CASE Reclaim(w)
        <4>1. tid[w] \in m_threads
          BY <2>2 DEF Woken, Live, IdInv
        <4>2. /\ IsFiniteSet(m_threads')
              /\ Cardinality(m_threads') = Cardinality(m_threads) - 1
          BY <3>1, <4>1, FS_RemoveElement DEF Reclaim, SizeInv
        <4>3. owner # "built"
          BY <4>1 DEF PhaseInv
        <4> QED
          BY <3>1, <4>2, <4>3, PoolAssumption DEF Reclaim, SizeInv, TypeOK
      <3> QED
        BY <2>2, <3>1, LoopSizes DEF Woken
    <2>3. CASE \/ WaitTimeout(w) \/ BeginTask(w) \/ RunTask(w)
               \/ EndTask(w) \/ SpuriousWake(w)
      BY <2>3 DEF WaitTimeout, BeginTask, RunTask, EndTask, SpuriousWake, SizeInv
    <2> QED
      BY <1>4, <2>1, <2>2, <2>3 DEF WorkerNext
  <1>5. CASE DestroyNext
    BY <1>5 DEF DestroyNext, DestroyStore, DestroyLock, DestroyWake,
                SpuriousExitWake, ExitPredicate, SizeInv
  <1>6. CASE UNCHANGED vars
    BY <1>6 DEF vars, SizeInv
  <1> QED
    BY <1>1, <1>2, <1>3, <1>4, <1>5, <1>6 DEF Next, StartNext, Terminated

LEMMA InitSizes == Init => SizeInv
  BY PoolAssumption, FS_EmptySet DEF Init, SizeInv

(* While a task is queued the map is not empty, and each of its ids has a    *)
(* live worker.  The lemma speaks of the state after a step, where it is     *)
(* needed.                                                                   *)
LEMMA SomebodyLives ==
  ASSUME InitSize > 0, (TypeOK /\ IdInv /\ PhaseInv /\ SizeInv)', m_task_que' # <<>>
  PROVE  \E w \in Workers : Live(w)'
PROOF
  <1>1. toSpawn' = {}
    BY DEF PhaseInv
  <1>2. Cardinality(m_threads') # 0
    BY PoolAssumption DEF SizeInv, TypeOK
  <1>3. m_threads' # {}
    BY <1>2, FS_EmptySet
  <1> QED
    BY <1>1, <1>3 DEF IdInv

(* submit_task leaves somebody awake: the worker it creates, the one it      *)
(* notifies, or, when nobody waits, any live worker.                         *)
LEMMA EnqueueWakes ==
  ASSUME InitSize > 0, TypeOK, NEW t \in Tasks, Enqueue(t),
         m_task_que' # <<>> => \E w \in Workers : Live(w)'
  PROVE  ~(Stranded')
PROOF
  <1>1. PICK woken \in NotifyOne :
          (\E w \in Workers : Grow(w, woken)) \/ KeepSize(woken)
    BY DEF Enqueue
  <1>2. woken \in [Workers -> WorkerStates]
    BY NotifyOneType
  <1>3. CASE \E w \in Workers : Grow(w, woken)
    BY <1>2, <1>3 DEF Grow, ThreadStart, Stranded, Live
  <1>4. CASE KeepSize(woken)
    <2>1. CASE Waiters = {}
      <3>1. \A w \in Workers : pc'[w] # "wait"
        BY <1>4, <2>1 DEF KeepSize, NotifyOne, Waiters
      <3> QED
        BY <3>1 DEF Stranded
    <2>2. CASE Waiters # {}
      <3>1. PICK w \in Workers : pc'[w] = "woken"
        BY <1>4, <2>2 DEF KeepSize, NotifyOne, Waiters, TypeOK
      <3> QED
        BY <3>1 DEF Stranded, Live
    <2> QED
      BY <2>1, <2>2
  <1> QED
    BY <1>1, <1>3, <1>4

(* A worker stops on its own only when the queue is empty. *)
LEMMA LoopAwake ==
  ASSUME TypeOK, QueueBounded, NEW w \in Workers, Loop(w)
  PROVE  ~(Stranded')
PROOF
  <1>1. CASE GetTask(w)
    <2>1. pc'[w] = "got"
      BY <1>1, NotifyAllType DEF GetTask
    <2> QED
      BY <2>1 DEF Stranded, Live
  <1>2. CASE Exit(w) \/ Block(w)
    <2>1. m_task_que' = <<>>
      BY <1>2 DEF Exit, Block, queueVars, QueueBounded, TypeOK
    <2> QED
      BY <2>1 DEF Stranded
  <1> QED
    BY <1>1, <1>2 DEF Loop

(* No step but that of a worker that is reclaimed strands a task. *)
LEMMA StrandStep ==
  ASSUME InitSize > 0, TypeOK, QueueBounded, OwnerInv, PhaseInv, [Next]_vars,
         m_task_que' # <<>> => \E w \in Workers : Live(w)'
  PROVE  Stranded' => Stranded \/ m_cur_size' < m_cur_size
PROOF
  <1> USE DEF sizeVars, queueVars, workerVars, ownerVars
  <1>1. CASE StartNext
    BY <1>1 DEF StartNext, SetTaskThreshHold, StartRegister, StartOne, StartDone,
       ThreadStart, Stranded, Live, TypeOK
  <1>2. CASE ClientNext
    <2>1. ASSUME NEW c \in Clients, NEW t \in Tasks, Submit(c, t)
          PROVE  Stranded' => Stranded
      BY <2>1, EnqueueWakes DEF Submit, Stranded, Live
    <2>2. ASSUME NEW c \in Clients, SubmitWake(c)
          PROVE  Stranded' => Stranded
      <3>1. blocked[c] \in Tasks
        BY <2>2 DEF SubmitWake, TypeOK
      <3> QED
        BY <2>2, <3>1, EnqueueWakes DEF SubmitWake, Stranded, Live
    <2> QED
      BY <1>2, <2>1, <2>2 DEF ClientNext
  <1>3. ASSUME NEW w \in Workers, WorkerNext(w)
        PROVE  Stranded' => Stranded \/ m_cur_size' < m_cur_size
    <2>1. CASE Fetch(w) \/ Woken(w)
      <3>1. CASE Reclaim(w)
        BY <3>1 DEF Reclaim, TypeOK
      <3> QED
        BY <2>1, <3>1, LoopAwake DEF Fetch, Woken
    <2>2. CASE WaitTimeout(w) \/ SpuriousWake(w)
      BY <2>2 DEF WaitTimeout, SpuriousWake, Stranded, Live, TypeOK
    <2>3. CASE BeginTask(w) \/ RunTask(w) \/ EndTask(w)
      BY <2>3 DEF BeginTask, RunTask, EndTask, Stranded, Live, TypeOK
    <2> QED
      BY <1>3, <2>1, <2>2, <2>3 DEF WorkerNext
  <1>4. CASE DestroyNext
    BY <1>4 DEF DestroyNext, DestroyStore, DestroyLock, DestroyWake,
                SpuriousExitWake, NotifyAll, Stranded, Live, TypeOK
  <1>5. CASE UNCHANGED vars
    BY <1>5 DEF vars, Stranded, Live
  <1> QED
    BY <1>1, <1>2, <1>3, <1>4, <1>5 DEF Next, Terminated

(* A FIXED pool neither grows nor shrinks. *)
LEMMA FixedSize ==
  ASSUME Mode = "FIXED", TypeOK, [Next]_vars
  PROVE  m_cur_size' = m_cur_size
PROOF
  <1> USE DEF sizeVars, queueVars, workerVars, ownerVars
  <1>1. ASSUME NEW t \in Tasks, Enqueue(t) PROVE m_cur_size' = m_cur_size
    BY <1>1 DEF Enqueue, MustGrow, KeepSize
  <1>2. CASE ClientNext
    <2>1. \A c \in Clients : blocked[c] # NoTask => blocked[c] \in Tasks
      BY DEF TypeOK
    <2> QED
      BY <1>1, <1>2, <2>1 DEF ClientNext, Submit, SubmitWake
  <1>3. ASSUME NEW w \in Workers, WorkerNext(w) PROVE m_cur_size' = m_cur_size
    BY <1>3 DEF WorkerNext, Fetch, Woken, Loop, GetTask, Exit, Block, WaitTimeout,
                BeginTask, RunTask, EndTask, SpuriousWake
  <1>4. CASE StartNext
    BY <1>4 DEF StartNext, SetTaskThreshHold, StartRegister, StartOne, StartDone
  <1>5. CASE DestroyNext
    BY <1>5 DEF DestroyNext, DestroyStore, DestroyLock, DestroyWake, SpuriousExitWake
  <1> QED
    BY <1>2, <1>3, <1>4, <1>5 DEF Next, Terminated, vars

LEMMA InitStranded == Init => ~Stranded
  BY DEF Init, Stranded

ThreadInv == /\ TypeOK /\ QueueBounded /\ OwnerInv
             /\ IdInv /\ PhaseInv /\ SizeInv

LEMMA InitThreadInv == Init => ThreadInv
  BY InitQueue, InitThreads, InitSizes DEF ThreadInv

LEMMA ThreadStep ==
  ASSUME Starts <= 1, ThreadInv, [Next]_vars
  PROVE  ThreadInv'
  BY TypeStep, QueueStep, IdStep, PhaseStep, SizeStep DEF ThreadInv

(* A pool with at least one initial thread, FIXED or CACHED, leaves a queued *)
(* task with nobody awake to take it only when a worker that came out of its *)
(* wait is reclaimed: not by a notification that hits nobody, not when a     *)
(* worker goes to sleep, and not during the destructor.                      *)
THEOREM NoTaskStranded ==
  ASSUME Starts <= 1, InitSize > 0
  PROVE  Spec => NoStrandedTask
PROOF
  <1>1. ThreadInv /\ ThreadInv' /\ [Next]_vars
          => [Stranded' => Stranded \/ m_cur_size' < m_cur_size]_vars
    BY StrandStep, SomebodyLives DEF ThreadInv
  <1> QED
    BY <1>1, InitThreadInv, ThreadStep, PTL DEF Spec, NoStrandedTask

(* In a FIXED pool nobody is reclaimed, and while a task is queued some      *)
(* worker is awake and on its way to it.                                     *)
THEOREM FixedNeverStrands ==
  ASSUME Starts <= 1, InitSize > 0, Mode = "FIXED"
  PROVE  Spec => []~Stranded
PROOF
  <1>1. ThreadInv /\ ThreadInv' /\ ~Stranded /\ [Next]_vars => ~(Stranded')
    <2> SUFFICES ASSUME ThreadInv, ThreadInv', ~Stranded, [Next]_vars
                 PROVE  ~(Stranded')
      OBVIOUS
    <2>1. m_cur_size' = m_cur_size /\ m_cur_size \in Nat
      BY FixedSize DEF ThreadInv, TypeOK
    <2>2. Stranded' => Stranded \/ m_cur_size' < m_cur_size
      BY StrandStep, SomebodyLives DEF ThreadInv
    <2> QED
      BY <2>1, <2>2
  <1> QED
    BY <1>1, InitThreadInv, ThreadStep, InitStranded, PTL DEF Spec

(* A CACHED pool that has shrunk again still has its initial threads. *)
KeepsInitialThreads == owner = "ready" => Cardinality(m_threads) >= InitSize

(* The CACHED pool keeps its initial threads: a worker that times out only   *)
(* leaves while more than m_init_size_ threads are registered.               *)
THEOREM InitialThreadsKept ==
  ASSUME Starts <= 1
  PROVE  Spec => []KeepsInitialThreads
PROOF
  <1>1. ThreadInv => KeepsInitialThreads
    BY DEF ThreadInv, SizeInv, KeepsInitialThreads
  <1> QED
    BY <1>1, InitThreadInv, ThreadStep, PTL DEF Spec
-----------------------------------------------------------------------------
(* Where a task can be.  The queued ones are different from each other, from *)
(* those the workers hold and from those clients still wait to enqueue; all  *)
(* that were accepted and not executed have a pending future.                *)
QueueTasks ==
  /\ \A i \in DOMAIN m_task_que : future[m_task_que[i]] = "pending"
  /\ \A i, j \in DOMAIN m_task_que : m_task_que[i] = m_task_que[j] => i = j

HeldTasks ==
  /\ \A w \in Workers : pc[w] \in {"got", "run"} <=> held[w] # NoTask
  /\ \A w \in Workers : held[w] # NoTask =>
       /\ future[held[w]] = "pending"
       /\ \A i \in DOMAIN m_task_que : m_task_que[i] # held[w]
  /\ \A v, w \in Workers : held[v] # NoTask /\ held[v] = held[w] => v = w

BlockedTasks ==
  /\ \A c \in Clients : blocked[c] # NoTask => future[blocked[c]] = "waiting"
  /\ \A c, d \in Clients : blocked[c] # NoTask /\ blocked[c] = blocked[d] => c = d

TaskInv == QueueTasks /\ HeldTasks /\ BlockedTasks

Done == {t \in Tasks : future[t] = "ready"}

(* What Accept asks for. *)
LEMMA NotYetKnown ==
  ASSUME TypeOK, TaskInv, NEW t \in Tasks, future[t] \in {"none", "waiting"}
  PROVE  /\ t \notin {m_task_que[i] : i \in DOMAIN m_task_que} \cup Carried \cup Done
         /\ \A i \in DOMAIN m_task_que : m_task_que[i] # t
         /\ \A w \in Workers : held[w] # t
  BY PoolAssumption DEF TaskInv, QueueTasks, HeldTasks, Carried, Done, TypeOK

(* submit_task accepts a task that is nowhere else. *)
LEMMA EnqueueTasks ==
  ASSUME TypeOK, TaskInv, NEW t \in Tasks, future[t] \in {"none", "waiting"}, Enqueue(t),
         \A c \in Clients : blocked'[c] # NoTask => blocked'[c] = blocked[c],
         \A c \in Clients : blocked'[c] # t
  PROVE  TaskInv' /\ UNCHANGED <<Carried, Done>>
PROOF
  <1>1. PICK woken \in NotifyOne :
          (\E w \in Workers : Grow(w, woken)) \/ KeepSize(woken)
    BY DEF Enqueue
  <1>2. \A w \in Workers : pc'[w] \in {"got", "run"} <=> pc[w] \in {"got", "run"}
    <2>1. woken \in [Workers -> WorkerStates]
      BY NotifyOneType
    <2>2. \A w \in Workers : woken[w] \in {"got", "run"} <=> pc[w] \in {"got", "run"}
      BY DEF NotifyOne, Waiters, TypeOK
    <2> QED
      BY <1>1, <2>1, <2>2 DEF Grow, ThreadStart, KeepSize
  <1>3. /\ future' = [future EXCEPT ![t] = "pending"] /\ held' = held
        /\ m_task_que' = Append(m_task_que, t)
    BY DEF Enqueue
  <1>4. \A u \in Tasks : future'[u] = IF u = t THEN "pending" ELSE future[u]
    BY <1>3 DEF TypeOK
  <1>5. /\ DOMAIN m_task_que = 1 .. Len(m_task_que) /\ Len(m_task_que) \in Nat
        /\ \A i \in DOMAIN m_task_que : m_task_que[i] \in Tasks
        /\ DOMAIN m_task_que' = 1 .. Len(m_task_que) + 1
        /\ m_task_que'[Len(m_task_que) + 1] = t
        /\ \A i \in DOMAIN m_task_que : m_task_que'[i] = m_task_que[i]
    BY <1>3 DEF TypeOK
  <1>6. QueueTasks'
    BY <1>4, <1>5, NotYetKnown DEF TaskInv, QueueTasks
  <1>7. HeldTasks'
    BY <1>2, <1>3, <1>4, <1>5, NotYetKnown DEF TaskInv, HeldTasks, TypeOK
  <1>8. BlockedTasks'
    BY <1>4 DEF TaskInv, BlockedTasks, TypeOK
  <1>9. UNCHANGED <<Carried, Done>>
    BY <1>3, <1>4 DEF Carried, Done
  <1> QED
    BY <1>6, <1>7, <1>8, <1>9 DEF TaskInv

LEMMA SameTasks ==
  ASSUME TaskInv, UNCHANGED <<m_task_que, held, blocked, future>>,
         \A w \in Workers : pc'[w] \in {"got", "run"} <=> pc[w] \in {"got", "run"}
  PROVE  TaskInv' /\ UNCHANGED <<m_task_que, Carried, Done>>
  BY DEF TaskInv, QueueTasks, HeldTasks, BlockedTasks, Carried, Done

(* m_get_task begins the oldest task. *)
LEMMA GetTaskTasks ==
  ASSUME TypeOK, QueueBounded, TaskInv, NEW w \in Workers, pc[w] \in {"lock", "woken"},
         GetTask(w)
  PROVE  /\ TaskInv' /\ m_task_que # <<>> /\ m_task_que' = Tail(m_task_que)
         /\ Carried' = Carried \cup {Head(m_task_que)} /\ Done' = Done
PROOF
  <1> DEFINE t == Head(m_task_que)
             n == Len(m_task_que)
  <1>1. m_task_que # <<>>
    BY DEF GetTask, QueueBounded, TypeOK
  <1>2. /\ n \in Nat \ {0} /\ DOMAIN m_task_que = 1 .. n /\ t = m_task_que[1] /\ t \in Tasks
        /\ m_task_que' = Tail(m_task_que) /\ DOMAIN m_task_que' = 1 .. n - 1
        /\ \A i \in 1 .. n - 1 : m_task_que'[i] = m_task_que[i + 1]
    BY <1>1 DEF GetTask, TypeOK
  <1>3. held[w] = NoTask
    BY DEF TaskInv, HeldTasks
  <1>4. held' = [held EXCEPT ![w] = t] /\ UNCHANGED <<blocked, future>>
    BY DEF GetTask
  <1> HIDE DEF t, n
  <1>5. t # NoTask /\ \A v \in Workers : held[v] # t
    BY <1>2, PoolAssumption DEF TaskInv, HeldTasks
  <1>6. \A v \in Workers : pc'[v] \in {"got", "run"} <=> v = w \/ pc[v] \in {"got", "run"}
    BY NotifyAllType DEF GetTask, NotifyAll, TypeOK
  <1>7. QueueTasks'
    BY <1>2, <1>4 DEF TaskInv, QueueTasks
  <1>8. HeldTasks'
    <2>1. \A v \in Workers : held'[v] = IF v = w THEN t ELSE held[v]
      BY <1>4 DEF TypeOK
    <2>2. \A v \in Workers : pc'[v] \in {"got", "run"} <=> held'[v] # NoTask
      BY <1>5, <1>6, <2>1 DEF TaskInv, HeldTasks
    <2>3. ASSUME NEW v \in Workers, held'[v] # NoTask
          PROVE  /\ future'[held'[v]] = "pending"
                 /\ \A i \in DOMAIN m_task_que' : m_task_que'[i] # held'[v]
      <3>1. CASE v = w
        BY <1>2, <1>4, <2>1, <3>1 DEF TaskInv, QueueTasks
      <3>2. CASE v # w
        BY <1>2, <1>4, <2>1, <2>3, <3>2 DEF TaskInv, HeldTasks
      <3> QED
        BY <3>1, <3>2
    <2>4. \A u, v \in Workers : held'[u] # NoTask /\ held'[u] = held'[v] => u = v
      BY <1>5, <2>1 DEF TaskInv, HeldTasks
    <2> QED
      BY <2>2, <2>3, <2>4 DEF HeldTasks
  <1>9. BlockedTasks'
    BY <1>4 DEF TaskInv, BlockedTasks
  <1>10. Carried' = Carried \cup {t}
    BY <1>3, <1>4, <1>5 DEF Carried, TypeOK
  <1>11. Done' = Done
    BY <1>4 DEF Done
  <1> QED
    BY <1>1, <1>2, <1>7, <1>8, <1>9, <1>10, <1>11 DEF TaskInv, t

(* The task that runs is the worker's own, and finishes once. *)
LEMMA RunTaskTasks ==
  ASSUME TypeOK, TaskInv, NEW w \in Workers, RunTask(w)
  PROVE  /\ TaskInv' /\ m_task_que' = m_task_que
         /\ held[w] \in Carried /\ held[w] \in Tasks
         /\ Carried' = Carried \ {held[w]} /\ Done' = Done \cup {held[w]}
PROOF
  <1> DEFINE t == held[w]
  <1>1. t # NoTask /\ t \in Tasks /\ t \in Carried
    BY DEF RunTask, TaskInv, HeldTasks, TypeOK, Carried
  <1>2. /\ held' = [held EXCEPT ![w] = NoTask] /\ future' = [future EXCEPT ![t] = "ready"]
        /\ pc' = [pc EXCEPT ![w] = "ran"] /\ UNCHANGED <<m_task_que, blocked>>
    BY DEF RunTask, queueVars
  <1>3. /\ \A v \in Workers : held'[v] = IF v = w THEN NoTask ELSE held[v]
        /\ \A v \in Workers : pc'[v] = IF v = w THEN "ran" ELSE pc[v]
        /\ \A u \in Tasks : future'[u] = IF u = t THEN "ready" ELSE future[u]
    BY <1>1, <1>2 DEF TypeOK
  <1>4. /\ \A v \in Workers \ {w} : held[v] # t
        /\ \A i \in DOMAIN m_task_que : m_task_que[i] # t /\ m_task_que[i] \in Tasks
        /\ future[t] = "pending"
    BY <1>1 DEF TaskInv, HeldTasks, TypeOK
  <1> HIDE DEF t
  <1>5. QueueTasks'
    BY <1>2, <1>3, <1>4 DEF TaskInv, QueueTasks
  <1>6. HeldTasks'
    <2>1. ASSUME NEW v \in Workers, held'[v] # NoTask
          PROVE  /\ future'[held'[v]] = "pending"
                 /\ \A i \in DOMAIN m_task_que' : m_task_que'[i] # held'[v]
      <3>1. v # w /\ held'[v] = held[v] /\ held[v] \in Tasks /\ held[v] # t
        BY <1>3, <1>4, <2>1 DEF TypeOK
      <3> QED
        BY <1>2, <1>3, <2>1, <3>1 DEF TaskInv, HeldTasks
    <2>2. \A v \in Workers : pc'[v] \in {"got", "run"} <=> held'[v] # NoTask
      BY <1>3 DEF TaskInv, HeldTasks
    <2>3. \A u, v \in Workers : held'[u] # NoTask /\ held'[u] = held'[v] => u = v
      BY <1>3 DEF TaskInv, HeldTasks
    <2> QED
      BY <2>1, <2>2, <2>3 DEF HeldTasks
  <1>7. BlockedTasks'
    BY <1>2, <1>3, <1>4 DEF TaskInv, BlockedTasks, TypeOK
  <1>8. Carried' = Carried \ {t}
    BY <1>1, <1>3, <1>4 DEF Carried, t
  <1>9. Done' = Done \cup {t}
    BY <1>1, <1>3 DEF Done
  <1> QED
    BY <1>1, <1>2, <1>5, <1>6, <1>7, <1>8, <1>9 DEF TaskInv, t

(* The actions that only the pool itself sees. *)
LEMMA HiddenStep ==
  ASSUME TaskInv, UNCHANGED <<m_task_que, held, blocked, future>>,
         \A w \in Workers : pc'[w] \in {"got", "run"} <=> pc[w] \in {"got", "run"},
         owner' = "destroyed" <=> owner = "destroyed"
  PROVE  TaskInv' /\ UNCHANGED Service!svars
PROOF
  <1>1. TaskInv' /\ UNCHANGED <<m_task_que, Carried, Done>>
    BY SameTasks
  <1> QED
    BY <1>1 DEF Service!svars, Done

(* submit_task accepts the task, or leaves the service as it was. *)
LEMMA ClientService ==
  ASSUME TypeOK, OwnerInv, TaskInv, ClientNext
  PROVE  TaskInv' /\ [Service!Next]_(Service!svars)
PROOF
  <1> USE DEF sizeVars, queueVars, workerVars, ownerVars
  <1>1. ASSUME NEW t \in Tasks, future[t] \in {"none", "waiting"}, Enqueue(t),
               owner # "destroyed",
               \A c \in Clients : blocked'[c] # NoTask => blocked'[c] = blocked[c],
               \A c \in Clients : blocked'[c] # t
        PROVE  TaskInv' /\ Service!Accept(t)
    <2>1. TaskInv' /\ UNCHANGED <<Carried, Done>>
      BY <1>1, EnqueueTasks
    <2>2. t \notin {m_task_que[i] : i \in DOMAIN m_task_que} \cup Carried \cup Done
      BY <1>1, NotYetKnown
    <2>3. m_task_que' = Append(m_task_que, t) /\ owner' = owner
      BY <1>1 DEF Enqueue
    <2> QED
      BY <1>1, <2>1, <2>2, <2>3 DEF Service!Accept, Service!Queued, Done
  <1>2. ASSUME NEW c \in Clients, NEW t \in Tasks, Submit(c, t)
        PROVE  TaskInv' /\ [Service!Next]_(Service!svars)
    <2>1. \A d \in Clients : blocked[d] # t
      BY <1>2, PoolAssumption DEF Submit, TaskInv, BlockedTasks
    <2>2. CASE Enqueue(t) /\ UNCHANGED blocked
      <3>1. TaskInv' /\ Service!Accept(t)
        BY <1>1, <1>2, <2>1, <2>2 DEF Submit
      <3> QED
        BY <3>1 DEF Service!Next
    <2>3. CASE /\ blocked' = [blocked EXCEPT ![c] = t]
               /\ future' = [future EXCEPT ![t] = "waiting"]
               /\ UNCHANGED <<m_task_que, held, pc, owner>>
      <3>1. /\ \A u \in Tasks : future'[u] = IF u = t THEN "waiting" ELSE future[u]
            /\ \A d \in Clients : blocked'[d] = IF d = c THEN t ELSE blocked[d]
        BY <2>3 DEF TypeOK
      <3>2. /\ \A i \in DOMAIN m_task_que : m_task_que[i] # t /\ m_task_que[i] \in Tasks
            /\ \A w \in Workers : held[w] # t
        BY <1>2, NotYetKnown DEF Submit, TypeOK
      <3>3. QueueTasks' /\ HeldTasks'
        BY <2>3, <3>1, <3>2 DEF TaskInv, QueueTasks, HeldTasks, TypeOK
      <3>4. BlockedTasks'
        BY <2>1, <3>1, ZenonT(60) DEF TaskInv, BlockedTasks, TypeOK
      <3>5. Done' = Done /\ Carried' = Carried
        BY <1>2, <2>3, <3>1 DEF Submit, Done, Carried
      <3> QED
        BY <2>3, <3>3, <3>4, <3>5 DEF TaskInv, Service!svars, Done
    <2> QED
      BY <1>2, <2>2, <2>3 DEF Submit
  <1>3. ASSUME NEW c \in Clients, SubmitWake(c)
        PROVE  TaskInv' /\ [Service!Next]_(Service!svars)
    <2> DEFINE t == blocked[c]
    <2>1. /\ t \in Tasks /\ future[t] = "waiting" /\ owner = "ready"
          /\ \A d \in Clients \ {c} : blocked[d] # t
      BY <1>3 DEF SubmitWake, TypeOK, OwnerInv, TaskInv, BlockedTasks
    <2>2. \A d \in Clients : blocked'[d] = IF d = c THEN NoTask ELSE blocked[d]
      BY <1>3 DEF SubmitWake, TypeOK
    <2>3. CASE Enqueue(t)
      <3>1. TaskInv' /\ Service!Accept(t)
        BY <1>1, <2>1, <2>2, <2>3, PoolAssumption
      <3> QED
        BY <2>1, <3>1 DEF Service!Next
    <2>4. CASE /\ future' = [future EXCEPT ![t] = "broken"]
               /\ UNCHANGED <<m_task_que, held, pc, owner>>
      <3>1. \A u \in Tasks : future'[u] = IF u = t THEN "broken" ELSE future[u]
        BY <2>1, <2>4 DEF TypeOK
      <3>2. /\ \A i \in DOMAIN m_task_que : m_task_que[i] # t /\ m_task_que[i] \in Tasks
            /\ \A w \in Workers : held[w] # t
        BY <2>1, NotYetKnown DEF TypeOK
      <3> HIDE DEF t
      <3>3. QueueTasks' /\ HeldTasks'
        BY <2>4, <3>1, <3>2 DEF TaskInv, QueueTasks, HeldTasks, TypeOK
      <3>4. BlockedTasks'
        BY <2>1, <2>2, <3>1 DEF TaskInv, BlockedTasks, TypeOK
      <3>5. Done' = Done /\ Carried' = Carried
        BY <2>1, <2>4, <3>1 DEF Done, Carried
      <3> QED
        BY <2>4, <3>3, <3>4, <3>5 DEF TaskInv, Service!svars, Done
    <2> QED
      BY <1>3, <2>3, <2>4 DEF SubmitWake
  <1> QED
    BY <1>2, <1>3 DEF ClientNext

(* A worker begins the oldest task, finishes the one it runs, or is hidden. *)
LEMMA WorkerService ==
  ASSUME TypeOK, QueueBounded, TaskInv, NEW w \in Workers, WorkerNext(w)
  PROVE  TaskInv' /\ [Service!Next]_(Service!svars)
PROOF
  <1> USE DEF sizeVars, queueVars, workerVars, ownerVars
  <1>1. ASSUME pc[w] \in {"lock", "woken"}, Loop(w)
        PROVE  TaskInv' /\ [Service!Next]_(Service!svars)
    <2>1. CASE GetTask(w)
      <3>1. /\ TaskInv' /\ m_task_que # <<>> /\ m_task_que' = Tail(m_task_que)
            /\ Carried' = Carried \cup {Head(m_task_que)} /\ Done' = Done
        BY <1>1, <2>1, GetTaskTasks
      <3>2. owner' = owner
        BY <2>1 DEF GetTask
      <3>3. Service!Begin
        BY <3>1, <3>2 DEF Service!Begin, Done
      <3> QED
        BY <3>1, <3>3 DEF Service!Next
    <2>2. CASE Exit(w)
      <3>1. \A v \in Workers : pc'[v] \in {"got", "run"} <=> pc[v] \in {"got", "run"}
        BY <1>1, <2>2 DEF Exit, TypeOK
      <3> QED
        BY <2>2, <3>1, HiddenStep DEF Exit, NotifyExit
    <2>3. CASE Block(w)
      <3>1. \A v \in Workers : pc'[v] \in {"got", "run"} <=> pc[v] \in {"got", "run"}
        BY <1>1, <2>3 DEF Block, TypeOK
      <3> QED
        BY <2>3, <3>1, HiddenStep DEF Block
    <2> QED
      BY <1>1, <2>1, <2>2, <2>3 DEF Loop
  <1>2. CASE RunTask(w)
    <2>1. /\ TaskInv' /\ m_task_que' = m_task_que
          /\ held[w] \in Carried /\ held[w] \in Tasks
          /\ Carried' = Carried \ {held[w]} /\ Done' = Done \cup {held[w]}
      BY <1>2, RunTaskTasks
    <2>2. owner' = owner
      BY <1>2 DEF RunTask
    <2>3. PICK t \in Tasks : t = held[w]
      BY <2>1
    <2>4. Service!Finish(t)
      BY <2>1, <2>2, <2>3 DEF Service!Finish, Done
    <2> QED
      BY <2>1, <2>4 DEF Service!Next
  <1>3. CASE \/ pc[w] = "woken" /\ Reclaim(w)
             \/ WaitTimeout(w) \/ BeginTask(w) \/ EndTask(w) \/ SpuriousWake(w)
    <2>1. \A v \in Workers : pc'[v] \in {"got", "run"} <=> pc[v] \in {"got", "run"}
      BY <1>3 DEF Reclaim, WaitTimeout, BeginTask, EndTask, SpuriousWake, TypeOK
    <2>2. UNCHANGED <<m_task_que, held, blocked, future, owner>>
      BY <1>3 DEF Reclaim, WaitTimeout, BeginTask, EndTask, SpuriousWake
    <2> QED
      BY <2>1, <2>2, HiddenStep
  <1> QED
    BY <1>1, <1>2, <1>3 DEF WorkerNext, Fetch, Woken

(* The destructor returns when m_threads_ is empty; then every worker has    *)
(* left the loop, nothing is held and, as the initial threads never leave    *)
(* while a task is queued, nothing is queued.                                *)
LEMMA CloseService ==
  ASSUME InitSize > 0, TypeOK, IdInv, PhaseInv, SizeInv, TaskInv,
         owner \notin {"spawning", "destroyed"}, m_threads = {}
  PROVE  m_task_que = <<>> /\ Carried = {}
PROOF
  <1>1. \A w \in Workers : ~Live(w)
    BY DEF IdInv
  <1>2. Carried = {}
    BY <1>1 DEF Live, TaskInv, HeldTasks, Carried
  <1>3. m_task_que = <<>>
    BY FS_EmptySet, PoolAssumption DEF SizeInv, TypeOK
  <1> QED
    BY <1>2, <1>3

LEMMA DestroyService ==
  ASSUME InitSize > 0, TypeOK, IdInv, PhaseInv, SizeInv, TaskInv, DestroyNext
  PROVE  TaskInv' /\ [Service!Next]_(Service!svars)
PROOF
  <1> USE DEF sizeVars, queueVars, workerVars, ownerVars
  <1>1. UNCHANGED <<m_task_que, held, blocked, future>>
    BY DEF DestroyNext, DestroyStore, DestroyLock, DestroyWake, SpuriousExitWake
  <1>2. \A w \in Workers : pc'[w] \in {"got", "run"} <=> pc[w] \in {"got", "run"}
    BY DEF DestroyNext, DestroyStore, DestroyLock, DestroyWake, SpuriousExitWake,
           NotifyAll, TypeOK
  <1>3. CASE owner' # "destroyed"
    <2>1. owner # "destroyed"
      BY DEF DestroyNext, DestroyStore, DestroyLock, DestroyWake, SpuriousExitWake
    <2> QED
      BY <1>1, <1>2, <1>3, <2>1, HiddenStep
  <1>4. CASE owner' = "destroyed"
    <2>1. owner \notin {"spawning", "destroyed"} /\ m_threads = {}
      BY <1>4 DEF DestroyNext, DestroyStore, DestroyLock, DestroyWake,
                  SpuriousExitWake, ExitPredicate
    <2>2. m_task_que = <<>> /\ Carried = {}
      BY <2>1, CloseService
    <2>3. TaskInv' /\ UNCHANGED <<m_task_que, Carried, Done>>
      BY <1>1, <1>2, SameTasks
    <2>4. Service!Close
      BY <1>4, <2>1, <2>2, <2>3 DEF Service!Close, Done
    <2> QED
      BY <2>3, <2>4 DEF Service!Next
  <1> QED
    BY <1>3, <1>4

LEMMA ServiceStep ==
  ASSUME InitSize > 0, TypeOK, QueueBounded, OwnerInv, IdInv, PhaseInv, SizeInv,
         TaskInv, [Next]_vars
  PROVE  TaskInv' /\ [Service!Next]_(Service!svars)
PROOF
  <1> USE DEF sizeVars, queueVars, workerVars, ownerVars
  <1>1. CASE StartNext
    <2>1. \A v \in Workers : pc'[v] \in {"got", "run"} <=> pc[v] \in {"got", "run"}
      BY <1>1 DEF StartNext, SetTaskThreshHold, StartRegister, StartOne, StartDone,
                  ThreadStart, TypeOK
    <2>2. /\ UNCHANGED <<m_task_que, held, blocked, future>>
          /\ owner # "destroyed" /\ owner' # "destroyed"
      BY <1>1 DEF StartNext, SetTaskThreshHold, StartRegister, StartOne, StartDone
    <2> QED
      BY <2>1, <2>2, HiddenStep
  <1>2. CASE UNCHANGED vars
    BY <1>2, HiddenStep DEF vars
  <1> QED
    BY <1>1, <1>2, ClientService, WorkerService, DestroyService DEF Next, Terminated

LEMMA InitService == Init => TaskInv /\ Service!Init
  BY DEF Init, TaskInv, QueueTasks, HeldTasks, BlockedTasks, Service!Init, Carried

(* The pool implements TaskService for every number of workers, clients and  *)
(* tasks and in both modes: tasks begin in the order of acceptance, each is  *)
(* executed at most once and by one worker, and the destructor returns only  *)
(* when everything submit_task accepted has been executed.                   *)
THEOREM PoolImplementsService ==
  ASSUME Starts <= 1, InitSize > 0
  PROVE  Spec => ServiceSpec
PROOF
  <1> DEFINE Inv == /\ TypeOK /\ QueueBounded /\ OwnerInv
                    /\ IdInv /\ PhaseInv /\ SizeInv /\ TaskInv
  <1>1. Init => Inv /\ Service!Init
    BY InitQueue, InitThreads, InitSizes, InitService
  <1>2. Inv /\ [Next]_vars => Inv' /\ [Service!Next]_(Service!svars)
    BY TypeStep, QueueStep, IdStep, PhaseStep, SizeStep, ServiceStep
  <1> QED
    BY <1>1, <1>2, PTL DEF Spec, ServiceSpec, Service!Spec
-----------------------------------------------------------------------------
(* The workers outside a task, those m_idle_size_ is to count. *)
Idle == {w \in Workers : Live(w) /\ pc[w] \notin {"run", "ran"}}

(* Between start() and the destructor of a CACHED pool m_idle_size_ counts   *)
(* them; until start() has stored its value no worker has seen a task and    *)
(* none has been added.                                                      *)
IdleInv ==
  /\ owner \in {"built", "spawning"} =>
       /\ m_cur_size = InitSize
       /\ \A w \in Workers : pc[w] \notin {"got", "run", "ran"}
  /\ owner = "ready" => IsFiniteSet(Idle) /\ m_idle_size = Cardinality(Idle)

(* A set that finitely many ids number is finite and has as many elements. *)
LEMMA CountedByIds ==
  ASSUME NEW S, NEW T, NEW f, IsFiniteSet(T),
         \A x \in S : f[x] \in T,
         \A x, y \in S : f[x] = f[y] => x = y,
         \A i \in T : \E x \in S : f[x] = i
  PROVE  IsFiniteSet(S) /\ Cardinality(S) = Cardinality(T)
PROOF
  <1> DEFINE g == [x \in S |-> f[x]]
  <1>1. g \in [S -> T]
    OBVIOUS
  <1>2. g \in Bijection(S, T)
    BY <1>1, Fun_IsBij
  <1>3. ExistsBijection(S, T)
    BY <1>2, Fun_ExistsBij
  <1>4. ExistsBijection(T, S)
    BY <1>3, Fun_ExistsBijSymmetric
  <1> QED
    BY <1>4, FS_Bijection

(* start() stores m_init_size_ into m_idle_size_ when every worker it has    *)
(* started is in the loop, one for each id of the map.                       *)
LEMMA StartDoneIdle ==
  ASSUME TypeOK, IdInv, SizeInv, IdleInv, StartDone
  PROVE  IdleInv'
PROOF
  <1>1. owner = "spawning" /\ toSpawn = {} /\ pc' = pc /\ tid' = tid
        /\ m_idle_size' = InitSize /\ owner' = "ready" /\ m_threads' = m_threads
    BY DEF StartDone, sizeVars, workerVars
  <1>2. \A w \in Workers : w \in Idle <=> Live(w)
    BY <1>1 DEF IdleInv, Idle
  <1>3. /\ \A w \in Idle : tid[w] \in m_threads
        /\ \A v, w \in Idle : tid[v] = tid[w] => v = w
        /\ \A i \in m_threads : \E w \in Idle : tid[w] = i
    BY <1>1, <1>2 DEF IdInv, Idle
  <1>4. IsFiniteSet(Idle) /\ Cardinality(Idle) = Cardinality(m_threads)
    <2>1. IsFiniteSet(m_threads)
      BY DEF SizeInv
    <2> QED
      BY <1>3, <2>1, CountedByIds
  <1>5. Cardinality(m_threads) = InitSize
    BY <1>1 DEF SizeInv, IdleInv
  <1>6. Idle' = Idle
    BY <1>1 DEF Idle, Live
  <1> QED
    BY <1>1, <1>4, <1>5, <1>6 DEF IdleInv

(* Nobody starts, leaves, enters a task or comes out of one. *)
LEMMA SameIdle ==
  ASSUME IdleInv, UNCHANGED <<m_cur_size, m_idle_size>>,
         \A w \in Workers : (w \in Idle)' <=> w \in Idle,
         owner' \in {"built", "spawning"} =>
           /\ owner \in {"built", "spawning"}
           /\ \A w \in Workers : pc'[w] \notin {"got", "run", "ran"},
         owner' = "ready" => owner = "ready"
  PROVE  IdleInv'
PROOF
  <1>1. Idle' = Idle
    BY DEF Idle
  <1> QED
    BY <1>1 DEF IdleInv

LEMMA EnqueueIdle ==
  ASSUME TypeOK, IdleInv, owner = "ready", NEW t \in Tasks, Enqueue(t)
  PROVE  IdleInv'
PROOF
  <1>1. PICK woken \in NotifyOne :
          (\E w \in Workers : Grow(w, woken)) \/ KeepSize(woken)
    BY DEF Enqueue
  <1>2. woken \in [Workers -> WorkerStates]
    BY NotifyOneType
  <1>3. \A w \in Workers :
          w \in Idle <=> woken[w] \notin {"none", "exited", "run", "ran"}
    BY DEF NotifyOne, Waiters, TypeOK, Live, Idle
  <1>4. owner' = "ready"
    BY DEF Enqueue, ownerVars
  <1>5. ASSUME NEW w \in Workers, Grow(w, woken)
        PROVE  IdleInv'
    <2>1. w \notin Idle
      BY <1>5 DEF Grow, ThreadStart, Idle, Live
    <2>2. Idle' = Idle \cup {w}
      BY <1>2, <1>3, <1>5 DEF Grow, ThreadStart, Idle, Live
    <2>3. m_idle_size' = m_idle_size + 1
      BY <1>5 DEF Grow
    <2> QED
      BY <1>4, <2>1, <2>2, <2>3, FS_AddElement DEF IdleInv
  <1>6. CASE KeepSize(woken)
    <2>1. \A w \in Workers : (w \in Idle)' <=> w \in Idle
      BY <1>3, <1>6 DEF KeepSize, Idle, Live
    <2> QED
      BY <1>4, <1>6, <2>1, SameIdle DEF KeepSize
  <1> QED
    BY <1>1, <1>5, <1>6

LEMMA LoopIdle ==
  ASSUME TypeOK, QueueBounded, OwnerInv, PhaseInv, IdleInv, NEW w \in Workers,
         pc[w] \in {"lock", "woken"}, Loop(w)
  PROVE  IdleInv'
PROOF
  <1> USE DEF sizeVars, queueVars, ownerVars
  <1>1. CASE GetTask(w)
    <2>1. m_task_que # <<>>
      BY <1>1 DEF GetTask, QueueBounded, TypeOK
    <2>2. owner \notin {"built", "spawning"}
      BY <2>1 DEF PhaseInv
    <2>3. \A v \in Workers : (v \in Idle)' <=> v \in Idle
      BY <1>1, NotifyAllType DEF GetTask, NotifyAll, Idle, Live, TypeOK
    <2> QED
      BY <1>1, <2>2, <2>3, SameIdle DEF GetTask
  <1>2. CASE Exit(w)
    <2>1. owner \notin {"spawning", "ready"}
      BY <1>2 DEF Exit, OwnerInv
    <2>2. /\ owner' \notin {"spawning", "ready"} /\ (owner' = "built" => owner = "built")
          /\ m_cur_size' = m_cur_size
          /\ \A v \in Workers : pc'[v] = IF v = w THEN "exited" ELSE pc[v]
      BY <1>2, <2>1 DEF Exit, NotifyExit, TypeOK
    <2> QED
      BY <2>2 DEF IdleInv
  <1>3. CASE Block(w)
    <2>1. \A v \in Workers : pc'[v] = IF v = w THEN "wait" ELSE pc[v]
      BY <1>3 DEF Block, TypeOK
    <2>2. \A v \in Workers : (v \in Idle)' <=> v \in Idle
      BY <2>1 DEF Idle, Live
    <2> QED
      BY <1>3, <2>1, <2>2, SameIdle DEF Block, IdleInv
  <1> QED
    BY <1>1, <1>2, <1>3 DEF Loop

LEMMA WorkerIdle ==
  ASSUME Mode = "CACHED", TypeOK, QueueBounded, OwnerInv, PhaseInv, IdleInv,
         NEW w \in Workers, WorkerNext(w)
  PROVE  IdleInv'
PROOF
  <1> USE DEF sizeVars, queueVars, workerVars, ownerVars
  <1>1. CASE Fetch(w) \/ (pc[w] = "woken" /\ Loop(w))
    BY <1>1, LoopIdle DEF Fetch
  <1>2. CASE pc[w] = "woken" /\ Reclaim(w)
    <2>1. owner \notin {"built", "spawning"} /\ owner' = owner
      BY <1>2, PoolAssumption DEF Reclaim, IdleInv
    <2>2. w \in Idle /\ Idle' = Idle \ {w} /\ m_idle_size' = m_idle_size - 1
      BY <1>2 DEF Reclaim, Idle, Live, TypeOK
    <2> QED
      BY <2>1, <2>2, FS_RemoveElement DEF IdleInv
  <1>3. CASE BeginTask(w)
    <2>1. owner \notin {"built", "spawning"} /\ owner' = owner
      BY <1>3 DEF BeginTask, IdleInv
    <2>2. w \in Idle /\ Idle' = Idle \ {w} /\ m_idle_size' = m_idle_size - 1
      BY <1>3 DEF BeginTask, AddIdle, Idle, Live, TypeOK
    <2> QED
      BY <2>1, <2>2, FS_RemoveElement DEF IdleInv
  <1>4. CASE EndTask(w)
    <2>1. owner \notin {"built", "spawning"} /\ owner' = owner
      BY <1>4 DEF EndTask, IdleInv
    <2>2. w \notin Idle /\ Idle' = Idle \cup {w} /\ m_idle_size' = m_idle_size + 1
      BY <1>4 DEF EndTask, AddIdle, Idle, Live, TypeOK
    <2> QED
      BY <2>1, <2>2, FS_AddElement DEF IdleInv
  <1>5. CASE WaitTimeout(w) \/ RunTask(w) \/ SpuriousWake(w)
    <2>1. \A v \in Workers : (v \in Idle)' <=> v \in Idle
      BY <1>5 DEF WaitTimeout, RunTask, SpuriousWake, Idle, Live, TypeOK
    <2>2. owner' = owner /\ UNCHANGED <<m_cur_size, m_idle_size>>
      BY <1>5 DEF WaitTimeout, RunTask, SpuriousWake
    <2>3. owner \in {"built", "spawning"} =>
            \A v \in Workers : pc'[v] \notin {"got", "run", "ran"}
      BY <1>5 DEF WaitTimeout, RunTask, SpuriousWake, IdleInv, TypeOK
    <2> QED
      BY <2>1, <2>2, <2>3, SameIdle
  <1> QED
    <2>1. CASE Woken(w)
      BY <1>1, <1>2, <2>1 DEF Woken
    <2> QED
      BY <1>1, <1>3, <1>4, <1>5, <2>1 DEF WorkerNext

LEMMA IdleStep ==
  ASSUME Starts <= 1, Mode = "CACHED", TypeOK, QueueBounded, OwnerInv, IdInv,
         PhaseInv, SizeInv, IdleInv, [Next]_vars
  PROVE  IdleInv'
PROOF
  <1> USE DEF sizeVars, queueVars, workerVars, ownerVars
  <1>1. CASE StartRegister
    <2>1. owner = "built"
      BY <1>1, PoolAssumption DEF StartRegister, PhaseInv, TypeOK
    <2> QED
      BY <1>1, <2>1 DEF StartRegister, IdleInv
  <1>2. ASSUME NEW i \in toSpawn, NEW w \in Workers, StartOne(i, w) PROVE IdleInv'
    BY <1>2 DEF StartOne, ThreadStart, IdleInv, TypeOK
  <1>3. ASSUME NEW n \in TaskHolds, SetTaskThreshHold(n) PROVE IdleInv'
    <2>1. \A v \in Workers : (v \in Idle)' <=> v \in Idle
      BY <1>3 DEF SetTaskThreshHold, Idle, Live
    <2> QED
      BY <1>3, <2>1, SameIdle DEF SetTaskThreshHold, IdleInv
  <1>4. ASSUME NEW c \in Clients, NEW t \in Tasks,
               owner = "ready", Enqueue(t) \/ UNCHANGED <<m_cur_size, m_idle_size, pc, owner>>
        PROVE  IdleInv'
    <2>1. CASE UNCHANGED <<m_cur_size, m_idle_size, pc, owner>>
      <3>1. \A v \in Workers : (v \in Idle)' <=> v \in Idle
        BY <2>1 DEF Idle, Live
      <3> QED
        BY <1>4, <2>1, <3>1, SameIdle
    <2> QED
      BY <1>4, <2>1, EnqueueIdle
  <1>5. ASSUME NEW c \in Clients, NEW t \in Tasks, Submit(c, t) PROVE IdleInv'
    BY <1>4, <1>5 DEF Submit
  <1>6. ASSUME NEW c \in Clients, SubmitWake(c) PROVE IdleInv'
    <2>1. blocked[c] \in Tasks /\ owner = "ready"
      BY <1>6 DEF SubmitWake, TypeOK, OwnerInv
    <2> QED
      BY <1>4, <1>6, <2>1 DEF SubmitWake
  <1>7. CASE DestroyNext
    BY <1>7 DEF DestroyNext, DestroyStore, DestroyLock, DestroyWake,
                SpuriousExitWake, ExitPredicate, IdleInv
  <1>8. CASE UNCHANGED vars
    <2>1. \A v \in Workers : (v \in Idle)' <=> v \in Idle
      BY <1>8 DEF vars, Idle, Live
    <2> QED
      BY <1>8, <2>1, SameIdle DEF vars, IdleInv
  <1> QED
    BY <1>1, <1>2, <1>3, <1>5, <1>6, <1>7, <1>8, StartDoneIdle, WorkerIdle
    DEF Next, StartNext, ClientNext, Terminated

LEMMA InitIdle == Init => IdleInv
  BY DEF Init, IdleInv

(* In a CACHED pool started once m_cur_size_ is the number of threads in the *)
(* map and m_idle_size_ the number of workers outside a task, although it is *)
(* written outside the lock; so submit_task decides to grow on true values   *)
(* and neither unsigned counter wraps.                                       *)
THEOREM CountersExact ==
  ASSUME Starts <= 1, Mode = "CACHED"
  PROVE  Spec => []SizesExact
PROOF
  <1> DEFINE Inv == /\ TypeOK /\ QueueBounded /\ OwnerInv
                    /\ IdInv /\ PhaseInv /\ SizeInv /\ IdleInv
  <1>1. Init => Inv
    BY InitQueue, InitThreads, InitSizes, InitIdle
  <1>2. Inv /\ [Next]_vars => Inv'
    BY TypeStep, QueueStep, IdStep, PhaseStep, SizeStep, IdleStep
  <1>3. Inv => SizesExact
    BY DEF SizeInv, IdleInv, Idle, SizesExact
  <1> QED
    BY <1>1, <1>2, <1>3, PTL DEF Spec
=============================================================================
