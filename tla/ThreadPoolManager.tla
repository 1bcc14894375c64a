-------------------------- MODULE ThreadPoolManager --------------------------
(***************************************************************************)
(* ThreadPoolManager (hnc_thread_pool.h) and the thread ids all pools       *)
(* share: m_get_pool makes and starts a pool under m_mtx_;                  *)
(* HncTimerThread::init starts its pool again without that lock; a CACHED   *)
(* pool grows under its own.  ++m_generateId_ is a load and a store of a    *)
(* plain static int.                                                        *)
(*                                                                          *)
(* Of a pool only the map of its HncThread objects and the threads they     *)
(* have started are kept; ThreadPool has the rest.  m_thread_pools_ is      *)
(* always empty: the line that would enter a pool is commented out, so the  *)
(* branch that returns an existing pool is never taken.                     *)
(*                                                                          *)
(* lost and outside are history variables: an increment of m_generateId_    *)
(* has overwritten another; one has begun without m_mtx_.                   *)
(*                                                                          *)
(* FreeAnyway and NextIdSame are seeded faults that show what the           *)
(* properties detect; Next uses none of them.                               *)
(***************************************************************************)
EXTENDS Integers, FiniteSets, Bags

CONSTANTS
  Clients,    \* threads that ask for pools and submit tasks
  Counts,     \* the thread_count arguments, of type size_t
  MaxPools,   \* bound: pools made
  MaxGrow,    \* bound: threads added to a pool by submit_task
  Nobody

ASSUME ManagerAssumption ==
  /\ Counts \subseteq Nat
  /\ MaxPools \in Nat /\ MaxGrow \in Nat
  /\ Nobody \notin Clients

VARIABLES
  m_mtx,       \* who holds ThreadPoolManager::m_mtx_
  generateId,  \* HncThread::m_generateId_
  made,        \* how many pools have been made; of each pool:
  mode,        \*   m_mode_
  asked,       \*   the thread_count asked for
  threads,     \*   the ids in m_threads_
  running,     \*   the ids of the threads that run
  m_task_mtx,  \*   who holds its m_task_mtx_
  starts,      \*   how often it was started
  grown,       \*   how often it has grown
  at,          \* what each client does: "idle", "start" or "grow",
  pool,        \*   in which pool (0: none),
  left,        \*   the HncThread objects it still has to make,
  loaded,      \*   what it has loaded from m_generateId_ (-1: nothing)
  lost,        \* history: see above
  outside

poolVars == <<made, mode, asked, starts, grown>>
vars == <<m_mtx, generateId, made, mode, asked, threads, running, m_task_mtx, starts, grown,
          at, pool, left, loaded, lost, outside>>

Pools == 1 .. MaxPools

Init ==
  /\ m_mtx = Nobody
  /\ generateId = 0
  /\ made = 0
  /\ mode = [p \in Pools |-> "FIXED"]
  /\ asked = [p \in Pools |-> 0]
  /\ threads = [p \in Pools |-> {}]
  /\ running = [p \in Pools |-> EmptyBag]
  /\ m_task_mtx = [p \in Pools |-> Nobody]
  /\ starts = [p \in Pools |-> 0]
  /\ grown = [p \in Pools |-> 0]
  /\ at = [c \in Clients |-> "idle"]
  /\ pool = [c \in Clients |-> 0]
  /\ left = [c \in Clients |-> 0]
  /\ loaded = [c \in Clients |-> -1]
  /\ lost = FALSE
  /\ outside = FALSE

(* std::mutex and its guards (external). *)
FreeAnyway(holder) == TRUE
Free(holder) == holder = Nobody
Unlock(c) == IF m_mtx = c THEN Nobody ELSE m_mtx

(* Client c begins to make n threads for pool p; it has finished. *)
Begin(c, what, p, n) ==
  /\ at[c] = "idle"
  /\ at' = [at EXCEPT ![c] = what]
  /\ pool' = [pool EXCEPT ![c] = p]
  /\ left' = [left EXCEPT ![c] = n]
  /\ UNCHANGED <<loaded, generateId, lost, running>>

End(c) ==
  /\ at' = [at EXCEPT ![c] = "idle"]
  /\ pool' = [pool EXCEPT ![c] = 0]

(* thread_count becomes the uint8_t parameter of the constructor. *)
InitSize(n) == n % 256

(* get_fixed_pool, get_cached_pool: m_get_pool makes a pool and starts it. *)
GetPool(c, m, n) ==
  /\ made < MaxPools
  /\ Free(m_mtx)
  /\ Begin(c, "start", made + 1, InitSize(n))
  /\ m_mtx' = c
  /\ made' = made + 1
  /\ mode' = [mode EXCEPT ![made + 1] = m]
  /\ asked' = [asked EXCEPT ![made + 1] = n]
  /\ starts' = [starts EXCEPT ![made + 1] = 1]
  /\ UNCHANGED <<threads, m_task_mtx, grown, outside>>

(* HncTimerThread::init starts the pool it has just got once more. *)
StartAgain(c, p) ==
  /\ mode[p] = "FIXED" /\ starts[p] = 1
  /\ \A b \in Clients : pool[b] # p
  /\ Begin(c, "start", p, InitSize(asked[p]))
  /\ starts' = [starts EXCEPT ![p] = 2]
  /\ outside' = TRUE
  /\ UNCHANGED <<m_mtx, made, mode, asked, threads, m_task_mtx, grown>>

(* submit_task adds a thread to a CACHED pool, under m_task_mtx_. *)
Grow(c, p) ==
  /\ mode[p] = "CACHED" /\ grown[p] < MaxGrow
  /\ \A b \in Clients : ~(pool[b] = p /\ at[b] = "start")
  /\ Free(m_task_mtx[p])
  /\ Begin(c, "grow", p, 1)
  /\ m_task_mtx' = [m_task_mtx EXCEPT ![p] = c]
  /\ grown' = [grown EXCEPT ![p] = @ + 1]
  /\ outside' = TRUE
  /\ UNCHANGED <<m_mtx, made, mode, asked, threads, starts>>

(* The constructor of HncThread loads the counter ...  *)
LoadId(c) ==
  /\ left[c] > 0 /\ loaded[c] = -1
  /\ loaded' = [loaded EXCEPT ![c] = generateId]
  /\ UNCHANGED <<m_mtx, generateId, poolVars, threads, running, m_task_mtx, at, pool, left,
                 lost, outside>>

(* ... and stores it; emplace does nothing when the id is already there.     *)
(* The growing pool starts the object that is in the map under this id,      *)
(* which need not be the new one.                                            *)
NextIdSame(n) == n
NextId(n) == n + 1

StoreId(c) ==
  LET p == pool[c]
      id == NextId(loaded[c])
  IN /\ loaded[c] # -1
     /\ generateId' = id
     /\ lost' = (lost \/ generateId # loaded[c])
     /\ threads' = [threads EXCEPT ![p] = @ \cup {id}]
     /\ left' = [left EXCEPT ![c] = @ - 1]
     /\ loaded' = [loaded EXCEPT ![c] = -1]
     /\ \/ /\ at[c] = "grow"
           /\ running' = [running EXCEPT ![p] = @ (+) SetToBag({id})]
           /\ m_task_mtx' = [m_task_mtx EXCEPT ![p] = Nobody]
           /\ End(c)
        \/ /\ at[c] = "start"
           /\ UNCHANGED <<running, m_task_mtx, at, pool>>
     /\ UNCHANGED <<m_mtx, poolVars, outside>>

(* The end of start(): every HncThread in the map is started, those of an    *)
(* earlier start too; m_get_pool releases its lock.                          *)
Started(c) ==
  LET p == pool[c] IN
    /\ at[c] = "start" /\ left[c] = 0
    /\ running' = [running EXCEPT ![p] = @ (+) SetToBag(threads[p])]
    /\ m_mtx' = Unlock(c)
    /\ End(c)
    /\ UNCHANGED <<generateId, poolVars, threads, m_task_mtx, left, loaded, lost, outside>>

Step(c) == LoadId(c) \/ StoreId(c) \/ Started(c)

Next ==
  \E c \in Clients :
    \/ \E m \in {"FIXED", "CACHED"}, n \in Counts : GetPool(c, m, n)
    \/ \E p \in Pools : StartAgain(c, p) \/ Grow(c, p)
    \/ Step(c)

Spec == Init /\ [][Next]_vars
-----------------------------------------------------------------------------
(* No call is under way in pool p. *)
Quiet(p) == \A c \in Clients : pool[c] # p

(* As long as no increment of the counter was lost no id is given out twice, *)
(* and in a pool that was started once every id in the map belongs to one    *)
(* running thread: only then does the erase of one thread not take another   *)
(* out of the map (ThreadPool!SafeDestroy).  The pool has the threads asked  *)
(* for, if they are fewer than 256.                                          *)
OneThreadPerId ==
  ~lost =>
    /\ \A p, q \in Pools : p # q => threads[p] \cap threads[q] = {}
    /\ \A p \in Pools : Quiet(p) /\ starts[p] = 1 =>
         /\ running[p] = SetToBag(threads[p])
         /\ asked[p] < 256 => Cardinality(threads[p]) = asked[p] + grown[p]

(* m_mtx_ is enough as long as pools are only made and started by            *)
(* m_get_pool: an increment is lost only after a pool has grown or was       *)
(* started again.                                                            *)
LostOnlyOutside == lost => outside
=============================================================================
