---------------------------- MODULE TimerManager ----------------------------
(***************************************************************************)
(* The timer service (timer/): HncTimerManager with its map of timers,      *)
(* HncTimerThread with the epoll loop, HncTimer with its timerfd, and the   *)
(* part of the kernel they rely on (descriptors, expirations, the           *)
(* edge-triggered epoll set).                                               *)
(*                                                                          *)
(* The listener is the first task of a FIXED pool; callbacks are later      *)
(* tasks of the same pool, a FIFO queue executed by other threads than the  *)
(* listener's.  init() starts the pool a second time, so some of its        *)
(* threads have a twin with the same id, which the destructor of the pool   *)
(* does not wait for: Twins of them may outlive the manager.                *)
(*                                                                          *)
(* Two history variables.  confused: a descriptor was used after it had     *)
(* changed hands,                                                           *)
(*   - close() hit the descriptor of another timer,                         *)
(*   - a callback was looked up for a descriptor that is not in the map,    *)
(*     which leaves an empty entry there,                                   *)
(*   - read() was called on the descriptor of another timer.                *)
(* misread: the timers a read() has failed for, so that expirations was     *)
(* what happened to be on the stack.                                        *)
(*                                                                          *)
(* DestroyKeepsFd, ErasedKept, UnhandledDropped, AfterReadKept,             *)
(* CallsLeftOffByOne, ReleasedAtOnce and StopNotifySilent are seeded faults *)
(* that show what the properties detect; Next uses none of them.            *)
(***************************************************************************)
EXTENDS Integers, Sequences, FiniteSetsExt

CONSTANTS
  Timers,      \* bound: the HncTimer objects of a run
  Repeating,   \* those created with repeat = true
  Fds,         \* bound: descriptor numbers timerfd_create may return
  Clients,     \* threads that add and remove timers
  Executors,   \* pool threads that run callbacks
  MaxTicks,    \* bound: expirations of a repeating timer
  Twins,       \* threads the destructor of the pool does not wait for
  Garbage,     \* values an uninitialised expirations may have
  Absent,      \* no entry in m_timers_
  NoTimer      \* nullptr, or a descriptor that is not open

ASSUME TimerAssumption ==
  /\ Repeating \subseteq Timers
  /\ Fds \subseteq Nat \ {0} /\ Fds # {}
  /\ MaxTicks \in Nat \ {0}
  /\ Twins \in Nat
  /\ Garbage \subseteq Nat /\ Garbage # {}
  /\ Absent \notin Timers /\ NoTimer \notin Timers /\ Absent # NoTimer

VARIABLES
  m_timers,    \* m_timers_: what each descriptor is mapped to
  m_running,   \* m_running_
  latch,       \* lch has been counted down
  obj,         \* life of each HncTimer
  fdOf,        \* m_timer_fd_
  file,        \* kernel: the timer each descriptor refers to
  watched,     \* kernel: descriptors in the epoll set
  ready,       \* kernel: those with an event not yet delivered
  event,       \* kernel: m_event_fd_ has an event not yet delivered
  ticks,       \* kernel: expirations not yet read
  lpc,         \* where the listener is
  got,         \* events epoll_wait returned and the loop has not handled
  que,         \* callback(fd) tasks queued in the pool
  xpc,         \* where each executor is in HncTimerManager::callback
  xtm,         \* its timer_ptr
  xn,          \* callbacks it still has to make
  cpc,         \* where each client is
  ctm,         \* the timer it is adding or has erased
  added,       \* timers whose add_timer has returned and nobody has removed
  app,         \* where the owner of the manager is
  expired,     \* history: expirations of each timer
  fired,       \* history: callbacks made for each timer
  misread,     \* history: see above
  confused     \* history: see above

kernel   == <<file, watched, ready>>
exVars   == <<xpc, xtm, xn>>
cliVars  == <<cpc, ctm, added>>
stopVars == <<m_running, latch, event, app>>
hist     == <<expired, fired, misread>>
vars == <<m_timers, obj, fdOf, kernel, ticks, lpc, got, que, exVars, cliVars,
          stopVars, hist, confused>>

(* The number of m_event_fd_ in got. *)
EventFd == 0
-----------------------------------------------------------------------------
(* HncTimerManager::start has run: the pool is started, the listener is its  *)
(* first task.                                                               *)
Init ==
  /\ m_timers = [f \in Fds |-> Absent]
  /\ m_running = TRUE
  /\ latch = FALSE
  /\ obj = [t \in Timers |-> "none"]
  /\ fdOf = [t \in Timers |-> CHOOSE f \in Fds : TRUE]
  /\ file = [f \in Fds |-> NoTimer]
  /\ watched = {}
  /\ ready = {}
  /\ event = FALSE
  /\ ticks = [t \in Timers |-> 0]
  /\ lpc = "test"
  /\ got = {}
  /\ que = <<>>
  /\ xpc = [x \in Executors |-> "idle"]
  /\ xtm = [x \in Executors |-> NoTimer]
  /\ xn = [x \in Executors |-> 0]
  /\ cpc = [c \in Clients |-> "idle"]
  /\ ctm = [c \in Clients |-> NoTimer]
  /\ added = {}
  /\ app = "open"
  /\ expired = [t \in Timers |-> 0]
  /\ fired = [t \in Timers |-> 0]
  /\ misread = {}
  /\ confused = FALSE

(* m_mtx_ is held across two steps only by remove_timer. *)
MtxFree == \A c \in Clients : cpc[c] # "erased"

(* A shared_ptr to t besides that of executor x. *)
Referenced(t, x) ==
  (\E f \in Fds : m_timers[f] = t) \/ (\E y \in Executors \ {x} : xtm[y] = t)

(* close(f): the descriptor leaves the epoll set with its events.  A         *)
(* descriptor that is not open is left alone (EBADF).                        *)
Close(f) ==
  /\ file' = [file EXCEPT ![f] = NoTimer]
  /\ watched' = watched \ {f}
  /\ ready' = ready \ {f}

Foreign(f, t) == file[f] \notin {NoTimer, t}

(* HncTimer::~HncTimer. *)
DestroyKeepsFd(t) ==
  /\ obj' = [obj EXCEPT ![t] = "dead"]
  /\ UNCHANGED kernel

Destroy(t) ==
  /\ obj' = [obj EXCEPT ![t] = "dead"]
  /\ Close(fdOf[t])

KeepTimer == UNCHANGED <<obj, kernel>>
-----------------------------------------------------------------------------
(* The kernel: t expires.  A watched descriptor gets a new event each time,  *)
(* whether or not the last one was read.                                     *)
Tick(t) ==
  /\ obj[t] = "live"
  /\ file[fdOf[t]] = t
  /\ expired[t] < (IF t \in Repeating THEN MaxTicks ELSE 1)
  /\ expired' = [expired EXCEPT ![t] = @ + 1]
  /\ ticks' = [ticks EXCEPT ![t] = @ + 1]
  /\ ready' = IF fdOf[t] \in watched THEN ready \cup {fdOf[t]} ELSE ready
  /\ UNCHANGED <<m_timers, obj, fdOf, file, watched, lpc, got, que, exVars,
                 cliVars, stopVars, fired, misread, confused>>
-----------------------------------------------------------------------------
(* add_timer.  The HncTimer is created and armed before the lock is taken;   *)
(* any free number may be its descriptor, as other threads open files, too.  *)
AddCreate(c, t, f) ==
  /\ app = "open"
  /\ cpc[c] = "idle"
  /\ obj[t] = "none"
  /\ file[f] = NoTimer
  /\ obj' = [obj EXCEPT ![t] = "live"]
  /\ fdOf' = [fdOf EXCEPT ![t] = f]
  /\ file' = [file EXCEPT ![f] = t]
  /\ cpc' = [cpc EXCEPT ![c] = "created"]
  /\ ctm' = [ctm EXCEPT ![c] = t]
  /\ UNCHANGED <<m_timers, watched, ready, ticks, lpc, got, que, exVars, added,
                 stopVars, hist, confused>>

(* EPOLL_CTL_ADD of f; it reports at once what has already expired. *)
Watch(f) ==
  /\ watched' = watched \cup {f}
  /\ ready' = IF ticks[file[f]] > 0 THEN ready \cup {f} ELSE ready
  /\ UNCHANGED file

(* Under the lock: emplace does nothing when there is an entry, an empty one *)
(* included; timer_ptr then was the only reference and the timer dies.  A    *)
(* descriptor that cannot be added to epoll is closed.                       *)
AddRegister(c) ==
  /\ cpc[c] = "created"
  /\ MtxFree
  /\ LET t == ctm[c]
         f == fdOf[t]
     IN /\ IF m_timers[f] = Absent
           THEN /\ m_timers' = [m_timers EXCEPT ![f] = t]
                /\ UNCHANGED obj
                /\ IF file[f] # NoTimer /\ f \notin watched THEN Watch(f) ELSE Close(f)
           ELSE /\ Destroy(t)
                /\ UNCHANGED m_timers
        /\ confused' = (confused \/ Foreign(f, t))
        /\ added' = added \cup {t}
  /\ cpc' = [cpc EXCEPT ![c] = "idle"]
  /\ ctm' = [ctm EXCEPT ![c] = NoTimer]
  /\ UNCHANGED <<fdOf, ticks, lpc, got, que, exVars, stopVars, hist>>

(* m_timers_.erase(f). *)
ErasedKept(f) == m_timers
Erased(f) == [m_timers EXCEPT ![f] = Absent]

(* remove_timer: the entry is erased, and the timer dies with it unless a    *)
(* callback holds it; then, still under the lock, the descriptor is taken    *)
(* out of epoll and closed, in most cases for the second time.               *)
RemoveErase(c, t) ==
  /\ app = "open"
  /\ cpc[c] = "idle"
  /\ MtxFree
  /\ t \in added
  /\ added' = added \ {t}
  /\ LET f == fdOf[t]
         u == m_timers[f]
     IN /\ m_timers' = Erased(f)
        /\ IF u \in Timers /\ \A x \in Executors : xtm[x] # u
           THEN Destroy(u) /\ confused' = (confused \/ u # t \/ Foreign(fdOf[u], u))
           ELSE KeepTimer /\ UNCHANGED confused
  /\ cpc' = [cpc EXCEPT ![c] = "erased"]
  /\ ctm' = [ctm EXCEPT ![c] = t]
  /\ UNCHANGED <<fdOf, ticks, lpc, got, que, exVars, stopVars, hist>>

RemoveClose(c) ==
  /\ cpc[c] = "erased"
  /\ Close(fdOf[ctm[c]])
  /\ confused' = (confused \/ Foreign(fdOf[ctm[c]], ctm[c]))
  /\ cpc' = [cpc EXCEPT ![c] = "idle"]
  /\ ctm' = [ctm EXCEPT ![c] = NoTimer]
  /\ UNCHANGED <<m_timers, obj, fdOf, ticks, lpc, got, que, exVars, added,
                 stopVars, hist>>
-----------------------------------------------------------------------------
(* HncTimerThread::operator(): the listener.                                 *)
ListenTest ==
  /\ lpc = "test"
  /\ lpc' = IF m_running THEN "wait" ELSE "exited"
  /\ UNCHANGED <<m_timers, obj, fdOf, kernel, ticks, got, que, exVars, cliVars,
                 stopVars, hist, confused>>

(* Edge-triggered: what epoll_wait returns is not reported again. *)
ListenWait ==
  /\ lpc = "wait"
  /\ event \/ ready # {}
  /\ got' = ready \cup (IF event THEN {EventFd} ELSE {})
  /\ ready' = {}
  /\ event' = FALSE
  /\ lpc' = "handle"
  /\ UNCHANGED <<m_timers, obj, fdOf, file, watched, ticks, que, exVars, cliVars,
                 m_running, latch, app, hist, confused>>

(* A signal while nothing is ready: epoll_wait returns -1 and the loop       *)
(* handles nothing.                                                          *)
ListenInterrupted ==
  /\ lpc = "wait"
  /\ ~event /\ ready = {}
  /\ lpc' = "test"
  /\ UNCHANGED <<m_timers, obj, fdOf, kernel, ticks, got, que, exVars, cliVars,
                 stopVars, hist, confused>>

(* The loop over the events goes on after f. *)
UnhandledDropped(f) == {}
Unhandled(f) == got \ {f}

ListenSubmit(f) ==
  /\ lpc = "handle"
  /\ f \in got \ {EventFd}
  /\ que' = Append(que, f)
  /\ got' = Unhandled(f)
  /\ lpc' = IF got' = {} THEN "test" ELSE "handle"
  /\ UNCHANGED <<m_timers, obj, fdOf, kernel, ticks, exVars, cliVars, stopVars,
                 hist, confused>>

(* The event of stop(): what is left of the events is dropped. *)
ListenExit ==
  /\ lpc = "handle"
  /\ EventFd \in got
  /\ latch' = TRUE
  /\ got' = {}
  /\ lpc' = "exited"
  /\ UNCHANGED <<m_timers, obj, fdOf, kernel, ticks, que, exVars, cliVars,
                 m_running, event, app, hist, confused>>
-----------------------------------------------------------------------------
(* HncTimerManager::callback in a pool thread.  operator[] enters a null     *)
(* pointer for a descriptor that is not in the map.  A twin that gets here   *)
(* when the manager is gone is beyond the model.                             *)
CallbackLookup(x) ==
  /\ app # "gone"
  /\ xpc[x] = "idle"
  /\ que # <<>>
  /\ MtxFree
  /\ que' = Tail(que)
  /\ LET f == Head(que)
         t == m_timers[f]
     IN \/ /\ t = Absent
           /\ m_timers' = [m_timers EXCEPT ![f] = NoTimer]
           /\ confused' = TRUE
           /\ UNCHANGED exVars
        \/ /\ t = NoTimer
           /\ UNCHANGED <<m_timers, confused, exVars>>
        \/ /\ t \in Timers
           /\ xpc' = [xpc EXCEPT ![x] = "read"]
           /\ xtm' = [xtm EXCEPT ![x] = t]
           /\ UNCHANGED <<m_timers, confused, xn>>
  /\ UNCHANGED <<obj, fdOf, kernel, ticks, lpc, got, cliVars, stopVars, hist>>

(* read() resets the count. *)
AfterReadKept(u) == ticks
AfterRead(u) == [ticks EXCEPT ![u] = 0]

(* HncTimer::callback: read() of the descriptor.  When it fails (EAGAIN or   *)
(* EBADF) expirations keeps whatever was on the stack.                       *)
ReadTimer(x) ==
  /\ xpc[x] = "read"
  /\ LET u == file[fdOf[xtm[x]]]
     IN IF u # NoTimer /\ ticks[u] > 0
        THEN /\ xn' = [xn EXCEPT ![x] = ticks[u]]
             /\ ticks' = AfterRead(u)
             /\ confused' = (confused \/ u # xtm[x])
             /\ UNCHANGED misread
        ELSE /\ \E n \in Garbage : xn' = [xn EXCEPT ![x] = n]
             /\ confused' = (confused \/ u \notin {NoTimer, xtm[x]})
             /\ misread' = misread \cup {xtm[x]}
             /\ UNCHANGED ticks
  /\ xpc' = [xpc EXCEPT ![x] = "run"]
  /\ UNCHANGED <<m_timers, obj, fdOf, kernel, lpc, got, que, xtm, cliVars,
                 stopVars, expired, fired>>

(* m_callback_(), as often as expirations says. *)
CallsLeftOffByOne(x) == xn[x] >= 0
CallsLeft(x) == xn[x] > 0

RunCallback(x) ==
  /\ xpc[x] = "run"
  /\ CallsLeft(x)
  /\ xn' = [xn EXCEPT ![x] = @ - 1]
  /\ fired' = [fired EXCEPT ![xtm[x]] = @ + 1]
  /\ UNCHANGED <<m_timers, obj, fdOf, kernel, ticks, lpc, got, que, xpc, xtm,
                 cliVars, stopVars, expired, misread, confused>>

(* timer_ptr goes out of scope, perhaps as the last reference. *)
CallbackDone(x) ==
  /\ xpc[x] = "run"
  /\ ~CallsLeft(x)
  /\ LET t == xtm[x]
     IN IF Referenced(t, x)
        THEN KeepTimer /\ UNCHANGED confused
        ELSE Destroy(t) /\ confused' = (confused \/ Foreign(fdOf[t], t))
  /\ xpc' = [xpc EXCEPT ![x] = "idle"]
  /\ xtm' = [xtm EXCEPT ![x] = NoTimer]
  /\ UNCHANGED <<m_timers, fdOf, ticks, lpc, got, que, xn, cliVars, stopVars, hist>>
-----------------------------------------------------------------------------
(* ~HncTimerManager, when nobody uses the manager any more: stop(), then the *)
(* members, m_timer_thread_ with its pool first and m_timers_ last.          *)
StopStore ==
  /\ app = "open"
  /\ \A c \in Clients : cpc[c] = "idle"
  /\ m_running' = FALSE
  /\ app' = "stopping"
  /\ UNCHANGED <<m_timers, obj, fdOf, kernel, ticks, lpc, got, que, exVars,
                 cliVars, latch, event, hist, confused>>

StopNotifySilent ==
  /\ app = "stopping"
  /\ app' = "latch"
  /\ UNCHANGED <<m_timers, obj, fdOf, kernel, ticks, lpc, got, que, exVars,
                 cliVars, m_running, latch, event, hist, confused>>

StopNotify ==
  /\ app = "stopping"
  /\ event' = TRUE
  /\ app' = "latch"
  /\ UNCHANGED <<m_timers, obj, fdOf, kernel, ticks, lpc, got, que, exVars,
                 cliVars, m_running, latch, hist, confused>>

(* lch.wait(), then the epoll descriptor and the eventfd are closed. *)
ReleasedAtOnce == TRUE
Released == latch

StopWait ==
  /\ app = "latch"
  /\ Released
  /\ app' = "stopped"
  /\ watched' = {}
  /\ ready' = {}
  /\ event' = FALSE
  /\ UNCHANGED <<m_timers, obj, fdOf, file, ticks, lpc, got, que, exVars,
                 cliVars, m_running, latch, hist, confused>>

(* The pool is destroyed when every id has left, so twins at most still      *)
(* have a callback to make, and after it the map.  A timer that one of them  *)
(* holds outlives it.                                                        *)
Held(t) == \E x \in Executors : xtm[x] = t

DestroyMembers ==
  /\ app = "stopped"
  /\ lpc = "exited"
  /\ Len(que) + Cardinality({x \in Executors : xpc[x] # "idle"}) <= Twins
  /\ app' = "gone"
  /\ LET last == {t \in Timers : (\E f \in Fds : m_timers[f] = t) /\ ~Held(t)} IN
       /\ obj' = [t \in Timers |-> IF t \in last THEN "dead" ELSE obj[t]]
       /\ file' = [f \in Fds |-> IF \E t \in last : fdOf[t] = f THEN NoTimer ELSE file[f]]
       /\ confused' = (confused \/ \E t \in last : Foreign(fdOf[t], t))
  /\ m_timers' = [f \in Fds |-> Absent]
  /\ UNCHANGED <<fdOf, watched, ready, ticks, lpc, got, que, exVars, cliVars,
                 m_running, latch, event, hist>>
-----------------------------------------------------------------------------
ClientStep(c) == AddRegister(c) \/ RemoveClose(c)

ClientCall(c) ==
  \E t \in Timers : RemoveErase(c, t) \/ \E f \in Fds : AddCreate(c, t, f)

ListenerStep ==
  ListenTest \/ ListenWait \/ (\E f \in got : ListenSubmit(f)) \/ ListenExit

ExecutorStep(x) ==
  CallbackLookup(x) \/ ReadTimer(x) \/ RunCallback(x) \/ CallbackDone(x)

OwnerStep == StopNotify \/ StopWait \/ DestroyMembers

Next ==
  \/ \E t \in Timers : Tick(t)
  \/ \E c \in Clients : ClientCall(c) \/ ClientStep(c)
  \/ ListenerStep
  \/ ListenInterrupted
  \/ \E x \in Executors : ExecutorStep(x)
  \/ StopStore
  \/ OwnerStep

Spec == Init /\ [][Next]_vars

(* Every thread that can run does, and m_callback_ returns.  Nobody has to   *)
(* add, to remove, to stop or to send a signal, and a timer need not expire. *)
(* Every step of a thread changes the variables in its subscript, so they    *)
(* say what vars would say there, and TLC evaluates them sooner.             *)
Fairness ==
  /\ \A c \in Clients : WF_cpc(ClientStep(c))
  /\ WF_<<lpc, got>>(ListenerStep)
  /\ \A x \in Executors : WF_<<xpc, xn, que>>(ExecutorStep(x))
  /\ WF_app(OwnerStep)

FairSpec == Spec /\ Fairness
-----------------------------------------------------------------------------
(* Every variable of the timer service has the type its declaration gives it. *)
TypeOK ==
  /\ m_timers \in [Fds -> Timers \cup {Absent, NoTimer}]
  /\ m_running \in BOOLEAN /\ latch \in BOOLEAN /\ event \in BOOLEAN
  /\ obj \in [Timers -> {"none", "live", "dead"}]
  /\ fdOf \in [Timers -> Fds]
  /\ file \in [Fds -> Timers \cup {NoTimer}]
  /\ watched \subseteq Fds /\ ready \subseteq watched
  /\ ticks \in [Timers -> 0 .. MaxTicks]
  /\ lpc \in {"test", "wait", "handle", "exited"}
  /\ got \subseteq Fds \cup {EventFd}
  /\ que \in Seq(Fds)
  /\ xpc \in [Executors -> {"idle", "read", "run"}]
  /\ xtm \in [Executors -> Timers \cup {NoTimer}]
  /\ xn \in [Executors -> Nat]
  /\ cpc \in [Clients -> {"idle", "created", "erased"}]
  /\ ctm \in [Clients -> Timers \cup {NoTimer}]
  /\ added \subseteq Timers
  /\ app \in {"open", "stopping", "latch", "stopped", "gone"}
  /\ expired \in [Timers -> 0 .. MaxTicks]
  /\ fired \in [Timers -> Nat]
  /\ misread \subseteq Timers
  /\ confused \in BOOLEAN

(* stop() does not close the epoll descriptor while the listener can still   *)
(* wait on it, nor lets the manager die that the listener points to.         *)
StopSafe == app \in {"stopped", "gone"} => lpc = "exited"

(* No descriptor leaks: every open timerfd is the descriptor of a timer that *)
(* is alive, and once the manager is gone only of one whose last callback    *)
(* still runs, although removal, that callback and the end of the manager    *)
(* all compete to close it.                                                  *)
NoFdLeak ==
  \A f \in Fds : file[f] # NoTimer =>
    /\ obj[file[f]] = "live" /\ fdOf[file[f]] = f
    /\ app = "gone" => Held(file[f])

(* The calls of t made, about to be made, or owed for unread expirations.    *)
Calls(t) ==
  ticks[t] + fired[t] + MapThenSumSet(LAMBDA x : xn[x], {x \in Executors : xtm[x] = t})

(* Unless a descriptor was used after it had changed hands, no expiration is *)
(* lost, and each leads to exactly one call of the timer's own callback, as  *)
(* HncTimer::callback intends.  A timer is called more often than it expired *)
(* only if a read() has failed for it: that of the second of two callbacks   *)
(* queued for it, or one after its removal.                                  *)
OnePerExpiration ==
  ~confused => \A t \in Timers :
    /\ expired[t] <= Calls(t)
    /\ t \notin misread => expired[t] = Calls(t)

(* Unless a descriptor has, a timer stays registered from add_timer until    *)
(* remove_timer, whatever is added or removed meanwhile: it is in the map,   *)
(* its descriptor is its own, and the listener watches it.                   *)
Registered ==
  ~confused /\ app = "open" => \A t \in added :
    /\ m_timers[fdOf[t]] = t
    /\ file[fdOf[t]] = t
    /\ fdOf[t] \in watched

(* A registered timer that has expired is called, although edge-triggered    *)
(* events are reported once and it may have expired before it was watched.   *)
TimerFires ==
  \A t \in Timers :
    (t \in added /\ expired[t] > 0) ~>
      (fired[t] > 0 \/ t \notin added \/ confused \/ app # "open")

(* stop() returns: the listener takes the event and counts the latch down.   *)
(* The one way it does not is that the listener has left through its loop    *)
(* condition, which stop() falsified before it sent the event; then nobody   *)
(* is left to count, and stop() blocks for ever (hnc_timer_thread.cpp).      *)
StopReturns == app = "latch" ~> (app = "stopped" \/ (lpc = "exited" /\ ~latch))
=============================================================================
