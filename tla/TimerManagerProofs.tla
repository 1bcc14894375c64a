------------------------- MODULE TimerManagerProofs -------------------------
(***************************************************************************)
(* What is proved of the timer service for any timers, descriptors, clients *)
(* and executors: its types, that stop() is safe, that no descriptor leaks, *)
(* that a timer stays registered until it is removed, and that it is called *)
(* once for each expiration.                                                *)
(***************************************************************************)
EXTENDS TimerManager, FiniteSetTheorems, TLAPS

(* A thread inside a call has the timer it works on; a counter is never      *)
(* ahead of the expirations it counts.                                       *)
Working ==
  /\ \A x \in Executors : xpc[x] # "idle" <=> xtm[x] # NoTimer
  /\ \A c \in Clients : cpc[c] # "idle" => ctm[c] \in Timers
  /\ \A t \in Timers : ticks[t] <= expired[t]

TypeInv == TypeOK /\ Working

LEMMA InitTypes == Init => TypeInv
PROOF
  <1>1. \A t \in Timers : (CHOOSE f \in Fds : TRUE) \in Fds
    BY TimerAssumption
  <1> SUFFICES ASSUME Init PROVE TypeInv
    OBVIOUS
  <1>2. fdOf \in [Timers -> Fds]
    BY <1>1 DEF Init
  <1>3. 0 \in 0 .. MaxTicks
    BY TimerAssumption
  <1>4. TypeOK
    <2>1. /\ ticks \in [Timers -> 0 .. MaxTicks] /\ expired \in [Timers -> 0 .. MaxTicks]
          /\ fired \in [Timers -> Nat] /\ xn \in [Executors -> Nat]
      BY <1>3 DEF Init
    <2>2. /\ m_timers \in [Fds -> Timers \cup {Absent, NoTimer}]
          /\ obj \in [Timers -> {"none", "live", "dead"}]
          /\ file \in [Fds -> Timers \cup {NoTimer}]
          /\ xpc \in [Executors -> {"idle", "read", "run"}]
          /\ xtm \in [Executors -> Timers \cup {NoTimer}]
          /\ cpc \in [Clients -> {"idle", "created", "erased"}]
          /\ ctm \in [Clients -> Timers \cup {NoTimer}]
      BY DEF Init
    <2>3. /\ m_running \in BOOLEAN /\ latch \in BOOLEAN /\ event \in BOOLEAN
          /\ confused \in BOOLEAN
      BY Zenon DEF Init
    <2>4. /\ que \in Seq(Fds)
          /\ lpc \in {"test", "wait", "handle", "exited"}
          /\ app \in {"open", "stopping", "latch", "stopped", "gone"}
          /\ watched \subseteq Fds /\ ready \subseteq watched
          /\ got \subseteq Fds \cup {EventFd} /\ added \subseteq Timers
          /\ misread \subseteq Timers
      BY DEF Init
    <2> QED
      BY <1>2, <2>1, <2>2, <2>3, <2>4 DEF TypeOK
  <1>5. Working
    BY DEF Init, Working
  <1> QED
    BY <1>4, <1>5 DEF TypeInv

LEMMA CloseTypes ==
  ASSUME TypeOK, NEW f \in Fds, Close(f)
  PROVE  /\ file' \in [Fds -> Timers \cup {NoTimer}]
         /\ watched' \subseteq Fds /\ ready' \subseteq watched'
BY DEF TypeOK, Close

LEMMA DestroyTypes ==
  ASSUME TypeOK, NEW t \in Timers, Destroy(t)
  PROVE  /\ obj' \in [Timers -> {"none", "live", "dead"}]
         /\ file' \in [Fds -> Timers \cup {NoTimer}]
         /\ watched' \subseteq Fds /\ ready' \subseteq watched'
PROOF
  <1>1. fdOf[t] \in Fds
    BY DEF TypeOK
  <1> QED
    BY <1>1, CloseTypes DEF TypeOK, Destroy

LEMMA StepTypes == TypeInv /\ [Next]_vars => TypeInv'
PROOF
  <1> SUFFICES ASSUME TypeInv, [Next]_vars PROVE TypeInv'
    OBVIOUS
  <1> USE DEF TypeInv, kernel, exVars, cliVars, stopVars, hist
  <1>1. ASSUME NEW t \in Timers, Tick(t) PROVE TypeInv'
    <2>1. expired[t] + 1 \in 0 .. MaxTicks /\ ticks[t] + 1 \in 0 .. MaxTicks
      <3>1. /\ expired[t] \in 0 .. MaxTicks /\ ticks[t] \in 0 .. MaxTicks
            /\ ticks[t] <= expired[t]
        BY DEF TypeOK, Working
      <3>2. expired[t] < MaxTicks
        BY <1>1, <3>1, TimerAssumption DEF Tick
      <3> QED
        BY <3>1, <3>2, TimerAssumption
    <2>2. /\ expired' \in [Timers -> 0 .. MaxTicks] /\ ticks' \in [Timers -> 0 .. MaxTicks]
          /\ \A u \in Timers : ticks'[u] <= expired'[u]
      BY <1>1, <2>1 DEF Tick, TypeOK, Working
    <2>3. ready' \subseteq watched
      BY <1>1 DEF Tick, TypeOK
    <2> QED
      BY <1>1, <2>2, <2>3 DEF Tick, TypeOK, Working
  <1>2. ASSUME NEW c \in Clients, NEW t \in Timers, NEW f \in Fds, AddCreate(c, t, f)
        PROVE  TypeInv'
    BY <1>2 DEF AddCreate, TypeOK, Working
  <1>3. ASSUME NEW c \in Clients, AddRegister(c) PROVE TypeInv'
    <2>1. PICK t \in Timers : t = ctm[c]
      BY <1>3 DEF AddRegister, Working
    <2>2. fdOf[t] \in Fds
      BY DEF TypeOK
    <2>3. /\ obj' \in [Timers -> {"none", "live", "dead"}]
          /\ m_timers' \in [Fds -> Timers \cup {Absent, NoTimer}]
          /\ file' \in [Fds -> Timers \cup {NoTimer}]
          /\ watched' \subseteq Fds /\ ready' \subseteq watched'
      <3>1. CASE m_timers[fdOf[t]] # Absent
        BY <1>3, <2>1, <3>1, DestroyTypes DEF AddRegister, TypeOK
      <3>2. CASE m_timers[fdOf[t]] = Absent /\ Close(fdOf[t])
        BY <1>3, <2>1, <2>2, <3>2, CloseTypes DEF AddRegister, TypeOK
      <3>3. CASE m_timers[fdOf[t]] = Absent /\ Watch(fdOf[t])
        BY <1>3, <2>1, <2>2, <3>3 DEF AddRegister, TypeOK, Watch
      <3> QED
        BY <1>3, <2>1, <3>1, <3>2, <3>3 DEF AddRegister
    <2>4. confused' \in BOOLEAN /\ added' \subseteq Timers
      BY <1>3, <2>1 DEF AddRegister, TypeOK
    <2> QED
      BY <1>3, <2>3, <2>4 DEF AddRegister, TypeOK, Working
  <1>4. ASSUME NEW c \in Clients, NEW t \in Timers, RemoveErase(c, t) PROVE TypeInv'
    <2>1. m_timers' \in [Fds -> Timers \cup {Absent, NoTimer}]
      BY <1>4 DEF RemoveErase, TypeOK, Erased
    <2>2. /\ obj' \in [Timers -> {"none", "live", "dead"}]
          /\ file' \in [Fds -> Timers \cup {NoTimer}]
          /\ watched' \subseteq Fds /\ ready' \subseteq watched'
      <3>1. CASE KeepTimer
        BY <3>1 DEF KeepTimer, TypeOK
      <3>2. ASSUME NEW u \in Timers, Destroy(u)
            PROVE /\ obj' \in [Timers -> {"none", "live", "dead"}]
                  /\ file' \in [Fds -> Timers \cup {NoTimer}]
                  /\ watched' \subseteq Fds /\ ready' \subseteq watched'
        BY <3>2, DestroyTypes
      <3> QED
        BY <1>4, <3>1, <3>2 DEF RemoveErase
    <2>3. confused' \in BOOLEAN
      BY <1>4 DEF RemoveErase, TypeOK
    <2> QED
      BY <1>4, <2>1, <2>2, <2>3 DEF RemoveErase, TypeOK, Working
  <1>5. ASSUME NEW c \in Clients, RemoveClose(c) PROVE TypeInv'
    <2>1. fdOf[ctm[c]] \in Fds
      BY <1>5 DEF RemoveClose, Working, TypeOK
    <2>2. /\ file' \in [Fds -> Timers \cup {NoTimer}]
          /\ watched' \subseteq Fds /\ ready' \subseteq watched'
      BY <1>5, <2>1, CloseTypes DEF RemoveClose
    <2> QED
      BY <1>5, <2>2 DEF RemoveClose, TypeOK, Working
  <1>6. CASE ListenTest \/ ListenInterrupted \/ ListenExit
    BY <1>6 DEF ListenTest, ListenInterrupted, ListenExit, TypeOK, Working
  <1>7. CASE ListenWait
    BY <1>7 DEF ListenWait, TypeOK, Working
  <1>8. ASSUME NEW f \in got, ListenSubmit(f) PROVE TypeInv'
    <2>1. f \in Fds
      BY <1>8 DEF ListenSubmit, TypeOK
    <2> QED
      BY <1>8, <2>1 DEF ListenSubmit, Unhandled, TypeOK, Working
  <1>9. ASSUME NEW x \in Executors, CallbackLookup(x) PROVE TypeInv'
    <2>1. Head(que) \in Fds /\ Tail(que) \in Seq(Fds)
      BY <1>9 DEF CallbackLookup, TypeOK
    <2>2. /\ m_timers' \in [Fds -> Timers \cup {Absent, NoTimer}]
          /\ xpc' \in [Executors -> {"idle", "read", "run"}]
          /\ xtm' \in [Executors -> Timers \cup {NoTimer}] /\ xn' = xn
          /\ \A y \in Executors : xpc'[y] # "idle" <=> xtm'[y] # NoTimer
      BY <1>9, <2>1, TimerAssumption, ZenonT(60) DEF CallbackLookup, TypeOK, Working
    <2>3. confused' \in BOOLEAN
      BY <1>9 DEF CallbackLookup, TypeOK
    <2> QED
      BY <1>9, <2>1, <2>2, <2>3 DEF CallbackLookup, TypeOK, Working
  <1>10. ASSUME NEW x \in Executors, ReadTimer(x) PROVE TypeInv'
    <2>1. xtm[x] \in Timers
      BY <1>10 DEF ReadTimer, TypeOK, Working
    <2>2. PICK u \in Timers \cup {NoTimer} : u = file[fdOf[xtm[x]]]
      BY <2>1 DEF TypeOK
    <2>3. /\ xn' \in [Executors -> Nat] /\ ticks' \in [Timers -> 0 .. MaxTicks]
          /\ \A t \in Timers : ticks'[t] <= expired[t]
      <3>1. CASE u # NoTimer /\ ticks[u] > 0
        <4>1. u \in Timers /\ ticks[u] \in Nat /\ 0 \in 0 .. MaxTicks
          BY <2>2, <3>1, TimerAssumption DEF TypeOK
        <4>2. xn' = [xn EXCEPT ![x] = ticks[u]] /\ ticks' = [ticks EXCEPT ![u] = 0]
          BY <1>10, <2>2, <3>1 DEF ReadTimer, AfterRead
        <4>3. \A t \in Timers : 0 <= expired[t]
          BY TimerAssumption DEF TypeOK
        <4> QED
          BY <4>1, <4>2, <4>3 DEF TypeOK, Working
      <3>2. CASE ~(u # NoTimer /\ ticks[u] > 0)
        <4>1. PICK n \in Garbage : xn' = [xn EXCEPT ![x] = n] /\ ticks' = ticks
          BY <1>10, <2>2, <3>2 DEF ReadTimer
        <4>2. n \in Nat
          BY TimerAssumption
        <4> QED
          BY <4>1, <4>2 DEF TypeOK, Working
      <3> QED
        BY <3>1, <3>2
    <2>4. confused' \in BOOLEAN /\ misread' \subseteq Timers
      <3>1. confused' \in BOOLEAN
        BY <1>10 DEF ReadTimer, TypeOK
      <3>2. misread' = misread \/ misread' = misread \cup {xtm[x]}
        BY <1>10 DEF ReadTimer
      <3> QED
        BY <2>1, <3>1, <3>2 DEF TypeOK
    <2> QED
      BY <1>10, <2>3, <2>4 DEF ReadTimer, TypeOK, Working
  <1>11. ASSUME NEW x \in Executors, RunCallback(x) PROVE TypeInv'
    <2>1. xtm[x] \in Timers
      BY <1>11 DEF RunCallback, TypeOK, Working
    <2> QED
      BY <1>11, <2>1 DEF RunCallback, CallsLeft, TypeOK, Working
  <1>12. ASSUME NEW x \in Executors, CallbackDone(x) PROVE TypeInv'
    <2>1. xtm[x] \in Timers
      BY <1>12 DEF CallbackDone, TypeOK, Working
    <2>2. /\ obj' \in [Timers -> {"none", "live", "dead"}]
          /\ file' \in [Fds -> Timers \cup {NoTimer}]
          /\ watched' \subseteq Fds /\ ready' \subseteq watched'
      <3>1. CASE KeepTimer
        BY <3>1 DEF KeepTimer, TypeOK
      <3>2. CASE Destroy(xtm[x])
        BY <2>1, <3>2, DestroyTypes
      <3> QED
        BY <1>12, <3>1, <3>2 DEF CallbackDone
    <2>3. confused' \in BOOLEAN
      BY <1>12 DEF CallbackDone, TypeOK
    <2> QED
      BY <1>12, <2>2, <2>3 DEF CallbackDone, TypeOK, Working
  <1>13. CASE StopStore \/ StopNotify \/ StopWait
    BY <1>13 DEF StopStore, StopNotify, StopWait, TypeOK, Working
  <1>14. CASE DestroyMembers
    BY <1>14 DEF DestroyMembers, TypeOK, Working
  <1>15. CASE UNCHANGED vars
    BY <1>15 DEF vars, TypeOK, Working
  <1> QED
    BY <1>1, <1>2, <1>3, <1>4, <1>5, <1>6, <1>7, <1>8, <1>9, <1>10, <1>11, <1>12,
       <1>13, <1>14, <1>15
    DEF Next, ClientCall, ClientStep, ListenerStep, ExecutorStep, OwnerStep

(* Every variable keeps its type, whatever timers and threads there are. *)
THEOREM TimerTypes == Spec => []TypeOK
PROOF
  <1>1. TypeInv => TypeOK
    BY DEF TypeInv
  <1> QED
    BY <1>1, InitTypes, StepTypes, PTL DEF Spec
-----------------------------------------------------------------------------
(* The latch is counted down only by a listener that has left its loop for   *)
(* good, and nobody is inside the manager once it is being destroyed.        *)
StopInv ==
  /\ latch => lpc = "exited"
  /\ app # "open" => \A c \in Clients : cpc[c] = "idle"
  /\ StopSafe

LEMMA StepStop == TypeInv /\ StopInv /\ [Next]_vars => StopInv'
PROOF
  <1> SUFFICES ASSUME TypeInv, StopInv, [Next]_vars PROVE StopInv'
    OBVIOUS
  <1> USE DEF StopInv, StopSafe, kernel, exVars, cliVars, stopVars, hist
  <1>1. ASSUME NEW t \in Timers, Tick(t) PROVE StopInv'
    BY <1>1 DEF Tick
  <1>2. ASSUME NEW c \in Clients, NEW t \in Timers,
               RemoveErase(c, t) \/ \E f \in Fds : AddCreate(c, t, f)
        PROVE  StopInv'
    BY <1>2 DEF RemoveErase, AddCreate
  <1>3. ASSUME NEW c \in Clients, AddRegister(c) \/ RemoveClose(c) PROVE StopInv'
    BY <1>3 DEF AddRegister, RemoveClose, TypeInv, TypeOK
  <1>4. CASE ListenTest \/ ListenWait \/ ListenInterrupted \/ ListenExit
    BY <1>4 DEF ListenTest, ListenWait, ListenInterrupted, ListenExit
  <1>5. ASSUME NEW f \in got, ListenSubmit(f) PROVE StopInv'
    BY <1>5 DEF ListenSubmit
  <1>6. ASSUME NEW x \in Executors, ExecutorStep(x) PROVE StopInv'
    BY <1>6 DEF ExecutorStep, CallbackLookup, ReadTimer, RunCallback, CallbackDone
  <1>7. CASE StopStore \/ OwnerStep
    BY <1>7 DEF StopStore, OwnerStep, StopNotify, StopWait, DestroyMembers, Released
  <1>8. CASE UNCHANGED vars
    BY <1>8 DEF vars
  <1> QED
    BY <1>1, <1>2, <1>3, <1>4, <1>5, <1>6, <1>7, <1>8
    DEF Next, ClientCall, ClientStep, ListenerStep

LEMMA StopInvariant == Spec => [](TypeInv /\ StopInv)
PROOF
  <1>1. Init => StopInv
    BY DEF Init, StopInv, StopSafe
  <1> QED
    BY <1>1, InitTypes, StepTypes, StepStop, PTL DEF Spec

(* stop() closes the epoll descriptor, and the manager dies, only after the  *)
(* listener has returned: lch.wait() is enough for both.                     *)
THEOREM ListenerGoneFirst == Spec => []StopSafe
PROOF
  <1>1. StopInv => StopSafe
    BY DEF StopInv
  <1> QED
    BY <1>1, StopInvariant, PTL
-----------------------------------------------------------------------------
(* A timer that is alive has a shared_ptr somewhere: in the map, in a        *)
(* callback, or in add_timer before it is in the map.                        *)
Owned(t) ==
  \/ \E f \in Fds : m_timers[f] = t
  \/ \E x \in Executors : xtm[x] = t
  \/ \E c \in Clients : cpc[c] = "created" /\ ctm[c] = t

LiveOwned == \A t \in Timers : obj[t] = "live" => Owned(t)

OpenLive ==
  \A f \in Fds : file[f] # NoTimer => obj[file[f]] = "live" /\ fdOf[file[f]] = f

FdInv == LiveOwned /\ OpenLive /\ (app = "gone" => \A f \in Fds : m_timers[f] = Absent)

(* Closing any descriptor, and destroying any timer, leaves the open ones    *)
(* with the timers they belong to.                                           *)
LEMMA CloseOpenLive ==
  ASSUME TypeOK, OpenLive, NEW f \in Fds, Close(f), UNCHANGED <<obj, fdOf>>
  PROVE  OpenLive' /\ \A g \in Fds : file[g] = NoTimer => file'[g] = NoTimer
BY DEF TypeOK, OpenLive, Close

LEMMA DestroyOpenLive ==
  ASSUME TypeOK, OpenLive, NEW t \in Timers, Destroy(t), UNCHANGED fdOf
  PROVE  OpenLive' /\ \A g \in Fds : file[g] = NoTimer => file'[g] = NoTimer
PROOF
  <1>1. PICK f \in Fds : f = fdOf[t]
    BY DEF TypeOK
  <1> QED
    BY <1>1 DEF TypeOK, OpenLive, Destroy, Close

LEMMA StepFds == TypeInv /\ StopInv /\ FdInv /\ [Next]_vars => FdInv'
PROOF
  <1> SUFFICES ASSUME TypeInv, StopInv, FdInv, [Next]_vars PROVE FdInv'
    OBVIOUS
  <1> USE DEF TypeInv, FdInv, kernel, exVars, cliVars, stopVars, hist
  <1>1. ASSUME UNCHANGED <<m_timers, obj, fdOf, file, xtm, cpc, ctm>>, app' # "gone" \/ app' = app
        PROVE  FdInv'
    BY <1>1 DEF LiveOwned, OpenLive, Owned
  <1>2. ASSUME NEW t \in Timers, Tick(t) PROVE FdInv'
    BY <1>1, <1>2 DEF Tick
  <1>3. ASSUME NEW c \in Clients, NEW t \in Timers, NEW f \in Fds, AddCreate(c, t, f)
        PROVE  FdInv'
    <2>1. OpenLive' /\ app' # "gone"
      BY <1>3 DEF AddCreate, TypeOK, OpenLive
    <2>2. Owned(t)'
      BY <1>3 DEF AddCreate, Owned, TypeOK
    <2>3. ASSUME NEW u \in Timers, u # t, obj'[u] = "live" PROVE Owned(u)'
      <3>1. Owned(u)
        BY <1>3, <2>3 DEF AddCreate, TypeOK, LiveOwned
      <3> QED
        BY <1>3, <2>3, <3>1 DEF AddCreate, TypeOK, Owned
    <2> QED
      BY <2>1, <2>2, <2>3 DEF LiveOwned
  <1>4. ASSUME NEW c \in Clients, AddRegister(c) PROVE FdInv'
    <2>1. PICK t \in Timers : t = ctm[c] /\ cpc[c] = "created"
      BY <1>4 DEF AddRegister, Working
    <2>2. PICK f \in Fds : f = fdOf[t]
      BY DEF TypeOK
    <2>3. app' = app /\ app = "open"
      BY <1>4, <2>1 DEF AddRegister, StopInv
    <2>4. OpenLive'
      <3>1. CASE m_timers[f] # Absent
        BY <1>4, <2>1, <2>2, <3>1, DestroyOpenLive DEF AddRegister
      <3>2. CASE m_timers[f] = Absent /\ Close(f)
        BY <1>4, <2>1, <2>2, <3>2, CloseOpenLive DEF AddRegister
      <3>3. CASE m_timers[f] = Absent /\ Watch(f)
        BY <1>4, <2>1, <2>2, <3>3 DEF AddRegister, Watch, OpenLive
      <3> QED
        BY <1>4, <2>1, <2>2, <3>1, <3>2, <3>3 DEF AddRegister
    <2>5. obj'[t] = "live" => \E g \in Fds : m_timers'[g] = t
      BY <1>4, <2>1, <2>2 DEF AddRegister, Destroy, TypeOK
    <2>6. ASSUME NEW u \in Timers, u # t, obj'[u] = "live" PROVE Owned(u)'
      <3>1. obj[u] = "live"
        BY <1>4, <2>1, <2>2, <2>6 DEF AddRegister, Destroy, TypeOK
      <3>2. CASE \E g \in Fds : m_timers[g] = u
        <4>1. PICK g \in Fds : m_timers[g] = u
          BY <3>2
        <4>2. m_timers'[g] = u
          BY <1>4, <2>1, <2>2, <4>1, TimerAssumption DEF AddRegister, TypeOK
        <4> QED
          BY <4>2 DEF Owned
      <3>3. CASE \E x \in Executors : xtm[x] = u
        BY <1>4, <3>3 DEF AddRegister, Owned
      <3>4. CASE \E d \in Clients : cpc[d] = "created" /\ ctm[d] = u
        BY <1>4, <2>1, <2>6, <3>4 DEF AddRegister, Owned, TypeOK
      <3> QED
        BY <3>1, <3>2, <3>3, <3>4 DEF LiveOwned, Owned
    <2> QED
      BY <2>3, <2>4, <2>5, <2>6 DEF LiveOwned, Owned
  <1>5. ASSUME NEW c \in Clients, NEW t \in Timers, RemoveErase(c, t) PROVE FdInv'
    <2>1. PICK f \in Fds : f = fdOf[t]
      BY DEF TypeOK
    <2>2. PICK u \in Timers \cup {Absent, NoTimer} : u = m_timers[f]
      BY DEF TypeOK
    <2>3. /\ app' = app /\ app = "open" /\ fdOf' = fdOf /\ xtm' = xtm
          /\ cpc[c] = "idle"
          /\ m_timers' = [m_timers EXCEPT ![f] = Absent]
          /\ \/ u \in Timers /\ Destroy(u)
             \/ ~(u \in Timers /\ \A x \in Executors : xtm[x] # u) /\ KeepTimer
      BY <1>5, <2>1, <2>2 DEF RemoveErase, Erased
    <2>4. OpenLive'
      <3>1. CASE u \in Timers /\ Destroy(u)
        BY <2>3, <3>1, DestroyOpenLive
      <3>2. CASE KeepTimer
        BY <2>3, <3>2 DEF KeepTimer, OpenLive
      <3> QED
        BY <2>3, <3>1, <3>2
    <2>5. ASSUME NEW v \in Timers, obj'[v] = "live" PROVE Owned(v)'
      <3>1. obj[v] = "live" /\ (v = u => \E x \in Executors : xtm[x] = u)
        BY <2>3, <2>5 DEF Destroy, KeepTimer, TypeOK
      <3>2. CASE \E g \in Fds : m_timers[g] = v /\ v # u
        <4>1. PICK g \in Fds : m_timers[g] = v /\ v # u
          BY <3>2
        <4>2. m_timers'[g] = v
          BY <2>2, <2>3, <4>1 DEF TypeOK
        <4> QED
          BY <4>2 DEF Owned
      <3>3. CASE \E x \in Executors : xtm[x] = v
        BY <2>3, <3>3 DEF Owned
      <3>4. CASE \E d \in Clients : cpc[d] = "created" /\ ctm[d] = v
        BY <1>5, <2>3, <3>4 DEF RemoveErase, Owned, TypeOK
      <3> QED
        BY <3>1, <3>2, <3>3, <3>4 DEF LiveOwned, Owned
    <2> QED
      BY <2>3, <2>4, <2>5 DEF LiveOwned
  <1>6. ASSUME NEW c \in Clients, RemoveClose(c) PROVE FdInv'
    <2>1. PICK f \in Fds : f = fdOf[ctm[c]]
      BY <1>6 DEF RemoveClose, Working, TypeOK
    <2>2. /\ app' = app /\ app = "open"
          /\ cpc[c] = "erased" /\ UNCHANGED <<m_timers, obj, fdOf, xtm>> /\ Close(f)
      BY <1>6, <2>1 DEF RemoveClose, StopInv
    <2>3. OpenLive'
      BY <2>2, CloseOpenLive
    <2>4. ASSUME NEW u \in Timers, obj'[u] = "live" PROVE Owned(u)'
      <3>1. Owned(u)
        BY <2>2, <2>4 DEF LiveOwned
      <3>2. \A d \in Clients : cpc[d] = "created" => cpc'[d] = "created" /\ ctm'[d] = ctm[d]
        BY <1>6, <2>2 DEF RemoveClose, TypeOK
      <3> QED
        BY <2>2, <3>1, <3>2 DEF Owned
    <2> QED
      BY <2>2, <2>3, <2>4 DEF LiveOwned
  <1>7. CASE ListenTest \/ ListenWait \/ ListenInterrupted \/ ListenExit
    BY <1>1, <1>7 DEF ListenTest, ListenWait, ListenInterrupted, ListenExit
  <1>8. ASSUME NEW f \in got, ListenSubmit(f) PROVE FdInv'
    BY <1>1, <1>8 DEF ListenSubmit
  <1>9. ASSUME NEW x \in Executors, CallbackLookup(x) PROVE FdInv'
    <2>1. /\ app # "gone"
          /\ UNCHANGED <<obj, fdOf, file, cpc, ctm, app>>
          /\ \A y \in Executors : xtm[y] # NoTimer => xtm'[y] = xtm[y]
          /\ \A f \in Fds : m_timers[f] \in Timers => m_timers'[f] = m_timers[f]
      BY <1>9, TimerAssumption DEF CallbackLookup, TypeOK, Working
    <2>2. ASSUME NEW u \in Timers, obj'[u] = "live" PROVE Owned(u)'
      BY <2>1, <2>2, TimerAssumption DEF LiveOwned, Owned
    <2> QED
      BY <2>1, <2>2 DEF LiveOwned, OpenLive
  <1>10. ASSUME NEW x \in Executors, ReadTimer(x) \/ RunCallback(x) PROVE FdInv'
    BY <1>1, <1>10 DEF ReadTimer, RunCallback
  <1>11. ASSUME NEW x \in Executors, CallbackDone(x) PROVE FdInv'
    <2>1. PICK t \in Timers : t = xtm[x]
      BY <1>11 DEF CallbackDone, Working, TypeOK
    <2>2. /\ UNCHANGED <<m_timers, fdOf, cpc, ctm, app>>
          /\ xtm' = [xtm EXCEPT ![x] = NoTimer]
          /\ (Referenced(t, x) /\ KeepTimer) \/ (~Referenced(t, x) /\ Destroy(t))
      BY <1>11, <2>1 DEF CallbackDone
    <2>3. OpenLive' /\ \A g \in Fds : file[g] = NoTimer => file'[g] = NoTimer
      <3>1. CASE Destroy(t)
        BY <2>2, <3>1, DestroyOpenLive
      <3>2. CASE KeepTimer
        BY <2>2, <3>2 DEF KeepTimer, OpenLive
      <3> QED
        BY <2>2, <3>1, <3>2
    <2>4. ASSUME NEW u \in Timers, obj'[u] = "live" PROVE Owned(u)'
      <3>1. obj[u] = "live" /\ (u = t => Referenced(t, x))
        BY <2>2, <2>4 DEF Destroy, KeepTimer, TypeOK
      <3>2. CASE u = t
        BY <2>2, <3>1, <3>2 DEF Referenced, Owned, TypeOK
      <3>3. CASE u # t
        BY <2>1, <2>2, <3>1, <3>3 DEF LiveOwned, Owned, TypeOK
      <3> QED
        BY <3>2, <3>3
    <2> QED
      BY <2>2, <2>3, <2>4 DEF LiveOwned
  <1>12. CASE StopStore \/ StopNotify \/ StopWait
    BY <1>1, <1>12 DEF StopStore, StopNotify, StopWait
  <1>13. CASE DestroyMembers
    <2>1. /\ \A c \in Clients : cpc[c] = "idle"
          /\ UNCHANGED <<fdOf, xtm, cpc, ctm>>
          /\ \A f \in Fds : m_timers'[f] = Absent
      BY <1>13 DEF DestroyMembers, StopInv
    <2>2. ASSUME NEW t \in Timers, obj'[t] = "live" PROVE obj[t] = "live" /\ Held(t)
      <3>1. obj[t] = "live" /\ (Held(t) \/ ~\E f \in Fds : m_timers[f] = t)
        BY <1>13, <2>2 DEF DestroyMembers
      <3> QED
        BY <2>1, <3>1 DEF LiveOwned, Owned, Held
    <2>3. ASSUME NEW f \in Fds, file'[f] # NoTimer
          PROVE  obj'[file'[f]] = "live" /\ fdOf'[file'[f]] = f
      <3>1. file'[f] = file[f] /\ file[f] # NoTimer
        BY <1>13, <2>3 DEF DestroyMembers
      <3>2. PICK t \in Timers : t = file[f] /\ obj[t] = "live" /\ fdOf[t] = f
        BY <3>1 DEF TypeOK, OpenLive
      <3>3. Held(t) \/ ~\E g \in Fds : m_timers[g] = t
        BY <1>13, <2>3, <3>2 DEF DestroyMembers
      <3>4. obj'[t] = obj[t]
        BY <1>13, <3>3 DEF DestroyMembers
      <3> QED
        BY <2>1, <3>1, <3>2, <3>4
    <2>4. LiveOwned'
      BY <2>1, <2>2 DEF LiveOwned, Owned, Held
    <2> QED
      BY <2>1, <2>3, <2>4 DEF OpenLive
  <1>14. CASE UNCHANGED vars
    BY <1>1, <1>14 DEF vars
  <1> QED
    BY <1>2, <1>3, <1>4, <1>5, <1>6, <1>7, <1>8, <1>9, <1>10, <1>11, <1>12, <1>13, <1>14
    DEF Next, ClientCall, ClientStep, ListenerStep, ExecutorStep, OwnerStep

LEMMA FdInvariant == Spec => [](TypeInv /\ StopInv /\ FdInv)
PROOF
  <1>1. Init => FdInv
    BY DEF Init, FdInv, LiveOwned, OpenLive
  <1> QED
    BY <1>1, StopInvariant, StepFds, PTL DEF Spec

(* No timerfd outlives its HncTimer, and the manager only in the hands of a  *)
(* callback that still runs, however many twins the pool leaves behind:      *)
(* remove_timer, the last callback and ~HncTimerManager all close it.        *)
THEOREM DescriptorsClosed == Spec => []NoFdLeak
PROOF
  <1>1. TypeInv /\ StopInv /\ FdInv => NoFdLeak
    <2> SUFFICES ASSUME TypeInv, StopInv, FdInv, NEW f \in Fds, file[f] # NoTimer
                 PROVE  /\ obj[file[f]] = "live" /\ fdOf[file[f]] = f
                        /\ app = "gone" => Held(file[f])
      BY DEF NoFdLeak
    <2>1. PICK t \in Timers : t = file[f] /\ obj[t] = "live" /\ fdOf[t] = f
      BY DEF TypeInv, TypeOK, FdInv, OpenLive
    <2>2. ASSUME app = "gone" PROVE Held(t)
      BY <2>1, <2>2, TimerAssumption DEF StopInv, FdInv, LiveOwned, Owned, Held
    <2> QED
      BY <2>1, <2>2
  <1> QED
    BY <1>1, FdInvariant, PTL
-----------------------------------------------------------------------------
(* Everything that refers to a timer refers to one that has been created. *)
Known ==
  /\ \A t \in Timers : obj[t] = "none" =>
       /\ t \notin added
       /\ \A x \in Executors : xtm[x] # t
       /\ \A c \in Clients : cpc[c] # "idle" => ctm[c] # t
  /\ \A f \in Fds : m_timers[f] \in Timers => obj[m_timers[f]] # "none"

(* While no descriptor has changed hands, the map and the set of registered  *)
(* timers agree, and nobody else has a timer that a client works on.         *)
Ours ==
  /\ \A f \in watched : file[f] # NoTimer
  /\ \A t \in added :
       m_timers[fdOf[t]] = t /\ file[fdOf[t]] = t /\ fdOf[t] \in watched
  /\ \A f \in Fds :
       /\ m_timers[f] # NoTimer
       /\ m_timers[f] \in Timers => m_timers[f] \in added /\ fdOf[m_timers[f]] = f
  /\ \A c \in Clients : cpc[c] # "idle" =>
       /\ ctm[c] \notin added
       /\ \A d \in Clients \ {c} : cpc[d] # "idle" => ctm[d] # ctm[c]
  /\ \A c \in Clients : cpc[c] = "created" =>
       /\ file[fdOf[ctm[c]]] = ctm[c]
       /\ fdOf[ctm[c]] \notin watched
       /\ \A x \in Executors : xtm[x] # ctm[c]

RegInv == Known /\ (~confused /\ app = "open" => Ours)

LEMMA StepKnown == TypeInv /\ Known /\ [Next]_vars => Known'
PROOF
  <1> SUFFICES ASSUME TypeInv, Known, [Next]_vars PROVE Known'
    OBVIOUS
  <1> USE DEF TypeInv, kernel, exVars, cliVars, stopVars, hist
  <1>1. ASSUME UNCHANGED <<m_timers, obj, xtm, cpc, ctm, added>> PROVE Known'
    BY <1>1 DEF Known
  <1>2. ASSUME NEW c \in Clients, NEW t \in Timers, NEW f \in Fds, AddCreate(c, t, f)
        PROVE  Known'
    BY <1>2 DEF AddCreate, Known, TypeOK
  <1>3. ASSUME NEW c \in Clients, AddRegister(c) PROVE Known'
    <2>1. PICK t \in Timers : t = ctm[c] /\ cpc[c] = "created" /\ obj[t] # "none"
      BY <1>3 DEF AddRegister, Working, Known
    <2>2. PICK f \in Fds : f = fdOf[t]
      BY DEF TypeOK
    <2>3. /\ \A u \in Timers : obj'[u] = "none" <=> obj[u] = "none"
          /\ \A g \in Fds : m_timers'[g] \in {m_timers[g], t}
      BY <1>3, <2>1, <2>2 DEF AddRegister, Destroy, TypeOK
    <2>4. /\ added' = added \cup {t} /\ xtm' = xtm
          /\ \A d \in Clients : cpc'[d] # "idle" => cpc[d] # "idle" /\ ctm'[d] = ctm[d]
      BY <1>3, <2>1 DEF AddRegister, TypeOK
    <2> QED
      BY <2>1, <2>3, <2>4 DEF Known
  <1>4. ASSUME NEW c \in Clients, NEW t \in Timers, RemoveErase(c, t) PROVE Known'
    <2>1. PICK f \in Fds : f = fdOf[t]
      BY DEF TypeOK
    <2>2. /\ \A u \in Timers : obj'[u] = "none" => obj[u] = "none"
          /\ \A u \in Timers : obj[u] # "none" => obj'[u] # "none"
          /\ \A g \in Fds : m_timers'[g] \in {m_timers[g], Absent}
      BY <1>4, <2>1 DEF RemoveErase, Destroy, KeepTimer, Erased, TypeOK
    <2>3. /\ added' \subseteq added /\ xtm' = xtm /\ obj[t] # "none"
          /\ \A d \in Clients : cpc'[d] # "idle" =>
               ctm'[d] = t \/ (cpc[d] # "idle" /\ ctm'[d] = ctm[d])
      BY <1>4 DEF RemoveErase, TypeOK, Known
    <2> QED
      BY <2>2, <2>3, TimerAssumption DEF Known
  <1>5. ASSUME NEW c \in Clients, RemoveClose(c) PROVE Known'
    BY <1>5 DEF RemoveClose, Known, TypeOK
  <1>6. ASSUME NEW x \in Executors, CallbackLookup(x) PROVE Known'
    <2>1. Head(que) \in Fds
      BY <1>6 DEF CallbackLookup, TypeOK
    <2>2. /\ UNCHANGED <<obj, added, cpc, ctm>>
          /\ \A g \in Fds : m_timers'[g] \in {m_timers[g], NoTimer}
          /\ \A y \in Executors : xtm'[y] # xtm[y] =>
               xtm'[y] \in Timers /\ \E g \in Fds : xtm'[y] = m_timers[g]
      BY <1>6, <2>1 DEF CallbackLookup, TypeOK
    <2> QED
      BY <2>2, TimerAssumption DEF Known
  <1>7. ASSUME NEW x \in Executors, CallbackDone(x) PROVE Known'
    <2>1. xtm[x] \in Timers
      BY <1>7 DEF CallbackDone, TypeOK, Working
    <2>2. /\ UNCHANGED <<m_timers, added, cpc, ctm>>
          /\ \A u \in Timers : obj'[u] = "none" <=> obj[u] = "none"
          /\ \A y \in Executors : xtm'[y] \in {xtm[y], NoTimer}
      <3>1. /\ UNCHANGED <<m_timers, added, cpc, ctm>> /\ xtm' = [xtm EXCEPT ![x] = NoTimer]
            /\ KeepTimer \/ Destroy(xtm[x])
        BY <1>7 DEF CallbackDone
      <3>2. \A u \in Timers : obj'[u] = "none" <=> obj[u] = "none"
        <4>1. CASE KeepTimer
          BY <4>1 DEF KeepTimer
        <4>2. CASE Destroy(xtm[x])
          <5>1. obj[xtm[x]] # "none"
            BY <2>1 DEF Known
          <5> QED
            BY <2>1, <4>2, <5>1 DEF Destroy, TypeOK
        <4> QED
          BY <3>1, <4>1, <4>2
      <3> QED
        BY <3>1, <3>2 DEF TypeOK
    <2> QED
      BY <2>2, TimerAssumption DEF Known
  <1>8. CASE DestroyMembers
    <2>1. \A u \in Timers : obj'[u] = "none" => obj[u] = "none"
      BY <1>8 DEF DestroyMembers, TypeOK
    <2> QED
      BY <1>8, <2>1, TimerAssumption DEF DestroyMembers, Known
  <1>9. ASSUME NEW t \in Timers, Tick(t) PROVE Known'
    BY <1>1, <1>9 DEF Tick
  <1>10. CASE ListenTest \/ ListenWait \/ ListenInterrupted \/ ListenExit
    BY <1>1, <1>10 DEF ListenTest, ListenWait, ListenInterrupted, ListenExit
  <1>11. ASSUME NEW f \in got, ListenSubmit(f) PROVE Known'
    BY <1>1, <1>11 DEF ListenSubmit
  <1>12. ASSUME NEW x \in Executors, ReadTimer(x) \/ RunCallback(x) PROVE Known'
    BY <1>1, <1>12 DEF ReadTimer, RunCallback
  <1>13. CASE StopStore \/ StopNotify \/ StopWait
    BY <1>1, <1>13 DEF StopStore, StopNotify, StopWait
  <1>14. CASE UNCHANGED vars
    BY <1>1, <1>14 DEF vars
  <1> QED
    BY <1>2, <1>3, <1>4, <1>5, <1>6, <1>7, <1>8, <1>9, <1>10, <1>11, <1>12, <1>13, <1>14
    DEF Next, ClientCall, ClientStep, ListenerStep, ExecutorStep, OwnerStep

(* A descriptor that is closed belongs to a timer nobody has registered or   *)
(* is about to register, or else close() has hit the wrong one.              *)
LEMMA CloseOurs ==
  ASSUME TypeInv, Ours, NEW f \in Fds, NEW t \in Timers, f = fdOf[t],
         Close(f), ~Foreign(f, t), t \notin added',
         UNCHANGED <<fdOf, m_timers>>, added' = added,
         \A c \in Clients : cpc'[c] # "idle" => cpc'[c] = cpc[c] /\ ctm'[c] = ctm[c],
         \A c \in Clients : cpc'[c] = "created" => ctm[c] # t,
         \A x \in Executors : xtm'[x] \in {xtm[x], NoTimer}
  PROVE  Ours'
PROOF
  <1> USE DEF TypeInv
  <1>1. /\ \A g \in Fds : file'[g] = IF g = f THEN NoTimer ELSE file[g]
        /\ watched' = watched \ {f} /\ file[f] \in {NoTimer, t}
    BY DEF Close, TypeOK, Foreign
  <1>2. \A g \in watched' : file'[g] # NoTimer
    BY <1>1 DEF Ours, TypeOK
  <1>3. ASSUME NEW u \in added
        PROVE  m_timers[fdOf[u]] = u /\ file'[fdOf[u]] = u /\ fdOf[u] \in watched'
    <2>1. m_timers[fdOf[u]] = u /\ file[fdOf[u]] = u /\ fdOf[u] \in watched /\ u # t
      BY DEF Ours
    <2>2. u \in Timers /\ u # NoTimer /\ fdOf[u] \in Fds
      BY TimerAssumption DEF TypeOK
    <2> QED
      BY <1>1, <2>1, <2>2
  <1>4. ASSUME NEW c \in Clients, cpc'[c] = "created"
        PROVE  /\ file'[fdOf[ctm[c]]] = ctm[c] /\ fdOf[ctm[c]] \notin watched'
               /\ \A x \in Executors : xtm'[x] # ctm[c]
    <2>1. cpc[c] = "created" /\ ctm[c] # t
      BY <1>4
    <2>2. /\ file[fdOf[ctm[c]]] = ctm[c] /\ fdOf[ctm[c]] \notin watched
          /\ \A x \in Executors : xtm[x] # ctm[c]
      BY <2>1 DEF Ours
    <2>3. ctm[c] \in Timers /\ ctm[c] # NoTimer /\ fdOf[ctm[c]] \in Fds
      BY <2>1, TimerAssumption DEF Working, TypeOK
    <2> QED
      BY <1>1, <2>1, <2>2, <2>3
  <1> QED
    BY <1>2, <1>3, <1>4 DEF Ours

LEMMA StepOurs ==
  ASSUME TypeInv, StopInv, RegInv, [Next]_vars, ~confused', app' = "open"
  PROVE  Ours'
PROOF
  <1> USE DEF TypeInv, RegInv, kernel, exVars, cliVars, stopVars, hist
  <1>1. ASSUME UNCHANGED <<m_timers, fdOf, file, watched, xtm, cpc, ctm, added, app, confused>>
        PROVE  Ours'
    BY <1>1 DEF Ours
  <1>2. ASSUME NEW c \in Clients, NEW t \in Timers, NEW f \in Fds, AddCreate(c, t, f)
        PROVE  Ours'
    <2>1. /\ Ours /\ obj[t] = "none" /\ file[f] = NoTimer /\ cpc[c] = "idle"
          /\ UNCHANGED <<m_timers, watched, added, xtm>>
      BY <1>2 DEF AddCreate
    <2>2. /\ \A u \in Timers : fdOf'[u] = IF u = t THEN f ELSE fdOf[u]
          /\ \A g \in Fds : file'[g] = IF g = f THEN t ELSE file[g]
          /\ \A d \in Clients : /\ cpc'[d] = IF d = c THEN "created" ELSE cpc[d]
                                /\ ctm'[d] = IF d = c THEN t ELSE ctm[d]
      BY <1>2 DEF AddCreate, TypeOK
    <2>3. /\ t \notin added /\ \A x \in Executors : xtm[x] # t
          /\ \A d \in Clients : cpc[d] # "idle" => ctm[d] # t
          /\ \A g \in Fds : m_timers[g] # t
      BY <2>1 DEF Known
    <2>4. f \notin watched
      BY <2>1 DEF Ours
    <2>5. \A g \in watched' : file'[g] # NoTimer
      BY <2>1, <2>2, <2>4 DEF Ours, TypeOK
    <2>6. ASSUME NEW u \in added'
          PROVE  m_timers'[fdOf'[u]] = u /\ file'[fdOf'[u]] = u /\ fdOf'[u] \in watched'
      <3>1. u \in Timers /\ u # t /\ u # NoTimer /\ fdOf'[u] = fdOf[u] /\ fdOf[u] \in Fds
        BY <2>1, <2>2, <2>3, TimerAssumption DEF TypeOK
      <3>2. m_timers[fdOf[u]] = u /\ file[fdOf[u]] = u /\ fdOf[u] \in watched
        BY <2>1 DEF Ours
      <3> QED
        BY <2>1, <2>2, <2>4, <3>1, <3>2
    <2>7. ASSUME NEW g \in Fds
          PROVE  /\ m_timers'[g] # NoTimer
                 /\ m_timers'[g] \in Timers =>
                      m_timers'[g] \in added' /\ fdOf'[m_timers'[g]] = g
      BY <2>1, <2>2, <2>3 DEF Ours
    <2>8. ASSUME NEW d \in Clients, cpc'[d] # "idle"
          PROVE  /\ ctm'[d] \notin added'
                 /\ \A e \in Clients \ {d} : cpc'[e] # "idle" => ctm'[e] # ctm'[d]
      BY <2>1, <2>2, <2>3, <2>8 DEF Ours
    <2>9. ASSUME NEW d \in Clients, cpc'[d] = "created"
          PROVE  /\ file'[fdOf'[ctm'[d]]] = ctm'[d] /\ fdOf'[ctm'[d]] \notin watched'
                 /\ \A x \in Executors : xtm'[x] # ctm'[d]
      <3>1. CASE d = c
        BY <2>1, <2>2, <2>3, <2>4, <3>1
      <3>2. CASE d # c
        <4>1. /\ cpc[d] = "created" /\ ctm'[d] = ctm[d] /\ ctm[d] # t
              /\ ctm[d] \in Timers /\ ctm[d] # NoTimer /\ fdOf[ctm[d]] \in Fds
          BY <2>2, <2>3, <2>9, <3>2, TimerAssumption DEF Working, TypeOK
        <4>2. /\ file[fdOf[ctm[d]]] = ctm[d] /\ fdOf[ctm[d]] \notin watched
              /\ \A x \in Executors : xtm[x] # ctm[d]
          BY <2>1, <4>1 DEF Ours
        <4> QED
          BY <2>1, <2>2, <4>1, <4>2
      <3> QED
        BY <3>1, <3>2
    <2> QED
      BY <2>5, <2>6, <2>7, <2>8, <2>9 DEF Ours
  <1>3. ASSUME NEW c \in Clients, AddRegister(c) PROVE Ours'
    <2>1. PICK t \in Timers : t = ctm[c] /\ cpc[c] = "created"
      BY <1>3 DEF AddRegister, Working
    <2>2. PICK f \in Fds : f = fdOf[t]
      BY DEF TypeOK
    <2>3. /\ Ours /\ file[f] = t /\ f \notin watched /\ t \notin added
          /\ \A x \in Executors : xtm[x] # t
      <3>1. Ours
        BY <1>3 DEF AddRegister
      <3> QED
        BY <2>1, <2>2, <3>1 DEF Ours
    <2>4. m_timers[f] = Absent
      <3>1. m_timers[f] \in Timers \cup {Absent, NoTimer} /\ m_timers[f] # NoTimer
        BY <2>3 DEF TypeOK, Ours
      <3>2. m_timers[f] \notin Timers
        BY <2>3 DEF Ours
      <3> QED
        BY <3>1, <3>2
    <2>5. /\ m_timers' = [m_timers EXCEPT ![f] = t] /\ UNCHANGED <<file, fdOf, xtm>>
          /\ watched' = watched \cup {f} /\ added' = added \cup {t}
      BY <1>3, <2>1, <2>2, <2>3, <2>4, TimerAssumption DEF AddRegister, Watch
    <2>6. /\ \A g \in Fds : m_timers'[g] = IF g = f THEN t ELSE m_timers[g]
          /\ \A d \in Clients : cpc'[d] # "idle" =>
               d # c /\ cpc'[d] = cpc[d] /\ ctm'[d] = ctm[d]
      BY <1>3, <2>5 DEF AddRegister, TypeOK
    <2>7. ASSUME NEW d \in Clients, cpc'[d] # "idle"
          PROVE  /\ ctm'[d] \notin added'
                 /\ \A e \in Clients \ {d} : cpc'[e] # "idle" => ctm'[e] # ctm'[d]
      BY <2>1, <2>3, <2>5, <2>6, <2>7 DEF Ours
    <2>8. ASSUME NEW d \in Clients, cpc'[d] = "created"
          PROVE  /\ file'[fdOf'[ctm'[d]]] = ctm'[d] /\ fdOf'[ctm'[d]] \notin watched'
                 /\ \A x \in Executors : xtm'[x] # ctm'[d]
      BY <2>1, <2>3, <2>5, <2>6, <2>7, <2>8 DEF Ours
    <2>9. ASSUME NEW u \in added'
          PROVE  m_timers'[fdOf'[u]] = u /\ file'[fdOf'[u]] = u /\ fdOf'[u] \in watched'
      BY <2>2, <2>3, <2>5, <2>6 DEF Ours, TypeOK
    <2>10. \A g \in watched' : file'[g] # NoTimer
      BY <2>3, <2>5, TimerAssumption DEF Ours
    <2>11. ASSUME NEW g \in Fds
           PROVE  /\ m_timers'[g] # NoTimer
                  /\ m_timers'[g] \in Timers =>
                       m_timers'[g] \in added' /\ fdOf'[m_timers'[g]] = g
      BY <2>2, <2>3, <2>5, <2>6, TimerAssumption DEF Ours
    <2> QED
      BY <2>7, <2>8, <2>9, <2>10, <2>11 DEF Ours
  <1>4. ASSUME NEW c \in Clients, NEW t \in Timers, RemoveErase(c, t) PROVE Ours'
    <2>1. PICK f \in Fds : f = fdOf[t]
      BY DEF TypeOK
    <2>2. /\ Ours /\ t \in added /\ added' = added \ {t} /\ UNCHANGED <<fdOf, xtm>>
          /\ m_timers[f] = t /\ file[f] = t /\ f \in watched
      <3>1. Ours /\ t \in added
        BY <1>4 DEF RemoveErase
      <3> QED
        BY <1>4, <2>1, <3>1 DEF RemoveErase, Ours
    <2>3. /\ \A g \in Fds : m_timers'[g] = IF g = f THEN Absent ELSE m_timers[g]
          /\ \A g \in Fds \ {f} : file'[g] = file[g]
          /\ watched' \in {watched, watched \ {f}}
          /\ f \in watched' => file'[f] = t
          /\ \A d \in Clients : /\ cpc'[d] = IF d = c THEN "erased" ELSE cpc[d]
                                /\ ctm'[d] = IF d = c THEN t ELSE ctm[d]
      <3>1. /\ m_timers' = [m_timers EXCEPT ![f] = Absent] /\ (Destroy(t) \/ KeepTimer)
            /\ cpc' = [cpc EXCEPT ![c] = "erased"] /\ ctm' = [ctm EXCEPT ![c] = t]
        BY <1>4, <2>1, <2>2 DEF RemoveErase, Erased
      <3>2. /\ \A g \in Fds \ {f} : file'[g] = file[g]
            /\ watched' \in {watched, watched \ {f}} /\ (f \in watched' => file'[f] = t)
        BY <2>1, <2>2, <3>1 DEF Destroy, Close, KeepTimer, TypeOK
      <3> QED
        BY <3>1, <3>2 DEF TypeOK
    <2>4. ASSUME NEW d \in Clients, cpc'[d] # "idle"
          PROVE  /\ ctm'[d] \notin added'
                 /\ \A e \in Clients \ {d} : cpc'[e] # "idle" => ctm'[e] # ctm'[d]
      BY <2>2, <2>3, <2>4 DEF Ours
    <2>5. ASSUME NEW d \in Clients, cpc'[d] = "created"
          PROVE  /\ file'[fdOf'[ctm'[d]]] = ctm'[d] /\ fdOf'[ctm'[d]] \notin watched'
                 /\ \A x \in Executors : xtm'[x] # ctm'[d]
      <3>1. /\ cpc[d] = "created" /\ ctm'[d] = ctm[d] /\ ctm[d] \in Timers
            /\ fdOf[ctm[d]] \in Fds
        BY <2>3, <2>5 DEF Working, TypeOK
      <3>2. /\ file[fdOf[ctm[d]]] = ctm[d] /\ fdOf[ctm[d]] \notin watched
            /\ \A x \in Executors : xtm[x] # ctm[d]
        BY <2>2, <3>1 DEF Ours
      <3> QED
        BY <2>2, <2>3, <3>1, <3>2
    <2>6. ASSUME NEW u \in added'
          PROVE  m_timers'[fdOf'[u]] = u /\ file'[fdOf'[u]] = u /\ fdOf'[u] \in watched'
      <3>1. m_timers[fdOf[u]] = u /\ file[fdOf[u]] = u /\ fdOf[u] \in watched /\ u # t
        BY <2>2 DEF Ours
      <3>2. fdOf[u] \in Fds
        BY <2>2 DEF TypeOK
      <3> QED
        BY <2>2, <2>3, <3>1, <3>2
    <2>7. \A g \in watched' : file'[g] # NoTimer
      BY <2>2, <2>3, TimerAssumption DEF Ours, TypeOK
    <2>8. ASSUME NEW g \in Fds
          PROVE  /\ m_timers'[g] # NoTimer
                 /\ m_timers'[g] \in Timers =>
                      m_timers'[g] \in added' /\ fdOf'[m_timers'[g]] = g
      BY <2>1, <2>2, <2>3, TimerAssumption DEF Ours
    <2> QED
      BY <2>4, <2>5, <2>6, <2>7, <2>8 DEF Ours
  <1>5. ASSUME NEW c \in Clients, RemoveClose(c) PROVE Ours'
    <2>1. PICK t \in Timers : t = ctm[c] /\ cpc[c] = "erased"
      BY <1>5 DEF RemoveClose, Working
    <2>2. PICK f \in Fds : f = fdOf[t]
      BY DEF TypeOK
    <2>3. /\ Close(f) /\ ~Foreign(f, t) /\ Ours
          /\ UNCHANGED <<fdOf, m_timers, xtm>> /\ added' = added
      BY <1>5, <2>1, <2>2 DEF RemoveClose
    <2>4. t \notin added /\ \A d \in Clients \ {c} : cpc[d] # "idle" => ctm[d] # t
      BY <2>1, <2>3 DEF Ours
    <2>5. \A d \in Clients : cpc'[d] # "idle" => cpc'[d] = cpc[d] /\ ctm'[d] = ctm[d] /\ d # c
      BY <1>5 DEF RemoveClose, TypeOK
    <2>6. \A d \in Clients : cpc'[d] = "created" => ctm[d] # t
      BY <2>4, <2>5
    <2> QED
      BY <2>2, <2>3, <2>4, <2>5, <2>6, CloseOurs
  <1>6. ASSUME NEW x \in Executors, CallbackLookup(x) PROVE Ours'
    <2>1. PICK f \in Fds : f = Head(que)
      BY <1>6 DEF CallbackLookup, TypeOK
    <2>2. /\ UNCHANGED <<m_timers, fdOf, file, watched, cpc, ctm, added>> /\ Ours
          /\ \/ xtm' = xtm
             \/ m_timers[f] \in Timers /\ xtm' = [xtm EXCEPT ![x] = m_timers[f]]
      BY <1>6, <2>1 DEF CallbackLookup
    <2>3. ASSUME NEW d \in Clients, cpc[d] = "created", NEW y \in Executors
          PROVE  xtm'[y] # ctm[d]
      <3>1. xtm[y] # ctm[d] /\ ctm[d] \notin added
        BY <2>2, <2>3 DEF Ours
      <3>2. m_timers[f] \in Timers => m_timers[f] \in added
        BY <2>2 DEF Ours
      <3> QED
        BY <2>2, <3>1, <3>2 DEF TypeOK
    <2> QED
      BY <2>2, <2>3 DEF Ours
  <1>7. ASSUME NEW x \in Executors, CallbackDone(x) PROVE Ours'
    <2>1. PICK t \in Timers : t = xtm[x]
      BY <1>7 DEF CallbackDone, Working, TypeOK
    <2>2. PICK f \in Fds : f = fdOf[t]
      BY DEF TypeOK
    <2>3. /\ UNCHANGED <<m_timers, fdOf, cpc, ctm, added>> /\ Ours
          /\ \A y \in Executors : xtm'[y] \in {xtm[y], NoTimer}
          /\ KeepTimer \/ (~Referenced(t, x) /\ Destroy(t) /\ ~Foreign(f, t))
      BY <1>7, <2>1, <2>2 DEF CallbackDone, TypeOK
    <2>4. CASE KeepTimer
      <3>1. ASSUME NEW d \in Clients, cpc[d] = "created", NEW y \in Executors
            PROVE  xtm'[y] # ctm[d]
        <4>1. xtm[y] # ctm[d] /\ ctm[d] \in Timers
          BY <2>3, <3>1 DEF Ours, Working
        <4> QED
          BY <2>3, <4>1, TimerAssumption
      <3> QED
        BY <2>3, <2>4, <3>1 DEF Ours, KeepTimer
    <2>5. CASE ~Referenced(t, x) /\ Destroy(t) /\ ~Foreign(f, t)
      <3>1. t \notin added
        BY <2>2, <2>3, <2>5 DEF Ours, Referenced
      <3>2. \A d \in Clients : cpc'[d] = "created" => ctm[d] # t
        BY <2>1, <2>3 DEF Ours
      <3>3. Close(f)
        BY <2>2, <2>5 DEF Destroy
      <3> QED
        BY <2>2, <2>3, <2>5, <3>1, <3>2, <3>3, CloseOurs
    <2> QED
      BY <2>3, <2>4, <2>5
  <1>8. ASSUME NEW t \in Timers, Tick(t) PROVE Ours'
    BY <1>1, <1>8 DEF Tick
  <1>9. CASE ListenTest \/ ListenWait \/ ListenInterrupted \/ ListenExit
    BY <1>1, <1>9 DEF ListenTest, ListenWait, ListenInterrupted, ListenExit
  <1>10. ASSUME NEW f \in got, ListenSubmit(f) PROVE Ours'
    BY <1>1, <1>10 DEF ListenSubmit
  <1>11. ASSUME NEW x \in Executors, ReadTimer(x) \/ RunCallback(x) PROVE Ours'
    <2>1. ~confused
      BY <1>11 DEF ReadTimer, RunCallback
    <2> QED
      BY <1>11, <2>1 DEF ReadTimer, RunCallback, Ours
  <1>12. CASE StopStore \/ OwnerStep
    BY <1>12 DEF StopStore, OwnerStep, StopNotify, StopWait, DestroyMembers
  <1>13. CASE UNCHANGED vars
    BY <1>1, <1>13 DEF vars
  <1> QED
    BY <1>2, <1>3, <1>4, <1>5, <1>6, <1>7, <1>8, <1>9, <1>10, <1>11, <1>12, <1>13
    DEF Next, ClientCall, ClientStep, ListenerStep, ExecutorStep

(* As long as no descriptor has been used after it changed hands, a timer    *)
(* that add_timer returned is in the map, has its descriptor and is watched, *)
(* until remove_timer: no other client, callback or expiration undoes it.    *)
THEOREM StaysRegistered == Spec => []Registered
PROOF
  <1>1. Init => RegInv
    BY TimerAssumption DEF Init, RegInv, Known, Ours
  <1>2. TypeInv /\ StopInv /\ RegInv /\ [Next]_vars => RegInv'
    BY StepKnown, StepOurs DEF RegInv
  <1>3. RegInv => Registered
    BY DEF RegInv, Ours, Registered
  <1> QED
    BY <1>1, <1>2, <1>3, StopInvariant, PTL DEF Spec
-----------------------------------------------------------------------------
(* A set of subsets of a finite set has a smallest one: induction over       *)
(* finite sets, in the form the provers can use.                             *)
LEMMA SmallestSet ==
  ASSUME NEW S, IsFiniteSet(S), NEW B, B \subseteq SUBSET S, B # {}
  PROVE  \E T \in B : \A U \in B : U \subseteq T => U = T
PROOF
  <1>1. FiniteSubsetsOf(S) = SUBSET S
    BY FS_FiniteSubsetsOfFinite
  <1>2. IsWellFoundedOn(StrictSubsetOrdering(S), SUBSET S)
    BY <1>1, FS_StrictSubsetOrderingWellFounded
  <1>3. \E T \in B : \A U \in B : ~ (<<U, T>> \in StrictSubsetOrdering(S))
    BY <1>2, WFMin
  <1>4. \A T, U \in B : U \subseteq T /\ U # T => <<U, T>> \in StrictSubsetOrdering(S)
    BY DEF StrictSubsetOrdering
  <1> QED
    BY <1>3, <1>4

(* Induction up to N. *)
LEMMA UpTo ==
  ASSUME NEW T, NEW N \in Nat, 0 \in T, \A n \in 0 .. N - 1 : n \in T => n + 1 \in T
  PROVE  N \in T
PROOF
  <1> SUFFICES ASSUME N \notin T PROVE FALSE
    OBVIOUS
  <1> DEFINE B == {0 .. n : n \in {k \in 0 .. N : k \notin T}}
  <1>1. IsFiniteSet(0 .. N)
    BY FS_Interval
  <1>2. B # {} /\ B \subseteq SUBSET (0 .. N)
    OBVIOUS
  <1>3. \E U \in B : \A V \in B : V \subseteq U => V = U
    <2> DEFINE S == 0 .. N
    <2>1. IsFiniteSet(S) /\ B \subseteq SUBSET S /\ B # {}
      BY <1>1, <1>2
    <2> HIDE DEF B, S
    <2> QED
      BY <2>1, SmallestSet
  <1>4. PICK U \in B : \A V \in B : V \subseteq U => V = U
    BY <1>3
  <1>5. PICK n \in 0 .. N : U = 0 .. n /\ n \notin T
    BY <1>4
  <1>6. n - 1 \in 0 .. N - 1 /\ n - 1 \notin T
    BY <1>5
  <1>7. 0 .. n - 1 \in B /\ 0 .. n - 1 \subseteq U /\ n \in U /\ n \notin 0 .. n - 1
    BY <1>5, <1>6
  <1> QED
    BY <1>4, <1>7

(* The sum of OnePerExpiration, and the recursive function behind it. *)
Sum(f, S) == MapThenSumSet(LAMBDA x : f[x], S)
Some(s) == CHOOSE x \in s : TRUE
Adds(g, f, S) == g = [s \in SUBSET S |-> IF s = {} THEN 0 ELSE f[Some(s)] + g[s \ {Some(s)}]]

LEMMA SumDef ==
  ASSUME NEW S, NEW f PROVE Sum(f, S) = (CHOOSE g : Adds(g, f, S))[S]
  BY DEF Sum, MapThenSumSet, MapThenFoldSet, Adds, Some

LEMMA SomeIn == ASSUME NEW s, s # {} PROVE Some(s) \in s
  BY DEF Some

(* The recursive definition of the sum of a finite set has a solution. *)
LEMMA SumExists ==
  ASSUME NEW S, IsFiniteSet(S), NEW f
  PROVE  \E g : Adds(g, f, S)
PROOF
  <1> DEFINE Rhs(g, s) == IF s = {} THEN 0 ELSE f[Some(s)] + g[s \ {Some(s)}]
             UpToSize(g, n) == \A s \in SUBSET S : Cardinality(s) <= n => g[s] = Rhs(g, s)
             next(g) == [s \in SUBSET S |-> Rhs(g, s)]
             N == Cardinality(S)
             T == {n \in 0 .. N : \E g : g = [s \in SUBSET S |-> g[s]] /\ UpToSize(g, n)}
  <1>1. N \in Nat /\ \A s \in SUBSET S : IsFiniteSet(s) /\ Cardinality(s) \in 0 .. N
    BY FS_CardinalityType, FS_Subset
  <1>2. \A s \in SUBSET S : s # {} =>
          Cardinality(s \ {Some(s)}) = Cardinality(s) - 1 /\ s \ {Some(s)} \in SUBSET S
    BY <1>1, FS_RemoveElement, SomeIn
  <1>3. 0 \in T
    <2> DEFINE g == [s \in SUBSET S |-> 0]
    <2>1. \A s \in SUBSET S : Cardinality(s) <= 0 => s = {}
      BY <1>1, FS_EmptySet
    <2>2. UpToSize(g, 0)
      BY <2>1
    <2>3. g = [s \in SUBSET S |-> g[s]] /\ 0 \in 0 .. N
      BY <1>1
    <2> HIDE DEF g, N, UpToSize
    <2> QED
      BY <2>2, <2>3
  <1>4. ASSUME NEW n \in 0 .. N - 1, n \in T PROVE n + 1 \in T
    <2>1. PICK g : UpToSize(g, n)
      BY <1>4
    <2>2. ASSUME NEW s \in SUBSET S, Cardinality(s) <= n + 1
          PROVE  next(g)[s] = Rhs(next(g), s)
      <3>1. CASE s = {}
        BY <3>1
      <3>2. CASE s # {}
        <4> DEFINE r == s \ {Some(s)}
        <4>1. r \in SUBSET S /\ Cardinality(r) <= n
          BY <1>1, <1>2, <2>2, <3>2
        <4>2. next(g)[r] = g[r]
          BY <2>1, <4>1
        <4> QED
          BY <3>2, <4>1, <4>2
      <3> QED
        BY <3>1, <3>2
    <2>3. UpToSize(next(g), n + 1)
      BY <2>2
    <2>4. next(g) = [s \in SUBSET S |-> next(g)[s]]
      OBVIOUS
    <2>5. n + 1 \in 0 .. N
      BY <1>1
    <2> HIDE DEF next, N, UpToSize
    <2> QED
      BY <2>3, <2>4, <2>5
  <1>5. N \in T
    <2> HIDE DEF T, N
    <2> QED
      BY <1>1, <1>3, <1>4, UpTo
  <1>6. PICK g : g = [s \in SUBSET S |-> g[s]] /\ UpToSize(g, N)
    BY <1>5
  <1>7. \A s \in SUBSET S : g[s] = Rhs(g, s)
    <2>1. \A s \in SUBSET S : Cardinality(s) <= N
      BY <1>1
    <2> HIDE DEF N
    <2> QED
      BY <1>6, <2>1
  <1>8. Adds(g, f, S)
    BY <1>6, <1>7 DEF Adds
  <1> QED
    BY <1>8

(* ... and only one. *)
LEMMA SumUnique ==
  ASSUME NEW S, IsFiniteSet(S), NEW T, T \subseteq S, NEW f, NEW g, NEW h,
         Adds(g, f, S), Adds(h, f, T)
  PROVE  g[T] = h[T]
PROOF
  <1> SUFFICES ASSUME g[T] # h[T] PROVE FALSE
    OBVIOUS
  <1> DEFINE B == {U \in SUBSET T : g[U] # h[U]}
  <1>1. \E U \in B : \A V \in B : V \subseteq U => V = U
    <2>1. B \subseteq SUBSET S /\ B # {}
      OBVIOUS
    <2> HIDE DEF B
    <2> QED
      BY <2>1, SmallestSet
  <1>2. PICK U \in B : \A V \in B : V \subseteq U => V = U
    BY <1>1
  <1>3. U # {}
    BY <1>2 DEF Adds
  <1>4. Some(U) \in U
    BY <1>3, SomeIn
  <1>5. U \ {Some(U)} \notin B
    BY <1>2, <1>4
  <1>6. g[U \ {Some(U)}] = h[U \ {Some(U)}]
    BY <1>5
  <1>7. g[U] = f[Some(U)] + g[U \ {Some(U)}] /\ h[U] = f[Some(U)] + h[U \ {Some(U)}]
    <2>1. U \in SUBSET S /\ U \in SUBSET T
      OBVIOUS
    <2> QED
      BY <1>3, <2>1 DEF Adds
  <1> QED
    BY <1>6, <1>7

LEMMA SumEmpty == ASSUME NEW f PROVE Sum(f, {}) = 0
PROOF
  <1>1. Adds(CHOOSE g : Adds(g, f, {}), f, {})
    BY SumExists, FS_EmptySet
  <1> QED
    BY <1>1, SumDef DEF Adds

LEMMA SumStep ==
  ASSUME NEW S, IsFiniteSet(S), S # {}, NEW f
  PROVE  Sum(f, S) = f[Some(S)] + Sum(f, S \ {Some(S)})
PROOF
  <1> DEFINE T == S \ {Some(S)}
             g == CHOOSE g : Adds(g, f, S)
             h == CHOOSE h : Adds(h, f, T)
  <1>1. IsFiniteSet(T)
    BY FS_Subset
  <1>2. Adds(g, f, S) /\ Adds(h, f, T)
    BY <1>1, SumExists
  <1>3. Sum(f, S) = g[S] /\ Sum(f, T) = h[T]
    BY SumDef
  <1>4. g[T] = h[T]
    <2> HIDE DEF g, h, T
    <2>1. T \subseteq S
      BY DEF T
    <2> QED
      BY <1>2, <2>1, SumUnique
  <1>5. g[S] = f[Some(S)] + g[T]
    <2> HIDE DEF g
    <2> QED
      BY <1>2 DEF Adds
  <1> QED
    BY <1>3, <1>4, <1>5

(* The terms of a sum may be taken in any order. *)
LEMMA SumRemove ==
  ASSUME NEW S, IsFiniteSet(S), NEW f, \A y \in S : f[y] \in Nat, NEW x \in S
  PROVE  Sum(f, S) = f[x] + Sum(f, S \ {x}) /\ Sum(f, S) \in Nat
PROOF
  <1> DEFINE Fine(U) == /\ Sum(f, U) \in Nat
                        /\ \A z \in U : Sum(f, U) = f[z] + Sum(f, U \ {z})
             B == {U \in SUBSET S : ~Fine(U)}
  <1> SUFFICES ASSUME B # {} PROVE FALSE
    OBVIOUS
  <1>1. \E U \in B : \A V \in B : V \subseteq U => V = U
    <2>1. B \subseteq SUBSET S
      OBVIOUS
    <2> HIDE DEF B
    <2> QED
      BY <2>1, SmallestSet
  <1>2. PICK U \in B : \A V \in B : V \subseteq U => V = U
    BY <1>1
  <1>3. IsFiniteSet(U) /\ U \subseteq S
    BY FS_Subset
  <1>4. U # {}
    <2>1. Fine({})
      BY SumEmpty
    <2>2. ~Fine(U)
      BY <1>2
    <2> HIDE DEF Fine
    <2> QED
      BY <2>1, <2>2
  <1>5. PICK c \in U : c = Some(U)
    BY <1>4, SomeIn
  <1>6. \A V \in SUBSET U : V # U => Fine(V)
    BY <1>2, <1>3
  <1> HIDE DEF B
  <1>7. Sum(f, U) = f[c] + Sum(f, U \ {c})
    BY <1>3, <1>4, <1>5, SumStep
  <1>8. Fine(U \ {c})
    BY <1>6
  <1>9. f[c] \in Nat
    BY <1>3
  <1>10. Sum(f, U) \in Nat
    BY <1>7, <1>8, <1>9
  <1>11. ASSUME NEW z \in U, z # c PROVE Sum(f, U) = f[z] + Sum(f, U \ {z})
    <2>1. Fine(U \ {z})
      BY <1>6
    <2>2. Sum(f, U \ {c}) = f[z] + Sum(f, (U \ {c}) \ {z})
      BY <1>8, <1>11
    <2>3. Sum(f, U \ {z}) = f[c] + Sum(f, (U \ {z}) \ {c})
      BY <2>1, <1>11
    <2>4. (U \ {c}) \ {z} = (U \ {z}) \ {c}
      OBVIOUS
    <2>5. Fine((U \ {c}) \ {z})
      BY <1>6
    <2>6. f[z] \in Nat
      BY <1>3
    <2> QED
      BY <1>7, <1>9, <2>2, <2>3, <2>4, <2>5, <2>6
  <1>12. Fine(U)
    BY <1>7, <1>10, <1>11
  <1> QED
    BY <1>2, <1>12 DEF B

LEMMA SumSame ==
  ASSUME NEW S, IsFiniteSet(S), NEW f, NEW h, \A y \in S : f[y] = h[y]
  PROVE  Sum(f, S) = Sum(h, S)
PROOF
  <1> DEFINE B == {U \in SUBSET S : Sum(f, U) # Sum(h, U)}
  <1> SUFFICES ASSUME B # {} PROVE FALSE
    OBVIOUS
  <1>1. \E U \in B : \A V \in B : V \subseteq U => V = U
    <2>1. B \subseteq SUBSET S
      OBVIOUS
    <2> HIDE DEF B
    <2> QED
      BY <2>1, SmallestSet
  <1>2. PICK U \in B : \A V \in B : V \subseteq U => V = U
    BY <1>1
  <1>3. IsFiniteSet(U) /\ U # {}
    BY <1>2, SumEmpty, FS_Subset
  <1>4. PICK c \in U : c = Some(U)
    BY <1>3, SomeIn
  <1>5. Sum(f, U \ {c}) = Sum(h, U \ {c})
    BY <1>2
  <1>6. Sum(f, U) = f[c] + Sum(f, U \ {c}) /\ Sum(h, U) = h[c] + Sum(h, U \ {c})
    BY <1>3, <1>4, SumStep
  <1> QED
    BY <1>2, <1>5, <1>6

(* Only the term at x is different. *)
LEMMA SumChange ==
  ASSUME NEW S, IsFiniteSet(S), NEW x \in S, NEW f, NEW h,
         \A y \in S : f[y] \in Nat /\ h[y] \in Nat, \A y \in S \ {x} : f[y] = h[y]
  PROVE  Sum(f, S) - f[x] = Sum(h, S) - h[x]
PROOF
  <1>1. Sum(f, S \ {x}) = Sum(h, S \ {x})
    BY FS_Subset, SumSame
  <1>2. Sum(f, S) = f[x] + Sum(f, S \ {x}) /\ Sum(f, S) \in Nat
    BY SumRemove
  <1>3. Sum(h, S) = h[x] + Sum(h, S \ {x}) /\ Sum(h, S) \in Nat
    BY SumRemove
  <1>4. Sum(f, S \ {x}) \in Nat
    <2>1. IsFiniteSet(S \ {x})
      BY FS_Subset
    <2>2. CASE S \ {x} = {}
      BY <2>2, SumEmpty
    <2>3. CASE S \ {x} # {}
      BY <2>1, <2>3, SumRemove
    <2> QED
      BY <2>2, <2>3
  <1> QED
    BY <1>1, <1>2, <1>3, <1>4
-----------------------------------------------------------------------------
(* A callback to be made is counted by the executor that makes it, and while *)
(* nothing is confused the counts add up, except that there may be too many  *)
(* for a timer whose read() has failed.                                      *)
Holders(t) == {x \in Executors : xtm[x] = t}
Unmade(t) == Sum(xn, Holders(t))

HoldersFinite == \A t \in Timers : IsFiniteSet(Holders(t))
NotYetRead == \A x \in Executors : xpc[x] # "run" => xn[x] = 0
Due(t) == ticks[t] + fired[t] + Unmade(t)
Counted ==
  ~confused => \A t \in Timers :
    expired[t] <= Due(t) /\ (t \notin misread => expired[t] = Due(t))
CountInv == HoldersFinite /\ NotYetRead /\ Counted

LEMMA UnmadeNat ==
  ASSUME TypeInv, CountInv, NEW t \in Timers
  PROVE  Unmade(t) \in Nat
PROOF
  <1>1. IsFiniteSet(Holders(t)) /\ \A y \in Holders(t) : xn[y] \in Nat
    BY DEF CountInv, HoldersFinite, Holders, TypeInv, TypeOK
  <1>2. CASE Holders(t) = {}
    BY <1>2, SumEmpty DEF Unmade
  <1>3. CASE Holders(t) # {}
    BY <1>1, <1>3, SumRemove DEF Unmade
  <1> QED
    BY <1>2, <1>3

(* An executor's count changes. *)
LEMMA CountChanges ==
  ASSUME TypeInv, CountInv, NEW x \in Executors, NEW n \in Nat, xtm[x] \in Timers,
         xn' = [xn EXCEPT ![x] = n], xtm' = xtm
  PROVE  /\ HoldersFinite'
         /\ Unmade(xtm[x])' = Unmade(xtm[x]) + n - xn[x]
         /\ \A t \in Timers : t # xtm[x] => Unmade(t)' = Unmade(t)
PROOF
  <1>1. \A t \in Timers : Holders(t)' = Holders(t) /\ IsFiniteSet(Holders(t))
    BY DEF Holders, CountInv, HoldersFinite
  <1>2. xn \in [Executors -> Nat] /\ xn' \in [Executors -> Nat] /\ xn'[x] = n
    BY DEF TypeInv, TypeOK
  <1>3. x \in Holders(xtm[x])
    BY DEF Holders
  <1>4. \A y \in Executors \ {x} : xn'[y] = xn[y]
    BY <1>2
  <1>5. Sum(xn', Holders(xtm[x])) - xn'[x] = Sum(xn, Holders(xtm[x])) - xn[x]
    <2>1. \A y \in Holders(xtm[x]) : xn'[y] \in Nat /\ xn[y] \in Nat
      BY <1>2 DEF Holders
    <2>2. \A y \in Holders(xtm[x]) \ {x} : xn'[y] = xn[y]
      BY <1>4 DEF Holders
    <2>3. IsFiniteSet(Holders(xtm[x]))
      BY <1>1
    <2> DEFINE S == Holders(xtm[x])
               h == xn'
    <2>4. /\ IsFiniteSet(S) /\ x \in S /\ \A y \in S \ {x} : h[y] = xn[y]
          /\ \A y \in S : h[y] \in Nat /\ xn[y] \in Nat
      BY <1>3, <2>1, <2>2, <2>3
    <2> HIDE DEF S, h
    <2>5. Sum(h, S) - h[x] = Sum(xn, S) - xn[x]
      BY <2>4, SumChange
    <2> QED
      BY <2>5 DEF S, h
  <1>6. Sum(xn, Holders(xtm[x])) \in Nat
    BY UnmadeNat DEF Unmade
  <1>7. Sum(xn', Holders(xtm[x])) \in Nat
    <2>1. \A y \in Holders(xtm[x]) : xn'[y] \in Nat
      BY <1>2 DEF Holders
    <2> QED
      BY <1>1, <1>3, <2>1, SumRemove
  <1>8. Unmade(xtm[x])' = Unmade(xtm[x]) + n - xn[x]
    <2>1. Unmade(xtm[x])' = Sum(xn', Holders(xtm[x]))
      BY <1>1 DEF Unmade
    <2> QED
      BY <1>2, <1>5, <1>6, <1>7, <2>1 DEF Unmade
  <1>9. ASSUME NEW t \in Timers, t # xtm[x] PROVE Unmade(t)' = Unmade(t)
    <2>1. \A y \in Holders(t) : xn'[y] = xn[y]
      BY <1>4, <1>9 DEF Holders
    <2>2. Sum(xn', Holders(t)) = Sum(xn, Holders(t))
      BY <1>1, <2>1, SumSame
    <2> QED
      BY <1>1, <2>2 DEF Unmade
  <1> QED
    BY <1>1, <1>8, <1>9 DEF HoldersFinite

(* An executor that has no calls to make takes a timer or lets it go. *)
LEMMA HolderChanges ==
  ASSUME TypeInv, CountInv, NEW x \in Executors, xn[x] = 0, xn' = xn,
         \A y \in Executors \ {x} : xtm'[y] = xtm[y]
  PROVE  HoldersFinite' /\ \A t \in Timers : Unmade(t)' = Unmade(t)
PROOF
  <1> SUFFICES ASSUME NEW t \in Timers
               PROVE  IsFiniteSet(Holders(t)') /\ Unmade(t)' = Unmade(t)
    BY DEF HoldersFinite
  <1>1. IsFiniteSet(Holders(t)) /\ xn \in [Executors -> Nat]
    BY DEF CountInv, HoldersFinite, TypeInv, TypeOK
  <1> DEFINE rest == Holders(t) \ {x}
  <1>2. IsFiniteSet(rest) /\ IsFiniteSet(rest \cup {x})
    BY <1>1, FS_Subset, FS_AddElement
  <1>3. Holders(t) \in {rest, rest \cup {x}} /\ Holders(t)' \in {rest, rest \cup {x}}
    BY DEF Holders
  <1>4. Sum(xn, rest \cup {x}) = Sum(xn, rest)
    <2>1. \A y \in rest \cup {x} : xn[y] \in Nat
      BY <1>1 DEF Holders
    <2>2. Sum(xn, rest \cup {x}) = xn[x] + Sum(xn, (rest \cup {x}) \ {x})
      BY <1>2, <2>1, SumRemove
    <2>3. (rest \cup {x}) \ {x} = rest
      OBVIOUS
    <2>4. Sum(xn, rest) \in Nat
      <3>1. CASE rest = {}
        BY <3>1, SumEmpty
      <3>2. CASE rest # {}
        <4> HIDE DEF rest
        <4> QED
          BY <1>2, <2>1, <3>2, SumRemove
      <3> QED
        BY <3>1, <3>2
    <2> QED
      BY <2>2, <2>3, <2>4
  <1>5. Sum(xn, Holders(t)) = Sum(xn, rest) /\ Sum(xn, Holders(t)') = Sum(xn, rest)
    BY <1>3, <1>4
  <1>6. IsFiniteSet(Holders(t)')
    BY <1>2, <1>3
  <1>7. Unmade(t)' = Sum(xn, Holders(t)')
    BY DEF Unmade
  <1> QED
    BY <1>5, <1>6, <1>7 DEF Unmade

LEMMA StepCounts == TypeInv /\ CountInv /\ [Next]_vars => CountInv'
PROOF
  <1> SUFFICES ASSUME TypeInv, CountInv, [Next]_vars PROVE CountInv'
    OBVIOUS
  <1> USE DEF kernel, exVars, cliVars, stopVars, hist
  <1>1. ASSUME UNCHANGED <<xpc, xtm, xn>>
        PROVE  HoldersFinite' /\ NotYetRead' /\ \A t \in Timers : Unmade(t)' = Unmade(t)
    BY <1>1 DEF CountInv, HoldersFinite, NotYetRead, Holders, Unmade
  <1>2. ASSUME UNCHANGED <<xpc, xtm, xn, expired, ticks, fired, misread>>, confused => confused'
        PROVE  CountInv'
    <2>1. HoldersFinite' /\ NotYetRead' /\ \A t \in Timers : Unmade(t)' = Unmade(t)
      BY <1>1, <1>2
    <2>2. Counted'
      BY <1>2, <2>1 DEF CountInv, Counted, Due
    <2> QED
      BY <2>1, <2>2 DEF CountInv
  <1>3. ASSUME NEW t \in Timers, Tick(t) PROVE CountInv'
    <2>1. HoldersFinite' /\ NotYetRead' /\ \A u \in Timers : Unmade(u)' = Unmade(u)
      BY <1>1, <1>3 DEF Tick
    <2>2. /\ confused' = confused /\ fired' = fired /\ misread' = misread
          /\ expired' = [expired EXCEPT ![t] = @ + 1] /\ ticks' = [ticks EXCEPT ![t] = @ + 1]
      BY <1>3 DEF Tick
    <2>3. Counted'
      <3>1. ASSUME NEW u \in Timers, ~confused
            PROVE  /\ expired'[u] <= Due(u)'
                   /\ u \notin misread' => expired'[u] = Due(u)'
        <4>1. /\ expired[u] <= Due(u)
              /\ u \notin misread => expired[u] = Due(u)
          BY <3>1 DEF CountInv, Counted
        <4>2. expired[u] \in Nat /\ ticks[u] \in Nat /\ fired[u] \in Nat /\ Unmade(u) \in Nat
          BY UnmadeNat, TimerAssumption, SMTT(60) DEF TypeInv, TypeOK
        <4>3. /\ expired'[u] = expired[u] + (IF u = t THEN 1 ELSE 0)
              /\ ticks'[u] = ticks[u] + (IF u = t THEN 1 ELSE 0)
              /\ fired'[u] = fired[u] /\ Unmade(u)' = Unmade(u)
          BY <2>1, <2>2, <4>2 DEF TypeInv, TypeOK
        <4> QED
          BY <2>2, <4>1, <4>2, <4>3 DEF Due
      <3> QED
        BY <2>2, <3>1 DEF Counted
    <2> QED
      BY <2>1, <2>3 DEF CountInv
  <1>4. ASSUME NEW x \in Executors, CallbackLookup(x) PROVE CountInv'
    <2>1. UNCHANGED <<xn, expired, ticks, fired, misread>> /\ (confused => confused') /\ xn[x] = 0
      BY <1>4 DEF CallbackLookup, CountInv, NotYetRead
    <2>2. \A y \in Executors \ {x} : xtm'[y] = xtm[y] /\ xpc'[y] = xpc[y]
      BY <1>4 DEF CallbackLookup, TypeInv, TypeOK
    <2>3. HoldersFinite' /\ \A t \in Timers : Unmade(t)' = Unmade(t)
      BY <2>1, <2>2, HolderChanges
    <2>4. NotYetRead'
      BY <2>1, <2>2 DEF CountInv, NotYetRead
    <2>5. Counted'
      BY <2>1, <2>3 DEF CountInv, Counted, Due
    <2> QED
      BY <2>3, <2>4, <2>5 DEF CountInv
  <1>5. ASSUME NEW x \in Executors, ReadTimer(x) PROVE CountInv'
    <2>1. PICK t \in Timers : t = xtm[x]
      BY <1>5 DEF ReadTimer, TypeInv, TypeOK, Working
    <2>2. xn[x] = 0 /\ xtm' = xtm /\ xpc' = [xpc EXCEPT ![x] = "run"] /\ UNCHANGED <<expired, fired>>
      BY <1>5 DEF ReadTimer, CountInv, NotYetRead
    <2>3. PICK n \in Nat : xn' = [xn EXCEPT ![x] = n]
      <3>1. CASE xn' = [xn EXCEPT ![x] = ticks[file[fdOf[t]]]] /\ file[fdOf[t]] # NoTimer
        <4>1. file[fdOf[t]] \in Timers
          BY <3>1 DEF TypeInv, TypeOK
        <4>2. ticks[file[fdOf[t]]] \in Nat
          BY <4>1, TimerAssumption DEF TypeInv, TypeOK
        <4> QED
          BY <3>1, <4>2
      <3>2. CASE \E n \in Garbage : xn' = [xn EXCEPT ![x] = n]
        BY <3>2, TimerAssumption
      <3> QED
        BY <1>5, <2>1, <3>1, <3>2 DEF ReadTimer
    <2>4. /\ HoldersFinite' /\ Unmade(t)' = Unmade(t) + n - xn[x]
          /\ \A u \in Timers : u # t => Unmade(u)' = Unmade(u)
      BY <2>1, <2>2, <2>3, CountChanges
    <2>5. NotYetRead'
      BY <2>2, <2>3 DEF CountInv, NotYetRead, TypeInv, TypeOK
    <2>6. ASSUME ~confused', NEW u \in Timers
          PROVE  /\ expired'[u] <= Due(u)'
                 /\ u \notin misread' => expired'[u] = Due(u)'
      <3>1. ~confused
        BY <1>5, <2>6 DEF ReadTimer
      <3>2. /\ expired[u] <= Due(u)
            /\ u \notin misread => expired[u] = Due(u)
        BY <3>1 DEF CountInv, Counted
      <3>3. expired[u] \in Nat /\ ticks[u] \in Nat /\ fired[u] \in Nat /\ Unmade(u) \in Nat
        BY UnmadeNat, TimerAssumption, SMTT(60) DEF TypeInv, TypeOK
      <3>4. CASE /\ xn' = [xn EXCEPT ![x] = ticks[t]] /\ ticks' = [ticks EXCEPT ![t] = 0]
                 /\ misread' = misread
        <4>1. n = ticks[t]
          BY <2>3, <3>4 DEF TypeInv, TypeOK
        <4>2. ticks'[u] = IF u = t THEN 0 ELSE ticks[u]
          BY <3>4 DEF TypeInv, TypeOK
        <4>3. ticks'[u] + Unmade(u)' = ticks[u] + Unmade(u)
          BY <2>2, <2>4, <3>3, <4>1, <4>2
        <4>4. fired'[u] = fired[u]
          BY <2>2
        <4>5. Due(u)' = fired'[u] + (ticks'[u] + Unmade(u)')
          <5>1. ticks'[u] \in Nat
            BY <3>3, <4>2
          <5>2. Unmade(u)' \in Int
            BY <2>2, <2>4, <3>3, <4>1
          <5> QED
            BY <3>3, <4>4, <5>1, <5>2 DEF Due
        <4>6. Due(u) = fired[u] + (ticks[u] + Unmade(u))
          BY <3>3 DEF Due
        <4>7. Due(u)' = Due(u)
          BY <4>3, <4>4, <4>5, <4>6
        <4> QED
          BY <2>2, <3>2, <3>4, <4>7
      <3>5. CASE ticks' = ticks /\ misread' = misread \cup {t}
        <4>1. Unmade(u)' = Unmade(u) + (IF u = t THEN n ELSE 0)
          BY <2>2, <2>4, <3>3
        <4>2. Due(u)' = Due(u) + (IF u = t THEN n ELSE 0)
          BY <2>2, <3>3, <3>5, <4>1 DEF Due
        <4>3. Due(u) \in Nat
          BY <3>3 DEF Due
        <4> QED
          BY <2>2, <3>2, <3>3, <3>5, <4>2, <4>3
      <3> QED
        BY <1>5, <2>1, <2>6, <3>4, <3>5 DEF ReadTimer, AfterRead
    <2> QED
      BY <2>4, <2>5, <2>6 DEF CountInv, Counted
  <1>6. ASSUME NEW x \in Executors, RunCallback(x) PROVE CountInv'
    <2>1. PICK t \in Timers : t = xtm[x]
      BY <1>6 DEF RunCallback, TypeInv, TypeOK, Working
    <2>2. /\ xn[x] \in Nat /\ xn[x] > 0 /\ xn' = [xn EXCEPT ![x] = xn[x] - 1]
          /\ fired' = [fired EXCEPT ![t] = fired[t] + 1]
          /\ UNCHANGED <<xtm, xpc, ticks, expired, misread, confused>>
      BY <1>6, <2>1 DEF RunCallback, CallsLeft, TypeInv, TypeOK
    <2>3. /\ HoldersFinite' /\ Unmade(t)' = Unmade(t) + (xn[x] - 1) - xn[x]
          /\ \A u \in Timers : u # t => Unmade(u)' = Unmade(u)
      <3>1. PICK n \in Nat : n = xn[x] - 1
        BY <2>2
      <3>2. xn' = [xn EXCEPT ![x] = n] /\ xtm' = xtm /\ xtm[x] \in Timers
        BY <2>1, <2>2, <3>1
      <3>3. /\ HoldersFinite' /\ Unmade(t)' = Unmade(t) + n - xn[x]
            /\ \A u \in Timers : u # t => Unmade(u)' = Unmade(u)
        BY <2>1, <3>2, CountChanges
      <3> QED
        BY <3>1, <3>3
    <2>4. NotYetRead'
      BY <1>6, <2>2 DEF RunCallback, CountInv, NotYetRead, TypeInv, TypeOK
    <2>5. ASSUME ~confused, NEW u \in Timers
          PROVE  /\ expired'[u] <= Due(u)'
                 /\ u \notin misread' => expired'[u] = Due(u)'
      <3>1. /\ expired[u] <= Due(u)
            /\ u \notin misread => expired[u] = Due(u)
        BY <2>5 DEF CountInv, Counted
      <3>2. expired[u] \in Nat /\ ticks[u] \in Nat /\ fired[u] \in Nat /\ Unmade(u) \in Nat
        BY UnmadeNat, TimerAssumption, SMTT(60) DEF TypeInv, TypeOK
      <3>3. fired'[u] = IF u = t THEN fired[u] + 1 ELSE fired[u]
        BY <2>2 DEF TypeInv, TypeOK
      <3> QED
        BY <2>2, <2>3, <3>1, <3>2, <3>3 DEF Due
    <2> QED
      BY <2>2, <2>3, <2>4, <2>5 DEF CountInv, Counted
  <1>7. ASSUME NEW x \in Executors, CallbackDone(x) PROVE CountInv'
    <2>1. /\ UNCHANGED <<xn, expired, ticks, fired, misread>> /\ (confused => confused') /\ xn[x] = 0
      BY <1>7 DEF CallbackDone, CallsLeft, TypeInv, TypeOK
    <2>2. \A y \in Executors \ {x} : xtm'[y] = xtm[y] /\ xpc'[y] = xpc[y]
      BY <1>7 DEF CallbackDone, TypeInv, TypeOK
    <2>3. HoldersFinite' /\ \A t \in Timers : Unmade(t)' = Unmade(t)
      BY <2>1, <2>2, HolderChanges
    <2>4. NotYetRead'
      BY <2>1, <2>2 DEF CountInv, NotYetRead
    <2>5. Counted'
      BY <2>1, <2>3 DEF CountInv, Counted, Due
    <2> QED
      BY <2>3, <2>4, <2>5 DEF CountInv
  <1>8. ASSUME NEW c \in Clients, NEW t \in Timers, NEW f \in Fds, AddCreate(c, t, f)
        PROVE  CountInv'
    BY <1>2, <1>8 DEF AddCreate
  <1>9. ASSUME NEW c \in Clients, AddRegister(c) PROVE CountInv'
    BY <1>2, <1>9 DEF AddRegister
  <1>10. ASSUME NEW c \in Clients, NEW t \in Timers, RemoveErase(c, t) PROVE CountInv'
    BY <1>2, <1>10 DEF RemoveErase
  <1>11. ASSUME NEW c \in Clients, RemoveClose(c) PROVE CountInv'
    BY <1>2, <1>11 DEF RemoveClose
  <1>12. CASE ListenTest \/ ListenWait \/ ListenInterrupted \/ ListenExit
    BY <1>2, <1>12 DEF ListenTest, ListenWait, ListenInterrupted, ListenExit
  <1>13. ASSUME NEW f \in got, ListenSubmit(f) PROVE CountInv'
    BY <1>2, <1>13 DEF ListenSubmit
  <1>14. CASE StopStore \/ OwnerStep
    BY <1>2, <1>14 DEF StopStore, OwnerStep, StopNotify, StopWait, DestroyMembers
  <1>15. CASE UNCHANGED vars
    BY <1>2, <1>15 DEF vars
  <1> QED
    BY <1>3, <1>4, <1>5, <1>6, <1>7, <1>8, <1>9, <1>10, <1>11, <1>12, <1>13, <1>14, <1>15
    DEF Next, ClientCall, ClientStep, ListenerStep, ExecutorStep

(* While no descriptor was used after it changed hands, no expiration is     *)
(* lost, and expirations, reads and calls of m_callback_ add up for every    *)
(* timer whose read() has not failed, however many executors read and call   *)
(* at once.                                                                  *)
THEOREM OneCallPerExpiration == Spec => []OnePerExpiration
PROOF
  <1>1. Init => CountInv
    <2> SUFFICES ASSUME Init PROVE CountInv
      OBVIOUS
    <2>1. \A t \in Timers : Holders(t) = {}
      BY TimerAssumption DEF Init, Holders
    <2>2. \A t \in Timers : IsFiniteSet(Holders(t)) /\ Unmade(t) = 0
      BY <2>1, FS_EmptySet, SumEmpty DEF Unmade
    <2> QED
      BY <2>2 DEF Init, CountInv, HoldersFinite, NotYetRead, Counted, Due
  <1>2. TypeInv /\ CountInv /\ [Next]_vars => CountInv'
    BY StepCounts
  <1>3. CountInv => OnePerExpiration
    BY DEF CountInv, Counted, Due, Unmade, Holders, Sum, Calls, OnePerExpiration
  <1> QED
    BY <1>1, <1>2, <1>3, StopInvariant, PTL DEF Spec
=============================================================================
