\* A repeating and a one-shot timer on two descriptors, added and removed by two clients.
CONSTANTS
  Timers = {t1, t2}
  Repeating = {t1}
  Fds = {1, 2}
  Clients = {c1, c2}
  Executors = {x1, x2}
  MaxTicks = 2
  Twins = 1
  Garbage = {1}
  Absent = Absent
  NoTimer = NoTimer
SPECIFICATION FairSpec
CHECK_DEADLOCK FALSE
INVARIANTS TypeOK StopSafe NoFdLeak OnePerExpiration Registered
PROPERTIES TimerFires StopReturns
