\* A FIXED pool of two threads, two clients, a queue of one or two places.
CONSTANTS
  Mode = "FIXED"
  InitSize = 2
  TaskHolds = {1, 2}
  Starts = 1
  Workers = {w1, w2}
  Clients = {c1, c2}
  Tasks = {t1, t2, t3}
  NoTask = NoTask
SPECIFICATION FairSpec
INVARIANTS TypeOK QueueBounded SafeDestroy
PROPERTIES ServiceSpec AcceptedTaskRuns DestructorReturns
