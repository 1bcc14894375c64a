\* A CACHED pool that starts with one thread, grows and shrinks.
CONSTANTS
  Mode = "CACHED"
  InitSize = 1
  TaskHolds = {1, 2}
  Starts = 1
  Workers = {w1, w2, w3, w4}
  Clients = {c1, c2}
  Tasks = {t1, t2, t3}
  NoTask = NoTask
SPECIFICATION FairSpec
INVARIANTS SizesExact
PROPERTIES NoStrandedTask AcceptedTaskRuns LastOutNotifies
