SPECIFICATION FairSpec
CONSTANTS
  Tasks = {t1, t2}
  NoTask = NoTask
  Workers = {w1, w2}
  NoWorker = NoWorker
  Calls = {c1, c2}
  Artifacts = {a1}
  ResolveStates = {"working", "completed"}
  LeaseLife = 1
  MaxLag = 1
  MaxNow = 2
  MaxDeliveries = 3
INVARIANTS TypeOK
PROPERTIES LostToOverlapOnly ReopenedByLateOnly HolderIsAlone AbandonedIsRedelivered
ACTION_CONSTRAINT Bounded
CHECK_DEADLOCK FALSE
