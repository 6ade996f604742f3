SPECIFICATION Spec
CONSTANTS
  Tasks = {t1}
  NoTask = NoTask
  Workers = {w1}
  NoWorker = NoWorker
  Calls = {c1, c2}
  Artifacts = {a1}
  ResolveStates = {"working", "completed"}
  LeaseLife = 1
  MaxLag = 1
  MaxNow = 1
  MaxDeliveries = 1
PROPERTIES ArtifactsKept
CHECK_DEADLOCK FALSE
