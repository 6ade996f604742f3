SPECIFICATION Spec
SYMMETRY Symmetric
CONSTANTS
  Tasks = {t1}
  NoTask = NoTask
  Workers = {w1, w2}
  NoWorker = NoWorker
  Calls = {c1, c2}
  Artifacts = {a1}
  ResolveStates = {"working", "completed"}
  LeaseLife = 1
  MaxLag = 1
  MaxNow = 3
  MaxDeliveries = 3
PROPERTIES FinalIsFinal
CHECK_DEADLOCK FALSE
