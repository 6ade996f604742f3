SPECIFICATION Spec
SYMMETRY Symmetric
CONSTANTS
  MaxEvents = 2
  MaxAccepted = 2
  QueueLimit = 2
  MaxRuns = 2
  MaxAttempts = 2
  MaxFaults = 1
  MaxConf = 0
  OwnerActs = {}
  Checks = {c1, c2}
INVARIANTS TypeOK ScriptHoldsLease ClaimsAreLeased InferenceNotRepeated
PROPERTIES KeepsQueue
CHECK_DEADLOCK FALSE
