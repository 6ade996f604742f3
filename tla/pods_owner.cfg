SPECIFICATION FairSpec
CONSTANTS
  MaxEvents = 1
  MaxAccepted = 1
  QueueLimit = 1
  MaxRuns = 2
  MaxAttempts = 2
  MaxFaults = 1
  MaxConf = 1
  OwnerActs = {"pause", "schedule", "terminal"}
  Checks = {c1}
INVARIANTS TerminalAlone
PROPERTIES InputsAreSettled
CHECK_DEADLOCK FALSE
