SPECIFICATION FairSpec
CONSTANTS
  NoOp = NoOp
  o1 = o1
  o2 = o2
  Ops = {o1, o2}
  LocalOps = {o2}
  MaxContent = 2
  MaxFaults = 2
INVARIANTS TypeOK AppliedIsVisible ReconciledFirst
PROPERTIES KeepsPromise OutcomeKept RanIsSettled
ACTION_CONSTRAINT Bounded
