SPECIFICATION FairSpec
CONSTANTS
  NoOp = NoOp
  o1 = o1
  o2 = o2
  Ops = {o1, o2}
  LocalOps = {o2}
  MaxContent = 1
  MaxFaults = 1
PROPERTIES OperationSettles
