SPECIFICATION Spec
SYMMETRY Symmetric
CONSTANTS
  GrantIds = {g1}
  NoGrant = NoGrant
  Calls = {c1, c2}
  Refs = {}
  NoRef = NoRef
  Requesters = {FALSE}
  AllowPlain = TRUE
  AllowExtension = FALSE
  GrantTypes = {"once"}
  PendingTTL = 0
  Duration = 1
  TokenLife = 1
  CommandLife = 1
  BrokerLimit = 1
  MaxTries = 2
  MaxNow = 1
  MaxApprovals = 2
  Never = 20
INVARIANTS SpentOnce
CHECK_DEADLOCK FALSE
