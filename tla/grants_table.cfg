SPECIFICATION Spec
SYMMETRY Symmetric
CONSTANTS
  GrantIds = {g1, g2}
  NoGrant = NoGrant
  Calls = {c1, c2}
  Refs = {r1}
  NoRef = NoRef
  Requesters = {TRUE, FALSE}
  AllowPlain = TRUE
  AllowExtension = TRUE
  GrantTypes = {"once", "always"}
  PendingTTL = 0
  Duration = 1
  TokenLife = 1
  CommandLife = 1
  BrokerLimit = 1
  MaxTries = 2
  MaxNow = 1
  MaxApprovals = 2
  Never = 20
INVARIANTS OneGrantPerReference BrokerInboxBounded SpentWithinApprovals
PROPERTIES ExpiredIsFinal
ACTION_CONSTRAINT Bounded
CHECK_DEADLOCK FALSE
