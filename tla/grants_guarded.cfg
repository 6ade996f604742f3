SPECIFICATION FairSpec
CONSTANTS
  GrantIds = {g1}
  NoGrant = NoGrant
  Calls = {c1, c2}
  Refs = {r1}
  NoRef = NoRef
  Requesters = {TRUE, FALSE}
  AllowPlain = FALSE
  AllowExtension = FALSE
  GrantTypes = {"once", "timed"}
  PendingTTL = 0
  Duration = 1
  TokenLife = 2
  CommandLife = 2
  BrokerLimit = 1
  MaxTries = 2
  MaxNow = 2
  MaxApprovals = 2
  Never = 20
INVARIANTS TypeOK GuardedSingleUse CommandTokenSpent WithdrawnUnspent DeniedGrantsNothing TokenWithinGrant
PROPERTIES PendingIsSettled ImplementsPromise RevokedConnectionIsFinal
CHECK_DEADLOCK FALSE
