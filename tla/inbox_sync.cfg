SPECIFICATION WaitingSpec
CONSTANTS
  m1 = m1
  d1 = d1
  Messages = {m1}
  Decisions = {d1}
  Quota = 1
  PageSize = 1
  Retention = 1
  Tombstone = 1
  SessionLife = 1
  MaxVersion = 2
  MaxNow = 2
  MaxActs = 2
  MaxReplies = 1
  MaxFaults = 1
INVARIANTS TypeOK CopyIsCurrent MessageOnce
PROPERTIES DesktopIsShown PhoneCatchesUp
ACTION_CONSTRAINT Bounded
CHECK_DEADLOCK FALSE
