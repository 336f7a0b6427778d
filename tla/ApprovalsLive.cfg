SPECIFICATION FairSpec
CONSTANTS
  Turns = {t1, t2}
  Clicks = {c1}
  Actions = {disable}
  SoftFail = {}
  Tokens = {k1, k2}
  TTL = 1
  MaxTime = 2
  Stores = {TRUE, FALSE}
  NoToken = NoToken
  NoPending = NoPending
CHECK_DEADLOCK FALSE
PROPERTIES
  OpenApprovalsEnd
  ApprovedCloses
