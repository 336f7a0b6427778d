SPECIFICATION Spec
CONSTANTS
  Turns = {t1, t2}
  Clicks = {c1, c2}
  Actions = {disable, report}
  SoftFail = {report}
  Tokens = {k1, k2}
  TTL = 1
  MaxTime = 2
  Stores = {TRUE}
  NoToken = NoToken
  NoPending = NoPending
CHECK_DEADLOCK FALSE
INVARIANT SingleUse
