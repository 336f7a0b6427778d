SPECIFICATION Spec
CONSTANTS
  Turns = {t1, t2}
  Clicks = {c1, c2}
  Instances = {i1, i2}
  MaxFaults = 0
  NoPending = NoPending
  NoDoc = NoDoc
CHECK_DEADLOCK FALSE
PROPERTY ClosesForGood
