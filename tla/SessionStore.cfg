SPECIFICATION Spec
CONSTANTS
  Turns = {t1, t2}
  Clicks = {c1, c2}
  Instances = {i1, i2}
  MaxFaults = 2
  NoPending = NoPending
  NoDoc = NoDoc
SYMMETRY Symmetry
CHECK_DEADLOCK FALSE
INVARIANT TypeOK
PROPERTIES
  OneInstanceIsAtomic
  UndisturbedIsAtomic
  OneInstanceClosesForGood
  ReturnsOnlyIfLost
  CardsWorkUnlessLost
