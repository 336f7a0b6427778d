SPECIFICATION Spec
CONSTANTS
  Turns = {t1, t2}
  Clicks = {c1, c2}
  Actions = {disable, report}
  SoftFail = {report}
  Tokens = {k1, k2}
  TTL = 1
  MaxTime = 2
  Stores = {TRUE}
  NoToken = NoToken
  NoPending = NoPending
SYMMETRY Symmetry
CHECK_DEADLOCK FALSE
INVARIANTS
  TypeOK
  OnlyReviewedRuns
  CardsAreStored
  UnrecordedOnlyIfLost
  TranscriptTellsOfClosed
PROPERTIES
  NoRunAfterExpiry
  ClosedStaysClosed
  ForgetsOnlyByOverlap
  ImplementsLifecycle
  RunsKeepContract
