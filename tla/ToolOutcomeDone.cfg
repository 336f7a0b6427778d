SPECIFICATION Spec
CONSTANTS
  Users = {u1}
  MaxBulk = 1
CHECK_DEADLOCK FALSE
INVARIANT NeverFakesDone
