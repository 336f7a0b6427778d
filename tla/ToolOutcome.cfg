SPECIFICATION Spec
CONSTANTS
  Users = {u1, u2, u3}
  MaxBulk = 3
SYMMETRY Symmetry
CHECK_DEADLOCK FALSE
INVARIANTS
  TypeOK
  DeclinedMeansUntouched
  FailedMeansNoneConfirmed
  NobodyBeyond
PROPERTY
  ImplementsContract
