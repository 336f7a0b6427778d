SPECIFICATION Spec
CONSTANTS
  Reads = {search}
  Writes = {delete, reset}
  Unknown = unknown
  norm = norm
  raw = raw
  bad = bad
  Invalid = Invalid
  None = None
  Args <- MCArgs
  RawArgs <- MCRawArgs
  Normalize <- MCNormalize
  Reread <- MCReread
  MaxIterations = 2
  MaxCalls = 2
  MaxTotal = 3
  MaxTurns = 2
CHECK_DEADLOCK FALSE
INVARIANTS
  TypeOK
  PairedHistory
PROPERTIES
  OnlyHumansWrite
  ApprovedRuns
  LastProposalOffered
  ImplementsGate
