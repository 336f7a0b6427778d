SPECIFICATION Spec
CONSTANTS
  Deployments <- MCDeployments
  TrueCounts <- MCTrueCounts
  Extras <- MCExtras
  Unknown = {"mfa"}
  Requests <- MCRequests
  MaxStarts = 2
CHECK_DEADLOCK FALSE
INVARIANT NoSilentFailure
