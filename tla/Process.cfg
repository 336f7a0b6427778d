SPECIFICATION FairSpec
CONSTANTS
  Deployments <- MCDeployments
  TrueCounts <- MCTrueCounts
  Extras <- MCExtras
  Unknown = {"mfa"}
  Requests <- MCRequests
  MaxStarts = 2
CHECK_DEADLOCK FALSE
INVARIANTS
  TypeOK
  RunsHydrated
  StoppedMeansClosed
  
  OverallIsWorst
  BothAreTried
PROPERTIES
  OutageRefusesNone
  AllEnds
