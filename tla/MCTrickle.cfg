SPECIFICATION FairSpec
CONSTANTS
  HostCandidates = {h1}
  ViewerCandidates = {v1, v2}
  Buffer = 2
  MaxFaults = 2
INVARIANTS NoOvertaking
PROPERTIES CandidatesArrive GoneIsTold
CHECK_DEADLOCK FALSE
