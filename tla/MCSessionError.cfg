CONSTANTS
  Services <- TwoServices
  MaxRequests = 2
  MaxNaps = 0
  Capacity = 2
  SessionMod = 100
  Faults <- Errors
SPECIFICATION FairSpec
PROPERTIES FailedCallIsAnswered
CHECK_DEADLOCK FALSE
