CONSTANTS
  Services <- ThreeServices
  MaxRequests = 4
  MaxNaps = 0
  Capacity = 4
  SessionMod = 100
  Faults <- NoFaults
SPECIFICATION FairSpec
PROPERTIES ImplementsRpc CallsReturn
CHECK_DEADLOCK FALSE
