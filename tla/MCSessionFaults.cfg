CONSTANTS
  Services <- TwoServices
  MaxRequests = 3
  MaxNaps = 1
  Capacity = 1
  SessionMod = 100
  Faults <- AllFaults
SPECIFICATION FairSpec
INVARIANTS RunningThreadIsRunning ResponseFindsItsCaller RegisteredWhileCalled WaitHasACause TablesMatchCoroutines
PROPERTIES ImplementsRpc SleepersWake QuitEndsTheThread
CHECK_DEADLOCK FALSE
