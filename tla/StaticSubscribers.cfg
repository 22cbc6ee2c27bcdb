CONSTANTS
  a = a
  b = b
  None = None
  Bad = Bad
  e1 = e1
  e2 = e2
  App <- MCApp
  Event <- MCEvent
  Publication <- MCPublications
  BOOT_COMPLETED = e2
  ActiveUser = {0, 100}
  StoreAtStart <- MCStores
  MaxTasks = 2
  MaxRequests = 2
  MaxFaults = 1
  MaxNotices = 1
SPECIFICATION Spec
INVARIANTS
  AckedIsStored
  RemovedIsForgotten
  StartedIsEntitled
PROPERTY
  DisabledIsSilent
CHECK_DEADLOCK FALSE
