SPECIFICATION Spec
CONSTANTS
  EventPermission <- NoPermissions
  SystemEvents = {"f"}
  SystemAPIEvents = {}
  PublishControl <- MCPublishControl
  CheckSaPermission = FALSE
  Caller <- MCCaller
  Listener = {"la", "lo"}
  Owner <- MCOwner
  PublishRequest <- MCPublishRequest
  SubscribeRequest <- MCSubscribeRequest
  Users = {0, 100, 101}
  FloodMax = 1
  FloodInterval = 0
  None = None
  MaxAttempts = 2
  MaxSubscribes = 2
  MaxTime = 1
INVARIANTS
  FloodBound
  UserIsolation
  StickyNewest
  StickyReachesAll
CHECK_DEADLOCK FALSE
