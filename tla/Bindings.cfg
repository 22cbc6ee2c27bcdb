\* one subscriber, two events; buffers of six characters for names and four for data
CONSTANTS
  STR_MAX_SIZE = 6
  STR_DATA_MAX_SIZE = 4
  EVENT_KINDS <- EventKinds
  EVENT_PARAMETERS <- EventParameters
  MAX_EVENTS = 2
  MAX_OBJECTS = 1
  SUBSCRIBE_EVENT_MAX_NUM = 3
  SCRIPTS <- MCScripts
SPECIFICATION Spec
CHECK_DEADLOCK FALSE
INVARIANTS
  PromisesKept
  HeldIsHeard
  HeardIsHeld
  AnsweredOnce
  PublishedAsAsked
PROPERTIES
  SilentAfterUnsubscribe
  ReadsOwnWrites
