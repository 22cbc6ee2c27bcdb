CONSTANTS
  s1 = s1
  s2 = s2
  s3 = s3
  t1 = t1
  t2 = t2
  Subscriber = {s1, s2, s3}
  Thread = {t1, t2}
  Handler = {s3}
  SUBSCRIBER_MAX_SIZE = 2
  MaxCalls = 3
  MaxDeaths = 2
  MaxEvents = 1
  MaxRefusals = 1
  MaxIncidents = 2
SYMMETRY Symmetric
SPECIFICATION Spec
INVARIANTS
  ListenersBounded
  RestartIsSeen
  KnownIsLive
  UnsubscribedIsSilent
CHECK_DEADLOCK FALSE
