SPECIFICATION ProxyFairSpec
CONSTANTS
  c1 = c1
  c2 = c2
  u1 = u1
  u2 = u2
  u3 = u3
  o1 = o1
  o1b = o1b
  o2 = o2
  o3 = o3
  NULL = NULL
  Conn <- Conns2
  Uri <- Uris
  Object <- Objects
  Origin <- Origins
  CACHE_OBJS_COUNT = 2
  MaxRequests = 5
CHECK_DEADLOCK FALSE
INVARIANTS OneBlockPerUri ServesRequested
PROPERTIES  MutexReleased
