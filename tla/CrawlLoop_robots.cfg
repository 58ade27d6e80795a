CONSTANTS
  a = a b = b c = c d1 = d1 d2 = d2 o1 = o1 o2 = o2 o3 = o3
  Url = {a, b, c}
  Domain = {d1, d2}
  Origin = {o1, o2, o3}
  DomainOf <- OneSite
  OriginOf <- SharedOrigin
  Links <- AllLinked
  Redirects <- Nowhere
  Disallowed = {c}
  RobotsAnswers = {TRUE}
  SEEDS = {a, b, c}
  ASYNC = FALSE
  Chain = {k1, k2, k3}
  Req = {q1, q2, q3}
  Nobody = Nobody
  CONCURRENCY = 2
  DOMAIN_LIMIT = 2
  DOMAIN_MAX = 3
  MAX_NODES = 4
  MAX_FRONTIER = 10
  QUEUE_LOW_WATER = 2
  FRONTIER_MAX = 3
  MAX_DEPTH = 1
  BATCH = 2
  RECRAWL_BATCH = 1
  BLACKLIST_MIN = 2
  DISK_FILLS = FALSE
  MAX_ID = 5
  MAX_FAULTS = 0
  MAX_CRASHES = 0
SPECIFICATION Spec
SYMMETRY SlotSymmetry
INVARIANT RobotsRespected
CHECK_DEADLOCK FALSE
