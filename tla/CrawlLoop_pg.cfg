CONSTANTS
  a = a b = b c = c d1 = d1 d2 = d2 o1 = o1 o2 = o2 o3 = o3
  Url = {a, b, c}
  Domain = {d1, d2}
  Origin = {o1, o2, o3}
  DomainOf <- TwoSites
  OriginOf <- OnePerSite
  Links <- AllLinked
  Redirects <- CToB
  Disallowed = {b}
  RobotsAnswers = {TRUE, FALSE}
  SEEDS = {a, b, c}
  ASYNC = TRUE
  Chain = {k1, k2}
  Req = {q1, q2, q3}
  Nobody = Nobody
  CONCURRENCY = 1
  DOMAIN_LIMIT = 1
  DOMAIN_MAX = 3
  MAX_NODES = 4
  MAX_FRONTIER = 10
  QUEUE_LOW_WATER = 1
  FRONTIER_MAX = 1
  MAX_DEPTH = 1
  BATCH = 3
  RECRAWL_BATCH = 1
  BLACKLIST_MIN = 2
  DISK_FILLS = FALSE
  MAX_ID = 5
  MAX_FAULTS = 1
  MAX_CRASHES = 1
SPECIFICATION Spec
SYMMETRY SlotSymmetry
INVARIANTS
  NeverStalls
  IdleDomainHasRoom
  WorkSurvivesCrash
  OvershootBounded
CHECK_DEADLOCK FALSE
