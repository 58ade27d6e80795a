CONSTANTS
  Request = {c1, c2}
  Handle = {h1, h2, h3}
  NoHandle = NoHandle
  SEARCH_DB_TTL = 1
  FAILURE_THRESHOLD = 2
  RESET_TIMEOUT = 1
  HALF_OPEN_MAX = 2
  MAX_FAILURES = 3
SPECIFICATION FairSpec
INVARIANTS
  OneConnection
  OnlyConfigured
PROPERTIES
  HandleIsRenewed
