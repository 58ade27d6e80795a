CONSTANTS
  MAX_REDIRECTS = 3
  LIMIT = 3
  Sizes = {1, 2}
  MAX_BYTES = 5
SPECIFICATION FairSpec
CHECK_DEADLOCK FALSE
INVARIANTS
  PendingIsCovered
  OneOpenRequest
PROPERTIES
  KeepsThePrefix
  FetchSettles
