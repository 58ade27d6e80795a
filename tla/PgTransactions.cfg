CONSTANTS
  a = a b = b
  Url = {a, b}
  Handler = {h1, h2}
  Pages <- TwoPages
  Batches <- BothOrders
  POOL_MAX = 2
SPECIFICATION FairSpec
INVARIANTS
  DoneIsDone
PROPERTIES
  Implements
  PoolRecovers
