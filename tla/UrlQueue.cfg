CONSTANTS
  u1 = u1 u2 = u2 p1 = p1
  Url = {u1, u2}
  Partition = {p1}
  Call = {c1, c2}
  PartitionOf <- OneSite
  SEEN_MAX = 1
  Garbled = Garbled
  Keyless = Keyless
  MAX_LOG = 2
  MAX_CRASHES = 1
SPECIFICATION FairSpec
CHECK_DEADLOCK FALSE
INVARIANTS
  EnqueuedIsSomewhere
  HandledBeforeCommitted
PROPERTIES
  MessagesArrive
