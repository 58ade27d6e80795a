CONSTANTS
  Call = {c1, c2, c3}
  FAILURE_THRESHOLD = 3
  RESET_TIMEOUT = 2
  HALF_OPEN_MAX = 2
  MAX_FAILURES = 6
SPECIFICATION FairSpec
INVARIANTS
  TypeOK
  ProbesWithinBudget
  SpentBudgetHasProbe
  SuccessesUninterrupted
PROPERTIES
  OpenAdmitsNothing
  ImplementsContract
  OpenIsEventuallyProbed
