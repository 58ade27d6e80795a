CONSTANTS
  WINDOW = 2
  LIMIT <- OneEach
  REDIS_ENABLED = TRUE
  Answers = {"counted", "throws"}
SPECIFICATION FairSpec
INVARIANTS
  FixedWindowBudget
  SlidingWindowBudget
PROPERTIES
  ServedAgainAndAgain
