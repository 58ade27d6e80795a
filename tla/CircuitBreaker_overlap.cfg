CONSTANTS
  Call = {c1, c2}
  FAILURE_THRESHOLD = 3
  RESET_TIMEOUT = 3
  HALF_OPEN_MAX = 3
  MAX_FAILURES = 6
SPECIFICATION BusySpec
PROPERTIES
  HealthyServiceCloses
