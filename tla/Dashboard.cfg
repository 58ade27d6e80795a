CONSTANTS
  MAX_CRAWLER_RESTARTS = 3
  MAX_PAGES = 2
  MAX_WIRE = 1
  MAX_ZIPS = 2
  MAX_ERRORS = 1
SPECIFICATION DashboardSpec
CHECK_DEADLOCK FALSE
INVARIANTS
  OneCrawler
  HealthIsHonest
  ForksWithinBudget
  KeptAlive
  ExitZeroLeavesNoCrawler
PROPERTIES
  CrawlerComesBack
  TreeArrives
  CachesNeverGoBack
  GzipCatchesUp
