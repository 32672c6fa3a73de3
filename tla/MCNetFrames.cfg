\* Two requests about two apps, b with a donor of its own; a pool of two slots.
SPECIFICATION FairSpec
CONSTANTS
  MaxJobs = 2
  a = a
  b = b
  Apps = {a, b}
  NoApp = NoApp
  Overrides = {b}
  PoolSize = 2
  QueueLimit = 1
  NotedLimit = 1
  Asks <- MCAsks
  Ticketed = {b}
  Tokens = {a}
  MaxReloads = 1
  MaxKicks = 1
INVARIANTS OneAnswerEach FramesSurvive DonorStatsAreStripped AsksOnceForUnknown
PROPERTY AnswersArrive
CHECK_DEADLOCK FALSE
