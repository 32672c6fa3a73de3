\* Three requests for two manifests, one restart.
SPECIFICATION FairSpec
CONSTANTS
  MaxJobs = 3
  m1 = m1
  m2 = m2
  Wanted <- MCWanted
  Manifests = {m1, m2}
  NoCode = NoCode
  MaxRestarts = 1
INVARIANTS JobsAreTracked AnswersConverge
PROPERTIES ImplementsService ReceiveReturns
CHECK_DEADLOCK FALSE
