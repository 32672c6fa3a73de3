\* The daemon and one command line (which a user starts); two runs of one game.
SPECIFICATION FairSpec
CONSTANTS
  manager = manager
  daemon = daemon
  web = web
  Apps = {a1}
  Located = {a1}
  Synced = {a1}
  SaveFiles = {x}
  ProcessOf <- MCProcessOf
  Daemon = daemon
  WebThreads = {}
  Clis = {cli}
  ManagerKnown = FALSE
  NoWorker = NoWorker
  NoEvent = NoEvent
  Keep = 1
  MayFail = TRUE
  MaxTime = 1
  MaxPlays = 2
  MaxRequests = 1
  MaxCrashes = 1
INVARIANTS RepositoryBounded SuccessIsKept ExitIsBackedUp
PROPERTIES ImplementsVault BackupSeesStillSave ComesToRest
CHECK_DEADLOCK FALSE
