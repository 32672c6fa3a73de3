\* The daemon alone; copies may fail.
SPECIFICATION Spec
CONSTANTS
  manager = manager
  daemon = daemon
  web = web
  Apps = {a1}
  Located = {a1}
  Synced = {a1}
  SaveFiles = {x}
  ProcessOf <- MCProcessOf
  Daemon = daemon
  WebThreads = {}
  Clis = {}
  ManagerKnown = FALSE
  NoWorker = NoWorker
  NoEvent = NoEvent
  Keep = 2
  MayFail = TRUE
  MaxTime = 2
  MaxPlays = 3
  MaxRequests = 0
  MaxCrashes = 0
PROPERTY FallbackIsKept
CHECK_DEADLOCK FALSE
