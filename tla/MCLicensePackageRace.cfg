\* Two client threads race each other and the watcher; no DLC, no callbacks.
SPECIFICATION Spec
CONSTANTS
  Ids = {1, 2, 3, 4}
  Native = {3}
  Redist = {4}
  Bases = {}
  DlcOf <- NoDlc
  Configs <- MCConfigs
  SteamThreads = {s1, s2}
  Watcher = watcher
  NoThread = NoThread
  AutoUnlockDlc = TRUE
  GrowMayFail = TRUE
  RebuildMayHappen = TRUE
  QueueMax = 0
INVARIANTS NoDuplicateEntries PackageFollowsConfig
