\* One client thread and the watcher; appends may fail, Steam may rewrite.
SPECIFICATION FairSpec
CONSTANTS
  Ids = {1, 2, 3, 4}
  Native = {3}
  Redist = {4}
  Bases = {1}
  DlcOf <- MCDlcOf
  Configs <- MCConfigs
  SteamThreads = {s1}
  Watcher = watcher
  NoThread = NoThread
  AutoUnlockDlc = TRUE
  GrowMayFail = TRUE
  RebuildMayHappen = TRUE
  QueueMax = 1
INVARIANTS TypeOK EntriesAreAccountedFor
PROPERTIES HooksReturn DeferredInjectionHappens
