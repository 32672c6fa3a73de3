\* Two reload threads; iterations may throw; f2 is not parsed at start.
SPECIFICATION FairSpec
CONSTANTS
  a = a
  b = b
  Ids = {1, 2}
  Values = {a, b}
  NoValue = NoValue
  Scripts <- MCScripts
  Files = {f1, f2}
  InitialFiles = {f1}
  Reloaders = {w1, w2}
  InitThread = init
  NoThread = NoThread
  NotRead = NotRead
  NoFile = NoFile
  Settable = {1}
  ScanMayFail = TRUE
  MaxEdits = 2
INVARIANTS ReadersNeverSeeStaging UnlocksAreOneBuild SettledSnapshotIsDisk
PROPERTIES ReloadCompletes ImplementsStore
