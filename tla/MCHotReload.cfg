\* All three platforms; f1 and f2 come and go, f3 is nested.
SPECIFICATION FairSpec
CONSTANTS
  v1 = v1
  v2 = v2
  g1 = g1
  g2 = g2
  Files = {f1, f2, f3}
  Nested = {f3}
  Permanent = {}
  Versions = {v1, v2}
  Games = {g1, g2}
  UnlocksOf <- MCUnlocksOf
  Empty = Empty
  Absent = Absent
  Backends = {"inotify", "kqueue", "windows"}
  MaxEdits = 2
INVARIANTS TypeOK QuietMeansCurrent
PROPERTIES EditsTakeEffect
CHECK_DEADLOCK FALSE
