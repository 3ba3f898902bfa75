SPECIFICATION Spec
CONSTANTS
  d1 = d1
  d2 = d2
  w1 = w1
  w2 = w2
  Absent = Absent
  Docs = {d1, d2}
  Intact = {d1}
  Workers = {w1, w2}
  Patches <- MCPatches
  MaxJobs = 3
  MaxLosses = 1
CHECK_DEADLOCK FALSE
INVARIANTS TypeOK FilesMatchRows DocumentsSettle
PROPERTY NoColumnIsLost
