SPECIFICATION Safety
CONSTANTS
  Sources <- MCSources
  KeyOrder <- MCKeys
  Ensured <- MCEnsured
  Revisions <- MCRevisions
  Projected = {k1, k2}
  Contents = {a, b}
  Floor = Floor
  Partial = Partial
  NoFile = NoFile
  Absent = Absent
  Missing = Missing
  a = a
  b = b
  k1 = k1
  k2 = k2
  s1 = s1
  MaxEdits = 1
  MaxFaults = 0
  MaxCrashes = 0
INVARIANT HandledIsOnDisk
\* An idle sidecar whose files are current waits for the next edit.
CHECK_DEADLOCK FALSE
