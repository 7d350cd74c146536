SPECIFICATION Spec
CONSTANTS
  i1 = i1
  i2 = i2
  web = web
  db = db
  Pods = {p1, p2}
  IPs = {i1, i2}
  PodStates <- MCValued
  NoPod = NoPod
  NoRow = NoRow
  NoVersion = NoVersion
  MaxEdits = 1
  MaxTicks = 1
  MaxFaults = 0
SYMMETRY PodSymmetry
INVARIANT FollowerIsFresh
\* A producer with no event left to handle waits for the next one.
CHECK_DEADLOCK FALSE
