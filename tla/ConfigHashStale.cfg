SPECIFICATION Spec
CONSTANTS
  cm = cm
  sec = sec
  proxy = proxy
  agent = agent
  ConfigMaps = {cm}
  Secrets = {sec}
  Workloads = {proxy, agent}
  Objects <- MCObjects
  Initial <- MCInitial
  KindOf <- MCKindOf
  Refs <- MCRefs
  NoData = NoData
  Missing = Missing
  NoWorkload = NoWorkload
  MaxEdits = 2
  MaxFaults = 0
INVARIANT ContentIsStamped
\* A controller with no event left to handle waits for the next one.
CHECK_DEADLOCK FALSE
