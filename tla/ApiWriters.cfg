SPECIFICATION Spec
CONSTANTS
  web = web
  net = net
  ip1 = ip1
  ip2 = ip2
  n1 = n1
  n2 = n2
  pod = pod
  junk = junk
  pin = pin
  None = None
  Any = Any
  NoKey = NoKey
  Bad = Bad
  Absent = Absent
  Foreign = Foreign
  CIDRs = {net, pod}
  Supernets = {net}
  Initial <- MCInitial
  Worlds <- MCWorlds
  NodeSets <- MCNodeSets
  ServiceNames = {web}
  Services <- MCServices
  ConfigMaps <- MCConfigMaps
  UserConfigs <- MCUserConfigs
  UserUps <- MCUserUps
  Pins = {pin}
  OutNames = {"default", "named"}
  DefaultOut = "default"
  MaxEdits = 2
INVARIANTS TypeOK HomeIsInternal PipelineConverges
PROPERTIES OneOwnerPerKey CertsFirst
\* A system at rest waits for the next event.
CHECK_DEADLOCK FALSE
