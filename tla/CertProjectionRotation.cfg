SPECIFICATION Spec
CONSTANTS
  s1 = s1
  s2 = s2
  StemOrder <- MCStemOrder
  Opaque <- MCOpaque
  Versions = {v1, v2}
  Unusable = Unusable
  Missing = Missing
  NoFile = NoFile
  Partial = Partial
  MaxEdits = 1
  MaxFaults = 0
  MaxCrashes = 0
INVARIANT RotationConverges
CHECK_DEADLOCK FALSE
