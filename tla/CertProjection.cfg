SPECIFICATION Spec
CONSTANTS
  s1 = s1
  s2 = s2
  StemOrder <- MCStemOrder
  Opaque <- MCOpaque
  Versions = {v1, v2}
  Unusable = Unusable
  Missing = Missing
  NoFile = NoFile
  Partial = Partial
  MaxEdits = 1
  MaxFaults = 1
  MaxCrashes = 1
INVARIANTS TypeOK KeyBesideCrt CertsConverge
PROPERTY CertsBeforeUpstreams
CHECK_DEADLOCK FALSE
