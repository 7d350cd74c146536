SPECIFICATION Spec
CONSTANTS
  None = None
  Junk = Junk
  MaxUint = 400
  Clusters <- MCClusters
INVARIANTS SingleEmission FirstClaimWins SchemaAgnostic ServersServe CertOfHost
PROPERTIES FirstWriterStays OutputIsStable
