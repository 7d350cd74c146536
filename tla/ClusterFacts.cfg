SPECIFICATION ClusterSpec
CONSTANTS
  None = None
  HashLike <- MCHashLike
  Ordinals <- MCOrdinals
  PodSets <- MCPodSets
  Namespaces <- MCNamespaces
  Policies <- MCPolicies
  ServiceSets <- MCServiceSets
  IngressSets <- MCIngressSets
  MaxPolicies = 2
  Flows = {80, 81, 82}
INVARIANTS NoFalseViolation NothingUndeclared ExposedIsReachable
