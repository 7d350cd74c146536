\* Two replicas, an HTTPRoute and an Ingress.
SPECIFICATION Spec
CONSTANTS
  Replicas = {r1, r2}
  Conditioned = {}
  Routes = {rt}
  Ingresses = {ing}
  NoObject = NoObject
  Nobody = Nobody
  PromptStart = TRUE
  MaxTerms = 2
  MaxUpsets = 1
SYMMETRY ReplicaSymmetry
INVARIANTS TypeOK GatesFollowTerms RebuildPublishes
\* Replicas with nothing left to render wait for the next event.
CHECK_DEADLOCK FALSE
