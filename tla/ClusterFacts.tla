---------------------------- MODULE ClusterFacts ----------------------------
(***************************************************************************)
(* What the producers tell agents about a cluster, against what Kubernetes *)
(* does with the same objects.  The state is the cluster; DeltaProducer    *)
(* has the loop that computes and sends the facts.                         *)
(*                                                                         *)
(* The reference is NetworkPolicy and Service as Kubernetes applies them   *)
(* to single Pods; the facts are about workloads, and an agent judges a    *)
(* flow by the workloads of its two ends.                                  *)
(***************************************************************************)
EXTENDS PolicyEdges, Exposure, FiniteSets

CONSTANTS PodSets, Namespaces, Policies, ServiceSets, IngressSets,
                       \* what the cluster's objects may be
          MaxPolicies,
          Flows        \* the port numbers that Pods connect to

ASSUME FlowAssumption == Flows \subseteq Nat \ {AnyPort}

\* What the API server lets into the cluster: Pods of the namespaces there
\* are, ports above 0, and the types it knows.
ASSUME NamespaceAssumption ==
  \A ps \in PodSets, nss \in Namespaces : \A p \in ps : p.ns \in DOMAIN nss

ASSUME PortAssumption ==
  /\ \A ps \in PodSets : \A p \in ps : \A cp \in p.ports : cp.number # AnyPort
  /\ \A np \in Policies : \A rule \in np.ingress \cup np.egress : \A port \in rule.ports :
       /\ port.type \in {"nil", "Int", "String"}
       /\ port.type = "Int" => port.number # AnyPort

ASSUME ServiceAssumption ==
  \A svcs \in ServiceSets : \A s \in svcs :
    s.name # None /\ s.type \in {"ClusterIP", "ExternalName", "NodePort", "LoadBalancer"}

VARIABLE cluster

ClusterInit ==
  cluster \in [pods : PodSets, namespaces : Namespaces, policies : {{}},
              services : ServiceSets, ingresses : {{}}]

\* A user writes a NetworkPolicy, or takes one away.
WritePolicy(np) ==
  /\ Cardinality(cluster.policies) < MaxPolicies
  /\ cluster' = [cluster EXCEPT !.policies = @ \cup {np}]

DeletePolicy(np) ==
  /\ np \in cluster.policies
  /\ cluster' = [cluster EXCEPT !.policies = @ \ {np}]

\* Pods are rolled, namespaces relabelled, Services and Ingresses edited.
Roll    == \E ps \in PodSets : cluster' = [cluster EXCEPT !.pods = ps]
Relabel == \E ns \in Namespaces : cluster' = [cluster EXCEPT !.namespaces = ns]
Expose  == \E svcs \in ServiceSets, ings \in IngressSets :
             cluster' = [cluster EXCEPT !.services = svcs, !.ingresses = ings]

ClusterNext == (\E np \in Policies : WritePolicy(np) \/ DeletePolicy(np)) \/ Roll \/ Relabel \/ Expose

ClusterSpec == ClusterInit /\ [][ClusterNext]_cluster

-----------------------------------------------------------------------------
(***************************************************************************)
(* External: NetworkPolicy as the cluster applies it, but for two parts of *)
(* a policy that no line can express: a peer that is an address block, and *)
(* the ports of a range after its first.                                   *)
(***************************************************************************)
Addressable == {p \in cluster.pods : ~p.hostNetwork}

Types(np) ==
  IF np.types # {} THEN np.types
  ELSE {"Ingress"} \cup (IF np.egress = {} THEN {} ELSE {"Egress"})

Selects(np, p) == p.ns = np.ns /\ Matches(np.podSelector, p.labels)

PeerTakes(peer, np, p) ==
  /\ ~peer.ipBlock
  /\ peer.podSelector = None \/ Matches(peer.podSelector, p.labels)
  /\ IF peer.namespaceSelector = None THEN p.ns = np.ns
     ELSE Matches(peer.namespaceSelector, cluster.namespaces[p.ns])

\* Port n of Pod d.
PortTakes(port, d, n) ==
  \/ port.type = "nil"
  \/ port.type = "Int" /\ port.number = n
  \/ port.type = "String" /\ \E cp \in d.ports : cp.name = port.name /\ cp.number = n

RuleTakes(rule, np, p, d, n) ==
  /\ rule.peers = {} \/ \E peer \in rule.peers : PeerTakes(peer, np, p)
  /\ rule.ports = {} \/ \E port \in rule.ports : PortTakes(port, d, n)

Restricting(type, p) == {np \in cluster.policies : type \in Types(np) /\ Selects(np, p)}

\* Pod s may connect to port n of Pod d.
Allowed(s, d, n) ==
  LET onto == Restricting("Ingress", d)
      from == Restricting("Egress", s)
  IN /\ onto = {} \/ \E np \in onto : \E rule \in np.ingress : RuleTakes(rule, np, s, d, n)
     /\ from = {} \/ \E np \in from : \E rule \in np.egress : RuleTakes(rule, np, d, d, n)

-----------------------------------------------------------------------------
(***************************************************************************)
(* External: an agent.  A flow of a governed workload that no edge         *)
(* declares is a violation.                                                *)
(***************************************************************************)
Governed(lines, s, d) == Ref(d) \in lines.G \/ Ref(s) \in lines.S

Declared(lines, s, d, n) ==
  \E e \in lines.E : e.src \in {AnyRef, Ref(s)} /\ e.dst \in {AnyRef, Ref(d)} /\ e.port \in {AnyPort, n}

\* A policy that governs p's workload but not p: the workload's Pods differ in
\* their labels, as in a rolling update that changes them; or egress rules in
\* a policy that is not about egress, which policyHasEgress takes for one.
Overread(lines, s, d) ==
  \/ Ref(d) \in lines.G /\ Restricting("Ingress", d) = {}
  \/ Ref(s) \in lines.S /\ Restricting("Egress", s) = {}

(***************************************************************************)
(* No false violation ("conservatively avoiding false violations" and "so  *)
(* a flow on the real port is never a false violation", edge_producer.go): *)
(* what the cluster's policies allow, however many of them govern either   *)
(* end and in whichever direction, with named ports that some Pods carry   *)
(* under another number or not at all, the lines let pass.                 *)
(***************************************************************************)
NoFalseViolation ==
  LET lines == computeEdgeLines(cluster)
  IN \A s, d \in Addressable : Governed(lines, s, d) /\ ~Overread(lines, s, d) =>
       \A n \in Flows : Allowed(s, d, n) => Declared(lines, s, d, n)

\* The rule takes port n as far as some Pod it is about carries the name, or
\* none does.
PortMeant(rule, pods, n) ==
  \/ rule.ports = {}
  \/ \E port \in rule.ports :
       \/ \E q \in pods : PortTakes(port, q, n)
       \/ port.type = "nil" \/ (port.type = "Int" /\ port.number = n)
       \/ port.type = "String" /\ \A q \in pods : \A cp \in q.ports : cp.name # port.name

\* The Pods of p's workload, those a policy selects and those a rule's peers take.
Alike(p)        == {q \in Addressable : Ref(q) = Ref(p)}
Selected(np)    == {p \in Addressable : Selects(np, p)}
Taken(rule, np) == {p \in Addressable : \E peer \in rule.peers : PeerTakes(peer, np, p)}

Meant(rule, np, peers, dsts, n) ==
  /\ rule.peers = {} \/ \E peer \in rule.peers, p \in peers : PeerTakes(peer, np, p)
  /\ PortMeant(rule, dsts, n)

\* np has a rule for connections from the workload of s to port n of that of d.
Written(np, s, d, n) ==
  \/ /\ Alike(d) \cap Selected(np) # {}
     /\ \E rule \in np.ingress : Meant(rule, np, Alike(s), Selected(np), n)
  \/ /\ Alike(s) \cap Selected(np) # {}
     /\ \E rule \in np.egress : Meant(rule, np, Alike(d), Taken(rule, np), n)

(***************************************************************************)
(* Nothing is declared that nobody wrote ("NOT widen to any-port", "not a  *)
(* declared source", edge_producer_test.go): a flow between governed       *)
(* workloads that the lines let pass is one that a rule of a policy        *)
(* selecting one of the two workloads allows for some Pods of them, on a   *)
(* port the rule names.                                                    *)
(***************************************************************************)
NothingUndeclared ==
  LET lines == computeEdgeLines(cluster)
  IN \A s, d \in Addressable : Governed(lines, s, d) =>
       \A n \in Flows : Declared(lines, s, d, n) => \E np \in cluster.policies : Written(np, s, d, n)

-----------------------------------------------------------------------------
\* External: a request from outside comes in at a Service that has a port on
\* the nodes or a load balancer, or through an Ingress to one of the Services
\* in its namespace, and goes on to the Pods that the Service selects.
Outward(s) ==
  \/ s.type \notin {"ClusterIP", "ExternalName"}
  \/ \E ing \in cluster.ingresses :
       ing.ns = s.ns /\ (s.name = ing.defaultBackend \/ s.name \in ing.backends)

Reachable(p) ==
  \E s \in cluster.services :
    Outward(s) /\ s.ns = p.ns /\ s.selector # {} /\ Matches(s.selector, p.labels)

Flagged(p) == Ref(p) \in internetExposedRefs(cluster)
Exposed(p) == \E q \in cluster.pods : Ref(q) = Ref(p) /\ Reachable(q)

\* The selector has an empty value, and p all that it asks for besides.
BlankSelected(p) ==
  \E s \in cluster.services :
    /\ Outward(s) /\ s.ns = p.ns
    /\ \E l \in s.selector : l[2] = ""
    /\ \A l \in s.selector : l[2] # "" => l \in p.labels

(***************************************************************************)
(* An identity row says internet_exposed for every workload that has a Pod *)
(* within reach of the internet, and for none else, whatever other Pods,   *)
(* Services and Ingresses of the same names there are in other namespaces  *)
(* (internetExposedRefs, stamped by buildAndUpload) - but for those that   *)
(* only a selector with an empty value can have matched.                   *)
(***************************************************************************)
ExposedIsReachable ==
  \A p \in cluster.pods :
    /\ Exposed(p) => Flagged(p)
    /\ Flagged(p) => Exposed(p) \/ \E q \in cluster.pods : Ref(q) = Ref(p) /\ BlankSelected(q)

(***************************************************************************)
(* "every key/value in a non-empty selector is present in labels"          *)
(* (selectorMatches): the flagged workloads are the exposed ones, whatever *)
(* their labels.                                                           *)
(***************************************************************************)
ExposureIsExact == \A p \in cluster.pods : Flagged(p) <=> Exposed(p)
=============================================================================
