----------------------------- MODULE PolicyEdges ----------------------------
(***************************************************************************)
(* The allow-list that edge_producer.go compiles from NetworkPolicies: the *)
(* edges E (from, to, port), the workloads G governed as destinations and  *)
(* the workloads S governed as sources.  The lines are a set: the code     *)
(* sorts them and removes duplicates.                                      *)
(***************************************************************************)
EXTENDS Workloads

\* "*/*" and "*"; no workload and no port is called that.
AnyRef  == <<>>
AnyPort == 0

\* Host-network Pods share the node's address and have no identity.
podsMatching(pods, ns, sel) ==
  {p \in pods : p.ns = ns /\ ~p.hostNetwork /\ Matches(sel, p.labels)}

workloadSet(pods) == {workloadIdentity(p) : p \in pods}

policyHasIngress(np) == np.types = {} \/ "Ingress" \in np.types

policyHasEgress(np) == "Egress" \in np.types \/ np.egress # {}

-----------------------------------------------------------------------------
(***************************************************************************)
(* Peers.  nsLabels gives the labels of the namespaces there are.          *)
(***************************************************************************)
PeerPodsIn(namespaces, peer, pods) ==
  UNION {podsMatching(pods, ns, IF peer.podSelector = None THEN {} ELSE peer.podSelector) :
         ns \in namespaces}

\* Faulty: without a namespaceSelector every namespace is meant.
peerPodsAnywhere(peer, policyNs, pods, nsLabels) ==
  IF peer.ipBlock THEN {}
  ELSE PeerPodsIn({ns \in DOMAIN nsLabels :
                     peer.namespaceSelector = None \/ Matches(peer.namespaceSelector, nsLabels[ns])},
                  peer, pods)

peerPods(peer, policyNs, pods, nsLabels) ==
  CASE peer.ipBlock -> {}
    [] ~peer.ipBlock /\ peer.namespaceSelector = None -> PeerPodsIn({policyNs}, peer, pods)
    [] ~peer.ipBlock /\ peer.namespaceSelector # None ->
         PeerPodsIn({ns \in DOMAIN nsLabels : Matches(peer.namespaceSelector, nsLabels[ns])}, peer, pods)

peerWorkloadRefs(peer, policyNs, pods, nsLabels) ==
  {Ref(p) : p \in peerPods(peer, policyNs, pods, nsLabels)}

-----------------------------------------------------------------------------
(***************************************************************************)
(* Ports.  The end of a port range is not read.                            *)
(***************************************************************************)
resolveNamedPort(pods, name) ==
  {cp.number : cp \in {cp \in UNION {p.ports : p \in pods} : cp.name = name}}

portStrings(ports, dstPods) ==
  IF ports = {} THEN {AnyPort}
  ELSE UNION {CASE port.type = "nil"    -> {AnyPort}
                [] port.type = "Int"    -> {port.number}
                [] port.type = "String" ->
                     LET nums == resolveNamedPort(dstPods, port.name)
                     IN IF nums = {} THEN {AnyPort} ELSE nums : port \in ports}

-----------------------------------------------------------------------------
(***************************************************************************)
(* walkPolicyEdges, one policy and one direction at a time.                *)
(***************************************************************************)
Edges(srcs, dsts, ports) == {[src |-> s, dst |-> d, port |-> n] : s \in srcs, d \in dsts, n \in ports}

SelectedRefs(np, c) == {<<np.ns, wl>> : wl \in workloadSet(podsMatching(c.pods, np.ns, np.podSelector))}

RuleRefs(rule, np, c) ==
  IF rule.peers = {} THEN {AnyRef}
  ELSE UNION {peerWorkloadRefs(peer, np.ns, c.pods, c.namespaces) : peer \in rule.peers}

\* Named ports are those of the destinations: the selected Pods ...
IngressEdges(np, c) ==
  UNION {Edges(RuleRefs(rule, np, c), SelectedRefs(np, c),
               portStrings(rule.ports, podsMatching(c.pods, np.ns, np.podSelector))) :
         rule \in np.ingress}

\* Faulty: ... in both directions.
EgressEdgesOfSource(np, c) ==
  UNION {Edges(SelectedRefs(np, c), RuleRefs(rule, np, c),
               portStrings(rule.ports, podsMatching(c.pods, np.ns, np.podSelector))) :
         rule \in np.egress}

\* ... and the peers.
EgressEdges(np, c) ==
  UNION {Edges(SelectedRefs(np, c), RuleRefs(rule, np, c),
               portStrings(rule.ports, UNION {peerPods(peer, np.ns, c.pods, c.namespaces) : peer \in rule.peers})) :
         rule \in np.egress}

computeEdgeLines(c) ==
  LET ingress == {np \in c.policies : policyHasIngress(np)}
      egress  == {np \in c.policies : policyHasEgress(np)}
  IN [E |-> UNION ({IngressEdges(np, c) : np \in ingress} \cup {EgressEdges(np, c) : np \in egress}),
      G |-> UNION {SelectedRefs(np, c) : np \in ingress},
      S |-> UNION {SelectedRefs(np, c) : np \in egress}]
=============================================================================
