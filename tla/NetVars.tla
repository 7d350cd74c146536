------------------------------- MODULE NetVars -------------------------------
(***************************************************************************)
(* What controllers/netvars_resolver.go computes: the HOME_NET of an agent *)
(* config ConfigMap.  A HOME_NET is None (absent or empty), Any, the       *)
(* discovered list as a set of CIDRs, or a value pinned by a user, which   *)
(* is a value of its own.  config.yaml is NoKey, Bad (it does not parse)   *)
(* or the two address variables: nothing else of it is read or changed.    *)
(* Case folding of "any", white space and the layout of the YAML are left  *)
(* out.                                                                    *)
(***************************************************************************)
EXTENDS FiniteSets

CONSTANTS None, Any, NoKey, Bad,
          CIDRs,        \* what net.ParseCIDR accepts
          Supernets     \* internalSupernets

ASSUME SupernetAssumption == Supernets \subseteq CIDRs /\ Supernets # {}

\* A single-host CIDR, and nothing for what is not an IP (family 0).
hostCIDR(a) == IF a.family = 0 THEN {} ELSE {<<a.ip, IF a.family = 4 THEN 32 ELSE 128>>}

NodeCIDRs(n) ==
  UNION {hostCIDR(a) : a \in {x \in n.addresses : x.type \in {"InternalIP", "ExternalIP"}}}
    \cup (n.podCIDRs \cap CIDRs)

\* Every Service's load balancer addresses, whatever its type.
addLoadBalancerIPs(svcs) ==
  UNION {hostCIDR(a) : a \in UNION {s.ingress \cup s.externalIPs \cup s.loadBalancerIP : s \in svcs}}

autoHomeNet(nodes, svcs) ==
  Supernets \cup (UNION {NodeCIDRs(n) : n \in nodes}) \cup addLoadBalancerIPs(svcs)

currentHomeNet(config) == IF config \in {NoKey, Bad} THEN None ELSE config.home

\* A concrete value that the marker does not say the operator derived.
UserPinned(cm) == currentHomeNet(cm.config) \notin {None, Any} /\ cm.marker # "auto"

\* Faulty: the marker is read the wrong way round.
desiredHomeNetInverted(cm, nodes, svcs) ==
  IF cm.override # None THEN [home |-> cm.override, manual |-> TRUE]
  ELSE IF currentHomeNet(cm.config) \notin {None, Any} /\ cm.marker = "auto"
  THEN [home |-> currentHomeNet(cm.config), manual |-> TRUE]
  ELSE [home |-> autoHomeNet(nodes, svcs), manual |-> FALSE]

\* Faulty: a concrete value is a pin, whoever has written it.
desiredHomeNetSticky(cm, nodes, svcs) ==
  IF cm.override # None THEN [home |-> cm.override, manual |-> TRUE]
  ELSE IF currentHomeNet(cm.config) \notin {None, Any}
  THEN [home |-> currentHomeNet(cm.config), manual |-> TRUE]
  ELSE [home |-> autoHomeNet(nodes, svcs), manual |-> FALSE]

desiredHomeNet(cm, nodes, svcs) ==
  IF cm.override # None THEN [home |-> cm.override, manual |-> TRUE]
  ELSE IF UserPinned(cm) THEN [home |-> currentHomeNet(cm.config), manual |-> TRUE]
  ELSE [home |-> autoHomeNet(nodes, svcs), manual |-> FALSE]

\* Faulty: EXTERNAL_NET is lost when the variables are rewritten.
setIdsAddressVarsHomeOnly(home) == [home |-> home]

\* EXTERNAL_NET is set with HOME_NET, over whatever it was.
setIdsAddressVars(home) == [home |-> home, external |-> "!$HOME_NET"]

isNetVarsSource(cm) == cm.netLabel

\* The object Reconcile wants, from the one it has got.
withNetVars(cm, nodes, svcs) ==
  LET d == desiredHomeNet(cm, nodes, svcs)
  IN [cm EXCEPT !.config = setIdsAddressVars(d.home),
                !.marker = IF d.manual THEN "manual" ELSE "auto"]
=============================================================================
