-------------------------- MODULE ServerResolution --------------------------
(***************************************************************************)
(* What controllers/upstreams_resolver.go computes: the upstreams.yaml of  *)
(* a source ConfigMap with the names of Services replaced by their         *)
(* ClusterIPs.  The file is Bad, or a schema and the entries of its        *)
(* `servers` lists.  An entry has a form - what splitHostPort, isIPLiteral *)
(* and parseClusterFQDN tell apart - and a name:                           *)
(*   "fqdn"    <svc>.<ns>.svc.<ClusterDomain>:<port>                       *)
(*   "label"   a single label, a Service of the source's own namespace     *)
(*   "ip"      an IP literal, with a port                                  *)
(*   "other"   another domain, or no port                                  *)
(*   "map"     an entry that is not a string (a weighted server)           *)
(***************************************************************************)
EXTENDS FiniteSets

CONSTANTS Absent

\* `svcs` is a function from names to Services, or Absent; clusterIP is a set
\* with the address, empty for "" and "None".
Allocated(svcs, name) == svcs[name] # Absent /\ svcs[name].clusterIP # {}

rewriteServer(s, svcs) ==
  IF s.form \in {"fqdn", "label"} /\ Allocated(svcs, s.name)
  THEN [form |-> "ip", name |-> CHOOSE ip \in svcs[s.name].clusterIP : TRUE]
  ELSE s

\* Schema 2 has no `upstreams` block: it is passed through.
resolveYAML(f, svcs) ==
  IF f.schema = 2 THEN f ELSE [f EXCEPT !.servers = {rewriteServer(s, svcs) : s \in @}]

isResolverSource(cm) == cm.upsLabel \in {"true", "1"}

\* The sources that a Service event is mapped to.
listedForServices(cm) == cm.upsLabel = "true"

resolvedOutputName(cm) == cm.outName
=============================================================================
