--------------------------- MODULE MCClusterFacts ---------------------------
(***************************************************************************)
(* ClusterFacts for TLC.  Two policies out of a set that has every kind of *)
(* selector, peer, port and policy type, on Pods of two namespaces whose   *)
(* named ports differ; and Services and Ingresses of equal names.          *)
(***************************************************************************)
EXTENDS ClusterFacts

MCHashLike == {"7d9f8", "5f4b9"}
MCOrdinals == {"0", "1"}

Pod(ns, name, owner, app, labels, ports, host) ==
  [ns |-> ns, name |-> name, owner |-> owner, app |-> app, labels |-> labels, ports |-> ports, hostNetwork |-> host]

Owner(kind, name) == [kind |-> kind, name |-> name]
\* A label of each key.
App(v)  == <<"app", v>>
Team(v) == <<"team", v>>
v2      == <<"rev", "2">>
NoTier  == <<"tier", "">>

Port(name, number) == [name |-> name, number |-> number]

api1 == Pod("a", <<"api", "7d9f8", "x">>, Owner("ReplicaSet", <<"api", "7d9f8">>), "api", {App("api")}, {Port("http", 80)}, FALSE)
\* The next revision: http has moved, and so has a label.
api2 == Pod("a", <<"api", "5f4b9", "y">>, Owner("ReplicaSet", <<"api", "5f4b9">>), "api", {App("api"), v2}, {Port("http", 81)}, FALSE)
db   == Pod("a", <<"db", "0">>, Owner("StatefulSet", <<"db">>), None, {App("db")}, {}, FALSE)
bare == Pod("b", <<"job">>, None, None, {App("api")}, {Port("http", 81)}, FALSE)
app  == Pod("b", <<"tool", "x">>, None, "db", {App("db")}, {Port("http", 80)}, FALSE)
host == Pod("a", <<"agent", "z">>, Owner("DaemonSet", <<"agent">>), None, {App("db"), v2}, {}, TRUE)

MCPodSets == {{api1, db, bare}, {api1, api2, db, app}, {api1, db, bare, app, host}}

MCNamespaces == {[ns \in {"a", "b"} |-> {Team(ns)}], [ns \in {"a", "b"} |-> {Team("a")}]}

Peer(ns, pod) == [ipBlock |-> FALSE, namespaceSelector |-> ns, podSelector |-> pod]
Block == [ipBlock |-> TRUE, namespaceSelector |-> None, podSelector |-> None]
AnyOf == [type |-> "nil", number |-> 0, name |-> ""]
Num(n) == [type |-> "Int", number |-> n, name |-> ""]
Named(s) == [type |-> "String", number |-> 0, name |-> s]

Rule(peers, ports) == [peers |-> peers, ports |-> ports]

Rules == {Rule({}, {Named("http")}), Rule({Peer(None, {App("db")})}, {Named("http")}), Rule({Peer({Team("b")}, None)}, {Num(80)}),
          Rule({Peer({Team("a")}, {App("api")}), Block}, {}), Rule({Block}, {Num(80)}), Rule({Peer(None, {App("api")})}, {Named("grpc"), Num(81)}),
          Rule({Peer({}, {App("db")})}, {AnyOf})}

Policy(ns, sel, types, ingress, egress) ==
  [ns |-> ns, podSelector |-> sel, types |-> types, ingress |-> ingress, egress |-> egress]

MCPolicies ==
  {Policy("a", sel, {}, {rule}, {}) : sel \in {{}, {App("api")}, {v2}}, rule \in Rules} \cup
  {Policy("a", {App("db")}, types, {}, {rule}) : types \in {{"Egress"}, {"Ingress"}, {}}, rule \in Rules} \cup
  {Policy("b", {}, {"Ingress", "Egress"}, {rule}, {rule}) : rule \in Rules}

Service(ns, name, type, sel) == [ns |-> ns, name |-> name, type |-> type, selector |-> sel]
Ingress(ns, default, backends) == [ns |-> ns, defaultBackend |-> default, backends |-> backends]

\* One selects what has no tier, if it has the label at all.
MCServiceSets ==
  {{Service("a", "s", "NodePort", {}), Service("b", "s", "ClusterIP", {App("db")})},
   {Service("a", "s", "ClusterIP", {v2}), Service("b", "s", "LoadBalancer", {App("api")}),
    Service("a", "t", "LoadBalancer", {App("db"), NoTier})}}
MCIngressSets == SUBSET {Ingress("a", None, {"s"}), Ingress("b", "s", {})}
=============================================================================
