---------------------------- MODULE MCApiWriters ----------------------------
(***************************************************************************)
(* Instances of ApiWriters for TLC: one Service, with an address and with  *)
(* none; one node or two; two renders, and a v2 one with an SNI            *)
(* passthrough; agent configs that are pinned, open or broken.             *)
(***************************************************************************)
EXTENDS ApiWriters

CONSTANTS web, net, ip1, ip2, n1, n2, pod, junk, pin

Addr(ip, family) == [ip |-> ip, family |-> family]
MCNode(ip)       == [addresses |-> {[ip |-> ip, family |-> 4, type |-> "InternalIP"],
                                    [ip |-> junk, family |-> 0, type |-> "ExternalIP"],
                                    [ip |-> ip, family |-> 6, type |-> "Hostname"]},
                     podCIDRs  |-> {pod, junk}]
MCNodeSets       == {{MCNode(n1)}, {MCNode(n1), MCNode(n2)}}

MCService(ips, vips) ==
  [clusterIP |-> ips, ingress |-> vips, externalIPs |-> {Addr(junk, 0)},
   loadBalancerIP |-> {}]

WebService == MCService({ip1}, {Addr(ip2, 4)})
MCServices == {WebService, MCService({}, {Addr(ip2, 6)})}

Server(form, name) == [form |-> form, name |-> name]
File(schema, forms) == [schema |-> schema, servers |-> {Server(f, web) : f \in forms}]
FirstWorld == [ups |-> File(1, {"fqdn", "map"}), certs |-> 1]
MCWorlds   == {FirstWorld, [ups |-> File(2, {"fqdn"}), certs |-> 2]}
MCInitial  == [world |-> FirstWorld, svc |-> [n \in ServiceNames |-> WebService],
               nodes |-> {MCNode(n1)}]

MCUserUps == {NoKey, Bad, File(1, {"label", "other"})}

Config(home)  == [home |-> home, external |-> "user"]
MCUserConfigs == {Bad, Config(pin)}

Source(config, label) ==
  [Blank EXCEPT !.config = config, !.netLabel = TRUE, !.upsLabel = label]
MCConfigMaps == {Source(Config(None), "true")}
=============================================================================
