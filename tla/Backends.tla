------------------------------ MODULE Backends ------------------------------
(***************************************************************************)
(* From a backend reference to the servers of a route: endpoints.go, and   *)
(* backendAddr of controllers/ingress_controller.go for Ingresses,         *)
(* ruleBackends of controllers/gateway.go for HTTPRoutes.                  *)
(*                                                                         *)
(* A cluster k has services, a partial function from <<namespace, name>>,  *)
(* and EndpointSlices.  The operators take slices as the sequence they are *)
(* listed in.  Addresses of pods are numbers, in the order sort.Strings    *)
(* gives them; a server is an address with its kind and a port.            *)
(***************************************************************************)
EXTENDS RouteTable, FiniteSets, FiniteSetsExt, SequencesExt

Collect(op(_), s) == FlattenSeq([i \in DOMAIN s |-> op(s[i])])

\* The first element of s that is wanted, or None.
FirstWhere(s, wanted(_)) ==
  LET hits == {i \in DOMAIN s : wanted(s[i])}
  IN IF hits = {} THEN None ELSE s[Min(hits)]

\* s without the elements that are in bad.
Drop(s, bad) == Collect(LAMBDA x : IF x \in bad THEN <<>> ELSE <<x>>, s)

Server(kind, host, port) == [kind |-> kind, host |-> host, port |-> port]

\* A backend: one entry of a server list; weight 0 is unweighted.
Unweighted(server) == [addr |-> server, weight |-> 0]

-----------------------------------------------------------------------------
(***************************************************************************)
(* Pods behind a Service.                                                  *)
(***************************************************************************)
\* The first port of the Service the reference means, by name or by number.
servicePort(svc, ref) ==
  FirstWhere(svc.ports, LAMBDA sp : \/ ref.portName # "" /\ sp.name = ref.portName
                                    \/ /\ ref.portName = "" /\ ref.portNumber # 0
                                       /\ sp.port = ref.portNumber)

endpointUsable(ep) == ep.ready # FALSE /\ ep.terminating # TRUE

\* The port pods of this slice serve the named port on: 0 when the slice has
\* ports and none of that name, the Service's port when nothing is said.
slicePort(slice, sp) ==
  LET entry == FirstWhere(slice.ports, LAMBDA p : p.name = sp.name)
  IN CASE slice.ports = <<>> -> sp.port
       [] slice.ports # <<>> /\ entry = None -> 0
       [] OTHER -> IF entry.port = None THEN sp.port ELSE entry.port

endpointServers(ep, type, port) ==
  IF endpointUsable(ep) THEN [i \in DOMAIN ep.addresses |-> Server(type, ep.addresses[i], port)] ELSE <<>>

sliceServers(slice, sp) ==
  LET port == slicePort(slice, sp)
  IN IF port = 0 THEN <<>>
     ELSE Collect(LAMBDA ep : endpointServers(ep, slice.type, port), slice.endpoints)

\* What the slices of one family list for a Service.
familyServers(slices, service, type, sp) ==
  Collect(LAMBDA s : IF s.service = service /\ s.type = type THEN sliceServers(s, sp) ELSE <<>>, slices)

AddressLess(x, y) == x.host < y.host \/ (x.host = y.host /\ x.port < y.port)

\* The servers that come no later than the i-th of s once s is sorted.
NoLater(s, i) ==
  {j \in DOMAIN s : AddressLess(s[j], s[i]) \/ (~AddressLess(s[i], s[j]) /\ j <= i)}

\* s, sorted.
ByAddress(s) == [n \in DOMAIN s |-> s[CHOOSE i \in DOMAIN s : Cardinality(NoLater(s, i)) = n]]

\* Faulty: both families are rendered.
sliceEndpointAddrsBoth(slices, service, sp) ==
  ByAddress(familyServers(slices, service, "v4", sp) \o familyServers(slices, service, "v6", sp))

\* The pods of one family, sorted: IPv4 if there are any.
sliceEndpointAddrs(slices, service, sp) ==
  LET v4 == familyServers(slices, service, "v4", sp)
      v6 == familyServers(slices, service, "v6", sp)
  IN ByAddress(IF v4 # <<>> THEN v4 ELSE v6)

\* Nothing (<<>>) tells the caller to fall back.
endpointAddrs(k, slices, ns, ref) ==
  IF <<ns, ref.service>> \notin DOMAIN k.services THEN <<>>
  ELSE LET svc == k.services[<<ns, ref.service>>]
           sp  == servicePort(svc, ref)
       IN IF svc.external \/ sp = None THEN <<>>
          ELSE sliceEndpointAddrs(slices, <<ns, ref.service>>, sp)

-----------------------------------------------------------------------------
(***************************************************************************)
(* The Service itself.                                                     *)
(***************************************************************************)
FQDN(ns, service) == <<"fqdn", ns, service>>

\* The Service's ClusterIP (asked for and allocated) or DNS name, with the
\* port of the reference; None when the reference cannot be resolved.
backendAddr(k, ns, ref) ==
  LET known == <<ns, ref.service>> \in DOMAIN k.services
      svc   == k.services[<<ns, ref.service>>]
      named == FirstWhere(svc.ports, LAMBDA sp : sp.name = ref.portName)
      host  == IF k.flags.clusterIPs /\ known /\ svc.clusterIP \notin {"", "None"}
               THEN <<"clusterIP", svc.clusterIP>> ELSE FQDN(ns, ref.service)
  IN CASE ref.service = None -> None
       [] ref.service # None /\ ref.portNumber # 0 -> Server("service", host, ref.portNumber)
       [] OTHER -> IF ref.portName = "" \/ ~known \/ named = None THEN None
                   ELSE Server("service", host, named.port)

\* Endpoints, else the Service's address; None when not even that resolves.
backendServers(k, slices, ns, ref) ==
  LET pods == IF k.flags.endpoints /\ ref.service # None
              THEN endpointAddrs(k, slices, ns, ref) ELSE <<>>
      addr == backendAddr(k, ns, ref)
  IN IF pods # <<>> THEN [i \in DOMAIN pods |-> Unweighted(pods[i])]
     ELSE IF addr = None THEN None ELSE <<Unweighted(addr)>>

-----------------------------------------------------------------------------
(***************************************************************************)
(* HTTPRoute rules.                                                        *)
(***************************************************************************)
gwBackend(ns, ref) ==
  IF ref.kind # "Service" \/ ref.port = None THEN None
  ELSE Server("service", FQDN(IF ref.ns = None THEN ns ELSE ref.ns, ref.service), ref.port)

\* One weight makes the pool weighted: 1 where none is given, out with 0.
ruleBackends(ns, rule) ==
  LET refs     == rule.backendRefs
      weighted == \E i \in DOMAIN refs : refs[i].weight # None
      weight(r) == CASE ~weighted -> 0 [] weighted /\ r.weight = None -> 1 [] OTHER -> r.weight
      serves(r) == gwBackend(ns, r) # None /\ (weighted => weight(r) > 0)
  IN Collect(LAMBDA r : IF serves(r) THEN <<[addr |-> gwBackend(ns, r), weight |-> weight(r)]>> ELSE <<>>, refs)

\* The prefixes and the regular expressions a rule matches.
rulePaths(rule) ==
  LET valueOr(mt, default) == IF mt.value = None THEN default ELSE mt.value
  IN IF rule.matches = <<>> THEN [paths |-> <<Root>>, regexes |-> <<>>]
     ELSE [paths   |-> Collect(LAMBDA mt : IF mt.type = "regex" THEN <<>> ELSE <<valueOr(mt, Root)>>,
                               rule.matches),
           regexes |-> Collect(LAMBDA mt : IF mt.type # "regex" THEN <<>> ELSE <<valueOr(mt, <<FALSE, Root>>)>>,
                               rule.matches)]
=============================================================================
