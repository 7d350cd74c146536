------------------------------ MODULE MCRender ------------------------------
(***************************************************************************)
(* Render for TLC, on four families of clusters: objects that claim the    *)
(* same hosts and paths, certificates that claim the same hosts and stems, *)
(* a Service with its EndpointSlices, and annotations in both schemas.     *)
(***************************************************************************)
EXTENDS Render

a  == <<"a">>
b  == <<"b">>
c  == <<"c">>
ab == <<"a", "b">>
bc == <<"b", "c">>
wildcard == <<"*", "a">>

NoAnn     == Nothing
Slash     == <<"/x", 1>>
Plain     == <<"/x", 0>>
Solver    == <<"acme", 0>>
With(k, v) == [x \in {k} |-> v]

Ref(service, name, number) == [service |-> service, portName |-> name, portNumber |-> number]
Path(path, ref)    == [path |-> path, backend |-> ref]
Rule(host, paths)  == [host |-> host, http |-> TRUE, paths |-> paths]
Tls(secret, hosts) == [secret |-> secret, hosts |-> hosts]

Ingress(id, ann, tls, rules) ==
  [id |-> id, ns |-> a, class |-> "ours", legacy |-> None, ann |-> ann, tls |-> tls, rules |-> rules]

Service(ip) == [external |-> FALSE, clusterIP |-> ip,
                ports |-> <<[name |-> "http", port |-> 80], [name |-> "", port |-> 81]>>]

GwRef(service, weight) == [kind |-> "Service", ns |-> None, service |-> service, port |-> 80, weight |-> weight]
Match(type, value)     == [type |-> type, value |-> value]

Cluster ==
  [flags |-> [clusterIPs |-> FALSE, endpoints |-> FALSE, gatewayAPI |-> TRUE],
   ingresses |-> {}, ingressClasses |-> {[ours |-> TRUE, default |-> TRUE]},
   services |-> [x \in {<<a, "s1">>} |-> Service("ip")], slices |-> {},
   gatewayClasses |-> {[name |-> "gc", ours |-> TRUE], [name |-> "other", ours |-> FALSE]},
   gateways |-> {}, httpRoutes |-> {}]

Gateway(id, class, listeners) == [id |-> id, ns |-> a, name |-> id, class |-> class, listeners |-> listeners]

HTTPRoute(id, gw, hostnames, rules) ==
  [id |-> id, ns |-> a, ann |-> NoAnn, hostnames |-> hostnames, rules |-> rules,
   parentRefs |-> <<[kind |-> "Service", ns |-> None, name |-> 1], [kind |-> "Gateway", ns |-> None, name |-> gw]>>]

-----------------------------------------------------------------------------
\* Claims on one host, as an Ingress makes them; the port tells them apart.
Shapes(id) ==
  LET ref == Ref("s1", "", id)
      ing(ann, rules) == Ingress(id, ann, <<>>, rules)
  IN {ing(NoAnn, <<Rule(a, <<Path(Plain, ref)>>)>>),
      ing(NoAnn, <<Rule(a, <<Path(Slash, ref), Path(Plain, Ref("s1", "", 9)), Path(<<"", 0>>, ref)>>)>>),
      ing(With(Nginx("use-regex"), TRUE), <<Rule(a, <<Path(Plain, ref)>>)>>),
      ing(With(Synapse("ssl-passthrough"), TRUE),
          <<Rule(a, <<Path(Plain, Ref("s1", "nosuch", 0)), Path(Plain, ref)>>)>>),
      ing(With(Synapse("server-alias"), <<a, b>>), <<Rule(b, <<Path(Plain, ref)>>), Rule(c, <<Path(Plain, ref)>>)>>),
      ing(NoAnn, <<Rule(a, <<Path(Solver, ref)>>)>>),
      [ing(With(Synapse("sticky-sessions"), TRUE), <<Rule(b, <<Path(Plain, ref)>>)>>) EXCEPT !.class = None],
      [ing(NoAnn, <<Rule(a, <<Path(Plain, ref)>>)>>) EXCEPT !.class = None, !.legacy = "other"]}

RouteShapes(id) ==
  LET filters == <<[type |-> "request", set |-> <<"h1">>, add |-> <<"h2">>], [type |-> "response", set |-> <<>>, add |-> <<"h3">>]>>
      rule(matches, refs) == [matches |-> matches, backendRefs |-> refs, filters |-> filters]
  IN {HTTPRoute(id, 1, <<a, b>>, <<rule(<<>>, <<GwRef("s1", None)>>),
                                   rule(<<Match("path", Slash), Match("regex", <<TRUE, Plain>>)>>,
                                        <<GwRef("s1", 0), GwRef("s2", None), GwRef("s3", 3)>>)>>),
      HTTPRoute(id, 1, <<a>>, <<rule(<<Match("path", Solver), Match("exact", None)>>,
                                     <<[GwRef("s1", None) EXCEPT !.kind = "Bucket"], GwRef("s2", None)>>)>>),
      HTTPRoute(id, 2, <<a>>, <<rule(<<>>, <<GwRef("s2", None)>>)>>)}

Conflicts ==
  {[Cluster EXCEPT !.ingresses = {i1, i2}, !.httpRoutes = {r1},
                   !.gateways = {Gateway(1, "gc", <<>>), Gateway(2, "other", <<>>)}] :
     i1 \in Shapes(1), i2 \in Shapes(2), r1 \in RouteShapes(3)}
  \cup {[Cluster EXCEPT !.ingresses = {i1}, !.httpRoutes = {r1, r2}, !.gateways = {Gateway(1, "gc", <<>>)}] :
     i1 \in Shapes(1), r1 \in RouteShapes(2), r2 \in RouteShapes(3)}
  \cup {[Cluster EXCEPT !.flags.gatewayAPI = FALSE, !.ingresses = {i1, i2, i3}] :
     i1 \in Shapes(1), i2 \in Shapes(2), i3 \in Shapes(3)}

-----------------------------------------------------------------------------
\* Ingresses of two namespaces and two Gateways that list certificates.
TlsIngresses(id) ==
  {[Ingress(id, NoAnn, <<Tls(secret, hosts)>>,
            <<Rule(ab, <<Path(Plain, Ref("s1", "", id))>>), Rule(wildcard, <<Path(Plain, Ref("s1", "", id))>>)>>)
      EXCEPT !.ns = ns] :
     ns \in {a, ab}, secret \in {b, bc, <<>>}, hosts \in {<<>>, <<ab>>, <<wildcard>>, <<wildcard, ab>>}}

Listener(tls, hostname, ns, secret) ==
  [tls |-> tls, hostname |-> hostname,
   refs |-> <<[kind |-> "Secret", ns |-> ns, name |-> secret], [kind |-> "ConfigMap", ns |-> None, name |-> c]>>]

MCGateways(id) == {Gateway(id, "gc", <<Listener("terminate", h, ns, s), Listener("passthrough", c, None, s)>>) :
                   h \in {ab, <<>>}, ns \in {None, c}, s \in {b, c}}

Certificates ==
  {[Cluster EXCEPT !.ingresses = {i1, i2}] : i1 \in TlsIngresses(1), i2 \in TlsIngresses(2)}
  \cup {[Cluster EXCEPT !.ingresses = {i1}, !.gateways = {g1}] : i1 \in TlsIngresses(1), g1 \in MCGateways(1)}

TwoGateways ==
  {[Cluster EXCEPT !.ingresses = {i1}, !.gateways = {g1, g2}] :
     i1 \in {Ingress(1, NoAnn, <<>>, <<Rule(ab, <<Path(Plain, Ref("s1", "", 80))>>)>>)},
     g1 \in MCGateways(1), g2 \in MCGateways(2)}

-----------------------------------------------------------------------------
\* A Service, its slices, and a backend given by name or by number.
Slice(id, type, ports, eps) == [id |-> id, service |-> <<a, "s1">>, type |-> type, ports |-> ports, endpoints |-> eps]

Pod(pod, addr, ready, terminating) ==
  [pod |-> pod, addresses |-> <<addr>>, ready |-> ready, terminating |-> terminating]

Port(name, port) == [name |-> name, port |-> port]

AllSlices ==
  {Slice(1, "v4", <<Port("", 9), Port("http", 8080)>>, <<Pod("p2", 2, TRUE, None), Pod("p1", 1, None, FALSE)>>),
   Slice(2, "v4", <<Port("http", None)>>, <<Pod("p3", 3, TRUE, None), Pod("p1", 1, TRUE, None)>>),
   Slice(3, "v6", <<Port("http", 8080)>>, <<Pod("p1", 11, TRUE, None), Pod("p2", 12, FALSE, None)>>),
   Slice(4, "v6", <<>>, <<Pod("p4", 14, TRUE, TRUE), Pod("p4", 15, TRUE, None)>>),
   Slice(5, "fqdn", <<>>, <<Pod("p5", 5, TRUE, None)>>)}

Endpoints ==
  {[Cluster EXCEPT !.slices = ss,
                   !.flags = [clusterIPs |-> ips, endpoints |-> eps, gatewayAPI |-> FALSE],
                   !.services = [x \in {<<a, "s1">>} |-> [Service(ip) EXCEPT !.external = ext]],
                   !.ingresses = {Ingress(1, NoAnn, <<>>, <<Rule(a, <<Path(Plain, ref), Path(Solver, ref)>>)>>)}] :
     ss \in {s \in SUBSET AllSlices : Cardinality(s) <= 3}, ips \in BOOLEAN, eps \in BOOLEAN,
     ip \in {"ip", "None"}, ext \in BOOLEAN,
     ref \in {Ref("s1", "http", 0), Ref("s1", "", 80), Ref("s1", "", 82), Ref("s2", "", 80), Ref(None, "", 80)}}

-----------------------------------------------------------------------------
\* One Ingress with annotations, beside a passthrough host or not.
Annotations ==
  LET either(key, vs) == {With(Synapse(key), v) : v \in vs} \cup {With(Nginx(key), v) : v \in vs}
                         \cup {NoAnn} \cup {Put(With(Nginx(key), v), Synapse(key), w) : v \in vs, w \in vs}
      merge(f, g) == [x \in DOMAIN f \cup DOMAIN g |-> IF x \in DOMAIN f THEN f[x] ELSE g[x]]
      bools == {TRUE, FALSE, Junk}
      base  == {[x \in {Synapse("http2"), Synapse("healthcheck"), Synapse("disable-access-log")} |-> v] : v \in bools}
               \cup {[x \in {Synapse(t) : t \in Timeouts} |-> v] : v \in {5, 401, Junk}}
               \cup {Put(With(Synapse("request-headers"), <<"q">>), Synapse("response-headers"), <<"r">>)}
               \cup {Put(Put(With(Nginx("temporal-redirect"), "t"), Synapse("permanent-redirect"), p),
                         Synapse("permanent-redirect-code"), code) : p \in {"p", ""}, code \in {308, Junk}}
  IN {merge(f, g) : f \in base, g \in either("backend-protocol", {"HTTPS", "HTTP", ""})
                                      \cup either("proxy-body-size", {<<2, 4>>, <<101, 4>>, <<401, 1>>, Junk})
                                      \cup either("ssl-redirect", bools)
                                      \cup {With(Synapse("force-https"), v) : v \in bools}}

Schemas ==
  {[Cluster EXCEPT !.flags.gatewayAPI = FALSE,
                   !.ingresses = {Ingress(1, ann, <<Tls(b, <<>>)>>, <<Rule(a, <<Path(Plain, Ref("s1", "", 80))>>)>>)} \cup others] :
     ann \in Annotations,
     others \in {{}, {Ingress(2, With(Nginx("ssl-passthrough"), TRUE), <<>>, <<Rule(b, <<Path(Plain, Ref("s1", "http", 0))>>)>>)}}}

MCClusters == Conflicts \cup Certificates \cup TwoGateways \cup Endpoints \cup Schemas
=============================================================================
