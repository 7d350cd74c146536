------------------------------- MODULE Render -------------------------------
(***************************************************************************)
(* render of IngressReconciler (controllers/ingress_controller.go) with    *)
(* renderGateways (controllers/gateway.go): it lists the cluster's objects,*)
(* fills a new render model with what they claim and emits the upstreams   *)
(* file and the certificates to project.  The caches list in any order:    *)
(* Ingresses and HTTPRoutes are then sorted by namespace and name, which   *)
(* an object's id stands for; Gateways and EndpointSlices are not.         *)
(*                                                                         *)
(* Status conditions and events are left out (StatusLeader has the shared  *)
(* status), and so is the writing of the outputs (CertProjection for the   *)
(* sidecar, ApiWriters for the central mode).                              *)
(***************************************************************************)
EXTENDS UpstreamsFile

CONSTANT Clusters     \* what the API server may hold

VARIABLES cluster,    \* the cluster the caches show
          claims,     \* the claims of this render, in order
          next,       \* the claim to apply next; 0 between renders
          m,          \* the render model
          file,       \* the last file emitted, None before the first
          certs       \* the Secrets it has projected

vars == <<cluster, claims, next, m, file, certs>>

-----------------------------------------------------------------------------
(***************************************************************************)
(* Ingresses.                                                              *)
(***************************************************************************)
defaultClassIsOurs(k) == \E ic \in k.ingressClasses : ic.ours /\ ic.default

isOurs(k, ing) ==
  IF ing.class # None THEN ing.class = "ours"
  ELSE IF ing.legacy # None THEN ing.legacy = "ours" ELSE defaultClassIsOurs(k)

Sticky(src, a) == IF a.sticky THEN <<[kind |-> "sticky", src |-> src]>> ELSE <<>>

CertClaim(src, host, ns, secret) ==
  [kind |-> "cert", src |-> src, host |-> IF Concrete(host) THEN host ELSE <<>>,
   stem |-> certStem(host, ns, secret), ns |-> ns, name |-> secret]

\* spec.tls: an entry without hosts covers the hosts of the rules.
tlsClaims(src, ing, t) ==
  LET ruled == Drop([i \in DOMAIN ing.rules |-> ing.rules[i].host], {<<>>})
      hosts == IF t.hosts # <<>> THEN t.hosts ELSE ruled
  IN CASE t.secret = <<>> -> <<>>
       [] t.secret # <<>> /\ hosts = <<>> -> <<CertClaim(src, <<>>, ing.ns, t.secret)>>
       [] OTHER -> [i \in DOMAIN hosts |-> CertClaim(src, hosts[i], ing.ns, t.secret)]

RouteClaim(src, host, path, cfg, a) ==
  [kind |-> "route", src |-> src, host |-> host, path |-> path, cfg |-> cfg, sticky |-> a.sticky]

RegexClaim(src, host, regex, cfg, a) ==
  [kind |-> "regex", src |-> src, host |-> host, regex |-> regex, cfg |-> cfg, sticky |-> a.sticky]

AcmeClaim(src, upstream) == [kind |-> "acme", src |-> src, upstream |-> upstream]

\* A path under /.well-known/acme-challenge.
Challenge(path) == path[1] = "acme"

\* One path of a rule: under its host, then under each server-alias.
pathClaims(k, slices, src, ing, a, host, p) ==
  LET servers == backendServers(k, slices, ing.ns, p.backend)
      path    == IF p.path = <<"", 0>> THEN Root ELSE p.path
      cfg     == routeCfg(servers, a, <<>>, <<>>)
      hosts   == <<host>> \o Drop(a.serverAliases, {<<>>, host})
  IN CASE servers = None -> <<>>
       [] servers # None /\ a.useRegex ->
            [i \in DOMAIN hosts |-> RegexClaim(src, hosts[i], <<FALSE, path>>, cfg, a)]
       [] servers # None /\ ~a.useRegex /\ Challenge(path) ->
            <<AcmeClaim(src, backendAddr(k, ing.ns, p.backend))>>
       [] OTHER -> [i \in DOMAIN hosts |-> RouteClaim(src, hosts[i], path, cfg, a)]

\* A passthrough host goes to its first backend that resolves.
ruleClaims(k, slices, src, ing, a, rule) ==
  LET resolved == Drop([i \in DOMAIN rule.paths |-> backendAddr(k, ing.ns, rule.paths[i].backend)], {None})
  IN CASE rule.host = <<>> \/ ~rule.http -> <<>>
       [] rule.host # <<>> /\ rule.http /\ a.passthrough ->
            IF resolved = <<>> THEN <<>>
            ELSE <<[kind |-> "pass", src |-> src, host |-> rule.host, upstream |-> Head(resolved)]>>
       [] OTHER -> Collect(LAMBDA p : pathClaims(k, slices, src, ing, a, rule.host, p), rule.paths)

ingressClaims(k, slices, ing) ==
  LET src == <<0, ing.id>>
      a   == parseAnnotations(ing.ann)
  IN IF ~isOurs(k, ing) THEN <<>>
     ELSE Sticky(src, a) \o Collect(LAMBDA t : tlsClaims(src, ing, t), ing.tls)
          \o Collect(LAMBDA r : ruleClaims(k, slices, src, ing, a, r), ing.rules)

-----------------------------------------------------------------------------
(***************************************************************************)
(* renderGateways.                                                         *)
(***************************************************************************)
GatewayIsOurs(k, gw) == \E gc \in k.gatewayClasses : gc.ours /\ gc.name = gw.class

\* Faulty: the Secret is looked for beside the Gateway.
listenerClaimsLocal(src, gw, l) ==
  IF l.tls # "terminate" THEN <<>>
  ELSE Collect(LAMBDA r : IF r.kind # "Secret" THEN <<>>
                          ELSE <<CertClaim(src, l.hostname, gw.ns, r.name)>>, l.refs)

listenerClaims(src, gw, l) ==
  IF l.tls # "terminate" THEN <<>>
  ELSE Collect(LAMBDA r : IF r.kind # "Secret" THEN <<>>
                          ELSE <<CertClaim(src, l.hostname, IF r.ns = None THEN gw.ns ELSE r.ns, r.name)>>,
               l.refs)

gatewayClaims(k, gw) ==
  IF ~GatewayIsOurs(k, gw) THEN <<>>
  ELSE Collect(LAMBDA l : listenerClaims(<<1, gw.id>>, gw, l), gw.listeners)

\* Some parentRef is a Gateway of ours.
Attached(k, rt) ==
  \E i \in DOMAIN rt.parentRefs :
     LET p == rt.parentRefs[i]
     IN /\ p.kind = "Gateway"
        /\ \E gw \in k.gateways : /\ GatewayIsOurs(k, gw) /\ gw.name = p.name
                                  /\ gw.ns = IF p.ns = None THEN rt.ns ELSE p.ns

\* headerFilters: the headers that filters of this type set and then add.
headerFilters(filters, type) ==
  Collect(LAMBDA f : f.set \o f.add, SelectSeq(filters, LAMBDA f : f.type = type))

\* Prefixes first, then regular expressions, each under every hostname.
httpRuleClaims(src, rt, a, rule) ==
  LET servers == ruleBackends(rt.ns, rule)
      cfg     == routeCfg(servers, a, headerFilters(rule.filters, "request"),
                          headerFilters(rule.filters, "response"))
      match   == rulePaths(rule)
      prefix(h, p) == IF Challenge(p) THEN AcmeClaim(src, servers[1].addr) ELSE RouteClaim(src, h, p, cfg, a)
  IN IF servers = <<>> THEN <<>>
     ELSE Collect(LAMBDA p : [i \in DOMAIN rt.hostnames |-> prefix(rt.hostnames[i], p)], match.paths)
          \o Collect(LAMBDA rx : [i \in DOMAIN rt.hostnames |-> RegexClaim(src, rt.hostnames[i], rx, cfg, a)],
                     match.regexes)

httpRouteClaims(k, rt) ==
  LET src == <<2, rt.id>>
      a   == parseAnnotations(rt.ann)
  IN IF ~Attached(k, rt) THEN <<>>
     ELSE Sticky(src, a) \o Collect(LAMBDA rule : httpRuleClaims(src, rt, a, rule), rt.rules)

-----------------------------------------------------------------------------
(***************************************************************************)
(* One render.                                                             *)
(***************************************************************************)
\* The same objects by namespace and name.
ById(s) == CHOOSE t \in SetToSeqs(ToSet(s)) : \A i, j \in DOMAIN t : i < j => t[i].id < t[j].id

\* Faulty: objects claim in the order they were listed.
ClaimsAsListed(k, ings, gws, rts, slices) ==
  Collect(LAMBDA ing : ingressClaims(k, slices, ing), ings)
  \o IF ~k.flags.gatewayAPI THEN <<>>
     ELSE Collect(LAMBDA gw : gatewayClaims(k, gw), gws)
          \o Collect(LAMBDA rt : httpRouteClaims(k, rt), rts)

\* All claims, from lists in the order the caches returned them.
Claims(k, ings, gws, rts, slices) ==
  Collect(LAMBDA ing : ingressClaims(k, slices, ing), ById(ings))
  \o IF ~k.flags.gatewayAPI THEN <<>>
     ELSE Collect(LAMBDA gw : gatewayClaims(k, gw), gws)
          \o Collect(LAMBDA rt : httpRouteClaims(k, rt), ById(rts))

(***************************************************************************)
(* What is assumed of a cluster: its lists are lists, an object is told    *)
(* from others of its kind by namespace and name, and names are not empty  *)
(* where the API server demands one.                                       *)
(***************************************************************************)
IsSeq(s) == s \in Seq(ToSet(s))

Identified(S) ==
  IsFiniteSet(S) /\ (\A x \in S : x.id \in Nat) /\ \A x, y \in S : x.id = y.id => x = y

Aliases == {Synapse("server-alias"), Nginx("server-alias")}

\* The addresses of an endpoint are a set (the API server refuses duplicates).
SliceFormed(s) ==
  /\ IsSeq(s.ports) /\ \A p \in ToSet(s.ports) : p.port \in Nat \cup {None}
  /\ IsSeq(s.endpoints)
  /\ \A ep \in ToSet(s.endpoints) :
       /\ IsSeq(ep.addresses) /\ ToSet(ep.addresses) \subseteq Nat
       /\ \A i, j \in DOMAIN ep.addresses : ep.addresses[i] = ep.addresses[j] => i = j

\* A pod that lives has one address of a family, whoever lists it.
OneAddress(s, t) ==
  \A x \in ToSet(s.endpoints), y \in ToSet(t.endpoints) :
    endpointUsable(x) /\ endpointUsable(y) /\ x.pod = y.pod
      => \A v \in ToSet(x.addresses), w \in ToSet(y.addresses) : v = w

WellFormed(k) ==
  /\ Identified(k.ingresses) /\ Identified(k.gateways) /\ Identified(k.httpRoutes)
  /\ \A ing \in k.ingresses :
       /\ ing.ns # <<>>
       /\ IsSeq(ing.tls) /\ \A t \in ToSet(ing.tls) : IsSeq(t.hosts)
       /\ IsSeq(ing.rules) /\ \A r \in ToSet(ing.rules) : r.http => IsSeq(r.paths)
       /\ \A key \in Aliases \cap DOMAIN ing.ann : IsSeq(ing.ann[key])
  /\ \A gw \in k.gateways :
       /\ gw.ns # <<>> /\ IsSeq(gw.listeners)
       /\ \A l \in ToSet(gw.listeners) :
            IsSeq(l.refs) /\ \A r \in ToSet(l.refs) : r.ns # <<>> /\ r.name # <<>>
  /\ \A rt \in k.httpRoutes :
       /\ IsSeq(rt.hostnames) /\ IsSeq(rt.rules)
       /\ \A rule \in ToSet(rt.rules) : IsSeq(rule.matches) /\ IsSeq(rule.backendRefs)
  /\ \A id \in DOMAIN k.services :
       IsSeq(k.services[id].ports) /\ \A p \in ToSet(k.services[id].ports) : p.port \in Nat
  /\ IsFiniteSet(k.slices) /\ \A s \in k.slices : SliceFormed(s)
  /\ \A s, t \in k.slices : s.type = t.type => OneAddress(s, t)

ASSUME ClustersAssumption == \A k \in Clusters : WellFormed(k)

ASSUME NoneAssumption == None \notin BOOLEAN

Init ==
  /\ cluster \in Clusters
  /\ claims = <<>> /\ next = 0 /\ m = newRenderModel
  /\ file = None /\ certs = None

Begin ==
  /\ next = 0
  /\ \E ings \in SetToSeqs(cluster.ingresses), gws \in SetToSeqs(cluster.gateways),
        rts \in SetToSeqs(cluster.httpRoutes), slices \in SetToSeqs(cluster.slices) :
        claims' = Claims(cluster, ings, gws, rts, slices)
  /\ next' = 1
  /\ m' = newRenderModel
  /\ UNCHANGED <<cluster, file, certs>>

Claim ==
  /\ next \in DOMAIN claims
  /\ m' = Apply(m, claims[next])
  /\ next' = next + 1
  /\ UNCHANGED <<cluster, claims, file, certs>>

Emit ==
  /\ next = Len(claims) + 1
  /\ certs' = m.certProjections
  /\ file' = emit(m)
  /\ next' = 0
  /\ UNCHANGED <<cluster, claims, m>>

Next == Begin \/ Claim \/ Emit

Spec == Init /\ [][Next]_vars

-----------------------------------------------------------------------------
(***************************************************************************)
(* Properties.                                                             *)
(***************************************************************************)
Done == next = 0 /\ file # None

\* A host is terminated or passed through, never both, at any point of a
\* render: renderUpstreamsV2 lists the keys of both maps one after the other
\* and would emit the host twice (addRoute, addRegexRoute, addPassthroughHost).
SingleEmission == TerminateHosts(m) \cap PassthroughHosts(m) = {}

KeyOf(c) == IF c.kind = "route" THEN pathKey(c.path) ELSE regexRouteKey(c.regex)

\* Precedence of claims: Ingresses before HTTPRoutes, each by namespace/name,
\* and the order within the object.
Before(i, j) ==
  LET a == claims[i].src  b == claims[j].src
  IN \/ a[1] < b[1] \/ (a[1] = b[1] /\ a[2] < b[2]) \/ (a = b /\ i < j)

Winner(is) == claims[CHOOSE i \in is : \A j \in is \ {i} : Before(i, j)]

RoutesOn(h)  == {i \in DOMAIN claims : claims[i].kind \in {"route", "regex"} /\ claims[i].host = h}
PassesOn(h)  == {i \in DOMAIN claims : claims[i].kind = "pass" /\ claims[i].host = h}
Claimed      == {claims[i].host : i \in {j \in DOMAIN claims : claims[j].kind \in {"route", "regex", "pass"}}}
AcmeClaims   == {i \in DOMAIN claims : claims[i].kind = "acme" /\ claims[i].upstream # None}

\* What is served is decided by precedence alone, not by the order in which
\* anything was listed: a host is in the mode of the first claim on it, a
\* (host, path) is served by the first route claiming it, the challenge path
\* by the first solver, and every host claimed is in the file.
FirstClaimWins ==
  Done =>
    /\ DOMAIN file.hosts = Claimed
    /\ \A h \in Claimed :
         IF Winner(RoutesOn(h) \cup PassesOn(h)).kind = "pass"
         THEN file.hosts[h] = [tls |-> "passthrough", upstream |-> Winner(PassesOn(h)).upstream]
         ELSE LET keys == {KeyOf(claims[i]) : i \in RoutesOn(h)}
              IN /\ file.hosts[h].tls = "terminate"
                 /\ DOMAIN file.hosts[h].paths = keys
                 /\ \A key \in keys :
                      LET cfg == Winner({i \in RoutesOn(h) : KeyOf(claims[i]) = key}).cfg
                      IN /\ file.hosts[h].paths[key].servers = cfg.servers
                         /\ file.hosts[h].paths[key].redirect = cfg.redirect
    /\ file.acme = IF AcmeClaims = {} THEN None ELSE Winner(AcmeClaims).upstream

\* In the course of a render nothing that is in the table is replaced or
\* taken out by a later claim.
FirstWriterStays ==
  [][next # 0 =>
       /\ \A hk \in DOMAIN m.hosts : hk \in DOMAIN m'.hosts /\ m'.hosts[hk] = m.hosts[hk]
       /\ \A h \in PassthroughHosts(m) :
            h \in PassthroughHosts(m') /\ m'.passthroughHosts[h] = m.passthroughHosts[h]
       /\ \A s \in DOMAIN m.certProjections :
            s \in DOMAIN m'.certProjections /\ m'.certProjections[s] = m.certProjections[s]]_vars

\* Two Gateways list different Secrets under one stem or for one host.
GatewaysCompete ==
  \E i, j \in DOMAIN claims :
    LET x == claims[i]  y == claims[j]
    IN /\ x.kind = "cert" /\ y.kind = "cert" /\ x.src[1] = 1 /\ y.src[1] = 1
       /\ <<x.ns, x.name>> # <<y.ns, y.name>>
       /\ x.stem = y.stem \/ (x.host = y.host /\ x.host # <<>>)

\* Rendering an unchanged cluster again gives the same file and the same
\* certificates, whatever order the caches list in ("so output is
\* deterministic", addCert): otherwise every resync is a write and a reload.
\* Only Gateways are not sorted, and may swap the certificate of a host.
OutputIsStable ==
  [][file # None => file' = file /\ (certs' = certs \/ GatewaysCompete)]_vars

\* A passthrough host switches the whole file to schema v2 and that changes
\* nothing for the other hosts: a v2 route means what its v1 form would.
SchemaAgnostic ==
  Done => \A hk \in DOMAIN m.hosts :
             Meaning(file.hosts[hk[1]].paths[hk[2]]) = Meaning(writeRouteV1(m.hosts[hk]))

IsPod(srv) == srv.addr.kind \in {"v4", "v6"}

\* The listings of a pod's address: slices with a usable endpoint that has it.
Listing(k, srv) ==
  UNION {{<<s, i>> : i \in {j \in DOMAIN s.endpoints :
                              /\ endpointUsable(s.endpoints[j])
                              /\ srv.addr.host \in ToSet(s.endpoints[j].addresses)}} :
           s \in {x \in k.slices : x.type = srv.addr.kind}}

Pods(k, srv) == {l[1].endpoints[l[2]].pod : l \in Listing(k, srv)}

\* The servers of a route are there, a pod among them is usable and reached on
\* a port its slice gives, and takes one share of the traffic: once per route,
\* unless slices of one family list it twice.
Serving(k, servers) ==
  LET pods == {i \in DOMAIN servers : IsPod(servers[i])}
  IN /\ servers # <<>>
     /\ \A i \in pods :
          \E l \in Listing(k, servers[i]) :
             \/ l[1].ports = <<>>
             \/ \E p \in ToSet(l[1].ports) : p.port \in {None, servers[i].addr.port}
     /\ \A i, j \in pods :
          i # j /\ Pods(k, servers[i]) \cap Pods(k, servers[j]) # {}
            => servers[i].addr.host = servers[j].addr.host /\ Cardinality(Listing(k, servers[i])) > 1

\* No route is left without servers, and no request goes where nothing
\* listens ("it looks like a total outage", servicePortName) or twice as often
\* to one pod as to another ("silently double its share", sliceEndpointAddrs).
ServersServe ==
  Done => \A hk \in DOMAIN m.hosts : Serving(cluster, file.hosts[hk[1]].paths[hk[2]].servers)

\* The Secrets some Ingress or Gateway of ours lists for a host.
IngressCerts(k, ing, h) ==
  LET covers(t) == /\ t.secret # <<>>
                   /\ \/ h \in ToSet(t.hosts)
                      \/ t.hosts = <<>> /\ \E r \in ToSet(ing.rules) : r.host = h
  IN {<<ing.ns, t.secret>> : t \in {x \in ToSet(ing.tls) : isOurs(k, ing) /\ covers(x)}}

ListenerCerts(gw, l) ==
  {<<IF r.ns = None THEN gw.ns ELSE r.ns, r.name>> : r \in {x \in ToSet(l.refs) : x.kind = "Secret"}}

GatewayCerts(k, gw, h) ==
  UNION {ListenerCerts(gw, l) :
           l \in {x \in ToSet(gw.listeners) :
                    k.flags.gatewayAPI /\ GatewayIsOurs(k, gw) /\ x.tls = "terminate" /\ x.hostname = h}}

CertsFor(k, h) ==
  UNION ({IngressCerts(k, ing, h) : ing \in k.ingresses} \cup {GatewayCerts(k, gw, h) : gw \in k.gateways})

\* Another Secret's <ns>-<secret> reads like this host name.
Collides(h) == \E i \in DOMAIN claims : /\ claims[i].kind = "cert" /\ claims[i].stem = h
                                        /\ claims[i].host = <<>>

\* The certificate the file binds a host to is one that some Ingress or
\* Gateway lists for that host, unless the stem collides; and a host with a
\* certificate listed for it is bound.  A wildcard never is: the proxy finds
\* its certificate by the names in it (certStem).
CertOfHost ==
  Done => \A h \in DOMAIN file.hosts :
    file.hosts[h].tls = "terminate" =>
      IF CertsFor(cluster, h) = {} \/ ~Concrete(h) THEN file.hosts[h].cert = None
      ELSE /\ file.hosts[h].cert \in DOMAIN certs
           /\ LET cp == certs[file.hosts[h].cert]
              IN <<cp.ns, cp.name>> \in CertsFor(cluster, h) \/ Collides(h)
=============================================================================
