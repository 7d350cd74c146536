----------------------------- MODULE RouteTable -----------------------------
(***************************************************************************)
(* renderModel (controllers/routes.go): the table one render fills with    *)
(* the routes, passthrough hosts and certificates that the cluster's       *)
(* objects claim, one claim after the other.                               *)
(*                                                                         *)
(* A name (of a host, a namespace, a Secret) is the sequence of its parts  *)
(* between dashes, so that <ns>-<secret> can be written the same way for   *)
(* two Secrets.  A path is <<p, n>>: p and then n slashes.                 *)
(***************************************************************************)
EXTENDS Naturals, Sequences

CONSTANT None     \* a nil pointer, an empty string

-----------------------------------------------------------------------------
\* Go maps: partial functions.
Nothing == [x \in {} |-> None]

Put(f, k, v) == [x \in DOMAIN f \cup {k} |-> IF x = k THEN v ELSE f[x]]

PutNew(f, k, v) == IF k \in DOMAIN f THEN f ELSE Put(f, k, v)

\* hosts is keyed by host and route key together.
newRenderModel ==
  [hosts |-> Nothing, passthroughHosts |-> Nothing, hostCert |-> Nothing,
   certProjections |-> Nothing, acme |-> None, sticky |-> FALSE]

TerminateHosts(m)   == {hk[1] : hk \in DOMAIN m.hosts}
PassthroughHosts(m) == DOMAIN m.passthroughHosts

-----------------------------------------------------------------------------
(***************************************************************************)
(* Certificates.                                                           *)
(***************************************************************************)
Concrete(host) == host # <<>> /\ Head(host) # "*"

\* certStem: a concrete host names its certificate, any other certificate is
\* named after its Secret.  sanitizeStem changes none of the characters the
\* API server lets into these names.
certStem(host, ns, secret) == IF Concrete(host) THEN host ELSE ns \o secret

addCert(m, c) ==
  IF c.stem = <<>> \/ c.ns = <<>> \/ c.name = <<>> THEN m
  ELSE [m EXCEPT !.certProjections = PutNew(@, c.stem, [ns |-> c.ns, name |-> c.name]),
                 !.hostCert = IF c.host = <<>> THEN @ ELSE PutNew(@, c.host, c.stem)]

-----------------------------------------------------------------------------
(***************************************************************************)
(* Routes.                                                                 *)
(***************************************************************************)
Root == <<"", 1>>

\* strings.TrimRight(path, "/"), unless nothing would be left.
TrimSlashes(path) == IF path[1] = "" THEN path ELSE <<path[1], 0>>

pathKey(path)        == <<"path", TrimSlashes(path)>>
regexRouteKey(regex) == <<"expr", regex>>

\* The regular expression <<anchored, path>> with its ^ supplied.
pathRegexExpr(regex) == <<TRUE, regex[2]>>

\* Faulty: the last claim on a key wins.
InsertOver(m, host, key, cfg, sticky) ==
  IF host \in PassthroughHosts(m) THEN m
  ELSE [m EXCEPT !.hosts = Put(@, <<host, key>>, cfg), !.sticky = IF sticky THEN TRUE ELSE @]

\* The part addRoute and addRegexRoute have in common: a key that is set, or
\* a host that is passed through, is taken.
Insert(m, host, key, cfg, sticky) ==
  IF host \in PassthroughHosts(m) \/ <<host, key>> \in DOMAIN m.hosts THEN m
  ELSE [m EXCEPT !.hosts = Put(@, <<host, key>>, cfg), !.sticky = IF sticky THEN TRUE ELSE @]

addRoute(m, c) == Insert(m, c.host, pathKey(c.path), c.cfg, c.sticky)

addRegexRoute(m, c) ==
  Insert(m, c.host, regexRouteKey(c.regex), [c.cfg EXCEPT !.expr = pathRegexExpr(c.regex)], c.sticky)

\* Faulty: terminate routes of the host are not looked at.
addPassthroughHostBlind(m, c) ==
  [m EXCEPT !.passthroughHosts = PutNew(@, c.host, c.upstream)]

addPassthroughHost(m, c) ==
  IF c.host = <<>> \/ c.upstream = None \/ c.host \in TerminateHosts(m) THEN m
  ELSE [m EXCEPT !.passthroughHosts = PutNew(@, c.host, c.upstream)]

\* The solver of ACME challenges: one address for the whole file.
claimAcme(m, c) == IF m.acme = None THEN [m EXCEPT !.acme = c.upstream] ELSE m

\* One call on the model; what is left is an object that asks for sticky sessions.
Apply(m, c) ==
  CASE c.kind = "cert"   -> addCert(m, c)
    [] c.kind = "route"  -> addRoute(m, c)
    [] c.kind = "regex"  -> addRegexRoute(m, c)
    [] c.kind = "pass"   -> addPassthroughHost(m, c)
    [] c.kind = "acme"   -> claimAcme(m, c)
    [] OTHER             -> [m EXCEPT !.sticky = TRUE]
=============================================================================
