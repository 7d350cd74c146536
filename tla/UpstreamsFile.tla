---------------------------- MODULE UpstreamsFile ----------------------------
(***************************************************************************)
(* What an object's annotations ask for and how a filled render model is   *)
(* written (controllers/routes.go): schema v1, or v2 for the whole file as *)
(* soon as one host is passed through.                                     *)
(*                                                                         *)
(* Annotations are a partial function from <<prefix, key>> to a value that *)
(* is already trimmed; Junk is a value that does not parse.  A file is the *)
(* function its sorted keys make of it: which fields it holds, not how     *)
(* they are laid out.                                                      *)
(***************************************************************************)
EXTENDS Backends

CONSTANTS Junk,      \* a value that is no boolean, number or size
          MaxUint    \* stands for 2^64 - 1

ASSUME MaxUintAssumption == MaxUint \in Nat

Timeouts == {"connect-timeout", "read-timeout", "write-timeout", "idle-timeout"}
Switches == {"ssl", "http2", "force-https", "healthcheck", "disable-access-log"}
Knobs    == Timeouts \cup Switches \cup {"max-body-size"}

-----------------------------------------------------------------------------
(***************************************************************************)
(* parseAnnotations.                                                       *)
(***************************************************************************)
parseBool(v) == IF v \in BOOLEAN THEN v ELSE None
parseUint(v) == IF v \in 0..MaxUint THEN v ELSE None
csv(v)       == IF v = None THEN <<>> ELSE v

\* A size is <<number, multiplier>>; one that would overflow is malformed.
parseSize(v) ==
  IF v \in {None, Junk} THEN None
  ELSE IF v[1] > MaxUint \div v[2] THEN None ELSE v[1] * v[2]

Synapse(key) == <<"synapse", key>>
Nginx(key)   == <<"nginx", key>>

\* The first of these annotations that is set, though it may not parse.
Get(ann, keys) ==
  LET set == {i \in DOMAIN keys : keys[i] \in DOMAIN ann}
  IN IF set = {} THEN None ELSE ann[keys[Min(set)]]

Own(ann, key)    == Get(ann, <<Synapse(key)>>)
Either(ann, key) == Get(ann, <<Synapse(key), Nginx(key)>>)

\* A flag that is off unless its annotation parses as true.
Flag(v) == parseBool(v) = TRUE

pickRedirect(ann, url, code, status) ==
  LET loc == Either(ann, url)
      n   == parseUint(Either(ann, code))
  IN IF loc \in {None, ""} THEN None
     ELSE [status |-> IF n = None THEN status ELSE n, location |-> loc]

knobs(ann) ==
  LET protocol == Either(ann, "backend-protocol")
      force    == Get(ann, <<Synapse("force-https"), Synapse("ssl-redirect"), Nginx("ssl-redirect")>>)
  IN [k \in Knobs |->
        CASE k = "ssl"           -> IF protocol \in {None, ""} THEN None ELSE protocol = "HTTPS"
          [] k = "force-https"   -> parseBool(force)
          [] k = "max-body-size" -> parseSize(Either(ann, "proxy-body-size"))
          [] k \in Timeouts      -> parseUint(Own(ann, k))
          [] OTHER               -> parseBool(Own(ann, k))]

parseAnnotations(ann) ==
  LET permanent == pickRedirect(ann, "permanent-redirect", "permanent-redirect-code", 301)
      temporal  == pickRedirect(ann, "temporal-redirect", "temporal-redirect-code", 302)
  IN [knobs         |-> knobs(ann),
      reqHeaders    |-> csv(Own(ann, "request-headers")),
      respHeaders   |-> csv(Own(ann, "response-headers")),
      serverAliases |-> csv(Either(ann, "server-alias")),
      redirect      |-> IF permanent # None THEN permanent ELSE temporal,
      passthrough   |-> Flag(Either(ann, "ssl-passthrough")),
      useRegex      |-> Flag(Either(ann, "use-regex")),
      sticky        |-> Flag(Own(ann, "sticky-sessions"))]

\* The routeCfg addRoute makes of an object's settings and a rule's filters.
routeCfg(servers, a, req, resp) ==
  [servers |-> servers, knobs |-> a.knobs, redirect |-> a.redirect, expr |-> None,
   reqHeaders |-> a.reqHeaders \o req, respHeaders |-> a.respHeaders \o resp]

-----------------------------------------------------------------------------
(***************************************************************************)
(* The emitted file.                                                       *)
(***************************************************************************)
Fields(cfg, names) == [k \in names |-> cfg.knobs[k]]

Set(cfg) == {k \in Knobs : cfg.knobs[k] # None}

Block(cfg, fields) ==
  [servers |-> cfg.servers, fields |-> fields, expr |-> cfg.expr, redirect |-> cfg.redirect,
   headers |-> [request |-> cfg.reqHeaders, response |-> cfg.respHeaders]]

\* v1: every knob that is set, and ssl_enabled always.
writeRouteV1(cfg) == Block(cfg, Put(Fields(cfg, Set(cfg)), "ssl", cfg.knobs["ssl"] = TRUE))

\* Faulty: the body size limit is forgotten in v2.
writeRouteV2Uncapped(cfg) ==
  LET on == {k \in {"force-https", "healthcheck"} : cfg.knobs[k] = TRUE}
  IN Block(cfg, Fields(cfg, on \cup (Set(cfg) \ {"force-https", "healthcheck", "max-body-size"})))

\* v2: force_https and health_check only when they are on.
writeRouteV2(cfg) ==
  LET on == {k \in {"force-https", "healthcheck"} : cfg.knobs[k] = TRUE}
  IN Block(cfg, Fields(cfg, on \cup (Set(cfg) \ {"force-https", "healthcheck"})))

TerminateBlock(m, host, write(_)) ==
  [tls   |-> "terminate",
   cert  |-> IF host \in DOMAIN m.hostCert THEN m.hostCert[host] ELSE None,
   paths |-> [key \in {hk[2] : hk \in {x \in DOMAIN m.hosts : x[1] = host}} |-> write(m.hosts[<<host, key>>])]]

renderUpstreams(m) ==
  [version |-> 1, acme |-> m.acme, sticky |-> m.sticky,
   hosts   |-> [h \in TerminateHosts(m) |-> TerminateBlock(m, h, writeRouteV1)]]

renderUpstreamsV2(m) ==
  [version |-> 2, acme |-> m.acme, sticky |-> m.sticky,
   hosts   |-> [h \in TerminateHosts(m) \cup PassthroughHosts(m) |->
                  IF h \in PassthroughHosts(m)
                  THEN [tls |-> "passthrough", upstream |-> m.passthroughHosts[h]]
                  ELSE TerminateBlock(m, h, writeRouteV2)]]

\* Schema selection, in render.
emit(m) == IF PassthroughHosts(m) # {} THEN renderUpstreamsV2(m) ELSE renderUpstreams(m)

\* What the proxy takes a field to be that the block does not have.
Read(block, k) ==
  IF k \in DOMAIN block.fields THEN block.fields[k] ELSE IF k \in Switches THEN FALSE ELSE None

Meaning(block) == [block EXCEPT !.fields = [k \in Knobs |-> Read(block, k)]]
=============================================================================
