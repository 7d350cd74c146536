----------------------------- MODULE ApiWriters -----------------------------
(***************************************************************************)
(* The operator in its central layout, where it writes to the API server   *)
(* and not to files, with the two resolvers that compose with it:          *)
(*                                                                         *)
(*  - the ingress controller renders the cluster to upstreams.yaml of a    *)
(*    ConfigMap, after the certificates have gone to a Secret              *)
(*    (controllers/ingress_controller.go, controllers/certs.go);           *)
(*  - the netvars resolver fills HOME_NET in config.yaml of a labelled     *)
(*    ConfigMap (controllers/netvars_resolver.go);                         *)
(*  - the upstreams resolver writes upstreams.yaml of a labelled           *)
(*    ConfigMap, Service names resolved, to another one                    *)
(*    (controllers/upstreams_resolver.go).                                 *)
(*                                                                         *)
(* All three may be at one ConfigMap `cm`, which the user edits as well.   *)
(* Each reads informer caches and writes whole objects back.  The render   *)
(* (module Render) is one value here, a `world`: the file and the          *)
(* certificates that come of the cluster.                                  *)
(***************************************************************************)
EXTENDS Naturals, NetVars, ServerResolution

CONSTANTS Worlds, NodeSets, ServiceNames, Services,
          Initial,              \* the cluster the operator starts on
          ConfigMaps,           \* what the user may create
          UserConfigs, UserUps, \* what the user may put under its keys
          Pins,                 \* HOME_NET values that only a human writes
          OutNames, DefaultOut, \* names of outputs; <source>-resolved, the others are taken
          Foreign,              \* an owner that is not `cm`
          MaxEdits

ASSUME OutAssumption == DefaultOut \in OutNames
ASSUME InitialAssumption ==
  /\ Initial.world \in Worlds /\ Initial.nodes \in NodeSets
  /\ Initial.svc \in [ServiceNames -> Services]

VARIABLES cm, sec, out,         \* the ConfigMap, the certificates Secret, the outputs
          world, svc, nodes,    \* the cluster
          ccm, csec, cout, cworld, csvc, cnodes,  \* all of these in the informers
          lag, slag, olag,      \* the informer does not have the last write
          qi, qn, qu,           \* requests: rebuild, netvars, upstreams
          pc, plan,             \* where each render is, and the world it has listed
          edits,
          tampered,             \* history: the user has changed what central published
          raced, alone,         \* history: two renders overlapped; this one did not
          missed,               \* history: writes left out because of a stale cache
          unseen                \* history: a Service event found a source labelled "1"

objects  == <<cm, sec, out>>
cluster  == <<world, svc, nodes>>
caches   == <<ccm, csec, cout, cworld, csvc, cnodes>>
lags     == <<lag, slag, olag>>
queues   == <<qi, qn, qu>>
threads  == <<pc, plan>>
history  == <<tampered, raced, alone, missed, unseen>>
vars     == <<objects, cluster, caches, lags, queues, threads, edits, history>>

Threads == {"worker", "primer"}

Files   == {w.ups : w \in Worlds} \cup UserUps
Outputs == [owner : 0..MaxEdits,
            ups   : {resolveYAML(g, s) : g \in Files \ {NoKey, Bad},
                                         s \in [ServiceNames -> Services \cup {Absent}]}]

\* A ConfigMap of that name which another object controls.
Stranger == [owner |-> Foreign, ups |-> NoKey]

\* HOME_NET as a human writes it, and as it may be: derived from nodes and
\* Services that were seen at some time.
Written == Pins \cup {None, Any}
Homes   == Written \cup {autoHomeNet(ns, S) : ns \in NodeSets, S \in SUBSET Services}
Configs(homes) == {NoKey, Bad} \cup [home : homes, external : {"!$HOME_NET", "user"}]

\* The parts of the ConfigMap that have an owner each, and all of it.
NetPart      == [config : Configs(Homes), marker : {None, "auto", "manual"}]
RenderedPart == [ups : Files, managed : BOOLEAN]
UserPart     == [override : Pins \cup {None}, netLabel : BOOLEAN,
                 upsLabel : {"none", "true", "1"}, outName : OutNames, uid : 0..MaxEdits]
ConfigMapType ==
  [config : Configs(Homes), marker : {None, "auto", "manual"},
   ups : Files, managed : BOOLEAN,
   override : Pins \cup {None}, netLabel : BOOLEAN,
   upsLabel : {"none", "true", "1"}, outName : OutNames, uid : 0..MaxEdits]

ASSUME BoundAssumption == MaxEdits \in Nat

\* What the user writes: nothing that only the operator derives.
ASSUME UserAssumption ==
  /\ UserConfigs \subseteq Configs(Written)
  /\ ConfigMaps \subseteq {o \in ConfigMapType : o.config \in Configs(Written)}

\* No object and no part of one is the absence of it.
ASSUME AbsentAssumption ==
  /\ Absent \notin ConfigMapType \cup NetPart \cup RenderedPart \cup UserPart
  /\ Absent \notin Outputs /\ Absent # Stranger

TypeOK ==
  /\ cm \in ConfigMapType \cup {Absent} /\ ccm \in ConfigMapType \cup {Absent}
  /\ {sec, csec} \subseteq {w.certs : w \in Worlds} \cup {Absent}
  /\ out \in [OutNames -> Outputs \cup {Stranger, Absent}]
  /\ cout \in [OutNames -> Outputs \cup {Stranger, Absent}]
  /\ world \in Worlds /\ cworld \in Worlds
  /\ svc \in [ServiceNames -> Services \cup {Absent}]
  /\ csvc \in [ServiceNames -> Services \cup {Absent}]
  /\ nodes \in NodeSets /\ cnodes \in NodeSets
  /\ lag \in BOOLEAN /\ slag \in BOOLEAN /\ olag \in [OutNames -> BOOLEAN]
  /\ qi \in BOOLEAN /\ qn \in BOOLEAN /\ qu \in BOOLEAN
  /\ pc \in [Threads -> {"idle", "certs", "cm", "done"}]
  /\ plan \in [Threads -> Worlds \cup {None}]
  /\ edits \in 0..MaxEdits
  /\ tampered \in BOOLEAN /\ raced \in BOOLEAN /\ alone \in [Threads -> BOOLEAN]
  /\ missed \subseteq {"cm", "secret", "out"} /\ unseen \in BOOLEAN

\* The ConfigMap as central creates it.
Blank == [config |-> NoKey, marker |-> None, override |-> None, netLabel |-> FALSE,
          upsLabel |-> "none", outName |-> DefaultOut,
          ups |-> NoKey, managed |-> FALSE, uid |-> 0]

netSource(o)      == o # Absent /\ isNetVarsSource(o)
resolverSource(o) == o # Absent /\ isResolverSource(o)

\* The manager has started and its caches are synced.
Init ==
  /\ cm \in ConfigMaps \cup {Absent}
  /\ sec = Absent
  /\ out = [n \in OutNames |-> IF n = DefaultOut THEN Absent ELSE Stranger]
  /\ world = Initial.world /\ svc = Initial.svc /\ nodes = Initial.nodes
  /\ ccm = cm /\ csec = sec /\ cout = out /\ cworld = world /\ csvc = svc /\ cnodes = nodes
  /\ lag = FALSE /\ slag = FALSE /\ olag = [n \in OutNames |-> FALSE]
  /\ qi = TRUE /\ qn = netSource(cm) /\ qu = resolverSource(cm)
  /\ pc = [t \in Threads |-> "idle"] /\ plan = [t \in Threads |-> None]
  /\ edits = 0
  /\ tampered = FALSE /\ raced = FALSE /\ alone = [t \in Threads |-> TRUE]
  /\ missed = {} /\ unseen = FALSE

-----------------------------------------------------------------------------
(***************************************************************************)
(* The user and the cluster, in the API server.                            *)
(***************************************************************************)
UserEdits(o) ==
  {[o EXCEPT !.config = c] : c \in UserConfigs} \cup {[o EXCEPT !.override = p] : p \in Pins \cup {None}}
    \cup {[o EXCEPT !.netLabel = l] : l \in BOOLEAN}
    \cup {[o EXCEPT !.upsLabel = l] : l \in {"none", "true", "1"}}
    \cup {[o EXCEPT !.outName = n] : n \in OutNames} \cup {[o EXCEPT !.ups = f] : f \in UserUps}

\* Edits of the user, changes of the cluster and restarts are bounded together.
Edited == edits < MaxEdits /\ edits' = edits + 1

EditConfigMap ==
  /\ Edited
  /\ \/ cm # Absent /\ \E o \in (UserEdits(cm) \cup {Absent}) \ {cm} : cm' = o
     \/ cm = Absent /\ \E o \in ConfigMaps : cm' = [o EXCEPT !.uid = edits']
  /\ lag' = TRUE
  /\ tampered' = (tampered \/ cm = Absent \/ cm' = Absent \/ cm'.ups # cm.ups)
  /\ UNCHANGED <<sec, out, cluster, caches, slag, olag, queues, threads,
                 raced, alone, missed, unseen>>

EditCluster ==
  /\ Edited
  /\ \/ \E w \in Worlds \ {world} : world' = w /\ UNCHANGED <<svc, nodes>>
     \/ \E n \in ServiceNames : \E s \in (Services \cup {Absent}) \ {svc[n]} :
          svc' = [svc EXCEPT ![n] = s] /\ UNCHANGED <<world, nodes>>
     \/ \E ns \in NodeSets \ {nodes} : nodes' = ns /\ UNCHANGED <<world, svc>>
  /\ UNCHANGED <<objects, caches, lags, queues, threads, history>>

\* An output whose source is gone is collected.
Collect(n) ==
  /\ out[n] # Absent /\ out[n].owner # Foreign
  /\ ~(cm # Absent /\ cm.uid = out[n].owner)
  /\ out' = [out EXCEPT ![n] = Absent]
  /\ olag' = [olag EXCEPT ![n] = TRUE]
  /\ UNCHANGED <<cm, sec, cluster, caches, lag, slag, queues, threads, edits, history>>

-----------------------------------------------------------------------------
(***************************************************************************)
(* Watch events.  Every update carries the newest object.                  *)
(***************************************************************************)
\* A predicate is asked about the new object, or the last known of a deleted
\* one; central does not watch ConfigMaps.
DeliverConfigMap ==
  /\ lag
  /\ ccm' = cm /\ lag' = FALSE
  /\ LET o == IF cm = Absent THEN ccm ELSE cm
     IN qn' = (qn \/ netSource(o)) /\ qu' = (qu \/ resolverSource(o))
  /\ UNCHANGED <<objects, cluster, csec, cout, cworld, csvc, cnodes, slag, olag, qi,
                 threads, edits, history>>

\* Ingresses, Gateways and TLS Secrets.
DeliverWorld ==
  /\ cworld # world
  /\ cworld' = world /\ qi' = TRUE
  /\ UNCHANGED <<objects, cluster, ccm, csec, cout, csvc, cnodes, lags, qn, qu,
                 threads, edits, history>>

DeliverService ==
  /\ csvc # svc
  /\ csvc' = svc /\ qi' = TRUE
  /\ qn' = (qn \/ netSource(ccm))
  /\ qu' = (qu \/ (ccm # Absent /\ listedForServices(ccm)))
  /\ unseen' = (unseen \/ (resolverSource(ccm) /\ ~listedForServices(ccm)))
  /\ UNCHANGED <<objects, cluster, ccm, csec, cout, cworld, cnodes, lags,
                 threads, edits, tampered, raced, alone, missed>>

DeliverNodes ==
  /\ cnodes # nodes
  /\ cnodes' = nodes
  /\ qn' = (qn \/ netSource(ccm))
  /\ UNCHANGED <<objects, cluster, ccm, csec, cout, cworld, csvc, lags, qi, qu,
                 threads, edits, history>>

\* The objects nobody watches: the outputs, and the Secret, which is Opaque.
DeliverQuietly ==
  \/ /\ slag
     /\ csec' = sec /\ slag' = FALSE
     /\ UNCHANGED <<objects, cluster, ccm, cout, cworld, csvc, cnodes, lag, olag, queues,
                    threads, edits, history>>
  \/ \E n \in OutNames :
       /\ olag[n]
       /\ cout' = [cout EXCEPT ![n] = out[n]] /\ olag' = [olag EXCEPT ![n] = FALSE]
       /\ UNCHANGED <<objects, cluster, ccm, csec, cworld, csvc, cnodes, lag, slag, queues,
                      threads, edits, history>>

-----------------------------------------------------------------------------
(***************************************************************************)
(* Get from the cache, mutate, Create or Update.                           *)
(***************************************************************************)
\* Faulty: the resource version is not sent along, so no write conflicts.
outcomeUnchecked(live, cached, stale, want) ==
  IF cached = want THEN "none" ELSE "written"

\* What becomes of writing `want` for `live`, seen as `cached`: nothing to do
\* when the cached copy shows it already, an error when the object has come
\* or gone or been written since.
outcome(live, cached, stale, want) ==
  IF cached = Absent THEN IF live = Absent THEN "written" ELSE "error"
  ELSE IF cached = want THEN "none"
  ELSE IF live = Absent \/ stale THEN "error" ELSE "written"

Note(what, res, differs) ==
  missed' = IF res = "none" /\ differs THEN missed \cup {what}
            ELSE IF res = "error" THEN missed ELSE missed \ {what}

\* The Services that a List returns.
Present(s) == {s[n] : n \in ServiceNames} \ {Absent}

\* Reconcile of the netvars resolver; an error is retried.
NetVarsReconcile ==
  /\ qn
  /\ \/ /\ ~(netSource(ccm) /\ ccm.config # NoKey)
        /\ qn' = FALSE
        /\ UNCHANGED <<cm, lag>>
     \/ /\ netSource(ccm) /\ ccm.config = Bad
        /\ UNCHANGED <<cm, lag, qn>>
     \/ /\ netSource(ccm) /\ ccm.config \notin {NoKey, Bad}
        /\ LET want == withNetVars(ccm, cnodes, Present(csvc))
               res  == outcome(cm, ccm, lag, want)
           IN /\ qn' = (res = "error")
              /\ cm' = IF res = "written" THEN want ELSE cm
              /\ lag' = (lag \/ res = "written")
  /\ UNCHANGED <<sec, out, cluster, caches, slag, olag, qi, qu, threads, edits, history>>

Resolved(o) == [owner |-> o.uid, ups |-> resolveYAML(o.ups, csvc)]

\* Faulty: an error of CreateOrUpdate is logged and nil returned.
UpstreamsReconcileOnce ==
  /\ qu
  /\ resolverSource(ccm) /\ ccm.ups \notin {NoKey, Bad}
  /\ qu' = FALSE
  /\ LET n   == resolvedOutputName(ccm)
         res == outcome(out[n], cout[n], olag[n], Resolved(ccm))
     IN /\ out' = IF res = "written" THEN [out EXCEPT ![n] = Resolved(ccm)] ELSE out
        /\ olag' = [olag EXCEPT ![n] = @ \/ res = "written"]
  /\ UNCHANGED <<cm, sec, cluster, caches, lag, slag, qi, qn, threads, edits, history>>

\* Reconcile of the upstreams resolver.  SetControllerReference refuses an
\* output that another object controls; an error is retried.
UpstreamsReconcile ==
  /\ qu
  /\ \/ /\ ~(resolverSource(ccm) /\ ccm.ups # NoKey)
        /\ qu' = FALSE
        /\ UNCHANGED <<out, olag, missed, unseen>>
     \/ /\ resolverSource(ccm) /\ ccm.ups = Bad
        /\ UNCHANGED <<out, olag, qu, missed, unseen>>
     \/ /\ resolverSource(ccm) /\ ccm.ups \notin {NoKey, Bad}
        /\ LET n       == resolvedOutputName(ccm)
               refused == cout[n] # Absent /\ cout[n].owner = Foreign
               res     == IF refused THEN "error"
                          ELSE outcome(out[n], cout[n], olag[n], Resolved(ccm))
           IN /\ qu' = (res = "error")
              /\ out' = IF res = "written" THEN [out EXCEPT ![n] = Resolved(ccm)] ELSE out
              /\ olag' = [olag EXCEPT ![n] = @ \/ res = "written"]
              /\ Note("out", res, out[n] # Resolved(ccm))
              /\ unseen' = (unseen /\ res = "error")
  /\ UNCHANGED <<cm, sec, cluster, caches, lag, slag, qi, qn, threads, edits,
                 tampered, raced, alone>>

-----------------------------------------------------------------------------
(***************************************************************************)
(* A render of the ingress controller, by its worker or by the primer.     *)
(***************************************************************************)
Rendering(t) == pc[t] \in {"certs", "cm"}

\* List.
Begin(t) ==
  /\ pc[t] = "idle"
  /\ t = "worker" => qi
  /\ qi' = (qi /\ t # "worker")
  /\ plan' = [plan EXCEPT ![t] = cworld]
  /\ pc' = [pc EXCEPT ![t] = "certs"]
  /\ LET others == {u \in Threads \ {t} : Rendering(u)}
     IN /\ alone' = [u \in Threads |-> IF u = t THEN others = {} ELSE alone[u] /\ u \notin others]
        /\ raced' = (raced \/ others # {})
  /\ UNCHANGED <<objects, cluster, caches, lags, qn, qu, edits, tampered, missed, unseen>>

\* The render is over; the worker's error is retried, the primer gives up.
End(t, failed) ==
  /\ pc' = [pc EXCEPT ![t] = IF t = "worker" THEN "idle" ELSE "done"]
  /\ plan' = [plan EXCEPT ![t] = None]
  /\ alone' = [alone EXCEPT ![t] = TRUE]
  /\ qi' = (qi \/ (failed /\ t = "worker"))

\* Faulty: an error of projectCertsToSecret is logged and the render goes on.
projectCertsToSecretGoesOn(t) ==
  /\ pc[t] = "certs"
  /\ LET res == outcome(sec, csec, slag, plan[t].certs)
     IN /\ sec' = IF res = "written" THEN plan[t].certs ELSE sec
        /\ slag' = (slag \/ res = "written")
        /\ Note("secret", res, sec # plan[t].certs)
  /\ pc' = [pc EXCEPT ![t] = "cm"]
  /\ UNCHANGED <<cm, out, cluster, caches, lag, olag, queues, plan, edits,
                 tampered, raced, alone, unseen>>

projectCertsToSecret(t) ==
  /\ pc[t] = "certs"
  /\ LET res == outcome(sec, csec, slag, plan[t].certs)
     IN /\ sec' = IF res = "written" THEN plan[t].certs ELSE sec
        /\ slag' = (slag \/ res = "written")
        /\ Note("secret", res, sec # plan[t].certs)
        /\ IF res = "error" THEN End(t, TRUE)
           ELSE pc' = [pc EXCEPT ![t] = "cm"] /\ UNCHANGED <<plan, alone, qi>>
  /\ UNCHANGED <<cm, out, cluster, caches, lag, olag, qn, qu, edits,
                 tampered, raced, unseen>>

\* The mutate function: the rest of the object is kept as it was read.
Published(o, f) == [(IF o = Absent THEN [Blank EXCEPT !.uid = edits] ELSE o)
                      EXCEPT !.ups = f, !.managed = TRUE]

writeConfigMapIfChanged(t) ==
  /\ pc[t] = "cm"
  /\ LET want == Published(ccm, plan[t].ups)
         res  == outcome(cm, ccm, lag, want)
     IN /\ cm' = IF res = "written" THEN want ELSE cm
        /\ lag' = (lag \/ res = "written")
        /\ Note("cm", res, cm = Absent \/ cm.ups # want.ups)
        /\ tampered' = (tampered /\ res = "error")
        /\ raced' = (raced /\ (res = "error" \/ ~alone[t]))
        /\ End(t, res = "error")
  /\ UNCHANGED <<sec, out, cluster, caches, slag, olag, qn, qu, edits, unseen>>

\* The operator is killed and starts again.
Restart ==
  /\ Edited
  /\ ccm' = cm /\ csec' = sec /\ cout' = out /\ cworld' = world /\ csvc' = svc /\ cnodes' = nodes
  /\ lag' = FALSE /\ slag' = FALSE /\ olag' = [n \in OutNames |-> FALSE]
  /\ qi' = TRUE /\ qn' = netSource(cm) /\ qu' = resolverSource(cm)
  /\ pc' = [t \in Threads |-> "idle"] /\ plan' = [t \in Threads |-> None]
  /\ alone' = [t \in Threads |-> TRUE]
  /\ UNCHANGED <<objects, cluster, tampered, raced, missed, unseen>>

-----------------------------------------------------------------------------
RenderStep(t) == Begin(t) \/ projectCertsToSecret(t) \/ writeConfigMapIfChanged(t)

Next ==
  \/ EditConfigMap \/ EditCluster
  \/ \E n \in OutNames : Collect(n)
  \/ DeliverConfigMap \/ DeliverWorld \/ DeliverService \/ DeliverNodes \/ DeliverQuietly
  \/ NetVarsReconcile \/ UpstreamsReconcile
  \/ \E t \in Threads : RenderStep(t)
  \/ Restart

\* Informers deliver, work queues hand out what they hold, owners that are
\* gone are found out.
Fairness ==
  /\ WF_vars(DeliverConfigMap) /\ WF_vars(DeliverWorld) /\ WF_vars(DeliverService)
  /\ WF_vars(DeliverNodes) /\ WF_vars(DeliverQuietly)
  /\ WF_vars(NetVarsReconcile) /\ WF_vars(UpstreamsReconcile)
  /\ \A t \in Threads : WF_vars(RenderStep(t))
  /\ \A n \in OutNames : WF_vars(Collect(n))

Safety == Init /\ [][Next]_vars

Spec == Safety /\ Fairness

-----------------------------------------------------------------------------
NetOf(o)      == IF o = Absent THEN Absent ELSE [config |-> o.config, marker |-> o.marker]
RenderedOf(o) == IF o = Absent THEN Absent ELSE [ups |-> o.ups, managed |-> o.managed]
UserOf(o)     == IF o = Absent THEN Absent
                 ELSE [override |-> o.override, netLabel |-> o.netLabel,
                       upsLabel |-> o.upsLabel, outName |-> o.outName, uid |-> o.uid]

Owners == INSTANCE KeyOwners WITH
            net <- NetOf(cm), rendered <- RenderedOf(cm), user <- UserOf(cm)

(***************************************************************************)
(* Three controllers and a user at one object, each of the controllers     *)
(* writing all of it from a cached copy, are as good as one owner per key: *)
(* no write takes back another's, and HOME_NET moves only when the object  *)
(* itself - not an older copy of it - shows no pin.                        *)
(***************************************************************************)
OneOwnerPerKey == Owners!Spec

\* Nothing is under way but requests that fail again and again: YAML that does
\* not parse, an output that is somebody else's.
Quiet ==
  /\ ~lag /\ ~slag /\ \A n \in OutNames : ~olag[n]
  /\ cworld = world /\ csvc = svc /\ cnodes = nodes
  /\ ~qi /\ pc["worker"] = "idle" /\ pc["primer"] = "done"
  /\ qn => cm # Absent /\ cm.config = Bad
  /\ qu => cm # Absent /\ (cm.ups = Bad \/ out[cm.outName] = Stranger)

\* What must not be banned.
Internal == autoHomeNet(nodes, Present(svc))

(***************************************************************************)
(* "Inline IDS blocking never bans an internal IP" (main.go): when all is  *)
(* quiet, HOME_NET of a labelled config is the annotation's, or - marked   *)
(* as derived - all of the present nodes, pods, load balancers and         *)
(* supernets, with EXTERNAL_NET as its complement, or - marked as manual - *)
(* a value that a human wrote, never one that the operator has derived     *)
(* earlier.                                                                *)
(***************************************************************************)
HomeIsInternal ==
  Quiet /\ netSource(cm) /\ cm.config \notin {NoKey, Bad} =>
    \/ cm.override # None /\ cm.config.home = cm.override
    \/ /\ cm.override = None /\ cm.marker = "auto"
       /\ cm.config = [home |-> Internal, external |-> "!$HOME_NET"]
    \/ cm.override = None /\ cm.marker = "manual" /\ cm.config.home \in Pins

\* A step of the operator, not of a user, on a config with variables.
Rewritten ==
  /\ edits' = edits /\ cm # Absent /\ cm' # Absent
  /\ cm.config \notin {NoKey, Bad} /\ cm' # cm

(***************************************************************************)
(* The file comment of netvars_resolver.go says that with a manual         *)
(* HOME_NET, EXTERNAL_NET is derived "unless also overridden": a write     *)
(* that records a pin would keep an EXTERNAL_NET of the user's own.        *)
(***************************************************************************)
ExternalOverrideKept ==
  [][Rewritten /\ cm'.marker = "manual" /\ cm.config.external = "user" =>
       cm'.config.external = "user"]_vars

(***************************************************************************)
(* The same comment says that a concrete HOME_NET already in the config is *)
(* used verbatim: no write of the operator would replace a value that only *)
(* a human writes, also when discovery was on before the human wrote it.   *)
(***************************************************************************)
LaterPinKept ==
  [][Rewritten /\ cm.override = None /\ cm.config.home \in Pins =>
       cm'.config.home = cm.config.home]_vars

\* A resolver source's output holds its upstreams.yaml with the present ClusterIPs.
OutputIsCurrent ==
  resolverSource(cm) /\ cm.ups \notin {NoKey, Bad} /\ "out" \notin missed =>
    LET o == out[resolvedOutputName(cm)]
    IN o # Absent /\ (o.owner = Foreign \/ o = Resolved(cm))

(***************************************************************************)
(* What the proxy mounts is what the cluster says, through both stages:    *)
(* when all is quiet, the ConfigMap holds the present render and a         *)
(* resolver source's output holds its upstreams.yaml with the present      *)
(* ClusterIPs - through conflicts, deletion, garbage collection and        *)
(* restarts - unless the user changed the rendered key, two renders        *)
(* overlapped, a write was left out on a stale copy or the label is one    *)
(* that Service events do not find.                                        *)
(***************************************************************************)
PipelineConverges ==
  Quiet =>
    /\ ~tampered /\ ~raced /\ "cm" \notin missed => cm # Absent /\ cm.ups = world.ups
    /\ ~unseen => OutputIsCurrent

(***************************************************************************)
(* The comment of SetupWithManager says that any change of a Service fans  *)
(* out to every labelled source: the output of whatever isResolverSource   *)
(* accepts would follow the Services, its label "1" or "true".             *)
(***************************************************************************)
EveryLabelledSourceFollows == Quiet => OutputIsCurrent

(***************************************************************************)
(* Certificates come first here as well: a render that puts a new          *)
(* upstreams.yaml in the ConfigMap has its own certificates in the Secret. *)
(***************************************************************************)
CertsFirst ==
  [][\A t \in Threads :
       pc[t] = "cm" /\ pc'[t] # "cm" /\ cm' # cm /\ ~raced /\ "secret" \notin missed =>
         sec = plan[t].certs]_vars

(***************************************************************************)
(* The controllers come to rest: once the user and the cluster stop,       *)
(* nobody's write makes another write for ever.                            *)
(***************************************************************************)
ComesToRest == <>[]Quiet
=============================================================================
