-------------------------- MODULE ApiWritersProofs --------------------------
(***************************************************************************)
(* Proofs about ApiWriters, for any worlds, nodes, Services, configs and   *)
(* outputs and any number of edits and restarts.  Each of the four writers *)
(* gets a lemma that lists what may become of its write; the invariants    *)
(* below are proved from these.                                            *)
(***************************************************************************)
EXTENDS ApiWriters, TLAPS

Parsed(f) == f \notin {NoKey, Bad}

\* A render knows the world it writes.
Listed == \A t \in Threads : Rendering(t) => plan[t] \in Worlds

TypeInv == TypeOK /\ Listed

\* An object that has no write under way is in its informer.
LagInv ==
  /\ ~lag => ccm = cm
  /\ ~slag => csec = sec
  /\ \A n \in OutNames : ~olag[n] => cout[n] = out[n]

BaseInv == TypeInv /\ LagInv

\* What is not marked as derived, a human has written.
HumanHome(o) ==
  o # Absent /\ Parsed(o.config) /\ o.marker # "auto" => o.config.home \in Written

HomeInv == HumanHome(cm) /\ HumanHome(ccm)

\* With no request queued, the netvars resolver has nothing to change.
NetInv ==
  ~qn /\ ~lag /\ netSource(ccm) /\ Parsed(ccm.config) =>
    withNetVars(ccm, cnodes, Present(csvc)) = ccm

\* With no request queued, the output is up to date with the informers.
OutInv ==
  ~qu /\ ~lag /\ resolverSource(ccm) /\ Parsed(ccm.ups) /\ ~unseen /\ "out" \notin missed =>
    LET o == out[resolvedOutputName(ccm)]
    IN o # Absent /\ (o.owner = Foreign \/ o = Resolved(ccm))

\* A render that is alone overlaps with none, and one that is not has raced.
AloneInv ==
  \A t \in Threads : Rendering(t) =>
    /\ alone[t] => \A u \in Threads \ {t} : ~Rendering(u)
    /\ ~alone[t] => raced

\* What a render alone has left in the Secret is still there.
CertInv ==
  \A t \in Threads :
    pc[t] = "cm" /\ alone[t] /\ "secret" \notin missed => sec = plan[t].certs

\* With no rebuild queued, a render alone works from what is cached.
PlanInv ==
  \A t \in Threads : Rendering(t) /\ alone[t] /\ ~qi => plan[t] = cworld

\* With no rebuild queued or at work, the file is what is cached.
FileInv ==
  ~qi /\ ~Rendering("worker") /\ ~raced /\ ~tampered /\ "cm" \notin missed =>
    cm # Absent /\ cm.ups = cworld.ups

RenderInv == AloneInv /\ CertInv /\ PlanInv /\ FileInv
-----------------------------------------------------------------------------
(***************************************************************************)
(* The operators that compute what is written.                             *)
(***************************************************************************)
(* A write happens on a current copy, or creates; none is left out unless  *)
(* the copy shows the wanted object.                                       *)
LEMMA OutcomeFacts ==
  ASSUME NEW live, NEW cached, NEW stale \in BOOLEAN, NEW want,
         ~stale => cached = live
  PROVE  /\ outcome(live, cached, stale, want) \in {"none", "written", "error"}
         /\ outcome(live, cached, stale, want) = "written" => live = cached
         /\ outcome(live, cached, stale, want) = "none" => cached = want
  BY DEF outcome

(* What the netvars resolver makes of a ConfigMap that it can parse. *)
LEMMA NetVarsFacts ==
  ASSUME NEW o \in ConfigMapType, Parsed(o.config), NEW ns \in NodeSets, NEW S \in SUBSET Services
  PROVE  LET w == withNetVars(o, ns, S)
         IN /\ w \in ConfigMapType
            /\ w.ups = o.ups /\ w.managed = o.managed /\ w.override = o.override
            /\ w.netLabel = o.netLabel /\ w.upsLabel = o.upsLabel
            /\ w.outName = o.outName /\ w.uid = o.uid
            /\ w.config.external = "!$HOME_NET"
            /\ w.config.home = IF o.override # None THEN o.override
                               ELSE IF UserPinned(o) THEN o.config.home
                               ELSE autoHomeNet(ns, S)
            /\ w.config = [home |-> w.config.home, external |-> "!$HOME_NET"]
            /\ w.marker = IF o.override # None \/ UserPinned(o) THEN "manual" ELSE "auto"
<1> DEFINE home == IF o.override # None THEN o.override
                   ELSE IF UserPinned(o) THEN o.config.home
                   ELSE autoHomeNet(ns, S)
           mark == IF o.override # None \/ UserPinned(o) THEN "manual" ELSE "auto"
           conf == [home |-> home, external |-> "!$HOME_NET"]
<1>1. withNetVars(o, ns, S) = [o EXCEPT !.config = conf, !.marker = mark]
  BY DEF withNetVars, desiredHomeNet, setIdsAddressVars, currentHomeNet, Parsed
<1>2. home \in Homes
  <2>1. o.config \in [home : Homes, external : {"!$HOME_NET", "user"}]
    BY DEF ConfigMapType, Configs, Parsed
  <2>2. o.override \in Pins \cup {None} /\ autoHomeNet(ns, S) \in Homes
    BY DEF ConfigMapType, Homes
  <2> QED
    BY <2>1, <2>2 DEF Homes, Written
<1>3. conf \in Configs(Homes) /\ mark \in {None, "auto", "manual"}
  BY <1>2 DEF Configs
<1>4. [o EXCEPT !.config = conf, !.marker = mark] \in ConfigMapType
  BY <1>3 DEF ConfigMapType
<1> HIDE DEF home, mark
<1>5. LET w == [o EXCEPT !.config = conf, !.marker = mark]
      IN /\ w.ups = o.ups /\ w.managed = o.managed /\ w.override = o.override
         /\ w.netLabel = o.netLabel /\ w.upsLabel = o.upsLabel
         /\ w.outName = o.outName /\ w.uid = o.uid
         /\ w.config = conf /\ w.marker = mark
  BY DEF ConfigMapType
<1> QED
  BY <1>1, <1>4, <1>5 DEF home, mark

(* What central makes of the ConfigMap, or creates. *)
LEMMA PublishedFacts ==
  ASSUME NEW o \in ConfigMapType \cup {Absent}, NEW f \in Files, edits \in 0..MaxEdits
  PROVE  /\ Published(o, f) \in ConfigMapType
         /\ Published(o, f).ups = f /\ Published(o, f).managed = TRUE
         /\ o = Absent => Published(o, f).config = NoKey /\ Published(o, f).marker = None
         /\ o # Absent =>
              /\ Published(o, f).config = o.config /\ Published(o, f).marker = o.marker
              /\ Published(o, f).override = o.override /\ Published(o, f).netLabel = o.netLabel
              /\ Published(o, f).upsLabel = o.upsLabel /\ Published(o, f).outName = o.outName
              /\ Published(o, f).uid = o.uid
<1>1. CASE o = Absent
  <2>1. Blank \in [config : {NoKey}, marker : {None}, override : {None}, netLabel : BOOLEAN,
                   upsLabel : {"none"}, outName : OutNames,
                   ups : {NoKey}, managed : BOOLEAN, uid : {0}]
    BY OutAssumption DEF Blank
  <2>2. Published(o, f) = [[Blank EXCEPT !.uid = edits] EXCEPT !.ups = f, !.managed = TRUE]
    BY <1>1 DEF Published
  <2>3. /\ Published(o, f) \in [config : {NoKey}, marker : {None}, override : {None},
                                netLabel : BOOLEAN, upsLabel : {"none"}, outName : OutNames,
                                ups : {f}, managed : BOOLEAN, uid : 0..MaxEdits]
        /\ Published(o, f).managed = TRUE
    BY <2>1, <2>2
  <2> QED
    BY <1>1, <2>3 DEF ConfigMapType, Configs
<1>2. CASE o # Absent
  <2>1. o \in ConfigMapType /\ Published(o, f) = [o EXCEPT !.ups = f, !.managed = TRUE]
    BY <1>2 DEF Published
  <2> QED
    BY <1>2, <2>1 DEF ConfigMapType
<1> QED
  BY <1>1, <1>2

(* What the upstreams resolver makes of a source that it can parse. *)
LEMMA ResolvedTyped ==
  ASSUME NEW o \in ConfigMapType, Parsed(o.ups), csvc \in [ServiceNames -> Services \cup {Absent}]
  PROVE  Resolved(o) \in Outputs
<1>1. o.ups \in Files \ {NoKey, Bad} /\ o.uid \in 0..MaxEdits
  BY DEF ConfigMapType, Parsed
<1>2. resolveYAML(o.ups, csvc) \in {resolveYAML(g, s) : g \in Files \ {NoKey, Bad},
                                      s \in [ServiceNames -> Services \cup {Absent}]}
  BY <1>1
<1> QED
  BY <1>1, <1>2 DEF Resolved, Outputs

(* What the resolvers list is what there is. *)
LEMMA PresentTyped ==
  ASSUME NEW s \in [ServiceNames -> Services \cup {Absent}]
  PROVE  Present(s) \in SUBSET Services
<1>1. \A n \in ServiceNames : s[n] \in Services \/ s[n] = Absent
  OBVIOUS
<1> QED
  BY <1>1 DEF Present
-----------------------------------------------------------------------------
(***************************************************************************)
(* The four writers, by what becomes of their write.                       *)
(***************************************************************************)
(* A pass of the netvars resolver writes nothing, and is over only when    *)
(* there is nothing to write, or it writes on a current copy.              *)
LEMMA NetVarsCases ==
  ASSUME TypeInv, LagInv, NetVarsReconcile
  PROVE  /\ UNCHANGED <<sec, out, cluster, caches, slag, olag, qi, qu, threads, edits, history>>
         /\ qn /\ qn' \in BOOLEAN
         /\ \/ /\ UNCHANGED <<cm, lag>>
               /\ ~qn' => \/ ~(netSource(ccm) /\ Parsed(ccm.config))
                          \/ withNetVars(ccm, cnodes, Present(csvc)) = ccm
            \/ /\ lag' = TRUE /\ cm = ccm
               /\ netSource(ccm) /\ Parsed(ccm.config) /\ ccm \in ConfigMapType
               /\ cm' = withNetVars(ccm, cnodes, Present(csvc))
<1> DEFINE want == withNetVars(ccm, cnodes, Present(csvc))
           res  == outcome(cm, ccm, lag, want)
<1>1. /\ UNCHANGED <<sec, out, cluster, caches, slag, olag, qi, qu, threads, edits, history>>
      /\ qn /\ lag \in BOOLEAN /\ qn \in BOOLEAN /\ ccm \in ConfigMapType \cup {Absent}
  BY DEF NetVarsReconcile, TypeInv, TypeOK
<1>2. CASE /\ ~(netSource(ccm) /\ ccm.config # NoKey)
           /\ qn' = FALSE
           /\ UNCHANGED <<cm, lag>>
  BY <1>1, <1>2 DEF Parsed
<1>3. CASE /\ netSource(ccm) /\ ccm.config = Bad
           /\ UNCHANGED <<cm, lag, qn>>
  BY <1>1, <1>3
<1>4. CASE /\ netSource(ccm) /\ ccm.config \notin {NoKey, Bad}
           /\ qn' = (res = "error")
           /\ cm' = IF res = "written" THEN want ELSE cm
           /\ lag' = (lag \/ res = "written")
  <2>1. /\ res \in {"none", "written", "error"}
        /\ res = "written" => cm = ccm
        /\ res = "none" => ccm = want
    <3> HIDE DEF want
    <3> QED
      BY <1>1, OutcomeFacts DEF LagInv
  <2> HIDE DEF res, want
  <2>2. qn' \in BOOLEAN /\ (~qn' <=> res # "error")
    BY <1>4
  <2>3. res # "written" => cm' = cm /\ lag' = lag
    BY <1>1, <1>4
  <2>4. res = "written" => lag' = TRUE /\ cm' = want
    BY <1>4
  <2>5. ccm \in ConfigMapType
    BY <1>1, <1>4 DEF netSource
  <2> QED
    BY <1>1, <1>4, <2>1, <2>2, <2>3, <2>4, <2>5 DEF want, Parsed
<1> QED
  BY <1>2, <1>3, <1>4 DEF NetVarsReconcile

(* A pass of the upstreams resolver fails or has nothing to resolve, or    *)
(* finds its output as it wants it, or writes it, and never over another's.*)
LEMMA UpstreamsCases ==
  ASSUME TypeInv, LagInv, UpstreamsReconcile
  PROVE  /\ UNCHANGED <<cm, sec, cluster, caches, lag, slag, qi, qn, threads, edits,
                        tampered, raced, alone>>
         /\ qu' \in BOOLEAN
         /\ \/ /\ UNCHANGED <<out, olag, missed, unseen>>
               /\ ~qu' => ~(resolverSource(ccm) /\ Parsed(ccm.ups))
            \/ /\ UNCHANGED <<out, olag>> /\ unseen' = FALSE
               /\ "out" \notin missed' => out[resolvedOutputName(ccm)] = Resolved(ccm)
               /\ missed' \ {"out"} = missed \ {"out"}
               /\ resolverSource(ccm) /\ Parsed(ccm.ups)
            \/ /\ resolverSource(ccm) /\ Parsed(ccm.ups)
               /\ out[resolvedOutputName(ccm)] = cout[resolvedOutputName(ccm)]
               /\ ~(out[resolvedOutputName(ccm)] # Absent
                     /\ out[resolvedOutputName(ccm)].owner = Foreign)
               /\ out' = [out EXCEPT ![resolvedOutputName(ccm)] = Resolved(ccm)]
               /\ olag' = [olag EXCEPT ![resolvedOutputName(ccm)] = TRUE]
               /\ unseen' = FALSE /\ missed' = missed \ {"out"}
<1> DEFINE n       == resolvedOutputName(ccm)
           refused == cout[n] # Absent /\ cout[n].owner = Foreign
           wr      == outcome(out[n], cout[n], olag[n], Resolved(ccm))
           res     == IF refused THEN "error" ELSE wr
<1>1. /\ UNCHANGED <<cm, sec, cluster, caches, lag, slag, qi, qn, threads, edits,
                     tampered, raced, alone>>
      /\ qu /\ ccm \in ConfigMapType \cup {Absent}
  BY DEF UpstreamsReconcile, TypeInv, TypeOK
<1>0. olag \in [OutNames -> BOOLEAN] /\ qu \in BOOLEAN /\ unseen \in BOOLEAN
  BY DEF TypeInv, TypeOK
<1>2. CASE /\ ~(resolverSource(ccm) /\ ccm.ups # NoKey)
           /\ qu' = FALSE
           /\ UNCHANGED <<out, olag, missed, unseen>>
  BY <1>1, <1>2 DEF Parsed
<1>3. CASE /\ resolverSource(ccm) /\ ccm.ups = Bad
           /\ UNCHANGED <<out, olag, qu, missed, unseen>>
  BY <1>0, <1>1, <1>3
<1>4. CASE /\ resolverSource(ccm) /\ ccm.ups \notin {NoKey, Bad}
           /\ qu' = (res = "error")
           /\ out' = IF res = "written" THEN [out EXCEPT ![n] = Resolved(ccm)] ELSE out
           /\ olag' = [olag EXCEPT ![n] = @ \/ res = "written"]
           /\ Note("out", res, out[n] # Resolved(ccm))
           /\ unseen' = (unseen /\ res = "error")
  <2>1. n \in OutNames
    BY <1>1, <1>4 DEF resolverSource, resolvedOutputName, ConfigMapType
  <2>2. olag[n] \in BOOLEAN /\ (~olag[n] => cout[n] = out[n])
    BY <1>0, <2>1 DEF LagInv
  <2>3. /\ wr \in {"none", "written", "error"}
        /\ wr = "written" => out[n] = cout[n]
    BY <2>2, OutcomeFacts
  <2>4. /\ res \in {"none", "written", "error"}
        /\ res = "written" => out[n] = cout[n] /\ ~refused
    BY <2>3
  <2> HIDE DEF res, wr
  <2>5. CASE res = "error"
    <3>1. qu' = TRUE /\ out' = out
      BY <1>4, <2>5
    <3>2. olag' = olag
      BY <1>0, <1>4, <2>1, <2>5
    <3>3. missed' = missed
      BY <1>4, <2>5 DEF Note
    <3>4. unseen' = unseen
      BY <1>0, <1>4, <2>5
    <3> QED
      BY <1>1, <3>1, <3>2, <3>3, <3>4
  <2>6. CASE res = "none"
    <3>1. qu' = FALSE /\ out' = out /\ unseen' = FALSE
      BY <1>4, <2>6
    <3>2. olag' = olag
      BY <1>0, <1>4, <2>1, <2>6
    <3>3. missed' = IF out[n] # Resolved(ccm) THEN missed \cup {"out"} ELSE missed \ {"out"}
      BY <1>4, <2>6 DEF Note
    <3> QED
      BY <1>1, <1>4, <3>1, <3>2, <3>3 DEF Parsed
  <2>7. CASE res = "written"
    <3>1. qu' = FALSE /\ out' = [out EXCEPT ![n] = Resolved(ccm)] /\ unseen' = FALSE
      BY <1>4, <2>7
    <3>2. olag' = [olag EXCEPT ![n] = TRUE]
      BY <1>4, <2>7
    <3>3. missed' = missed \ {"out"}
      BY <1>4, <2>7 DEF Note
    <3> QED
      BY <1>1, <1>4, <2>4, <2>7, <3>1, <3>2, <3>3 DEF Parsed
  <2> QED
    BY <2>4, <2>5, <2>6, <2>7
<1> QED
  BY <1>2, <1>3, <1>4 DEF UpstreamsReconcile

(* The end of a render, for its own thread and the other. *)
LEMMA EndFacts ==
  ASSUME TypeInv, NEW t \in Threads, NEW failed \in BOOLEAN, End(t, failed)
  PROVE  /\ pc' \in [Threads -> {"idle", "certs", "cm", "done"}]
         /\ plan' \in [Threads -> Worlds \cup {None}]
         /\ alone' \in [Threads -> BOOLEAN] /\ qi' \in BOOLEAN
         /\ ~Rendering(t)' /\ alone'[t] = TRUE
         /\ pc'[t] = IF t = "worker" THEN "idle" ELSE "done"
         /\ \A u \in Threads \ {t} : pc'[u] = pc[u] /\ plan'[u] = plan[u] /\ alone'[u] = alone[u]
         /\ ~qi' <=> ~qi /\ ~(failed /\ t = "worker")
<1>1. /\ pc \in [Threads -> {"idle", "certs", "cm", "done"}]
      /\ plan \in [Threads -> Worlds \cup {None}]
  BY DEF TypeInv, TypeOK
<1>2. alone \in [Threads -> BOOLEAN] /\ qi \in BOOLEAN
  BY DEF TypeInv, TypeOK
<1>3. alone' \in [Threads -> BOOLEAN] /\ qi' \in BOOLEAN /\ alone'[t] = TRUE
  BY <1>2 DEF End
<1>4. \A u \in Threads \ {t} : alone'[u] = alone[u]
  BY <1>2 DEF End
<1>5. ~qi' <=> ~qi /\ ~(failed /\ t = "worker")
  BY <1>2 DEF End
<1>6. /\ pc' \in [Threads -> {"idle", "certs", "cm", "done"}]
      /\ plan' \in [Threads -> Worlds \cup {None}]
      /\ pc'[t] = IF t = "worker" THEN "idle" ELSE "done"
      /\ \A u \in Threads \ {t} : pc'[u] = pc[u] /\ plan'[u] = plan[u]
  BY <1>1 DEF End
<1>7. ~Rendering(t)'
  BY <1>6 DEF Rendering
<1> QED
  BY <1>3, <1>4, <1>5, <1>6, <1>7

(* Projecting the certificates ends the render, or leaves them in the      *)
(* Secret unless a stale copy showed them there.                           *)
LEMMA CertsCases ==
  ASSUME TypeInv, LagInv, NEW t \in Threads, projectCertsToSecret(t)
  PROVE  /\ UNCHANGED <<cm, out, cluster, caches, lag, olag, qn, qu, edits,
                        tampered, raced, unseen>>
         /\ pc[t] = "certs" /\ plan[t] \in Worlds
         /\ \/ UNCHANGED <<sec, slag, missed>> /\ End(t, TRUE)
            \/ /\ pc' = [pc EXCEPT ![t] = "cm"] /\ UNCHANGED <<plan, alone, qi>>
               /\ \/ sec' = sec /\ slag' = slag
                  \/ sec' = plan[t].certs /\ slag' = TRUE
               /\ missed' \ {"secret"} = missed \ {"secret"}
               /\ "secret" \notin missed' => sec' = plan[t].certs
<1> DEFINE want == plan[t].certs
           res  == outcome(sec, csec, slag, want)
<1>1. /\ UNCHANGED <<cm, out, cluster, caches, lag, olag, qn, qu, edits,
                     tampered, raced, unseen>>
      /\ pc[t] = "certs"
  BY DEF projectCertsToSecret
<1>2. plan[t] \in Worlds
  BY <1>1 DEF TypeInv, Listed, Rendering
<1>3. slag \in BOOLEAN
  BY DEF TypeInv, TypeOK
<1>4. /\ sec' = IF res = "written" THEN want ELSE sec
      /\ slag' = (slag \/ res = "written")
      /\ Note("secret", res, sec # want)
      /\ IF res = "error" THEN End(t, TRUE)
         ELSE pc' = [pc EXCEPT ![t] = "cm"] /\ UNCHANGED <<plan, alone, qi>>
  BY DEF projectCertsToSecret
<1>5. res \in {"none", "written", "error"}
  <2> HIDE DEF want
  <2> QED
    BY <1>3, OutcomeFacts DEF LagInv
<1> HIDE DEF res
<1>6. CASE res = "error"
  <2>1. missed' = missed /\ sec' = sec /\ End(t, TRUE)
    BY <1>4, <1>6 DEF Note
  <2>2. slag' = slag
    BY <1>3, <1>4, <1>6
  <2> QED
    BY <1>1, <1>2, <2>1, <2>2
<1>7. CASE res = "none"
  <2>1. /\ missed' = IF sec # want THEN missed \cup {"secret"} ELSE missed \ {"secret"}
        /\ sec' = sec /\ pc' = [pc EXCEPT ![t] = "cm"] /\ UNCHANGED <<plan, alone, qi>>
    BY <1>4, <1>7 DEF Note
  <2>2. slag' = slag
    BY <1>3, <1>4, <1>7
  <2> QED
    BY <1>1, <1>2, <2>1, <2>2
<1>8. CASE res = "written"
  <2>1. /\ missed' = missed \ {"secret"} /\ sec' = want
        /\ pc' = [pc EXCEPT ![t] = "cm"] /\ UNCHANGED <<plan, alone, qi>>
    BY <1>4, <1>8 DEF Note
  <2>2. slag' = TRUE
    BY <1>4, <1>8
  <2> QED
    BY <1>1, <1>2, <2>1, <2>2
<1> QED
  BY <1>5, <1>6, <1>7, <1>8

(* Publishing ends the render; it fails, or leaves the file in the         *)
(* ConfigMap unless a stale copy showed it there.                          *)
LEMMA PublishCases ==
  ASSUME TypeInv, LagInv, NEW t \in Threads, writeConfigMapIfChanged(t)
  PROVE  /\ UNCHANGED <<sec, out, cluster, caches, slag, olag, qn, qu, edits, unseen>>
         /\ pc[t] = "cm" /\ plan[t] \in Worlds
         /\ tampered' \in BOOLEAN /\ raced' \in BOOLEAN
         /\ \/ UNCHANGED <<cm, lag, missed, tampered, raced>> /\ End(t, TRUE)
            \/ /\ End(t, FALSE)
               /\ ~raced' <=> ~raced \/ alone[t]
               /\ missed' \ {"cm"} = missed \ {"cm"}
               /\ "cm" \notin missed' => cm' # Absent /\ cm'.ups = plan[t].ups
               /\ \/ UNCHANGED <<cm, lag>>
                  \/ lag' = TRUE /\ cm = ccm /\ cm' = Published(ccm, plan[t].ups)
<1> DEFINE want == Published(ccm, plan[t].ups)
           res  == outcome(cm, ccm, lag, want)
<1>1. /\ UNCHANGED <<sec, out, cluster, caches, slag, olag, qn, qu, edits, unseen>>
      /\ pc[t] = "cm"
  BY DEF writeConfigMapIfChanged
<1>2. plan[t] \in Worlds
  BY <1>1 DEF TypeInv, Listed, Rendering
<1>3. lag \in BOOLEAN /\ tampered \in BOOLEAN /\ raced \in BOOLEAN /\ alone[t] \in BOOLEAN
  BY DEF TypeInv, TypeOK
<1>4. /\ cm' = IF res = "written" THEN want ELSE cm
      /\ lag' = (lag \/ res = "written")
      /\ Note("cm", res, cm = Absent \/ cm.ups # want.ups)
      /\ tampered' = (tampered /\ res = "error")
      /\ raced' = (raced /\ (res = "error" \/ ~alone[t]))
      /\ End(t, res = "error")
  BY DEF writeConfigMapIfChanged
<1>5. /\ res \in {"none", "written", "error"}
      /\ res = "written" => cm = ccm
  <2> HIDE DEF want
  <2> QED
    BY <1>3, OutcomeFacts DEF LagInv
<1>6. want \in ConfigMapType /\ want.ups = plan[t].ups
  <2>1. plan[t].ups \in Files
    BY <1>2 DEF Files
  <2>2. ccm \in ConfigMapType \cup {Absent} /\ edits \in 0..MaxEdits
    BY DEF TypeInv, TypeOK
  <2> QED
    BY <2>1, <2>2, PublishedFacts
<1>7. want # Absent
  BY <1>6, AbsentAssumption
<1> HIDE DEF res
<1>8. tampered' \in BOOLEAN /\ raced' \in BOOLEAN
  BY <1>3, <1>4
<1>9. CASE res = "error"
  <2>1. missed' = missed /\ cm' = cm
    BY <1>4, <1>9 DEF Note
  <2>2. lag' = lag /\ tampered' = tampered /\ raced' = raced
    BY <1>3, <1>4, <1>9
  <2>3. End(t, TRUE)
    <3>1. (res = "error") = TRUE
      BY <1>9
    <3> QED
      BY <1>4, <3>1
  <2> QED
    BY <1>1, <1>2, <1>8, <2>1, <2>2, <2>3
<1>10. CASE res # "error"
  <2>1. ~raced' <=> ~raced \/ alone[t]
    BY <1>3, <1>4, <1>10
  <2>2. End(t, FALSE)
    <3>1. (res = "error") = FALSE
      BY <1>10
    <3> QED
      BY <1>4, <3>1
  <2>3. /\ missed' \ {"cm"} = missed \ {"cm"}
        /\ "cm" \notin missed' => cm' # Absent /\ cm'.ups = plan[t].ups
    <3>1. CASE res = "none"
      <4>1. /\ cm' = cm
            /\ missed' = IF cm = Absent \/ cm.ups # want.ups THEN missed \cup {"cm"}
                         ELSE missed \ {"cm"}
        BY <1>4, <3>1 DEF Note
      <4> QED
        BY <1>6, <4>1
    <3>2. CASE res = "written"
      <4>1. cm' = want /\ missed' = missed \ {"cm"}
        BY <1>4, <3>2 DEF Note
      <4> QED
        BY <1>6, <1>7, <4>1
    <3> QED
      BY <1>5, <1>10, <3>1, <3>2
  <2>4. \/ UNCHANGED <<cm, lag>>
        \/ lag' = TRUE /\ cm = ccm /\ cm' = want
    <3>1. CASE res = "none"
      BY <1>3, <1>4, <3>1
    <3>2. CASE res = "written"
      <4>1. cm' = want /\ cm = ccm
        BY <1>4, <1>5, <3>2
      <4>2. lag' = TRUE
        BY <1>4, <3>2
      <4> QED
        BY <4>1, <4>2
    <3> QED
      BY <1>5, <1>10, <3>1, <3>2
  <2> QED
    BY <1>1, <1>2, <1>8, <2>1, <2>2, <2>3, <2>4
<1> QED
  BY <1>9, <1>10

(* A render begins with what is cached, and alone or raced. *)
LEMMA BeginFacts ==
  ASSUME TypeInv, NEW t \in Threads, Begin(t)
  PROVE  /\ UNCHANGED <<objects, cluster, caches, lags, qn, qu, edits, tampered, missed, unseen>>
         /\ pc[t] = "idle" /\ pc' = [pc EXCEPT ![t] = "certs"]
         /\ plan' = [plan EXCEPT ![t] = cworld]
         /\ qi' \in BOOLEAN /\ raced' \in BOOLEAN /\ alone' \in [Threads -> BOOLEAN]
         /\ ~qi' <=> ~qi \/ t = "worker"
         /\ alone'[t] <=> \A u \in Threads \ {t} : ~Rendering(u)
         /\ \A u \in Threads \ {t} : alone'[u] <=> alone[u] /\ ~Rendering(u)
         /\ raced' <=> raced \/ \E u \in Threads \ {t} : Rendering(u)
<1>1. /\ UNCHANGED <<objects, cluster, caches, lags, qn, qu, edits, tampered, missed, unseen>>
      /\ pc[t] = "idle" /\ pc' = [pc EXCEPT ![t] = "certs"]
      /\ plan' = [plan EXCEPT ![t] = cworld]
  BY DEF Begin
<1>2. qi \in BOOLEAN /\ raced \in BOOLEAN /\ alone \in [Threads -> BOOLEAN]
  BY DEF TypeInv, TypeOK
<1> DEFINE others == {u \in Threads \ {t} : Rendering(u)}
<1>3. /\ alone' = [u \in Threads |-> IF u = t THEN others = {} ELSE alone[u] /\ u \notin others]
      /\ raced' = (raced \/ others # {})
      /\ qi' = (qi /\ t # "worker")
  BY DEF Begin
<1>4. qi' \in BOOLEAN /\ (~qi' <=> ~qi \/ t = "worker")
  BY <1>2, <1>3
<1>5. raced' \in BOOLEAN /\ (raced' <=> raced \/ \E u \in Threads \ {t} : Rendering(u))
  BY <1>2, <1>3
<1>6. /\ alone' \in [Threads -> BOOLEAN]
      /\ alone'[t] <=> \A u \in Threads \ {t} : ~Rendering(u)
      /\ \A u \in Threads \ {t} : alone'[u] <=> alone[u] /\ ~Rendering(u)
  BY <1>2, <1>3
<1> QED
  BY <1>1, <1>4, <1>5, <1>6

(* An edit of the user makes a ConfigMap or removes it. *)
LEMMA EditFacts ==
  ASSUME TypeInv, EditConfigMap
  PROVE  /\ UNCHANGED <<sec, out, cluster, caches, slag, olag, queues, threads,
                        raced, alone, missed, unseen>>
         /\ edits' = edits + 1 /\ edits' \in 0..MaxEdits
         /\ lag' = TRUE /\ tampered' \in BOOLEAN
         /\ cm' \in ConfigMapType \cup {Absent}
         /\ ~tampered' => ~tampered /\ cm # Absent /\ cm' # Absent /\ cm'.ups = cm.ups
         /\ HumanHome(cm) => HumanHome(cm')
<1>1. /\ UNCHANGED <<sec, out, cluster, caches, slag, olag, queues, threads,
                     raced, alone, missed, unseen>>
      /\ edits' = edits + 1 /\ edits < MaxEdits /\ lag' = TRUE
      /\ tampered' = (tampered \/ cm = Absent \/ cm' = Absent \/ cm'.ups # cm.ups)
  BY DEF EditConfigMap, Edited
<1>2. edits \in 0..MaxEdits /\ tampered \in BOOLEAN /\ cm \in ConfigMapType \cup {Absent}
  BY DEF TypeInv, TypeOK
<1>3. edits' \in 0..MaxEdits
  BY <1>1, <1>2, BoundAssumption
<1>4. tampered' \in BOOLEAN
  BY <1>1, <1>2
<1>5. ~tampered' => ~tampered /\ cm # Absent /\ cm' # Absent /\ cm'.ups = cm.ups
  BY <1>1, <1>2
<1>6. /\ cm' \in ConfigMapType \cup {Absent}
      /\ HumanHome(cm) => HumanHome(cm')
  <2>0. \A c \in Configs(Written) : c \in Configs(Homes) /\ (Parsed(c) => c.home \in Written)
    <3>1. Written \subseteq Homes
      BY DEF Homes
    <3> QED
      BY <3>1 DEF Configs, Parsed
  <2>1. CASE cm' = Absent
    BY <2>1 DEF HumanHome
  <2>2. CASE cm # Absent /\ cm' \in UserEdits(cm)
    <3>0. cm \in ConfigMapType
      BY <1>2, <2>2
    <3>1. ASSUME NEW c \in UserConfigs, cm' = [cm EXCEPT !.config = c] PROVE <1>6!1 /\ <1>6!2
      <4>1. c \in Configs(Homes) /\ (Parsed(c) => c.home \in Written)
        BY <2>0, UserAssumption
      <4>2. cm' \in ConfigMapType /\ cm'.config = c
        BY <3>0, <3>1, <4>1 DEF ConfigMapType
      <4> QED
        BY <4>1, <4>2 DEF HumanHome
    <3>2. ASSUME \/ \E p \in Pins \cup {None} : cm' = [cm EXCEPT !.override = p]
                 \/ \E l \in BOOLEAN : cm' = [cm EXCEPT !.netLabel = l]
                 \/ \E l \in {"none", "true", "1"} : cm' = [cm EXCEPT !.upsLabel = l]
                 \/ \E n \in OutNames : cm' = [cm EXCEPT !.outName = n]
                 \/ \E f \in UserUps : cm' = [cm EXCEPT !.ups = f]
          PROVE <1>6!1 /\ <1>6!2
      <4>1. cm' \in ConfigMapType
        BY <3>0, <3>2 DEF ConfigMapType, Files
      <4>2. cm'.config = cm.config /\ cm'.marker = cm.marker
        BY <3>0, <3>2 DEF ConfigMapType
      <4> QED
        BY <2>2, <4>1, <4>2 DEF HumanHome
    <3> QED
      BY <2>2, <3>1, <3>2 DEF UserEdits
  <2>3. ASSUME NEW o \in ConfigMaps, cm' = [o EXCEPT !.uid = edits'] PROVE <1>6!1 /\ <1>6!2
    <3>1. o \in ConfigMapType /\ o.config \in Configs(Written)
      BY UserAssumption
    <3>2. cm' \in ConfigMapType
      BY <1>3, <2>3, <3>1 DEF ConfigMapType
    <3>3. cm'.config = o.config
      BY <2>3, <3>1 DEF ConfigMapType
    <3> QED
      BY <2>0, <3>1, <3>2, <3>3 DEF HumanHome
  <2> QED
    BY <2>1, <2>2, <2>3 DEF EditConfigMap
<1> QED
  BY <1>1, <1>3, <1>4, <1>5, <1>6

(* What the API server and the informers have of the cluster stays typed. *)
LEMMA ClusterEditFacts ==
  ASSUME TypeInv, EditCluster
  PROVE  /\ UNCHANGED <<objects, caches, lags, queues, threads, history>>
         /\ edits' = edits + 1 /\ edits' \in 0..MaxEdits
         /\ world' \in Worlds /\ nodes' \in NodeSets
         /\ svc' \in [ServiceNames -> Services \cup {Absent}]
<1>1. /\ world \in Worlds /\ nodes \in NodeSets /\ edits \in 0..MaxEdits
      /\ svc \in [ServiceNames -> Services \cup {Absent}]
  BY DEF TypeInv, TypeOK
<1>2. edits' = edits + 1 /\ edits' \in 0..MaxEdits
  BY <1>1, BoundAssumption DEF EditCluster, Edited
<1> QED
  BY <1>1, <1>2 DEF EditCluster

(* Steps that leave the renders alone keep what they have listed. *)
LEMMA ListedSame == Listed /\ UNCHANGED threads => Listed'
  BY DEF Listed, threads, Rendering

(* The types hold of the start, and the copies of the objects are current. *)
LEMMA BaseInit == Init => TypeInv /\ LagInv
<1> SUFFICES ASSUME Init PROVE TypeInv /\ LagInv
  OBVIOUS
<1>1. cm \in ConfigMapType \cup {Absent}
  BY UserAssumption DEF Init
<1>2. out \in [OutNames -> Outputs \cup {Stranger, Absent}]
  BY DEF Init
<1>3. svc \in [ServiceNames -> Services \cup {Absent}]
  BY InitialAssumption DEF Init
<1>4. /\ qn \in BOOLEAN /\ qu \in BOOLEAN /\ qi \in BOOLEAN
      /\ lag \in BOOLEAN /\ slag \in BOOLEAN /\ olag \in [OutNames -> BOOLEAN]
      /\ tampered \in BOOLEAN /\ raced \in BOOLEAN /\ alone \in [Threads -> BOOLEAN]
      /\ unseen \in BOOLEAN
  <2>1. \A o \in ConfigMapType \cup {Absent} : netSource(o) \in BOOLEAN /\ resolverSource(o) \in BOOLEAN
    BY DEF netSource, resolverSource, isNetVarsSource, isResolverSource, ConfigMapType
  <2> QED
    BY <1>1, <2>1 DEF Init
<1>5. /\ pc \in [Threads -> {"idle", "certs", "cm", "done"}]
      /\ plan \in [Threads -> Worlds \cup {None}] /\ \A t \in Threads : pc[t] = "idle"
  BY DEF Init
<1>6. TypeOK
  BY <1>1, <1>2, <1>3, <1>4, <1>5, InitialAssumption, BoundAssumption DEF Init, TypeOK
<1>7. Listed
  BY <1>5 DEF Listed, Rendering
<1>8. LagInv
  BY DEF Init, LagInv
<1> QED
  BY <1>6, <1>7, <1>8 DEF TypeInv

(* Every step keeps the types, and a copy that is not marked stale current. *)
LEMMA BaseStep == TypeInv /\ LagInv /\ [Next]_vars => TypeInv' /\ LagInv'
<1> SUFFICES ASSUME TypeInv, LagInv, [Next]_vars PROVE TypeInv' /\ LagInv'
  OBVIOUS
<1> USE DEF TypeInv
<1>0. \A o \in ConfigMapType \cup {Absent} :
        /\ netSource(o) \in BOOLEAN /\ resolverSource(o) \in BOOLEAN
        /\ listedForServices(o) \in BOOLEAN
  BY DEF netSource, resolverSource, isNetVarsSource, isResolverSource, listedForServices,
         ConfigMapType
<1>1. CASE EditConfigMap
  <2>1. TypeOK'
    BY <1>1, EditFacts DEF TypeOK, cluster, caches, queues, threads
  <2>2. LagInv' /\ Listed'
    BY <1>1, EditFacts, ListedSame DEF LagInv, caches
  <2> QED
    BY <2>1, <2>2
<1>2. CASE EditCluster
  <2>1. TypeOK'
    BY <1>2, ClusterEditFacts DEF TypeOK, objects, caches, lags, queues, threads, history
  <2>2. LagInv' /\ Listed'
    BY <1>2, ClusterEditFacts, ListedSame DEF LagInv, caches, objects, lags
  <2> QED
    BY <2>1, <2>2
<1>3. ASSUME NEW n \in OutNames, Collect(n) PROVE TypeInv' /\ LagInv'
  <2>1. out' \in [OutNames -> Outputs \cup {Stranger, Absent}]
    BY <1>3 DEF Collect, TypeOK
  <2>2. olag' \in [OutNames -> BOOLEAN]
    BY <1>3 DEF Collect, TypeOK
  <2>3. TypeOK'
    BY <1>3, <2>1, <2>2 DEF Collect, TypeOK, cluster, caches, queues, threads, history
  <2>4. Listed'
    BY <1>3, ListedSame DEF Collect
  <2>5. LagInv'
    BY <1>3 DEF Collect, LagInv, TypeOK, caches
  <2> QED
    BY <2>3, <2>4, <2>5
<1>4. CASE DeliverConfigMap
  <2>1. qn' \in BOOLEAN /\ qu' \in BOOLEAN
    BY <1>0, <1>4 DEF DeliverConfigMap, TypeOK
  <2>2. TypeOK'
    BY <1>4, <2>1 DEF DeliverConfigMap, TypeOK, objects, cluster, threads, history
  <2>3. LagInv' /\ Listed'
    BY <1>4, ListedSame DEF DeliverConfigMap, LagInv, objects
  <2> QED
    BY <2>2, <2>3
<1>5. CASE DeliverWorld
  <2>1. TypeOK'
    BY <1>5 DEF DeliverWorld, TypeOK, objects, cluster, lags, threads, history
  <2>2. LagInv' /\ Listed'
    BY <1>5, ListedSame DEF DeliverWorld, LagInv, objects, lags
  <2> QED
    BY <2>1, <2>2
<1>6. CASE DeliverService
  <2>1. qn' \in BOOLEAN /\ qu' \in BOOLEAN /\ unseen' \in BOOLEAN
    BY <1>0, <1>6 DEF DeliverService, TypeOK
  <2>2. TypeOK'
    BY <1>6, <2>1 DEF DeliverService, TypeOK, objects, cluster, lags, threads
  <2>3. LagInv' /\ Listed'
    BY <1>6, ListedSame DEF DeliverService, LagInv, objects, lags
  <2> QED
    BY <2>2, <2>3
<1>7. CASE DeliverNodes
  <2>1. qn' \in BOOLEAN
    BY <1>0, <1>7 DEF DeliverNodes, TypeOK
  <2>2. TypeOK'
    BY <1>7, <2>1 DEF DeliverNodes, TypeOK, objects, cluster, lags, threads, history
  <2>3. LagInv' /\ Listed'
    BY <1>7, ListedSame DEF DeliverNodes, LagInv, objects, lags
  <2> QED
    BY <2>2, <2>3
<1>8. CASE DeliverQuietly
  <2>0. Listed'
    BY <1>8, ListedSame DEF DeliverQuietly
  <2>1. CASE DeliverQuietly!1
    <3>1. TypeOK'
      BY <2>1 DEF TypeOK, objects, cluster, queues, threads, history
    <3>2. LagInv'
      BY <2>1 DEF LagInv, objects
    <3> QED
      BY <2>0, <3>1, <3>2
  <2>2. ASSUME NEW n \in OutNames, DeliverQuietly!2!(n) PROVE TypeInv' /\ LagInv'
    <3>1. cout' \in [OutNames -> Outputs \cup {Stranger, Absent}]
      BY <2>2 DEF TypeOK, objects
    <3>2. olag' \in [OutNames -> BOOLEAN]
      BY <2>2 DEF TypeOK
    <3>3. TypeOK'
      BY <2>2, <3>1, <3>2 DEF TypeOK, objects, cluster, queues, threads, history
    <3>4. LagInv'
      BY <2>2 DEF LagInv, TypeOK, objects
    <3> QED
      BY <2>0, <3>3, <3>4
  <2> QED
    BY <1>8, <2>1, <2>2 DEF DeliverQuietly
<1>9. CASE NetVarsReconcile
  <2>1. cm' \in ConfigMapType \cup {Absent} /\ lag' \in BOOLEAN
    <3>1. cnodes \in NodeSets /\ Present(csvc) \in SUBSET Services
      BY PresentTyped DEF TypeOK
    <3>2. CASE UNCHANGED <<cm, lag>>
      BY <3>2 DEF TypeOK
    <3>3. CASE /\ lag' = TRUE /\ Parsed(ccm.config) /\ ccm \in ConfigMapType
               /\ cm' = withNetVars(ccm, cnodes, Present(csvc))
      BY <3>1, <3>3, NetVarsFacts
    <3> QED
      BY <1>9, <3>2, <3>3, NetVarsCases
  <2>2. TypeOK'
    BY <1>9, <2>1, NetVarsCases DEF TypeOK, cluster, caches, threads, history
  <2>3. LagInv'
    BY <1>9, NetVarsCases DEF LagInv, caches
  <2>4. Listed'
    BY <1>9, NetVarsCases, ListedSame
  <2> QED
    BY <2>2, <2>3, <2>4
<1>10. CASE UpstreamsReconcile
  <2>0. missed' \subseteq {"cm", "secret", "out"} /\ unseen' \in BOOLEAN
    BY <1>10, UpstreamsCases DEF TypeOK
  <2>1. /\ out' \in [OutNames -> Outputs \cup {Stranger, Absent}]
        /\ olag' \in [OutNames -> BOOLEAN]
        /\ \A n \in OutNames : ~olag'[n] => cout[n] = out'[n]
    <3>1. CASE UNCHANGED <<out, olag>>
      BY <3>1 DEF TypeOK, LagInv
    <3>2. CASE /\ resolverSource(ccm) /\ Parsed(ccm.ups)
               /\ out' = [out EXCEPT ![resolvedOutputName(ccm)] = Resolved(ccm)]
               /\ olag' = [olag EXCEPT ![resolvedOutputName(ccm)] = TRUE]
      <4>1. Resolved(ccm) \in Outputs /\ resolvedOutputName(ccm) \in OutNames
        <5>1. ccm \in ConfigMapType
          BY <3>2 DEF TypeOK, resolverSource
        <5>2. resolvedOutputName(ccm) \in OutNames
          BY <5>1 DEF ConfigMapType, resolvedOutputName
        <5> QED
          BY <3>2, <5>1, <5>2, ResolvedTyped DEF TypeOK
      <4> HIDE DEF Outputs
      <4>2. out' \in [OutNames -> Outputs \cup {Stranger, Absent}]
        BY <3>2, <4>1 DEF TypeOK
      <4>3. olag' \in [OutNames -> BOOLEAN]
        BY <3>2, <4>1 DEF TypeOK
      <4>4. \A n \in OutNames : ~olag'[n] => cout[n] = out'[n]
        BY <3>2, <4>1 DEF LagInv, TypeOK
      <4> QED
        BY <4>2, <4>3, <4>4
    <3> QED
      BY <1>10, <3>1, <3>2, UpstreamsCases
  <2>2. TypeOK'
    <3>1. /\ UNCHANGED <<cm, sec, cluster, caches, lag, slag, qi, qn, threads, edits,
                        tampered, raced, alone>>
          /\ qu' \in BOOLEAN
      BY <1>10, UpstreamsCases
    <3> QED
      BY <2>0, <2>1, <3>1 DEF TypeOK, cluster, caches, threads
  <2>3. LagInv'
    BY <1>10, <2>1, UpstreamsCases DEF LagInv, caches
  <2>4. Listed'
    BY <1>10, UpstreamsCases, ListedSame
  <2> QED
    BY <2>2, <2>3, <2>4
<1>11. ASSUME NEW t \in Threads, Begin(t) PROVE TypeInv' /\ LagInv'
  <2>1. /\ pc' \in [Threads -> {"idle", "certs", "cm", "done"}]
        /\ plan' \in [Threads -> Worlds \cup {None}] /\ Listed'
    BY <1>11, BeginFacts DEF TypeOK, Listed, Rendering
  <2>2. TypeOK'
    <3>1. /\ UNCHANGED <<objects, cluster, caches, lags, qn, qu, edits, tampered, missed, unseen>>
          /\ qi' \in BOOLEAN /\ raced' \in BOOLEAN /\ alone' \in [Threads -> BOOLEAN]
      BY <1>11, BeginFacts
    <3> QED
      BY <2>1, <3>1 DEF TypeOK, objects, cluster, caches, lags
  <2>3. LagInv'
    BY <1>11, BeginFacts DEF LagInv, objects, caches, lags
  <2> QED
    BY <2>1, <2>2, <2>3
<1>12. ASSUME NEW t \in Threads, NEW failed \in BOOLEAN, End(t, failed) PROVE Listed'
  BY <1>12, EndFacts DEF Listed, Rendering
<1>13. ASSUME NEW t \in Threads, projectCertsToSecret(t) PROVE TypeInv' /\ LagInv'
  <2>1. sec' \in {w.certs : w \in Worlds} \cup {Absent} /\ missed' \subseteq {"cm", "secret", "out"}
    <3>1. /\ sec' = sec \/ sec' = plan[t].certs
          /\ missed' = missed \/ missed' \ {"secret"} = missed \ {"secret"}
          /\ plan[t] \in Worlds
      BY <1>13, CertsCases
    <3>2. sec \in {w.certs : w \in Worlds} \cup {Absent} /\ missed \subseteq {"cm", "secret", "out"}
      BY DEF TypeOK
    <3> QED
      BY <3>1, <3>2
  <2>2. slag' \in BOOLEAN /\ (~slag' => csec = sec')
    BY <1>13, CertsCases DEF TypeOK, LagInv
  <2>3. /\ pc' \in [Threads -> {"idle", "certs", "cm", "done"}]
        /\ plan' \in [Threads -> Worlds \cup {None}]
        /\ alone' \in [Threads -> BOOLEAN] /\ qi' \in BOOLEAN
        /\ Listed'
    <3>1. CASE End(t, TRUE)
      BY <1>12, <3>1, EndFacts
    <3>2. CASE pc' = [pc EXCEPT ![t] = "cm"] /\ UNCHANGED <<plan, alone, qi>>
      BY <1>13, <3>2, CertsCases DEF TypeOK, Listed, Rendering
    <3> QED
      BY <1>13, <3>1, <3>2, CertsCases
  <2>4. TypeOK'
    <3>1. UNCHANGED <<cm, out, cluster, caches, lag, olag, qn, qu, edits, tampered, raced, unseen>>
      BY <1>13, CertsCases
    <3> QED
      BY <2>1, <2>2, <2>3, <3>1 DEF TypeOK, cluster, caches
  <2>5. LagInv'
    BY <1>13, <2>2, CertsCases DEF LagInv, caches
  <2> QED
    BY <2>3, <2>4, <2>5
<1>14. ASSUME NEW t \in Threads, writeConfigMapIfChanged(t) PROVE TypeInv' /\ LagInv'
  <2>1. cm' \in ConfigMapType \cup {Absent}
    <3>1. plan[t].ups \in Files
      BY <1>14, PublishCases DEF Files
    <3>2. cm' = cm \/ cm' = Published(ccm, plan[t].ups)
      BY <1>14, PublishCases
    <3>3. {cm, ccm} \subseteq ConfigMapType \cup {Absent} /\ edits \in 0..MaxEdits
      BY DEF TypeOK
    <3> QED
      BY <3>1, <3>2, <3>3, PublishedFacts
  <2>2. lag' \in BOOLEAN /\ (~lag' => ccm = cm')
    BY <1>14, PublishCases DEF TypeOK, LagInv
  <2>3. missed' \subseteq {"cm", "secret", "out"}
    BY <1>14, PublishCases DEF TypeOK
  <2>4. /\ pc' \in [Threads -> {"idle", "certs", "cm", "done"}]
        /\ plan' \in [Threads -> Worlds \cup {None}]
        /\ alone' \in [Threads -> BOOLEAN] /\ qi' \in BOOLEAN
        /\ Listed'
    BY <1>12, <1>14, PublishCases, EndFacts
  <2>5. TypeOK'
    <3>1. /\ UNCHANGED <<sec, out, cluster, caches, slag, olag, qn, qu, edits, unseen>>
          /\ tampered' \in BOOLEAN /\ raced' \in BOOLEAN
      BY <1>14, PublishCases
    <3> QED
      BY <2>1, <2>2, <2>3, <2>4, <3>1 DEF TypeOK, cluster, caches
  <2>6. LagInv'
    BY <1>14, <2>2, PublishCases DEF LagInv, caches
  <2> QED
    BY <2>4, <2>5, <2>6
<1>15. CASE Restart
  <2>1. qn' \in BOOLEAN /\ qu' \in BOOLEAN
    BY <1>0, <1>15 DEF Restart, TypeOK
  <2>2. edits' \in 0..MaxEdits
    BY <1>15, BoundAssumption DEF Restart, Edited, TypeOK
  <2>3. TypeOK'
    BY <1>15, <2>1, <2>2 DEF Restart, TypeOK, objects, cluster
  <2>4. LagInv' /\ Listed'
    BY <1>15 DEF Restart, LagInv, Listed, Rendering, objects
  <2> QED
    BY <2>3, <2>4
<1>16. CASE UNCHANGED vars
  <2>1. TypeOK'
    BY <1>16 DEF vars, TypeOK, objects, cluster, caches, lags, queues, threads, history
  <2>2. LagInv' /\ Listed'
    BY <1>16, ListedSame DEF vars, LagInv, objects, caches, lags
  <2> QED
    BY <2>1, <2>2
<1> QED
  BY <1>1, <1>2, <1>3, <1>4, <1>5, <1>6, <1>7, <1>8, <1>9, <1>10, <1>11, <1>13, <1>14,
     <1>15, <1>16 DEF Next, RenderStep

(* Types and current copies, at all times. *)
LEMMA BaseAlways == Spec => []BaseInv
<1>1. Init => BaseInv
  BY BaseInit DEF BaseInv
<1>2. BaseInv /\ [Next]_vars => BaseInv'
  BY BaseStep DEF BaseInv
<1> QED
  BY <1>1, <1>2, PTL DEF Spec, Safety

(***************************************************************************)
(* Whatever the user, the cluster and the three controllers do, every      *)
(* object, cached copy and output has its type: in particular no writer    *)
(* makes a config.yaml that lacks one of the two address variables.        *)
(***************************************************************************)
THEOREM TypeCorrect == Spec => []TypeOK
<1>1. BaseInv => TypeOK
  BY DEF BaseInv, TypeInv
<1> QED
  BY <1>1, BaseAlways, PTL
-----------------------------------------------------------------------------
(***************************************************************************)
(* HOME_NET.                                                               *)
(***************************************************************************)
(* The netvars resolver marks as manual only what a human wrote. *)
LEMMA NetVarsHuman ==
  ASSUME NEW o \in ConfigMapType, Parsed(o.config), HumanHome(o),
         NEW ns \in NodeSets, NEW S \in SUBSET Services
  PROVE  HumanHome(withNetVars(o, ns, S))
<1> DEFINE w == withNetVars(o, ns, S)
<1>1. /\ w.config.home = IF o.override # None THEN o.override
                         ELSE IF UserPinned(o) THEN o.config.home ELSE autoHomeNet(ns, S)
      /\ w.marker = IF o.override # None \/ UserPinned(o) THEN "manual" ELSE "auto"
  BY NetVarsFacts
<1> HIDE DEF w
<1>2. UserPinned(o) => o.config.home \in Written
  BY AbsentAssumption DEF UserPinned, HumanHome
<1>3. o.override # None => o.override \in Written
  BY DEF ConfigMapType, Written
<1>4. w.marker # "auto" => w.config.home \in Written
  BY <1>1, <1>2, <1>3
<1> QED
  BY <1>4 DEF HumanHome, w

(* Users write what is theirs, resolvers mark what is not. *)
LEMMA HomeStep == BaseInv /\ HomeInv /\ [Next]_vars => HomeInv'
<1> SUFFICES ASSUME BaseInv, HomeInv, [Next]_vars PROVE HomeInv'
  OBVIOUS
<1> USE DEF BaseInv
<1>0. ASSUME UNCHANGED <<cm, ccm>> PROVE HomeInv'
  BY <1>0 DEF HomeInv, HumanHome
<1>1. CASE EditConfigMap
  <2>1. HumanHome(cm') /\ ccm' = ccm
    BY <1>1, EditFacts DEF HomeInv, caches
  <2> QED
    BY <2>1 DEF HomeInv, HumanHome
<1>2. CASE ccm' = cm /\ UNCHANGED cm
  BY <1>2 DEF HomeInv, HumanHome
<1>3. CASE NetVarsReconcile
  <2>1. ccm' = ccm
    BY <1>3, NetVarsCases DEF caches
  <2>2. CASE UNCHANGED cm
    BY <1>0, <2>1, <2>2
  <2>3. CASE /\ Parsed(ccm.config) /\ ccm \in ConfigMapType
             /\ cm' = withNetVars(ccm, cnodes, Present(csvc))
    <3>1. cnodes \in NodeSets /\ Present(csvc) \in SUBSET Services
      BY PresentTyped DEF TypeInv, TypeOK
    <3>2. HumanHome(cm')
      BY <2>3, <3>1, NetVarsHuman DEF HomeInv
    <3> QED
      BY <2>1, <3>2 DEF HomeInv, HumanHome
  <2> QED
    BY <1>3, <2>2, <2>3, NetVarsCases
<1>4. ASSUME NEW t \in Threads, writeConfigMapIfChanged(t) PROVE HomeInv'
  <2>1. ccm' = ccm /\ (cm' = cm \/ cm' = Published(ccm, plan[t].ups)) /\ plan[t] \in Worlds
    BY <1>4, PublishCases DEF caches
  <2>2. CASE UNCHANGED cm
    BY <1>0, <2>1, <2>2
  <2>3. CASE cm' = Published(ccm, plan[t].ups)
    <3>1. plan[t].ups \in Files /\ ccm \in ConfigMapType \cup {Absent} /\ edits \in 0..MaxEdits
      BY <2>1 DEF TypeInv, TypeOK, Files
    <3>2. /\ ccm = Absent => cm'.config = NoKey
          /\ ccm # Absent => cm'.config = ccm.config /\ cm'.marker = ccm.marker
      BY <2>3, <3>1, PublishedFacts
    <3>3. HumanHome(cm')
      BY <3>2 DEF HomeInv, HumanHome, Parsed
    <3> QED
      BY <2>1, <3>3 DEF HomeInv, HumanHome
  <2> QED
    BY <2>1, <2>2, <2>3
<1>5. CASE \/ EditCluster \/ \E n \in OutNames : Collect(n)
           \/ DeliverWorld \/ DeliverService \/ DeliverNodes \/ DeliverQuietly
           \/ UpstreamsReconcile \/ UNCHANGED vars
           \/ \E t \in Threads : Begin(t) \/ projectCertsToSecret(t)
  <2>1. UNCHANGED <<cm, ccm>>
    BY <1>5 DEF EditCluster, Collect, DeliverWorld, DeliverService, DeliverNodes, DeliverQuietly,
                UpstreamsReconcile, Begin, projectCertsToSecret, vars, objects, caches
  <2> QED
    BY <1>0, <2>1
<1>6. CASE DeliverConfigMap \/ Restart
  BY <1>2, <1>6 DEF DeliverConfigMap, Restart, objects
<1> QED
  BY <1>1, <1>3, <1>4, <1>5, <1>6 DEF Next, RenderStep

(* Whatever changes HOME_NET's inputs queues a request of the netvars resolver. *)
LEMMA NetStep == BaseInv /\ NetInv /\ [Next]_vars => NetInv'
<1> SUFFICES ASSUME BaseInv, NetInv, [Next]_vars PROVE NetInv'
  OBVIOUS
<1> USE DEF BaseInv
<1>0. ASSUME UNCHANGED <<qn, lag, ccm, cnodes, csvc>> PROVE NetInv'
  BY <1>0 DEF NetInv, netSource, isNetVarsSource, Present
<1>1. ASSUME \/ lag' = TRUE
             \/ ~qn' => ~netSource(ccm')
      PROVE  NetInv'
  BY <1>1 DEF NetInv, netSource
<1>2. CASE EditConfigMap
  BY <1>1, <1>2 DEF EditConfigMap
<1>3. CASE DeliverConfigMap
  <2>1. ccm' = cm /\ qn' = (qn \/ netSource(IF cm = Absent THEN ccm ELSE cm))
    BY <1>3 DEF DeliverConfigMap
  <2> QED
    BY <1>1, <2>1 DEF netSource
<1>4. CASE DeliverService \/ DeliverNodes
  <2>1. ccm' = ccm /\ qn' = (qn \/ netSource(ccm))
    BY <1>4 DEF DeliverService, DeliverNodes
  <2> QED
    BY <1>1, <2>1
<1>5. CASE NetVarsReconcile
  <2>1. UNCHANGED <<ccm, cnodes, csvc>>
    BY <1>5, NetVarsCases DEF caches
  <2>2. CASE lag' = TRUE
    BY <1>1, <2>2
  <2>3. CASE ~qn' => \/ ~(netSource(ccm) /\ Parsed(ccm.config))
                     \/ withNetVars(ccm, cnodes, Present(csvc)) = ccm
    BY <2>1, <2>3 DEF NetInv, netSource, isNetVarsSource, Present
  <2> QED
    BY <1>5, <2>2, <2>3, NetVarsCases
<1>6. CASE Restart
  BY <1>1, <1>6 DEF Restart
<1>7. ASSUME NEW t \in Threads, writeConfigMapIfChanged(t) PROVE NetInv'
  <2>1. UNCHANGED <<qn, ccm, cnodes, csvc>> /\ (lag' = lag \/ lag' = TRUE)
    BY <1>7, PublishCases DEF caches
  <2> QED
    BY <1>0, <1>1, <2>1
<1>8. CASE \/ EditCluster \/ \E n \in OutNames : Collect(n)
           \/ DeliverWorld \/ DeliverQuietly \/ UpstreamsReconcile \/ UNCHANGED vars
           \/ \E t \in Threads : Begin(t) \/ projectCertsToSecret(t)
  <2>1. UNCHANGED <<qn, lag, ccm, cnodes, csvc>>
    BY <1>8 DEF EditCluster, Collect, DeliverWorld, DeliverQuietly, UpstreamsReconcile,
                Begin, projectCertsToSecret, vars, caches, lags, queues
  <2> QED
    BY <1>0, <2>1
<1> QED
  BY <1>2, <1>3, <1>4, <1>5, <1>6, <1>7, <1>8 DEF Next, RenderStep

(***************************************************************************)
(* When all is quiet, HOME_NET of a labelled config is the annotation's,   *)
(* or all that is internal now with EXTERNAL_NET as its complement, or a   *)
(* value that a human wrote.  A derived value never passes for a pin       *)
(* (HomeInv), and what the resolver would write is what there is (NetInv). *)
(***************************************************************************)
THEOREM HomeStaysInternal == Spec => []HomeIsInternal
<1>1. Init => BaseInv /\ HomeInv /\ NetInv
  <2> SUFFICES ASSUME Init PROVE HomeInv /\ NetInv
    BY BaseInit DEF BaseInv
  <2>1. NetInv
    BY DEF Init, NetInv
  <2>2. \A c \in Configs(Written) : Parsed(c) => c.home \in Written
    BY DEF Configs, Parsed
  <2>3. HumanHome(cm) /\ ccm = cm
    <3>1. ccm = cm /\ (cm = Absent \/ cm \in ConfigMaps)
      BY DEF Init
    <3>2. cm \in ConfigMaps => cm.config \in Configs(Written)
      BY UserAssumption
    <3> QED
      BY <2>2, <3>1, <3>2 DEF HumanHome
  <2> QED
    BY <2>1, <2>3 DEF HomeInv
<1>2. BaseInv /\ HomeInv /\ NetInv /\ [Next]_vars => (BaseInv /\ HomeInv /\ NetInv)'
  BY BaseStep, HomeStep, NetStep DEF BaseInv
<1>3. BaseInv /\ HomeInv /\ NetInv => HomeIsInternal
  <2> SUFFICES ASSUME BaseInv, HomeInv, NetInv, Quiet, netSource(cm), Parsed(cm.config)
               PROVE  HomeIsInternal!2
    BY DEF HomeIsInternal, Parsed
  <2>1. ~lag /\ ccm = cm /\ ~qn /\ cnodes = nodes /\ csvc = svc
    BY DEF Quiet, BaseInv, LagInv, Parsed
  <2>2. cm \in ConfigMapType /\ nodes \in NodeSets /\ Present(svc) \in SUBSET Services
    BY PresentTyped DEF BaseInv, TypeInv, TypeOK, netSource
  <2>3. withNetVars(cm, nodes, Present(svc)) = cm
    BY <2>1 DEF NetInv
  <2>4. /\ cm.config = [home |-> cm.config.home, external |-> "!$HOME_NET"]
        /\ cm.config.home = IF cm.override # None THEN cm.override
                            ELSE IF UserPinned(cm) THEN cm.config.home ELSE Internal
        /\ cm.marker = IF cm.override # None \/ UserPinned(cm) THEN "manual" ELSE "auto"
    <3> DEFINE w == withNetVars(cm, nodes, Present(svc))
    <3>1. /\ w.config = [home |-> w.config.home, external |-> "!$HOME_NET"]
          /\ w.config.home = IF cm.override # None THEN cm.override
                             ELSE IF UserPinned(cm) THEN cm.config.home
                             ELSE autoHomeNet(nodes, Present(svc))
          /\ w.marker = IF cm.override # None \/ UserPinned(cm) THEN "manual" ELSE "auto"
      BY <2>2, NetVarsFacts
    <3> HIDE DEF w
    <3> QED
      BY <2>3, <3>1 DEF w, Internal
  <2>5. UserPinned(cm) => cm.config.home \in Pins
    BY DEF UserPinned, HomeInv, HumanHome, Written, netSource, currentHomeNet, Parsed
  <2> QED
    BY <2>4, <2>5
<1> QED
  BY <1>1, <1>2, <1>3, PTL DEF Spec, Safety
-----------------------------------------------------------------------------
(***************************************************************************)
(* Renders: whether they overlap, what they know and what they leave.      *)
(***************************************************************************)
(* Steps that leave the renders alone, and what they wrote and listed. *)
LEMMA RenderSame ==
  ASSUME RenderInv, UNCHANGED <<sec, cworld, qi, threads, alone, raced, missed>>,
         ~tampered' => ~tampered /\ (cm # Absent => cm' # Absent /\ cm'.ups = cm.ups)
  PROVE  RenderInv'
<1>1. AloneInv' /\ PlanInv'
  BY DEF RenderInv, AloneInv, PlanInv, Rendering, threads
<1>2. CertInv'
  BY DEF RenderInv, CertInv, threads
<1>3. FileInv'
  BY DEF RenderInv, FileInv, Rendering, threads
<1> QED
  BY <1>1, <1>2, <1>3 DEF RenderInv

(* A request for a rebuild takes the place of what was known. *)
LEMMA RenderAsked ==
  ASSUME RenderInv, UNCHANGED <<sec, threads, alone, raced, missed>>, qi' = TRUE
  PROVE  RenderInv'
  BY DEF RenderInv, AloneInv, CertInv, PlanInv, FileInv, Rendering, threads

(* A render that fails is the worker's to repeat. *)
LEMMA RenderFails ==
  ASSUME BaseInv, RenderInv, NEW t \in Threads, Rendering(t), End(t, TRUE),
         UNCHANGED <<cm, sec, cworld, raced, missed, tampered>>
  PROVE  RenderInv'
<1>1. /\ ~Rendering(t)'
      /\ \A u \in Threads \ {t} : pc'[u] = pc[u] /\ plan'[u] = plan[u] /\ alone'[u] = alone[u]
      /\ ~qi' <=> ~qi /\ t # "worker"
  BY EndFacts DEF BaseInv
<1>2. AloneInv' /\ PlanInv'
  BY <1>1 DEF RenderInv, AloneInv, PlanInv, Rendering
<1>3. CertInv'
  BY <1>1 DEF RenderInv, CertInv, Rendering
<1>4. FileInv'
  <2>1. CASE t = "worker"
    BY <1>1, <2>1 DEF FileInv
  <2>2. CASE t # "worker"
    BY <1>1, <2>2 DEF RenderInv, FileInv, Rendering, Threads
  <2> QED
    BY <2>1, <2>2
<1> QED
  BY <1>2, <1>3, <1>4 DEF RenderInv

(* Every step keeps what is known of the renders. *)
LEMMA RenderInvStep == BaseInv /\ RenderInv /\ [Next]_vars => RenderInv'
<1> SUFFICES ASSUME BaseInv, RenderInv, [Next]_vars PROVE RenderInv'
  OBVIOUS
<1>0. TypeInv /\ LagInv
  BY DEF BaseInv
<1>1. CASE EditConfigMap
  <2>1. /\ UNCHANGED <<sec, cworld, qi, threads, alone, raced, missed>>
        /\ ~tampered' => ~tampered /\ cm # Absent /\ cm' # Absent /\ cm'.ups = cm.ups
    BY <1>0, <1>1, EditFacts DEF caches, queues
  <2> QED
    BY <2>1, RenderSame
<1>2. CASE NetVarsReconcile
  <2>1. UNCHANGED <<sec, cworld, qi, threads, alone, raced, missed, tampered>>
    BY <1>0, <1>2, NetVarsCases DEF caches, history
  <2>2. cm # Absent => cm' # Absent /\ cm'.ups = cm.ups
    <3>1. CASE UNCHANGED cm
      BY <3>1
    <3>2. CASE /\ cm = ccm /\ Parsed(ccm.config) /\ ccm \in ConfigMapType
               /\ cm' = withNetVars(ccm, cnodes, Present(csvc))
      <4>1. cnodes \in NodeSets /\ Present(csvc) \in SUBSET Services
        BY <1>0, PresentTyped DEF TypeInv, TypeOK
      <4>2. cm' \in ConfigMapType /\ cm'.ups = ccm.ups
        BY <3>2, <4>1, NetVarsFacts
      <4> QED
        BY <3>2, <4>2, AbsentAssumption
    <3> QED
      BY <1>0, <1>2, <3>1, <3>2, NetVarsCases
  <2> QED
    BY <2>1, <2>2, RenderSame
<1>3. CASE UpstreamsReconcile
  <2>1. /\ UNCHANGED <<cm, sec, cworld, qi, threads, alone, raced, tampered>>
        /\ missed' \ {"out"} = missed \ {"out"}
    BY <1>0, <1>3, UpstreamsCases DEF caches
  <2>2. AloneInv' /\ PlanInv'
    BY <2>1 DEF RenderInv, AloneInv, PlanInv, Rendering, threads
  <2>3. CertInv'
    BY <2>1 DEF RenderInv, CertInv, threads
  <2>4. FileInv'
    BY <2>1 DEF RenderInv, FileInv, Rendering, threads
  <2> QED
    BY <2>2, <2>3, <2>4 DEF RenderInv
<1>4. CASE DeliverWorld \/ DeliverService
  <2>1. UNCHANGED <<sec, threads, alone, raced, missed>> /\ qi' = TRUE
    BY <1>4 DEF DeliverWorld, DeliverService, objects, history
  <2> QED
    BY <2>1, RenderAsked
<1>5. ASSUME NEW t \in Threads, Begin(t) PROVE RenderInv'
  <2>1. /\ UNCHANGED <<cm, sec, cworld, tampered, missed>>
        /\ pc[t] = "idle" /\ pc' = [pc EXCEPT ![t] = "certs"]
        /\ plan' = [plan EXCEPT ![t] = cworld]
        /\ pc \in [Threads -> {"idle", "certs", "cm", "done"}]
        /\ plan \in [Threads -> Worlds \cup {None}]
    BY <1>0, <1>5, BeginFacts DEF TypeInv, TypeOK, objects, caches
  <2>2. /\ ~qi' <=> ~qi \/ t = "worker"
        /\ alone'[t] <=> \A u \in Threads \ {t} : ~Rendering(u)
        /\ \A u \in Threads \ {t} : alone'[u] <=> alone[u] /\ ~Rendering(u)
        /\ raced' <=> raced \/ \E u \in Threads \ {t} : Rendering(u)
    BY <1>0, <1>5, BeginFacts
  <2>3. /\ Rendering(t)' /\ ~Rendering(t)
        /\ \A u \in Threads \ {t} : (Rendering(u)' <=> Rendering(u)) /\ plan'[u] = plan[u] /\ pc'[u] = pc[u]
        /\ plan'[t] = cworld /\ pc'[t] = "certs"
    BY <2>1 DEF Rendering
  <2>4. AloneInv'
    <3>1. ASSUME NEW v \in Threads, Rendering(v)'
          PROVE  /\ alone'[v] => \A u \in Threads \ {v} : ~Rendering(u)'
                 /\ ~alone'[v] => raced'
      <4>1. CASE v = t
        BY <2>2, <2>3, <4>1
      <4>2. CASE v # t
        BY <2>2, <2>3, <3>1, <4>2
      <4> QED
        BY <4>1, <4>2
    <3> QED
      BY <3>1 DEF AloneInv
  <2>5. CertInv'
    <3>1. ASSUME NEW v \in Threads, pc'[v] = "cm", alone'[v] PROVE FALSE
      <4>1. v # t /\ Rendering(v)
        BY <2>3, <3>1 DEF Rendering
      <4> QED
        BY <2>2, <3>1, <4>1
    <3> QED
      BY <3>1 DEF CertInv
  <2>6. PlanInv'
    <3>1. ASSUME NEW v \in Threads, Rendering(v)', alone'[v] PROVE plan'[v] = cworld'
      <4>1. CASE v = t
        BY <2>1, <2>3, <4>1
      <4>2. CASE v # t
        BY <2>2, <2>3, <3>1, <4>2
      <4> QED
        BY <4>1, <4>2
    <3> QED
      BY <3>1 DEF PlanInv
  <2>7. FileInv'
    <3>1. CASE t = "worker"
      BY <2>3, <3>1 DEF FileInv
    <3>2. CASE t # "worker"
      <4>1. (~Rendering("worker")' <=> ~Rendering("worker")) /\ (~qi' => ~qi) /\ (~raced' => ~raced)
        BY <2>2, <2>3, <3>2 DEF Threads
      <4> QED
        BY <2>1, <4>1 DEF RenderInv, FileInv
    <3> QED
      BY <3>1, <3>2
  <2> QED
    BY <2>4, <2>5, <2>6, <2>7 DEF RenderInv
<1>6. ASSUME NEW t \in Threads, projectCertsToSecret(t) PROVE RenderInv'
  <2>1. /\ UNCHANGED <<cm, cworld, raced, tampered>> /\ pc[t] = "certs" /\ Rendering(t)
        /\ pc \in [Threads -> {"idle", "certs", "cm", "done"}]
    BY <1>0, <1>6, CertsCases DEF TypeInv, TypeOK, caches, Rendering
  <2>2. CASE UNCHANGED <<sec, slag, missed>> /\ End(t, TRUE)
    BY <2>1, <2>2, RenderFails
  <2>3. CASE /\ pc' = [pc EXCEPT ![t] = "cm"] /\ UNCHANGED <<plan, alone, qi>>
             /\ missed' \ {"secret"} = missed \ {"secret"}
             /\ "secret" \notin missed' => sec' = plan[t].certs
    <3>1. \A u \in Threads : Rendering(u)' <=> Rendering(u)
      BY <2>1, <2>3 DEF Rendering
    <3>2. AloneInv' /\ PlanInv'
      BY <2>1, <2>3, <3>1 DEF RenderInv, AloneInv, PlanInv
    <3>3. CertInv'
      <4>1. ASSUME NEW u \in Threads, pc'[u] = "cm", alone'[u], "secret" \notin missed'
            PROVE  sec' = plan'[u].certs
        <5>1. CASE u = t
          BY <2>3, <4>1, <5>1
        <5>2. CASE u # t
          <6>1. Rendering(u) /\ alone[u]
            BY <2>1, <2>3, <4>1, <5>2 DEF Rendering
          <6> QED
            BY <2>1, <5>2, <6>1 DEF RenderInv, AloneInv
        <5> QED
          BY <5>1, <5>2
      <4> QED
        BY <4>1 DEF CertInv
    <3>4. FileInv'
      <4>1. Rendering("worker")' <=> Rendering("worker")
        BY <3>1 DEF Threads
      <4> QED
        BY <2>1, <2>3, <4>1 DEF RenderInv, FileInv
    <3> QED
      BY <3>2, <3>3, <3>4 DEF RenderInv
  <2> QED
    BY <1>0, <1>6, <2>2, <2>3, CertsCases
<1>7. ASSUME NEW t \in Threads, writeConfigMapIfChanged(t) PROVE RenderInv'
  <2>1. UNCHANGED <<sec, cworld>> /\ pc[t] = "cm" /\ Rendering(t)
    BY <1>0, <1>7, PublishCases DEF caches, Rendering
  <2>2. CASE UNCHANGED <<cm, lag, missed, tampered, raced>> /\ End(t, TRUE)
    BY <2>1, <2>2, RenderFails
  <2>3. CASE /\ End(t, FALSE)
             /\ ~raced' <=> ~raced \/ alone[t]
             /\ missed' \ {"cm"} = missed \ {"cm"}
             /\ "cm" \notin missed' => cm' # Absent /\ cm'.ups = plan[t].ups
    <3>1. /\ ~Rendering(t)'
          /\ \A u \in Threads \ {t} : pc'[u] = pc[u] /\ plan'[u] = plan[u] /\ alone'[u] = alone[u]
          /\ ~qi' <=> ~qi
      BY <1>0, <2>3, EndFacts
    <3>2. \A u \in Threads \ {t} : Rendering(u)' <=> Rendering(u)
      BY <3>1 DEF Rendering
    <3>3. AloneInv'
      <4>1. ASSUME NEW u \in Threads, Rendering(u)'
            PROVE  /\ alone'[u] => \A v \in Threads \ {u} : ~Rendering(v)'
                   /\ ~alone'[u] => raced'
        <5>1. u # t /\ Rendering(u) /\ alone'[u] = alone[u]
          BY <3>1, <3>2, <4>1
        <5>2. ~alone[t] /\ ~alone[u] /\ raced
          BY <2>1, <5>1 DEF RenderInv, AloneInv
        <5> QED
          BY <2>3, <5>1, <5>2
      <4> QED
        BY <4>1 DEF AloneInv
    <3>4. CertInv' /\ PlanInv'
      <4>1. ASSUME NEW u \in Threads, Rendering(u)', alone'[u] PROVE FALSE
        <5>1. u # t /\ Rendering(u) /\ alone[u]
          BY <3>1, <3>2, <4>1
        <5> QED
          BY <2>1, <5>1 DEF RenderInv, AloneInv
      <4> QED
        BY <4>1 DEF CertInv, PlanInv, Rendering
    <3>5. FileInv'
      <4> SUFFICES ASSUME ~qi', ~raced', "cm" \notin missed'
                   PROVE  cm' # Absent /\ cm'.ups = cworld'.ups
        BY DEF FileInv
      <4>1. alone[t]
        BY <2>1, <2>3 DEF RenderInv, AloneInv
      <4>2. plan[t] = cworld
        BY <2>1, <3>1, <4>1 DEF RenderInv, PlanInv
      <4> QED
        BY <2>1, <2>3, <4>2
    <3> QED
      BY <3>3, <3>4, <3>5 DEF RenderInv
  <2> QED
    BY <1>0, <1>7, <2>2, <2>3, PublishCases
<1>8. CASE Restart
  <2>1. /\ qi' = TRUE /\ pc' = [u \in Threads |-> "idle"]
    BY <1>8 DEF Restart
  <2> QED
    BY <2>1 DEF RenderInv, AloneInv, CertInv, PlanInv, FileInv, Rendering
<1>9. CASE \/ EditCluster \/ \E n \in OutNames : Collect(n)
           \/ DeliverConfigMap \/ DeliverNodes \/ DeliverQuietly \/ UNCHANGED vars
  <2>1. UNCHANGED <<cm, sec, cworld, qi, threads, alone, raced, missed, tampered>>
    BY <1>9 DEF EditCluster, Collect, DeliverConfigMap, DeliverNodes, DeliverQuietly,
                vars, objects, caches, lags, queues, history
  <2> QED
    BY <2>1, RenderSame
<1> QED
  BY <1>1, <1>2, <1>3, <1>4, <1>5, <1>6, <1>7, <1>8, <1>9 DEF Next, RenderStep

(* The renders' invariant, at all times. *)
LEMMA RenderAlways == Spec => [](BaseInv /\ RenderInv)
<1>1. Init => BaseInv /\ RenderInv
  <2> SUFFICES ASSUME Init PROVE RenderInv
    BY BaseInit DEF BaseInv
  <2>1. /\ qi = TRUE /\ pc = [u \in Threads |-> "idle"]
    BY DEF Init
  <2> QED
    BY <2>1 DEF RenderInv, AloneInv, CertInv, PlanInv, FileInv, Rendering
<1>2. BaseInv /\ RenderInv /\ [Next]_vars => (BaseInv /\ RenderInv)'
  BY BaseStep, RenderInvStep DEF BaseInv
<1> QED
  BY <1>1, <1>2, PTL DEF Spec, Safety

(* Only a render that publishes leaves "cm" and changes the ConfigMap. *)
LEMMA Publishes ==
  ASSUME BaseInv, [Next]_vars, NEW t \in Threads, pc[t] = "cm", pc'[t] # "cm", cm' # cm
  PROVE  writeConfigMapIfChanged(t)
<1>0. TypeInv /\ LagInv
  BY DEF BaseInv
<1>1. ~(\/ EditConfigMap \/ EditCluster \/ \E n \in OutNames : Collect(n)
        \/ DeliverConfigMap \/ DeliverWorld \/ DeliverService \/ DeliverNodes \/ DeliverQuietly
        \/ NetVarsReconcile \/ UpstreamsReconcile \/ UNCHANGED vars)
  BY DEF EditConfigMap, EditCluster, Collect, DeliverConfigMap, DeliverWorld, DeliverService,
         DeliverNodes, DeliverQuietly, NetVarsReconcile, UpstreamsReconcile, vars, threads
<1>2. ~Restart /\ \A u \in Threads : ~Begin(u) /\ ~projectCertsToSecret(u)
  BY DEF Restart, Begin, projectCertsToSecret, objects
<1>3. ASSUME NEW u \in Threads, writeConfigMapIfChanged(u) PROVE u = t
  <2>1. PICK failed \in BOOLEAN : End(u, failed)
    BY <1>0, <1>3, PublishCases
  <2>2. \A v \in Threads \ {u} : pc'[v] = pc[v]
    BY <1>0, <2>1, EndFacts
  <2> QED
    BY <2>2
<1> QED
  BY <1>1, <1>2, <1>3 DEF Next, RenderStep

(***************************************************************************)
(* A render that puts a new upstreams.yaml in the ConfigMap has its own    *)
(* certificates in the Secret, unless renders overlapped or a stale copy   *)
(* of the Secret already showed them.                                      *)
(***************************************************************************)
THEOREM SecretComesFirst == Spec => CertsFirst
<1>1. ASSUME BaseInv, RenderInv, [Next]_vars, NEW t \in Threads,
             pc[t] = "cm", pc'[t] # "cm", cm' # cm, ~raced, "secret" \notin missed
      PROVE  sec = plan[t].certs
  <2>1. writeConfigMapIfChanged(t)
    BY <1>1, Publishes
  <2>2. alone[t]
    BY <1>1 DEF RenderInv, AloneInv, Rendering
  <2> QED
    BY <1>1, <2>2 DEF RenderInv, CertInv
<1>2. BaseInv /\ RenderInv /\ [Next]_vars =>
        [\A t \in Threads :
           pc[t] = "cm" /\ pc'[t] # "cm" /\ cm' # cm /\ ~raced /\ "secret" \notin missed =>
             sec = plan[t].certs]_vars
  BY <1>1
<1> QED
  BY <1>2, RenderAlways, PTL DEF Spec, Safety, CertsFirst
-----------------------------------------------------------------------------
(***************************************************************************)
(* The resolved copies.                                                    *)
(***************************************************************************)
(* Whatever changes an output or its inputs queues a request, or is exempt. *)
LEMMA OutStep == BaseInv /\ OutInv /\ [Next]_vars => OutInv'
<1> SUFFICES ASSUME BaseInv, OutInv, [Next]_vars PROVE OutInv'
  OBVIOUS
<1>0. TypeInv /\ LagInv
  BY DEF BaseInv
<1>1. ASSUME UNCHANGED <<qu, lag, ccm, csvc, unseen, out>>, "out" \notin missed' => "out" \notin missed
      PROVE  OutInv'
  BY <1>1 DEF OutInv, resolverSource, isResolverSource, resolvedOutputName, Resolved
<1>2. ASSUME \/ lag' = TRUE
             \/ ~qu' /\ ~unseen' => ~(resolverSource(ccm') /\ Parsed(ccm'.ups))
      PROVE  OutInv'
  BY <1>2 DEF OutInv, resolverSource
<1>3. CASE EditConfigMap
  BY <1>2, <1>3 DEF EditConfigMap
<1>4. ASSUME NEW n \in OutNames, Collect(n) PROVE OutInv'
  <2>1. /\ UNCHANGED <<cm, qu, lag, ccm, csvc, unseen, missed>>
        /\ out[n] # Absent /\ out[n].owner # Foreign
        /\ ~(cm # Absent /\ cm.uid = out[n].owner)
        /\ out' = [out EXCEPT ![n] = Absent]
    BY <1>4 DEF Collect, queues, caches, history
  <2>2. CASE /\ ~qu /\ ~lag /\ resolverSource(ccm) /\ Parsed(ccm.ups) /\ ~unseen
             /\ "out" \notin missed
    <3>1. ccm = cm /\ cm # Absent
      BY <1>0, <2>2 DEF LagInv, resolverSource
    <3>2. resolvedOutputName(ccm) # n
      <4>1. Resolved(ccm).owner = ccm.uid
        BY DEF Resolved
      <4> QED
        BY <2>1, <2>2, <3>1, <4>1 DEF OutInv
    <3>3. out'[resolvedOutputName(ccm)] = out[resolvedOutputName(ccm)]
      BY <1>0, <2>1, <3>2 DEF TypeInv, TypeOK
    <3> QED
      BY <2>1, <3>3 DEF OutInv, resolverSource, isResolverSource, resolvedOutputName, Resolved
  <2> QED
    BY <2>1, <2>2 DEF OutInv, resolverSource
<1>5. CASE DeliverConfigMap
  <2>1. ccm' = cm /\ qu' = (qu \/ resolverSource(IF cm = Absent THEN ccm ELSE cm))
    BY <1>5 DEF DeliverConfigMap
  <2> QED
    BY <1>2, <2>1 DEF resolverSource
<1>6. CASE DeliverService
  <2>1. /\ ccm' = ccm /\ qu' = (qu \/ (ccm # Absent /\ listedForServices(ccm)))
        /\ unseen' = (unseen \/ (resolverSource(ccm) /\ ~listedForServices(ccm)))
    BY <1>6 DEF DeliverService
  <2>2. ~qu' /\ ~unseen' => ~resolverSource(ccm')
    BY <2>1 DEF resolverSource
  <2> QED
    BY <1>2, <2>2
<1>7. CASE UpstreamsReconcile
  <2>1. UNCHANGED <<ccm, csvc, lag>>
    BY <1>0, <1>7, UpstreamsCases DEF caches
  <2>2. CASE /\ UNCHANGED <<out, olag, missed, unseen>>
             /\ ~qu' => ~(resolverSource(ccm) /\ Parsed(ccm.ups))
    BY <1>2, <2>1, <2>2
  <2>3. ASSUME resolverSource(ccm),
               "out" \notin missed' => out'[resolvedOutputName(ccm)] = Resolved(ccm)
        PROVE OutInv'
    <3>1. Parsed(ccm.ups) => Resolved(ccm) # Absent
      <4>1. ccm \in ConfigMapType /\ csvc \in [ServiceNames -> Services \cup {Absent}]
        BY <1>0, <2>3 DEF resolverSource, TypeInv, TypeOK
      <4> QED
        BY <4>1, ResolvedTyped, AbsentAssumption
    <3>2. Resolved(ccm)' = Resolved(ccm) /\ resolvedOutputName(ccm)' = resolvedOutputName(ccm)
      BY <2>1 DEF Resolved, resolvedOutputName
    <3> QED
      BY <2>1, <2>3, <3>1, <3>2 DEF OutInv
  <2>4. CASE /\ UNCHANGED <<out, olag>> /\ resolverSource(ccm)
             /\ "out" \notin missed' => out[resolvedOutputName(ccm)] = Resolved(ccm)
    BY <2>3, <2>4
  <2>5. CASE /\ resolverSource(ccm)
             /\ out' = [out EXCEPT ![resolvedOutputName(ccm)] = Resolved(ccm)]
    <3>1. resolvedOutputName(ccm) \in OutNames /\ out \in [OutNames -> Outputs \cup {Stranger, Absent}]
      BY <1>0, <2>5 DEF TypeInv, TypeOK, resolverSource, resolvedOutputName, ConfigMapType
    <3> QED
      BY <2>3, <2>5, <3>1
  <2> QED
    BY <1>0, <1>7, <2>2, <2>4, <2>5, UpstreamsCases
<1>8. CASE Restart
  <2>1. ccm' = cm /\ qu' = resolverSource(cm)
    BY <1>8 DEF Restart
  <2> QED
    BY <1>2, <2>1
<1>9. CASE NetVarsReconcile
  <2>1. UNCHANGED <<qu, ccm, csvc, unseen, out, missed>> /\ (lag' = lag \/ lag' = TRUE)
    BY <1>0, <1>9, NetVarsCases DEF caches, history
  <2> QED
    BY <1>1, <1>2, <2>1
<1>10. ASSUME NEW t \in Threads, writeConfigMapIfChanged(t) PROVE OutInv'
  <2>1. /\ UNCHANGED <<qu, ccm, csvc, unseen, out>> /\ (lag' = lag \/ lag' = TRUE)
        /\ "out" \notin missed' => "out" \notin missed
    BY <1>0, <1>10, PublishCases DEF caches
  <2> QED
    BY <1>1, <1>2, <2>1
<1>11. ASSUME NEW t \in Threads, projectCertsToSecret(t) PROVE OutInv'
  <2>1. /\ UNCHANGED <<qu, ccm, csvc, unseen, out, lag>>
        /\ "out" \notin missed' => "out" \notin missed
    BY <1>0, <1>11, CertsCases DEF caches
  <2> QED
    BY <1>1, <2>1
<1>12. CASE \/ EditCluster \/ DeliverWorld \/ DeliverNodes \/ DeliverQuietly \/ UNCHANGED vars
            \/ \E t \in Threads : Begin(t)
  <2>1. UNCHANGED <<qu, lag, ccm, csvc, unseen, out, missed>>
    BY <1>12 DEF EditCluster, DeliverWorld, DeliverNodes, DeliverQuietly, Begin,
                 vars, objects, caches, lags, queues, history
  <2> QED
    BY <1>1, <2>1
<1> QED
  BY <1>3, <1>4, <1>5, <1>6, <1>7, <1>8, <1>9, <1>10, <1>11, <1>12 DEF Next, RenderStep

(***************************************************************************)
(* When all is quiet, both stages show the present cluster: the ConfigMap  *)
(* the render, and the output of a source the source with the ClusterIPs   *)
(* there are, up to the exemptions that PipelineConverges names.           *)
(***************************************************************************)
THEOREM PipelineHasConverged == Spec => []PipelineConverges
<1>1. Init => OutInv
  BY DEF Init, OutInv
<1>2. BaseInv /\ RenderInv /\ OutInv => PipelineConverges
  <2> SUFFICES ASSUME BaseInv, RenderInv, OutInv, Quiet PROVE PipelineConverges!2
    BY DEF PipelineConverges
  <2>1. ccm = cm /\ ~lag /\ csvc = svc /\ cworld = world
    BY DEF Quiet, BaseInv, LagInv
  <2>2. ASSUME ~tampered, ~raced, "cm" \notin missed PROVE cm # Absent /\ cm.ups = world.ups
    BY <2>1, <2>2 DEF Quiet, RenderInv, FileInv, Rendering
  <2>3. ASSUME resolverSource(cm), cm.ups \notin {NoKey, Bad}, ~unseen, "out" \notin missed
        PROVE  LET o == out[resolvedOutputName(cm)]
               IN o # Absent /\ (o.owner = Foreign \/ o = Resolved(cm))
    <3>1. CASE ~qu
      BY <2>1, <2>3, <3>1 DEF OutInv, Parsed
    <3>2. CASE qu
      BY <2>3, <3>2, AbsentAssumption DEF Quiet, Stranger, resolvedOutputName
    <3> QED
      BY <3>1, <3>2
  <2> QED
    BY <2>2, <2>3 DEF OutputIsCurrent
<1>3. BaseInv /\ OutInv /\ [Next]_vars => OutInv'
  BY OutStep
<1> QED
  BY <1>1, <1>2, <1>3, RenderAlways, PTL DEF Spec, Safety
-----------------------------------------------------------------------------
(***************************************************************************)
(* One owner per key.                                                      *)
(***************************************************************************)
(* The parts of an object are there when the object is. *)
LEMMA PartsAbsent ==
  ASSUME NEW o \in ConfigMapType \cup {Absent}
  PROVE  /\ NetOf(o) = Absent <=> o = Absent
         /\ RenderedOf(o) = Absent <=> o = Absent
         /\ UserOf(o) = Absent <=> o = Absent
<1>1. CASE o = Absent
  BY <1>1 DEF NetOf, RenderedOf, UserOf
<1>2. CASE o \in ConfigMapType
  <2>1. o # Absent
    BY <1>2, AbsentAssumption
  <2>2. NetOf(o) \in NetPart
    BY <1>2, <2>1 DEF NetOf, NetPart, ConfigMapType
  <2>3. RenderedOf(o) \in RenderedPart
    BY <1>2, <2>1 DEF RenderedOf, RenderedPart, ConfigMapType
  <2>4. UserOf(o) \in UserPart
    BY <1>2, <2>1 DEF UserOf, UserPart, ConfigMapType
  <2> QED
    BY <2>1, <2>2, <2>3, <2>4, AbsentAssumption
<1> QED
  BY <1>1, <1>2

(* A write of the netvars resolver derives HOME_NET or respects a pin. *)
LEMMA NetVarsOwns ==
  ASSUME BaseInv, cm \in ConfigMapType, Parsed(cm.config), UNCHANGED edits,
         cm' = withNetVars(cm, cnodes, Present(csvc))
  PROVE  Owners!Derive \/ Owners!Respect
<1>0. cnodes \in NodeSets /\ Present(csvc) \in SUBSET Services
  BY PresentTyped DEF BaseInv, TypeInv, TypeOK
<1>1. /\ cm' \in ConfigMapType
      /\ cm'.ups = cm.ups /\ cm'.managed = cm.managed /\ cm'.override = cm.override
      /\ cm'.netLabel = cm.netLabel /\ cm'.upsLabel = cm.upsLabel
      /\ cm'.outName = cm.outName /\ cm'.uid = cm.uid
      /\ cm'.config.external = "!$HOME_NET"
      /\ cm'.config.home = IF cm.override # None THEN cm.override
                           ELSE IF UserPinned(cm) THEN cm.config.home
                           ELSE autoHomeNet(cnodes, Present(csvc))
      /\ cm'.config = [home |-> cm'.config.home, external |-> "!$HOME_NET"]
      /\ cm'.marker = IF cm.override # None \/ UserPinned(cm) THEN "manual" ELSE "auto"
  BY <1>0, NetVarsFacts
<1>2. cm # Absent /\ cm' # Absent
  BY <1>1, AbsentAssumption
<1>3. /\ NetOf(cm) = [config |-> cm.config, marker |-> cm.marker]
      /\ NetOf(cm)' = [config |-> cm'.config, marker |-> cm'.marker]
      /\ UserOf(cm)' = UserOf(cm) /\ RenderedOf(cm)' = RenderedOf(cm)
      /\ UserOf(cm).override = cm.override
  BY <1>1, <1>2 DEF NetOf, UserOf, RenderedOf
<1>4. NetOf(cm) # Absent /\ NetOf(cm)' # Absent
  BY <1>1, <1>2, PartsAbsent
<1>5. Owners!Parsed
  BY <1>3, <1>4 DEF Owners!Parsed, Parsed
<1>6. Owners!Pinned <=> cm.override # None \/ UserPinned(cm)
  BY <1>3 DEF Owners!Pinned, UserPinned, currentHomeNet, Parsed
<1>7. CASE Owners!Pinned
  <2>1. /\ NetOf(cm)'.marker = "manual"
        /\ NetOf(cm)'.config = [home     |-> IF cm.override # None THEN cm.override ELSE cm.config.home,
                                external |-> "!$HOME_NET"]
    BY <1>1, <1>3, <1>6, <1>7
  <2> QED
    BY <1>3, <1>4, <1>5, <1>7, <2>1 DEF Owners!Respect
<1>8. CASE ~Owners!Pinned
  <2>1. NetOf(cm)'.marker = "auto" /\ NetOf(cm)'.config.external = "!$HOME_NET"
    BY <1>1, <1>3, <1>6, <1>8
  <2> QED
    BY <1>3, <1>4, <1>5, <1>8, <2>1 DEF Owners!Derive
<1> QED
  BY <1>7, <1>8

(* A write of a render changes upstreams.yaml and its label, or creates. *)
LEMMA PublishOwns ==
  ASSUME BaseInv, NEW f \in Files, UNCHANGED edits, cm' = Published(cm, f)
  PROVE  Owners!Publish
<1>1. cm \in ConfigMapType \cup {Absent} /\ edits \in 0..MaxEdits
  BY DEF BaseInv, TypeInv, TypeOK
<1>2. /\ cm' \in ConfigMapType /\ cm'.managed = TRUE
      /\ cm = Absent => cm'.config = NoKey /\ cm'.marker = None
      /\ cm # Absent =>
           /\ cm'.config = cm.config /\ cm'.marker = cm.marker
           /\ cm'.override = cm.override /\ cm'.netLabel = cm.netLabel
           /\ cm'.upsLabel = cm.upsLabel /\ cm'.outName = cm.outName /\ cm'.uid = cm.uid
  BY <1>1, PublishedFacts
<1>3. cm' # Absent
  BY <1>2, AbsentAssumption
<1>4. RenderedOf(cm)' # Absent /\ RenderedOf(cm)'.managed
  <2>1. RenderedOf(cm)' # Absent
    BY <1>2, <1>3, PartsAbsent
  <2>2. RenderedOf(cm)'.managed = cm'.managed
    BY <1>3 DEF RenderedOf
  <2> QED
    BY <1>2, <2>1, <2>2
<1>5. CASE cm = Absent
  <2>1. NetOf(cm) = Absent /\ NetOf(cm)'.config = NoKey /\ NetOf(cm)'.marker = None
    BY <1>2, <1>3, <1>5 DEF NetOf
  <2> QED
    BY <1>4, <2>1 DEF Owners!Publish
<1>6. CASE cm # Absent
  <2>1. NetOf(cm)' = NetOf(cm) /\ UserOf(cm)' = UserOf(cm)
    BY <1>2, <1>3, <1>6 DEF NetOf, UserOf
  <2>2. NetOf(cm) # Absent
    BY <1>1, <1>6, PartsAbsent
  <2> QED
    BY <1>4, <2>1, <2>2 DEF Owners!Publish
<1> QED
  BY <1>5, <1>6

(***************************************************************************)
(* Three controllers and a user that write one object from cached copies   *)
(* implement one owner per key: each step of theirs is a step of KeyOwners *)
(* or leaves the ConfigMap alone.  A write happens only on a current copy  *)
(* (LagInv, OutcomeFacts), so that the pin a controller sees is the one    *)
(* the object has.                                                         *)
(***************************************************************************)
THEOREM ImplementsKeyOwners == Spec => OneOwnerPerKey
<1>1. BaseInv /\ Init => Owners!Init
  <2> SUFFICES ASSUME BaseInv, Init PROVE Owners!Init
    OBVIOUS
  <2>1. cm \in ConfigMapType \cup {Absent} /\ edits = 0
    BY DEF BaseInv, TypeInv, TypeOK, Init
  <2> QED
    BY <2>1, PartsAbsent DEF Owners!Init
<1>2. BaseInv /\ [Next]_vars => [Owners!Next]_Owners!vars
  <2> SUFFICES ASSUME BaseInv, [Next]_vars PROVE [Owners!Next]_Owners!vars
    OBVIOUS
  <2>0. TypeInv /\ LagInv
    BY DEF BaseInv
  <2>1. CASE EditConfigMap \/ EditCluster \/ Restart
    BY <2>1 DEF EditConfigMap, EditCluster, Restart, Edited, Owners!Next, Owners!Edit
  <2>2. CASE UNCHANGED <<cm, edits>>
    BY <2>2 DEF Owners!vars, NetOf, RenderedOf, UserOf
  <2>3. CASE NetVarsReconcile
    <3>1. edits' = edits
      BY <2>0, <2>3, NetVarsCases
    <3>2. CASE UNCHANGED cm
      BY <2>2, <3>1, <3>2
    <3>3. CASE /\ cm = ccm /\ Parsed(ccm.config) /\ ccm \in ConfigMapType
               /\ cm' = withNetVars(ccm, cnodes, Present(csvc))
      BY <3>1, <3>3, NetVarsOwns DEF Owners!Next
    <3> QED
      BY <2>0, <2>3, <3>2, <3>3, NetVarsCases
  <2>4. ASSUME NEW t \in Threads, writeConfigMapIfChanged(t) PROVE [Owners!Next]_Owners!vars
    <3>1. edits' = edits /\ plan[t] \in Worlds
      BY <2>0, <2>4, PublishCases
    <3>2. CASE UNCHANGED cm
      BY <2>2, <3>1, <3>2
    <3>3. CASE cm = ccm /\ cm' = Published(ccm, plan[t].ups)
      <4>1. plan[t].ups \in Files
        BY <3>1 DEF Files
      <4> QED
        BY <3>1, <3>3, <4>1, PublishOwns DEF Owners!Next
    <3> QED
      BY <2>0, <2>4, <3>2, <3>3, PublishCases
  <2>5. CASE \/ \E n \in OutNames : Collect(n)
             \/ DeliverConfigMap \/ DeliverWorld \/ DeliverService \/ DeliverNodes \/ DeliverQuietly
             \/ UpstreamsReconcile \/ UNCHANGED vars
             \/ \E t \in Threads : Begin(t) \/ projectCertsToSecret(t)
    <3>1. UNCHANGED <<cm, edits>>
      BY <2>5 DEF Collect, DeliverConfigMap, DeliverWorld, DeliverService, DeliverNodes,
                  DeliverQuietly, UpstreamsReconcile, Begin, projectCertsToSecret, vars, objects
    <3> QED
      BY <2>2, <3>1
  <2> QED
    BY <2>1, <2>3, <2>4, <2>5 DEF Next, RenderStep
<1> QED
  BY <1>1, <1>2, BaseAlways, PTL DEF Spec, Safety, OneOwnerPerKey, Owners!Spec
=============================================================================
