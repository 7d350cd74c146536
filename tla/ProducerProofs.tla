--------------------------- MODULE ProducerProofs ---------------------------
(***************************************************************************)
(* Proofs about the producers: their loop (DeltaProducer), for any pods,   *)
(* addresses and pod states and any number of edits, ticks, failed         *)
(* requests and restarts; and what they say of a cluster (ClusterFacts).   *)
(***************************************************************************)
EXTENDS DeltaProducer, ClusterFacts, FiniteSetTheorems, TLAPS

\* The type invariant with the part of it that is not inductive alone: an
\* epoch is spent only on a restart, and every restart is a fault.
TypeInv == TypeOK /\ epoch <= faults + 1

\* The handlers are registered once, after the first baseline, and the loop
\* selects and posts only after that.
RegisteredInv ==
  /\ pc \in {"start", "register"} => ~registered
  /\ pc \in {"select", "post"} => registered

\* What is uploaded is the table the deltas are reckoned from.
UploadsIndex == pc = "upload" => snap = index

\* Until this process has registered, nobody has seen its epoch.
EpochUnseen == ~registered => follows # epoch

EmittedInv == RegisteredInv /\ UploadsIndex /\ EpochUnseen /\ IndexIsEmitted
-----------------------------------------------------------------------------
(* Every table the producer resolves is one, and so is the empty one. *)
LEMMA ResolvedTables == Empty \in Tables /\ \A ps : Resolve(ps) \subseteq Tables
  BY DEF Empty, Tables, Resolve

(* Where a delta leaves out a row that is not the same, the pod has lost   *)
(* labels with empty values: equalTo finds every other label it had, and    *)
(* there are as many.                                                      *)
LEMMA LeftOut ==
  ASSUME NEW t \in Tables, NEW u \in Tables, NEW ip \in IPs, ip \notin Diff(t, u), t[ip] # u[ip]
  PROVE  LostEmptyLabel(t[ip], u[ip])
<1>1. kind = "identity" /\ NoRow \notin {t[ip], u[ip]} /\ equalTo(t[ip], u[ip])
  BY DEF Diff
<1>2. PICK p \in PodStates, q \in PodStates : t[ip] = Row(p) /\ u[ip] = Row(q)
  BY <1>1 DEF Tables, Rows
<1>3. /\ t[ip].owner = p.owner /\ t[ip].labels = p.labels
      /\ u[ip].owner = q.owner /\ u[ip].labels = q.labels
  BY <1>2 DEF Row
<1>4. /\ p.owner = q.owner /\ Cardinality(p.labels) = Cardinality(q.labels)
      /\ \A l \in p.labels : l \in q.labels \/ (l[2] = "" /\ \A m \in q.labels : m[1] # l[1])
  BY <1>1, <1>3 DEF equalTo
<1>5. p.labels # q.labels
  BY <1>2, <1>4 DEF Row
<1>6. ~(p.labels \subseteq q.labels)
  BY <1>4, <1>5, PodAssumption, FS_Subset
<1>7. \E l \in p.labels : l[1] \notin {m[1] : m \in q.labels}
  BY <1>4, <1>6
<1> QED
  BY <1>1, <1>3, <1>4, <1>7 DEF LostEmptyLabel

(* A delta leaves its receiver a table that has the rows of the delta. *)
LEMMA Received ==
  ASSUME TypeOK, Receive
  PROVE  /\ view' \in Tables
         /\ follows' = epoch
         /\ \A ip \in IPs : view'[ip] = IF ip \in Diff(index, snap) THEN snap[ip] ELSE Held[ip]
<1>1. Held \in Tables
  BY DEF Held, TypeOK
<1> QED
  BY <1>1 DEF Receive, TypeOK, Tables
-----------------------------------------------------------------------------
LEMMA TypeStep == TypeInv /\ [Next]_vars => TypeInv'
<1> SUFFICES ASSUME TypeInv, [Next]_vars PROVE TypeInv'
  OBVIOUS
<1> USE BoundAssumption, ResolvedTables DEF TypeInv
<1>1. ASSUME NEW p \in Pods, Edit(p) PROVE TypeInv'
  BY <1>1 DEF Edit, TypeOK, loop, emitted, agent, history
<1>2. ASSUME NEW p \in Pods, Deliver(p) PROVE TypeInv'
  BY <1>2 DEF Deliver, TypeOK, emitted, agent, bounds, history
<1>3. ASSUME Build, UNCHANGED ticks \/ (ticks < MaxTicks /\ ticks' = ticks + 1)
      PROVE TypeInv'
  <2> PICK t \in Resolve(cache) : Build!1!(t)
    BY <1>3 DEF Build
  <2>1. snap' \in Tables /\ index' \in Tables
    OBVIOUS
  <2>2. drift' \subseteq IPs
    BY DEF Differ, Differing, TypeOK
  <2>3. pc' \in {"select", "register", "upload"}
    BY DEF Continue
  <2>4. unsent' \in BOOLEAN
    BY <1>3 DEF Build
  <2>5. ticks' \in 0..MaxTicks
    BY <1>3 DEF TypeOK
  <2>6. UNCHANGED <<kind, pods, cache, dirty, debounce, registered, seq, epoch, lastVersion,
                    base, view, follows, edits, faults, unsure>>
    BY <1>3 DEF Build, listed, agent
  <2> QED
    BY <2>1, <2>2, <2>3, <2>4, <2>5, <2>6 DEF TypeOK
<1>4. CASE Start
  BY <1>3, <1>4 DEF Start
<1>5. CASE Tick
  BY <1>3, <1>5 DEF Tick
<1>6. CASE Upload
  BY <1>6 DEF Upload, Continue, Version, TypeOK, listed, agent, bounds
<1>7. CASE UploadFails
  BY <1>7 DEF UploadFails, Continue, TypeOK, listed, emitted, agent
<1>8. CASE Register
  BY <1>8 DEF Register, Differing, TypeOK, listed, emitted, agent, bounds
<1>9. CASE Debounce
  BY <1>9 DEF Debounce, TypeOK, listed, emitted, agent, bounds, history
<1>10. CASE Flush
  BY <1>10 DEF Flush, TypeOK, listed, emitted, agent, bounds
<1>11. CASE Post
  <2>1. view' \in Tables /\ follows' = epoch
    BY <1>11, Received DEF Post
  <2>2. drift' \subseteq IPs
    BY <1>11 DEF Post, Differing, TypeOK
  <2> QED
    BY <1>11, <2>1, <2>2 DEF Post, TypeOK, listed, bounds
<1>12. CASE PostFails
  <2>1. view' \in Tables /\ follows' \in 0..epoch
    BY <1>12, Received DEF PostFails, TypeOK, agent
  <2>2. drift' \subseteq IPs
    BY <1>12 DEF PostFails, Differ, Diff, TypeOK
  <2> QED
    BY <1>12, <2>1, <2>2 DEF PostFails, TypeOK, listed, emitted
<1>13. CASE Restart
  <2>1. /\ dirty' \in BOOLEAN /\ registered' \in BOOLEAN
        /\ unsent' \in BOOLEAN /\ unsure' \in BOOLEAN
    BY <1>13 DEF Restart, Reset
  <2> QED
    BY <1>13, <2>1 DEF Restart, Reset, TypeOK, agent
<1>14. CASE UNCHANGED vars
  BY <1>14 DEF vars, TypeOK, listed, loop, emitted, agent, bounds, history
<1> QED
  BY <1>1, <1>2, <1>4, <1>5, <1>6, <1>7, <1>8, <1>9, <1>10, <1>11, <1>12, <1>13, <1>14
  DEF Next

(***************************************************************************)
(* identity_producer.go, edge_producer.go: the loop keeps tables, numbers  *)
(* and flags of their types; the timer is nil or running, never one that   *)
(* was already received from.                                              *)
(***************************************************************************)
THEOREM TypeCorrect == Spec => []TypeOK
<1>1. Init => TypeInv
  <2>1. Init => /\ dirty \in BOOLEAN /\ registered \in BOOLEAN
                /\ unsent \in BOOLEAN /\ unsure \in BOOLEAN
    BY DEF Init
  <2> QED
    BY <2>1, BoundAssumption, ResolvedTables DEF Init, TypeInv, TypeOK
<1>2. TypeInv => TypeOK
  BY DEF TypeInv
<1> QED
  BY <1>1, <1>2, TypeStep, PTL DEF Spec
-----------------------------------------------------------------------------
(* A change is noticed by the handler, held by the timer, or in the table. *)
LEMMA StaysCovered ==
  ASSUME NoLostChange, UNCHANGED <<kind, cache>>, Covered' = Covered, registered' => registered, Due => Due'
  PROVE  NoLostChange'
  BY DEF NoLostChange, AsGood, LostEmptyLabel

LEMMA CoveredAnew ==
  ASSUME NEW t, t \in Resolve(cache'), Covered' = t
  PROVE  NoLostChange'
  BY DEF NoLostChange, AsGood, LostEmptyLabel

LEMMA LostChangeStep ==
  TypeOK /\ NoLostChange /\ [Next]_vars => NoLostChange'
<1> SUFFICES ASSUME TypeOK, NoLostChange, [Next]_vars PROVE NoLostChange'
  OBVIOUS
<1> USE DEF Covered, Due
<1>1. ASSUME NEW p \in Pods, Edit(p) PROVE NoLostChange'
  BY <1>1, StaysCovered DEF Edit, loop, emitted, history
<1>2. ASSUME NEW p \in Pods, Deliver(p) PROVE NoLostChange'
  BY <1>2 DEF Deliver, NoLostChange
<1>3. ASSUME Build PROVE NoLostChange'
  <2>1. index' \in Resolve(cache) /\ pc' # "post"
    BY <1>3 DEF Build, Continue
  <2>2. UNCHANGED cache
    BY <1>3 DEF Build, listed
  <2> QED
    BY <2>1, <2>2, CoveredAnew
<1>4. CASE Start
  BY <1>3, <1>4 DEF Start
<1>5. CASE Tick
  BY <1>3, <1>5 DEF Tick
<1>6. CASE Upload
  BY <1>6, StaysCovered DEF Upload, Continue, listed
<1>7. CASE UploadFails
  BY <1>7, StaysCovered DEF UploadFails, Continue, listed, emitted
<1>8. CASE Register
  BY <1>8 DEF Register, NoLostChange
<1>9. CASE Debounce
  BY <1>9 DEF Debounce, NoLostChange, TypeOK
<1>10. CASE Flush
  <2> PICK t \in Resolve(cache) : snap' = t /\ pc' = IF Diff(index, t) = {} THEN "select" ELSE "post"
    BY <1>10 DEF Flush
  <2>1. UNCHANGED <<kind, cache, index>>
    BY <1>10 DEF Flush, listed, emitted
  <2>2. CASE Diff(index, t) = {}
    <3>1. t \in Tables /\ index \in Tables
      BY ResolvedTables DEF TypeOK
    <3>2. AsGood(index, t)
      BY <2>2, <3>1, LeftOut DEF AsGood
    <3>3. AsGood(Covered, t)'
      BY <2>1, <2>2, <3>2 DEF AsGood, LostEmptyLabel
    <3> QED
      BY <2>1, <3>3 DEF NoLostChange
  <2>3. CASE Diff(index, t) # {}
    BY <2>1, <2>3, CoveredAnew
  <2> QED
    BY <2>2, <2>3
<1>11. CASE Post
  BY <1>11, StaysCovered DEF Post, listed
<1>12. CASE PostFails
  BY <1>12 DEF PostFails, NoLostChange
<1>13. CASE Restart
  BY <1>13 DEF Restart, Reset, NoLostChange
<1>14. CASE UNCHANGED vars
  BY <1>14, StaysCovered DEF vars, listed, loop, emitted, history
<1> QED
  BY <1>1, <1>2, <1>4, <1>5, <1>6, <1>7, <1>8, <1>9, <1>10, <1>11, <1>12, <1>13, <1>14
  DEF Next

(***************************************************************************)
(* identity_producer.go (Start, flushDelta): whatever the interleaving of  *)
(* events, the timer, requests and ticks, a change that was not emitted    *)
(* has an event in the channel or a running timer, unless a POST failed or *)
(* it took a label with an empty value from a pod (equalTo).               *)
(***************************************************************************)
THEOREM ChangesAreKept == Spec => []NoLostChange
<1>1. Init => NoLostChange
  BY DEF Init, NoLostChange
<1> QED
  BY <1>1, TypeCorrect, LostChangeStep, PTL DEF Spec
-----------------------------------------------------------------------------
(***************************************************************************)
(* uploadBaseline: lastVersion is remembered only with the upload that     *)
(* stored it, so the baseline that a skipped upload leaves in the          *)
(* download-api is of that version, unless an upload was stored and its    *)
(* answer lost.                                                            *)
(***************************************************************************)
THEOREM SkippedUploads == Spec => []SkipIsSafe
<1>1. Init => SkipIsSafe
  BY DEF Init, SkipIsSafe
<1>2. SkipIsSafe /\ [Next]_vars => SkipIsSafe'
  <2> SUFFICES ASSUME SkipIsSafe, [Next]_vars PROVE SkipIsSafe'
    OBVIOUS
  <2> USE DEF SkipIsSafe, Version
  <2>1. ASSUME UNCHANGED <<kind, lastVersion, base, unsure>> PROVE SkipIsSafe'
    BY <2>1
  <2>2. ASSUME NEW p \in Pods, Edit(p) \/ Deliver(p) PROVE SkipIsSafe'
    BY <2>1, <2>2 DEF Edit, Deliver, emitted, history
  <2>3. CASE Start \/ Tick
    BY <2>1, <2>3 DEF Start, Tick, Build
  <2>4. CASE Upload
    BY <2>4 DEF Upload
  <2>5. CASE UploadFails
    BY <2>5 DEF UploadFails, emitted
  <2>6. CASE Register \/ Debounce \/ Flush \/ Post \/ PostFails
    BY <2>1, <2>6 DEF Register, Debounce, Flush, Post, PostFails, emitted, history
  <2>7. CASE Restart
    BY <2>7 DEF Restart, Reset
  <2>8. CASE UNCHANGED vars
    BY <2>1, <2>8 DEF vars, emitted, history
  <2> QED
    BY <2>2, <2>3, <2>4, <2>5, <2>6, <2>7, <2>8 DEF Next
<1> QED
  BY <1>1, <1>2, PTL DEF Spec
-----------------------------------------------------------------------------
(* The rows in which the follower and the diff base differ are accounted    *)
(* for by every step.                                                       *)
LEMMA EmittedStep ==
  TypeOK /\ EmittedInv /\ [Next]_vars => EmittedInv'
<1> SUFFICES ASSUME TypeOK, EmittedInv, [Next]_vars PROVE EmittedInv'
  OBVIOUS
<1> USE DEF TypeOK, EmittedInv, RegisteredInv, UploadsIndex, EpochUnseen, IndexIsEmitted,
            Held, Differing
<1>1. ASSUME NEW p \in Pods, Edit(p) PROVE EmittedInv'
  BY <1>1 DEF Edit, loop, emitted, agent, history
<1>2. ASSUME NEW p \in Pods, Deliver(p) PROVE EmittedInv'
  BY <1>2 DEF Deliver, emitted, agent, history
<1>3. ASSUME Build PROVE EmittedInv'
  <2> PICK t \in Resolve(cache) : Build!1!(t)
    BY <1>3 DEF Build
  <2>1. UNCHANGED <<registered, epoch, base, view, follows>>
    BY <1>3 DEF Build, agent
  <2>2. snap' = t /\ index' = t /\ drift' = Differ(drift \cup Differing(index, t), Held, t)
    OBVIOUS
  <2>3. IndexIsEmitted'
    BY <2>1, <2>2 DEF Differ
  <2>4. pc' = "upload" \/ pc' = (IF registered THEN "select" ELSE "register")
    BY DEF Continue
  <2> QED
    BY <2>1, <2>2, <2>3, <2>4
<1>4. CASE Start
  BY <1>3, <1>4 DEF Start
<1>5. CASE Tick
  BY <1>3, <1>5 DEF Tick
<1>6. CASE Upload
  BY <1>6 DEF Upload, Continue, agent
<1>7. CASE UploadFails
  BY <1>7 DEF UploadFails, Continue, emitted, agent
<1>8. CASE Register
  BY <1>8 DEF Register, emitted, agent
<1>9. CASE Debounce
  BY <1>9 DEF Debounce, emitted, agent, history
<1>10. CASE Flush
  BY <1>10 DEF Flush, emitted, agent
<1>11. CASE Post
  <2>1. /\ follows' = epoch
        /\ \A ip \in IPs : view'[ip] = IF ip \in Diff(index, snap) THEN snap[ip] ELSE Held[ip]
    BY <1>11, Received DEF Post
  <2> QED
    BY <1>11, <2>1 DEF Post
<1>12. CASE PostFails
  <2>1. CASE UNCHANGED agent /\ drift' = Differ(drift, Held, index)
    BY <1>12, <2>1 DEF PostFails, Differ, emitted, agent
  <2>2. CASE Receive /\ drift' = Differ(drift \cup Diff(index, snap), view', index)
    <3>1. /\ follows' = epoch
          /\ \A ip \in IPs : view'[ip] = IF ip \in Diff(index, snap) THEN snap[ip] ELSE Held[ip]
      BY <2>2, Received
    <3>2. UNCHANGED <<registered, index, epoch>> /\ pc' = "select" /\ registered
      BY <1>12 DEF PostFails, emitted
    <3> QED
      BY <2>2, <3>1, <3>2 DEF Differ
  <2> QED
    BY <1>12, <2>1, <2>2 DEF PostFails
<1>13. CASE Restart
  BY <1>13 DEF Restart, Reset, agent
<1>14. CASE UNCHANGED vars
  BY <1>14 DEF vars, loop, emitted, agent, history
<1> QED
  BY <1>1, <1>2, <1>4, <1>5, <1>6, <1>7, <1>8, <1>9, <1>10, <1>11, <1>12, <1>13, <1>14
  DEF Next

(***************************************************************************)
(* flushDelta and buildAndUpload: r.index differs from what a follower     *)
(* without gaps holds only in rows a baseline reseeded, in those of a      *)
(* failed upload, in those of a delta relayed though its POST failed and   *)
(* in those that equalTo kept out of a delta; a restart, with its new      *)
(* epoch, adds none.                                                       *)
(***************************************************************************)
THEOREM DiffBaseIsEmitted == Spec => []IndexIsEmitted
<1>1. Init => EmittedInv
  BY DEF Init, EmittedInv, RegisteredInv, UploadsIndex, EpochUnseen, IndexIsEmitted
<1>2. EmittedInv => IndexIsEmitted
  BY DEF EmittedInv
<1> QED
  BY <1>1, <1>2, TypeCorrect, EmittedStep, PTL DEF Spec
-----------------------------------------------------------------------------
(***************************************************************************)
(* What the producers say of a cluster: ClusterFacts, for any Pods,        *)
(* namespaces, Services and Ingresses and any number of policies.  The     *)
(* objects stay what the assumptions say of them; the rest is about one    *)
(* cluster.                                                                *)
(***************************************************************************)
ClusterType ==
  cluster \in [pods : PodSets, namespaces : Namespaces, policies : SUBSET Policies,
               services : ServiceSets, ingresses : IngressSets \cup {{}}]

LEMMA ClusterTyped == ClusterSpec => []ClusterType
<1>1. ClusterInit => ClusterType
  BY DEF ClusterInit, ClusterType
<1>2. ClusterType /\ [ClusterNext]_cluster => ClusterType'
  <2> SUFFICES ASSUME ClusterType, [ClusterNext]_cluster PROVE ClusterType'
    OBVIOUS
  <2> USE DEF ClusterType
  <2>1. ASSUME NEW np \in Policies, WritePolicy(np) \/ DeletePolicy(np) PROVE ClusterType'
    BY <2>1 DEF WritePolicy, DeletePolicy
  <2>2. CASE Roll
    BY <2>2 DEF Roll
  <2>3. CASE Relabel
    BY <2>3 DEF Relabel
  <2>4. CASE Expose
    BY <2>4 DEF Expose
  <2>5. CASE UNCHANGED cluster
    BY <2>5
  <2> QED
    BY <2>1, <2>2, <2>3, <2>4, <2>5 DEF ClusterNext
<1> QED
  BY <1>1, <1>2, PTL DEF ClusterSpec
-----------------------------------------------------------------------------
(* No workload is called "*". *)
LEMMA RefIsNotAny == \A p : Ref(p) # AnyRef
  BY DEF Ref, AnyRef

(* The code selects the Pods that the cluster selects. *)
LEMMA SelectedPodsOf ==
  ASSUME NEW np
  PROVE  podsMatching(cluster.pods, np.ns, np.podSelector) = Selected(np)
  BY DEF podsMatching, Addressable, Selects, Selected

LEMMA SelectedRefsOf ==
  ASSUME NEW np
  PROVE  SelectedRefs(np, cluster) = {Ref(p) : p \in Selected(np)}
  BY DEF SelectedRefs, workloadSet, podsMatching, Addressable, Selects, Selected, Ref

(* The code resolves a peer, in every one of its forms, to the Pods that   *)
(* the peer takes.                                                         *)
LEMMA PeerPodsOf ==
  ASSUME ClusterType, NEW np, NEW peer
  PROVE  peerPods(peer, np.ns, cluster.pods, cluster.namespaces)
           = {p \in Addressable : PeerTakes(peer, np, p)}
<1>1. \A p \in cluster.pods : p.ns \in DOMAIN cluster.namespaces
  BY NamespaceAssumption DEF ClusterType
<1>2. CASE peer.ipBlock
  BY <1>2 DEF peerPods, PeerTakes
<1>3. CASE ~peer.ipBlock /\ peer.namespaceSelector = None
  <2>1. peerPods(peer, np.ns, cluster.pods, cluster.namespaces)
          = PeerPodsIn({np.ns}, peer, cluster.pods)
    BY <1>3 DEF peerPods
  <2> QED
    BY <1>3, <2>1 DEF PeerPodsIn, podsMatching, Addressable, PeerTakes, Matches
<1>4. CASE ~peer.ipBlock /\ peer.namespaceSelector # None
  <2> DEFINE nss == {ns \in DOMAIN cluster.namespaces :
                       Matches(peer.namespaceSelector, cluster.namespaces[ns])}
  <2>1. peerPods(peer, np.ns, cluster.pods, cluster.namespaces)
          = PeerPodsIn(nss, peer, cluster.pods)
    BY <1>4 DEF peerPods
  <2> QED
    BY <1>1, <1>4, <2>1 DEF PeerPodsIn, podsMatching, Addressable, PeerTakes, Matches
<1> QED
  BY <1>2, <1>3, <1>4

LEMMA RulePodsOf ==
  ASSUME ClusterType, NEW np, NEW rule
  PROVE  UNION {peerPods(peer, np.ns, cluster.pods, cluster.namespaces) : peer \in rule.peers}
           = Taken(rule, np)
  BY PeerPodsOf DEF Taken

LEMMA RuleRefsOf ==
  ASSUME ClusterType, NEW np, NEW rule
  PROVE  RuleRefs(rule, np, cluster)
           = IF rule.peers = {} THEN {AnyRef} ELSE {Ref(p) : p \in Taken(rule, np)}
  BY PeerPodsOf DEF RuleRefs, peerWorkloadRefs, Taken
-----------------------------------------------------------------------------
(* The lines, one policy and one rule at a time. *)
LEMMA EdgeIn ==
  ASSUME NEW A, NEW B, NEW C, NEW e
  PROVE  e \in Edges(A, B, C) <=> \E a \in A, b \in B, c \in C : e = [src |-> a, dst |-> b, port |-> c]
  BY DEF Edges

FromIngress(np, rule) ==
  Edges(RuleRefs(rule, np, cluster), SelectedRefs(np, cluster), portStrings(rule.ports, Selected(np)))

FromEgress(np, rule) ==
  Edges(SelectedRefs(np, cluster), RuleRefs(rule, np, cluster), portStrings(rule.ports, Taken(rule, np)))

LEMMA EdgeLine ==
  ASSUME ClusterType, NEW e
  PROVE  e \in computeEdgeLines(cluster).E <=>
           \E np \in cluster.policies :
             \/ policyHasIngress(np) /\ \E rule \in np.ingress : e \in FromIngress(np, rule)
             \/ policyHasEgress(np) /\ \E rule \in np.egress : e \in FromEgress(np, rule)
<1>1. computeEdgeLines(cluster).E
        = UNION ({IngressEdges(np, cluster) : np \in {np \in cluster.policies : policyHasIngress(np)}}
                 \cup {EgressEdges(np, cluster) : np \in {np \in cluster.policies : policyHasEgress(np)}})
  BY DEF computeEdgeLines
<1>2. e \in computeEdgeLines(cluster).E <=>
        \E np \in cluster.policies : \/ policyHasIngress(np) /\ e \in IngressEdges(np, cluster)
                                     \/ policyHasEgress(np) /\ e \in EgressEdges(np, cluster)
  BY <1>1
<1>3. \A np : e \in IngressEdges(np, cluster) <=> \E rule \in np.ingress : e \in FromIngress(np, rule)
  BY SelectedPodsOf DEF IngressEdges, FromIngress
<1>4. \A np : e \in EgressEdges(np, cluster) <=> \E rule \in np.egress : e \in FromEgress(np, rule)
  BY RulePodsOf DEF EgressEdges, FromEgress
<1> QED
  BY <1>2, <1>3, <1>4

LEMMA NamedPorts ==
  ASSUME NEW ps, NEW name, NEW m
  PROVE  m \in resolveNamedPort(ps, name) <=>
           \E p \in ps : \E cp \in p.ports : cp.name = name /\ cp.number = m
  BY DEF resolveNamedPort
-----------------------------------------------------------------------------
(***************************************************************************)
(* What the cluster allows, the lines let pass.                            *)
(***************************************************************************)
LEMMA PortLine ==
  ASSUME NEW ports, NEW ps, NEW port \in ports
  PROVE  /\ port.type = "nil" => AnyPort \in portStrings(ports, ps)
         /\ port.type = "Int" => port.number \in portStrings(ports, ps)
         /\ port.type = "String" =>
              IF resolveNamedPort(ps, port.name) = {} THEN AnyPort \in portStrings(ports, ps)
              ELSE resolveNamedPort(ps, port.name) \subseteq portStrings(ports, ps)
  BY DEF portStrings

(* A port that is taken on d passes when d is one of the destinations the  *)
(* names are looked up in, and when there are none.                        *)
LEMMA PortPasses ==
  ASSUME NEW ports, NEW ps, NEW d, NEW n, ps = {} \/ d \in ps,
         ports = {} \/ \E port \in ports : PortTakes(port, d, n)
  PROVE  \E m \in portStrings(ports, ps) : m \in {AnyPort, n}
<1>1. CASE ports = {}
  BY <1>1 DEF portStrings
<1>2. CASE ports # {}
  <2> PICK port \in ports : PortTakes(port, d, n)
    BY <1>2
  <2>1. CASE port.type = "nil"
    BY <2>1, PortLine
  <2>2. CASE port.type = "Int" /\ port.number = n
    BY <2>2, PortLine
  <2>3. CASE port.type = "String" /\ \E cp \in d.ports : cp.name = port.name /\ cp.number = n
    <3>1. d \in ps => n \in resolveNamedPort(ps, port.name)
      BY <2>3, NamedPorts
    <3>2. ps = {} => resolveNamedPort(ps, port.name) = {}
      BY NamedPorts
    <3> QED
      BY <2>3, <3>1, <3>2, PortLine
  <2> QED
    BY <2>1, <2>2, <2>3 DEF PortTakes
<1> QED
  BY <1>1, <1>2

LEMMA RulePasses ==
  ASSUME ClusterType, NEW np, NEW rule, NEW p \in Addressable, NEW d, NEW n, RuleTakes(rule, np, p, d, n)
  PROVE  /\ \E r \in RuleRefs(rule, np, cluster) : r \in {AnyRef, Ref(p)}
         /\ Taken(rule, np) = {} \/ p \in Taken(rule, np)
         /\ rule.ports = {} \/ \E port \in rule.ports : PortTakes(port, d, n)
  BY RuleRefsOf DEF RuleTakes, Taken

LEMMA EdgeDeclares ==
  ASSUME NEW s, NEW d, NEW n, NEW A, NEW B, NEW C, NEW lines,
         Edges(A, B, C) \subseteq lines.E,
         \E a \in A : a \in {AnyRef, Ref(s)},
         \E b \in B : b \in {AnyRef, Ref(d)},
         \E c \in C : c \in {AnyPort, n}
  PROVE  Declared(lines, s, d, n)
<1> PICK a \in A, b \in B, c \in C : a \in {AnyRef, Ref(s)} /\ b \in {AnyRef, Ref(d)} /\ c \in {AnyPort, n}
  OBVIOUS
<1> DEFINE e == [src |-> a, dst |-> b, port |-> c]
<1>1. e \in lines.E
  BY EdgeIn
<1>2. e.src = a /\ e.dst = b /\ e.port = c
  OBVIOUS
<1> HIDE DEF e
<1> QED
  BY <1>1, <1>2 DEF Declared

LEMMA AllowedPasses == ClusterType => NoFalseViolation
<1> DEFINE lines == computeEdgeLines(cluster)
<1> SUFFICES ASSUME ClusterType, NEW s \in Addressable, NEW d \in Addressable, Governed(lines, s, d),
                    ~Overread(lines, s, d), NEW n \in Flows, Allowed(s, d, n)
             PROVE  Declared(lines, s, d, n)
  BY DEF NoFalseViolation
<1>1. CASE Ref(d) \in lines.G
  <2>1. Restricting("Ingress", d) # {}
    BY <1>1 DEF Overread
  <2>2. PICK np \in Restricting("Ingress", d) : \E rule \in np.ingress : RuleTakes(rule, np, s, d, n)
    BY <2>1 DEF Allowed
  <2>3. PICK rule \in np.ingress : RuleTakes(rule, np, s, d, n)
    BY <2>2
  <2>4. np \in cluster.policies /\ policyHasIngress(np) /\ d \in Selected(np)
    BY DEF Restricting, Types, policyHasIngress, Selected
  <2>5. FromIngress(np, rule) \subseteq lines.E
    BY <2>4, EdgeLine
  <2>6. Ref(d) \in SelectedRefs(np, cluster)
    BY <2>4, SelectedRefsOf
  <2>7. \E r \in RuleRefs(rule, np, cluster) : r \in {AnyRef, Ref(s)}
    BY <2>3, RulePasses
  <2>8. \E m \in portStrings(rule.ports, Selected(np)) : m \in {AnyPort, n}
    BY <2>3, <2>4, RulePasses, PortPasses
  <2> HIDE DEF lines
  <2> QED
    BY <2>5, <2>6, <2>7, <2>8, EdgeDeclares DEF FromIngress
<1>2. CASE Ref(s) \in lines.S
  <2>1. Restricting("Egress", s) # {}
    BY <1>2 DEF Overread
  <2>2. PICK np \in Restricting("Egress", s) : \E rule \in np.egress : RuleTakes(rule, np, d, d, n)
    BY <2>1 DEF Allowed
  <2>3. PICK rule \in np.egress : RuleTakes(rule, np, d, d, n)
    BY <2>2
  <2>4. np \in cluster.policies /\ policyHasEgress(np) /\ s \in Selected(np)
    BY DEF Restricting, Types, policyHasEgress, Selected
  <2>5. FromEgress(np, rule) \subseteq lines.E
    BY <2>4, EdgeLine
  <2>6. Ref(s) \in SelectedRefs(np, cluster)
    BY <2>4, SelectedRefsOf
  <2>7. \E r \in RuleRefs(rule, np, cluster) : r \in {AnyRef, Ref(d)}
    BY <2>3, RulePasses
  <2>8. \E m \in portStrings(rule.ports, Taken(rule, np)) : m \in {AnyPort, n}
    BY <2>3, RulePasses, PortPasses
  <2> HIDE DEF lines
  <2> QED
    BY <2>5, <2>6, <2>7, <2>8, EdgeDeclares DEF FromEgress
<1> QED
  BY <1>1, <1>2 DEF Governed

(* Whatever policies govern the two ends, in either direction, the lines   *)
(* that computeEdgeLines compiles let pass every flow the policies allow.  *)
THEOREM NoFalseViolations == ClusterSpec => []NoFalseViolation
  BY ClusterTyped, AllowedPasses, PTL
-----------------------------------------------------------------------------
(***************************************************************************)
(* What the lines let pass, a policy says.                                 *)
(***************************************************************************)
LEMMA PortsOf ==
  ASSUME NEW ports, NEW ps, NEW m \in portStrings(ports, ps), ports # {},
         \A port \in ports : port.type \in {"nil", "Int", "String"}
  PROVE  \E port \in ports :
           \/ port.type = "nil"
           \/ port.type = "Int" /\ m = port.number
           \/ /\ port.type = "String"
              /\ m \in resolveNamedPort(ps, port.name) \/ resolveNamedPort(ps, port.name) = {}
<1> DEFINE Of(port) == CASE port.type = "nil"    -> {AnyPort}
                         [] port.type = "Int"    -> {port.number}
                         [] port.type = "String" ->
                              IF resolveNamedPort(ps, port.name) = {} THEN {AnyPort}
                              ELSE resolveNamedPort(ps, port.name)
<1>1. portStrings(ports, ps) = UNION {Of(port) : port \in ports}
  BY DEF portStrings
<1>2. PICK port \in ports : m \in Of(port)
  <2> HIDE DEF Of
  <2> QED
    BY <1>1
<1> QED
  BY <1>2

(* Port n of a line, or any port, stands for a port of the rule. *)
LEMMA PortWritten ==
  ASSUME ClusterType, NEW np \in cluster.policies, NEW rule \in np.ingress \cup np.egress,
         NEW ps \in SUBSET cluster.pods, NEW n \in Flows,
         NEW m \in portStrings(rule.ports, ps), m \in {AnyPort, n}
  PROVE  PortMeant(rule, ps, n)
<1> SUFFICES ASSUME rule.ports # {} PROVE PortMeant(rule, ps, n)
  BY DEF PortMeant
<1>1. np \in Policies /\ n # AnyPort
  BY FlowAssumption DEF ClusterType
<1>2. \A port \in rule.ports : /\ port.type \in {"nil", "Int", "String"}
                               /\ port.type = "Int" => port.number # AnyPort
  BY <1>1, PortAssumption
<1>3. \A p \in ps : \A cp \in p.ports : cp.number # AnyPort
  BY PortAssumption DEF ClusterType
<1>4. PICK port \in rule.ports :
         \/ port.type = "nil"
         \/ port.type = "Int" /\ m = port.number
         \/ /\ port.type = "String"
            /\ m \in resolveNamedPort(ps, port.name) \/ resolveNamedPort(ps, port.name) = {}
  BY <1>2, PortsOf
<1>5. CASE port.type = "nil"
  BY <1>5 DEF PortMeant
<1>6. CASE port.type = "Int" /\ m = port.number
  BY <1>2, <1>6 DEF PortMeant
<1>7. CASE port.type = "String" /\ m \in resolveNamedPort(ps, port.name)
  <2>1. PICK q \in ps : \E cp \in q.ports : cp.name = port.name /\ cp.number = m
    BY <1>7, NamedPorts
  <2>2. m = n
    BY <1>3, <2>1
  <2>3. PortTakes(port, q, n)
    BY <1>7, <2>1, <2>2 DEF PortTakes
  <2> QED
    BY <2>3 DEF PortMeant
<1>8. CASE port.type = "String" /\ resolveNamedPort(ps, port.name) = {}
  <2>1. ASSUME NEW q \in ps, NEW cp \in q.ports PROVE cp.name # port.name
    <3>1. cp.number \notin resolveNamedPort(ps, port.name)
      BY <1>8
    <3> QED
      BY <3>1, NamedPorts
  <2> QED
    BY <1>8, <2>1 DEF PortMeant
<1> QED
  BY <1>4, <1>5, <1>6, <1>7, <1>8

LEMMA PeerWritten ==
  ASSUME ClusterType, NEW np, NEW rule, NEW s, NEW r \in RuleRefs(rule, np, cluster), r \in {AnyRef, Ref(s)}
  PROVE  rule.peers = {} \/ \E peer \in rule.peers, p \in Alike(s) : PeerTakes(peer, np, p)
<1> SUFFICES ASSUME rule.peers # {}
             PROVE  \E peer \in rule.peers, p \in Alike(s) : PeerTakes(peer, np, p)
  OBVIOUS
<1>1. PICK p \in Taken(rule, np) : r = Ref(p)
  BY RuleRefsOf
<1>2. Ref(p) = Ref(s)
  BY <1>1, RefIsNotAny
<1> QED
  BY <1>2 DEF Taken, Alike

LEMMA SelectedWritten ==
  ASSUME NEW np, NEW d, NEW r \in SelectedRefs(np, cluster), r \in {AnyRef, Ref(d)}
  PROVE  Alike(d) \cap Selected(np) # {}
<1>1. PICK p \in Selected(np) : r = Ref(p)
  BY SelectedRefsOf
<1>2. Ref(p) = Ref(d)
  BY <1>1, RefIsNotAny
<1> QED
  BY <1>2 DEF Alike, Selected

LEMMA DeclaredIsWritten == ClusterType => NothingUndeclared
<1> DEFINE lines == computeEdgeLines(cluster)
<1> SUFFICES ASSUME ClusterType, NEW s \in Addressable, NEW d \in Addressable, NEW n \in Flows,
                    Declared(lines, s, d, n)
             PROVE  \E np \in cluster.policies : Written(np, s, d, n)
  BY DEF NothingUndeclared
<1>1. PICK e \in lines.E : e.src \in {AnyRef, Ref(s)} /\ e.dst \in {AnyRef, Ref(d)} /\ e.port \in {AnyPort, n}
  BY DEF Declared
<1>2. PICK np \in cluster.policies : \/ \E rule \in np.ingress : e \in FromIngress(np, rule)
                                     \/ \E rule \in np.egress : e \in FromEgress(np, rule)
  BY EdgeLine
<1>3. Selected(np) \subseteq cluster.pods /\ \A rule : Taken(rule, np) \subseteq cluster.pods
  BY DEF Selected, Taken, Addressable
<1>4. ASSUME NEW rule \in np.ingress, e \in FromIngress(np, rule) PROVE Written(np, s, d, n)
  <2>1. /\ e.src \in RuleRefs(rule, np, cluster) /\ e.dst \in SelectedRefs(np, cluster)
        /\ e.port \in portStrings(rule.ports, Selected(np))
    BY <1>4, EdgeIn DEF FromIngress
  <2>2. Alike(d) \cap Selected(np) # {}
    BY <1>1, <2>1, SelectedWritten
  <2>3. rule.peers = {} \/ \E peer \in rule.peers, p \in Alike(s) : PeerTakes(peer, np, p)
    BY <1>1, <2>1, PeerWritten
  <2>4. PortMeant(rule, Selected(np), n)
    BY <1>1, <1>3, <2>1, PortWritten
  <2> QED
    BY <2>2, <2>3, <2>4 DEF Written, Meant
<1>5. ASSUME NEW rule \in np.egress, e \in FromEgress(np, rule) PROVE Written(np, s, d, n)
  <2>1. /\ e.src \in SelectedRefs(np, cluster) /\ e.dst \in RuleRefs(rule, np, cluster)
        /\ e.port \in portStrings(rule.ports, Taken(rule, np))
    BY <1>5, EdgeIn DEF FromEgress
  <2>2. Alike(s) \cap Selected(np) # {}
    BY <1>1, <2>1, SelectedWritten
  <2>3. rule.peers = {} \/ \E peer \in rule.peers, p \in Alike(d) : PeerTakes(peer, np, p)
    BY <1>1, <2>1, PeerWritten
  <2>4. PortMeant(rule, Taken(rule, np), n)
    BY <1>1, <1>3, <2>1, PortWritten
  <2> QED
    BY <2>2, <2>3, <2>4 DEF Written, Meant
<1> QED
  BY <1>2, <1>4, <1>5

(* A flow between governed workloads that the compiled lines let pass is   *)
(* one that a rule of a policy over one of the two workloads names.        *)
THEOREM NothingDeclaredUnwritten == ClusterSpec => []NothingUndeclared
  BY ClusterTyped, DeclaredIsWritten, PTL
-----------------------------------------------------------------------------
(***************************************************************************)
(* Exposure.                                                               *)
(***************************************************************************)
LEMMA Backed ==
  ASSUME NEW ns, NEW name, name # None
  PROVE  <<ns, name>> \in ingressBacked(cluster) <=>
           \E ing \in cluster.ingresses : ing.ns = ns /\ (name = ing.defaultBackend \/ name \in ing.backends)
  BY DEF ingressBacked

LEMMA OutwardExposes ==
  ASSUME ClusterType, NEW s \in cluster.services
  PROVE  s \in exposing(cluster) <=> Outward(s) /\ s.selector # {}
<1>1. /\ s.name # None
      /\ s.type \notin {"ClusterIP", "ExternalName"} <=> s.type \in {"LoadBalancer", "NodePort"}
  BY ServiceAssumption DEF ClusterType
<1>2. <<s.ns, s.name>> \in ingressBacked(cluster) <=>
        \E ing \in cluster.ingresses : ing.ns = s.ns /\ (s.name = ing.defaultBackend \/ s.name \in ing.backends)
  BY <1>1, Backed
<1> QED
  BY <1>1, <1>2 DEF Outward, exposing

(* The code matches all that a selector takes, and what it asks of a Pod   *)
(* that it does not take is a label without a value.                       *)
LEMMA SelectorTakes ==
  ASSUME NEW sel, NEW labels, sel # {}
  PROVE  /\ Matches(sel, labels) => selectorMatches(sel, labels)
         /\ selectorMatches(sel, labels) =>
              \/ Matches(sel, labels)
              \/ (\E l \in sel : l[2] = "") /\ \A l \in sel : l[2] # "" => l \in labels
  BY DEF Matches, selectorMatches

LEMMA ExposingReaches ==
  ASSUME ClusterType, NEW p
  PROVE  LET taken == \E s \in exposing(cluster) : s.ns = p.ns /\ selectorMatches(s.selector, p.labels)
         IN (Reachable(p) => taken) /\ (taken => Reachable(p) \/ BlankSelected(p))
<1>1. ASSUME Reachable(p)
      PROVE  \E s \in exposing(cluster) : s.ns = p.ns /\ selectorMatches(s.selector, p.labels)
  <2> PICK s \in cluster.services : Outward(s) /\ s.ns = p.ns /\ s.selector # {} /\ Matches(s.selector, p.labels)
    BY <1>1 DEF Reachable
  <2> QED
    BY OutwardExposes, SelectorTakes
<1>2. ASSUME NEW s \in exposing(cluster), s.ns = p.ns, selectorMatches(s.selector, p.labels)
      PROVE  Reachable(p) \/ BlankSelected(p)
  <2>1. s \in cluster.services /\ Outward(s) /\ s.selector # {}
    BY OutwardExposes DEF exposing
  <2>2. CASE Matches(s.selector, p.labels)
    BY <1>2, <2>1, <2>2 DEF Reachable
  <2>3. CASE (\E l \in s.selector : l[2] = "") /\ \A l \in s.selector : l[2] # "" => l \in p.labels
    BY <1>2, <2>1, <2>3 DEF BlankSelected
  <2> QED
    BY <1>2, <2>1, <2>2, <2>3, SelectorTakes
<1> QED
  BY <1>1, <1>2

LEMMA ExposedReaches == ClusterType => ExposedIsReachable
<1> SUFFICES ASSUME ClusterType, NEW p \in cluster.pods
             PROVE  /\ Exposed(p) => Flagged(p)
                    /\ Flagged(p) => Exposed(p) \/ \E q \in cluster.pods : Ref(q) = Ref(p) /\ BlankSelected(q)
  BY DEF ExposedIsReachable
<1>1. Flagged(p) <=>
        \E q \in cluster.pods :
          /\ Ref(q) = Ref(p)
          /\ \E s \in exposing(cluster) : s.ns = q.ns /\ selectorMatches(s.selector, q.labels)
  BY DEF Flagged, internetExposedRefs
<1> QED
  BY <1>1, ExposingReaches DEF Exposed

(* internetExposedRefs flags every workload with a Pod that a request from *)
(* outside can reach, and none else but by a selector that asks for a      *)
(* label without a value.                                                  *)
THEOREM ExposureIsReach == ClusterSpec => []ExposedIsReachable
  BY ClusterTyped, ExposedReaches, PTL
=============================================================================
