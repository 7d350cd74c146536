------------------------------ MODULE Workloads -----------------------------
(***************************************************************************)
(* Which workload a Pod belongs to (identity_producer.go) and which Pods a *)
(* label selector takes.  A Kubernetes name is the sequence of its parts   *)
(* between dashes; labels are a set of keys with their values, a label     *)
(* selector the set of labels it asks for.                                 *)
(***************************************************************************)
EXTENDS Naturals, Sequences, SequencesExt

CONSTANTS None,        \* nil
          HashLike,    \* parts of 5 to 10 lower-case letters and digits
          Ordinals     \* parts that are all digits

\* The hash a Deployment adds to its ReplicaSets' names; nothing is left of a
\* name that has one part only.
trimReplicaSetHash(name) ==
  IF Len(name) > 1 /\ Last(name) \in HashLike THEN Front(name) ELSE name

isOrdinalPod(podName, controllerName) ==
  Len(podName) > 1 /\ Front(podName) = controllerName /\ Last(podName) \in Ordinals

workloadIdentity(p) ==
  CASE p.owner = None /\ p.app # None -> <<p.app>>
    [] p.owner = None /\ p.app = None -> p.name
    [] p.owner # None /\ p.owner.kind = "ReplicaSet" -> trimReplicaSetHash(p.owner.name)
    [] p.owner # None /\ p.owner.kind # "ReplicaSet" ->
         IF isOrdinalPod(p.name, p.owner.name) THEN p.name ELSE p.owner.name

Ref(p) == <<p.ns, workloadIdentity(p)>>

\* A selector asks for nothing or for labels that are all there.
Matches(sel, labels) == sel \subseteq labels
=============================================================================
