------------------------------ MODULE Exposure ------------------------------
(***************************************************************************)
(* internetExposedRefs of classify.go: the workloads that a Service or an  *)
(* Ingress exposes to the internet.                                        *)
(***************************************************************************)
EXTENDS Workloads

ingressBacked(c) ==
  UNION {{<<ing.ns, s>> : s \in ing.backends \cup ({ing.defaultBackend} \ {None})} : ing \in c.ingresses}

\* Faulty: the name of a backend is looked up in any namespace.
exposingAnywhere(c) ==
  {s \in c.services : /\ s.selector # {}
                      /\ \/ s.type \in {"LoadBalancer", "NodePort"}
                         \/ \E b \in ingressBacked(c) : b[2] = s.name}

\* A Service without a selector selects nothing.
exposing(c) ==
  {s \in c.services : /\ s.selector # {}
                      /\ \/ s.type \in {"LoadBalancer", "NodePort"}
                         \/ <<s.ns, s.name>> \in ingressBacked(c)}

\* A key that is not there reads as the empty string.
selectorMatches(selector, labels) ==
  /\ selector # {}
  /\ \A l \in selector : l \in labels \/ (l[2] = "" /\ \A m \in labels : m[1] # l[1])

internetExposedRefs(c) ==
  {Ref(p) : p \in {p \in c.pods : \E s \in exposing(c) :
                                  s.ns = p.ns /\ selectorMatches(s.selector, p.labels)}}
=============================================================================
