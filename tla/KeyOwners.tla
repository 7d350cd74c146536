------------------------------ MODULE KeyOwners ------------------------------
(***************************************************************************)
(* What the writers of one ConfigMap promise each other, though each reads *)
(* it from a cache and writes the whole object back: every part of it has  *)
(* one owner.  The netvars resolver owns config.yaml and its marker, where *)
(* no user has pinned HOME_NET; the ingress controller owns upstreams.yaml *)
(* and its label; the user, who edits through the API server, owns the     *)
(* rest and may change anything.  Nobody undoes what another has written.  *)
(***************************************************************************)
EXTENDS Naturals

CONSTANTS Absent, None, Any, NoKey, Bad

VARIABLES net,      \* config.yaml and the netvars-managed marker
          rendered, \* upstreams.yaml and the ingress-upstreams label
          user,     \* labels, annotations and identity of the object
          edits     \* how many times the user has edited it

vars == <<net, rendered, user, edits>>

Init == edits = 0 /\ (net = Absent <=> rendered = Absent) /\ (net = Absent <=> user = Absent)

Parsed == net # Absent /\ net.config \notin {NoKey, Bad}

\* HOME_NET is the user's: by annotation, or concrete and not marked auto.
Pinned ==
  \/ user.override # None
  \/ net.config.home \notin {None, Any} /\ net.marker # "auto"

\* HOME_NET is discovered, where it is not pinned.
Derive ==
  /\ UNCHANGED <<rendered, user, edits>>
  /\ Parsed
  /\ ~Pinned
  /\ net' # Absent
  /\ net'.marker = "auto"
  /\ net'.config.external = "!$HOME_NET"

\* A pin is recorded and kept; EXTERNAL_NET may be derived from it.
Respect ==
  /\ UNCHANGED <<rendered, user, edits>>
  /\ Parsed
  /\ Pinned
  /\ net' # Absent
  /\ net'.marker = "manual"
  /\ \E e \in {net.config.external, "!$HOME_NET"} :
       net'.config = [home     |-> IF user.override # None THEN user.override ELSE net.config.home,
                      external |-> e]

Publish ==
  /\ UNCHANGED edits
  /\ rendered' # Absent
  /\ rendered'.managed
  /\ \/ net # Absent /\ UNCHANGED <<net, user>>
     \/ net = Absent /\ net'.config = NoKey /\ net'.marker = None

Edit == edits' = edits + 1

Next == Derive \/ Respect \/ Publish \/ Edit

Spec == Init /\ [][Next]_vars
=============================================================================
