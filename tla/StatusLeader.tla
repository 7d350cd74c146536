---------------------------- MODULE StatusLeader ----------------------------
(***************************************************************************)
(* Shared status in ingress mode: controllers/leader.go and the writes it  *)
(* gates in ingress_controller.go (publishStatus) and gateway.go           *)
(* (ensureCond, acceptRoute).  Every replica renders for itself; all of    *)
(* them want the same status on the same objects, and LeaderGate is to     *)
(* leave the writing to the one that holds the Lease.                      *)
(*                                                                         *)
(* A render is modelled by its status work.  Objects are GatewayClasses    *)
(* and Gateways (`Conditioned`), HTTPRoutes and Ingresses; the status of   *)
(* each is there or not.  resourceVersion is modelled by what it decides:  *)
(* whether a copy is still the current object, or an Update conflicts.     *)
(* All kinds are listed when the render begins; the code lists each when   *)
(* it comes to it, classes and Gateways before routes.                     *)
(*                                                                         *)
(* The elector is client-go's: renewal is given up (RenewDeadline, 10s)    *)
(* before the lease runs out (LeaseDuration, 15s), and only then is        *)
(* OnStoppedLeading called.  OnStartedLeading is a goroutine and nothing   *)
(* orders it before OnStoppedLeading of the same term: PromptStart assumes *)
(* that the scheduler runs it within RenewDeadline.                        *)
(***************************************************************************)
EXTENDS Naturals, FiniteSets

CONSTANTS Replicas,
          Conditioned, Routes, Ingresses,
          NoObject, Nobody,
          PromptStart,  \* OnStartedLeading runs before its term can end
          MaxTerms, MaxUpsets

Objects == Conditioned \cup Routes \cup Ingresses

ASSUME ObjectAssumption ==
  /\ NoObject \notin Objects
  /\ Nobody \notin Replicas
  /\ PromptStart \in BOOLEAN
  /\ Conditioned \cap Routes = {} /\ (Conditioned \cup Routes) \cap Ingresses = {}
ASSUME BoundAssumption == MaxTerms \in Nat /\ MaxUpsets \in Nat

VARIABLES holder,       \* holderIdentity of the Lease
          el,           \* each replica's elector
          starting,     \* OnStartedLeading goroutines that have not run
          gate,         \* LeaderGate.flag
          status,       \* objects whose status is as wanted
          cached,       \* the same in each replica's informers; not of routes,
                        \* whose old status nobody looks at
          behind,       \* objects each replica's informers are behind on
          queue,        \* the single "rebuild" request of each replica
          pc,           \* where each render is
          copy,         \* listed objects that had the status
          stale,        \* listed objects that have changed since
          todo, target, \* objects left in this loop, and the Update under way
          terms, upsets,\* terms begun; edits and failures there have been
          asked,        \* history: replicas asked to rebuild with the gate open
          lost          \* history: an Update failed other than by a conflict

election == <<holder, el, starting, gate>>
cluster  == <<status, cached, behind>>
renders  == <<pc, copy, stale, todo, target>>
bounds   == <<terms, upsets>>
history  == <<asked, lost>>
vars     == <<election, cluster, queue, renders, bounds, history>>

TypeOK ==
  /\ holder \in Replicas \cup {Nobody}
  /\ el \in [Replicas -> {"contend", "leading", "stopping"}]
  /\ starting \subseteq Replicas
  /\ gate \subseteq Replicas
  /\ status \subseteq Objects
  /\ cached \in [Replicas -> SUBSET Objects]
  /\ behind \in [Replicas -> SUBSET Objects]
  /\ queue \subseteq Replicas
  /\ pc \in [Replicas -> {"idle", "gateways", "ingresses"}]
  /\ copy \in [Replicas -> SUBSET Objects]
  /\ stale \in [Replicas -> SUBSET Objects]
  /\ todo \in [Replicas -> SUBSET Objects]
  /\ target \in [Replicas -> Objects \cup {NoObject}]
  /\ terms \in 0..MaxTerms /\ upsets \in 0..MaxUpsets
  /\ \A r \in Replicas : pc[r] = "idle" => todo[r] = {} /\ target[r] = NoObject
  /\ asked \subseteq gate /\ lost \in BOOLEAN

\* Replicas have started with synced caches, and each is about to render: for
\* the primer and for the rebuild that the initial list has queued.
Init ==
  /\ holder = Nobody
  /\ el = [r \in Replicas |-> "contend"]
  /\ starting = {} /\ gate = {}
  /\ status = {}
  /\ cached = [r \in Replicas |-> {}]
  /\ behind = [r \in Replicas |-> {}]
  /\ queue = Replicas
  /\ pc = [r \in Replicas |-> "idle"]
  /\ copy = [r \in Replicas |-> {}]
  /\ stale = [r \in Replicas |-> {}]
  /\ todo = [r \in Replicas |-> {}]
  /\ target = [r \in Replicas |-> NoObject]
  /\ terms = 0 /\ upsets = 0
  /\ asked = {} /\ lost = FALSE

-----------------------------------------------------------------------------
(***************************************************************************)
(* leaderRunnable.Start and the elector it runs.                           *)
(***************************************************************************)
\* The elector acquires a free or expired lease and spawns OnStartedLeading.
Acquire(r) ==
  /\ terms < MaxTerms
  /\ terms' = terms + 1
  /\ el[r] = "contend"
  /\ holder = Nobody
  /\ holder' = r
  /\ el' = [el EXCEPT ![r] = "leading"]
  /\ starting' = starting \cup {r}
  /\ UNCHANGED <<gate, cluster, queue, renders, upsets, history>>

\* OnStartedLeading, a goroutine of its own.
StartedLeading(r) ==
  /\ r \in starting
  /\ starting' = starting \ {r}
  /\ gate' = gate \cup {r}
  /\ asked' = IF r \in queue THEN asked \cup {r} ELSE asked
  /\ UNCHANGED <<holder, el, cluster, queue, renders, bounds, lost>>

\* Renewal has failed for RenewDeadline: the lease is released, or the
\* release fails as well and it will run out.
GiveUp(r) ==
  /\ el[r] = "leading"
  /\ PromptStart => r \notin starting
  /\ el' = [el EXCEPT ![r] = "stopping"]
  /\ holder' \in {holder, Nobody}
  /\ UNCHANGED <<starting, gate, cluster, queue, renders, bounds, history>>

\* The lease of a holder that no longer renews runs out.
Expire ==
  /\ holder # Nobody
  /\ el[holder] # "leading"
  /\ holder' = Nobody
  /\ UNCHANGED <<el, starting, gate, cluster, queue, renders, bounds, history>>

\* Faulty: the gate is left as it is when leadership is lost.
StoppedLeadingKeepsGate(r) ==
  /\ el[r] = "stopping"
  /\ el' = [el EXCEPT ![r] = "contend"]
  /\ UNCHANGED <<holder, starting, gate, cluster, queue, renders, bounds, history>>

\* OnStoppedLeading and the end of RunOrDie, each closing the gate; the loop
\* of Start contends again.
StoppedLeading(r) ==
  /\ el[r] = "stopping"
  /\ el' = [el EXCEPT ![r] = "contend"]
  /\ gate' = gate \ {r}
  /\ asked' = asked \ {r}
  /\ UNCHANGED <<holder, starting, cluster, queue, renders, bounds, lost>>

-----------------------------------------------------------------------------
(***************************************************************************)
(* The API server and the informers.                                       *)
(***************************************************************************)
\* The objects of which a render holds a copy that it may still write.
Holds(r) ==
  todo[r] \cup ({target[r]} \ {NoObject}) \cup (IF pc[r] = "gateways" THEN Ingresses ELSE {})

\* o has changed in the API server: every copy of it is out of date.
Outdates(o) ==
  /\ behind' = [r \in Replicas |-> behind[r] \cup {o}]
  /\ stale' = [r \in Replicas |-> IF o \in Holds(r) THEN stale[r] \cup {o} ELSE stale[r]]

\* Somebody edits an object, or replaces it by one without our status.
Edit(o) ==
  /\ upsets < MaxUpsets
  /\ upsets' = upsets + 1
  /\ status' \in {status, status \ {o}}
  /\ Outdates(o)
  /\ UNCHANGED <<election, cached, queue, pc, copy, todo, target, terms, history>>

\* SetupWithManager watches every kind with no predicate: any event of any
\* object queues the one rebuild request.
Deliver(r, o) ==
  /\ o \in behind[r]
  /\ behind' = [behind EXCEPT ![r] = @ \ {o}]
  /\ cached' = [cached EXCEPT ![r] = IF o \in status \ Routes THEN @ \cup {o} ELSE @ \ {o}]
  /\ queue' = queue \cup {r}
  /\ asked' = asked \cup ({r} \cap gate)
  /\ UNCHANGED <<election, status, renders, bounds, lost>>

-----------------------------------------------------------------------------
(***************************************************************************)
(* render.                                                                 *)
(***************************************************************************)
Leader(r) == r \in gate

\* The loop body comes to o and calls Update on its copy, or is done with it.
Visit(r, o, update) ==
  /\ target[r] = NoObject
  /\ o \in todo[r]
  /\ todo' = [todo EXCEPT ![r] = @ \ {o}]
  /\ copy' = [copy EXCEPT ![r] = @ \ {o}]
  /\ IF update THEN target' = [target EXCEPT ![r] = o] /\ UNCHANGED stale
               ELSE stale' = [stale EXCEPT ![r] = @ \ {o}] /\ UNCHANGED target
  /\ UNCHANGED <<election, cluster, queue, pc, bounds, history>>

\* The loop is over.
Through(r, l) == pc[r] = l /\ todo[r] = {} /\ target[r] = NoObject

\* The lists of render and renderGateways, as the informers have them.
Begin(r) ==
  /\ pc[r] = "idle"
  /\ r \in queue
  /\ queue' = queue \ {r}
  /\ copy' = [copy EXCEPT ![r] = cached[r]]
  /\ stale' = [stale EXCEPT ![r] = behind[r]]
  /\ todo' = [todo EXCEPT ![r] = Conditioned \cup Routes]
  /\ pc' = [pc EXCEPT ![r] = "gateways"]
  /\ UNCHANGED <<election, cluster, target, bounds, history>>

\* renderGateways asks the gate before each Update: ensureCond updates what
\* lacks the condition, acceptRoute writes its status again every time.
CheckGateway(r, o) ==
  /\ pc[r] = "gateways"
  /\ Visit(r, o, Leader(r) /\ (o \in Routes \/ o \notin copy[r]))

\* render returns.
End(r) ==
  /\ pc' = [pc EXCEPT ![r] = "idle"]
  /\ copy' = [copy EXCEPT ![r] = {}]
  /\ stale' = [stale EXCEPT ![r] = {}]

\* Faulty: Reconcile logs the error of render and returns nil.
RenderFailsSilently(r) ==
  /\ upsets < MaxUpsets
  /\ upsets' = upsets + 1
  /\ Through(r, "gateways")
  /\ End(r)
  /\ UNCHANGED <<election, cluster, queue, todo, target, terms, history>>

\* Faulty: an error leaves the loop of renderGateways half way.
RenderFailsEarly(r) ==
  /\ upsets < MaxUpsets
  /\ upsets' = upsets + 1
  /\ pc[r] = "gateways"
  /\ queue' = queue \cup {r}
  /\ End(r)
  /\ UNCHANGED <<election, cluster, todo, target, terms, history>>

\* Certs or upstreams could not be written: publishStatus is not reached,
\* Reconcile returns the error and the queue retries.
RenderFails(r) ==
  /\ upsets < MaxUpsets
  /\ upsets' = upsets + 1
  /\ Through(r, "gateways")
  /\ queue' = queue \cup {r}
  /\ End(r)
  /\ UNCHANGED <<election, cluster, todo, target, terms, history>>

\* Certs and upstreams have been written; publishStatus asks the gate, once
\* for all Ingresses.
PublishStatus(r) ==
  /\ Through(r, "gateways")
  /\ IF Leader(r)
     THEN /\ todo' = [todo EXCEPT ![r] = Ingresses]
          /\ pc' = [pc EXCEPT ![r] = "ingresses"]
          /\ UNCHANGED <<copy, stale>>
     ELSE End(r) /\ UNCHANGED todo
  /\ UNCHANGED <<election, cluster, queue, target, bounds, history>>

\* An Ingress whose listed status is as wanted is left alone.
CheckIngress(r, o) ==
  /\ pc[r] = "ingresses"
  /\ Visit(r, o, o \notin copy[r])

Finish(r) ==
  /\ Through(r, "ingresses")
  /\ End(r)
  /\ UNCHANGED <<election, cluster, queue, todo, target, bounds, history>>

\* Status().Update reaches the API server: a conflict if the copy is out of
\* date, which is not retried; otherwise a change, or none if a route is
\* rewritten within the same second.
Update(r) ==
  LET o == target[r]
  IN /\ o # NoObject
     /\ target' = [target EXCEPT ![r] = NoObject]
     /\ \/ /\ o \notin stale[r]
           /\ status' = status \cup {o}
           /\ behind' = [u \in Replicas |-> behind[u] \cup {o}]
           /\ stale' = [u \in Replicas |-> IF u # r /\ o \in Holds(u) THEN stale[u] \cup {o}
                                          ELSE stale[u]]
        \/ /\ o \in stale[r] \/ o \in Routes \cap status
           /\ stale' = [stale EXCEPT ![r] = @ \ {o}]
           /\ UNCHANGED <<status, behind>>
     /\ UNCHANGED <<election, cached, queue, pc, copy, todo, bounds, history>>

\* It fails for another reason: logged or ignored, never retried.
UpdateFails(r) ==
  /\ upsets < MaxUpsets
  /\ upsets' = upsets + 1
  /\ target[r] # NoObject
  /\ target' = [target EXCEPT ![r] = NoObject]
  /\ stale' = [stale EXCEPT ![r] = @ \ {target[r]}]
  /\ lost' = TRUE
  /\ UNCHANGED <<election, cluster, queue, pc, copy, todo, terms, asked>>

-----------------------------------------------------------------------------
RenderStep(r) ==
  \/ Begin(r)
  \/ \E o \in Objects : CheckGateway(r, o) \/ CheckIngress(r, o)
  \/ PublishStatus(r)
  \/ Finish(r)
  \/ Update(r)

Next ==
  \/ \E r \in Replicas : Acquire(r) \/ StartedLeading(r) \/ GiveUp(r) \/ StoppedLeading(r)
  \/ Expire
  \/ \E o \in Objects : Edit(o) \/ \E r \in Replicas : Deliver(r, o)
  \/ \E r \in Replicas : RenderStep(r) \/ RenderFails(r) \/ UpdateFails(r)

Spec == Init /\ [][Next]_vars

-----------------------------------------------------------------------------
(***************************************************************************)
(* Gates and terms: a gate is open only in the term it was opened in, and  *)
(* two gates are open at once only while one of the two has given its      *)
(* lease up and not yet been told so.                                      *)
(***************************************************************************)
GatesFollowTerms ==
  /\ \A r \in gate : el[r] \in {"leading", "stopping"}
  /\ \A r, s \in gate : r # s => "stopping" \in {el[r], el[s]}

Settled ==
  /\ queue = {} /\ \A r \in Replicas : behind[r] = {}
  /\ \A r \in Replicas : pc[r] = "idle"

(***************************************************************************)
(* Conflicts heal: once a replica that keeps its gate open has been asked  *)
(* to rebuild and all is quiet again, every object has its status, through *)
(* stale lists, conflicting Updates that nobody retries and failed renders *)
(* - unless an Update failed for a reason that no watch event follows.     *)
(***************************************************************************)
RebuildPublishes == Settled => asked = {} \/ Objects \subseteq status \/ lost

(***************************************************************************)
(* The log lines of leader.go say that a replica that has acquired         *)
(* leadership "writes status" and that writes are "deferred to the new     *)
(* leader": when all is quiet under a leader with an open gate, what was   *)
(* skipped before would be written.                                        *)
(***************************************************************************)
NewLeaderPublishes ==
  Settled /\ (\E r \in gate : el[r] = "leading") => Objects \subseteq status \/ lost
=============================================================================
