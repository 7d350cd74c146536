------------------------- MODULE StatusLeaderProofs -------------------------
(***************************************************************************)
(* Proofs about StatusLeader, for every set of replicas and objects and    *)
(* any number of terms and upsets.  The election is exclusive given        *)
(* PromptStart; the rest holds without it.                                 *)
(***************************************************************************)
EXTENDS StatusLeader, TLAPS

(***************************************************************************)
(* The election.                                                           *)
(***************************************************************************)
ElectionType ==
  /\ el \in [Replicas -> {"contend", "leading", "stopping"}]
  /\ starting \subseteq Replicas
  /\ gate \subseteq Replicas

\* A replica that still renews holds the lease.
LeaseHeld == \A r \in Replicas : el[r] = "leading" => holder = r

\* OnStartedLeading runs in the term it was spawned for.
StartsInTerm == \A r \in starting : el[r] = "leading"

GatesInTerm == \A r \in gate : el[r] \in {"leading", "stopping"}

ElectionInv ==
  /\ ElectionType
  /\ LeaseHeld
  /\ StartsInTerm
  /\ GatesInTerm
-----------------------------------------------------------------------------
(* A step that leaves the election alone leaves the invariant alone. *)
LEMMA ElectionUnchanged ==
  ElectionInv /\ UNCHANGED election => ElectionInv'
  BY DEF ElectionInv, ElectionType, LeaseHeld, StartsInTerm, GatesInTerm, election

(* Neither a render nor its failures touch the election. *)
LEMMA RenderLeavesElection ==
  ASSUME NEW r \in Replicas, RenderStep(r) \/ RenderFails(r) \/ UpdateFails(r)
  PROVE  UNCHANGED election
<1>1. ASSUME NEW u \in Objects, CheckGateway(r, u) \/ CheckIngress(r, u)
      PROVE UNCHANGED election
  BY <1>1 DEF CheckGateway, CheckIngress, Visit
<1>2. RenderStep(r) => UNCHANGED election
  BY <1>1 DEF RenderStep, Begin, PublishStatus, Finish, Update
<1> QED
  BY <1>2 DEF RenderFails, UpdateFails

(* Every step of the elector and of its callbacks keeps the invariant. *)
LEMMA ElectionStep ==
  PromptStart /\ ElectionInv /\ [Next]_vars => ElectionInv'
<1> SUFFICES ASSUME PromptStart, ElectionInv, [Next]_vars PROVE ElectionInv'
  OBVIOUS
<1> USE ObjectAssumption
    DEF ElectionInv, ElectionType, LeaseHeld, StartsInTerm, GatesInTerm
<1>1. ASSUME NEW r \in Replicas, Acquire(r) PROVE ElectionInv'
  BY <1>1 DEF Acquire
<1>2. ASSUME NEW r \in Replicas, StartedLeading(r) PROVE ElectionInv'
  BY <1>2 DEF StartedLeading
<1>3. ASSUME NEW r \in Replicas, GiveUp(r) PROVE ElectionInv'
  BY <1>3 DEF GiveUp
<1>4. ASSUME NEW r \in Replicas, StoppedLeading(r) PROVE ElectionInv'
  BY <1>4 DEF StoppedLeading
<1>5. CASE Expire
  BY <1>5 DEF Expire
<1>6. ASSUME NEW o \in Objects, Edit(o) PROVE ElectionInv'
  BY <1>6, ElectionUnchanged DEF Edit
<1>7. ASSUME NEW o \in Objects, NEW r \in Replicas, Deliver(r, o) PROVE ElectionInv'
  BY <1>7, ElectionUnchanged DEF Deliver
<1>8. ASSUME NEW r \in Replicas, RenderStep(r) \/ RenderFails(r) \/ UpdateFails(r)
      PROVE ElectionInv'
  BY <1>8, ElectionUnchanged, RenderLeavesElection
<1>9. CASE UNCHANGED vars
  BY <1>9, ElectionUnchanged DEF vars, election
<1> QED
  BY <1>1, <1>2, <1>3, <1>4, <1>5, <1>6, <1>7, <1>8, <1>9 DEF Next

(* Two gates of replicas that both still renew would be two lease holders. *)
LEMMA InvGates == ElectionInv => GatesFollowTerms
  BY DEF ElectionInv, ElectionType, LeaseHeld, GatesInTerm, GatesFollowTerms

(***************************************************************************)
(* leader.go: a gate is open only in the term it was opened in, and two    *)
(* gates are open at once only while one of the two has given its lease up *)
(* and OnStoppedLeading has not run; provided OnStartedLeading always runs *)
(* before its term can end.                                                *)
(***************************************************************************)
THEOREM GatesAreExclusive ==
  ASSUME PromptStart PROVE Spec => []GatesFollowTerms
<1>1. Init => ElectionInv
  BY DEF Init, ElectionInv, ElectionType, LeaseHeld, StartsInTerm, GatesInTerm
<1> QED
  BY <1>1, ElectionStep, InvGates, PTL DEF Spec
-----------------------------------------------------------------------------
(***************************************************************************)
(* Types.                                                                  *)
(***************************************************************************)
LEMMA TypeInit == Init => TypeOK
<1>1. Init => lost \in BOOLEAN
  BY DEF Init
<1>2. Init => terms \in 0..MaxTerms /\ upsets \in 0..MaxUpsets
  BY BoundAssumption DEF Init
<1> QED
  BY <1>1, <1>2 DEF Init, TypeOK

LEMMA TypeStep == TypeOK /\ [Next]_vars => TypeOK'
<1> SUFFICES ASSUME TypeOK, [Next]_vars PROVE TypeOK'
  OBVIOUS
<1> USE ObjectAssumption, BoundAssumption DEF TypeOK
<1>1. ASSUME NEW r \in Replicas, Acquire(r) PROVE TypeOK'
  BY <1>1 DEF Acquire, cluster, renders, history
<1>2. ASSUME NEW r \in Replicas, StartedLeading(r) PROVE TypeOK'
  BY <1>2 DEF StartedLeading, cluster, renders, bounds
<1>3. ASSUME NEW r \in Replicas, GiveUp(r) PROVE TypeOK'
  BY <1>3 DEF GiveUp, cluster, renders, bounds, history
<1>4. ASSUME NEW r \in Replicas, StoppedLeading(r) PROVE TypeOK'
  BY <1>4 DEF StoppedLeading, cluster, renders, bounds
<1>5. CASE Expire
  BY <1>5 DEF Expire, cluster, renders, bounds, history
<1>6. ASSUME NEW o \in Objects, Edit(o) PROVE TypeOK'
  BY <1>6 DEF Edit, Outdates, election, history
<1>7. ASSUME NEW o \in Objects, NEW r \in Replicas, Deliver(r, o) PROVE TypeOK'
  BY <1>7 DEF Deliver, election, renders, bounds
<1>8. ASSUME NEW r \in Replicas, Begin(r) PROVE TypeOK'
  BY <1>8 DEF Begin, election, cluster, bounds, history, Objects
<1>9. ASSUME NEW r \in Replicas, NEW o \in Objects, CheckGateway(r, o) \/ CheckIngress(r, o)
      PROVE TypeOK'
  BY <1>9 DEF CheckGateway, CheckIngress, Visit, election, cluster, bounds, history
<1>10. ASSUME NEW r \in Replicas, PublishStatus(r) PROVE TypeOK'
  BY <1>10 DEF PublishStatus, Through, End, Leader, election, cluster, bounds, history, Objects
<1>11. ASSUME NEW r \in Replicas, Finish(r) PROVE TypeOK'
  BY <1>11 DEF Finish, Through, End, election, cluster, bounds, history
<1>12. ASSUME NEW r \in Replicas, Update(r) PROVE TypeOK'
  BY <1>12 DEF Update, election, bounds, history
<1>13. ASSUME NEW r \in Replicas, RenderFails(r) PROVE TypeOK'
  BY <1>13 DEF RenderFails, Through, End, election, cluster, history
<1>14. ASSUME NEW r \in Replicas, UpdateFails(r) PROVE TypeOK'
  BY <1>14 DEF UpdateFails, election, cluster
<1>15. CASE UNCHANGED vars
  BY <1>15 DEF vars, election, cluster, renders, bounds, history
<1> QED
  BY <1>1, <1>2, <1>3, <1>4, <1>5, <1>6, <1>7, <1>8, <1>9, <1>10, <1>11, <1>12, <1>13, <1>14, <1>15
     DEF Next, RenderStep

(* Every step of the elector, of the API server and of a render keeps the   *)
(* types, and a render that is over has nothing left to visit or to write.  *)
THEOREM TypeCorrect == Spec => []TypeOK
<1> QED
  BY TypeInit, TypeStep, PTL DEF Spec
-----------------------------------------------------------------------------
(***************************************************************************)
(* Publication.                                                            *)
(***************************************************************************)
\* An event of o will reach r, or has reached it and queued a rebuild.
Comes(r, o) == o \in behind[r] \/ r \in queue

\* What r has listed of o is the object as it is, or an event of it comes.
Listed(r, o) ==
  /\ o \in cached[r] /\ o \notin status => o \in behind[r]
  /\ o \in copy[r] /\ o \notin status => Comes(r, o)
  /\ o \in stale[r] => Comes(r, o)

\* A status that is missing is one that a replica asked to rebuild with its
\* gate open has yet to come to, in this render or in the next.
Covered(r, o) ==
  r \in asked /\ ~lost => o \in status \/ Comes(r, o) \/ o \in Holds(r)

PublishInv == \A r \in Replicas, o \in Objects : Listed(r, o) /\ Covered(r, o)

LEMMA PublishStep == TypeOK /\ PublishInv /\ [Next]_vars => PublishInv'
<1> SUFFICES ASSUME TypeOK, PublishInv, [Next]_vars, NEW u \in Replicas, NEW p \in Objects
             PROVE  Listed(u, p)' /\ Covered(u, p)'
  BY DEF PublishInv
<1>0. Listed(u, p) /\ Covered(u, p) /\ p # NoObject
  BY ObjectAssumption DEF PublishInv
<1> USE DEF Listed, Covered, Comes
\* The election: a gate that closes takes its replica out.
<1>1. ASSUME UNCHANGED <<cluster, queue, renders, lost>>, asked' \subseteq asked \cup queue
      PROVE  Listed(u, p)' /\ Covered(u, p)'
  BY <1>0, <1>1 DEF cluster, renders, Holds
<1>2. ASSUME NEW r \in Replicas, Acquire(r) \/ StartedLeading(r) \/ GiveUp(r) \/ StoppedLeading(r)
      PROVE  Listed(u, p)' /\ Covered(u, p)'
  BY <1>1, <1>2 DEF Acquire, StartedLeading, GiveUp, StoppedLeading, history
<1>3. CASE Expire
  BY <1>1, <1>3 DEF Expire, history
<1>4. CASE UNCHANGED vars
  BY <1>1, <1>4 DEF vars, history
\* The API server and the informers: whatever changes brings an event.
<1>5. ASSUME NEW o \in Objects, Edit(o) PROVE Listed(u, p)' /\ Covered(u, p)'
  BY <1>0, <1>5 DEF Edit, Outdates, Holds, history, TypeOK
<1>6. ASSUME NEW o \in Objects, NEW r \in Replicas, Deliver(r, o) PROVE Listed(u, p)' /\ Covered(u, p)'
  BY <1>0, <1>6 DEF Deliver, Holds, renders, TypeOK
\* A render: it holds all objects when it begins, and lets go of one when its
\* status is there, is written, or conflicts with a change.
<1>7. ASSUME NEW r \in Replicas, Begin(r) PROVE Listed(u, p)' /\ Covered(u, p)'
  <2>1. /\ UNCHANGED <<cluster, asked, lost>>
        /\ IF u = r THEN copy'[u] = cached[u] /\ stale'[u] = behind[u] /\ p \in Holds(u)'
           ELSE /\ copy'[u] = copy[u] /\ stale'[u] = stale[u] /\ Holds(u)' = Holds(u)
                /\ u \in queue' <=> u \in queue
    BY <1>7 DEF Begin, Holds, Objects, history, TypeOK
  <2> QED
    BY <1>0, <2>1 DEF cluster
<1>8. ASSUME NEW r \in Replicas, NEW o \in Objects, CheckGateway(r, o) \/ CheckIngress(r, o)
      PROVE  Listed(u, p)' /\ Covered(u, p)'
  <2>1. /\ UNCHANGED <<cluster, queue, asked, lost>>
        /\ copy'[u] \subseteq copy[u] /\ stale'[u] \subseteq stale[u]
    BY <1>8 DEF CheckGateway, CheckIngress, Visit, history, TypeOK
  <2>2. p \in Holds(u) => p \in Holds(u)' \/ (u = r /\ p = o)
    BY <1>0, <1>8 DEF CheckGateway, CheckIngress, Visit, Holds, TypeOK
  <2>3. ASSUME u = r, p = o, r \in asked, p \notin copy[u] PROVE p \in Holds(u)'
    BY <1>0, <1>8, <2>3 DEF CheckGateway, CheckIngress, Visit, Holds, Leader, TypeOK
  <2> QED
    BY <1>0, <2>1, <2>2, <2>3 DEF cluster
<1>9. ASSUME NEW r \in Replicas, PublishStatus(r) \/ Finish(r) PROVE Listed(u, p)' /\ Covered(u, p)'
  <2>1. /\ UNCHANGED <<cluster, queue, asked, lost>>
        /\ copy'[u] \subseteq copy[u] /\ stale'[u] \subseteq stale[u]
    BY <1>9 DEF PublishStatus, Finish, End, history, TypeOK
  <2>2. p \in Holds(u) /\ u \in asked => p \in Holds(u)'
    BY <1>0, <1>9 DEF PublishStatus, Finish, Through, End, Holds, Leader, TypeOK
  <2> QED
    BY <1>0, <2>1, <2>2 DEF cluster
<1>10. ASSUME NEW r \in Replicas, Update(r) PROVE Listed(u, p)' /\ Covered(u, p)'
  <2>1. /\ UNCHANGED <<cached, queue, copy, asked, lost>> /\ status \subseteq status'
        /\ behind[u] \subseteq behind'[u]
    BY <1>10 DEF Update, history, TypeOK
  <2>2. p \in stale'[u] => p \in stale[u] \/ p \in behind'[u]
    BY <1>10 DEF Update, TypeOK
  <2>3. p \in Holds(u) => p \in Holds(u)' \/ (u = r /\ p = target[r])
    BY <1>0, <1>10 DEF Update, Holds, TypeOK
  <2>4. u = r /\ p = target[r] => p \in status' \/ p \in stale[u]
    BY <1>0, <1>10 DEF Update
  <2> QED
    BY <1>0, <2>1, <2>2, <2>3, <2>4
<1>11. ASSUME NEW r \in Replicas, RenderFails(r) PROVE Listed(u, p)' /\ Covered(u, p)'
  <2>1. /\ UNCHANGED <<cluster, asked, lost>> /\ queue' = queue \cup {r}
        /\ copy'[u] \subseteq copy[u] /\ stale'[u] \subseteq stale[u]
    BY <1>11 DEF RenderFails, End, history, TypeOK
  <2>2. u # r => Holds(u)' = Holds(u)
    BY <1>11 DEF RenderFails, End, Holds, TypeOK
  <2> QED
    BY <1>0, <2>1, <2>2 DEF cluster
<1>12. ASSUME NEW r \in Replicas, UpdateFails(r) PROVE Listed(u, p)' /\ Covered(u, p)'
  <2>1. UNCHANGED <<cluster, queue, copy>> /\ lost' /\ stale'[u] \subseteq stale[u]
    BY <1>12 DEF UpdateFails, TypeOK
  <2> QED
    BY <1>0, <2>1 DEF cluster
<1> QED
  BY <1>2, <1>3, <1>4, <1>5, <1>6, <1>7, <1>8, <1>9, <1>10, <1>11, <1>12 DEF Next, RenderStep

(***************************************************************************)
(* publishStatus, ensureCond and acceptRoute: conflicts heal.  When all is *)
(* quiet after a replica with its gate open was asked to rebuild, every    *)
(* object has its status, unless an Update failed other than by a          *)
(* conflict.  Any number of replicas may render and write at once.         *)
(***************************************************************************)
THEOREM StatusIsPublished == Spec => []RebuildPublishes
<1>1. Init => TypeOK /\ PublishInv
  BY TypeInit DEF Init, PublishInv, Listed, Covered, Comes
<1>2. TypeOK /\ PublishInv /\ [Next]_vars => (TypeOK /\ PublishInv)'
  BY TypeStep, PublishStep
<1>3. ASSUME TypeOK, PublishInv, Settled, NEW r \in asked, ~lost, NEW o \in Objects PROVE o \in status
  <2>1. r \in Replicas /\ behind[r] = {} /\ r \notin queue /\ pc[r] = "idle"
    BY <1>3 DEF TypeOK, Settled
  <2>2. Holds(r) = {}
    BY <1>3, <2>1 DEF TypeOK, Holds
  <2> QED
    BY <1>3, <2>1, <2>2 DEF PublishInv, Covered, Comes
<1>4. TypeOK /\ PublishInv => RebuildPublishes
  BY <1>3 DEF RebuildPublishes
<1> QED
  BY <1>1, <1>2, <1>4, PTL DEF Spec
=============================================================================
