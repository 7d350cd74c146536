-------------------------- MODULE ConfigHashProofs --------------------------
(***************************************************************************)
(* Proofs about ConfigHash, for any sources, workloads and references, and *)
(* any number of edits and refused patches.                                *)
(***************************************************************************)
EXTENDS ConfigHash, TLAPS

TypeInv ==
  /\ perWorkload \in BOOLEAN
  /\ obj \in [Sources -> Objects \cup {Missing}]
  /\ cache \in [Sources -> Objects \cup {Missing}]
  /\ view \in [Sources -> Objects \cup {Missing}]
  /\ stamp \in [Workloads -> Hashes \cup {NoWorkload}]
  /\ cstamp \in [Workloads -> Hashes \cup {NoWorkload}]
  /\ pc \in {"idle", "secrets", "list", "patch"}
  /\ kind \in 1..3
  /\ DOMAIN batch \subseteq Workloads
  /\ rolls \in [Workloads -> Nat] /\ moves \in [Workloads -> Nat]
  /\ quiet \subseteq Workloads /\ skipped \subseteq Workloads

\* A workload in the informer is in the API server, and one in a batch is in
\* the informer.
PresentInv ==
  \A w \in Workloads : /\ cstamp[w] # NoWorkload => stamp[w] # NoWorkload
                       /\ w \in DOMAIN batch => cstamp[w] # NoWorkload

\* The sources that the pass has listed; for the others it will see the cache.
Listed == IF pc = "idle" THEN {} ELSE IF pc = "secrets" THEN ConfigMaps ELSE Sources

Seen == [s \in Sources |-> IF s \in Listed THEN view[s] ELSE cache[s]]

\* The pass does not have the present content of a source of w.
Behind(w) == \E s \in RefSet(w) : ContentHash(Seen[s]) # ContentHash(cache[s])

\* The rolls of w that are still to come with no further change: one if it is
\* not stamped with what the pass sees, one if the pass is behind the cache.
Due(w) ==
  (IF stamp[w] = HashFor(w, Seen) THEN 0 ELSE 1) + (IF Behind(w) THEN 1 ELSE 0)

RollInv == \A w \in Workloads : rolls[w] + Due(w) <= 1 + moves[w]

\* The pass has yet to look at w.
Ahead(w) ==
  \/ pc = "secrets"
  \/ pc = "list" /\ \E i \in kind..3 : KindOf[w] = Kinds[i]
  \/ pc = "patch" /\ (w \in DOMAIN batch \/ \E i \in (kind + 1)..3 : KindOf[w] = Kinds[i])

\* w is stamped with what is cached, or need not be.
Stamped(w) == stamp[w] = NoWorkload \/ HashFor(w, cache) \in {NoHash, stamp[w]}

\* With no request queued, a pass sees what is cached but for quiet changes,
\* and a workload it is through with is stamped.  A workload that is not in
\* the informer yet is quiet.
StampInv ==
  /\ \A w \in Workloads : cstamp[w] = NoWorkload => stamp[w] = NoWorkload \/ w \in quiet
  /\ queue = {} => \A w \in Workloads \ quiet :
                     ~Behind(w) /\ (Stamped(w) \/ Ahead(w) \/ w \in skipped)
-----------------------------------------------------------------------------
(***************************************************************************)
(* The hash, and types.                                                    *)
(***************************************************************************)
(* hashConfigSources depends on the hashed content of its sources only. *)
LEMMA HashSame ==
  ASSUME NEW v, NEW u, NEW S, \A s \in S : ContentHash(v[s]) = ContentHash(u[s])
  PROVE  HashSources(v, S) = HashSources(u, S)
  BY DEF HashSources

LEMMA RefSetIn == TypeInv => \A w \in Workloads : RefSet(w) \subseteq Sources
  BY WorkloadAssumption DEF RefSet

LEMMA HashTyped ==
  ASSUME TypeInv, NEW w \in Workloads, NEW v \in [Sources -> Objects \cup {Missing}]
  PROVE  HashFor(w, v) \in Hashes /\ HashFor(w, v) # NoWorkload
<1> DEFINE S == {x \in RefSet(w) : ContentHash(v[x]) # NoData}
<1>1. S \in SUBSET Sources
  BY RefSetIn
<1>2. \A s \in S : ContentHash(v[s]) \in {o.hard : o \in Objects}
  BY <1>1 DEF ContentHash
<1>3. HashFor(w, v) \in [S -> {o.hard : o \in Objects}]
  BY <1>2 DEF HashFor, HashSources
<1> QED
  BY <1>1, <1>3, WorkloadAssumption DEF Hashes

LEMMA NoHashTyped == NoHash \in Hashes
<1>1. NoHash \in [{} -> {o.hard : o \in Objects}]
  BY DEF NoHash
<1> QED
  BY <1>1 DEF Hashes

(* What a pass sees: the cache before it begins, its lists when they are made. *)
LEMMA SeenFacts ==
  ASSUME TypeInv
  PROVE  /\ \A s \in Sources : Seen[s] = IF s \in Listed THEN view[s] ELSE cache[s]
         /\ pc = "idle" => Seen = cache
         /\ pc \in {"list", "patch"} => Seen = view
         /\ Seen \in [Sources -> Objects \cup {Missing}]
  BY DEF TypeInv, Seen, Listed

LEMMA TypeStep == TypeInv /\ [Next]_vars => TypeInv'
<1> SUFFICES ASSUME TypeInv, [Next]_vars PROVE TypeInv'
  OBVIOUS
<1> USE DEF TypeInv
<1>1. ASSUME NEW s \in Sources, Edit(s) PROVE TypeInv'
  BY <1>1 DEF Edit, caches, pass, history
<1>2. ASSUME NEW s \in Sources, Deliver(s) PROVE TypeInv'
  <2>1. moves' \in [Workloads -> Nat]
    BY <1>2 DEF Deliver
  <2>2. quiet' \subseteq Workloads
    BY <1>2 DEF Deliver
  <2> QED
    BY <1>2, <2>1, <2>2 DEF Deliver, apiserver, pass
<1>3. ASSUME NEW w \in Workloads, Deploy(w) PROVE TypeInv'
  BY <1>3, NoHashTyped DEF Deploy, caches, pass
<1>4. ASSUME NEW w \in Workloads, SyncWorkload(w) PROVE TypeInv'
  BY <1>4 DEF SyncWorkload, apiserver, pass, history
<1>5. ASSUME NEW s \in Sources, ListConfigMaps(s) PROVE TypeInv'
  BY <1>5 DEF ListConfigMaps, apiserver, caches, history
<1>6. CASE ListSecrets
  BY <1>6 DEF ListSecrets, apiserver, caches, history
<1>7. CASE ListWorkloads
  BY <1>7 DEF ListWorkloads, apiserver, caches, history
<1>8. ASSUME NEW w \in Workloads, Skip(w) PROVE TypeInv'
  BY <1>8 DEF Skip, Drop, apiserver, caches
<1>9. ASSUME NEW w \in Workloads, Patch(w) PROVE TypeInv'
  <2>1. HashFor(w, view) \in Hashes
    BY HashTyped
  <2>2. stamp' \in [Workloads -> Hashes \cup {NoWorkload}]
    BY <1>9, <2>1 DEF Patch
  <2>3. rolls' \in [Workloads -> Nat]
    BY <1>9 DEF Patch
  <2> QED
    BY <1>9, <2>2, <2>3 DEF Patch, Drop, caches
<1>10. ASSUME NEW w \in Workloads, PatchFails(w) PROVE TypeInv'
  BY <1>10 DEF PatchFails, NoSources, NoHash, apiserver, caches, history
<1>11. CASE NextKind
  <2>1. Len(Kinds) = 3
    BY DEF Kinds
  <2> QED
    BY <1>11, <2>1 DEF NextKind, NoSources, NoHash, apiserver, caches, history
<1>12. CASE UNCHANGED vars
  BY <1>12 DEF vars, apiserver, caches, pass, history
<1> QED
  BY <1>1, <1>2, <1>3, <1>4, <1>5, <1>6, <1>7, <1>8, <1>9, <1>10, <1>11, <1>12 DEF Next, Step

LEMMA TypeInit == Init => TypeInv
<1>1. Init => perWorkload \in BOOLEAN
  BY DEF Init
<1> QED
  BY <1>1, SourceAssumption, NoHashTyped DEF Init, TypeInv, NoSources, NoHash
-----------------------------------------------------------------------------
(***************************************************************************)
(* Rollouts.                                                               *)
(***************************************************************************)
(* A step that changes neither what a pass sees nor what is cached of w's   *)
(* sources leaves w as far behind as it was.                                *)
LEMMA SeenSame ==
  ASSUME TypeInv, NEW w \in Workloads, perWorkload' = perWorkload,
         \A s \in RefSet(w) : /\ ContentHash(Seen'[s]) = ContentHash(Seen[s])
                              /\ ContentHash(cache'[s]) = ContentHash(cache[s])
  PROVE  /\ HashFor(w, Seen') = HashFor(w, Seen) /\ HashFor(w, cache') = HashFor(w, cache)
         /\ Behind(w)' <=> Behind(w)
<1>1. RefSet(w)' = RefSet(w)
  BY DEF RefSet
<1>2. HashSources(Seen', RefSet(w)) = HashSources(Seen, RefSet(w))
  BY HashSame
<1>3. HashSources(cache', RefSet(w)) = HashSources(cache, RefSet(w))
  BY HashSame
<1> QED
  BY <1>1, <1>2, <1>3 DEF HashFor, Behind

(* What each step of a pass does to what the pass sees. *)
LEMMA SeenSteps ==
  ASSUME TypeInv, TypeInv',
         \/ \E s \in Sources : ListConfigMaps(s) \/ Edit(s)
         \/ \E w \in Workloads : Deploy(w) \/ SyncWorkload(w) \/ Skip(w) \/ Patch(w) \/ PatchFails(w)
         \/ ListSecrets \/ ListWorkloads \/ NextKind \/ UNCHANGED vars
  PROVE  perWorkload' = perWorkload /\ cache' = cache /\ (Seen' = Seen \/ pc' = "idle")
<1> USE DEF TypeInv, Seen, Listed
<1>1. ASSUME NEW s \in Sources, ListConfigMaps(s)
      PROVE perWorkload' = perWorkload /\ cache' = cache /\ Seen' = Seen
  BY <1>1 DEF ListConfigMaps, caches
<1>2. CASE ListSecrets
  <2>1. perWorkload' = perWorkload /\ cache' = cache /\ pc = "secrets" /\ pc' \in {"idle", "list"}
    BY <1>2 DEF ListSecrets, caches
  <2>2. CASE pc' = "list"
    <3>1. \A s \in Sources : s \in Secrets <=> s \notin ConfigMaps
      BY SourceAssumption DEF Sources
    <3>2. view' = [x \in Sources |-> IF x \in Secrets THEN cache[x] ELSE view[x]]
      BY <1>2 DEF ListSecrets
    <3>3. Seen' = view' /\ \A s \in Sources : Seen[s] = view'[s]
      BY <2>1, <2>2, <3>1, <3>2
    <3>4. Seen' = Seen
      BY <3>3
    <3> QED
      BY <2>1, <3>4
  <2> QED
    BY <2>1, <2>2
<1>3. CASE ListWorkloads
  BY <1>3 DEF ListWorkloads, caches
<1>4. ASSUME NEW w \in Workloads, Deploy(w) \/ SyncWorkload(w) \/ Skip(w) \/ Patch(w)
      PROVE perWorkload' = perWorkload /\ cache' = cache /\ Seen' = Seen
  BY <1>4 DEF Deploy, SyncWorkload, Skip, Patch, caches, pass
<1>5. ASSUME NEW w \in Workloads, PatchFails(w)
      PROVE perWorkload' = perWorkload /\ cache' = cache /\ pc' = "idle"
  BY <1>5 DEF PatchFails, caches
<1>6. CASE NextKind
  BY <1>6 DEF NextKind, caches
<1>7. ASSUME NEW s \in Sources, Edit(s) PROVE perWorkload' = perWorkload /\ cache' = cache /\ Seen' = Seen
  BY <1>7 DEF Edit, caches, pass
<1>8. CASE UNCHANGED vars
  BY <1>8 DEF vars, caches, pass
<1> QED
  BY <1>1, <1>2, <1>3, <1>4, <1>5, <1>6, <1>7, <1>8

(* A delivery changes the content of one source, in the cache and, unless the *)
(* pass has listed it, in what the pass will see.                             *)
LEMMA DeliverSteps ==
  ASSUME TypeInv, TypeInv', NEW s \in Sources, Deliver(s)
  PROVE  /\ UNCHANGED <<perWorkload, stamp, cstamp, rolls, skipped, pc, kind, batch>>
         /\ \A x \in Sources : x # s => cache'[x] = cache[x] /\ Seen'[x] = Seen[x]
         /\ s \in Listed => Seen'[s] = Seen[s]
         /\ s \notin Listed => Seen[s] = cache[s] /\ Seen'[s] = cache'[s]
         /\ HardPart(cache[s]) = HardPart(obj[s]) =>
              \A x \in Sources : /\ ContentHash(cache'[x]) = ContentHash(cache[x])
                                 /\ ContentHash(Seen'[x]) = ContentHash(Seen[x])
<1>1. /\ UNCHANGED <<perWorkload, apiserver, cstamp, pass, rolls, skipped>>
      /\ cache' = [cache EXCEPT ![s] = obj[s]]
  BY DEF Deliver
<1>2. \A x \in Sources : x # s => cache'[x] = cache[x]
  BY <1>1 DEF TypeInv
<1>3. cache'[s] = obj[s] /\ Listed' = Listed /\ view' = view
  BY <1>1 DEF TypeInv, Listed, pass
<1>4. \A x \in Sources : Seen'[x] = IF x \in Listed THEN view[x] ELSE cache'[x]
  BY <1>3 DEF Seen
<1>5. \A x \in Sources : Seen[x] = IF x \in Listed THEN view[x] ELSE cache[x]
  BY DEF Seen
<1>6. HardPart(cache[s]) = HardPart(obj[s]) => ContentHash(cache'[s]) = ContentHash(cache[s])
  BY <1>3 DEF HardPart, ContentHash
<1> QED
  BY <1>1, <1>2, <1>3, <1>4, <1>5, <1>6 DEF apiserver, pass

LEMMA RollStep == TypeInv /\ TypeInv' /\ RollInv /\ [Next]_vars => RollInv'
<1> SUFFICES ASSUME TypeInv, TypeInv', RollInv, [Next]_vars, NEW w \in Workloads
             PROVE  (rolls[w] + Due(w) <= 1 + moves[w])'
  BY DEF RollInv
<1>0. /\ rolls[w] + Due(w) <= 1 + moves[w] /\ RefSet(w) \subseteq Sources
      /\ rolls[w] \in Nat /\ moves[w] \in Nat /\ rolls'[w] \in Nat /\ moves'[w] \in Nat
  BY RefSetIn DEF RollInv, TypeInv
\* Nothing moves but the pass, which may end and see the cache again.
<1>1. ASSUME perWorkload' = perWorkload, cache' = cache, Seen' = Seen \/ pc' = "idle",
             stamp'[w] = stamp[w], rolls'[w] = rolls[w], moves'[w] = moves[w]
      PROVE  (rolls[w] + Due(w) <= 1 + moves[w])'
  <2>1. CASE Seen' = Seen
    <3>1. HashFor(w, Seen)' = HashFor(w, Seen) /\ (Behind(w)' <=> Behind(w))
      BY <1>1, <2>1, SeenSame DEF HashFor, RefSet
    <3> QED
      BY <1>0, <1>1, <3>1 DEF Due
  <2>2. CASE pc' = "idle"
    <3>1. Seen' = cache /\ RefSet(w)' = RefSet(w)
      BY <1>1, <2>2 DEF Seen, Listed, TypeInv, RefSet
    <3>2. ~Behind(w)'
      BY <1>1, <3>1 DEF Behind
    <3>3. ~Behind(w) => HashFor(w, Seen)' = HashFor(w, Seen)
      BY <3>1, HashSame DEF Behind, HashFor
    <3> QED
      BY <1>0, <1>1, <3>2, <3>3 DEF Due
  <2> QED
    BY <1>1, <2>1, <2>2
<1>2. CASE \/ \E s \in Sources : ListConfigMaps(s) \/ Edit(s)
           \/ \E u \in Workloads : SyncWorkload(u) \/ Skip(u) \/ PatchFails(u)
           \/ ListSecrets \/ ListWorkloads \/ NextKind \/ UNCHANGED vars
  <2>1. stamp' = stamp /\ rolls' = rolls /\ moves' = moves
    BY <1>2 DEF ListConfigMaps, Edit, SyncWorkload, Skip, PatchFails, ListSecrets, ListWorkloads,
                NextKind, vars, apiserver, history
  <2> QED
    BY <1>1, <1>2, <2>1, SeenSteps
\* A workload that is not there owes its first stamp already.
<1>3. ASSUME NEW u \in Workloads, Deploy(u) PROVE (rolls[w] + Due(w) <= 1 + moves[w])'
  <2>1. rolls' = rolls /\ moves' = moves /\ stamp[u] = NoWorkload /\ (u # w => stamp'[w] = stamp[w])
    BY <1>3 DEF Deploy, TypeInv
  <2>2. perWorkload' = perWorkload /\ cache' = cache /\ Seen' = Seen
    BY <1>3 DEF Deploy, caches, pass, Seen, Listed
  <2>3. HashFor(w, Seen) # NoWorkload
    BY HashTyped, SeenFacts
  <2>4. HashFor(w, Seen)' = HashFor(w, Seen) /\ (Behind(w)' <=> Behind(w))
    BY <2>2, SeenSame DEF HashFor, RefSet
  <2> QED
    BY <1>0, <2>1, <2>3, <2>4 DEF Due
\* A patch that changes the stamp is the roll that was due.
<1>4. ASSUME NEW u \in Workloads, Patch(u) PROVE (rolls[w] + Due(w) <= 1 + moves[w])'
  <2>1. perWorkload' = perWorkload /\ cache' = cache /\ Seen' = Seen /\ Seen = view /\ moves' = moves
    BY <1>4, SeenFacts DEF Patch, caches, Seen, Listed
  <2>2. HashFor(w, Seen)' = HashFor(w, Seen) /\ (Behind(w)' <=> Behind(w))
    BY <2>1, SeenSame DEF HashFor, RefSet
  <2>3. CASE u # w
    <3>1. stamp'[w] = stamp[w] /\ rolls'[w] = rolls[w]
      BY <1>4, <2>3 DEF Patch, TypeInv
    <3> QED
      BY <1>0, <2>1, <2>2, <3>1 DEF Due
  <2>4. CASE u = w
    <3>1. /\ stamp'[w] = HashFor(w, Seen)
          /\ rolls'[w] = IF stamp[w] = HashFor(w, Seen) THEN rolls[w] ELSE rolls[w] + 1
      BY <1>4, <2>1, <2>4 DEF Patch, TypeInv
    <3> QED
      BY <1>0, <2>1, <2>2, <3>1 DEF Due
  <2> QED
    BY <2>3, <2>4
\* A change that is delivered makes one more roll due, of those that count on it.
<1>5. ASSUME NEW s \in Sources, Deliver(s) PROVE (rolls[w] + Due(w) <= 1 + moves[w])'
  <2>1. /\ UNCHANGED <<perWorkload, stamp, rolls>> /\ RefSet(w)' = RefSet(w)
        /\ moves'[w] = IF s \in RefSet(w) /\ HardPart(cache[s]) # HardPart(obj[s])
                       THEN moves[w] + 1 ELSE moves[w]
    BY <1>5, DeliverSteps DEF Deliver, RefSet
  <2>2. CASE s \notin RefSet(w) \/ HardPart(cache[s]) = HardPart(obj[s])
    <3>1. \A x \in RefSet(w) : /\ ContentHash(Seen'[x]) = ContentHash(Seen[x])
                               /\ ContentHash(cache'[x]) = ContentHash(cache[x])
      BY <1>0, <1>5, <2>2, DeliverSteps
    <3>2. HashFor(w, Seen)' = HashFor(w, Seen) /\ (Behind(w)' <=> Behind(w))
      BY <2>1, <3>1, SeenSame DEF HashFor
    <3> QED
      BY <1>0, <2>1, <2>2, <3>2 DEF Due
  <2>3. CASE s \in RefSet(w) /\ HardPart(cache[s]) # HardPart(obj[s]) /\ s \in Listed
    <3>1. \A x \in RefSet(w) : Seen'[x] = Seen[x]
      BY <1>0, <1>5, <2>3, DeliverSteps
    <3>2. HashFor(w, Seen)' = HashFor(w, Seen)
      BY <2>1, <3>1, HashSame DEF HashFor
    <3> QED
      BY <1>0, <2>1, <2>3, <3>2 DEF Due
  <2>4. CASE s \in RefSet(w) /\ HardPart(cache[s]) # HardPart(obj[s]) /\ s \notin Listed
    <3>1. Behind(w)' <=> Behind(w)
      BY <1>0, <1>5, <2>1, <2>4, DeliverSteps DEF Behind
    <3> QED
      BY <1>0, <2>1, <2>4, <3>1 DEF Due
  <2> QED
    BY <2>2, <2>3, <2>4
<1> QED
  BY <1>2, <1>3, <1>4, <1>5 DEF Next, Step

(***************************************************************************)
(* Reconcile: a workload is rolled at most once to be stamped and once for *)
(* every delivered change of hashed data it counts on, however the passes  *)
(* and the informers interleave and however often a patch is retried.      *)
(***************************************************************************)
THEOREM RolloutsAreCaused == Spec => []RollsAreCaused
<1>1. ASSUME Init, NEW w \in Workloads PROVE rolls[w] + Due(w) <= 1 + moves[w]
  <2>1. Seen = cache /\ rolls[w] = 0 /\ moves[w] = 0
    BY <1>1, TypeInit, SeenFacts DEF Init
  <2>2. ~Behind(w)
    BY <2>1 DEF Behind
  <2> QED
    BY <2>1, <2>2 DEF Due
<1>2. Init => TypeInv /\ RollInv
  BY <1>1, TypeInit DEF RollInv
<1>3. TypeInv /\ RollInv /\ [Next]_vars => (TypeInv /\ RollInv)'
  BY TypeStep, RollStep
<1>4. ASSUME TypeInv, RollInv, NEW w \in Workloads PROVE rolls[w] <= 1 + moves[w]
  BY <1>4 DEF RollInv, TypeInv, Due
<1>5. TypeInv /\ RollInv => RollsAreCaused
  BY <1>4 DEF RollsAreCaused
<1> QED
  BY <1>2, <1>3, <1>5, PTL DEF Spec
-----------------------------------------------------------------------------
(***************************************************************************)
(* Stamps.                                                                 *)
(***************************************************************************)
LEMMA PresentStep == TypeInv /\ TypeInv' /\ PresentInv /\ [Next]_vars => PresentInv'
<1> SUFFICES ASSUME TypeInv, TypeInv', PresentInv, [Next]_vars PROVE PresentInv'
  OBVIOUS
<1>1. CASE \/ \E s \in Sources : ListConfigMaps(s) \/ Edit(s) \/ Deliver(s)
           \/ ListSecrets \/ UNCHANGED vars
  BY <1>1 DEF PresentInv, ListConfigMaps, Edit, Deliver, ListSecrets, vars, apiserver, caches, pass
<1>2. ASSUME NEW w \in Workloads, Deploy(w) PROVE PresentInv'
  BY <1>2, NoHashTyped, WorkloadAssumption DEF PresentInv, Deploy, caches, pass, TypeInv
<1>3. ASSUME NEW w \in Workloads, SyncWorkload(w) PROVE PresentInv'
  BY <1>3 DEF PresentInv, SyncWorkload, apiserver, pass, TypeInv
<1>4. CASE ListWorkloads
  BY <1>4 DEF PresentInv, ListWorkloads, apiserver, caches
<1>5. ASSUME NEW w \in Workloads, Skip(w) PROVE PresentInv'
  BY <1>5 DEF PresentInv, Skip, Drop, apiserver, caches
<1>6. ASSUME NEW w \in Workloads, Patch(w) PROVE PresentInv'
  <2>1. HashFor(w, view) # NoWorkload
    BY HashTyped DEF TypeInv
  <2> QED
    BY <1>6, <2>1 DEF PresentInv, Patch, Drop, caches, TypeInv
<1>7. ASSUME NEW w \in Workloads, PatchFails(w) PROVE PresentInv'
  BY <1>7 DEF PresentInv, PatchFails, NoHash, apiserver, caches
<1>8. CASE NextKind
  BY <1>8 DEF PresentInv, NextKind, NoHash, apiserver, caches
<1> QED
  BY <1>1, <1>2, <1>3, <1>4, <1>5, <1>6, <1>7, <1>8 DEF Next, Step

LEMMA StampStep == TypeInv /\ TypeInv' /\ PresentInv /\ StampInv /\ [Next]_vars => StampInv'
<1> SUFFICES ASSUME TypeInv, TypeInv', PresentInv, StampInv, [Next]_vars, NEW w \in Workloads
             PROVE  /\ (cstamp[w] = NoWorkload => stamp[w] = NoWorkload \/ w \in quiet)'
                    /\ (queue = {} /\ w \notin quiet =>
                          ~Behind(w) /\ (Stamped(w) \/ Ahead(w) \/ w \in skipped))'
  BY DEF StampInv
<1>0. /\ cstamp[w] = NoWorkload => stamp[w] = NoWorkload \/ w \in quiet
      /\ queue = {} /\ w \notin quiet => ~Behind(w) /\ (Stamped(w) \/ Ahead(w) \/ w \in skipped)
      /\ RefSet(w) \subseteq Sources /\ kind \in 1..3
  BY RefSetIn DEF StampInv, TypeInv
<1> DEFINE Goal == /\ (cstamp[w] = NoWorkload => stamp[w] = NoWorkload \/ w \in quiet)'
                   /\ (queue = {} /\ w \notin quiet =>
                         ~Behind(w) /\ (Stamped(w) \/ Ahead(w) \/ w \in skipped))'
\* While nothing is delivered, a pass does not fall behind.
<1>1. ASSUME perWorkload' = perWorkload, cache' = cache, Seen' = Seen \/ pc' = "idle", ~Behind(w)
      PROVE  /\ ~Behind(w)' /\ HashFor(w, cache)' = HashFor(w, cache)
             /\ HashFor(w, cache) = HashFor(w, Seen)
  <2>1. RefSet(w)' = RefSet(w)
    BY <1>1 DEF RefSet
  <2>2. pc' = "idle" => Seen' = cache
    BY <1>1 DEF Seen, Listed, TypeInv
  <2>3. ~Behind(w)'
    BY <1>1, <2>1, <2>2 DEF Behind
  <2>4. HashFor(w, cache) = HashFor(w, Seen)
    BY <1>1, HashSame DEF HashFor, Behind
  <2> QED
    BY <1>1, <2>1, <2>3, <2>4 DEF HashFor
<1>2. ASSUME UNCHANGED <<perWorkload, cache, stamp, cstamp, queue, quiet, skipped>>,
             Seen' = Seen \/ pc' = "idle",
             ~Behind(w), w \notin quiet, Ahead(w) => Ahead(w)' \/ Stamped(w)
      PROVE  Goal
  BY <1>0, <1>1, <1>2 DEF Stamped
\* The cluster and the informers.
<1>3. ASSUME NEW s \in Sources, Edit(s) PROVE Goal
  <2>1. /\ UNCHANGED <<perWorkload, cache, stamp, cstamp, queue, quiet, skipped>> /\ Seen' = Seen
        /\ Ahead(w)' <=> Ahead(w)
    BY <1>3 DEF Edit, caches, pass, history, Seen, Listed, Ahead
  <2> QED
    BY <1>0, <1>2, <2>1
<1>4. CASE UNCHANGED vars
  <2>1. /\ UNCHANGED <<perWorkload, cache, stamp, cstamp, queue, quiet, skipped>> /\ Seen' = Seen
        /\ Ahead(w)' <=> Ahead(w)
    BY <1>4 DEF vars, apiserver, caches, pass, history, Seen, Listed, Ahead
  <2> QED
    BY <1>0, <1>2, <2>1
<1>5. ASSUME NEW s \in Sources, Deliver(s) PROVE Goal
  <2>1. UNCHANGED <<perWorkload, stamp, cstamp, skipped, pc, kind, batch>>
    BY <1>5, DeliverSteps
  <2>2. /\ RefSet(w)' = RefSet(w) /\ (Ahead(w)' <=> Ahead(w))
    BY <2>1 DEF RefSet, Ahead
  <2>3. CASE Enqueues(cache[s], obj[s])
    <3>1. s \in queue' /\ quiet' = {u \in quiet : cstamp[u] = NoWorkload}
      BY <1>5, <2>3 DEF Deliver
    <3> QED
      BY <1>0, <2>1, <3>1
  <2>4. CASE ~Enqueues(cache[s], obj[s])
    <3>1. /\ queue' = queue /\ quiet \subseteq quiet'
          /\ s \in RefSet(w) /\ HardPart(cache[s]) # HardPart(obj[s]) => w \in quiet'
      BY <1>5, <2>4 DEF Deliver
    <3>2. CASE w \in quiet'
      BY <1>0, <2>1, <3>2
    <3>3. CASE w \notin quiet'
      <4>1. \A x \in RefSet(w) : /\ ContentHash(Seen'[x]) = ContentHash(Seen[x])
                                 /\ ContentHash(cache'[x]) = ContentHash(cache[x])
        BY <1>0, <1>5, <3>1, <3>3, DeliverSteps
      <4>2. HashFor(w, cache)' = HashFor(w, cache) /\ (Behind(w)' <=> Behind(w))
        BY <2>1, <2>2, <4>1, SeenSame DEF HashFor
      <4> QED
        BY <1>0, <2>1, <2>2, <3>1, <3>3, <4>2 DEF Stamped
    <3> QED
      BY <3>2, <3>3
  <2> QED
    BY <2>3, <2>4
<1>6. ASSUME NEW u \in Workloads, Deploy(u) PROVE Goal
  <2>1. /\ UNCHANGED <<perWorkload, cache, cstamp, queue, skipped>> /\ Seen' = Seen
        /\ quiet' = quiet \cup {u} /\ (u # w => stamp'[w] = stamp[w]) /\ (Ahead(w)' <=> Ahead(w))
    BY <1>6 DEF Deploy, caches, pass, Seen, Listed, Ahead, TypeInv
  <2> QED
    BY <1>0, <1>1, <2>1 DEF Stamped
<1>7. ASSUME NEW u \in Workloads, SyncWorkload(u) PROVE Goal
  <2>1. /\ UNCHANGED <<perWorkload, cache, stamp, queue, quiet, skipped>> /\ Seen' = Seen
        /\ cstamp'[w] = cstamp[w] \/ cstamp'[w] = stamp[w]
    BY <1>7 DEF SyncWorkload, apiserver, pass, history, Seen, Listed, TypeInv
  <2>2. Ahead(w)' <=> Ahead(w)
    BY <1>7 DEF SyncWorkload, pass, Ahead
  <2> QED
    BY <1>0, <1>1, <2>1, <2>2 DEF Stamped
\* A pass begins with everything ahead of it.
<1>8. ASSUME NEW s \in Sources, ListConfigMaps(s) PROVE Goal
  <2>1. UNCHANGED <<stamp, cstamp, quiet>> /\ pc = "idle" /\ Ahead(w)'
    BY <1>8 DEF ListConfigMaps, apiserver, caches, history, Ahead
  <2>2. Seen' = Seen /\ Seen = cache /\ perWorkload' = perWorkload /\ cache' = cache
    BY <1>8, <2>1, SeenSteps, SeenFacts DEF ListConfigMaps
  <2>3. ~Behind(w)'
    BY <2>2 DEF Behind
  <2> QED
    BY <1>0, <2>1, <2>3
<1>9. CASE ListSecrets
  <2>1. /\ UNCHANGED <<perWorkload, cache, stamp, cstamp, queue, quiet, skipped>>
        /\ Seen' = Seen \/ pc' = "idle"
    BY <1>9, SeenSteps DEF ListSecrets, apiserver, caches, history
  <2>2. CASE pc' = "list"
    <3>1. kind' = 1 /\ \E i \in 1..3 : KindOf[w] = Kinds[i]
      BY <1>9, WorkloadAssumption DEF ListSecrets
    <3>2. Ahead(w)'
      BY <2>2, <3>1 DEF Ahead
    <3> QED
      BY <1>0, <1>2, <2>1, <3>2
  <2>3. CASE pc' # "list"
    <3>1. HashSources(view', Sources) = NoHash /\ ~perWorkload /\ pc = "secrets"
      BY <1>9, <2>3 DEF ListSecrets
    <3>2. \A s \in Sources : s \in Secrets <=> s \notin ConfigMaps
      BY SourceAssumption DEF Sources
    <3>3. view' = [x \in Sources |-> IF x \in Secrets THEN cache[x] ELSE view[x]]
      BY <1>9 DEF ListSecrets
    <3>4. \A x \in Sources : view'[x] = Seen[x]
      BY <3>1, <3>2, <3>3 DEF Seen, Listed
    <3>5. HashFor(w, Seen) = NoHash
      BY <3>1, <3>4, HashSame DEF HashFor, RefSet
    <3> QED
      BY <1>0, <1>1, <1>2, <2>1, <3>5 DEF Stamped
  <2> QED
    BY <2>2, <2>3
<1>10. CASE ListWorkloads
  <2>1. /\ UNCHANGED <<perWorkload, cache, stamp, cstamp, queue, quiet, skipped, kind>>
        /\ Seen' = Seen \/ pc' = "idle"
        /\ pc = "list" /\ pc' = "patch"
        /\ DOMAIN batch' = {x \in Workloads : KindOf[x] = Kinds[kind] /\ cstamp[x] # NoWorkload}
    BY <1>10, SeenSteps DEF ListWorkloads, apiserver, caches, history
  <2>2. ASSUME Ahead(w), w \notin quiet PROVE Ahead(w)' \/ Stamped(w)
    <3>1. PICK i \in kind..3 : KindOf[w] = Kinds[i]
      BY <2>1, <2>2 DEF Ahead
    <3>2. CASE i = kind
      BY <1>0, <2>1, <2>2, <3>1, <3>2 DEF Ahead, Stamped
    <3>3. CASE i # kind
      <4>1. i \in (kind + 1)..3
        BY <1>0, <3>3
      <4> QED
        BY <2>1, <3>1, <4>1 DEF Ahead
    <3> QED
      BY <3>2, <3>3
  <2> QED
    BY <1>0, <1>2, <2>1, <2>2
\* A workload is left behind when it shows the hash, or is given it.
<1>11. ASSUME NEW u \in Workloads, Skip(u) PROVE Goal
  <2>1. /\ UNCHANGED <<perWorkload, cache, stamp, cstamp, queue, quiet, pc, kind>>
        /\ Seen' = Seen /\ Seen = view /\ pc = "patch" /\ DOMAIN batch' = DOMAIN batch \ {u}
        /\ skipped' = IF HashFor(u, view) \in {NoHash, stamp[u]} THEN skipped \ {u}
                      ELSE skipped \cup {u}
    BY <1>11, SeenFacts DEF Skip, Drop, apiserver, caches, Seen, Listed
  <2>2. u # w => (Ahead(w)' <=> Ahead(w))
    BY <2>1 DEF Ahead
  <2>3. CASE u = w
    BY <1>0, <1>1, <2>1, <2>3 DEF Stamped
  <2>4. CASE u # w
    BY <1>0, <1>1, <2>1, <2>2, <2>4 DEF Stamped
  <2> QED
    BY <2>3, <2>4
<1>12. ASSUME NEW u \in Workloads, Patch(u) PROVE Goal
  <2>1. /\ UNCHANGED <<perWorkload, cache, cstamp, queue, quiet, pc, kind>>
        /\ Seen' = Seen /\ Seen = view /\ pc = "patch" /\ DOMAIN batch' = DOMAIN batch \ {u}
        /\ skipped' = skipped \ {u}
        /\ stamp'[w] = IF u = w THEN HashFor(u, view) ELSE stamp[w]
        /\ cstamp[u] # NoWorkload
    BY <1>12, SeenFacts DEF Patch, Drop, caches, Seen, Listed, TypeInv, PresentInv
  <2>2. u # w => (Ahead(w)' <=> Ahead(w))
    BY <2>1 DEF Ahead
  <2>3. CASE u = w
    BY <1>0, <1>1, <2>1, <2>3 DEF Stamped
  <2>4. CASE u # w
    BY <1>0, <1>1, <2>1, <2>2, <2>4 DEF Stamped
  <2> QED
    BY <2>3, <2>4
<1>13. ASSUME NEW u \in Workloads, PatchFails(u) PROVE Goal
  <2>1. UNCHANGED <<stamp, cstamp, quiet>> /\ req \in queue'
    BY <1>13 DEF PatchFails, apiserver, caches, history
  <2> QED
    BY <1>0, <2>1
<1>14. CASE NextKind
  <2>1. /\ UNCHANGED <<perWorkload, cache, stamp, cstamp, queue, quiet, skipped>>
        /\ Seen' = Seen \/ pc' = "idle"
        /\ pc = "patch" /\ DOMAIN batch = {}
        /\ kind < 3 => kind' = kind + 1 /\ pc' = "list"
    <3>1. Len(Kinds) = 3
      BY DEF Kinds
    <3> QED
      BY <1>14, <3>1, SeenSteps DEF NextKind, apiserver, caches, history
  <2>2. ASSUME Ahead(w) PROVE Ahead(w)'
    <3>1. PICK i \in (kind + 1)..3 : KindOf[w] = Kinds[i]
      BY <2>1, <2>2 DEF Ahead
    <3>2. kind' = kind + 1 /\ pc' = "list"
      BY <1>0, <2>1, <3>1
    <3> QED
      BY <3>1, <3>2 DEF Ahead
  <2> QED
    BY <1>0, <1>2, <2>1, <2>2
<1> QED
  BY <1>3, <1>4, <1>5, <1>6, <1>7, <1>8, <1>9, <1>10, <1>11, <1>12, <1>13, <1>14 DEF Next, Step

(***************************************************************************)
(* Reconcile: when all is settled, every workload is stamped with the hash *)
(* of the present sources, through refused patches and whatever order the  *)
(* informers moved in, but for changes without an event and workloads      *)
(* skipped on an annotation that was stale in the cache.                   *)
(***************************************************************************)
THEOREM StampsAreCurrent == Spec => []StampCurrent
<1>1. ASSUME Init PROVE StampInv
  <2>1. ASSUME queue = {} PROVE quiet = Workloads
    BY <1>1, <2>1 DEF Init
  <2> QED
    BY <1>1, <2>1 DEF Init, StampInv
<1>2. TypeInv /\ PresentInv /\ StampInv /\ [Next]_vars => (TypeInv /\ PresentInv /\ StampInv)'
  BY TypeStep, PresentStep, StampStep
<1>3. ASSUME StampInv, Settled, NEW w \in Workloads PROVE Current(w) \/ w \in quiet \cup skipped
  <2>1. queue = {} /\ pc = "idle" /\ cache = obj
    BY <1>3 DEF Settled
  <2>2. ~Ahead(w)
    BY <2>1 DEF Ahead
  <2> QED
    BY <1>3, <2>1, <2>2 DEF StampInv, Stamped, Current
<1>4. StampInv => StampCurrent
  BY <1>3 DEF StampCurrent
<1>5. Init => PresentInv
  BY DEF Init, PresentInv, NoHash
<1> QED
  BY <1>1, <1>2, <1>4, <1>5, TypeInit, PTL DEF Spec
=============================================================================
