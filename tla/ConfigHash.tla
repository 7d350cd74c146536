----------------------------- MODULE ConfigHash -----------------------------
(***************************************************************************)
(* The config-hash controller (controllers/configmap_controller.go), the   *)
(* default mode: an event of a labelled ConfigMap or Secret makes one      *)
(* reconcile pass that hashes the labelled sources and stamps the hash on  *)
(* the pod template of every labelled Deployment, DaemonSet and            *)
(* StatefulSet, which makes Kubernetes roll the pods.                      *)
(*                                                                         *)
(* A pass reads informer caches - one for ConfigMaps, one for Secrets, one *)
(* per workload kind - that move while it runs, and writes to the API      *)
(* server.  Only ConfigMap and Secret events start a pass.                 *)
(*                                                                         *)
(* Data is abstract: an object's `hard` is the part of it that is hashed,  *)
(* `soft` the keys of --ignore-*-keys and the hot-reloadable IDS fields,   *)
(* and a SHA-256 over sources is the function from them to what is hashed. *)
(***************************************************************************)
EXTENDS Naturals, Sequences, FiniteSets

CONSTANTS ConfigMaps, Secrets,  \* names of sources in the namespace
          Objects,              \* what a source may hold: labelled, hard, soft
          Initial,              \* what it may hold when the manager starts
          NoData,               \* `hard` of an object with no hashed key
          Missing,              \* a source that does not exist
          Workloads,            \* names of labelled workloads
          KindOf,               \* the kind of each
          Refs,                 \* referencedSources of its pod spec
          NoWorkload,           \* a workload that does not exist
          MaxEdits, MaxFaults

Sources == ConfigMaps \cup Secrets
Kinds   == <<"Deployment", "DaemonSet", "StatefulSet">>
Hashes  == UNION {[S -> {o.hard : o \in Objects}] : S \in SUBSET Sources}

ASSUME SourceAssumption ==
  /\ ConfigMaps \cap Secrets = {}
  /\ Missing \notin Objects
  /\ Initial \subseteq Objects \cup {Missing}
ASSUME WorkloadAssumption ==
  /\ KindOf \in [Workloads -> {Kinds[i] : i \in 1..3}]
  /\ Refs \in [Workloads -> SUBSET Sources]
  /\ NoWorkload \notin Hashes

VARIABLES perWorkload,  \* --per-workload-config-hash, fixed at start
          obj, cache,   \* the sources in the API server and in the cache
          stamp, cstamp,\* the workloads' annotation there and there
          queue, req,   \* requests of the controller, and the one in work
          pc, kind,     \* where the pass is, and the kind it patches
          view,         \* the sources the pass has listed
          batch,        \* workloads of this kind left, as they were listed
          edits, faults,\* bounded environment
          rolls, moves, \* history: stamps changed, hashed changes delivered
          quiet,        \* history: workloads out of date with no event for it
          skipped       \* history: workloads skipped on a stale annotation

apiserver == <<obj, stamp>>
caches    == <<cache, cstamp>>
pass      == <<req, pc, kind, view, batch>>
history   == <<rolls, moves, quiet, skipped>>
vars      == <<perWorkload, apiserver, caches, queue, pass, edits, faults, history>>

-----------------------------------------------------------------------------
\* The part of a listed object that pods must be restarted for.
HardPart(o) == IF o # Missing /\ o.labelled THEN o.hard ELSE NoData

\* Faulty: the ignored keys are hashed with the others.
ContentHashAll(o) == IF o # Missing /\ o.labelled THEN <<o.hard, o.soft>> ELSE NoData

\* hashConfigMapContent, hashSecretContent: "" (NoData) if nothing is hashed;
\* and only labelled objects are listed.
ContentHash(o) == IF o # Missing /\ o.labelled THEN o.hard ELSE NoData

\* hashConfigSources over the sources S as they are in v.
HashSources(v, S) ==
  [s \in {x \in S : ContentHash(v[x]) # NoData} |-> ContentHash(v[s])]

NoHash == [s \in {} |-> NoData]

\* hashForWorkload: the sources that count for w.
RefSet(w) == IF perWorkload THEN Refs[w] ELSE Sources

HashFor(w, v) == HashSources(v, RefSet(w))

NoSources == [s \in Sources |-> Missing]

\* The manager has started: caches are synced, the initial list is queued.
Init ==
  /\ perWorkload \in BOOLEAN
  /\ obj \in [Sources -> Initial]
  /\ cache = obj
  /\ stamp \in [Workloads -> {NoWorkload, NoHash}]
  /\ cstamp = stamp
  /\ queue = {s \in Sources : obj[s] # Missing /\ obj[s].labelled}
  /\ req = CHOOSE s \in Sources : TRUE
  /\ pc = "idle" /\ kind = 1 /\ view = NoSources /\ batch = NoHash
  /\ edits = 0 /\ faults = 0
  /\ rolls = [w \in Workloads |-> 0]
  /\ moves = [w \in Workloads |-> 0]
  /\ quiet = {w \in Workloads : queue = {}}
  /\ skipped = {}

-----------------------------------------------------------------------------
(***************************************************************************)
(* The cluster.                                                            *)
(***************************************************************************)
\* A source is created, edited, relabelled or deleted.
Edit(s) ==
  /\ edits < MaxEdits
  /\ edits' = edits + 1
  /\ \E o \in (Objects \cup {Missing}) \ {obj[s]} : obj' = [obj EXCEPT ![s] = o]
  /\ UNCHANGED <<perWorkload, stamp, caches, queue, pass, faults, history>>

\* The predicate of SetupWithManager sees the new object, or of a deletion
\* the last known one.
Enqueues(old, new) == IF new = Missing THEN old.labelled ELSE new.labelled

\* A watch event of a source reaches its informer.
Deliver(s) ==
  /\ cache[s] # obj[s]
  /\ cache' = [cache EXCEPT ![s] = obj[s]]
  /\ LET event   == Enqueues(cache[s], obj[s])
         users   == {w \in Workloads : s \in RefSet(w)}
         changes == HardPart(cache[s]) # HardPart(obj[s])
     IN /\ queue' = IF event THEN queue \cup {s} ELSE queue
        /\ quiet' = IF event THEN {w \in quiet : cstamp[w] = NoWorkload}
                    ELSE IF changes THEN quiet \cup users ELSE quiet
        /\ moves' = [w \in Workloads |->
                       IF w \in users /\ changes THEN moves[w] + 1 ELSE moves[w]]
  /\ UNCHANGED <<perWorkload, apiserver, cstamp, pass, edits, faults, rolls, skipped>>

\* A labelled workload is deployed, without the annotation.
Deploy(w) ==
  /\ stamp[w] = NoWorkload
  /\ stamp' = [stamp EXCEPT ![w] = NoHash]
  /\ quiet' = quiet \cup {w}
  /\ UNCHANGED <<perWorkload, obj, caches, queue, pass, edits, faults, rolls, moves, skipped>>

\* A workload's informer catches up; no controller watches workloads.
SyncWorkload(w) ==
  /\ cstamp[w] # stamp[w]
  /\ cstamp' = [cstamp EXCEPT ![w] = stamp[w]]
  /\ UNCHANGED <<perWorkload, apiserver, cache, queue, pass, edits, faults, history>>

-----------------------------------------------------------------------------
(***************************************************************************)
(* Reconcile.                                                              *)
(***************************************************************************)
\* A request is taken and listConfigSources lists the ConfigMaps.
ListConfigMaps(s) ==
  /\ pc = "idle"
  /\ s \in queue
  /\ queue' = queue \ {s}
  /\ req' = s
  /\ view' = [x \in Sources |-> IF x \in ConfigMaps THEN cache[x] ELSE Missing]
  /\ pc' = "secrets"
  /\ UNCHANGED <<perWorkload, apiserver, caches, kind, batch, edits, faults, history>>

\* It lists the Secrets; nothing to hash ends a combined pass.
ListSecrets ==
  /\ pc = "secrets"
  /\ view' = [x \in Sources |-> IF x \in Secrets THEN cache[x] ELSE view[x]]
  /\ kind' = 1
  /\ pc' = IF HashSources(view', Sources) = NoHash /\ ~perWorkload THEN "idle" ELSE "list"
  /\ UNCHANGED <<perWorkload, apiserver, caches, queue, req, batch, edits, faults, history>>

\* patchDeployments, patchDaemonSets, patchStatefulSets: the List.
ListWorkloads ==
  /\ pc = "list"
  /\ batch' = [w \in {x \in Workloads : KindOf[x] = Kinds[kind] /\ cstamp[x] # NoWorkload}
                 |-> cstamp[w]]
  /\ pc' = "patch"
  /\ UNCHANGED <<perWorkload, apiserver, caches, queue, req, kind, view, edits, faults, history>>

Drop(w) == batch' = [x \in DOMAIN batch \ {w} |-> batch[x]]

\* The workload references no labelled config, or shows this hash already.
Skip(w) ==
  /\ pc = "patch"
  /\ w \in DOMAIN batch
  /\ HashFor(w, view) \in {NoHash, batch[w]}
  /\ Drop(w)
  /\ skipped' = IF HashFor(w, view) \in {NoHash, stamp[w]} THEN skipped \ {w}
                ELSE skipped \cup {w}
  /\ UNCHANGED <<perWorkload, apiserver, caches, queue, req, pc, kind, view, edits, faults,
                 rolls, moves, quiet>>

\* c.Patch sets the annotation, whatever it is by now in the API server.
Patch(w) ==
  /\ pc = "patch"
  /\ w \in DOMAIN batch
  /\ HashFor(w, view) \notin {NoHash, batch[w]}
  /\ stamp' = [stamp EXCEPT ![w] = HashFor(w, view)]
  /\ rolls' = [rolls EXCEPT ![w] = IF stamp'[w] # stamp[w] THEN @ + 1 ELSE @]
  /\ skipped' = skipped \ {w}
  /\ Drop(w)
  /\ UNCHANGED <<perWorkload, obj, caches, queue, req, pc, kind, view, edits, faults,
                 moves, quiet>>

\* Faulty: the error is logged and Reconcile returns nil.
PatchFailsSilently(w) ==
  /\ faults < MaxFaults
  /\ faults' = faults + 1
  /\ pc = "patch"
  /\ w \in DOMAIN batch
  /\ HashFor(w, view) \notin {NoHash, batch[w]}
  /\ pc' = "idle" /\ kind' = 1 /\ view' = NoSources /\ batch' = NoHash
  /\ UNCHANGED <<perWorkload, apiserver, caches, queue, req, edits, history>>

\* The API server refuses the patch: the pass ends there and is retried.
PatchFails(w) ==
  /\ faults < MaxFaults
  /\ faults' = faults + 1
  /\ pc = "patch"
  /\ w \in DOMAIN batch
  /\ HashFor(w, view) \notin {NoHash, batch[w]}
  /\ queue' = queue \cup {req}
  /\ pc' = "idle" /\ kind' = 1 /\ view' = NoSources /\ batch' = NoHash
  /\ UNCHANGED <<perWorkload, apiserver, caches, req, edits, history>>

\* The next kind, or the end of the pass.
NextKind ==
  /\ pc = "patch"
  /\ DOMAIN batch = {}
  /\ IF kind < Len(Kinds)
     THEN kind' = kind + 1 /\ pc' = "list" /\ UNCHANGED <<view, batch>>
     ELSE kind' = 1 /\ pc' = "idle" /\ view' = NoSources /\ batch' = NoHash
  /\ UNCHANGED <<perWorkload, apiserver, caches, queue, req, edits, faults, history>>

-----------------------------------------------------------------------------
Step ==
  \/ \E s \in Sources : ListConfigMaps(s)
  \/ ListSecrets
  \/ ListWorkloads
  \/ \E w \in Workloads : Skip(w) \/ Patch(w)
  \/ NextKind

Next ==
  \/ \E s \in Sources : Edit(s) \/ Deliver(s)
  \/ \E w \in Workloads : Deploy(w) \/ SyncWorkload(w) \/ PatchFails(w)
  \/ Step

Spec == Init /\ [][Next]_vars

-----------------------------------------------------------------------------
\* What w should be stamped with; NoHash means: left untouched.
Current(w) == stamp[w] = NoWorkload \/ HashFor(w, obj) \in {NoHash, stamp[w]}

Settled ==
  /\ pc = "idle" /\ queue = {}
  /\ cache = obj /\ cstamp = stamp

(***************************************************************************)
(* Whatever order the five informers move in while passes run and fail, a  *)
(* settled system has stamped every workload with the hash of the present  *)
(* sources - unless the workload or a label removal came without an event, *)
(* or the last pass skipped it on an annotation the cache no longer had    *)
(* right.                                                                  *)
(***************************************************************************)
StampCurrent == Settled => \A w \in Workloads : Current(w) \/ w \in quiet \cup skipped

(***************************************************************************)
(* "Kubernetes rolls the pods whenever config content changes" (README of  *)
(* the repository): no stale copy of a workload would hide a change that   *)
(* an event has told of.                                                   *)
(***************************************************************************)
ContentIsStamped == Settled => \A w \in Workloads : Current(w) \/ w \in quiet

(***************************************************************************)
(* Rollouts are caused by config: a workload is rolled at most once to be  *)
(* stamped and once for every change of hashed data it counts on, never by *)
(* ignored keys, hot-reloadable fields, retries, resyncs or, per workload, *)
(* by sources it does not reference.                                       *)
(***************************************************************************)
RollsAreCaused == \A w \in Workloads : rolls[w] <= 1 + moves[w]
=============================================================================
