----------------------------- MODULE ConfigSync -----------------------------
(***************************************************************************)
(* The config-sync sidecar (controllers/configsync_controller.go and the   *)
(* --config-sync part of main.go): the one-shot init container, then in    *)
(* the long-running container the start-up primer and the reconcile        *)
(* worker, all projecting the keys of source ConfigMaps onto one volume    *)
(* with the tmp + rename of writeIfChanged, beside a proxy that is sent    *)
(* SIGHUP.                                                                 *)
(*                                                                         *)
(* primer and worker are goroutines of one process and share the fixed     *)
(* name <key>.tmp, so every system call of writeIfChanged is a step.  An   *)
(* open descriptor follows its inode: `at` says whether a writer's inode   *)
(* is still the tmp file, has become the visible file, or is unlinked.     *)
(*                                                                         *)
(* File contents are abstract: a version, the EnsureFiles floor, Partial   *)
(* for anything empty or incomplete, or NoFile.  Signal is the promise of  *)
(* ReloadGoal: a requested reload sooner or later re-reads the files.      *)
(***************************************************************************)
EXTENDS Naturals, Sequences, SequencesExt

CONSTANTS Sources,      \* --watch-configmap, in order
          KeyOrder,     \* ConfigMap keys in sort.Strings order
          Projected,    \* keys that pass --sync-keys and safeKey
          Ensured,      \* --ensure-files, in order
          Contents,     \* values of a key
          Revisions,    \* what the data of a source ConfigMap may be
          Floor,        \* the minimal upstreams document
          Partial, NoFile, Absent, Missing,
          MaxEdits, MaxFaults, MaxCrashes

Keys    == ToSet(KeyOrder)
SourceSet == ToSet(Sources)
Threads == {"init", "primer", "worker"}
Docs    == Contents \cup {Floor, Partial}

ASSUME ContentAssumption ==
  /\ Floor \notin Contents
  /\ {Partial, NoFile, Absent} \cap (Contents \cup {Floor}) = {}
  /\ Partial # NoFile /\ Missing \notin Revisions
  /\ Revisions \subseteq [Keys -> Contents \cup {Absent}]

\* main requires at least one --watch-configmap.
ASSUME ListAssumption ==
  /\ Sources \in Seq(SourceSet) /\ Sources # <<>>
  /\ KeyOrder \in Seq(Keys)
  /\ Ensured \in Seq(Keys)

ASSUME BoundAssumption == MaxEdits \in Nat /\ MaxFaults \in Nat /\ MaxCrashes \in Nat

VARIABLES api,          \* the source ConfigMaps in the API server
          cache,        \* the informer's copy of them
          queue,        \* the controller's work queue
          file, tmp,    \* <key> and <key>.tmp on the volume
          pc,           \* where each thread is
          src,          \* index of the source it projects
          snap, todo,   \* cm.Data as it was read, and the keys left to write
          at,           \* where the inode it opened is now
          changed,      \* keys it has changed in this pass
          ready,        \* r.ready
          signalled,    \* a reload requested and not yet delivered
          up, loaded,   \* the proxy, and what it has read
          edits, faults, crashes,   \* bounded environment
          silent,       \* history: keys changed with no signal to follow
          raced,        \* history: keys with two writers in writeIfChanged
          late          \* history: an edit arrived after the primer was done

world   == <<api, cache, queue>>
volume  == <<file, tmp>>
threads == <<pc, src, snap, todo, at, changed>>
proxy   == <<signalled, up, loaded>>
bounds  == <<edits, faults, crashes>>
history == <<silent, raced, late>>
vars    == <<world, volume, threads, ready, proxy, bounds, history>>

Places == {"off", "idle", "get", "compare", "open", "fill", "rename", "remove", "done"}

TypeOK ==
  /\ api \in [SourceSet -> Revisions \cup {Missing}]
  /\ cache \in [SourceSet -> Revisions \cup {Missing}]
  /\ queue \subseteq SourceSet
  /\ file \in [Keys -> Docs \cup {NoFile}]
  /\ tmp \in [Keys -> Docs \cup {NoFile}]
  /\ pc \in [Threads -> Places]
  /\ src \in [Threads -> 1..Len(Sources) + 1]
  /\ snap \in [Threads -> [Keys -> Contents \cup {Absent, Floor}]]
  /\ todo \in [Threads -> SUBSET Keys]
  /\ at \in [Threads -> {"none", "tmp", "file", "gone"}]
  /\ changed \in [Threads -> SUBSET Keys]
  /\ ready \in BOOLEAN /\ signalled \in BOOLEAN /\ up \in BOOLEAN
  /\ loaded \in [Keys -> Docs \cup {NoFile}]
  /\ edits \in 0..MaxEdits /\ faults \in 0..MaxFaults /\ crashes \in 0..MaxCrashes
  /\ silent \subseteq Keys /\ raced \subseteq Keys /\ late \in BOOLEAN

NoData == [k \in Keys |-> Absent]

\* A fresh pod: an empty volume, the init container about to run SyncAll.
Init ==
  /\ api \in [SourceSet -> Revisions \cup {Missing}]
  /\ cache = api
  /\ queue = {}
  /\ file = [k \in Keys |-> NoFile]
  /\ tmp = [k \in Keys |-> NoFile]
  /\ pc = [t \in Threads |-> IF t = "init" THEN "get" ELSE "off"]
  /\ src = [t \in Threads |-> 1]
  /\ snap = [t \in Threads |-> NoData]
  /\ todo = [t \in Threads |-> {}]
  /\ at = [t \in Threads |-> "none"]
  /\ changed = [t \in Threads |-> {}]
  /\ ready = FALSE /\ signalled = FALSE /\ up = FALSE
  /\ loaded = [k \in Keys |-> NoFile]
  /\ edits = 0 /\ faults = 0 /\ crashes = 0
  /\ silent = {} /\ raced = {} /\ late = FALSE
-----------------------------------------------------------------------------
(***************************************************************************)
(* The API server and the informer.                                        *)
(***************************************************************************)
\* Somebody edits, creates or deletes a source ConfigMap.
Edit(s) ==
  /\ edits < MaxEdits
  /\ edits' = edits + 1
  /\ \E cm \in (Revisions \cup {Missing}) \ {api[s]} : api' = [api EXCEPT ![s] = cm]
  /\ late' = (late \/ pc["primer"] = "done")
  /\ UNCHANGED <<cache, queue, volume, threads, ready, proxy, faults, crashes, silent, raced>>

\* A watch event: the cache moves and the source is queued (`wants` holds).
Deliver(s) ==
  /\ pc["worker"] # "off"
  /\ cache[s] # api[s]
  /\ cache' = [cache EXCEPT ![s] = api[s]]
  /\ queue' = queue \cup {s}
  /\ UNCHANGED <<api, volume, threads, ready, proxy, bounds, history>>

-----------------------------------------------------------------------------
(***************************************************************************)
(* syncOne and writeIfChanged, the same code in every thread.              *)
(***************************************************************************)
Goto(t, l) == pc' = [pc EXCEPT ![t] = l]

\* The first of S in a list.
First(list, S) == list[Min({i \in DOMAIN list : list[i] \in S})]

\* syncOne goes through the keys in sorted order, EnsureFiles as they are given.
Key(t) == First(IF src[t] <= Len(Sources) THEN KeyOrder ELSE Ensured, todo[t])

\* A thread between opening <k>.tmp and leaving writeIfChanged.
Writing(t, k) == pc[t] \in {"fill", "rename", "remove"} /\ Key(t) = k

\* The keys syncOne writes: present, wanted and safe.
SyncKeys(cm) == {k \in Keys \cap Projected : cm[k] # Absent}

\* The init container reads the API server, the manager's client the cache.
Seen(t) == IF t = "init" THEN api[Sources[src[t]]] ELSE cache[Sources[src[t]]]

\* Faulty: a missing ConfigMap prunes the files it had projected.
GetPrunes(t) ==
  /\ pc[t] = "get"
  /\ IF Seen(t) = Missing
     THEN /\ file' = [k \in Keys |-> IF k \in Projected THEN NoFile ELSE file[k]]
          /\ todo' = [todo EXCEPT ![t] = {}] /\ UNCHANGED snap
     ELSE /\ snap' = [snap EXCEPT ![t] = Seen(t)]
          /\ todo' = [todo EXCEPT ![t] = SyncKeys(Seen(t))] /\ UNCHANGED file
  /\ Goto(t, "compare")
  /\ UNCHANGED <<world, tmp, src, at, changed, ready, proxy, bounds, history>>

\* r.Get: a missing ConfigMap leaves nothing to do, and every file in place.
Get(t) ==
  /\ pc[t] = "get"
  /\ IF Seen(t) = Missing
     THEN todo' = [todo EXCEPT ![t] = {}] /\ UNCHANGED snap
     ELSE /\ snap' = [snap EXCEPT ![t] = Seen(t)]
          /\ todo' = [todo EXCEPT ![t] = SyncKeys(Seen(t))]
  /\ Goto(t, "compare")
  /\ UNCHANGED <<world, volume, src, at, changed, ready, proxy, bounds, history>>

\* ReadFile: a file that already holds the content is left alone.
Compare(t) ==
  /\ pc[t] = "compare"
  /\ todo[t] # {}
  /\ IF file[Key(t)] = snap[t][Key(t)]
     THEN todo' = [todo EXCEPT ![t] = @ \ {Key(t)}] /\ UNCHANGED pc
     ELSE Goto(t, "open") /\ UNCHANGED todo
  /\ UNCHANGED <<world, volume, src, snap, at, changed, ready, proxy, bounds, history>>

\* Faulty: the destination itself is truncated and written in place.
OpenInPlace(t) ==
  /\ pc[t] = "open"
  /\ file' = [file EXCEPT ![Key(t)] = Partial]
  /\ at' = [at EXCEPT ![t] = "file"]
  /\ Goto(t, "fill")
  /\ UNCHANGED <<world, tmp, src, snap, todo, changed, ready, proxy, bounds, history>>

\* WriteFile, first half: create or truncate <key>.tmp.
Open(t) ==
  /\ pc[t] = "open"
  /\ tmp' = [tmp EXCEPT ![Key(t)] = Partial]
  /\ at' = [at EXCEPT ![t] = "tmp"]
  /\ Goto(t, "fill")
  /\ raced' = IF \E u \in Threads \ {t} : Writing(u, Key(t))
              THEN raced \cup {Key(t)} ELSE raced
  /\ UNCHANGED <<world, file, src, snap, todo, changed, ready, proxy, bounds, silent, late>>

\* Writing c over the bytes d another writer put into the same inode: the
\* longer of the two decides whether a tail of d survives.
Overlay(d, c) == IF d \in {Partial, c} THEN {c} ELSE {c, Partial}

\* WriteFile, second half: the bytes go wherever the inode is now.
Fill(t) ==
  LET k == Key(t)
      c == snap[t][k]
  IN /\ pc[t] = "fill"
     /\ CASE at[t] = "tmp" ->
               /\ \E d \in Overlay(tmp[k], c) : tmp' = [tmp EXCEPT ![k] = d]
               /\ UNCHANGED <<file, silent>>
          [] at[t] = "file" ->
               /\ \E d \in Overlay(file[k], c) : file' = [file EXCEPT ![k] = d]
               /\ silent' = silent \cup {k}
               /\ UNCHANGED tmp
          [] OTHER -> UNCHANGED <<volume, silent>>
     /\ Goto(t, "rename")
     /\ UNCHANGED <<world, src, snap, todo, at, changed, ready, proxy, bounds, raced, late>>

\* What the descriptors of the other writers of k become when <k>.tmp is
\* moved over <k>, or removed.
Moved(t, k, tmpTo, fileTo) ==
  [u \in Threads |->
     IF u = t THEN "none"
     ELSE IF Writing(u, k) /\ at[u] = "tmp" THEN tmpTo
     ELSE IF Writing(u, k) /\ at[u] = "file" THEN fileTo
     ELSE at[u]]

\* Rename succeeds: the key has changed on disk, on to the next one.
Rename(t) ==
  LET k == Key(t)
  IN /\ pc[t] = "rename"
     /\ tmp[k] # NoFile
     /\ file' = [file EXCEPT ![k] = tmp[k]]
     /\ tmp' = [tmp EXCEPT ![k] = NoFile]
     /\ at' = Moved(t, k, "file", "gone")
     /\ changed' = [changed EXCEPT ![t] = @ \cup {k}]
     /\ todo' = [todo EXCEPT ![t] = @ \ {k}]
     /\ Goto(t, "compare")
     /\ silent' = IF t = "worker" THEN silent ELSE silent \cup {k}
     /\ UNCHANGED <<world, src, snap, ready, proxy, bounds, raced, late>>

\* Rename finds no <key>.tmp: another writer has moved it away.
RenameFails(t) ==
  /\ pc[t] = "rename"
  /\ tmp[Key(t)] = NoFile
  /\ Goto(t, "remove")
  /\ UNCHANGED <<world, volume, src, snap, todo, at, changed, ready, proxy, bounds, history>>

-----------------------------------------------------------------------------
(***************************************************************************)
(* What a thread does when syncOne returns.                                *)
(***************************************************************************)
\* t starts on the source with this index, or on the ensured files.
Begin(t, i, l, s, ks) ==
  /\ src' = [src EXCEPT ![t] = i]
  /\ snap' = [snap EXCEPT ![t] = s]
  /\ todo' = [todo EXCEPT ![t] = ks]
  /\ Goto(t, l)

\* Faulty: an empty document instead of the schema-valid floor.
EnsureEmpty ==
  Begin("init", Len(Sources) + 1, "compare", NoData,
        {k \in ToSet(Ensured) : file[k] = NoFile})

\* EnsureFiles: the floor for every ensured file that does not exist.
Ensure ==
  Begin("init", Len(Sources) + 1, "compare", [k \in Keys |-> Floor],
        {k \in ToSet(Ensured) : file[k] = NoFile})

\* SyncAll: the next source, or the end of the loop.
NextSource(t) ==
  /\ t \in {"init", "primer"}
  /\ pc[t] = "compare"
  /\ todo[t] = {}
  /\ src[t] <= Len(Sources)
  /\ IF src[t] < Len(Sources)
     THEN Begin(t, src[t] + 1, "get", NoData, {}) /\ UNCHANGED ready
     ELSE IF t = "init" THEN Ensure /\ UNCHANGED ready
     ELSE Begin(t, 1, "done", NoData, {}) /\ ready' = TRUE
  /\ UNCHANGED <<world, volume, at, changed, proxy, bounds, history>>

\* sync-once exits 0 after EnsureFiles.
InitExit ==
  /\ pc["init"] = "compare"
  /\ todo["init"] = {}
  /\ src["init"] = Len(Sources) + 1
  /\ Begin("init", 1, "done", NoData, {})
  /\ UNCHANGED <<world, volume, at, changed, ready, proxy, bounds, history>>

\* The worker takes a source off the queue and Reconcile calls syncOne.
Reconcile(i) ==
  /\ pc["worker"] = "idle"
  /\ Sources[i] \in queue
  /\ queue' = queue \ {Sources[i]}
  /\ Begin("worker", i, "get", NoData, {})
  /\ changed' = [changed EXCEPT !["worker"] = {}]
  /\ UNCHANGED <<api, cache, volume, at, ready, proxy, bounds, history>>

\* Faulty: only the first successful pass signals.
ReturnSignalsOnce ==
  /\ pc["worker"] = "compare"
  /\ todo["worker"] = {}
  /\ signalled' = (signalled \/ (changed["worker"] # {} /\ ~ready))
  /\ changed' = [changed EXCEPT !["worker"] = {}]
  /\ ready' = TRUE
  /\ Begin("worker", 1, "idle", NoData, {})
  /\ UNCHANGED <<world, volume, at, up, loaded, bounds, history>>

\* Reconcile returns nil: signal if anything changed, then ready.
Return ==
  /\ pc["worker"] = "compare"
  /\ todo["worker"] = {}
  /\ signalled' = (signalled \/ changed["worker"] # {})
  /\ changed' = [changed EXCEPT !["worker"] = {}]
  /\ ready' = TRUE
  /\ Begin("worker", 1, "idle", NoData, {})
  /\ UNCHANGED <<world, volume, at, up, loaded, bounds, history>>

\* Faulty: Reconcile swallows the error, so that the queue does not retry.
AbortNoRetry(t) ==
  /\ CASE t = "worker" -> Begin(t, 1, "idle", NoData, {})
       [] t = "primer" -> Begin(t, 1, "done", NoData, {})
       [] OTHER -> IF src[t] <= Len(Sources) THEN Ensure
                                             ELSE Begin(t, 1, "get", NoData, {})
  /\ changed' = [changed EXCEPT ![t] = {}]
  /\ UNCHANGED <<queue, silent>>

\* Faulty: sync-once gives up after a failed projection, without the floor.
AbortNoFloor(t) ==
  /\ IF t = "worker" THEN /\ queue' = queue \cup {Sources[src[t]]}
                          /\ Begin(t, 1, "idle", NoData, {})
     ELSE Begin(t, 1, "done", NoData, {}) /\ UNCHANGED queue
  /\ changed' = [changed EXCEPT ![t] = {}]
  /\ UNCHANGED silent

\* syncOne returns an error: Reconcile returns it without a signal and the
\* queue retries, the primer logs it and is over, sync-once goes on to
\* EnsureFiles, and an error of EnsureFiles restarts the init container.
Abort(t) ==
  /\ CASE t = "worker" ->
            /\ queue' = queue \cup {Sources[src[t]]}
            /\ Begin(t, 1, "idle", NoData, {})
            /\ silent' = silent \cup changed[t]
       [] t = "primer" -> Begin(t, 1, "done", NoData, {}) /\ UNCHANGED <<queue, silent>>
       [] OTHER ->
            /\ IF src[t] <= Len(Sources) THEN Ensure
                                         ELSE Begin(t, 1, "get", NoData, {})
            /\ UNCHANGED <<queue, silent>>
  /\ changed' = [changed EXCEPT ![t] = {}]

\* os.Remove(tmp) after a failed rename, whoever's file that is by now.
RemoveTmp(t) ==
  /\ pc[t] = "remove"
  /\ tmp' = [tmp EXCEPT ![Key(t)] = NoFile]
  /\ at' = Moved(t, Key(t), "gone", "file")
  /\ Abort(t)
  /\ UNCHANGED <<api, cache, file, ready, proxy, bounds, raced, late>>

\* An API error of the init container's client, or an I/O error of MkdirAll
\* or WriteFile: what has been written of <key>.tmp stays there.
Fault(t) ==
  /\ faults < MaxFaults
  /\ faults' = faults + 1
  /\ pc[t] \in {"open", "fill"} \/ (t = "init" /\ pc[t] = "get")
  /\ at' = [at EXCEPT ![t] = "none"]
  /\ Abort(t)
  /\ UNCHANGED <<api, cache, volume, ready, proxy, edits, crashes, raced, late>>

-----------------------------------------------------------------------------
(***************************************************************************)
(* Containers.                                                             *)
(***************************************************************************)
\* The manager starts with a synced cache; the initial list queues what is
\* there, and primer and worker run side by side.
SidecarStart ==
  /\ pc["init"] = "done"
  /\ pc["worker"] = "off"
  /\ cache' = api
  /\ queue' = {s \in SourceSet : api[s] # Missing}
  /\ pc' = [pc EXCEPT !["worker"] = "idle", !["primer"] = "get"]
  /\ UNCHANGED <<api, volume, src, snap, todo, at, changed, ready, proxy, bounds, history>>

\* The running container dies; the volume is all that is left, and a signal
\* the debouncer still held is gone with the process.
Crash ==
  /\ crashes < MaxCrashes
  /\ crashes' = crashes + 1
  /\ pc' = IF pc["init"] = "done"
           THEN [pc EXCEPT !["worker"] = "off", !["primer"] = "off"]
           ELSE [pc EXCEPT !["init"] = "get"]
  /\ src' = [t \in Threads |-> 1]
  /\ snap' = [t \in Threads |-> NoData]
  /\ todo' = [t \in Threads |-> {}]
  /\ at' = [t \in Threads |-> "none"]
  /\ changed' = [t \in Threads |-> {}]
  /\ queue' = {}
  /\ ready' = FALSE
  /\ signalled' = FALSE
  /\ silent' = silent \cup {k \in Keys : file[k] # loaded[k]}
  /\ late' = FALSE
  /\ UNCHANGED <<api, cache, volume, up, loaded, edits, faults, raced>>

\* The proxy starts once the init container is done; its initial read.
ProxyStart ==
  /\ pc["init"] = "done"
  /\ ~up
  /\ up' = TRUE
  /\ loaded' = file
  /\ silent' = {}
  /\ UNCHANGED <<world, volume, threads, ready, signalled, bounds, raced, late>>

\* The reload Signal asked for: the proxy re-reads the files.
Reload ==
  /\ signalled
  /\ signalled' = FALSE
  /\ IF up THEN loaded' = file /\ silent' = {} ELSE UNCHANGED <<loaded, silent>>
  /\ UNCHANGED <<world, volume, threads, ready, up, bounds, raced, late>>

-----------------------------------------------------------------------------
SyncStep(t) ==
  \/ Get(t)
  \/ Compare(t)
  \/ Open(t)
  \/ Fill(t)
  \/ Rename(t)
  \/ RenameFails(t)
  \/ RemoveTmp(t)
  \/ NextSource(t)

Next ==
  \/ \E s \in SourceSet : Edit(s) \/ Deliver(s)
  \/ \E t \in Threads : SyncStep(t) \/ Fault(t)
  \/ \E i \in 1..Len(Sources) : Reconcile(i)
  \/ Return
  \/ InitExit
  \/ SidecarStart
  \/ Crash
  \/ ProxyStart
  \/ Reload

(***************************************************************************)
(* Fairness: threads run, watch events arrive, the queue is served, the    *)
(* kubelet starts containers, and a requested reload happens.  Nobody is   *)
(* obliged to edit, to fail or to crash.                                   *)
(***************************************************************************)
Fairness ==
  /\ \A s \in SourceSet : WF_vars(Deliver(s))
  /\ \A t \in Threads : WF_vars(SyncStep(t))
  /\ \A i \in 1..Len(Sources) : SF_vars(Reconcile(i))
  /\ WF_vars(Return) /\ WF_vars(InitExit) /\ WF_vars(SidecarStart)
  /\ WF_vars(ProxyStart) /\ WF_vars(Reload)

Safety == Init /\ [][Next]_vars
Spec   == Safety /\ Fairness

-----------------------------------------------------------------------------
(***************************************************************************)
(* syncOne never prunes: no missing ConfigMap, dropped key, failed write,  *)
(* lost race for <key>.tmp or restart makes a projected file disappear,    *)
(* which would take every route of the proxy down at once.                 *)
(***************************************************************************)
NeverPruned == [][\A k \in Keys : file[k] # NoFile => file'[k] # NoFile]_vars

(***************************************************************************)
(* The floor: when the proxy does its blocking initial read, and whenever  *)
(* the sidecar says it is ready, every --ensure-files file is there,       *)
(* whatever failed or was killed in the init container before.             *)
(***************************************************************************)
FloorBeforeProxy == up \/ ready => \A k \in ToSet(Ensured) : file[k] # NoFile

(***************************************************************************)
(* tmp + rename is atomic across I/O errors, kills and left-over tmp       *)
(* files: an incomplete file is only ever visible after two threads were   *)
(* inside writeIfChanged for the same key at once.                         *)
(***************************************************************************)
AtomicUnlessRaced == \A k \in Keys : file[k] = Partial => k \in raced

(***************************************************************************)
(* A change the proxy has not seen is on its way to it as a signal, or     *)
(* will be when the running pass returns - except for the changes the code *)
(* makes without one: by the primer, in place by a writer that lost the    *)
(* race for the tmp file, in a pass that failed further on, or before the  *)
(* sidecar was killed.                                                     *)
(***************************************************************************)
SignalFollowsChange ==
  up => \A k \in Keys : file[k] # loaded[k] =>
          signalled \/ k \in changed["worker"] \/ k \in silent

(***************************************************************************)
(* syncOne's comment says of its writes that "the SIGHUP below makes the   *)
(* re-read deterministic regardless": with every event handled, every pass *)
(* returned and no signal outstanding, the proxy would have been told of   *)
(* what is on disk.                                                        *)
(***************************************************************************)
EveryWriteSignalled ==
  /\ up /\ ~signalled /\ cache = api /\ queue = {}
  /\ pc["primer"] = "done" /\ pc["worker"] = "idle"
  => loaded = file

(***************************************************************************)
(* Watch events heal: an edit made once the primer is out of the way       *)
(* reaches the volume, through retries and over stale, torn or left-over   *)
(* files, unless the sidecar is killed and the primer runs again.          *)
(***************************************************************************)
OnDisk(s) ==
  api[s] = Missing \/ \A k \in Projected : api[s][k] \in {Absent, file[k]}

EditsReachDisk == \A s \in SourceSet : late ~> ~late \/ OnDisk(s)

(***************************************************************************)
(* "ConfigMap write -> watch event -> write <out-dir>/<key> -> SIGHUP"     *)
(* (ConfigSyncReconciler), at start-up too: with every event handled and   *)
(* every pass returned, what is on disk would be what the sources say.     *)
(***************************************************************************)
HandledIsOnDisk ==
  /\ cache = api /\ queue = {}
  /\ pc["primer"] = "done" /\ pc["worker"] = "idle"
  => \A s \in SourceSet : OnDisk(s)

(***************************************************************************)
(* "A concurrent synapse read can never observe a torn or empty file"      *)
(* (writeIfChanged).                                                       *)
(***************************************************************************)
NoTornFile == \A k \in Keys : file[k] # Partial
=============================================================================
