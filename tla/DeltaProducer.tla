---------------------------- MODULE DeltaProducer ---------------------------
(***************************************************************************)
(* The identity producer (controllers/identity_producer.go) and the edge   *)
(* producer (controllers/edge_producer.go): one goroutine that turns       *)
(* cluster state into a table, sends each change of it as a delta tagged   *)
(* with a sequence number, and from time to time uploads the whole table   *)
(* as the baseline for cold starts.  The two run the same loop.            *)
(*                                                                         *)
(* The table of the model is the identity table: an IP belongs to the      *)
(* latest-started serving pod that reports it.  A pod's labels are a set   *)
(* of keys with their values.  The edge producer's lines are rows compared *)
(* as they are.                                                            *)
(*                                                                         *)
(* An HTTP request is a step of its own, between the List it was made from *)
(* and the assignments that follow its answer.  `view` is what a follower  *)
(* holds who pulled the first baseline and has missed no delta since; the  *)
(* first delta of a new epoch makes it pull the baseline again.            *)
(***************************************************************************)
EXTENDS Naturals, FiniteSets

CONSTANTS Pods, IPs,
          PodStates,    \* what a pod may be: ip, owner, labels, start, serving;
                        \* a label is its key and its value
          NoPod, NoRow, NoVersion,
          MaxEdits, MaxTicks, MaxFaults

ASSUME PodAssumption ==
  /\ \A s \in PodStates :
       /\ DOMAIN s = {"ip", "owner", "labels", "start", "serving"}
       /\ s.ip \in IPs /\ s.start \in Nat /\ s.serving \in BOOLEAN
       /\ IsFiniteSet(s.labels)
  /\ NoPod \notin PodStates

ASSUME BoundAssumption == MaxEdits \in Nat /\ MaxTicks \in Nat /\ MaxFaults \in Nat

VARIABLES kind,         \* which of the two producers
          pods, cache,  \* the Pods in the API server and in the informer
          dirty,        \* the channel `dirty`, of capacity one
          debounce,     \* nil, a running timer, or one already received from
          registered,   \* the event handlers are registered
          pc, snap,     \* where the goroutine is, and the table it works on
          index, seq,   \* r.index, r.seq
          epoch,        \* r.epoch, numbered
          lastVersion,  \* r.lastVersion
          base,         \* the baseline the download-api holds
          view,         \* the follower's table
          follows,      \* the epoch it follows, 0 before the first baseline
          edits, ticks, faults,
          drift,        \* history: rows the follower was not told of
          unsent,       \* history: a delta failed and no flush has come since
          unsure        \* history: an upload was stored and reported failed

listed  == <<pods, cache>>
loop    == <<dirty, debounce, registered, pc, snap>>
emitted == <<index, seq, lastVersion>>
agent   == <<view, follows>>
bounds  == <<edits, ticks, faults>>
history == <<drift, unsent, unsure>>
vars    == <<kind, listed, loop, emitted, epoch, base, agent, bounds, history>>

-----------------------------------------------------------------------------
(***************************************************************************)
(* resolveIdentityEntries.                                                 *)
(***************************************************************************)
Claims(ps, ip) == {p \in Pods : ps[p] # NoPod /\ ps[p].serving /\ ps[p].ip = ip}

Latest(ps, ip) ==
  {p \in Claims(ps, ip) : \A q \in Claims(ps, ip) : ps[q].start <= ps[p].start}

Row(s) == [owner |-> s.owner, labels |-> s.labels]
Rows   == {Row(s) : s \in PodStates}
Tables == [IPs -> Rows \cup {NoRow}]

\* Of pods that started together the first one listed wins, whichever it is.
Resolve(ps) ==
  {t \in Tables : \A ip \in IPs :
     t[ip] \in IF Latest(ps, ip) = {} THEN {NoRow} ELSE {Row(ps[p]) : p \in Latest(ps, ip)}}

Empty == [ip \in IPs |-> NoRow]

\* r.equalTo(s): as many labels, and s has all those of r; but a key that s
\* does not have reads as the empty string.
equalTo(r, s) ==
  /\ r.owner = s.owner
  /\ Cardinality(r.labels) = Cardinality(s.labels)
  /\ \A l \in r.labels : l \in s.labels \/ (l[2] = "" /\ \A m \in s.labels : m[1] # l[1])

\* The rows a delta from t to u upserts or removes.
Diff(t, u) ==
  {ip \in IPs : /\ t[ip] # u[ip]
                /\ kind = "identity" /\ NoRow \notin {t[ip], u[ip]} => ~equalTo(t[ip], u[ip])}

\* The rows in which t and u are not the same.
Differing(t, u) == {ip \in IPs : t[ip] # u[ip]}

\* identityVersion hashes everything but the labels; the edge document is
\* hashed as it is.
Version(t) ==
  [ip \in IPs |-> IF t[ip] # NoRow /\ kind = "identity" THEN t[ip].owner ELSE t[ip]]

TypeOK ==
  /\ kind \in {"identity", "edge"}
  /\ pods \in [Pods -> PodStates \cup {NoPod}]
  /\ cache \in [Pods -> PodStates \cup {NoPod}]
  /\ dirty \in BOOLEAN
  /\ debounce \in {"nil", "running"}
  /\ registered \in BOOLEAN
  /\ pc \in {"start", "upload", "register", "select", "post"}
  /\ snap \in Tables /\ index \in Tables /\ base \in Tables /\ view \in Tables
  /\ seq \in Nat
  /\ epoch \in 1..MaxFaults + 1 /\ follows \in 0..epoch
  /\ lastVersion = NoVersion \/ DOMAIN lastVersion = IPs
  /\ edits \in 0..MaxEdits /\ ticks \in 0..MaxTicks /\ faults \in 0..MaxFaults
  /\ drift \subseteq IPs /\ unsent \in BOOLEAN /\ unsure \in BOOLEAN

\* The manager has started the Runnable; caches are synced.
Init ==
  /\ kind \in {"identity", "edge"}
  /\ pods \in [Pods -> PodStates \cup {NoPod}]
  /\ cache = pods
  /\ dirty = FALSE /\ debounce = "nil" /\ registered = FALSE
  /\ pc = "start"
  /\ snap = Empty /\ index = Empty /\ base = Empty /\ view = Empty
  /\ seq = 0 /\ lastVersion = NoVersion /\ epoch = 1 /\ follows = 0
  /\ edits = 0 /\ ticks = 0 /\ faults = 0
  /\ drift = {} /\ unsent = FALSE /\ unsure = FALSE

-----------------------------------------------------------------------------
\* A pod comes, goes or changes.
Edit(p) ==
  /\ edits < MaxEdits
  /\ edits' = edits + 1
  /\ \E s \in (PodStates \cup {NoPod}) \ {pods[p]} : pods' = [pods EXCEPT ![p] = s]
  /\ UNCHANGED <<kind, cache, loop, emitted, epoch, base, agent, ticks, faults, history>>

\* The informer follows; the handler, once registered, signals without blocking.
Deliver(p) ==
  /\ cache[p] # pods[p]
  /\ cache' = [cache EXCEPT ![p] = pods[p]]
  /\ dirty' = (dirty \/ registered)
  /\ UNCHANGED <<kind, pods, debounce, registered, pc, snap, emitted, epoch, base, agent, bounds, history>>

-----------------------------------------------------------------------------
(***************************************************************************)
(* buildAndUpload, at start and for every tick of the baseline timer.      *)
(***************************************************************************)
Continue == pc' = IF registered THEN "select" ELSE "register"

\* What the follower holds, or will pull before it applies the next delta.
Held == IF follows = epoch THEN view ELSE base

\* The rows d, if the follower's v and the diff base i disagree on them.
Differ(d, v, i) == {ip \in d : v[ip] # i[ip]}

\* List and resolve; the diff base of the deltas is reseeded whatever becomes
\* of the upload.  No identities, or a version already uploaded: nothing to do.
Build ==
  /\ \E t \in Resolve(cache) :
       /\ snap' = t
       /\ index' = t
       /\ drift' = Differ(drift \cup Differing(index, t), Held, t)
       /\ IF Version(t) = lastVersion \/ (kind = "identity" /\ t = Empty)
          THEN Continue ELSE pc' = "upload"
  /\ unsent' = FALSE
  /\ UNCHANGED <<kind, epoch, listed, dirty, debounce, registered, seq, lastVersion, base, agent,
                 edits, faults, unsure>>

Start ==
  /\ pc = "start"
  /\ Build
  /\ UNCHANGED ticks

\* case <-baseline.C
Tick ==
  /\ pc = "select"
  /\ ticks < MaxTicks
  /\ ticks' = ticks + 1
  /\ Build

Upload ==
  /\ pc = "upload"
  /\ base' = snap
  /\ lastVersion' = Version(snap)
  /\ unsure' = FALSE
  /\ Continue
  /\ UNCHANGED <<kind, epoch, listed, dirty, debounce, registered, snap, index, seq, agent, bounds,
                 drift, unsent>>

\* Faulty: lastVersion is remembered before the upload is known to succeed.
UploadFailsRemembered ==
  /\ faults < MaxFaults
  /\ faults' = faults + 1
  /\ pc = "upload"
  /\ base' \in {base, snap}
  /\ lastVersion' = Version(snap)
  /\ unsure' = FALSE
  /\ Continue
  /\ UNCHANGED <<kind, epoch, listed, dirty, debounce, registered, snap, index, seq, agent,
                 edits, ticks, drift, unsent>>

\* The upload fails, or its answer is lost: logged, left to the next tick.
UploadFails ==
  /\ faults < MaxFaults
  /\ faults' = faults + 1
  /\ pc = "upload"
  /\ base' \in {base, snap}
  /\ unsure' = (unsure \/ base' # base)
  /\ Continue
  /\ UNCHANGED <<kind, listed, dirty, debounce, registered, snap, emitted, epoch, agent,
                 edits, ticks, drift, unsent>>

\* AddEventHandler, after the first baseline: the handler is called for every
\* Pod there is, the operator's own among them.  The follower of the first
\* epoch starts here.
Register ==
  /\ pc = "register"
  /\ registered' = TRUE
  /\ dirty' = TRUE
  /\ pc' = "select"
  /\ IF follows = 0 THEN view' = base /\ follows' = epoch ELSE UNCHANGED agent
  /\ drift' = Differing(base, index)
  /\ UNCHANGED <<kind, listed, debounce, snap, emitted, epoch, base, bounds, unsent, unsure>>

-----------------------------------------------------------------------------
(***************************************************************************)
(* The deltas.                                                             *)
(***************************************************************************)
\* case <-dirty: a running timer is left alone.
Debounce ==
  /\ pc = "select"
  /\ dirty
  /\ dirty' = FALSE
  /\ debounce' = IF debounce = "nil" THEN "running" ELSE debounce
  /\ UNCHANGED <<kind, listed, registered, pc, snap, emitted, epoch, base, agent, bounds, history>>

\* The follower applies the upserts and removes of the delta.
Receive ==
  /\ view' = [ip \in IPs |-> IF ip \in Diff(index, snap) THEN snap[ip] ELSE Held[ip]]
  /\ follows' = epoch

\* Faulty: the flush drains the channel, as if it covered what comes later.
PostDrains ==
  /\ pc = "post"
  /\ Receive
  /\ drift' = (drift \cup Differing(index, snap)) \ Diff(index, snap)
  /\ seq' = seq + 1
  /\ index' = snap
  /\ dirty' = FALSE
  /\ pc' = "select"
  /\ UNCHANGED <<kind, epoch, listed, debounce, registered, snap, lastVersion, base, bounds, unsent, unsure>>

\* Faulty: debounce keeps the channel it has received from.
FlushKeepsTimer ==
  /\ pc = "select"
  /\ debounce = "running"
  /\ debounce' = "spent"
  /\ \E t \in Resolve(cache) :
       snap' = t /\ pc' = IF Diff(index, t) = {} THEN "select" ELSE "post"
  /\ unsent' = FALSE
  /\ UNCHANGED <<kind, listed, dirty, registered, emitted, epoch, base, agent, bounds, drift, unsure>>

\* case <-debounce, flushDelta up to the POST: an empty diff is not sent.
Flush ==
  /\ pc = "select"
  /\ debounce = "running"
  /\ debounce' = "nil"
  /\ \E t \in Resolve(cache) :
       snap' = t /\ pc' = IF Diff(index, t) = {} THEN "select" ELSE "post"
  /\ unsent' = FALSE
  /\ UNCHANGED <<kind, listed, dirty, registered, emitted, epoch, base, agent, bounds, drift, unsure>>

\* postDelta succeeds: seq and index advance.
Post ==
  /\ pc = "post"
  /\ Receive
  /\ drift' = (drift \cup Differing(index, snap)) \ Diff(index, snap)
  /\ seq' = seq + 1
  /\ index' = snap
  /\ pc' = "select"
  /\ UNCHANGED <<kind, epoch, listed, dirty, debounce, registered, snap, lastVersion, base, bounds,
                 unsent, unsure>>

\* postDelta fails, before or after the relay has sent the delta on; only a
\* later event, or a tick, makes the loop look again.
PostFails ==
  /\ faults < MaxFaults
  /\ faults' = faults + 1
  /\ pc = "post"
  /\ \/ UNCHANGED agent /\ drift' = Differ(drift, Held, index)
     \/ Receive /\ drift' = Differ(drift \cup Diff(index, snap), view', index)
  /\ unsent' = TRUE
  /\ pc' = "select"
  /\ UNCHANGED <<kind, listed, dirty, debounce, registered, snap, emitted, epoch, base,
                 edits, ticks, unsure>>

-----------------------------------------------------------------------------
(***************************************************************************)
(* The operator is killed and starts again: nothing of the producer is     *)
(* kept but what it has sent.                                              *)
(***************************************************************************)
Reset ==
  /\ faults < MaxFaults
  /\ faults' = faults + 1
  /\ cache' = pods
  /\ dirty' = FALSE /\ debounce' = "nil" /\ registered' = FALSE
  /\ pc' = "start"
  /\ snap' = Empty /\ index' = Empty
  /\ seq' = 0 /\ lastVersion' = NoVersion
  /\ drift' = {} /\ unsent' = FALSE /\ unsure' = FALSE
  /\ UNCHANGED <<kind, pods, base, agent, edits, ticks>>

\* Faulty: the epoch is the same in every process.
RestartSameEpoch == Reset /\ UNCHANGED epoch

Restart == Reset /\ epoch' = epoch + 1

Next ==
  \/ \E p \in Pods : Edit(p) \/ Deliver(p)
  \/ Start \/ Tick \/ Upload \/ UploadFails \/ Register
  \/ Debounce \/ Flush \/ Post \/ PostFails
  \/ Restart

Spec == Init /\ [][Next]_vars

-----------------------------------------------------------------------------
\* What the loop has emitted, or is about to.
Covered == IF pc = "post" THEN snap ELSE index

\* An event is in the channel or the timer is running, or a POST has failed,
\* which nothing retries by itself.
Due == dirty \/ debounce = "running" \/ unsent

\* From r to s a pod has lost labels with empty values and kept the others.
LostEmptyLabel(r, s) ==
  /\ kind = "identity" /\ NoRow \notin {r, s} /\ r.owner = s.owner
  /\ \E l \in r.labels : l[1] \notin {m[1] : m \in s.labels}
  /\ \A l \in r.labels : l[2] # "" => l \in s.labels

AsGood(t, u) == \A ip \in IPs : t[ip] = u[ip] \/ LostEmptyLabel(t[ip], u[ip])

(***************************************************************************)
(* No change is overlooked: when the cluster differs from what the loop    *)
(* has emitted, or is about to, something is still to come of it - across  *)
(* the unregistered start, a full channel, a timer that was armed before,  *)
(* requests under way and baseline ticks.  Only a pod that swaps a label   *)
(* with an empty value for another may be left at that.                    *)
(***************************************************************************)
NoLostChange == registered => (\E t \in Resolve(cache) : AsGood(Covered, t)) \/ Due

(***************************************************************************)
(* "so the delta diff can detect real changes" (equalTo), "on any pod      *)
(* add/update/delete it emits a small coalesced delta": the same of every  *)
(* change, whatever the labels.                                            *)
(***************************************************************************)
RealChangesDetected == registered => Covered \in Resolve(cache) \/ Due

(***************************************************************************)
(* The diff base is what followers hold: r.index differs from the table of *)
(* one who has missed no delta - or, after a restart, from the baseline    *)
(* that the new epoch makes it pull - only in rows a baseline reseeded, in *)
(* rows of an upload that failed, in those of a delta that was relayed     *)
(* though its POST was reported failed, and in rows that equalTo kept out  *)
(* of a delta sent for others.  Changes made while the operator was down   *)
(* are in none of these.                                                   *)
(***************************************************************************)
IndexIsEmitted == registered => Differing(Held, index) \subseteq drift

(***************************************************************************)
(* Skipping an upload is safe: what the download-api holds is the version  *)
(* the producer remembers, through failed uploads, reverts and emptied     *)
(* clusters, unless an upload was stored and reported failed.              *)
(***************************************************************************)
SkipIsSafe == lastVersion # NoVersion => Version(base) = lastVersion \/ unsure

Settled == pc = "select" /\ cache = pods /\ ~dirty /\ debounce = "nil" /\ registered

(***************************************************************************)
(* "On any pod add/update/delete it emits a small coalesced delta so       *)
(* agents stay fresh" and "r.index/r.seq advance only on a successful      *)
(* POST" (IdentityProducerReconciler, flushDelta): once no event is left   *)
(* to handle, a follower that has missed nothing holds the present table.  *)
(***************************************************************************)
FollowerIsFresh == Settled => view \in Resolve(pods)
=============================================================================
