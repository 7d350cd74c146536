-------------------------- MODULE ConfigSyncProofs --------------------------
(***************************************************************************)
(* Proofs about ConfigSync, for any list of sources, any keys and          *)
(* contents, and any number of edits, I/O errors and kills.                *)
(***************************************************************************)
EXTENDS ConfigSync, WellFoundedInduction, TLAPS

\* Each thread's own state: who writes has a key to write, what there is to
\* write is there, and only the init container comes to the ensured files.
Work(t) ==
  /\ pc[t] \in {"open", "fill", "rename", "remove"} => todo[t] # {}
  /\ pc[t] = "get" \/ t # "init" => src[t] <= Len(Sources)
  /\ src[t] > Len(Sources) => todo[t] \subseteq ToSet(Ensured)
  /\ \A k \in todo[t] : snap[t][k] # Absent

\* The sidecar comes after the init container.
Phase == pc["init"] # "done" => pc["primer"] = "off" /\ pc["worker"] = "off"

TypeInv == TypeOK /\ Phase /\ \A t \in Threads : Work(t)

Floored == \A k \in ToSet(Ensured) : file[k] # NoFile

\* The proxy comes after the init container, which is done only when every
\* ensured file is there, and until then has the missing ones to write.
FloorInv ==
  /\ up \/ ready => pc["init"] = "done"
  /\ pc["init"] = "done" => Floored
  /\ src["init"] > Len(Sources) =>
       \A k \in ToSet(Ensured) : file[k] # NoFile \/ k \in todo["init"]

\* A key that no two threads have raced for has one writer, whose tmp file it
\* is, and is renamed complete.
OneWriter(k) ==
  /\ file[k] # Partial
  /\ \A t, u \in Threads : Writing(t, k) /\ Writing(u, k) => t = u
  /\ \A t \in Threads : Writing(t, k) =>
       /\ at[t] = "tmp" /\ pc[t] # "remove"
       /\ tmp[k] = IF pc[t] = "fill" THEN Partial ELSE snap[t][k]

WriterInv == \A k \in Keys \ raced : OneWriter(k)

\* A worker that is not in a pass owes no signal.
SignalInv ==
  /\ pc["worker"] \in {"off", "idle"} => changed["worker"] = {}
  /\ SignalFollowsChange

-----------------------------------------------------------------------------
(***************************************************************************)
(* The operators of the model.                                             *)
(***************************************************************************)
(* The first of a non-empty set of elements of a list is one of them. *)
LEMMA FirstIn ==
  ASSUME NEW E, NEW list \in Seq(E), NEW S \in SUBSET ToSet(list), S # {}
  PROVE  First(list, S) \in S
<1> DEFINE I == {i \in DOMAIN list : list[i] \in S}
<1>1. I \in SUBSET Nat
  <2>1. DOMAIN list = 1..Len(list) /\ Len(list) \in Nat
    OBVIOUS
  <2> QED
    BY <2>1
<1>2. I # {}
  BY DEF ToSet
<1>3. \E n \in I : \A m \in I : n <= m
  <2> DEFINE R == {ss \in Nat \X Nat : ss[1] < ss[2]}
  <2>1. IsWellFoundedOn(R, Nat)
    BY NatLessThanWellFounded DEF OpToRel
  <2>2. \A m, n \in Nat : m < n => <<m, n>> \in R
    OBVIOUS
  <2> HIDE DEF I, R
  <2>3. PICK n \in I : \A m \in I : ~(<<m, n>> \in R)
    BY <1>1, <1>2, <2>1, WFMin
  <2>4. ASSUME NEW m \in I PROVE n <= m
    <3>1. m \in Nat /\ n \in Nat
      BY <1>1
    <3>2. ~(m < n)
      BY <2>2, <2>3, <3>1
    <3> QED
      BY <3>1, <3>2
  <2> QED
    BY <2>4
<1>4. Min(I) \in I
  BY <1>3 DEF Min
<1> QED
  BY <1>4 DEF First

(* A thread with keys left is at one of them. *)
LEMMA KeyIn ==
  ASSUME NEW t \in Threads, TypeOK, Work(t), todo[t] # {}
  PROVE  Key(t) \in todo[t]
<1>1. todo[t] \in SUBSET ToSet(KeyOrder)
  BY DEF TypeOK, Keys
<1>2. CASE src[t] <= Len(Sources)
  BY <1>1, <1>2, FirstIn, ListAssumption DEF Key
<1>3. CASE ~(src[t] <= Len(Sources))
  <2>1. todo[t] \in SUBSET ToSet(Ensured)
    BY <1>3, ListAssumption DEF Work, TypeOK
  <2> QED
    BY <1>3, <2>1, FirstIn, ListAssumption DEF Key
<1> QED
  BY <1>2, <1>3

(* It stays there while its source and its keys are the same. *)
LEMMA KeySame ==
  ASSUME NEW t \in Threads, src'[t] = src[t], todo'[t] = todo[t]
  PROVE  Key(t)' = Key(t)
  BY DEF Key

(* The list of sources is not empty, and each of its elements is a source. *)
LEMMA SourceFacts ==
  /\ Len(Sources) \in Nat \ {0}
  /\ \A i \in 1..Len(Sources) : Sources[i] \in SourceSet
  /\ ToSet(Ensured) \subseteq Keys
  BY ListAssumption DEF ToSet

(* Content written over other content is itself, or torn. *)
LEMMA OverlayDoc ==
  ASSUME NEW d, NEW c, NEW e \in Overlay(d, c)
  PROVE  e \in {c, Partial}
  BY DEF Overlay

(* What is read of a source is a revision of it, or that there is none. *)
LEMMA SeenRevision ==
  ASSUME NEW t \in Threads, TypeOK, Work(t), pc[t] = "get"
  PROVE  Seen(t) \in Revisions \cup {Missing}
  BY SourceFacts DEF Seen, TypeOK, Work
-----------------------------------------------------------------------------
(***************************************************************************)
(* Types and the threads' own state.                                       *)
(***************************************************************************)
Snaps == [Keys -> Contents \cup {Absent, Floor}]

ThreadInv ==
  /\ pc \in [Threads -> Places] /\ src \in [Threads -> 1..Len(Sources) + 1]
  /\ snap \in [Threads -> Snaps] /\ todo \in [Threads -> SUBSET Keys]
  /\ \A t \in Threads : Work(t)

(* A thread that a step does not touch keeps its work. *)
LEMMA WorkSame ==
  ASSUME NEW t \in Threads, Work(t),
         pc'[t] = pc[t], src'[t] = src[t], snap'[t] = snap[t], todo'[t] = todo[t]
  PROVE  Work(t)'
  BY DEF Work

(* A thread begins on a source, on the ensured files, or ends a pass. *)
LEMMA BeginOK ==
  ASSUME TypeInv, NEW t \in Threads, NEW i \in 1..Len(Sources) + 1, NEW l \in {"get", "compare", "done", "idle"},
         NEW s \in Snaps, NEW ks \in SUBSET Keys,
         l = "get" \/ t # "init" => i <= Len(Sources),
         i > Len(Sources) => ks \subseteq ToSet(Ensured),
         \A k \in ks : s[k] # Absent,
         Begin(t, i, l, s, ks)
  PROVE  ThreadInv'
<1> USE DEF TypeInv, TypeOK, Begin, Goto, Places, Snaps
<1>1. /\ pc' \in [Threads -> Places] /\ src' \in [Threads -> 1..Len(Sources) + 1]
      /\ snap' \in [Threads -> Snaps] /\ todo' \in [Threads -> SUBSET Keys]
  OBVIOUS
<1>2. Work(t)'
  BY DEF Work
<1>3. ASSUME NEW u \in Threads \ {t} PROVE Work(u)'
  BY <1>3, WorkSame
<1> QED
  BY <1>1, <1>2, <1>3 DEF ThreadInv

LEMMA NoDataOK == NoData \in Snaps
  BY DEF NoData, Snaps

(* EnsureFiles writes the floor for what is missing of the ensured files. *)
LEMMA EnsureOK ==
  ASSUME TypeInv, Ensure
  PROVE  ThreadInv'
<1> DEFINE ks == {k \in ToSet(Ensured) : file[k] = NoFile}
           fl == [k \in Keys |-> Floor]
<1>1. ks \in SUBSET Keys /\ ks \subseteq ToSet(Ensured)
  BY SourceFacts
<1>2. fl \in Snaps /\ \A k \in ks : fl[k] # Absent
  BY <1>1, ContentAssumption DEF Snaps
<1>3. Begin("init", Len(Sources) + 1, "compare", fl, ks)
  BY DEF Ensure
<1> HIDE DEF ks, fl
<1>4. Len(Sources) + 1 \in 1..Len(Sources) + 1 /\ "init" \in Threads
  BY SourceFacts DEF Threads
<1> QED
  BY <1>1, <1>2, <1>3, <1>4, BeginOK

(* An error of syncOne: a retry, the end of the primer, or the ensured files. *)
LEMMA AbortOK ==
  ASSUME TypeInv, NEW t \in Threads, Abort(t)
  PROVE  /\ ThreadInv'
         /\ changed' \in [Threads -> SUBSET Keys]
         /\ queue' \subseteq SourceSet /\ silent' \subseteq Keys
<1>1. changed' \in [Threads -> SUBSET Keys]
  BY DEF Abort, TypeInv, TypeOK
<1>2. ASSUME NEW l \in {"get", "done", "idle"}, Begin(t, 1, l, NoData, {}) PROVE ThreadInv'
  BY <1>2, SourceFacts, NoDataOK, BeginOK
<1>3. ASSUME UNCHANGED <<queue, silent>> PROVE queue' \subseteq SourceSet /\ silent' \subseteq Keys
  BY <1>3 DEF TypeInv, TypeOK
<1>4. CASE t = "worker"
  <2>1. /\ queue' = queue \cup {Sources[src[t]]}
        /\ Begin(t, 1, "idle", NoData, {})
        /\ silent' = silent \cup changed[t]
    BY <1>4 DEF Abort
  <2>2. queue' \subseteq SourceSet /\ silent' \subseteq Keys
    BY <1>4, <2>1, SourceFacts DEF TypeInv, TypeOK, Work
  <2> QED
    BY <1>1, <1>2, <2>1, <2>2
<1>5. CASE t = "primer"
  BY <1>1, <1>2, <1>3, <1>5 DEF Abort
<1>6. CASE t = "init"
  <2>1. UNCHANGED <<queue, silent>> /\ (Ensure \/ Begin(t, 1, "get", NoData, {}))
    BY <1>6 DEF Abort
  <2> QED
    BY <1>1, <1>2, <1>3, <2>1, EnsureOK
<1> QED
  BY <1>4, <1>5, <1>6 DEF Threads

(* Descriptors that follow their inodes. *)
LEMMA MovedOK ==
  ASSUME TypeOK, NEW t \in Threads, NEW k,
         NEW p \in {"file", "gone"}, NEW q \in {"file", "gone"}
  PROVE  Moved(t, k, p, q) \in [Threads -> {"none", "tmp", "file", "gone"}]
  BY DEF Moved, TypeOK

(* Nothing starts the sidecar before the init container is done, and that is *)
(* never undone.                                                             *)
LEMMA PhaseStep == TypeInv /\ [Next]_vars => Phase'
<1> SUFFICES ASSUME TypeInv, [Next]_vars PROVE Phase'
  OBVIOUS
<1> USE DEF Phase, TypeInv
<1>0. pc \in [Threads -> Places] /\ Threads = {"init", "primer", "worker"}
  BY DEF TypeOK, Threads
<1>1. ASSUME NEW t \in Threads, NEW l, Goto(t, l), pc[t] \notin {"off", "done"}, t = "init" => l # "done"
      PROVE Phase'
  BY <1>0, <1>1 DEF Goto
<1>2. ASSUME NEW t \in Threads, SyncStep(t) \/ Fault(t) PROVE Phase'
  <2>1. CASE UNCHANGED pc
    BY <2>1
  <2>2. ASSUME Abort(t), pc[t] \notin {"off", "done"} PROVE Phase'
    <3>1. CASE t = "init"
      <4>1. Goto(t, "compare") \/ Goto(t, "get")
        BY <2>2, <3>1 DEF Abort, Begin, Ensure
      <4> QED
        BY <1>1, <2>2, <4>1
    <3>2. CASE t # "init"
      <4>1. Goto(t, "idle") \/ Goto(t, "done")
        BY <1>0, <2>2, <3>2 DEF Abort, Begin
      <4> QED
        BY <1>1, <2>2, <3>2, <4>1
    <3> QED
      BY <3>1, <3>2
  <2>3. ASSUME NextSource(t) PROVE Phase'
    BY <1>1, <2>3 DEF NextSource, Begin, Ensure
  <2> QED
    BY <1>1, <1>2, <2>1, <2>2, <2>3
    DEF SyncStep, Get, Compare, Open, Fill, Rename, RenameFails, RemoveTmp, Fault
<1>3. ASSUME NEW i \in 1..Len(Sources), Reconcile(i) PROVE Phase'
  BY <1>0, <1>1, <1>3 DEF Reconcile, Begin
<1>4. CASE Return
  BY <1>0, <1>1, <1>4 DEF Return, Begin
<1>5. CASE InitExit
  BY <1>0, <1>5 DEF InitExit, Begin, Goto
<1>6. CASE SidecarStart
  BY <1>0, <1>6 DEF SidecarStart
<1>7. CASE Crash
  BY <1>0, <1>7 DEF Crash
<1>8. ASSUME UNCHANGED pc PROVE Phase'
  BY <1>8
<1> QED
  BY <1>2, <1>3, <1>4, <1>5, <1>6, <1>7, <1>8
  DEF Next, Edit, Deliver, ProxyStart, Reload, threads, vars

LEMMA TypeStep == TypeInv /\ [Next]_vars => TypeInv'
<1> SUFFICES ASSUME TypeInv, [Next]_vars PROVE TypeInv'
  OBVIOUS
<1> USE SourceFacts, NoDataOK, BoundAssumption DEF TypeInv, ThreadInv, Snaps
<1>100. Phase'
  BY PhaseStep
<1> USE <1>100
<1>0. ASSUME UNCHANGED threads PROVE \A u \in Threads : Work(u)'
  BY <1>0, WorkSame DEF threads
<1>1. ASSUME NEW s \in SourceSet, Edit(s) PROVE TypeInv'
  <2>1. late' \in BOOLEAN
    BY <1>1 DEF Edit
  <2> QED
    BY <1>0, <1>1, <2>1 DEF Edit, TypeOK, volume, threads, proxy
<1>2. ASSUME NEW s \in SourceSet, Deliver(s) PROVE TypeInv'
  BY <1>0, <1>2 DEF Deliver, TypeOK, volume, threads, proxy, bounds, history
<1>3. ASSUME NEW t \in Threads, Get(t) PROVE TypeInv'
  <2>1. Seen(t) \in Revisions \cup {Missing}
    BY <1>3, SeenRevision DEF Get
  <2>2. UNCHANGED <<world, volume, src, at, changed, ready, proxy, bounds, history>>
    BY <1>3 DEF Get
  <2>3. pc' = [pc EXCEPT ![t] = "compare"]
    BY <1>3 DEF Get, Goto
  <2>4. CASE Seen(t) = Missing
    <3>1. todo' = [todo EXCEPT ![t] = {}] /\ snap' = snap
      BY <1>3, <2>4 DEF Get
    <3>2. TypeOK'
      BY <2>2, <2>3, <3>1 DEF TypeOK, Places, world, volume, proxy, bounds, history
    <3>3. ASSUME NEW u \in Threads PROVE Work(u)'
      BY <1>3, <2>2, <2>3, <3>1 DEF Work, TypeOK, Get
    <3> QED
      BY <3>2, <3>3
  <2>5. CASE Seen(t) # Missing
    <3>1. todo' = [todo EXCEPT ![t] = SyncKeys(Seen(t))] /\ snap' = [snap EXCEPT ![t] = Seen(t)]
      BY <1>3, <2>5 DEF Get
    <3>2. Seen(t) \in [Keys -> Contents \cup {Absent}]
      BY <2>1, <2>5, ContentAssumption
    <3>3. SyncKeys(Seen(t)) \subseteq Keys /\ \A k \in SyncKeys(Seen(t)) : Seen(t)[k] # Absent
      BY DEF SyncKeys
    <3>4. TypeOK'
      BY <2>2, <2>3, <3>1, <3>2, <3>3 DEF TypeOK, Places, world, volume, proxy, bounds, history
    <3>5. Work(t)'
      BY <1>3, <2>2, <2>3, <3>1, <3>3 DEF Work, TypeOK, Get
    <3>6. ASSUME NEW u \in Threads \ {t} PROVE Work(u)'
      BY <2>2, <2>3, <3>1, <3>6, WorkSame DEF TypeOK
    <3> QED
      BY <3>4, <3>5, <3>6
  <2> QED
    BY <2>4, <2>5
<1>4. ASSUME NEW t \in Threads, Compare(t) PROVE TypeInv'
  <2>1. UNCHANGED <<world, volume, src, snap, at, changed, ready, proxy, bounds, history>>
    BY <1>4 DEF Compare
  <2>2. CASE todo' = [todo EXCEPT ![t] = @ \ {Key(t)}] /\ UNCHANGED pc
    <3>1. TypeOK'
      BY <2>1, <2>2 DEF TypeOK, world, volume, proxy, bounds, history
    <3>2. ASSUME NEW u \in Threads PROVE Work(u)'
      BY <1>4, <2>1, <2>2 DEF Compare, TypeOK, Work
    <3> QED
      BY <3>1, <3>2
  <2>3. CASE pc' = [pc EXCEPT ![t] = "open"] /\ UNCHANGED todo
    <3>1. TypeOK'
      BY <2>1, <2>3 DEF TypeOK, Places, world, volume, proxy, bounds, history
    <3>2. ASSUME NEW u \in Threads PROVE Work(u)'
      BY <1>4, <2>1, <2>3 DEF Compare, TypeOK, Work
    <3> QED
      BY <3>1, <3>2
  <2> QED
    BY <1>4, <2>2, <2>3 DEF Compare, Goto
<1>5. ASSUME NEW t \in Threads, Open(t) PROVE TypeInv'
  <2>1. Key(t) \in Keys
    BY <1>5, KeyIn DEF Open, Work, TypeOK
  <2>2. TypeOK'
    BY <1>5, <2>1 DEF Open, Goto, TypeOK, Places, Docs, world, proxy, bounds
  <2>3. ASSUME NEW u \in Threads PROVE Work(u)'
    BY <1>5, <2>3 DEF Open, Goto, TypeOK, Work
  <2> QED
    BY <2>2, <2>3
<1>6. ASSUME NEW t \in Threads, Fill(t) PROVE TypeInv'
  <2>0. Key(t) \in todo[t]
    BY <1>6, KeyIn DEF Fill, Work
  <2>1. Key(t) \in Keys /\ snap[t][Key(t)] \in Docs
    BY <2>0 DEF Work, TypeOK, Docs
  <2>2. UNCHANGED <<world, src, snap, todo, at, changed, ready, proxy, bounds, raced, late>>
    BY <1>6 DEF Fill
  <2>3. pc' = [pc EXCEPT ![t] = "rename"] /\ pc[t] = "fill"
    BY <1>6 DEF Fill, Goto
  <2>4. /\ file' \in [Keys -> Docs \cup {NoFile}] /\ tmp' \in [Keys -> Docs \cup {NoFile}]
        /\ silent' \subseteq Keys
    <3> DEFINE c == snap[t][Key(t)]
    <3>1. CASE at[t] = "tmp"
      <4>1. UNCHANGED <<file, silent>> /\ \E d \in Overlay(tmp[Key(t)], c) : tmp' = [tmp EXCEPT ![Key(t)] = d]
        BY <1>6, <3>1 DEF Fill
      <4> QED
        BY <2>1, <4>1, OverlayDoc DEF TypeOK, Docs
    <3>2. CASE at[t] = "file"
      <4>1. /\ UNCHANGED tmp /\ silent' = silent \cup {Key(t)}
            /\ \E d \in Overlay(file[Key(t)], c) : file' = [file EXCEPT ![Key(t)] = d]
        BY <1>6, <3>2 DEF Fill
      <4> QED
        BY <2>1, <4>1, OverlayDoc DEF TypeOK, Docs
    <3>3. CASE at[t] \notin {"tmp", "file"}
      BY <1>6, <3>3 DEF Fill, TypeOK, volume
    <3> QED
      BY <3>1, <3>2, <3>3
  <2>5. TypeOK'
    BY <2>2, <2>3, <2>4 DEF TypeOK, Places, world, proxy, bounds
  <2>6. ASSUME NEW u \in Threads PROVE Work(u)'
    BY <2>2, <2>3, <2>6 DEF TypeOK, Work
  <2> QED
    BY <2>5, <2>6
<1>7. ASSUME NEW t \in Threads, Rename(t) PROVE TypeInv'
  <2>1. Key(t) \in Keys
    BY <1>7, KeyIn DEF Rename, Work, TypeOK
  <2>2. at' \in [Threads -> {"none", "tmp", "file", "gone"}]
    BY <1>7, MovedOK DEF Rename
  <2>3. TypeOK'
    BY <1>7, <2>1, <2>2 DEF Rename, Goto, TypeOK, Places, world, proxy, bounds
  <2>4. ASSUME NEW u \in Threads PROVE Work(u)'
    BY <1>7, <2>4 DEF Rename, Goto, TypeOK, Work
  <2> QED
    BY <2>3, <2>4
<1>8. ASSUME NEW t \in Threads, RenameFails(t) PROVE TypeInv'
  <2>1. TypeOK'
    BY <1>8 DEF RenameFails, Goto, TypeOK, Places, world, volume, proxy, bounds, history
  <2>2. ASSUME NEW u \in Threads PROVE Work(u)'
    BY <1>8, <2>2 DEF RenameFails, Goto, TypeOK, Work
  <2> QED
    BY <2>1, <2>2
<1>9. ASSUME NEW t \in Threads, RemoveTmp(t) PROVE TypeInv'
  <2>1. at' \in [Threads -> {"none", "tmp", "file", "gone"}]
    BY <1>9, MovedOK DEF RemoveTmp
  <2>2. tmp' \in [Keys -> Docs \cup {NoFile}]
    BY <1>9 DEF RemoveTmp, TypeOK
  <2> QED
    BY <1>9, <2>1, <2>2, AbortOK DEF RemoveTmp, TypeOK, proxy, bounds
<1>10. ASSUME NEW t \in Threads, NextSource(t) PROVE TypeInv'
  <2>1. ThreadInv'
    <3>1. CASE src[t] < Len(Sources)
      <4>1. src[t] + 1 \in 1..Len(Sources) + 1 /\ src[t] + 1 <= Len(Sources)
        BY <3>1 DEF TypeOK
      <4>2. Begin(t, src[t] + 1, "get", NoData, {})
        BY <1>10, <3>1 DEF NextSource
      <4> QED
        BY <4>1, <4>2, BeginOK
    <3>2. CASE ~(src[t] < Len(Sources)) /\ t = "init"
      BY <1>10, <3>2, EnsureOK DEF NextSource
    <3>3. CASE ~(src[t] < Len(Sources)) /\ t # "init"
      BY <1>10, <3>3, BeginOK DEF NextSource
    <3> QED
      BY <3>1, <3>2, <3>3
  <2>2. ready' \in BOOLEAN
    BY <1>10 DEF NextSource, TypeOK
  <2> QED
    BY <1>10, <2>1, <2>2 DEF NextSource, TypeOK, world, volume, proxy, bounds, history
<1>11. ASSUME NEW t \in Threads, Fault(t) PROVE TypeInv'
  <2>1. at' \in [Threads -> {"none", "tmp", "file", "gone"}]
    BY <1>11 DEF Fault, TypeOK
  <2>2. faults' \in 0..MaxFaults
    BY <1>11 DEF Fault, TypeOK
  <2> QED
    BY <1>11, <2>1, <2>2, AbortOK DEF Fault, TypeOK, volume, proxy
<1>12. ASSUME NEW i \in 1..Len(Sources), Reconcile(i) PROVE TypeInv'
  <2>1. ThreadInv'
    BY <1>12, BeginOK DEF Reconcile, Threads
  <2> QED
    BY <1>12, <2>1 DEF Reconcile, TypeOK, volume, proxy, bounds, history
<1>13. CASE Return
  <2>1. ThreadInv'
    BY <1>13, BeginOK DEF Return, Threads
  <2>2. ready' \in BOOLEAN /\ signalled' \in BOOLEAN
    BY <1>13 DEF Return
  <2> QED
    BY <1>13, <2>1, <2>2 DEF Return, TypeOK, world, volume, bounds, history
<1>14. CASE InitExit
  <2>1. ThreadInv'
    <3>1. Begin("init", 1, "done", NoData, {}) /\ "init" \in Threads
      BY <1>14 DEF InitExit, Threads
    <3> QED
      BY <3>1, BeginOK
  <2> QED
    BY <1>14, <2>1 DEF InitExit, TypeOK, world, volume, proxy, bounds, history
<1>15. CASE SidecarStart
  <2>1. TypeOK'
    BY <1>15 DEF SidecarStart, TypeOK, Places, Threads, volume, proxy, bounds, history
  <2>2. ASSUME NEW u \in Threads PROVE Work(u)'
    BY <1>15, <2>2 DEF SidecarStart, TypeOK, Work
  <2> QED
    BY <2>1, <2>2
<1>16. CASE Crash
  <2>1. ready' \in BOOLEAN /\ signalled' \in BOOLEAN /\ late' \in BOOLEAN
    BY <1>16 DEF Crash
  <2>2. TypeOK'
    BY <1>16, <2>1 DEF Crash, TypeOK, Places, Threads, volume
  <2>3. ASSUME NEW u \in Threads PROVE Work(u)'
    BY <1>16, <2>3 DEF Crash, TypeOK, Work, Phase, Threads
  <2> QED
    BY <2>2, <2>3
<1>17. CASE ProxyStart
  <2>1. up' \in BOOLEAN
    BY <1>17 DEF ProxyStart
  <2> QED
    BY <1>0, <1>17, <2>1 DEF ProxyStart, TypeOK, world, volume, threads, bounds
<1>18. CASE Reload
  <2>1. signalled' \in BOOLEAN
    BY <1>18 DEF Reload
  <2> QED
    BY <1>0, <1>18, <2>1 DEF Reload, TypeOK, world, volume, threads, bounds
<1>19. CASE UNCHANGED vars
  BY <1>0, <1>19 DEF vars, TypeOK, world, volume, threads, proxy, bounds, history
<1> QED
  BY <1>1, <1>2, <1>3, <1>4, <1>5, <1>6, <1>7, <1>8, <1>9, <1>10, <1>11, <1>12, <1>13,
     <1>14, <1>15, <1>16, <1>17, <1>18, <1>19 DEF Next, SyncStep

LEMMA TypeInit == Init => TypeInv
<1>1. Init => ready \in BOOLEAN /\ signalled \in BOOLEAN /\ up \in BOOLEAN /\ late \in BOOLEAN
  BY DEF Init
<1>2. Init => TypeOK
  BY <1>1, SourceFacts, NoDataOK, BoundAssumption DEF Init, TypeOK, Snaps, Places, Threads
<1>3. Init => \A t \in Threads : Work(t)
  BY SourceFacts DEF Init, Work, Threads
<1>4. Init => Phase
  BY DEF Init, Phase, Threads
<1> QED
  BY <1>2, <1>3, <1>4 DEF TypeInv

(***************************************************************************)
(* The volume, the threads and the proxy stay of their types: no write of  *)
(* writeIfChanged stores anything but a value of a source or the floor.    *)
(***************************************************************************)
THEOREM TypeCorrect == Safety => []TypeOK
<1>1. TypeInv => TypeOK
  BY DEF TypeInv
<1> QED
  BY <1>1, TypeInit, TypeStep, PTL DEF Safety
-----------------------------------------------------------------------------
(***************************************************************************)
(* The files.                                                              *)
(***************************************************************************)
(* A thread that writes is at a key, and the content for it is there. *)
LEMMA WriterKey ==
  ASSUME TypeInv, NEW t \in Threads, pc[t] \in {"open", "fill", "rename", "remove"}
  PROVE  Key(t) \in todo[t] /\ Key(t) \in Keys /\ snap[t][Key(t)] \in Contents \cup {Floor}
<1>1. Key(t) \in todo[t]
  BY KeyIn DEF TypeInv, Work
<1> QED
  BY <1>1 DEF TypeInv, TypeOK, Work

(* Only a descriptor in place and a rename change a file. *)
LEMMA FileSteps ==
  ASSUME [Next]_vars, file' # file
  PROVE  \E t \in Threads : Fill(t) \/ Rename(t)
<1>1. ASSUME NEW t \in Threads, Get(t) \/ Compare(t) \/ Open(t) \/ RenameFails(t) \/ NextSource(t)
      PROVE file' = file
  BY <1>1 DEF Get, Compare, Open, RenameFails, NextSource, volume
<1>2. ASSUME NEW t \in Threads, RemoveTmp(t) \/ Fault(t) PROVE file' = file
  BY <1>2 DEF RemoveTmp, Fault, volume
<1>3. ASSUME NEW s \in SourceSet, Edit(s) \/ Deliver(s) PROVE file' = file
  BY <1>3 DEF Edit, Deliver, volume
<1>4. ASSUME NEW i \in 1..Len(Sources), Reconcile(i) PROVE file' = file
  BY <1>4 DEF Reconcile, volume
<1>5. ASSUME Return \/ InitExit \/ SidecarStart \/ Crash \/ ProxyStart \/ Reload \/ UNCHANGED vars
      PROVE file' = file
  BY <1>5 DEF Return, InitExit, SidecarStart, Crash, ProxyStart, Reload, vars, volume
<1> QED
  BY <1>1, <1>2, <1>3, <1>4, <1>5 DEF Next, SyncStep

(* A file that is there stays there. *)
LEMMA FilesKept ==
  ASSUME TypeInv, [Next]_vars, NEW k \in Keys, file[k] # NoFile
  PROVE  file'[k] # NoFile
<1>1. ASSUME NEW t \in Threads, Fill(t), file' # file PROVE file'[k] # NoFile
  <2>1. Key(t) \in Keys /\ snap[t][Key(t)] \in Contents \cup {Floor}
    BY <1>1, WriterKey DEF Fill
  <2>2. PICK d \in Overlay(file[Key(t)], snap[t][Key(t)]) : file' = [file EXCEPT ![Key(t)] = d]
    BY <1>1 DEF Fill, volume
  <2>3. d # NoFile
    BY <2>1, OverlayDoc, ContentAssumption
  <2> QED
    BY <2>2, <2>3 DEF TypeInv, TypeOK
<1>2. ASSUME NEW t \in Threads, Rename(t) PROVE file'[k] # NoFile
  BY <1>2 DEF Rename, TypeInv, TypeOK
<1> QED
  BY <1>1, <1>2, FileSteps

(***************************************************************************)
(* syncOne and writeIfChanged: whatever goes missing, fails, races or is   *)
(* killed, no step makes a projected file disappear.                       *)
(***************************************************************************)
THEOREM FilesNeverPruned == Safety => NeverPruned
<1>1. TypeInv /\ [Next]_vars => [\A k \in Keys : file[k] # NoFile => file'[k] # NoFile]_vars
  BY FilesKept
<1> QED
  BY <1>1, TypeInit, TypeStep, PTL DEF Safety, NeverPruned
-----------------------------------------------------------------------------
(***************************************************************************)
(* The floor.                                                              *)
(***************************************************************************)
(* A thread's step leaves the other threads where they are. *)
LEMMA OtherThreads ==
  ASSUME TypeInv, NEW t \in Threads, NEW u \in Threads, u # t, SyncStep(t) \/ Fault(t)
  PROVE  /\ pc'[u] = pc[u] /\ src'[u] = src[u] /\ snap'[u] = snap[u]
         /\ todo'[u] = todo[u] /\ changed'[u] = changed[u]
         /\ pc[t] \notin {"off", "idle", "done"}
<1> DEFINE Same == /\ pc'[u] = pc[u] /\ src'[u] = src[u] /\ snap'[u] = snap[u]
                   /\ todo'[u] = todo[u]
<1>1. /\ pc \in [Threads -> Places] /\ changed \in [Threads -> SUBSET Keys]
      /\ src \in [Threads -> 1..Len(Sources) + 1] /\ todo \in [Threads -> SUBSET Keys]
      /\ snap \in [Threads -> Snaps]
  BY DEF TypeInv, TypeOK, Snaps
<1>2. ASSUME NEW i, NEW l, NEW d, NEW ks, Begin(t, i, l, d, ks) PROVE Same
  BY <1>1, <1>2 DEF Begin, Goto
<1>3. ASSUME Abort(t) PROVE Same /\ changed'[u] = changed[u]
  <2>1. changed'[u] = changed[u]
    BY <1>1, <1>3 DEF Abort
  <2>2. CASE t = "init"
    BY <1>2, <1>3, <2>1, <2>2 DEF Abort, Ensure
  <2>3. CASE t = "primer" \/ t = "worker"
    BY <1>2, <1>3, <2>1, <2>3 DEF Abort
  <2> QED
    BY <2>2, <2>3 DEF Threads
<1>4. ASSUME NextSource(t) PROVE Same /\ changed'[u] = changed[u]
  BY <1>2, <1>4 DEF NextSource, Ensure
<1>5. ASSUME Get(t) PROVE Same /\ changed'[u] = changed[u]
  BY <1>1, <1>5 DEF Get, Goto
<1>6. ASSUME Compare(t) PROVE Same /\ changed'[u] = changed[u]
  BY <1>1, <1>6 DEF Compare, Goto
<1>7. ASSUME Open(t) \/ Fill(t) \/ RenameFails(t) PROVE Same /\ changed'[u] = changed[u]
  BY <1>1, <1>7 DEF Open, Fill, RenameFails, Goto
<1>8. ASSUME Rename(t) PROVE Same /\ changed'[u] = changed[u]
  BY <1>1, <1>8 DEF Rename, Goto
<1>9. ASSUME RemoveTmp(t) \/ Fault(t) PROVE Same /\ changed'[u] = changed[u]
  BY <1>3, <1>9 DEF RemoveTmp, Fault
<1>10. pc[t] \notin {"off", "idle", "done"}
  BY DEF SyncStep, Fault, Get, Compare, Open, Fill, RenameFails, Rename, RemoveTmp, NextSource
<1> QED
  BY <1>4, <1>5, <1>6, <1>7, <1>8, <1>9, <1>10 DEF SyncStep

(* The ensured files stay there once they all are, and one that the init     *)
(* container has left to write stays so until it is there.                   *)
LEMMA FloorStep == TypeInv /\ FloorInv /\ [Next]_vars => FloorInv'
<1> SUFFICES ASSUME TypeInv, FloorInv, [Next]_vars PROVE FloorInv'
  OBVIOUS
<1>0. ToSet(Ensured) \subseteq Keys /\ Len(Sources) \in Nat \ {0}
  BY SourceFacts
<1>1. Floored => Floored'
  BY <1>0, FilesKept DEF Floored
<1>2. /\ pc \in [Threads -> Places] /\ src \in [Threads -> 1..Len(Sources) + 1]
      /\ todo \in [Threads -> SUBSET Keys]
      /\ src'["init"] \in 1..Len(Sources) + 1 /\ "init" \in Threads
  BY TypeStep DEF TypeInv, TypeOK, Threads
\* Steps that leave the init container where it is.
<1>3. ASSUME pc'["init"] = pc["init"], src'["init"] = src["init"],
             todo'["init"] = todo["init"],
             up' \/ ready' => up \/ ready \/ pc["init"] = "done"
      PROVE  FloorInv'
  BY <1>0, <1>1, <1>3, FilesKept DEF FloorInv
\* Steps of the sidecar, which runs only when the init container is done.
<1>4. ASSUME NEW t \in Threads, t # "init", pc[t] # "off" PROVE pc["init"] = "done"
  BY <1>4 DEF TypeInv, Phase, Threads
<1>5. ASSUME NEW t \in Threads, t # "init", SyncStep(t) \/ Fault(t) PROVE FloorInv'
  BY <1>2, <1>3, <1>4, <1>5, OtherThreads
\* Steps of the init container that do not end it.
<1>6. ASSUME UNCHANGED <<up, ready>>, pc["init"] # "done", pc'["init"] # "done",
             src'["init"] > Len(Sources) =>
               \A k \in ToSet(Ensured) : file'[k] # NoFile \/ k \in todo'["init"]
      PROVE  FloorInv'
  BY <1>6 DEF FloorInv
<1>7. ASSUME Ensure PROVE \A k \in ToSet(Ensured) : file[k] # NoFile \/ k \in todo'["init"]
  BY <1>2, <1>7 DEF Ensure, Begin
<1>8. CASE Get("init")
  <2>1. src["init"] <= Len(Sources) /\ src'["init"] = src["init"]
    BY <1>2, <1>8 DEF Get, TypeInv, Work
  <2> QED
    BY <1>0, <1>2, <1>6, <1>8, <2>1 DEF Get, Goto, proxy
<1>9. CASE Compare("init")
  <2>1. file[Key("init")] = snap["init"][Key("init")] => file[Key("init")] # NoFile
    <3>1. Key("init") \in todo["init"]
      BY <1>2, <1>9, KeyIn DEF Compare, TypeInv
    <3>2. snap["init"][Key("init")] \in Contents \cup {Floor}
      BY <1>2, <3>1 DEF TypeInv, TypeOK, Work
    <3> QED
      BY <3>2, ContentAssumption
  <2> QED
    BY <1>2, <1>6, <1>9, <2>1 DEF Compare, Goto, FloorInv, volume, proxy
<1>10. CASE Open("init") \/ Fill("init") \/ RenameFails("init")
  <2>1. /\ UNCHANGED <<up, ready, src, todo>>
        /\ pc["init"] # "done" /\ pc'["init"] # "done"
    BY <1>2, <1>10 DEF Open, Fill, RenameFails, Goto, proxy
  <2> QED
    BY <1>0, <1>6, <2>1, FilesKept DEF FloorInv
<1>11. CASE Rename("init")
  <2>1. /\ UNCHANGED <<up, ready, src>> /\ pc["init"] # "done" /\ pc'["init"] # "done"
        /\ todo'["init"] = todo["init"] \ {Key("init")}
    BY <1>2, <1>11 DEF Rename, Goto, proxy
  <2>2. file'[Key("init")] # NoFile
    <3>1. Key("init") \in Keys
      BY <1>2, <1>11, WriterKey DEF Rename
    <3> QED
      BY <1>11, <3>1 DEF Rename, TypeInv, TypeOK
  <2> QED
    BY <1>0, <1>6, <2>1, <2>2, FilesKept DEF FloorInv
<1>12. CASE RemoveTmp("init") \/ Fault("init")
  <2>1. UNCHANGED <<up, ready, file>> /\ pc["init"] # "done" /\ Abort("init")
    BY <1>12 DEF RemoveTmp, Fault, proxy, volume
  <2>2. Ensure \/ Begin("init", 1, "get", NoData, {})
    BY <2>1 DEF Abort
  <2>3. CASE Ensure
    BY <1>2, <1>6, <1>7, <2>1, <2>3 DEF Ensure, Begin, Goto
  <2>4. CASE Begin("init", 1, "get", NoData, {})
    BY <1>0, <1>2, <1>6, <2>1, <2>4 DEF Begin, Goto
  <2> QED
    BY <2>2, <2>3, <2>4
<1>13. CASE NextSource("init")
  <2>1. UNCHANGED <<up, ready, file>> /\ pc["init"] # "done"
    BY <1>13 DEF NextSource, proxy, volume
  <2>2. CASE Ensure
    BY <1>2, <1>6, <1>7, <2>1, <2>2 DEF Ensure, Begin, Goto
  <2>3. CASE src["init"] < Len(Sources) /\ Begin("init", src["init"] + 1, "get", NoData, {})
    BY <1>0, <1>2, <1>6, <2>1, <2>3 DEF Begin, Goto
  <2> QED
    BY <1>13, <2>2, <2>3 DEF NextSource
<1>14. CASE InitExit
  <2>1. Floored
    BY <1>0, <1>14 DEF InitExit, FloorInv, Floored
  <2> QED
    BY <1>0, <1>1, <1>2, <1>14, <2>1 DEF InitExit, Begin, Goto, FloorInv
<1>15. CASE Return \/ \E i \in 1..Len(Sources) : Reconcile(i)
  <2>1. /\ pc["worker"] # "off" /\ pc'["init"] = pc["init"] /\ src'["init"] = src["init"]
        /\ todo'["init"] = todo["init"] /\ "worker" \in Threads
    BY <1>2, <1>15 DEF Return, Reconcile, Begin, Goto, Threads
  <2> QED
    BY <1>3, <1>4, <2>1
<1>16. CASE SidecarStart
  BY <1>2, <1>3, <1>16 DEF SidecarStart, proxy
<1>17. CASE Crash
  <2>1. src'["init"] = 1 /\ ~ready' /\ up' = up /\ UNCHANGED file
    BY <1>2, <1>17 DEF Crash, volume
  <2>2. pc'["init"] = IF pc["init"] = "done" THEN "done" ELSE "get"
    BY <1>2, <1>17 DEF Crash
  <2> QED
    BY <1>0, <1>1, <2>1, <2>2 DEF FloorInv
<1>18. ASSUME UNCHANGED threads, up' \/ ready' => up \/ ready \/ pc["init"] = "done"
       PROVE FloorInv'
  BY <1>3, <1>18 DEF threads
<1>19. ASSUME NEW s \in SourceSet, Edit(s) \/ Deliver(s) PROVE FloorInv'
  BY <1>18, <1>19 DEF Edit, Deliver, proxy
<1>20. CASE ProxyStart \/ Reload \/ UNCHANGED vars
  BY <1>18, <1>20 DEF ProxyStart, Reload, vars, proxy
<1> QED
  BY <1>5, <1>8, <1>9, <1>10, <1>11, <1>12, <1>13, <1>14, <1>15, <1>16, <1>17, <1>19, <1>20
  DEF Next, SyncStep

(***************************************************************************)
(* sync-once and EnsureFiles: whenever the proxy is up, or the sidecar     *)
(* says it is ready, every --ensure-files file is there, for any number of *)
(* failures and kills before.                                              *)
(***************************************************************************)
THEOREM FloorIsLaid == Safety => []FloorBeforeProxy
<1>1. Init => FloorInv
  BY SourceFacts DEF Init, FloorInv, Threads
<1>2. FloorInv => FloorBeforeProxy
  BY DEF FloorInv, Floored, FloorBeforeProxy
<1> QED
  BY <1>1, <1>2, TypeInit, TypeStep, FloorStep, PTL DEF Safety
-----------------------------------------------------------------------------
(***************************************************************************)
(* tmp + rename.                                                           *)
(***************************************************************************)
(* A thread's step makes no other thread a writer, or the opposite. *)
LEMMA OtherWriters ==
  ASSUME TypeInv, NEW t \in Threads, NEW u \in Threads, u # t, SyncStep(t) \/ Fault(t), NEW k
  PROVE  /\ Writing(u, k)' <=> Writing(u, k)
         /\ pc'[u] = pc[u] /\ snap'[u] = snap[u]
<1>1. pc'[u] = pc[u] /\ Key(u)' = Key(u) /\ snap'[u] = snap[u]
  BY OtherThreads, KeySame
<1> QED
  BY <1>1 DEF Writing

(* Descriptors of another key's writers stay where they are. *)
LEMMA MovedElsewhere ==
  ASSUME NEW t \in Threads, NEW u \in Threads, u # t, NEW k, NEW l, k # l,
         Writing(u, k), NEW p, NEW q
  PROVE  Moved(t, l, p, q)[u] = at[u]
  BY DEF Moved, Writing

(* A key nobody has raced for keeps its one writer, or has none. *)
LEMMA WriterStep == TypeInv /\ WriterInv /\ [Next]_vars => WriterInv'
<1> SUFFICES ASSUME TypeInv, WriterInv, [Next]_vars, NEW k \in Keys, k \notin raced'
             PROVE OneWriter(k)'
  BY DEF WriterInv
<1>0. /\ pc \in [Threads -> Places] /\ at \in [Threads -> {"none", "tmp", "file", "gone"}]
      /\ file \in [Keys -> Docs \cup {NoFile}] /\ tmp \in [Keys -> Docs \cup {NoFile}]
      /\ Threads = {"init", "primer", "worker"}
  BY DEF TypeInv, TypeOK, Threads
<1>1. k \notin raced
  <2>1. ASSUME NEW t \in Threads, Open(t) PROVE raced \subseteq raced'
    BY <2>1 DEF Open
  <2>2. ASSUME NEW t \in Threads, SyncStep(t) \/ Fault(t), ~Open(t) PROVE raced \subseteq raced'
    BY <2>2 DEF SyncStep, Get, Compare, Fill, Rename, RenameFails, RemoveTmp, NextSource, Fault, history
  <2>3. ASSUME NEW s \in SourceSet, Edit(s) \/ Deliver(s) PROVE raced \subseteq raced'
    BY <2>3 DEF Edit, Deliver, history
  <2>4. ASSUME NEW i \in 1..Len(Sources), Reconcile(i) PROVE raced \subseteq raced'
    BY <2>4 DEF Reconcile, history
  <2>5. CASE Return \/ InitExit \/ SidecarStart \/ Crash \/ ProxyStart \/ Reload \/ UNCHANGED vars
    BY <2>5 DEF Return, InitExit, SidecarStart, Crash, ProxyStart, Reload, vars, history
  <2> QED
    BY <2>1, <2>2, <2>3, <2>4, <2>5 DEF Next
<1>2. OneWriter(k)
  BY <1>1 DEF WriterInv
\* Steps that change neither file and bring no writer.
<1>3. ASSUME tmp'[k] = tmp[k], file'[k] = file[k],
             \A u \in Threads : Writing(u, k)' =>
               Writing(u, k) /\ at'[u] = at[u] /\ pc'[u] = pc[u] /\ snap'[u] = snap[u]
      PROVE  OneWriter(k)'
  BY <1>2, <1>3 DEF OneWriter
<1>4. ASSUME UNCHANGED <<volume, threads>> PROVE OneWriter(k)'
  BY <1>3, <1>4 DEF volume, threads, Writing, Key
\* Steps of a thread that is not at k, or not within writeIfChanged.
<1>5. ASSUME NEW t \in Threads, SyncStep(t) \/ Fault(t), ~Writing(t, k)',
             tmp'[k] = tmp[k], file'[k] = file[k],
             \A u \in Threads \ {t} : Writing(u, k) => at'[u] = at[u]
      PROVE  OneWriter(k)'
  BY <1>3, <1>5, OtherWriters
<1>6. ASSUME NEW t \in Threads, Get(t) \/ Compare(t) \/ NextSource(t) PROVE OneWriter(k)'
  <2>1. pc'[t] \notin {"fill", "rename", "remove"}
    BY <1>0, <1>6 DEF Get, Compare, NextSource, Begin, Ensure, Goto
  <2>2. UNCHANGED <<tmp, file, at>>
    BY <1>6 DEF Get, Compare, NextSource, volume
  <2> QED
    BY <1>5, <1>6, <2>1, <2>2 DEF SyncStep, Writing
<1>7. ASSUME NEW t \in Threads, Fault(t) PROVE OneWriter(k)'
  <2>1. pc'[t] \notin {"fill", "rename", "remove"}
    BY <1>0, <1>7 DEF Fault, Abort, Begin, Ensure, Goto
  <2>2. UNCHANGED <<tmp, file>> /\ \A u \in Threads \ {t} : at'[u] = at[u]
    BY <1>0, <1>7 DEF Fault, volume
  <2> QED
    BY <1>5, <1>7, <2>1, <2>2 DEF Writing
\* Steps within writeIfChanged, for another key.
<1>8. ASSUME NEW t \in Threads, Open(t) \/ Fill(t) \/ Rename(t) \/ RenameFails(t) \/ RemoveTmp(t),
             Key(t) # k
      PROVE OneWriter(k)'
  <2>1. ~Writing(t, k)'
    <3>1. CASE Open(t) \/ Fill(t) \/ RenameFails(t)
      <4>1. Key(t)' = Key(t)
        BY <3>1, KeySame DEF Open, Fill, RenameFails
      <4> QED
        BY <1>8, <4>1 DEF Writing
    <3>2. CASE Rename(t)
      BY <1>0, <3>2 DEF Rename, Goto, Writing
    <3>3. CASE RemoveTmp(t)
      BY <1>0, <3>3 DEF RemoveTmp, Abort, Begin, Ensure, Goto, Writing
    <3> QED
      BY <1>8, <3>1, <3>2, <3>3
  <2>2. tmp'[k] = tmp[k] /\ file'[k] = file[k]
    BY <1>0, <1>8 DEF Open, Fill, Rename, RenameFails, RemoveTmp, volume
  <2>3. ASSUME NEW u \in Threads \ {t}, Writing(u, k) PROVE at'[u] = at[u]
    BY <1>0, <1>8, <2>3, MovedElsewhere DEF Open, Fill, Rename, RenameFails, RemoveTmp
  <2> QED
    BY <1>5, <1>8, <2>1, <2>2, <2>3 DEF SyncStep
\* Steps of the one writer of k.
<1>9. ASSUME NEW t \in Threads, Open(t), Key(t) = k PROVE OneWriter(k)'
  <2>1. ASSUME NEW u \in Threads, u # t PROVE ~Writing(u, k)'
    BY <1>9, <2>1, OtherWriters DEF Open, SyncStep
  <2>2. pc'[t] = "fill" /\ at'[t] = "tmp" /\ tmp'[k] = Partial /\ file'[k] = file[k]
    BY <1>0, <1>9 DEF Open, Goto
  <2> QED
    BY <1>2, <2>1, <2>2 DEF OneWriter
<1>10. ASSUME NEW t \in Threads, Fill(t) \/ Rename(t) \/ RenameFails(t) \/ RemoveTmp(t), Key(t) = k
       PROVE  /\ Writing(t, k) /\ at[t] = "tmp" /\ pc[t] # "remove"
              /\ tmp[k] = IF pc[t] = "fill" THEN Partial ELSE snap[t][k]
              /\ snap[t][k] \in Contents \cup {Floor}
              /\ \A u \in Threads \ {t} : ~Writing(u, k)'
  <2>1. pc[t] \in {"fill", "rename", "remove"}
    BY <1>10 DEF Fill, Rename, RenameFails, RemoveTmp
  <2>2. Writing(t, k)
    BY <1>10, <2>1 DEF Writing
  <2>3. snap[t][k] \in Contents \cup {Floor}
    BY <1>10, <2>1, WriterKey
  <2>4. ASSUME NEW u \in Threads \ {t} PROVE ~Writing(u, k)'
    BY <1>2, <1>10, <2>2, <2>4, OtherWriters DEF OneWriter, SyncStep
  <2> QED
    BY <1>2, <2>2, <2>3, <2>4 DEF OneWriter
<1>11. ASSUME NEW t \in Threads, Fill(t), Key(t) = k PROVE OneWriter(k)'
  <2>1. /\ at[t] = "tmp" /\ tmp[k] = Partial /\ pc'[t] = "rename" /\ UNCHANGED <<at, snap>>
        /\ \A u \in Threads \ {t} : ~Writing(u, k)'
    BY <1>0, <1>10, <1>11 DEF Fill, Goto
  <2>2. PICK d \in Overlay(tmp[k], snap[t][k]) : tmp' = [tmp EXCEPT ![k] = d] /\ file' = file
    BY <1>11, <2>1 DEF Fill
  <2>3. tmp'[k] = snap[t][k]
    BY <1>0, <2>1, <2>2 DEF Overlay
  <2> QED
    BY <1>2, <2>1, <2>2, <2>3 DEF OneWriter
<1>12. ASSUME NEW t \in Threads, Rename(t), Key(t) = k PROVE OneWriter(k)'
  <2>1. file'[k] = snap[t][k] /\ pc'[t] = "compare"
    BY <1>0, <1>10, <1>12 DEF Rename, Goto
  <2>2. \A u \in Threads : ~Writing(u, k)'
    BY <1>10, <1>12, <2>1 DEF Writing
  <2>3. snap[t][k] # Partial
    BY <1>10, <1>12, ContentAssumption
  <2> QED
    BY <2>1, <2>2, <2>3 DEF OneWriter
<1>13. ASSUME NEW t \in Threads, RenameFails(t) \/ RemoveTmp(t), Key(t) = k PROVE OneWriter(k)'
  BY <1>10, <1>13, ContentAssumption DEF RenameFails, RemoveTmp
\* Containers, and the threads that begin and end their passes.
<1>14. ASSUME UNCHANGED volume,
              \A u \in Threads : pc'[u] \in {"fill", "rename", "remove"} =>
                /\ pc'[u] = pc[u] /\ src'[u] = src[u] /\ todo'[u] = todo[u]
                /\ snap'[u] = snap[u] /\ at'[u] = at[u]
       PROVE  OneWriter(k)'
  <2>1. ASSUME NEW u \in Threads, Writing(u, k)'
        PROVE Writing(u, k) /\ at'[u] = at[u] /\ pc'[u] = pc[u] /\ snap'[u] = snap[u]
    BY <1>14, <2>1, KeySame DEF Writing
  <2> QED
    BY <1>3, <1>14, <2>1 DEF volume
<1>15. ASSUME NEW t \in Threads, NEW i, NEW l \in {"get", "idle", "done"},
              Begin(t, i, l, NoData, {}), UNCHANGED <<volume, at>>
       PROVE  OneWriter(k)'
  <2>1. ASSUME NEW u \in Threads, pc'[u] \in {"fill", "rename", "remove"}
        PROVE  /\ pc'[u] = pc[u] /\ src'[u] = src[u] /\ todo'[u] = todo[u]
               /\ snap'[u] = snap[u]
    BY <1>0, <1>15, <2>1 DEF Begin, Goto, TypeInv, TypeOK
  <2> QED
    BY <1>14, <1>15, <2>1
<1>16. ASSUME NEW i \in 1..Len(Sources), Reconcile(i) PROVE OneWriter(k)'
  BY <1>0, <1>15, <1>16 DEF Reconcile
<1>17. CASE Return \/ InitExit
  BY <1>0, <1>15, <1>17 DEF Return, InitExit
<1>18. CASE SidecarStart
  BY <1>0, <1>14, <1>18 DEF SidecarStart
<1>19. CASE Crash
  <2>1. UNCHANGED volume /\ \A u \in Threads : pc'[u] \in {"off", "get", "done"}
    BY <1>0, <1>19 DEF Crash, TypeInv, Phase
  <2> QED
    BY <1>14, <2>1
<1>20. ASSUME NEW s \in SourceSet, Edit(s) \/ Deliver(s) PROVE OneWriter(k)'
  BY <1>4, <1>20 DEF Edit, Deliver
<1>21. CASE ProxyStart \/ Reload \/ UNCHANGED vars
  BY <1>4, <1>21 DEF ProxyStart, Reload, vars
<1> QED
  BY <1>6, <1>7, <1>8, <1>9, <1>11, <1>12, <1>13, <1>16, <1>17, <1>18, <1>19, <1>20,
     <1>21 DEF Next, SyncStep

(***************************************************************************)
(* writeIfChanged: through I/O errors, kills and left-over tmp files, an   *)
(* incomplete file is visible only under a key for which two threads were  *)
(* inside writeIfChanged at once.                                          *)
(***************************************************************************)
THEOREM RenameIsAtomic == Safety => []AtomicUnlessRaced
<1>1. Init => WriterInv
  BY ContentAssumption DEF Init, WriterInv, OneWriter, Writing
<1>2. WriterInv => AtomicUnlessRaced
  BY DEF WriterInv, OneWriter, AtomicUnlessRaced
<1> QED
  BY <1>1, <1>2, TypeInit, TypeStep, WriterStep, PTL DEF Safety
-----------------------------------------------------------------------------
(***************************************************************************)
(* Signals.                                                                *)
(***************************************************************************)
(* Every change of a file is signalled, about to be, or one of those the code  *)
(* makes without a signal.                                                     *)
LEMMA SignalStep == TypeInv /\ SignalInv /\ [Next]_vars => SignalInv'
<1> SUFFICES ASSUME TypeInv, SignalInv, [Next]_vars PROVE SignalInv'
  OBVIOUS
<1>0. /\ pc \in [Threads -> Places] /\ changed \in [Threads -> SUBSET Keys]
      /\ file \in [Keys -> Docs \cup {NoFile}]
      /\ Threads = {"init", "primer", "worker"}
  BY DEF TypeInv, TypeOK, Threads
<1> USE DEF SignalInv, SignalFollowsChange
<1>1. ASSUME pc'["worker"] \in {"off", "idle"} => pc["worker"] \in {"off", "idle"},
             changed'["worker"] = changed["worker"],
             UNCHANGED <<file, up, loaded>>, signalled => signalled', silent \subseteq silent'
      PROVE  SignalInv'
  BY <1>1
<1>2. ASSUME NEW t \in Threads, Get(t) \/ Compare(t) \/ Open(t) \/ RenameFails(t) \/ NextSource(t)
      PROVE SignalInv'
  <2>1. /\ UNCHANGED <<file, changed, up, loaded, signalled, silent>>
    BY <1>2 DEF Get, Compare, Open, RenameFails, NextSource, volume, proxy, history
  <2>2. pc'["worker"] \in {"off", "idle"} => pc["worker"] \in {"off", "idle"}
    BY <1>0, <1>2 DEF Get, Compare, Open, RenameFails, NextSource, Begin, Ensure, Goto
  <2> QED
    BY <1>1, <2>1, <2>2
<1>3. ASSUME NEW t \in Threads, Fill(t) PROVE SignalInv'
  <2>1. UNCHANGED <<changed, up, loaded, signalled>>
    BY <1>3 DEF Fill, proxy
  <2>2. pc'["worker"] \in {"off", "idle"} => pc["worker"] \in {"off", "idle"}
    BY <1>0, <1>3 DEF Fill, Goto
  <2>3. silent \subseteq silent' /\ \A k \in Keys : file'[k] # file[k] => k \in silent'
    BY <1>0, <1>3 DEF Fill, volume
  <2> QED
    BY <2>1, <2>2, <2>3
<1>4. ASSUME NEW t \in Threads, Rename(t) PROVE SignalInv'
  <2>1. UNCHANGED <<up, loaded, signalled>> /\ silent \subseteq silent'
    BY <1>4 DEF Rename, proxy
  <2>2. changed["worker"] \subseteq changed'["worker"]
    BY <1>0, <1>4 DEF Rename
  <2>3. pc'["worker"] \in {"off", "idle"} =>
          pc["worker"] \in {"off", "idle"} /\ changed'["worker"] = changed["worker"]
    BY <1>0, <1>4 DEF Rename, Goto
  <2>4. \A k \in Keys : file'[k] # file[k] => k \in silent' \/ k \in changed'["worker"]
    BY <1>0, <1>4 DEF Rename
  <2> QED
    BY <2>1, <2>2, <2>3, <2>4
<1>5. ASSUME NEW t \in Threads, RemoveTmp(t) \/ Fault(t) PROVE SignalInv'
  <2>1. UNCHANGED <<file, up, loaded, signalled>> /\ Abort(t)
    BY <1>5 DEF RemoveTmp, Fault, volume, proxy
  <2>2. CASE t = "worker"
    <3>1. silent' = silent \cup changed["worker"] /\ changed'["worker"] = {}
      BY <1>0, <2>1, <2>2 DEF Abort
    <3> QED
      BY <2>1, <3>1
  <2>3. CASE t # "worker"
    <3>1. silent' = silent
      BY <1>0, <2>1, <2>3 DEF Abort
    <3>2. pc'["worker"] = pc["worker"] /\ changed'["worker"] = changed["worker"]
      BY <1>0, <1>5, <2>3, OtherThreads DEF SyncStep
    <3> QED
      BY <1>1, <2>1, <3>1, <3>2
  <2> QED
    BY <2>2, <2>3
<1>6. ASSUME NEW i \in 1..Len(Sources), Reconcile(i) PROVE SignalInv'
  <2>1. UNCHANGED <<file, up, loaded, signalled, silent>>
    BY <1>6 DEF Reconcile, volume, proxy, history
  <2>2. changed["worker"] = {} /\ changed'["worker"] = {} /\ pc'["worker"] = "get"
    BY <1>0, <1>6 DEF Reconcile, Begin, Goto
  <2> QED
    BY <2>1, <2>2
<1>7. CASE Return
  <2>1. UNCHANGED <<file, up, loaded, silent>> /\ changed'["worker"] = {}
    BY <1>0, <1>7 DEF Return, volume, history
  <2>2. signalled \/ changed["worker"] # {} => signalled'
    BY <1>7 DEF Return
  <2> QED
    BY <2>1, <2>2
<1>8. CASE InitExit
  BY <1>0, <1>1, <1>8 DEF InitExit, Begin, Goto, volume, proxy, history
<1>9. CASE SidecarStart
  BY <1>0, <1>1, <1>9 DEF SidecarStart, volume, proxy, history
<1>10. CASE Crash
  BY <1>0, <1>10 DEF Crash, volume
<1>11. CASE ProxyStart
  BY <1>11 DEF ProxyStart, volume, threads
<1>12. CASE Reload
  BY <1>12 DEF Reload, volume, threads
<1>13. ASSUME NEW s \in SourceSet, Edit(s) \/ Deliver(s) PROVE SignalInv'
  BY <1>1, <1>13 DEF Edit, Deliver, volume, threads, proxy, history
<1>14. CASE UNCHANGED vars
  BY <1>1, <1>14 DEF vars, volume, threads, proxy, history
<1> QED
  BY <1>2, <1>3, <1>4, <1>5, <1>6, <1>7, <1>8, <1>9, <1>10, <1>11, <1>12, <1>13, <1>14
  DEF Next, SyncStep

(***************************************************************************)
(* Reconcile: a change on disk that a running proxy has not read has a     *)
(* signal under way or one that the pass will ask for, except for the      *)
(* changes the code makes without one.                                     *)
(***************************************************************************)
THEOREM ChangesAreSignalled == Safety => []SignalFollowsChange
<1>1. Init => SignalInv
  BY DEF Init, SignalInv, SignalFollowsChange, Threads
<1>2. SignalInv => SignalFollowsChange
  BY DEF SignalInv
<1> QED
  BY <1>1, <1>2, TypeInit, TypeStep, SignalStep, PTL DEF Safety
=============================================================================
