------------------------ MODULE CertProjectionProofs ------------------------
(***************************************************************************)
(* Proofs about CertProjection, for any stems and Secrets and any number   *)
(* of edits, failed writes and removals, and kills.                        *)
(***************************************************************************)
EXTENDS CertProjection, TLAPS

\* Each render's own state: what it writes is usable, each stem it has listed
\* is left, projected or skipped, and what it prunes was not projected.
Work(t) ==
  /\ pc[t] \in {"key", "crt"} => data[t] \in Versions
  /\ (want[t] \cup skipped[t]) \cap todo[t] = {}
  /\ todo[t] \cup want[t] \subseteq listed[t]
  /\ listed[t] \subseteq todo[t] \cup want[t] \cup skipped[t]
  /\ ~Rendering(t) => skipped[t] = {}
  /\ pc[t] = "remove" => todo[t] = {} /\ \A f \in names[t] : f[1] \notin want[t]

TypeInv == TypeOK /\ quiet \subseteq Opaque /\ \A t \in Threads : Work(t)

\* A clean render has the directory to itself, and as long as nothing has
\* been raced for every render is clean.
AloneInv ==
  \A t \in Threads : Rendering(t) =>
    /\ clean[t] => \A u \in Threads \ {t} : ~Rendering(u)
    /\ clean[t] \/ raced

\* What a clean render has made of the directory so far, whatever it found.
CleanRender(t) ==
  /\ \A s \in want[t] : Paired(s)
  /\ pc[t] = "crt" => \A s \in First(todo[t]) : dir[<<s, "key">>] = data[t]
  /\ pc[t] = "remove" => \A f \in Files : dir[f] # NoFile => f[1] \in want[t] \/ f \in names[t]

DirInv ==
  /\ KeyBesideCrt
  /\ \A t \in Threads : Rendering(t) /\ clean[t] => CleanRender(t)

\* What the directory should hold for a stem, as the informers have it.
Cached(s) == IF s \in crefs /\ csecret[s] \in Versions THEN csecret[s] ELSE NoFile

Agrees(s) == \A e \in {"crt", "key"} : dir[<<s, e>>] = Cached(s)

\* A clean render that no event has overtaken works from what is cached.
Current(t) ==
  /\ listed[t] = crefs
  /\ \A s \in Stems \ quiet :
       /\ s \in want[t] => csecret[s] = dir[<<s, "crt">>]
       /\ s \in skipped[t] => csecret[s] \notin Versions
       /\ pc[t] \in {"key", "crt"} /\ s \in First(todo[t]) => csecret[s] = data[t]

\* With no rebuild queued, the directory agrees with the cache; but a worker
\* in its pass may have found it otherwise, and the primer the files of
\* Secrets without events.
ConvergeInv ==
  ~queue =>
    /\ \A t \in Threads : Rendering(t) /\ clean[t] => Current(t)
    /\ ~raced /\ ~Rendering("worker") =>
         \A s \in Stems \ quiet :
           Agrees(s) \/ (Rendering("primer") /\ s \in Opaque)
-----------------------------------------------------------------------------
(***************************************************************************)
(* Types and the renders' own state.                                       *)
(***************************************************************************)
(* There is one stem that comes first. *)
LEMMA FirstUnique ==
  ASSUME NEW S, NEW s \in First(S), NEW u \in First(S)
  PROVE  s = u
<1>1. PICK i, j \in DOMAIN StemOrder : i <= j /\ StemOrder[i] = s /\ StemOrder[j] = u
  BY DEF First
<1>2. PICK k, l \in DOMAIN StemOrder : k <= l /\ StemOrder[k] = u /\ StemOrder[l] = s
  BY DEF First
<1>3. i = l /\ j = k
  BY <1>1, <1>2, StemAssumption DEF IsInjective
<1>4. i \in Nat /\ j \in Nat
  BY StemAssumption
<1> QED
  BY <1>1, <1>2, <1>3, <1>4

(* First picks elements, and the key of a stem only when its crt is gone. *)
LEMMA FirstFacts ==
  /\ \A S : First(S) \subseteq S
  /\ \A F : \A f \in FirstFile(F) : f \in F /\ (f[2] = "key" => <<f[1], "crt">> \notin F)
  BY DEF First, FirstFile

LEMMA WorkSame ==
  ASSUME NEW t \in Threads, Work(t),
         pc'[t] = pc[t], listed'[t] = listed[t], todo'[t] = todo[t], data'[t] = data[t],
         want'[t] = want[t], names'[t] = names[t], skipped'[t] = skipped[t]
  PROVE  Work(t)'
  BY DEF Work, Rendering

(* What an error and a kill make of the directory: a file that a render was *)
(* writing, and that differed from what it wrote, may be cut short.         *)
LEMMA CutShort ==
  ASSUME TypeOK
  PROVE  /\ \A t \in Threads : Fail(t) =>
              /\ dir' \in [Files -> Versions \cup {Partial, NoFile}]
              /\ dir' = dir \/ \E f \in Writing(t) :
                   dir'[f] = Partial /\ \A g \in Files : g # f => dir'[g] = dir[g]
         /\ Restart =>
              /\ dir' \in [Files -> Versions \cup {Partial, NoFile}]
              /\ \A f \in Files :
                   \/ dir'[f] = dir[f]
                   \/ dir'[f] = Partial /\ \E t \in Threads : f \in Writing(t)
<1>1. ASSUME NEW t \in Threads, Fail(t)
      PROVE  /\ dir' \in [Files -> Versions \cup {Partial, NoFile}]
             /\ dir' = dir \/ \E f \in Writing(t) :
                  dir'[f] = Partial /\ \A g \in Files : g # f => dir'[g] = dir[g]
  <2>1. CASE dir' = dir
    BY <2>1 DEF TypeOK
  <2>2. CASE dir' # dir
    <3>1. PICK f \in Writing(t) : dir' = [dir EXCEPT ![f] = Partial]
      BY <1>1, <2>2 DEF Fail
    <3>2. f \in Files
      BY DEF Writing
    <3> QED
      BY <3>1, <3>2 DEF TypeOK
  <2> QED
    BY <2>1, <2>2
<1>2. ASSUME Restart
      PROVE  /\ dir' \in [Files -> Versions \cup {Partial, NoFile}]
             /\ \A f \in Files :
                  \/ dir'[f] = dir[f]
                  \/ dir'[f] = Partial /\ \E t \in Threads : f \in Writing(t)
  <2>1. PICK cut \in SUBSET UNION {Writing(t) : t \in Threads} :
          dir' = [f \in Files |-> IF f \in cut THEN Partial ELSE dir[f]]
    BY <1>2 DEF Restart
  <2>2. \A f \in cut : \E t \in Threads : f \in Writing(t)
    BY <2>1
  <2> QED
    BY <2>1, <2>2 DEF TypeOK
<1> QED
  BY <1>1, <1>2

LEMMA TypeStep == TypeInv /\ [Next]_vars => TypeInv'
<1> SUFFICES ASSUME TypeInv, [Next]_vars PROVE TypeInv'
  OBVIOUS
<1> USE BoundAssumption, StemAssumption, FirstFacts DEF TypeInv
<1>0. ASSUME UNCHANGED <<threads, skipped>> PROVE \A u \in Threads : Work(u)'
  BY <1>0, WorkSame DEF threads
<1>1. ASSUME NEW s \in Stems, EditRefs(s) PROVE TypeInv'
  BY <1>0, <1>1 DEF EditRefs, TypeOK, informer, volume, threads, history
<1>2. ASSUME NEW s \in Stems, EditSecret(s) PROVE TypeInv'
  BY <1>0, <1>2 DEF EditSecret, TypeOK, informer, volume, threads, history
<1>3. CASE DeliverRefs
  <2>1. queue' \in BOOLEAN
    BY <1>3 DEF DeliverRefs
  <2> QED
    BY <1>0, <1>3, <2>1 DEF DeliverRefs, TypeOK, api, volume, threads, bounds, history
<1>4. ASSUME NEW s \in Stems, DeliverSecret(s) PROVE TypeInv'
  <2>1. queue' \in BOOLEAN
    BY <1>4 DEF DeliverSecret
  <2> QED
    BY <1>0, <1>4, <2>1 DEF DeliverSecret, TypeOK, api, volume, threads, bounds
<1>5. ASSUME NEW t \in Threads, Begin(t) PROVE TypeInv'
  <2>1. /\ queue' \in BOOLEAN /\ clean' \in [Threads -> BOOLEAN] /\ raced' \in BOOLEAN
    BY <1>5 DEF Begin, TypeOK
  <2>2. /\ listed' = [listed EXCEPT ![t] = crefs] /\ todo' = [todo EXCEPT ![t] = crefs]
        /\ want' = [want EXCEPT ![t] = {}] /\ pc' = [pc EXCEPT ![t] = "get"] /\ pc[t] = "idle"
        /\ UNCHANGED <<api, informer, volume, data, names, bounds, skipped, quiet>>
    BY <1>5 DEF Begin, Goto
  <2>3. ASSUME NEW u \in Threads PROVE Work(u)'
    BY <2>2, <2>3 DEF TypeOK, Work, Rendering
  <2> QED
    BY <2>1, <2>2, <2>3 DEF TypeOK, api, informer, volume, bounds
<1>6. ASSUME NEW t \in Threads, Get(t) PROVE TypeInv'
  <2>1. PICK s \in First(todo[t]) : Get(t)!2!(s)
    BY <1>6 DEF Get
  <2>2. /\ UNCHANGED <<api, informer, queue, volume, listed, want, names, bounds, clean, raced>>
        /\ pc[t] = "get" /\ s \in todo[t] /\ s \in Stems /\ quiet' = quiet \ {s}
    BY <1>6, <2>1 DEF Get, TypeOK
  <2>3. CASE /\ csecret[s] \in Versions
             /\ data' = [data EXCEPT ![t] = csecret[s]]
             /\ pc' = [pc EXCEPT ![t] = "key"]
             /\ UNCHANGED <<todo, skipped>>
    <3>1. ASSUME NEW u \in Threads PROVE Work(u)'
      BY <2>2, <2>3, <3>1 DEF TypeOK, Work, Rendering
    <3> QED
      BY <2>2, <2>3, <3>1 DEF TypeOK, api, informer, volume, bounds
  <2>4. CASE /\ csecret[s] \notin Versions
             /\ todo' = [todo EXCEPT ![t] = @ \ {s}]
             /\ skipped' = [skipped EXCEPT ![t] = @ \cup {s}]
             /\ UNCHANGED <<pc, data>>
    <3>1. ASSUME NEW u \in Threads PROVE Work(u)'
      BY <2>2, <2>4, <3>1 DEF TypeOK, Work, Rendering
    <3> QED
      BY <2>2, <2>4, <3>1 DEF TypeOK, api, informer, volume, bounds
  <2> QED
    BY <2>1, <2>3, <2>4 DEF Goto
<1>7. ASSUME NEW t \in Threads, WriteKey(t) PROVE TypeInv'
  <2>1. data[t] \in Versions
    BY <1>7 DEF WriteKey, Work
  <2>2. dir' \in [Files -> Versions \cup {Partial, NoFile}]
    BY <1>7, <2>1 DEF WriteKey, TypeOK
  <2>3. ASSUME NEW u \in Threads PROVE Work(u)'
    BY <1>7, <2>1, <2>3 DEF WriteKey, Goto, TypeOK, Work, Rendering, history
  <2> QED
    BY <1>7, <2>2, <2>3 DEF WriteKey, Goto, TypeOK, api, informer, bounds, history
<1>8. ASSUME NEW t \in Threads, WriteCrt(t) PROVE TypeInv'
  <2>1. PICK s \in First(todo[t]) : WriteCrt(t)!2!(s)
    BY <1>8 DEF WriteCrt
  <2>2. data[t] \in Versions /\ s \in todo[t] /\ s \in Stems
    BY <1>8 DEF WriteCrt, Work, TypeOK
  <2>3. dir' \in [Files -> Versions \cup {Partial, NoFile}]
    BY <2>1, <2>2 DEF TypeOK
  <2>4. /\ data' = [data EXCEPT ![t] = Missing] /\ pc' = [pc EXCEPT ![t] = "get"] /\ pc[t] = "crt"
        /\ UNCHANGED <<api, informer, queue, upstreams, listed, names, bounds, history>>
    BY <1>8 DEF WriteCrt, Goto
  <2>5. ASSUME NEW u \in Threads PROVE Work(u)'
    BY <2>1, <2>2, <2>4, <2>5 DEF TypeOK, Work, Rendering, history
  <2> QED
    BY <2>1, <2>2, <2>3, <2>4, <2>5 DEF TypeOK, Secrets, api, informer, bounds, history
<1>9. ASSUME NEW t \in Threads, ReadDir(t) PROVE TypeInv'
  <2>1. ASSUME NEW u \in Threads PROVE Work(u)'
    BY <1>9, <2>1 DEF ReadDir, Goto, TypeOK, Work, Rendering, history
  <2> QED
    BY <1>9, <2>1 DEF ReadDir, Goto, TypeOK, api, informer, volume, bounds, history
<1>10. ASSUME NEW t \in Threads, RemoveFile(t) PROVE TypeInv'
  <2>1. PICK f \in FirstFile(names[t]) : RemoveFile(t)!2!(f)
    BY <1>10 DEF RemoveFile
  <2>2. f \in Files
    <3>1. f \in names[t] /\ names[t] \in SUBSET Files
      BY DEF TypeOK
    <3> QED
      BY <3>1
  <2>3. dir' \in [Files -> Versions \cup {Partial, NoFile}]
    BY <2>1, <2>2 DEF TypeOK
  <2>4. UNCHANGED <<api, informer, queue, upstreams, pc, listed, todo, data, want, bounds, history>>
    BY <1>10 DEF RemoveFile
  <2>5. ASSUME NEW u \in Threads PROVE Work(u)'
    BY <2>1, <2>4, <2>5 DEF TypeOK, Work, Rendering, history
  <2> QED
    BY <2>1, <2>3, <2>4, <2>5 DEF TypeOK, api, informer, bounds, history
<1>11. ASSUME NEW t \in Threads, RemoveFails(t) PROVE TypeInv'
  <2>1. clean' \in [Threads -> BOOLEAN] /\ raced' \in BOOLEAN
    BY <1>11 DEF RemoveFails, TypeOK
  <2>2. PICK f \in FirstFile(names[t]) : names' = [names EXCEPT ![t] = @ \ {f}]
    BY <1>11 DEF RemoveFails
  <2>3. ASSUME NEW u \in Threads PROVE Work(u)'
    BY <1>11, <2>2, <2>3 DEF RemoveFails, TypeOK, Work, Rendering
  <2> QED
    BY <1>11, <2>1, <2>2, <2>3 DEF RemoveFails, TypeOK, api, informer, volume
<1>12. ASSUME NEW t \in Threads, End(t)
       PROVE  /\ pc' \in [Threads -> {"idle", "get", "key", "crt", "remove", "done"}]
              /\ listed' \in [Threads -> SUBSET Stems] /\ todo' \in [Threads -> SUBSET Stems]
              /\ data' \in [Threads -> Secrets] /\ want' \in [Threads -> SUBSET Stems]
              /\ names' \in [Threads -> SUBSET Files] /\ skipped' \in [Threads -> SUBSET Stems]
              /\ clean' \in [Threads -> BOOLEAN] /\ \A u \in Threads : Work(u)'
  <2>1. clean' \in [Threads -> BOOLEAN]
    BY <1>12 DEF End, TypeOK
  <2>2. pc'[t] \in {"idle", "done"}
    BY <1>12 DEF End, Goto, TypeOK
  <2>3. Work(t)'
    BY <1>12, <2>2 DEF End, TypeOK, Work, Rendering
  <2>4. ASSUME NEW u \in Threads \ {t} PROVE Work(u)'
    BY <1>12, <2>4, WorkSame DEF End, Goto, TypeOK
  <2> QED
    BY <1>12, <2>1, <2>3, <2>4 DEF End, Goto, TypeOK, Secrets
<1>13. ASSUME NEW t \in Threads, WriteUpstreams(t) PROVE TypeInv'
  <2>1. raced' \in BOOLEAN
    BY <1>13 DEF WriteUpstreams
  <2> QED
    BY <1>12, <1>13, <2>1 DEF WriteUpstreams, TypeOK, api, informer, bounds
<1>14. ASSUME NEW t \in Threads, Fail(t) PROVE TypeInv'
  <2>1. queue' \in BOOLEAN
    BY <1>14 DEF Fail
  <2>2. End(t) /\ UNCHANGED <<api, informer, upstreams, edits, crashes, raced>>
    BY <1>14 DEF Fail
  <2>3. faults' \in 0..MaxFaults /\ quiet' \subseteq Opaque
    BY <1>14 DEF Fail, TypeOK
  <2>4. dir' \in [Files -> Versions \cup {Partial, NoFile}]
    BY <1>14, CutShort DEF TypeOK
  <2> QED
    BY <1>12, <2>1, <2>2, <2>3, <2>4 DEF TypeOK, api, informer
<1>15. CASE Restart
  <2>1. queue' \in BOOLEAN /\ clean' \in [Threads -> BOOLEAN]
    BY <1>15 DEF Restart
  <2>2. ASSUME NEW u \in Threads PROVE Work(u)'
    BY <1>15, <2>2 DEF Restart, Work, Rendering
  <2>3. dir' \in [Files -> Versions \cup {Partial, NoFile}]
    BY <1>15, CutShort DEF TypeOK
  <2> QED
    BY <1>15, <2>1, <2>2, <2>3 DEF Restart, TypeOK, Secrets, api
<1>16. CASE UNCHANGED vars
  BY <1>0, <1>16 DEF vars, TypeOK, api, informer, volume, threads, bounds, history
<1> QED
  BY <1>1, <1>2, <1>3, <1>4, <1>5, <1>6, <1>7, <1>8, <1>9, <1>10, <1>11, <1>13, <1>14, <1>15,
     <1>16 DEF Next, RenderStep

LEMMA TypeInit == Init => TypeInv
<1>1. Init => queue \in BOOLEAN /\ clean \in [Threads -> BOOLEAN] /\ raced \in BOOLEAN
  BY DEF Init
<1>2. Init => TypeOK
  BY <1>1, BoundAssumption DEF Init, TypeOK, Secrets
<1>3. Init => quiet \subseteq Opaque /\ \A t \in Threads : Work(t)
  BY DEF Init, Work, Rendering
<1> QED
  BY <1>2, <1>3 DEF TypeInv

(***************************************************************************)
(* projectCerts, pruneCerts: the directory and the renders stay of their   *)
(* types; nothing but a usable Secret's data is ever written.              *)
(***************************************************************************)
THEOREM TypeCorrect == Spec => []TypeOK
<1>1. TypeInv => TypeOK
  BY DEF TypeInv
<1> QED
  BY <1>1, TypeInit, TypeStep, PTL DEF Spec
-----------------------------------------------------------------------------
(***************************************************************************)
(* Renders side by side.                                                   *)
(***************************************************************************)
\* The steps of a render after its List.
Step(t) ==
  \/ Get(t) \/ WriteKey(t) \/ WriteCrt(t) \/ ReadDir(t)
  \/ RemoveFile(t) \/ RemoveFails(t) \/ WriteUpstreams(t) \/ Fail(t)

(* The cluster changes nothing of the renders and of what they write. *)
LEMMA ClusterSteps ==
  ASSUME (\E s \in Stems : EditRefs(s) \/ EditSecret(s) \/ DeliverSecret(s)) \/ DeliverRefs
  PROVE  UNCHANGED <<volume, threads, skipped, clean, raced>>
<1>1. ASSUME NEW s \in Stems, EditRefs(s) \/ EditSecret(s) \/ DeliverSecret(s)
      PROVE UNCHANGED <<volume, threads, skipped, clean, raced>>
  BY <1>1 DEF EditRefs, EditSecret, DeliverSecret, history
<1> QED
  BY <1>1 DEF DeliverRefs, history

(* What fails is a write. *)
LEMMA FailsAt == \A t \in Threads : Fail(t) => pc[t] \in {"key", "crt", "remove"}
<1>1. ASSUME NEW t \in Threads, NEW f \in Writing(t) PROVE pc[t] \in {"key", "crt"}
  BY DEF Writing, Files
<1> QED
  BY <1>1 DEF Fail

(* A render's step leaves the other renders where they are. *)
LEMMA OtherRenders ==
  ASSUME TypeInv, NEW t \in Threads, NEW u \in Threads, u # t, Begin(t) \/ Step(t)
  PROVE  /\ pc'[u] = pc[u] /\ listed'[u] = listed[u] /\ todo'[u] = todo[u] /\ data'[u] = data[u]
         /\ want'[u] = want[u] /\ names'[u] = names[u] /\ skipped'[u] = skipped[u]
         /\ Step(t) => clean'[u] = clean[u]
<1> USE DEF TypeInv, TypeOK
<1> DEFINE Same == /\ pc'[u] = pc[u] /\ listed'[u] = listed[u] /\ todo'[u] = todo[u]
                   /\ data'[u] = data[u] /\ want'[u] = want[u] /\ names'[u] = names[u]
                   /\ skipped'[u] = skipped[u]
<1>1. Begin(t) => Same
  BY DEF Begin, Goto
<1>2. Get(t) => Same /\ clean' = clean
  BY DEF Get, Goto
<1>3. WriteKey(t) \/ ReadDir(t) => Same /\ clean' = clean
  BY DEF WriteKey, ReadDir, Goto, history
<1>4. WriteCrt(t) => Same /\ clean' = clean
  BY DEF WriteCrt, Goto, history
<1>5. RemoveFile(t) => Same /\ clean' = clean
  BY DEF RemoveFile, history
<1>6. RemoveFails(t) => Same /\ clean'[u] = clean[u]
  BY DEF RemoveFails
<1>7. End(t) => Same /\ clean'[u] = clean[u]
  BY DEF End, Goto
<1>8. ~(Begin(t) /\ Step(t))
  BY FailsAt DEF Begin, Step, Get, WriteKey, WriteCrt, ReadDir, RemoveFile, RemoveFails, WriteUpstreams
<1> QED
  BY <1>1, <1>2, <1>3, <1>4, <1>5, <1>6, <1>7, <1>8 DEF Step, WriteUpstreams, Fail

(* A render that is not clean does not become so and was raced for; only a  *)
(* clean one that ends clears that.                                         *)
LEMMA OwnFlags ==
  ASSUME TypeInv, NEW t \in Threads, Step(t)
  PROVE  /\ Rendering(t)
         /\ Rendering(t)' /\ clean'[t] => clean[t]
         /\ Rendering(t)' /\ clean[t] => clean'[t] \/ raced'
         /\ raced => raced' \/ (WriteUpstreams(t) /\ clean[t])
<1> USE DEF TypeInv, TypeOK
<1>1. Rendering(t)
  BY FailsAt DEF Rendering, Step, Get, WriteKey, WriteCrt, ReadDir, RemoveFile, RemoveFails,
                 WriteUpstreams
<1>2. ASSUME Get(t) \/ WriteKey(t) \/ WriteCrt(t) \/ ReadDir(t) \/ RemoveFile(t)
      PROVE clean' = clean /\ raced' = raced
  BY <1>2 DEF Get, WriteKey, WriteCrt, ReadDir, RemoveFile, history
<1>3. ASSUME RemoveFails(t) PROVE ~clean'[t] /\ raced'
  BY <1>3 DEF RemoveFails
<1>4. ASSUME End(t) PROVE ~Rendering(t)'
  BY <1>4 DEF End, Goto, Rendering
<1>5. ASSUME WriteUpstreams(t) PROVE (raced => raced' \/ clean[t]) /\ End(t)
  BY <1>5 DEF WriteUpstreams
<1>6. ASSUME Fail(t) PROVE raced' = raced /\ End(t)
  BY <1>6 DEF Fail
<1> QED
  BY <1>1, <1>2, <1>3, <1>4, <1>5, <1>6 DEF Step

LEMMA AloneStep == TypeInv /\ AloneInv /\ [Next]_vars => AloneInv'
<1> SUFFICES ASSUME TypeInv, AloneInv, [Next]_vars PROVE AloneInv'
  OBVIOUS
<1>1. ASSUME UNCHANGED <<volume, threads, skipped, clean, raced>> PROVE AloneInv'
  BY <1>1 DEF AloneInv, Rendering, threads
<1>2. ASSUME NEW t \in Threads, Begin(t) PROVE AloneInv'
  <2>1. \A u \in Threads : u # t => pc'[u] = pc[u]
    BY <1>2, OtherRenders
  <2>2. clean'[t] => \A u \in Threads \ {t} : ~Rendering(u)
    BY <1>2 DEF Begin
  <2>3. \A u \in Threads \ {t} : Rendering(u) => ~clean'[u]
    BY <1>2 DEF Begin
  <2>4. (raced => raced') /\ \A u \in Threads \ {t} : Rendering(u) => raced'
    BY <1>2 DEF Begin
  <2>5. raced' \/ clean'[t]
    BY <1>2 DEF Begin
  <2> QED
    BY <2>1, <2>2, <2>3, <2>4, <2>5 DEF AloneInv, Rendering
<1>3. ASSUME NEW t \in Threads, Step(t) PROVE AloneInv'
  <2>1. \A u \in Threads : u # t => (Rendering(u)' <=> Rendering(u)) /\ clean'[u] = clean[u]
    BY <1>3, OtherRenders DEF Rendering
  <2>2. /\ Rendering(t)
        /\ Rendering(t)' /\ clean'[t] => clean[t]
        /\ Rendering(t)' /\ clean[t] => clean'[t] \/ raced'
        /\ raced /\ ~clean[t] => raced'
    BY <1>3, OwnFlags
  <2>3. ASSUME NEW u \in Threads, u # t, Rendering(u) PROVE ~clean[u] /\ ~clean[t] /\ raced
    BY <2>2, <2>3 DEF AloneInv
  <2> QED
    BY <2>1, <2>2, <2>3 DEF AloneInv
<1>4. CASE Restart
  BY <1>4 DEF Restart, AloneInv, Rendering
<1>5. CASE UNCHANGED vars
  BY <1>1, <1>5 DEF vars, history
<1> QED
  BY <1>1, <1>2, <1>3, <1>4, <1>5, ClusterSteps DEF Next, RenderStep, Step
-----------------------------------------------------------------------------
(***************************************************************************)
(* The directory.                                                          *)
(***************************************************************************)
(* A render that is not clean has been raced for, and no other is clean. *)
LEMMA UncleanStep ==
  ASSUME TypeInv, AloneInv, NEW t \in Threads, Step(t), ~clean[t]
  PROVE  raced' /\ \A u \in Threads : Rendering(u)' => ~clean'[u]
<1>1. raced'
  BY OwnFlags DEF AloneInv
<1>2. ASSUME NEW u \in Threads, u # t, Rendering(u)' PROVE ~clean'[u]
  <2>1. Rendering(u) /\ clean'[u] = clean[u]
    BY <1>2, OtherRenders DEF Rendering
  <2> QED
    BY <1>2, <2>1, OwnFlags DEF AloneInv
<1> QED
  BY <1>1, <1>2, OwnFlags

(* While a clean render runs nobody else does. *)
LEMMA CleanStep ==
  ASSUME TypeInv, AloneInv, NEW t \in Threads, Step(t), clean[t]
  PROVE  \A u \in Threads : u # t => ~Rendering(u) /\ ~Rendering(u)'
<1>1. \A u \in Threads : u # t => ~Rendering(u)
  BY OwnFlags DEF AloneInv
<1> QED
  BY <1>1, OtherRenders DEF Rendering

(* A clean render that writes a certificate has written the key. *)
LEMMA KeyOfWritten ==
  ASSUME NEW t \in Threads, CleanRender(t), Work(t),
         NEW s \in Stems, <<s, "crt">> \in Writing(t)
  PROVE  dir[<<s, "key">>] # NoFile
<1>1. pc[t] = "crt" /\ s \in First(todo[t])
  BY DEF Writing
<1> QED
  BY <1>1, VersionAssumption DEF CleanRender, Work

LEMMA DirStep == TypeInv /\ AloneInv /\ DirInv /\ [Next]_vars => DirInv'
<1> SUFFICES ASSUME TypeInv, AloneInv, DirInv, [Next]_vars PROVE DirInv'
  OBVIOUS
<1>0. /\ dir \in [Files -> Versions \cup {Partial, NoFile}]
      /\ \A s \in Stems : \A e \in {"crt", "key"} : <<s, e>> \in Files
      /\ \A f \in Files : f = <<f[1], f[2]>> /\ f[1] \in Stems /\ f[2] \in {"crt", "key"}
      /\ NoFile \notin Versions /\ Partial # NoFile
  BY VersionAssumption DEF TypeInv, TypeOK, Files
<1>1. ASSUME UNCHANGED <<volume, threads, skipped, clean, raced>> PROVE DirInv'
  BY <1>1 DEF DirInv, KeyBesideCrt, CleanRender, Paired, Rendering, volume, threads
<1>2. ASSUME NEW t \in Threads, Begin(t) PROVE DirInv'
  <2>1. dir' = dir /\ (raced => raced') /\ pc'[t] = "get" /\ want'[t] = {}
    BY <1>2 DEF Begin, Goto, volume, TypeInv, TypeOK
  <2>2. KeyBesideCrt'
    BY <2>1 DEF DirInv, KeyBesideCrt
  <2>3. CleanRender(t)'
    BY <2>1 DEF CleanRender
  <2>4. ASSUME NEW u \in Threads, u # t, Rendering(u)', clean'[u] PROVE FALSE
    <3>1. Rendering(u)
      BY <1>2, <2>4, OtherRenders DEF Rendering
    <3> QED
      BY <1>2, <2>4, <3>1 DEF Begin
  <2> QED
    BY <2>2, <2>3, <2>4 DEF DirInv
<1>3. ASSUME NEW t \in Threads, Step(t), ~clean[t] PROVE DirInv'
  BY <1>3, UncleanStep DEF DirInv, KeyBesideCrt
<1>4. ASSUME NEW t \in Threads, Step(t), clean[t], KeyBesideCrt',
             Rendering(t)' /\ clean'[t] => CleanRender(t)'
      PROVE DirInv'
  BY <1>4, CleanStep DEF DirInv
<1>5. ASSUME NEW t \in Threads, Step(t), clean[t] PROVE CleanRender(t) /\ Work(t) /\ KeyBesideCrt
  BY <1>5, OwnFlags DEF DirInv, TypeInv
<1>6. ASSUME dir' = dir, raced' = raced PROVE KeyBesideCrt'
  BY <1>6 DEF DirInv, KeyBesideCrt
<1>7. ASSUME NEW t \in Threads, clean[t], Get(t) PROVE DirInv'
  <2>1. dir' = dir /\ raced' = raced /\ want' = want /\ pc'[t] \in {"get", "key"}
    BY <1>7 DEF Get, Goto, volume, TypeInv, TypeOK
  <2>2. CleanRender(t)'
    BY <1>5, <1>7, <2>1 DEF Step, CleanRender, Paired
  <2> QED
    BY <1>4, <1>6, <1>7, <2>1, <2>2 DEF Step
<1>8. ASSUME NEW t \in Threads, clean[t], WriteKey(t) PROVE DirInv'
  <2>1. PICK s \in First(todo[t]) : dir' = [dir EXCEPT ![<<s, "key">>] = data[t]]
    BY <1>8 DEF WriteKey
  <2>2. s \in todo[t] /\ s \in Stems /\ data[t] \in Versions /\ s \notin want[t] /\ want[t] \subseteq Stems
    BY <1>8, FirstFacts DEF WriteKey, TypeInv, TypeOK, Work
  <2>3. raced' = raced /\ UNCHANGED <<want, todo, data>> /\ pc'[t] = "crt"
    BY <1>8 DEF WriteKey, Goto, TypeInv, TypeOK, history
  <2>4. /\ dir'[<<s, "key">>] = data[t] /\ dir'[<<s, "key">>] # NoFile
        /\ \A u \in Stems : dir'[<<u, "crt">>] = dir[<<u, "crt">>]
        /\ \A u \in Stems : u # s => dir'[<<u, "key">>] = dir[<<u, "key">>]
    BY <1>0, <2>1, <2>2
  <2>5. KeyBesideCrt'
    BY <2>3, <2>4 DEF DirInv, KeyBesideCrt
  <2>6. CleanRender(t)'
    BY <1>5, <1>8, <2>2, <2>3, <2>4, FirstUnique DEF Step, CleanRender, Paired
  <2> QED
    BY <1>4, <1>8, <2>5, <2>6 DEF Step
<1>9. ASSUME NEW t \in Threads, clean[t], WriteCrt(t) PROVE DirInv'
  <2>1. PICK s \in First(todo[t]) : /\ dir' = [dir EXCEPT ![<<s, "crt">>] = data[t]]
                                    /\ want' = [want EXCEPT ![t] = @ \cup {s}]
    BY <1>9 DEF WriteCrt
  <2>2. s \in todo[t] /\ s \in Stems /\ data[t] \in Versions /\ s \notin want[t] /\ want[t] \subseteq Stems
    BY <1>9, FirstFacts DEF WriteCrt, TypeInv, TypeOK, Work
  <2>3. raced' = raced /\ pc'[t] = "get" /\ want'[t] = want[t] \cup {s}
    BY <1>9, <2>1 DEF WriteCrt, Goto, TypeInv, TypeOK, history
  <2>4. dir[<<s, "key">>] = data[t]
    BY <1>5, <1>9 DEF Step, CleanRender, WriteCrt
  <2>5. /\ dir'[<<s, "crt">>] = data[t] /\ data[t] # NoFile
        /\ \A u \in Stems : dir'[<<u, "key">>] = dir[<<u, "key">>]
        /\ \A u \in Stems : u # s => dir'[<<u, "crt">>] = dir[<<u, "crt">>]
    BY <1>0, <2>1, <2>2
  <2>6. KeyBesideCrt'
    BY <2>2, <2>3, <2>4, <2>5 DEF DirInv, KeyBesideCrt
  <2>7. CleanRender(t)'
    BY <1>5, <1>9, <2>2, <2>3, <2>4, <2>5 DEF Step, CleanRender, Paired
  <2> QED
    BY <1>4, <1>9, <2>6, <2>7 DEF Step
<1>10. ASSUME NEW t \in Threads, clean[t], ReadDir(t) PROVE DirInv'
  <2>1. /\ dir' = dir /\ raced' = raced /\ want' = want /\ pc'[t] = "remove"
        /\ names'[t] = {f \in Files : dir[f] # NoFile /\ f[1] \notin want[t]}
    BY <1>10 DEF ReadDir, Goto, TypeInv, TypeOK, volume, history
  <2>2. CleanRender(t)'
    BY <1>5, <1>10, <2>1 DEF Step, CleanRender, Paired
  <2> QED
    BY <1>4, <1>6, <1>10, <2>1, <2>2 DEF Step
<1>11. ASSUME NEW t \in Threads, clean[t], RemoveFile(t) PROVE DirInv'
  <2>1. PICK f \in FirstFile(names[t]) : /\ dir' = [dir EXCEPT ![f] = NoFile]
                                         /\ names' = [names EXCEPT ![t] = @ \ {f}]
    BY <1>11 DEF RemoveFile
  <2>2. f \in names[t] /\ (f[2] = "key" => <<f[1], "crt">> \notin names[t])
    BY FirstFacts
  <2>3. /\ f \in Files /\ f[1] \in Stems /\ f[2] \in {"crt", "key"} /\ f = <<f[1], f[2]>>
        /\ f[1] \notin want[t] /\ want[t] \subseteq Stems
    BY <1>0, <1>11, <2>2 DEF RemoveFile, TypeInv, TypeOK, Work
  <2>4. raced' = raced /\ want' = want /\ pc' = pc /\ pc[t] = "remove" /\ names'[t] = names[t] \ {f}
    BY <1>11, <2>1 DEF RemoveFile, TypeInv, TypeOK, history
  <2>5. dir'[f] = NoFile /\ \A g \in Files : g # f => dir'[g] = dir[g]
    BY <1>0, <2>1, <2>3
  <2>6. f[2] = "key" => dir[<<f[1], "crt">>] = NoFile
    BY <1>0, <1>5, <1>11, <2>2, <2>3 DEF Step, RemoveFile, CleanRender
  <2>7. KeyBesideCrt'
    <3> SUFFICES ASSUME ~raced', NEW s \in Stems, dir'[<<s, "crt">>] # NoFile
                 PROVE dir'[<<s, "key">>] # NoFile
      BY DEF KeyBesideCrt
    <3>1. <<s, "crt">> # f /\ <<s, "crt">> \in Files /\ <<s, "key">> \in Files
      BY <1>0, <2>5
    <3>2. dir[<<s, "crt">>] # NoFile /\ dir[<<s, "key">>] # NoFile
      BY <2>4, <2>5, <3>1 DEF DirInv, KeyBesideCrt
    <3>3. <<s, "key">> # f
      <4>1. SUFFICES ASSUME f = <<s, "key">> PROVE FALSE
        OBVIOUS
      <4>2. f[1] = s /\ f[2] = "key"
        BY <4>1
      <4> QED
        BY <2>6, <3>2, <4>2
    <3> QED
      BY <2>5, <3>1, <3>2, <3>3
  <2>8. CleanRender(t)'
    <3>1. ASSUME NEW s \in want[t] PROVE Paired(s)'
      <4>1. /\ <<s, "crt">> \in Files /\ <<s, "key">> \in Files
            /\ <<s, "crt">> # f /\ <<s, "key">> # f
        BY <1>0, <2>3
      <4> QED
        BY <1>5, <1>11, <2>5, <4>1 DEF Step, CleanRender, Paired
    <3>2. ASSUME NEW g \in Files, dir'[g] # NoFile PROVE g[1] \in want[t] \/ g \in names[t] \ {f}
      BY <1>5, <1>11, <2>4, <2>5, <3>2 DEF Step, CleanRender
    <3> QED
      BY <2>4, <3>1, <3>2 DEF CleanRender
  <2> QED
    BY <1>4, <1>11, <2>7, <2>8 DEF Step
<1>12. ASSUME NEW t \in Threads, RemoveFails(t) PROVE DirInv'
  <2>1. raced' /\ ~clean'[t]
    BY <1>12 DEF RemoveFails, TypeInv, TypeOK
  <2>2. KeyBesideCrt'
    BY <2>1 DEF KeyBesideCrt
  <2> QED
    BY <1>3, <1>4, <1>12, <2>1, <2>2 DEF Step
<1>13. ASSUME NEW t \in Threads, clean[t], WriteUpstreams(t) PROVE DirInv'
  <2>1. dir' = dir /\ ~Rendering(t)'
    BY <1>13 DEF WriteUpstreams, End, Goto, Rendering, TypeInv, TypeOK
  <2>2. ASSUME NEW s \in Stems, dir[<<s, "crt">>] # NoFile PROVE dir[<<s, "key">>] # NoFile
    <3>1. <<s, "crt">> \in Files
      BY <1>0
    <3>2. s \in want[t]
      BY <1>5, <1>13, <2>2, <3>1 DEF Step, WriteUpstreams, CleanRender
    <3>3. dir[<<s, "crt">>] \in Versions /\ dir[<<s, "key">>] = dir[<<s, "crt">>]
      BY <1>5, <1>13, <3>2 DEF Step, CleanRender, Paired
    <3> QED
      BY <3>3, VersionAssumption
  <2> QED
    BY <1>4, <1>13, <2>1, <2>2 DEF Step, KeyBesideCrt
<1>14. ASSUME NEW t \in Threads, clean[t], Fail(t) PROVE DirInv'
  <2>1. raced' = raced /\ ~Rendering(t)'
    BY <1>14 DEF Fail, End, Goto, Rendering, TypeInv, TypeOK
  <2>2. ASSUME NEW f \in Writing(t), dir'[f] = Partial, \A g \in Files : g # f => dir'[g] = dir[g]
        PROVE  KeyBesideCrt'
    <3>1. \A s \in Stems : f = <<s, "crt">> => dir[<<s, "key">>] # NoFile
      BY <1>5, <1>14, KeyOfWritten DEF Step
    <3> QED
      BY <1>0, <2>1, <2>2, <3>1 DEF DirInv, KeyBesideCrt
  <2>3. KeyBesideCrt'
    BY <1>6, <1>14, <2>1, <2>2, CutShort DEF TypeInv
  <2> QED
    BY <1>4, <1>14, <2>1, <2>3 DEF Step
<1>15. CASE Restart
  <2>1. raced' = raced /\ \A t \in Threads : ~Rendering(t)'
    BY <1>15 DEF Restart, Rendering
  <2>2. ASSUME ~raced, NEW s \in Stems, dir'[<<s, "crt">>] # NoFile PROVE dir'[<<s, "key">>] # NoFile
    <3>1. dir[<<s, "key">>] # NoFile
      <4>1. ASSUME NEW t \in Threads, <<s, "crt">> \in Writing(t) PROVE dir[<<s, "key">>] # NoFile
        <5>1. Rendering(t)
          BY <4>1 DEF Writing, Rendering
        <5>2. clean[t] /\ CleanRender(t) /\ Work(t)
          BY <2>2, <5>1 DEF AloneInv, DirInv, TypeInv
        <5> QED
          BY <4>1, <5>2, KeyOfWritten
      <4> QED
        BY <1>0, <1>15, <2>2, <4>1, CutShort DEF DirInv, KeyBesideCrt, TypeInv
    <3> QED
      BY <1>0, <1>15, <3>1, CutShort DEF TypeInv
  <2> QED
    BY <2>1, <2>2 DEF DirInv, KeyBesideCrt
<1>16. CASE UNCHANGED vars
  BY <1>1, <1>16 DEF vars, history
<1>17. ASSUME NEW t \in Threads, Step(t) PROVE DirInv'
  BY <1>3, <1>7, <1>8, <1>9, <1>10, <1>11, <1>12, <1>13, <1>14, <1>17 DEF Step
<1> QED
  BY <1>1, <1>2, <1>15, <1>16, <1>17, ClusterSteps DEF Next, RenderStep, Step

SafeInv == TypeInv /\ AloneInv /\ DirInv

LEMMA SafeInit == Init => SafeInv
<1>1. Init => AloneInv /\ DirInv
  BY DEF Init, AloneInv, DirInv, KeyBesideCrt, Rendering, Files
<1> QED
  BY <1>1, TypeInit DEF SafeInv

(***************************************************************************)
(* projectCerts writes <stem>.key before <stem>.crt and pruneCerts removes *)
(* them the other way round, so that no error and no kill leaves the proxy *)
(* a certificate without a key, unless renders have raced or a removal has *)
(* failed since the last clean render.                                     *)
(***************************************************************************)
THEOREM CrtHasKey == Spec => []KeyBesideCrt
<1>1. SafeInv /\ [Next]_vars => SafeInv'
  BY TypeStep, AloneStep, DirStep DEF SafeInv
<1>2. SafeInv => KeyBesideCrt
  BY DEF SafeInv, DirInv
<1> QED
  BY <1>1, <1>2, SafeInit, PTL DEF Spec

(***************************************************************************)
(* render: when a clean render writes the upstreams file, every stem it    *)
(* binds a host to is in the directory as a matching pair, or was skipped  *)
(* because its Secret was not usable.                                      *)
(***************************************************************************)
THEOREM CertsComeFirst == Spec => CertsBeforeUpstreams
<1>1. SafeInv /\ [Next]_vars => SafeInv'
  BY TypeStep, AloneStep, DirStep DEF SafeInv
<1>2. ASSUME SafeInv, [Next]_vars, NEW t \in Threads,
             upstreams' # upstreams, Rendering(t), ~Rendering(t)', clean[t]
      PROVE  \A s \in upstreams' : Paired(s) \/ s \in skipped[t]
  <2>1. PICK u \in Threads : WriteUpstreams(u)
    <3>1. ASSUME NEW u \in Threads,
                 Begin(u) \/ Get(u) \/ WriteKey(u) \/ WriteCrt(u) \/ ReadDir(u)
                   \/ RemoveFile(u) \/ RemoveFails(u) \/ Fail(u)
          PROVE upstreams' = upstreams
      BY <3>1 DEF Begin, Get, WriteKey, WriteCrt, ReadDir, RemoveFile, RemoveFails, Fail, volume
    <3> QED
      BY <1>2, <3>1, ClusterSteps DEF Next, RenderStep, Restart, vars, volume
  <2>2. u = t
    <3>1. u # t => pc'[t] = pc[t]
      BY <1>2, <2>1, OtherRenders DEF SafeInv, Step
    <3> QED
      BY <1>2, <3>1 DEF Rendering
  <2>3. /\ upstreams' = listed[t] /\ todo[t] = {}
        /\ listed[t] \subseteq todo[t] \cup want[t] \cup skipped[t]
    <3>1. upstreams' = listed[t] /\ pc[t] = "remove"
      BY <2>1, <2>2 DEF WriteUpstreams
    <3>2. Work(t)
      BY <1>2 DEF SafeInv, TypeInv
    <3> QED
      BY <3>1, <3>2 DEF Work
  <2>4. \A s \in want[t] : Paired(s)
    BY <1>2 DEF SafeInv, DirInv, CleanRender
  <2> QED
    BY <2>3, <2>4
<1>3. SafeInv /\ [Next]_vars =>
        [\A t \in Threads :
           upstreams' # upstreams /\ Rendering(t) /\ ~Rendering(t)' /\ clean[t] =>
             \A s \in upstreams' : Paired(s) \/ s \in skipped[t]]_vars
  BY <1>2
<1> QED
  BY <1>1, <1>3, SafeInit, PTL DEF Spec, CertsBeforeUpstreams
-----------------------------------------------------------------------------
(***************************************************************************)
(* Convergence.                                                            *)
(***************************************************************************)
(* With no rebuild queued and nothing raced for, renders bring the directory   *)
(* in line with the informers and keep it so.                                  *)
LEMMA ConvergeStep == SafeInv /\ ConvergeInv /\ [Next]_vars => ConvergeInv'
<1> SUFFICES ASSUME SafeInv, ConvergeInv, [Next]_vars, ~queue' PROVE ConvergeInv'
  BY DEF ConvergeInv
<1>0. /\ dir \in [Files -> Versions \cup {Partial, NoFile}]
      /\ \A s \in Stems : \A e \in {"crt", "key"} : <<s, e>> \in Files
      /\ \A f \in Files : f = <<f[1], f[2]>> /\ f[1] \in Stems /\ f[2] \in {"crt", "key"}
      /\ NoFile \notin Versions /\ Threads = {"worker", "primer"}
      /\ TypeInv /\ AloneInv /\ \A t \in Threads : Work(t)
  BY VersionAssumption DEF SafeInv, TypeInv, TypeOK, Files, Threads
\* The cluster: an event of a stem queues a rebuild, or leaves it quiet.
<1>1. ASSUME UNCHANGED <<volume, threads, skipped, clean, raced, crefs>>, queue' = queue,
             quiet \subseteq quiet', \A s \in Stems \ quiet' : csecret'[s] = csecret[s]
      PROVE  ConvergeInv'
  <2>1. ASSUME NEW t \in Threads, Rendering(t)', clean'[t] PROVE Current(t)'
    BY <1>1, <2>1 DEF ConvergeInv, Current, Rendering, volume, threads
  <2>2. ASSUME NEW s \in Stems \ quiet' PROVE Agrees(s)' <=> Agrees(s)
    BY <1>1, <2>2 DEF Agrees, Cached, volume
  <2> QED
    BY <1>1, <2>1, <2>2 DEF ConvergeInv, Rendering, threads
<1>2. ASSUME NEW s \in Stems, EditRefs(s) \/ EditSecret(s) PROVE ConvergeInv'
  BY <1>1, <1>2 DEF EditRefs, EditSecret, informer, history
<1>3. CASE DeliverRefs
  BY <1>3 DEF DeliverRefs
<1>4. ASSUME NEW s \in Stems, DeliverSecret(s) PROVE ConvergeInv'
  <2>1. s \in Opaque /\ queue' = queue
    BY <1>4 DEF DeliverSecret, SafeInv, TypeInv, TypeOK
  <2> QED
    BY <1>1, <1>4, <2>1 DEF DeliverSecret, SafeInv, TypeInv, TypeOK
<1>5. CASE UNCHANGED vars
  BY <1>1, <1>5 DEF vars, informer, history
<1>6. CASE Restart
  BY <1>6 DEF Restart
\* A render begins.
<1>7. ASSUME NEW t \in Threads, Begin(t) PROVE ConvergeInv'
  <2>1. /\ UNCHANGED <<informer, volume, quiet>>
        /\ pc'[t] = "get" /\ listed'[t] = crefs /\ want'[t] = {} /\ skipped'[t] = {}
    BY <1>0, <1>7 DEF Begin, Goto, TypeInv, TypeOK, Work, Rendering
  <2>2. Current(t)'
    BY <2>1 DEF Current, informer
  <2>3. ASSUME NEW u \in Threads, u # t, Rendering(u)' PROVE ~clean'[u] /\ raced'
    <3>1. Rendering(u)
      BY <1>0, <1>7, <2>3, OtherRenders DEF Rendering
    <3> QED
      BY <1>7, <2>3, <3>1 DEF Begin
  <2>4. ASSUME ~raced', ~Rendering("worker")', NEW s \in Stems \ quiet PROVE Agrees(s)'
    <3>1. t = "primer" /\ queue' = queue /\ ~raced
      BY <1>0, <1>7, <2>1, <2>4 DEF Begin, Rendering
    <3>2. ~Rendering("worker") /\ ~Rendering("primer")
      BY <1>0, <1>7, <2>4, <3>1, OtherRenders DEF Rendering, Begin
    <3>3. Agrees(s)
      BY <2>4, <3>1, <3>2 DEF ConvergeInv
    <3> QED
      BY <2>1, <3>3 DEF Agrees, Cached, informer, volume
  <2> QED
    BY <2>1, <2>2, <2>3, <2>4 DEF ConvergeInv
\* A render that is not clean has nothing to show.
<1>8. ASSUME NEW t \in Threads, Step(t), ~clean[t] PROVE ConvergeInv'
  BY <1>0, <1>8, UncleanStep DEF ConvergeInv
\* A clean render that goes on keeps what agrees, and has seen the stems that
\* are no longer quiet.
<1>9. ASSUME NEW t \in Threads, Step(t), clean[t], Rendering(t)', Current(t)', queue' = queue,
             raced' = raced, UNCHANGED informer, quiet' \subseteq quiet,
             \A s \in Stems \ quiet : Agrees(s) => Agrees(s)'
      PROVE  ConvergeInv'
  <2>1. Rendering(t) /\ \A u \in Threads : u # t => ~Rendering(u) /\ ~Rendering(u)'
    BY <1>0, <1>9, CleanStep, OwnFlags
  <2>2. ASSUME ~raced', ~Rendering("worker")', NEW s \in Stems \ quiet'
        PROVE  Agrees(s)' \/ (Rendering("primer")' /\ s \in Opaque)
    <3>1. t = "primer"
      BY <1>0, <1>9, <2>2
    <3>2. s \notin quiet => Agrees(s) \/ s \in Opaque
      BY <1>0, <1>9, <2>1, <2>2, <3>1 DEF ConvergeInv
    <3>3. s \in quiet => s \in Opaque
      BY <1>0 DEF TypeInv
    <3> QED
      BY <1>9, <2>2, <3>1, <3>2, <3>3
  <2> QED
    BY <1>9, <2>1, <2>2 DEF ConvergeInv
<1>10. ASSUME NEW t \in Threads, Step(t), clean[t], queue' = queue
       PROVE  CleanRender(t) /\ Work(t) /\ Current(t)
  BY <1>0, <1>10, OwnFlags DEF SafeInv, DirInv, ConvergeInv
<1>11. ASSUME NEW t \in Threads, clean[t], Get(t) PROVE ConvergeInv'
  <2>1. PICK s \in First(todo[t]) : Get(t)!2!(s)
    BY <1>11 DEF Get
  <2>2. /\ UNCHANGED <<informer, queue, volume, listed, want, raced>> /\ quiet' = quiet \ {s}
        /\ pc[t] = "get" /\ s \in todo[t] /\ s \in Stems
    BY <1>0, <1>11, <2>1, FirstFacts DEF Get, TypeInv, TypeOK
  <2>3. CleanRender(t) /\ Work(t) /\ Current(t)
    BY <1>10, <1>11, <2>2 DEF Step
  <2>4. s \notin want[t] /\ s \notin skipped[t]
    BY <2>2, <2>3 DEF Work
  <2>5. Current(t)' /\ Rendering(t)'
    <3>1. CASE csecret[s] \in Versions
      <4>1. data'[t] = csecret[s] /\ pc'[t] = "key" /\ UNCHANGED <<todo, skipped>>
        BY <1>0, <2>1, <3>1 DEF Goto, TypeInv, TypeOK
      <4>2. \A u \in First(todo[t]) : u = s
        BY FirstUnique
      <4> QED
        BY <2>2, <2>3, <2>4, <4>1, <4>2 DEF Current, Rendering, informer, volume
    <3>2. CASE csecret[s] \notin Versions
      <4>1. skipped'[t] = skipped[t] \cup {s} /\ pc' = pc
        BY <1>0, <2>1, <3>2 DEF TypeInv, TypeOK
      <4> QED
        BY <2>2, <2>3, <2>4, <3>2, <4>1 DEF Current, Rendering, informer, volume
    <3> QED
      BY <3>1, <3>2
  <2>6. \A u \in Stems : Agrees(u)' <=> Agrees(u)
    BY <2>2 DEF Agrees, Cached, informer, volume
  <2> QED
    BY <1>9, <1>11, <2>2, <2>5, <2>6 DEF Step
<1>12. ASSUME NEW t \in Threads, clean[t], WriteKey(t) \/ WriteCrt(t) PROVE ConvergeInv'
  <2>1. PICK s \in First(todo[t]), e \in {"crt", "key"} :
          /\ dir' = [dir EXCEPT ![<<s, e>>] = data[t]]
          /\ IF e = "key"
             THEN UNCHANGED <<want, todo, data>> /\ pc'[t] = "crt"
             ELSE want'[t] = want[t] \cup {s} /\ pc'[t] = "get"
    BY <1>0, <1>12 DEF WriteKey, WriteCrt, Goto, TypeInv, TypeOK
  <2>2. /\ UNCHANGED <<informer, queue, listed, skipped, raced, quiet>>
        /\ pc[t] \in {"key", "crt"} /\ s \in todo[t] /\ s \in Stems
    BY <1>0, <1>12, FirstFacts DEF WriteKey, WriteCrt, TypeInv, TypeOK, history
  <2>3. CleanRender(t) /\ Work(t) /\ Current(t)
    BY <1>10, <1>12, <2>2 DEF Step
  <2>4. /\ s \notin want[t] /\ s \notin skipped[t] /\ s \in crefs /\ data[t] \in Versions
        /\ s \notin quiet => csecret[s] = data[t]
        /\ want[t] \subseteq Stems
    BY <1>0, <2>2, <2>3 DEF Work, Current, TypeInv, TypeOK
  <2>5. dir'[<<s, e>>] = data[t] /\ \A f \in Files : f # <<s, e>> => dir'[f] = dir[f]
    BY <1>0, <2>1, <2>2
  <2>6. \A u \in Stems : u # s => \A d \in {"crt", "key"} : dir'[<<u, d>>] = dir[<<u, d>>]
    BY <1>0, <2>5
  <2>7. Current(t)' /\ Rendering(t)'
    <3>1. CASE e = "key"
      <4>1. dir'[<<s, "crt">>] = dir[<<s, "crt">>]
        BY <1>0, <2>2, <2>5, <3>1
      <4> QED
        BY <2>1, <2>2, <2>3, <2>4, <2>6, <3>1, <4>1 DEF Current, Rendering, informer
    <3>2. CASE e = "crt"
      BY <2>1, <2>2, <2>3, <2>4, <2>5, <2>6, <3>2 DEF Current, Rendering, informer
    <3> QED
      BY <3>1, <3>2
  <2>8. ASSUME NEW u \in Stems \ quiet, Agrees(u) PROVE Agrees(u)'
    <3>1. Cached(u)' = Cached(u)
      BY <2>2 DEF Cached, informer
    <3>2. CASE u # s
      BY <2>6, <2>8, <3>1, <3>2 DEF Agrees
    <3>3. CASE u = s
      <4>1. Cached(u) = data[t]
        BY <2>4, <2>8, <3>3 DEF Cached
      <4>2. \A d \in {"crt", "key"} : dir'[<<s, d>>] = data[t]
        BY <1>0, <2>2, <2>5, <2>8, <3>3, <4>1 DEF Agrees
      <4> QED
        BY <3>1, <3>3, <4>1, <4>2 DEF Agrees
    <3> QED
      BY <3>2, <3>3
  <2> QED
    BY <1>9, <1>12, <2>2, <2>7, <2>8 DEF Step
<1>13. ASSUME NEW t \in Threads, clean[t], ReadDir(t) PROVE ConvergeInv'
  <2>1. UNCHANGED <<informer, queue, dir, listed, todo, want, skipped, raced, quiet>> /\ pc'[t] = "remove"
    BY <1>0, <1>13 DEF ReadDir, Goto, TypeInv, TypeOK, volume, history
  <2>2. Current(t)' /\ Rendering(t)'
    BY <1>10, <1>13, <2>1 DEF Step, Current, Rendering, informer
  <2>3. \A u \in Stems : Agrees(u)' <=> Agrees(u)
    BY <2>1 DEF Agrees, Cached, informer
  <2> QED
    BY <1>9, <1>13, <2>1, <2>2, <2>3 DEF Step
\* What is pruned belongs to stems that are skipped or no longer listed.
<1>14. ASSUME NEW t \in Threads, clean[t], RemoveFile(t) PROVE ConvergeInv'
  <2>1. PICK f \in FirstFile(names[t]) : dir' = [dir EXCEPT ![f] = NoFile]
    BY <1>14 DEF RemoveFile
  <2>2. /\ UNCHANGED <<informer, queue, listed, todo, want, skipped, raced, quiet, pc>>
        /\ pc[t] = "remove" /\ f \in names[t] /\ f \in Files /\ f[1] \in Stems
    <3>1. f \in names[t]
      BY FirstFacts
    <3>2. names[t] \subseteq Files
      BY <1>0 DEF TypeInv, TypeOK
    <3> QED
      BY <1>0, <1>14, <3>1, <3>2 DEF RemoveFile, history
  <2>3. CleanRender(t) /\ Work(t) /\ Current(t)
    BY <1>10, <1>14, <2>2 DEF Step
  <2>4. f[1] \notin want[t] /\ todo[t] = {} /\ want[t] \subseteq Stems
    BY <1>0, <2>2, <2>3 DEF Work, TypeInv, TypeOK
  <2>5. dir'[f] = NoFile /\ \A g \in Files : g # f => dir'[g] = dir[g]
    BY <1>0, <2>1, <2>2
  <2>6. \A s \in Stems : s # f[1] => \A e \in {"crt", "key"} : dir'[<<s, e>>] = dir[<<s, e>>]
    BY <1>0, <2>2, <2>5
  <2>7. Current(t)' /\ Rendering(t)'
    BY <2>2, <2>3, <2>4, <2>6 DEF Current, Rendering, informer
  <2>8. ASSUME NEW s \in Stems \ quiet, Agrees(s) PROVE Agrees(s)'
    <3>1. Cached(s)' = Cached(s)
      BY <2>2 DEF Cached, informer
    <3>2. CASE s # f[1]
      BY <2>6, <2>8, <3>1, <3>2 DEF Agrees
    <3>3. CASE s = f[1]
      <4>1. Cached(s) = NoFile
        BY <2>3, <2>4, <3>3 DEF Cached, Current, Work
      <4>2. \A e \in {"crt", "key"} : dir'[<<s, e>>] = NoFile
        BY <1>0, <2>5, <2>8, <4>1 DEF Agrees
      <4> QED
        BY <3>1, <4>1, <4>2 DEF Agrees
    <3> QED
      BY <3>2, <3>3
  <2> QED
    BY <1>9, <1>14, <2>2, <2>7, <2>8 DEF Step
<1>15. ASSUME NEW t \in Threads, clean[t], RemoveFails(t) PROVE ConvergeInv'
  <2>1. raced' /\ ~clean'[t]
    BY <1>0, <1>15 DEF RemoveFails, TypeInv, TypeOK
  <2>2. \A u \in Threads : u # t => ~Rendering(u)'
    BY <1>0, <1>15, CleanStep DEF Step
  <2> QED
    BY <2>1, <2>2 DEF ConvergeInv
\* A clean render that ends has brought every stem in line.
<1>16. ASSUME NEW t \in Threads, clean[t], WriteUpstreams(t) PROVE ConvergeInv'
  <2>1. UNCHANGED <<informer, queue, dir, quiet>> /\ pc[t] = "remove" /\ names[t] = {} /\ ~Rendering(t)'
    BY <1>0, <1>16 DEF WriteUpstreams, End, Goto, Rendering, TypeInv, TypeOK
  <2>2. CleanRender(t) /\ Work(t) /\ Current(t)
    BY <1>10, <1>16, <2>1 DEF Step
  <2>3. \A u \in Threads : ~Rendering(u)'
    BY <1>0, <1>16, <2>1, CleanStep DEF Step
  <2>4. ASSUME NEW s \in Stems \ quiet PROVE Agrees(s)
    <3>1. CASE s \in want[t]
      <4>1. Paired(s) /\ csecret[s] = dir[<<s, "crt">>] /\ s \in crefs
        BY <2>2, <2>4, <3>1 DEF CleanRender, Current, Work
      <4>2. dir[<<s, "crt">>] \in Versions
        BY <1>0, <2>4, <4>1 DEF Paired
      <4> QED
        BY <4>1, <4>2 DEF Agrees, Cached, Paired
    <3>2. CASE s \notin want[t]
      <4>1. Cached(s) = NoFile
        BY <2>1, <2>2, <2>4, <3>2 DEF Cached, Current, Work
      <4>2. \A e \in {"crt", "key"} : <<s, e>> \in Files /\ <<s, e>>[1] = s
        BY <1>0, <2>4
      <4>3. \A e \in {"crt", "key"} : dir[<<s, e>>] = NoFile
        BY <2>1, <2>2, <3>2, <4>2 DEF CleanRender
      <4> QED
        BY <4>1, <4>3 DEF Agrees
    <3> QED
      BY <3>1, <3>2
  <2>5. \A s \in Stems \ quiet' : Agrees(s)'
    BY <2>1, <2>4 DEF Agrees, Cached, informer
  <2> QED
    BY <2>3, <2>5 DEF ConvergeInv
\* The worker's error queues a rebuild; the primer's leaves what it found.
<1>17. ASSUME NEW t \in Threads, clean[t], Fail(t) PROVE ConvergeInv'
  <2>1. t = "primer" /\ ~queue
    BY <1>0, <1>17 DEF Fail, SafeInv, TypeInv, TypeOK
  <2>2. UNCHANGED <<informer, raced>> /\ quiet' = quiet \cup Opaque /\ ~Rendering(t)'
    BY <1>0, <1>17, <2>1 DEF Fail, End, Goto, Rendering, TypeInv, TypeOK
  <2>3. \A u \in Threads : ~Rendering(u)'
    BY <1>0, <1>17, <2>2, CleanStep DEF Step
  <2>4. ~Rendering("worker")
    BY <1>0, <1>17, <2>1, CleanStep DEF Step
  <2>5. ASSUME ~raced', NEW s \in Stems \ quiet' PROVE Agrees(s)'
    <3>1. Agrees(s)
      BY <2>1, <2>2, <2>4, <2>5 DEF ConvergeInv
    <3>2. ASSUME NEW e \in {"crt", "key"} PROVE <<s, e>> \notin Writing(t)
      <4>1. Current(t) /\ Work(t) /\ todo[t] \subseteq Stems
        BY <1>0, <1>17, <2>1, OwnFlags DEF ConvergeInv, Step, TypeInv, TypeOK
      <4>2. SUFFICES ASSUME pc[t] \in {"key", "crt"}, s \in First(todo[t])
                     PROVE  dir[<<s, e>>] = data[t]
        BY <3>2 DEF Writing
      <4>3. csecret[s] = data[t] /\ data[t] \in Versions /\ s \in crefs
        BY <2>2, <2>5, <4>1, <4>2, FirstFacts DEF Current, Work
      <4> QED
        BY <3>1, <3>2, <4>3 DEF Agrees, Cached
    <3>3. \A e \in {"crt", "key"} : dir'[<<s, e>>] = dir[<<s, e>>]
      BY <1>0, <1>17, <3>2, CutShort DEF TypeInv
    <3> QED
      BY <2>2, <3>1, <3>3 DEF Agrees, Cached, informer
  <2> QED
    BY <2>3, <2>5 DEF ConvergeInv
<1>18. ASSUME NEW t \in Threads, Step(t) PROVE ConvergeInv'
  BY <1>8, <1>11, <1>12, <1>13, <1>14, <1>15, <1>16, <1>17, <1>18 DEF Step
<1> QED
  BY <1>2, <1>3, <1>4, <1>5, <1>6, <1>7, <1>18 DEF Next, RenderStep, Step

(***************************************************************************)
(* render, projectCerts and pruneCerts: once the informers have caught up, *)
(* no rebuild is queued and no render runs, the directory holds exactly    *)
(* the pairs of the usable Secrets referred to, in their present version,  *)
(* after any errors, kills and rotations.                                  *)
(***************************************************************************)
THEOREM DirectoryConverges == Spec => []CertsConverge
<1>1. Init => ConvergeInv
  BY DEF Init, ConvergeInv
<1>2. SafeInv /\ ConvergeInv /\ [Next]_vars => (SafeInv /\ ConvergeInv)'
  BY TypeStep, AloneStep, DirStep, ConvergeStep DEF SafeInv
<1>3. ASSUME ConvergeInv, Settled, ~raced, NEW s \in Stems \ quiet, NEW e \in {"crt", "key"}
      PROVE  dir[<<s, e>>] = Content(s)
  <2>1. ~Rendering("worker") /\ ~Rendering("primer") /\ ~queue
    BY <1>3 DEF Settled, Rendering
  <2>2. Agrees(s)
    BY <1>3, <2>1 DEF ConvergeInv
  <2> QED
    BY <1>3, <2>2 DEF Settled, Agrees, Cached, Content
<1>4. ConvergeInv => CertsConverge
  BY <1>3 DEF CertsConverge
<1> QED
  BY <1>1, <1>2, <1>4, SafeInit, PTL DEF Spec
=============================================================================
