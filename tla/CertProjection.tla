--------------------------- MODULE CertProjection ---------------------------
(***************************************************************************)
(* The tail of render in sidecar mode (controllers/ingress_controller.go): *)
(* projectCerts and pruneCerts (controllers/certs.go) bring the            *)
(* operator-owned certificate directory in line with the Secrets that the  *)
(* listed Ingresses and Gateways refer to, then the upstreams file is      *)
(* written.  The reconcile worker and the start-up primer both run it, in  *)
(* one process and on the same files.                                      *)
(*                                                                         *)
(* Certificate files are written in place, the key before the certificate, *)
(* because the proxy's watcher pairs them by name when the .crt appears;   *)
(* an error or a kill in the middle leaves a file that is cut short.       *)
(* A stem stands for a concrete host and the Secret projected for it; a    *)
(* Secret's data is a version, or Unusable when tls.crt or tls.key is      *)
(* missing.  The upstreams write is one step here: ConfigSync has its      *)
(* temporary file, and an error before the first write changes nothing.    *)
(***************************************************************************)
EXTENDS Naturals, Sequences, SequencesExt

CONSTANTS StemOrder,    \* the stems in sort.Strings order
          Opaque,       \* stems whose Secret is not of type kubernetes.io/tls
          Versions,     \* usable contents of a Secret
          Unusable, Missing, NoFile,
          Partial,      \* a file created or truncated, and not written to its end
          MaxEdits, MaxFaults, MaxCrashes

Stems   == ToSet(StemOrder)
Threads == {"worker", "primer"}
Files   == Stems \X {"crt", "key"}
Secrets == Versions \cup {Unusable, Missing}

ASSUME VersionAssumption ==
  {Unusable, Missing, NoFile, Partial} \cap Versions = {} /\ Partial # NoFile
ASSUME StemAssumption ==
  /\ StemOrder \in Seq(Stems) /\ IsInjective(StemOrder)
  /\ Opaque \subseteq Stems
ASSUME BoundAssumption == MaxEdits \in Nat /\ MaxFaults \in Nat /\ MaxCrashes \in Nat

VARIABLES refs, secret,     \* stems referred to, and the Secrets, in the API server
          crefs, csecret,   \* the same in the informers
          queue,            \* a rebuild is queued
          dir,              \* the certificate directory
          upstreams,        \* stems the upstreams file binds hosts to
          pc, listed,       \* where each render is, and the stems it has listed
          todo, data,       \* stems left, and the Secret it has got for the first
          want, names,      \* stems projected, and files left of its ReadDir
          edits, faults, crashes,
          skipped,          \* history: stems this render found no usable Secret for
          clean,            \* history: no other render ran and no removal failed in it
          raced,            \* history: not so, for some render since a clean one ended
          quiet             \* history: stems stale with no event to come for them

api      == <<refs, secret>>
informer == <<crefs, csecret>>
volume   == <<dir, upstreams>>
threads  == <<pc, listed, todo, data, want, names>>
bounds   == <<edits, faults, crashes>>
history  == <<skipped, clean, raced, quiet>>
vars     == <<api, informer, queue, volume, threads, bounds, history>>

TypeOK ==
  /\ refs \subseteq Stems /\ crefs \subseteq Stems
  /\ secret \in [Stems -> Secrets] /\ csecret \in [Stems -> Secrets]
  /\ queue \in BOOLEAN
  /\ dir \in [Files -> Versions \cup {Partial, NoFile}]
  /\ upstreams \subseteq Stems
  /\ pc \in [Threads -> {"idle", "get", "key", "crt", "remove", "done"}]
  /\ listed \in [Threads -> SUBSET Stems]
  /\ todo \in [Threads -> SUBSET Stems] /\ names \in [Threads -> SUBSET Files]
  /\ data \in [Threads -> Secrets]
  /\ want \in [Threads -> SUBSET Stems]
  /\ edits \in 0..MaxEdits /\ faults \in 0..MaxFaults /\ crashes \in 0..MaxCrashes
  /\ skipped \in [Threads -> SUBSET Stems]
  /\ clean \in [Threads -> BOOLEAN] /\ raced \in BOOLEAN /\ quiet \subseteq Stems

\* The sidecar starts on a fresh volume, its caches synced.
Init ==
  /\ refs \in SUBSET Stems /\ secret \in [Stems -> Secrets]
  /\ crefs = refs /\ csecret = secret
  /\ queue = TRUE
  /\ dir = [f \in Files |-> NoFile]
  /\ upstreams = {}
  /\ pc = [t \in Threads |-> "idle"]
  /\ listed = [t \in Threads |-> {}]
  /\ todo = [t \in Threads |-> {}]
  /\ data = [t \in Threads |-> Missing]
  /\ want = [t \in Threads |-> {}]
  /\ names = [t \in Threads |-> {}]
  /\ edits = 0 /\ faults = 0 /\ crashes = 0
  /\ skipped = [t \in Threads |-> {}]
  /\ clean = [t \in Threads |-> TRUE] /\ raced = FALSE /\ quiet = {}

Goto(t, l) == pc' = [pc EXCEPT ![t] = l]

Rendering(t) == pc[t] \notin {"idle", "done"}

\* The stem of S that comes first, none if S is empty.
First(S) ==
  {s \in S : \A u \in S : \E i, j \in DOMAIN StemOrder :
               i <= j /\ StemOrder[i] = s /\ StemOrder[j] = u}

\* The first file of F in os.ReadDir order: x.crt comes before x.key.
FirstFile(F) ==
  {f \in F : f[1] \in First({g[1] : g \in F}) /\ (f[2] = "key" => <<f[1], "crt">> \notin F)}

-----------------------------------------------------------------------------
(***************************************************************************)
(* The cluster.                                                            *)
(***************************************************************************)
EditRefs(s) ==
  /\ edits < MaxEdits
  /\ edits' = edits + 1
  /\ refs' = IF s \in refs THEN refs \ {s} ELSE refs \cup {s}
  /\ UNCHANGED <<secret, informer, queue, volume, threads, faults, crashes, history>>

EditSecret(s) ==
  /\ edits < MaxEdits
  /\ edits' = edits + 1
  /\ \E v \in Secrets \ {secret[s]} : secret' = [secret EXCEPT ![s] = v]
  /\ UNCHANGED <<refs, informer, queue, volume, threads, faults, crashes, history>>

\* An Ingress or Gateway event.
DeliverRefs ==
  /\ crefs # refs
  /\ crefs' = refs
  /\ queue' = TRUE
  /\ UNCHANGED <<api, csecret, volume, threads, bounds, history>>

\* A Secret event; the predicate of SetupWithManager lets those of type
\* kubernetes.io/tls through.
DeliverSecret(s) ==
  /\ csecret[s] # secret[s]
  /\ csecret' = [csecret EXCEPT ![s] = secret[s]]
  /\ queue' = (queue \/ s \notin Opaque)
  /\ quiet' = IF s \in Opaque THEN quiet \cup {s} ELSE quiet
  /\ UNCHANGED <<api, crefs, volume, threads, bounds, skipped, clean, raced>>

-----------------------------------------------------------------------------
(***************************************************************************)
(* render, from its List to the upstreams file.                            *)
(***************************************************************************)
\* r.List, and the certProjections that come of it.
Begin(t) ==
  /\ pc[t] = "idle"
  /\ t = "worker" => queue
  /\ queue' = IF t = "worker" THEN FALSE ELSE queue
  /\ listed' = [listed EXCEPT ![t] = crefs]
  /\ todo' = [todo EXCEPT ![t] = crefs]
  /\ want' = [want EXCEPT ![t] = {}]
  /\ Goto(t, "get")
  /\ LET others == {u \in Threads \ {t} : Rendering(u)}
     IN /\ clean' = [u \in Threads |-> IF u = t THEN others = {} ELSE clean[u] /\ u \notin others]
        /\ raced' = (raced \/ others # {})
  /\ UNCHANGED <<api, informer, volume, data, names, bounds, skipped, quiet>>

\* Faulty: any Secret that is there is projected.
GetUnchecked(t) ==
  /\ pc[t] = "get"
  /\ \E s \in First(todo[t]) : data' = [data EXCEPT ![t] = csecret[s]]
  /\ Goto(t, "key")
  /\ UNCHANGED <<api, informer, queue, volume, listed, todo, want, names, bounds, history>>

\* r.Get of the next Secret: one that is missing or not usable is skipped.
Get(t) ==
  /\ pc[t] = "get"
  /\ \E s \in First(todo[t]) :
       /\ quiet' = quiet \ {s}
       /\ \/ /\ csecret[s] \in Versions
             /\ data' = [data EXCEPT ![t] = csecret[s]]
             /\ Goto(t, "key")
             /\ UNCHANGED <<todo, skipped>>
          \/ /\ csecret[s] \notin Versions
             /\ todo' = [todo EXCEPT ![t] = @ \ {s}]
             /\ skipped' = [skipped EXCEPT ![t] = @ \cup {s}]
             /\ UNCHANGED <<pc, data>>
  /\ UNCHANGED <<api, informer, queue, volume, listed, want, names, bounds, clean, raced>>

\* Faulty: the certificate is written first.
WriteKeyLast(t) ==
  /\ pc[t] = "key"
  /\ \E s \in First(todo[t]) : dir' = [dir EXCEPT ![<<s, "crt">>] = data[t]]
  /\ Goto(t, "crt")
  /\ UNCHANGED <<api, informer, queue, upstreams, listed, todo, data, want, names, bounds, history>>

\* The file that a render has truncated or is about to, as it differs.
Writing(t) == {f \in Files : f[2] = pc[t] /\ f[1] \in First(todo[t]) /\ dir[f] # data[t]}

\* writeFileIfChanged of <stem>.key, in place.
WriteKey(t) ==
  /\ pc[t] = "key"
  /\ \E s \in First(todo[t]) : dir' = [dir EXCEPT ![<<s, "key">>] = data[t]]
  /\ Goto(t, "crt")
  /\ UNCHANGED <<api, informer, queue, upstreams, listed, todo, data, want, names, bounds, history>>

\* writeFileIfChanged of <stem>.crt; the stem is projected.
WriteCrt(t) ==
  /\ pc[t] = "crt"
  /\ \E s \in First(todo[t]) :
       /\ dir' = [dir EXCEPT ![<<s, "crt">>] = data[t]]
       /\ want' = [want EXCEPT ![t] = @ \cup {s}]
       /\ todo' = [todo EXCEPT ![t] = @ \ {s}]
  /\ data' = [data EXCEPT ![t] = Missing]
  /\ Goto(t, "get")
  /\ UNCHANGED <<api, informer, queue, upstreams, listed, names, bounds, history>>

\* Faulty: a file is stale only if nobody refers to its stem any more.
ReadDirKeepsListed(t) ==
  /\ pc[t] = "get"
  /\ todo[t] = {}
  /\ names' = [names EXCEPT ![t] = {f \in Files : dir[f] # NoFile /\ f[1] \notin listed[t]}]
  /\ Goto(t, "remove")
  /\ UNCHANGED <<api, informer, queue, volume, listed, todo, data, want, bounds, history>>

\* pruneCerts: the files there are, of stems that were not projected.
ReadDir(t) ==
  /\ pc[t] = "get"
  /\ todo[t] = {}
  /\ names' = [names EXCEPT ![t] = {f \in Files : dir[f] # NoFile /\ f[1] \notin want[t]}]
  /\ Goto(t, "remove")
  /\ UNCHANGED <<api, informer, queue, volume, listed, todo, data, want, bounds, history>>

RemoveFile(t) ==
  /\ pc[t] = "remove"
  /\ \E f \in FirstFile(names[t]) :
       /\ dir' = [dir EXCEPT ![f] = NoFile]
       /\ names' = [names EXCEPT ![t] = @ \ {f}]
  /\ UNCHANGED <<api, informer, queue, upstreams, pc, listed, todo, data, want, bounds, history>>

\* os.Remove's error is dropped: the file stays until the next render.
RemoveFails(t) ==
  /\ pc[t] = "remove"
  /\ faults < MaxFaults
  /\ faults' = faults + 1
  /\ \E f \in FirstFile(names[t]) : names' = [names EXCEPT ![t] = @ \ {f}]
  /\ clean' = [clean EXCEPT ![t] = FALSE]
  /\ raced' = TRUE
  /\ UNCHANGED <<api, informer, queue, volume, pc, listed, todo, data, want, edits, crashes,
                 skipped, quiet>>

\* The render is over: what it held is dropped.
End(t) ==
  /\ Goto(t, IF t = "worker" THEN "idle" ELSE "done")
  /\ listed' = [listed EXCEPT ![t] = {}]
  /\ todo' = [todo EXCEPT ![t] = {}]
  /\ data' = [data EXCEPT ![t] = Missing]
  /\ want' = [want EXCEPT ![t] = {}]
  /\ names' = [names EXCEPT ![t] = {}]
  /\ skipped' = [skipped EXCEPT ![t] = {}]
  /\ clean' = [clean EXCEPT ![t] = TRUE]

\* The upstreams file, last; render returns nil.
WriteUpstreams(t) ==
  /\ pc[t] = "remove"
  /\ names[t] = {}
  /\ upstreams' = listed[t]
  /\ End(t)
  /\ raced' = (raced /\ ~clean[t])
  /\ UNCHANGED <<api, informer, queue, dir, bounds, quiet>>

\* Faulty: an error of projectCerts is logged and the render goes on.
FailGoesOn(t) ==
  /\ faults < MaxFaults
  /\ faults' = faults + 1
  /\ pc[t] \in {"key", "crt"}
  /\ upstreams' = listed[t]
  /\ End(t)
  /\ UNCHANGED <<api, informer, queue, dir, edits, crashes, raced, quiet>>

\* A certificate cannot be written, or not to its end, or the upstreams file
\* cannot: Reconcile returns the error and is retried, the primer is over.
Fail(t) ==
  /\ faults < MaxFaults
  /\ faults' = faults + 1
  /\ \/ \E f \in Writing(t) : dir' \in {dir, [dir EXCEPT ![f] = Partial]}
     \/ pc[t] = "remove" /\ names[t] = {} /\ UNCHANGED dir
  /\ queue' = (queue \/ t = "worker")
  /\ End(t)
  /\ quiet' = IF t = "primer" THEN quiet \cup Opaque ELSE quiet
  /\ UNCHANGED <<api, informer, upstreams, edits, crashes, raced>>

\* The sidecar is killed, maybe in the middle of a write, and starts again on
\* the volume it left.
Restart ==
  /\ crashes < MaxCrashes
  /\ crashes' = crashes + 1
  /\ \E cut \in SUBSET UNION {Writing(t) : t \in Threads} :
       dir' = [f \in Files |-> IF f \in cut THEN Partial ELSE dir[f]]
  /\ pc' = [t \in Threads |-> "idle"]
  /\ listed' = [t \in Threads |-> {}]
  /\ todo' = [t \in Threads |-> {}]
  /\ data' = [t \in Threads |-> Missing]
  /\ want' = [t \in Threads |-> {}]
  /\ names' = [t \in Threads |-> {}]
  /\ crefs' = refs /\ csecret' = secret
  /\ queue' = TRUE
  /\ skipped' = [t \in Threads |-> {}]
  /\ clean' = [t \in Threads |-> TRUE]
  /\ quiet' = {}
  /\ UNCHANGED <<api, upstreams, edits, faults, raced>>

-----------------------------------------------------------------------------
RenderStep(t) ==
  \/ Begin(t)
  \/ Get(t)
  \/ WriteKey(t)
  \/ WriteCrt(t)
  \/ ReadDir(t)
  \/ RemoveFile(t)
  \/ RemoveFails(t)
  \/ WriteUpstreams(t)

Next ==
  \/ \E s \in Stems : EditRefs(s) \/ EditSecret(s) \/ DeliverSecret(s)
  \/ DeliverRefs
  \/ \E t \in Threads : RenderStep(t) \/ Fail(t)
  \/ Restart

Spec == Init /\ [][Next]_vars

-----------------------------------------------------------------------------
(***************************************************************************)
(* A certificate the proxy can see has its key beside it, whichever write  *)
(* fails, wherever the sidecar is killed and in whatever order files are   *)
(* pruned, unless two renders were at the directory at once or a removal   *)
(* failed since the last clean render.                                     *)
(***************************************************************************)
KeyBesideCrt ==
  raced \/ \A s \in Stems : dir[<<s, "crt">>] # NoFile => dir[<<s, "key">>] # NoFile

Settled ==
  /\ crefs = refs /\ csecret = secret /\ ~queue
  /\ pc["worker"] = "idle" /\ pc["primer"] = "done"

\* What the directory should hold for a stem.
Content(s) == IF s \in refs /\ secret[s] \in Versions THEN secret[s] ELSE NoFile

(***************************************************************************)
(* Rotation and removal converge: when all is settled, the directory holds *)
(* the key and the certificate of the present version of every usable      *)
(* Secret referred to, and nothing else - whatever half-written pair or    *)
(* file an error or a crash has left, and except for Secrets whose events  *)
(* the watch filters out.                                                  *)
(***************************************************************************)
CertsConverge ==
  Settled /\ ~raced =>
    \A s \in Stems \ quiet : \A e \in {"crt", "key"} : dir[<<s, e>>] = Content(s)

(***************************************************************************)
(* The comments of certs.go and SetupWithManager say so of every TLS       *)
(* Secret that is referred to, and projectCerts takes one of any type: its *)
(* rotation would reach the directory with no other event.                 *)
(***************************************************************************)
RotationConverges ==
  Settled /\ ~raced =>
    \A s \in Stems : \A e \in {"crt", "key"} : dir[<<s, e>>] = Content(s)

Paired(s) == dir[<<s, "crt">>] \in Versions /\ dir[<<s, "crt">>] = dir[<<s, "key">>]

(***************************************************************************)
(* Certificates come first: when a clean render writes the upstreams file, *)
(* every certificate it binds a host to is in the directory, with the key  *)
(* of the same version, or was skipped for want of a usable Secret.        *)
(***************************************************************************)
CertsBeforeUpstreams ==
  [][\A t \in Threads :
       upstreams' # upstreams /\ Rendering(t) /\ ~Rendering(t)' /\ clean[t] =>
         \A s \in upstreams' : Paired(s) \/ s \in skipped[t]]_vars
=============================================================================
