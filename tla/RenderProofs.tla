---------------------------- MODULE RenderProofs ----------------------------
(***************************************************************************)
(* Proofs about Render, for every set of well-formed clusters.             *)
(*                                                                         *)
(* The table: whatever the claims are and in whatever order, the methods   *)
(* of the render model keep it sound (SingleEmission, FirstWriterStays).   *)
(* The claims: those of any well-formed cluster, listed in any order, come *)
(* in the order of precedence and are complete for certificates            *)
(* (ClaimsOrdered, ClaimsBind), and the servers of their routes serve      *)
(* (BackendServes, RuleServes).  The render: after n claims the table      *)
(* holds exactly what the first of each left in it (Applied), and the file *)
(* says what the table holds (EmitSays); from there FirstClaimWins,        *)
(* SchemaAgnostic, CertOfHost and ServersServe.                            *)
(*                                                                         *)
(* Two renders of one cluster: their lists of claims are the same but for  *)
(* the order of the Gateways' certificates (ClaimsAlike), so their runs    *)
(* leave tables that differ at most in certificates (CoreSettled), and in  *)
(* those only where Gateways compete (RendersAgree); from there            *)
(* OutputIsStable.                                                         *)
(***************************************************************************)
EXTENDS Render, WellFoundedInduction, FiniteSetTheorems, TLAPS

-----------------------------------------------------------------------------
(***************************************************************************)
(* The methods of the render model.                                        *)
(***************************************************************************)
\* A render model is a record of these fields, whatever they hold.
IsModel(t) ==
  t = [hosts |-> t.hosts, passthroughHosts |-> t.passthroughHosts, hostCert |-> t.hostCert,
       certProjections |-> t.certProjections, acme |-> t.acme, sticky |-> t.sticky]

Exclusive(t) == TerminateHosts(t) \cap PassthroughHosts(t) = {}

\* g has every entry of f.
Keeps(f, g) == \A x \in DOMAIN f : x \in DOMAIN g /\ g[x] = f[x]

Grows(t, u) ==
  /\ Keeps(t.hosts, u.hosts)
  /\ Keeps(t.passthroughHosts, u.passthroughHosts)
  /\ Keeps(t.certProjections, u.certProjections)

\* What every method makes of a sound model.
SoundStep(t, u) == IsModel(u) /\ Exclusive(u) /\ Grows(t, u)

\* newRenderModel is empty.
LEMMA NewModelSound == IsModel(newRenderModel) /\ Exclusive(newRenderModel)
  BY DEF newRenderModel, Nothing, IsModel, Exclusive, TerminateHosts, PassthroughHosts

\* A Go map entry set only when the key is absent replaces nothing.
LEMMA PutNewKeeps ==
  ASSUME NEW f, NEW k, NEW v
  PROVE  Keeps(f, PutNew(f, k, v)) /\ DOMAIN PutNew(f, k, v) = DOMAIN f \cup {k}
  BY DEF Keeps, PutNew, Put

\* addCert changes neither routes nor passthrough hosts.
LEMMA AddCertSound ==
  ASSUME NEW t, NEW c, IsModel(t), Exclusive(t)
  PROVE  SoundStep(t, addCert(t, c))
  <1> DEFINE u == addCert(t, c)
  <1>1. CASE c.stem = <<>> \/ c.ns = <<>> \/ c.name = <<>>
    BY <1>1 DEF addCert, SoundStep, Grows, Keeps
  <1>2. CASE ~(c.stem = <<>> \/ c.ns = <<>> \/ c.name = <<>>)
    <2> DEFINE p == PutNew(t.certProjections, c.stem, [ns |-> c.ns, name |-> c.name])
               h == IF c.host = <<>> THEN t.hostCert ELSE PutNew(t.hostCert, c.host, c.stem)
    <2>1. u = [t EXCEPT !.certProjections = p, !.hostCert = h]
      BY <1>2 DEF addCert
    <2> HIDE DEF p, h
    <2>2. u = [hosts |-> t.hosts, passthroughHosts |-> t.passthroughHosts, hostCert |-> h,
               certProjections |-> p, acme |-> t.acme, sticky |-> t.sticky]
      BY <2>1 DEF IsModel
    <2>3. Keeps(t.certProjections, p)
      BY PutNewKeeps DEF p
    <2> HIDE DEF u
    <2>4. SoundStep(t, u)
      BY <2>2, <2>3 DEF SoundStep, IsModel, Exclusive, Grows, Keeps, TerminateHosts, PassthroughHosts
    <2> QED
      BY <2>4 DEF u
  <1> QED
    BY <1>1, <1>2

\* A route is only added under a key that is free, on a host that is not
\* passed through (addRoute and addRegexRoute).
LEMMA InsertSound ==
  ASSUME NEW t, NEW host, NEW key, NEW cfg, NEW sticky, IsModel(t), Exclusive(t)
  PROVE  SoundStep(t, Insert(t, host, key, cfg, sticky))
  <1> DEFINE u == Insert(t, host, key, cfg, sticky)
  <1>1. CASE host \in PassthroughHosts(t) \/ <<host, key>> \in DOMAIN t.hosts
    BY <1>1 DEF Insert, SoundStep, Grows, Keeps
  <1>2. CASE ~(host \in PassthroughHosts(t) \/ <<host, key>> \in DOMAIN t.hosts)
    <2> DEFINE g == Put(t.hosts, <<host, key>>, cfg)
               s == IF sticky THEN TRUE ELSE t.sticky
    <2>1. u = [t EXCEPT !.hosts = g, !.sticky = s]
      BY <1>2 DEF Insert
    <2>3. Keeps(t.hosts, g) /\ DOMAIN g = DOMAIN t.hosts \cup {<<host, key>>}
      BY <1>2 DEF Keeps, Put
    <2> HIDE DEF g, s
    <2>2. u = [hosts |-> g, passthroughHosts |-> t.passthroughHosts, hostCert |-> t.hostCert,
               certProjections |-> t.certProjections, acme |-> t.acme, sticky |-> s]
      BY <2>1 DEF IsModel
    <2> HIDE DEF u
    <2>4. IsModel(u) /\ Grows(t, u)
      BY <2>2, <2>3 DEF IsModel, Grows, Keeps
    <2>5. Exclusive(u)
      <3>1. TerminateHosts(u) \subseteq TerminateHosts(t) \cup {host}
        BY <2>2, <2>3 DEF TerminateHosts
      <3>2. PassthroughHosts(u) = PassthroughHosts(t)
        BY <2>2 DEF PassthroughHosts
      <3> QED
        BY <1>2, <3>1, <3>2 DEF Exclusive
    <2> QED
      BY <2>4, <2>5 DEF SoundStep, u
  <1> QED
    BY <1>1, <1>2

\* A host is only passed through when it has no routes.
LEMMA AddPassthroughSound ==
  ASSUME NEW t, NEW c, IsModel(t), Exclusive(t)
  PROVE  SoundStep(t, addPassthroughHost(t, c))
  <1> DEFINE u == addPassthroughHost(t, c)
  <1>1. CASE c.host = <<>> \/ c.upstream = None \/ c.host \in TerminateHosts(t)
    BY <1>1 DEF addPassthroughHost, SoundStep, Grows, Keeps
  <1>2. CASE ~(c.host = <<>> \/ c.upstream = None \/ c.host \in TerminateHosts(t))
    <2> DEFINE p == PutNew(t.passthroughHosts, c.host, c.upstream)
    <2>1. u = [t EXCEPT !.passthroughHosts = p]
      BY <1>2 DEF addPassthroughHost
    <2>3. Keeps(t.passthroughHosts, p) /\ DOMAIN p = DOMAIN t.passthroughHosts \cup {c.host}
      BY PutNewKeeps
    <2> HIDE DEF p
    <2>2. u = [hosts |-> t.hosts, passthroughHosts |-> p, hostCert |-> t.hostCert,
               certProjections |-> t.certProjections, acme |-> t.acme, sticky |-> t.sticky]
      BY <2>1 DEF IsModel
    <2> HIDE DEF u
    <2>4. IsModel(u) /\ Grows(t, u)
      BY <2>2, <2>3 DEF IsModel, Grows, Keeps
    <2>5. Exclusive(u)
      <3>1. TerminateHosts(u) = TerminateHosts(t)
        BY <2>2 DEF TerminateHosts
      <3>2. PassthroughHosts(u) = PassthroughHosts(t) \cup {c.host}
        BY <2>2, <2>3 DEF PassthroughHosts
      <3> QED
        BY <1>2, <3>1, <3>2 DEF Exclusive
    <2> QED
      BY <2>4, <2>5 DEF SoundStep, u
  <1> QED
    BY <1>1, <1>2

\* claimAcme and the sticky flag touch none of it.
LEMMA ApplySound ==
  ASSUME NEW t, NEW c, IsModel(t), Exclusive(t)
  PROVE  SoundStep(t, Apply(t, c))
  <1>1. CASE c.kind = "cert"
    BY <1>1, AddCertSound DEF Apply
  <1>2. CASE c.kind = "route"
    <2>1. Apply(t, c) = Insert(t, c.host, pathKey(c.path), c.cfg, c.sticky)
      BY <1>2 DEF Apply, addRoute
    <2> QED
      BY <2>1, InsertSound
  <1>3. CASE c.kind = "regex"
    <2> DEFINE cfg == [c.cfg EXCEPT !.expr = pathRegexExpr(c.regex)]
    <2>1. Apply(t, c) = Insert(t, c.host, regexRouteKey(c.regex), cfg, c.sticky)
      BY <1>3 DEF Apply, addRegexRoute
    <2> HIDE DEF cfg
    <2> QED
      BY <2>1, InsertSound
  <1>4. CASE c.kind = "pass"
    BY <1>4, AddPassthroughSound DEF Apply
  <1>5. CASE c.kind = "acme"
    <2>1. Apply(t, c) = IF t.acme = None THEN [t EXCEPT !.acme = c.upstream] ELSE t
      BY <1>5 DEF Apply, claimAcme
    <2> QED
      BY <2>1 DEF SoundStep, IsModel, Exclusive, Grows, Keeps, TerminateHosts, PassthroughHosts
  <1>6. CASE c.kind \notin {"cert", "route", "regex", "pass", "acme"}
    <2>1. Apply(t, c) = [t EXCEPT !.sticky = TRUE]
      BY <1>6 DEF Apply
    <2> QED
      BY <2>1 DEF SoundStep, IsModel, Exclusive, Grows, Keeps, TerminateHosts, PassthroughHosts
  <1> QED
    BY <1>1, <1>2, <1>3, <1>4, <1>5, <1>6

-----------------------------------------------------------------------------
(***************************************************************************)
(* The table, whatever the claims.                                         *)
(***************************************************************************)
\* The inductive invariant: SingleEmission, and the shape of the table that
\* the methods need to update one field and leave the others.
TableSound == IsModel(m) /\ SingleEmission

\* Claim applies one claim, Begin starts from a new model, Emit only reads.
LEMMA StepSound ==
  ASSUME TableSound, [Next]_vars
  PROVE  TableSound' /\ (next # 0 /\ m' # m => Grows(m, m'))
  <1>0. IsModel(m) /\ Exclusive(m)
    BY DEF TableSound, SingleEmission, Exclusive
  <1>1. CASE Begin
    BY <1>1, NewModelSound DEF Begin, TableSound, SingleEmission, Exclusive, IsModel,
                               TerminateHosts, PassthroughHosts
  <1>2. CASE Claim
    <2>1. SoundStep(m, m')
      BY <1>0, <1>2, ApplySound DEF Claim
    <2> QED
      BY <2>1 DEF SoundStep, TableSound, SingleEmission, Exclusive, IsModel,
                  TerminateHosts, PassthroughHosts
  <1>3. CASE m' = m
    BY <1>3 DEF TableSound, SingleEmission, IsModel, TerminateHosts, PassthroughHosts
  <1> QED
    BY <1>1, <1>2, <1>3 DEF Next, Emit, vars

\* No host is both terminated and passed through at any point of a render,
\* whatever the cluster holds: renderUpstreamsV2 writes no host twice.
THEOREM SingleEmissionHolds == Spec => []SingleEmission
  <1>1. Init => TableSound
    BY NewModelSound DEF Init, TableSound, SingleEmission, Exclusive
  <1>2. TableSound /\ [Next]_vars => TableSound'
    BY StepSound
  <1>3. TableSound => SingleEmission
    BY DEF TableSound
  <1> QED
    BY <1>1, <1>2, <1>3, PTL DEF Spec

\* First writer wins: no later claim of a render replaces or removes a route,
\* a passthrough host or a projected Secret, whatever the cluster holds.
THEOREM FirstWriterStaysHolds == Spec => FirstWriterStays
  <1> DEFINE Stay ==
        next # 0 =>
          /\ \A hk \in DOMAIN m.hosts : hk \in DOMAIN m'.hosts /\ m'.hosts[hk] = m.hosts[hk]
          /\ \A h \in PassthroughHosts(m) :
               h \in PassthroughHosts(m') /\ m'.passthroughHosts[h] = m.passthroughHosts[h]
          /\ \A s \in DOMAIN m.certProjections :
               s \in DOMAIN m'.certProjections /\ m'.certProjections[s] = m.certProjections[s]
  <1>1. Init => TableSound
    BY NewModelSound DEF Init, TableSound, SingleEmission, Exclusive
  <1>2. TableSound /\ [Next]_vars => TableSound'
    BY StepSound
  <1>3. TableSound /\ [Next]_vars => [Stay]_vars
    <2> SUFFICES ASSUME TableSound, [Next]_vars, next # 0 PROVE Stay
      OBVIOUS
    <2>1. CASE m' = m
      BY <2>1 DEF PassthroughHosts
    <2>2. CASE m' # m
      BY <2>2, StepSound DEF Grows, Keeps, PassthroughHosts
    <2> QED
      BY <2>1, <2>2
  <1> QED
    BY <1>1, <1>2, <1>3, PTL DEF Spec, FirstWriterStays

-----------------------------------------------------------------------------
(***************************************************************************)
(* Sequences: what FlattenSeq, SetToSeqs and ById return.                  *)
(***************************************************************************)
\* Induction over the naturals, on the set of those that have the property.
LEMMA NatInd ==
  ASSUME NEW T, 0 \in T, \A n \in Nat : n \in T => n + 1 \in T
  PROVE  Nat \subseteq T
<1> DEFINE S == Nat \ T
           R == {ss \in Nat \X Nat : ss[1] < ss[2]}
<1>1. IsWellFoundedOn(R, Nat)
  BY NatLessThanWellFounded DEF OpToRel
<1>2. \A p, q \in Nat : p < q => <<p, q>> \in R
  OBVIOUS
<1>3. ASSUME S # {} PROVE FALSE
  <2> HIDE DEF R
  <2>1. PICK n \in S : \A p \in S : ~(<<p, n>> \in R)
    BY <1>1, <1>3, WFMin
  <2>2. n \in Nat /\ n # 0 /\ n \notin T
    BY <2>1
  <2>3. n - 1 \in Nat /\ n - 1 < n
    BY <2>2
  <2>4. n - 1 \in T
    BY <1>2, <2>1, <2>2, <2>3
  <2>5. (n - 1) + 1 \in T
    BY <2>3, <2>4
  <2> QED
    BY <2>2, <2>5
<1> QED
  BY <1>3

\* A set of numbers has a least one.
LEMMA Least ==
  ASSUME NEW S, S \subseteq Nat, S # {}
  PROVE  \E i \in S : \A j \in S : i <= j
<1> SUFFICES ASSUME \A i \in S : \E j \in S : ~(i <= j) PROVE FALSE
  OBVIOUS
<1> DEFINE T == {n \in Nat : \A i \in S : i >= n}
<1>1. 0 \in T
  OBVIOUS
<1>2. ASSUME NEW n \in Nat, n \in T PROVE n + 1 \in T
  <2>1. ASSUME n \in S PROVE FALSE
    <3>1. PICK j \in S : ~(n <= j)
      BY <2>1
    <3> QED
      BY <1>2, <3>1
  <2>2. \A i \in S : i >= n /\ i # n
    BY <1>2, <2>1
  <2>3. \A i \in S : i >= n + 1
    BY <2>2
  <2> QED
    BY <2>3
<1>3. Nat \subseteq T
  <2> HIDE DEF T
  <2> QED
    BY <1>1, <1>2, NatInd
<1>4. PICK i \in S : TRUE
  OBVIOUS
<1>5. i + 1 \in T
  BY <1>3, <1>4
<1> QED
  BY <1>5

\* FlattenSeq is what its recursion says.
LEMMA FlattenRec ==
  ASSUME NEW ss, Len(ss) \in Nat \ {0}
  PROVE  \E g : /\ g = [i \in 1..Len(ss) |-> IF i = 1 THEN ss[i] ELSE g[i-1] \o ss[i]]
                /\ FlattenSeq(ss) = g[Len(ss)]
<1> DEFINE T == {n \in Nat : \E f : f = [i \in 1..n |-> IF i = 1 THEN ss[i] ELSE f[i-1] \o ss[i]]}
<1>1. 0 \in T
  <2> DEFINE e == [i \in 1..0 |-> 0]
  <2>1. e = [i \in 1..0 |-> IF i = 1 THEN ss[i] ELSE e[i-1] \o ss[i]]
    OBVIOUS
  <2> QED
    BY <2>1
<1>2. ASSUME NEW n \in Nat, n \in T PROVE n + 1 \in T
  <2>1. PICK f : f = [i \in 1..n |-> IF i = 1 THEN ss[i] ELSE f[i-1] \o ss[i]]
    BY <1>2
  <2> DEFINE e == [i \in 1..n+1 |-> IF i = n+1 THEN IF i = 1 THEN ss[i] ELSE f[n] \o ss[i] ELSE f[i]]
  <2>2. ASSUME NEW i \in 1..n+1 PROVE e[i] = IF i = 1 THEN ss[i] ELSE e[i-1] \o ss[i]
    <3>1. CASE i = n + 1 /\ i # 1
      <4>1. i - 1 = n /\ n \in 1..n+1 /\ n # n + 1
        BY <3>1
      <4> QED
        BY <3>1, <4>1
    <3>2. CASE i = n + 1 /\ i = 1
      BY <3>2
    <3>3. CASE i # n + 1
      <4>1. i \in 1..n /\ (i # 1 => i - 1 \in 1..n+1 /\ i - 1 # n + 1)
        BY <3>3
      <4>2. e[i] = f[i] /\ (i # 1 => e[i-1] = f[i-1])
        BY <3>3, <4>1
      <4>3. f[i] = IF i = 1 THEN ss[i] ELSE f[i-1] \o ss[i]
        BY <2>1, <4>1
      <4> QED
        BY <4>2, <4>3
    <3> QED
      BY <3>1, <3>2, <3>3
  <2>3. e = [i \in 1..n+1 |-> IF i = 1 THEN ss[i] ELSE e[i-1] \o ss[i]]
    <3>1. e = [i \in 1..n+1 |-> e[i]]
      OBVIOUS
    <3> HIDE DEF e
    <3> QED
      BY <2>2, <3>1
  <2> HIDE DEF e
  <2>4. \E h : h = [i \in 1..n+1 |-> IF i = 1 THEN ss[i] ELSE h[i-1] \o ss[i]]
    BY <2>3, Zenon
  <2>5. n + 1 \in Nat
    OBVIOUS
  <2> QED
    BY <2>4, <2>5, Zenon
<1>3. Len(ss) \in T
  <2> HIDE DEF T
  <2>1. \A n \in Nat : n \in T => n + 1 \in T
    BY <1>2
  <2>2. Nat \subseteq T
    BY <1>1, <2>1, NatInd
  <2> QED
    BY <2>2
<1> DEFINE g[i \in 1..Len(ss)] == IF i = 1 THEN ss[i] ELSE g[i-1] \o ss[i]
<1>4. g = [i \in 1..Len(ss) |-> IF i = 1 THEN ss[i] ELSE g[i-1] \o ss[i]]
  BY <1>3
<1>5. FlattenSeq(ss) = g[Len(ss)]
  BY DEF FlattenSeq
<1> QED
  BY <1>4, <1>5

\* What a sequence is made of.
LEMMA SeqFacts ==
  ASSUME NEW s, IsSeq(s)
  PROVE  /\ Len(s) \in Nat /\ DOMAIN s = 1..Len(s)
         /\ s = [p \in 1..Len(s) |-> s[p]]
         /\ \A p \in 1..Len(s) : s[p] \in ToSet(s)
  BY DEF IsSeq, ToSet

\* The elements of a list.
LEMMA SetIndexed ==
  ASSUME NEW s, IsSeq(s)
  PROVE  /\ Len(s) \in Nat /\ DOMAIN s = 1..Len(s)
         /\ \A i \in 1..Len(s) : s[i] \in ToSet(s)
         /\ \A x \in ToSet(s) : \E i \in 1..Len(s) : x = s[i]
<1>1. Len(s) \in Nat /\ DOMAIN s = 1..Len(s)
  BY SeqFacts
<1> QED
  BY <1>1 DEF ToSet

\* A function on 1..n is a sequence.
LEMMA SeqIntro ==
  ASSUME NEW s, NEW n \in Nat, DOMAIN s = 1..n, s = [p \in 1..n |-> s[p]]
  PROVE  IsSeq(s) /\ Len(s) = n
<1>1. \A p \in 1..n : s[p] \in ToSet(s)
  BY DEF ToSet
<1> DEFINE S == ToSet(s)
<1> HIDE DEF S
<1>2. s \in [1..n -> S]
  BY <1>1 DEF S
<1>3. s \in Seq(S) /\ Len(s) = n
  BY <1>2
<1> QED
  BY <1>3 DEF IsSeq, S

\* Concatenation.
LEMMA ConcatFacts ==
  ASSUME NEW f, NEW s, IsSeq(f), IsSeq(s)
  PROVE  /\ IsSeq(f \o s) /\ Len(f \o s) = Len(f) + Len(s)
         /\ \A p \in 1..Len(f) : (f \o s)[p] = f[p]
         /\ \A p \in 1..Len(s) : (f \o s)[Len(f) + p] = s[p]
         /\ \A p \in 1..Len(f \o s) : p > Len(f) => p - Len(f) \in 1..Len(s) /\ (f \o s)[p] = s[p - Len(f)]
         /\ ToSet(f \o s) = ToSet(f) \cup ToSet(s)
<1> DEFINE S == ToSet(f) \cup ToSet(s)
<1>1. f \in Seq(S) /\ s \in Seq(S)
  BY DEF IsSeq
<1> HIDE DEF S
<1>2. /\ f \o s \in Seq(S) /\ Len(f \o s) = Len(f) + Len(s)
      /\ Len(f) \in Nat /\ Len(s) \in Nat
      /\ DOMAIN f = 1..Len(f) /\ DOMAIN s = 1..Len(s) /\ DOMAIN (f \o s) = 1..Len(f \o s)
  BY <1>1
<1>3. \A p \in 1..Len(f) : (f \o s)[p] = f[p]
  BY <1>1
<1>4. \A p \in 1..Len(f \o s) : p > Len(f) => p - Len(f) \in 1..Len(s) /\ (f \o s)[p] = s[p - Len(f)]
  BY <1>1, <1>2
<1>5. \A p \in 1..Len(s) : (f \o s)[Len(f) + p] = s[p]
  <2> TAKE p \in 1..Len(s)
  <2>1. Len(f) + p \in 1..Len(f \o s) /\ Len(f) + p > Len(f) /\ (Len(f) + p) - Len(f) = p
    BY <1>2
  <2> QED
    BY <1>4, <2>1
<1>6. ToSet(f \o s) = ToSet(f) \cup ToSet(s)
  <2> DEFINE h == f \o s
             n == Len(f)
             q == Len(s)
  <2>1. DOMAIN h = 1..(n + q) /\ DOMAIN f = 1..n /\ DOMAIN s = 1..q /\ n \in Nat /\ q \in Nat
    BY <1>2
  <2>2. \A p \in 1..n : h[p] = f[p] /\ p \in 1..(n + q)
    BY <1>3, <2>1
  <2>3. \A p \in 1..q : h[n + p] = s[p] /\ n + p \in 1..(n + q)
    BY <1>5, <2>1
  <2>4. \A p \in 1..(n + q) : p \in 1..n \/ (p - n \in 1..q /\ h[p] = s[p - n])
    BY <1>2, <1>4, <2>1
  <2> HIDE DEF h, n, q
  <2>5. ToSet(h) \subseteq ToSet(f) \cup ToSet(s)
    BY <2>1, <2>2, <2>4 DEF ToSet
  <2>6. ToSet(f) \subseteq ToSet(h)
    BY <2>1, <2>2 DEF ToSet
  <2>7. ToSet(s) \subseteq ToSet(h)
    BY <2>1, <2>3 DEF ToSet
  <2> QED
    BY <2>5, <2>6, <2>7 DEF h
<1>7. IsSeq(f \o s)
  <2> DEFINE h == f \o s
  <2>1. h \in Seq(S)
    BY <1>2
  <2> HIDE DEF h
  <2>2. Len(h) \in Nat /\ DOMAIN h = 1..Len(h) /\ h = [p \in 1..Len(h) |-> h[p]]
    BY <2>1
  <2>3. IsSeq(h)
    BY <2>2, SeqIntro
  <2> QED
    BY <2>3 DEF h
<1> QED
  BY <1>2, <1>3, <1>4, <1>5, <1>6, <1>7

\* f is the first k of ss, one after the other: every element of f is of one
\* of them, of a later one the further on it is, and all of them are in f.
FlatOf(f, ss, k) ==
  /\ IsSeq(f)
  /\ \E from \in [1..Len(f) -> 1..k] :
        /\ \A p, q \in 1..Len(f) : p <= q => from[p] <= from[q]
        /\ \A p \in 1..Len(f) : f[p] \in ToSet(ss[from[p]])
  /\ \A i \in 1..k : ToSet(ss[i]) \subseteq ToSet(f)

\* The first of the lists joined.
LEMMA FlatOne ==
  ASSUME NEW ss, IsSeq(ss[1])
  PROVE  FlatOf(ss[1], ss, 1)
<1> DEFINE f == ss[1]
           from == [p \in 1..Len(f) |-> 1]
<1>1. \A p \in 1..Len(f) : f[p] \in ToSet(f)
  BY SeqFacts
<1>2. /\ from \in [1..Len(f) -> 1..1]
      /\ \A p, q \in 1..Len(f) : p <= q => from[p] <= from[q]
      /\ \A p \in 1..Len(f) : f[p] \in ToSet(ss[from[p]])
  BY <1>1
<1>3. \A i \in 1..1 : ToSet(ss[i]) \subseteq ToSet(f)
  OBVIOUS
<1> QED
  BY <1>2, <1>3 DEF FlatOf

\* One more list joined.
LEMMA FlatMore ==
  ASSUME NEW ss, NEW k \in Nat, NEW f, FlatOf(f, ss, k), IsSeq(ss[k + 1])
  PROVE  FlatOf(f \o ss[k + 1], ss, k + 1)
<1> DEFINE s == ss[k + 1]
           h == f \o s
<1>1. IsSeq(f) /\ IsSeq(s)
  BY DEF FlatOf
<1>2. PICK from \in [1..Len(f) -> 1..k] :
        /\ \A p, q \in 1..Len(f) : p <= q => from[p] <= from[q]
        /\ \A p \in 1..Len(f) : f[p] \in ToSet(ss[from[p]])
  BY DEF FlatOf
<1>3. Len(f) \in Nat /\ Len(s) \in Nat /\ \A p \in 1..Len(s) : s[p] \in ToSet(s)
  BY <1>1, SeqFacts
<1>4. /\ IsSeq(h) /\ Len(h) = Len(f) + Len(s)
      /\ \A p \in 1..Len(f) : h[p] = f[p]
      /\ \A p \in 1..Len(h) : p > Len(f) => p - Len(f) \in 1..Len(s) /\ h[p] = s[p - Len(f)]
      /\ ToSet(h) = ToSet(f) \cup ToSet(s)
  BY <1>1, ConcatFacts
<1> DEFINE to == [p \in 1..Len(h) |-> IF p <= Len(f) THEN from[p] ELSE k + 1]
<1> HIDE DEF s, h
<1>5. to \in [1..Len(h) -> 1..k+1]
  BY <1>2, <1>3, <1>4
<1>6. \A p, q \in 1..Len(h) : p <= q => to[p] <= to[q]
  BY <1>2, <1>3, <1>4
<1>7. ASSUME NEW p \in 1..Len(h) PROVE h[p] \in ToSet(ss[to[p]])
  <2>1. CASE p <= Len(f)
    <3>1. p \in 1..Len(f)
      BY <1>3, <1>4, <2>1
    <3> QED
      BY <1>2, <1>4, <2>1, <3>1
  <2>2. CASE ~(p <= Len(f))
    <3>1. p - Len(f) \in 1..Len(s) /\ h[p] = s[p - Len(f)]
      BY <1>3, <1>4, <2>2
    <3>2. to[p] = k + 1
      BY <2>2
    <3> QED
      BY <1>3, <3>1, <3>2 DEF s
  <2> QED
    BY <2>1, <2>2
<1>8. ASSUME NEW i \in 1..k+1 PROVE ToSet(ss[i]) \subseteq ToSet(h)
  <2>1. CASE i = k + 1
    BY <1>4, <2>1 DEF s
  <2>2. CASE i \in 1..k
    BY <1>4, <2>2 DEF FlatOf
  <2> QED
    BY <2>1, <2>2
<1> HIDE DEF to
<1>9. FlatOf(h, ss, k + 1)
  BY <1>4, <1>5, <1>6, <1>7, <1>8 DEF FlatOf
<1> QED
  BY <1>9 DEF h, s

\* FlattenSeq joins its parts in their order.
LEMMA FlattenFacts ==
  ASSUME NEW ss, IsSeq(ss), \A i \in DOMAIN ss : IsSeq(ss[i])
  PROVE  FlatOf(FlattenSeq(ss), ss, Len(ss))
<1>1. Len(ss) \in Nat /\ DOMAIN ss = 1..Len(ss)
  BY SeqFacts
<1>2. CASE Len(ss) = 0
  <2>1. FlattenSeq(ss) = ss
    BY <1>2 DEF FlattenSeq
  <2> DEFINE e == [p \in 1..0 |-> 1]
  <2>2. e \in [1..0 -> 1..0]
    OBVIOUS
  <2>3. \A p, q \in 1..0 : FALSE
    OBVIOUS
  <2> HIDE DEF e
  <2> QED
    BY <1>1, <1>2, <2>1, <2>2, <2>3 DEF FlatOf
<1>3. CASE Len(ss) # 0
  <2>1. PICK g : /\ g = [i \in 1..Len(ss) |-> IF i = 1 THEN ss[i] ELSE g[i-1] \o ss[i]]
                 /\ FlattenSeq(ss) = g[Len(ss)]
    BY <1>1, <1>3, FlattenRec
  <2> DEFINE T == {n \in Nat : n + 1 \in 1..Len(ss) => FlatOf(g[n + 1], ss, n + 1)}
  <2>2. 0 \in T
    <3>1. g[1] = ss[1] /\ IsSeq(ss[1])
      BY <1>1, <1>3, <2>1
    <3>2. FlatOf(g[1], ss, 1)
      BY <3>1, FlatOne
    <3> QED
      BY <3>2
  <2>3. ASSUME NEW n \in Nat, n \in T PROVE n + 1 \in T
    <3>1. SUFFICES ASSUME (n + 1) + 1 \in 1..Len(ss) PROVE FlatOf(g[(n + 1) + 1], ss, (n + 1) + 1)
      OBVIOUS
    <3> DEFINE k == n + 1
    <3>2. k \in Nat /\ k \in 1..Len(ss) /\ k + 1 \in 1..Len(ss) /\ k + 1 # 1 /\ (k + 1) - 1 = k
      BY <1>1, <3>1
    <3>3. FlatOf(g[k], ss, k)
      BY <2>3, <3>2
    <3> HIDE DEF k
    <3>4. g[k + 1] = g[k] \o ss[k + 1]
      BY <2>1, <3>2
    <3>5. IsSeq(ss[k + 1])
      BY <1>1, <3>2
    <3>6. FlatOf(g[k + 1], ss, k + 1)
      BY <3>2, <3>3, <3>4, <3>5, FlatMore
    <3> QED
      BY <3>6 DEF k
  <2>4. Nat \subseteq T
    <3> HIDE DEF T
    <3>1. \A n \in Nat : n \in T => n + 1 \in T
      BY <2>3
    <3> QED
      BY <2>2, <3>1, NatInd
  <2>5. Len(ss) - 1 \in Nat /\ (Len(ss) - 1) + 1 = Len(ss) /\ Len(ss) \in 1..Len(ss)
    BY <1>1, <1>3
  <2> QED
    BY <2>1, <2>4, <2>5
<1> QED
  BY <1>2, <1>3

\* A list of a finite set is a sequence of all its elements.
LEMMA ListFacts ==
  ASSUME NEW S, IsFiniteSet(S), NEW f \in SetToSeqs(S)
  PROVE  IsSeq(f) /\ ToSet(f) = S
<1> DEFINE n == Cardinality(S)
<1>1. n \in Nat
  BY FS_CardinalityType
<1>2. f \in [1..n -> S] /\ \A i, j \in 1..n : i # j => f[i] # f[j]
  BY DEF SetToSeqs
<1>3. f \in Injection(1..n, S)
  BY <1>2 DEF Injection, IsInjective
<1>4. IsFiniteSet(1..n) /\ Cardinality(1..n) = n
  BY <1>1, FS_Interval
<1>5. f \in Surjection(1..n, S)
  <2> DEFINE D == 1..n
  <2> HIDE DEF D
  <2>1. f \in Injection(D, S) /\ Cardinality(D) = Cardinality(S)
    BY <1>3, <1>4 DEF D
  <2>2. f \in Surjection(D, S)
    BY <2>1, FS_Injection
  <2> QED
    BY <2>2 DEF D
<1> HIDE DEF n
<1>6. IsSeq(f)
  BY <1>1, <1>2, SeqIntro
<1>7. \A x \in S : \E i \in 1..n : f[i] = x
  BY <1>5 DEF Surjection
<1>8. ToSet(f) = S
  BY <1>2, <1>7 DEF ToSet
<1> QED
  BY <1>6, <1>8

Sorted(t) == \A i, j \in DOMAIN t : i < j => t[i].id < t[j].id

\* Objects that differ in their ids can be sorted: the place of each is the
\* number of those that are not after it.
LEMMA SortedExists ==
  ASSUME NEW S, IsFiniteSet(S), \A x \in S : x.id \in Nat,
         \A x, y \in S : x.id = y.id => x = y
  PROVE  \E t \in SetToSeqs(S) : Sorted(t)
<1> DEFINE n == Cardinality(S)
           To(x) == {y \in S : y.id <= x.id}
           rank == [x \in S |-> Cardinality(To(x))]
<1>1. n \in Nat /\ IsFiniteSet(1..n) /\ Cardinality(1..n) = n
  BY FS_CardinalityType, FS_Interval
<1>2. ASSUME NEW x \in S
      PROVE  IsFiniteSet(To(x)) /\ Cardinality(To(x)) \in 1..n
  <2>1. To(x) \in SUBSET S /\ x \in To(x)
    OBVIOUS
  <2> HIDE DEF To
  <2>2. IsFiniteSet(To(x)) /\ Cardinality(To(x)) <= n
    BY <2>1, FS_Subset
  <2>3. Cardinality(To(x)) \in Nat /\ Cardinality(To(x)) # 0
    BY <2>1, <2>2, FS_CardinalityType, FS_EmptySet
  <2> QED
    BY <1>1, <2>2, <2>3
<1>3. ASSUME NEW x \in S, NEW y \in S, x.id < y.id
      PROVE  Cardinality(To(x)) < Cardinality(To(y))
  <2>1. To(x) \in SUBSET To(y) /\ y \in To(y) /\ y \notin To(x)
    BY <1>3
  <2> HIDE DEF To
  <2>2. IsFiniteSet(To(y)) /\ Cardinality(To(y)) \in 1..n /\ Cardinality(To(x)) \in 1..n
    BY <1>2
  <2>3. Cardinality(To(x)) <= Cardinality(To(y)) /\ Cardinality(To(x)) # Cardinality(To(y))
    BY <2>1, <2>2, FS_Subset
  <2> QED
    BY <1>1, <2>2, <2>3
<1>4. rank \in [S -> 1..n] /\ \A x, y \in S : x.id < y.id => rank[x] < rank[y]
  <2> HIDE DEF To
  <2> QED
    BY <1>2, <1>3
<1> HIDE DEF rank, n, To
<1>5. \A x, y \in S : x # y => rank[x] # rank[y]
  <2> SUFFICES ASSUME NEW x \in S, NEW y \in S, x # y PROVE rank[x] # rank[y]
    OBVIOUS
  <2>1. x.id \in Nat /\ y.id \in Nat /\ x.id # y.id
    OBVIOUS
  <2>2. x.id < y.id \/ y.id < x.id
    BY <2>1
  <2>3. rank[x] \in 1..n /\ rank[y] \in 1..n /\ (rank[x] < rank[y] \/ rank[y] < rank[x])
    BY <1>4, <2>2
  <2> QED
    BY <1>1, <2>3
<1>6. rank \in Surjection(S, 1..n)
  <2> DEFINE D == 1..n
  <2>1. rank \in Injection(S, D) /\ IsFiniteSet(D) /\ Cardinality(S) = Cardinality(D)
    BY <1>1, <1>4, <1>5 DEF Injection, IsInjective, n
  <2> HIDE DEF D
  <2>2. rank \in Surjection(S, D)
    BY <2>1, FS_Injection
  <2> QED
    BY <2>2 DEF D
<1>7. \A p \in 1..n : \E x \in S : rank[x] = p
  BY <1>6 DEF Surjection
<1> DEFINE t == [p \in 1..n |-> CHOOSE x \in S : rank[x] = p]
<1>8. \A p \in 1..n : t[p] \in S /\ rank[t[p]] = p
  BY <1>7
<1>9. t \in [1..n -> S]
  BY <1>8
<1> HIDE DEF t
<1>10. t \in SetToSeqs(S)
  <2>1. \A i, j \in 1..n : i # j => t[i] # t[j]
    BY <1>8
  <2> QED
    BY <1>9, <2>1 DEF SetToSeqs, n
<1>11. Sorted(t)
  <2> SUFFICES ASSUME NEW i \in 1..n, NEW j \in 1..n, i < j PROVE t[i].id < t[j].id
    BY <1>9 DEF Sorted
  <2>1. t[i] \in S /\ t[j] \in S /\ rank[t[i]] = i /\ rank[t[j]] = j
    BY <1>8
  <2>2. t[i].id \in Nat /\ t[j].id \in Nat
    BY <2>1
  <2>3. t[i].id # t[j].id /\ ~(t[j].id < t[i].id)
    BY <1>1, <1>4, <2>1
  <2> QED
    BY <2>2, <2>3
<1> QED
  BY <1>10, <1>11

\* ById lists the same objects, by id.
LEMMA ByIdFacts ==
  ASSUME NEW S, IsFiniteSet(S), \A x \in S : x.id \in Nat,
         \A x, y \in S : x.id = y.id => x = y, NEW s \in SetToSeqs(S)
  PROVE  IsSeq(ById(s)) /\ ToSet(ById(s)) = S /\ Sorted(ById(s))
<1>1. ToSet(s) = S
  BY ListFacts
<1>2. \E t \in SetToSeqs(S) : Sorted(t)
  BY SortedExists
<1>3. ById(s) \in SetToSeqs(S) /\ Sorted(ById(s))
  BY <1>1, <1>2 DEF ById, Sorted
<1> QED
  BY <1>3, ListFacts

\* The parts of a sequence that is joined, by element.
LEMMA JoinSeq ==
  ASSUME NEW ss, IsSeq(ss), \A i \in DOMAIN ss : IsSeq(ss[i])
  PROVE  /\ IsSeq(FlattenSeq(ss))
         /\ \A x \in ToSet(FlattenSeq(ss)) : \E i \in DOMAIN ss : x \in ToSet(ss[i])
         /\ \A i \in DOMAIN ss : ToSet(ss[i]) \subseteq ToSet(FlattenSeq(ss))
<1> DEFINE f == FlattenSeq(ss)
<1>1. FlatOf(f, ss, Len(ss))
  BY FlattenFacts
<1>2. DOMAIN ss = 1..Len(ss)
  BY SeqFacts
<1> HIDE DEF f
<1>3. IsSeq(f) /\ \A i \in 1..Len(ss) : ToSet(ss[i]) \subseteq ToSet(f)
  BY <1>1 DEF FlatOf
<1>4. DOMAIN f = 1..Len(f)
  BY <1>3, SeqFacts
<1>5. ASSUME NEW x \in ToSet(f) PROVE \E i \in 1..Len(ss) : x \in ToSet(ss[i])
  <2>1. PICK p \in 1..Len(f) : x = f[p]
    BY <1>4, <1>5 DEF ToSet
  <2>2. PICK from \in [1..Len(f) -> 1..Len(ss)] : \A q \in 1..Len(f) : f[q] \in ToSet(ss[from[q]])
    BY <1>1 DEF FlatOf
  <2>3. from[p] \in 1..Len(ss) /\ x \in ToSet(ss[from[p]])
    BY <2>1, <2>2
  <2> QED
    BY <2>3
<1> QED
  BY <1>2, <1>3, <1>5 DEF f

\* A sequence with one element for each of another.
LEMMA MapSeq ==
  ASSUME NEW s, IsSeq(s), NEW g, g = [i \in DOMAIN s |-> g[i]]
  PROVE  IsSeq(g) /\ DOMAIN g = DOMAIN s /\ Len(g) = Len(s)
<1>1. Len(s) \in Nat /\ DOMAIN s = 1..Len(s)
  BY SeqFacts
<1>2. DOMAIN g = 1..Len(s) /\ g = [i \in 1..Len(s) |-> g[i]]
  BY <1>1
<1> QED
  BY <1>1, <1>2, SeqIntro

\* The empty list.
LEMMA NilSeq == \A s : s = <<>> => IsSeq(s) /\ ToSet(s) = {}
<1> SUFFICES ASSUME NEW s, s = <<>> PROVE IsSeq(s) /\ ToSet(s) = {}
  OBVIOUS
<1>1. DOMAIN s = {} /\ \A S : s \in Seq(S)
  OBVIOUS
<1>2. ToSet(s) = {}
  BY <1>1 DEF ToSet
<1>3. IsSeq(s)
  BY <1>1 DEF IsSeq
<1> QED
  BY <1>2, <1>3

\* A list of one.
LEMMA OneSeq ==
  ASSUME NEW x
  PROVE  IsSeq(<<x>>) /\ ToSet(<<x>>) = {x}
<1>1. DOMAIN <<x>> = 1..1 /\ <<x>>[1] = x
  OBVIOUS
<1>2. ToSet(<<x>>) = {x}
  BY <1>1 DEF ToSet
<1> QED
  BY <1>2 DEF IsSeq

\* The elements of a list.
LEMMA ElemIn ==
  ASSUME NEW s, IsSeq(s), NEW i \in DOMAIN s
  PROVE  s[i] \in ToSet(s)
  BY DEF ToSet

\* Drop leaves the elements that are not in bad.
LEMMA DropFacts ==
  ASSUME NEW s, IsSeq(s), NEW bad
  PROVE  IsSeq(Drop(s, bad)) /\ ToSet(Drop(s, bad)) = ToSet(s) \ bad
<1> DEFINE ss == [i \in DOMAIN s |-> IF s[i] \in bad THEN <<>> ELSE <<s[i]>>]
<1>1. Drop(s, bad) = FlattenSeq(ss)
  BY DEF Drop, Collect
<1>2. \A i \in DOMAIN s : IsSeq(ss[i]) /\ ToSet(ss[i]) = {s[i]} \ bad
  <2> TAKE i \in DOMAIN s
  <2>1. CASE s[i] \in bad
    <3>1. ss[i] = <<>>
      BY <2>1
    <3> HIDE DEF ss
    <3> QED
      BY <2>1, <3>1, NilSeq
  <2>2. CASE s[i] \notin bad
    <3>1. ss[i] = <<s[i]>>
      BY <2>2
    <3> HIDE DEF ss
    <3> QED
      BY <2>2, <3>1, OneSeq
  <2> QED
    BY <2>1, <2>2
<1>3. IsSeq(ss) /\ DOMAIN ss = DOMAIN s
  <2>1. ss = [i \in DOMAIN s |-> ss[i]]
    OBVIOUS
  <2> HIDE DEF ss
  <2> QED
    BY <2>1, MapSeq
<1> HIDE DEF ss
<1>4. /\ IsSeq(FlattenSeq(ss))
      /\ \A x \in ToSet(FlattenSeq(ss)) : \E i \in DOMAIN ss : x \in ToSet(ss[i])
      /\ \A i \in DOMAIN ss : ToSet(ss[i]) \subseteq ToSet(FlattenSeq(ss))
  BY <1>2, <1>3, JoinSeq
<1> QED
  BY <1>1, <1>2, <1>3, <1>4 DEF ToSet

-----------------------------------------------------------------------------
(***************************************************************************)
(* Listings: a sequence with one element for each member of a set.         *)
(***************************************************************************)
\* f has one element for each member x of O, and it is V[x].
ListedBy(f, O, V, b) ==
  /\ b \in [1..Len(f) -> O]
  /\ \A p, q \in 1..Len(f) : b[p] = b[q] => p = q
  /\ \A x \in O : \E p \in 1..Len(f) : b[p] = x
  /\ \A p \in 1..Len(f) : f[p] = V[b[p]]

IsListing(f, O, V) == IsSeq(f) /\ \E b : ListedBy(f, O, V, b)

\* The empty sequence lists the empty set.
LEMMA NilListing == \A f, V : f = <<>> => IsListing(f, {}, V)
<1> SUFFICES ASSUME NEW f, NEW V, f = <<>> PROVE IsListing(f, {}, V)
  OBVIOUS
<1>1. IsSeq(f) /\ Len(f) = 0
  BY NilSeq
<1> DEFINE b == [p \in 1..0 |-> p]
<1>2. b \in [1..0 -> {}] /\ \A p \in 1..0 : FALSE
  OBVIOUS
<1> HIDE DEF b
<1>3. ListedBy(f, {}, V, b)
  BY <1>1, <1>2 DEF ListedBy
<1> QED
  BY <1>1, <1>3 DEF IsListing

\* One listing after another, of disjoint sets.
LEMMA ConcatListing ==
  ASSUME NEW f, NEW s, NEW A, NEW B, NEW V, IsListing(f, A, V), IsListing(s, B, V), A \cap B = {}
  PROVE  IsListing(f \o s, A \cup B, V)
<1> DEFINE h == f \o s
<1>1. IsSeq(f) /\ IsSeq(s)
  BY DEF IsListing
<1>2. /\ IsSeq(h) /\ Len(h) = Len(f) + Len(s)
      /\ \A p \in 1..Len(f) : h[p] = f[p]
      /\ \A p \in 1..Len(s) : h[Len(f) + p] = s[p]
      /\ \A p \in 1..Len(h) : p > Len(f) => p - Len(f) \in 1..Len(s) /\ h[p] = s[p - Len(f)]
  BY <1>1, ConcatFacts
<1>3. Len(f) \in Nat /\ Len(s) \in Nat
  BY <1>1, SeqFacts
<1>4. PICK b1 : ListedBy(f, A, V, b1)
  BY DEF IsListing
<1>5. PICK b2 : ListedBy(s, B, V, b2)
  BY DEF IsListing
<1> HIDE DEF h
<1> DEFINE b == [p \in 1..Len(h) |-> IF p <= Len(f) THEN b1[p] ELSE b2[p - Len(f)]]
<1>6. \A p \in 1..Len(h) :
        \/ p \in 1..Len(f) /\ b[p] = b1[p] /\ b[p] \in A /\ h[p] = V[b[p]]
        \/ /\ p > Len(f) /\ p - Len(f) \in 1..Len(s) /\ b[p] = b2[p - Len(f)] /\ b[p] \in B
           /\ h[p] = V[b[p]]
  <2> TAKE p \in 1..Len(h)
  <2>1. CASE p <= Len(f)
    <3>1. p \in 1..Len(f) /\ b[p] = b1[p]
      BY <1>3, <2>1
    <3> QED
      BY <1>2, <1>4, <3>1 DEF ListedBy
  <2>2. CASE ~(p <= Len(f))
    <3>1. p > Len(f) /\ b[p] = b2[p - Len(f)]
      BY <1>2, <1>3, <2>2
    <3>2. p - Len(f) \in 1..Len(s) /\ h[p] = s[p - Len(f)]
      BY <1>2, <3>1
    <3> QED
      BY <1>5, <3>1, <3>2 DEF ListedBy
  <2> QED
    BY <2>1, <2>2
<1>7. b \in [1..Len(h) -> A \cup B]
  <2>1. \A p \in 1..Len(h) : b[p] \in A \cup B
    BY <1>6
  <2>2. b = [p \in 1..Len(h) |-> b[p]]
    OBVIOUS
  <2> HIDE DEF b
  <2> QED
    BY <2>1, <2>2
<1>8. ASSUME NEW p \in 1..Len(h), NEW q \in 1..Len(h), b[p] = b[q] PROVE p = q
  <2> HIDE DEF b
  <2>1. CASE p \in 1..Len(f) /\ q \in 1..Len(f) /\ b[p] = b1[p] /\ b[q] = b1[q]
    BY <1>4, <1>8, <2>1 DEF ListedBy
  <2>2. CASE /\ p - Len(f) \in 1..Len(s) /\ q - Len(f) \in 1..Len(s)
             /\ b[p] = b2[p - Len(f)] /\ b[q] = b2[q - Len(f)]
    <3>1. p - Len(f) = q - Len(f)
      BY <1>5, <1>8, <2>2 DEF ListedBy
    <3> QED
      BY <1>2, <1>3, <3>1
  <2> QED
    BY <1>6, <1>8, <2>1, <2>2
<1>9. ASSUME NEW x \in A \cup B PROVE \E p \in 1..Len(h) : b[p] = x
  <2>1. CASE x \in A
    <3>1. PICK p \in 1..Len(f) : b1[p] = x
      BY <1>4, <2>1 DEF ListedBy
    <3>2. p \in 1..Len(h) /\ b[p] = x
      BY <1>2, <1>3, <3>1
    <3> QED
      BY <3>2
  <2>2. CASE x \in B
    <3>1. PICK q \in 1..Len(s) : b2[q] = x
      BY <1>5, <2>2 DEF ListedBy
    <3> DEFINE p == Len(f) + q
    <3>2. p \in 1..Len(h) /\ ~(p <= Len(f)) /\ p - Len(f) = q
      BY <1>2, <1>3
    <3>3. b[p] = x
      <4> HIDE DEF p
      <4> QED
        BY <3>1, <3>2
    <3> QED
      BY <3>2, <3>3
  <2> QED
    BY <2>1, <2>2
<1>10. ListedBy(h, A \cup B, V, b)
  <2> HIDE DEF b
  <2> QED
    BY <1>6, <1>7, <1>8, <1>9 DEF ListedBy
<1> HIDE DEF b
<1> QED
  BY <1>2, <1>10 DEF IsListing, h

\* Listings of disjoint sets, joined.
LEMMA JoinListing ==
  ASSUME NEW ss, IsSeq(ss), NEW OO, NEW V, \A i \in DOMAIN ss : IsListing(ss[i], OO[i], V),
         \A i, j \in DOMAIN ss : i # j => OO[i] \cap OO[j] = {}
  PROVE  IsListing(FlattenSeq(ss), UNION {OO[i] : i \in DOMAIN ss}, V)
<1> DEFINE N == Len(ss)
           U(n) == UNION {OO[i] : i \in 1..n}
<1>1. N \in Nat /\ DOMAIN ss = 1..N
  BY SeqFacts
<1>2. CASE N = 0
  <2>1. FlattenSeq(ss) = ss
    BY <1>2 DEF FlattenSeq
  <2>2. ss = <<>>
    <3>1. ss \in Seq(ToSet(ss)) /\ Len(ss) = 0
      BY <1>2 DEF IsSeq
    <3> QED
      BY <3>1
  <2>3. UNION {OO[i] : i \in DOMAIN ss} = {}
    <3>1. \A i \in DOMAIN ss : FALSE
      BY <1>1, <1>2
    <3> QED
      BY <3>1
  <2>4. IsListing(ss, {}, V)
    BY <2>2, NilListing
  <2> QED
    BY <2>1, <2>3, <2>4
<1>3. CASE N # 0
  <2>1. PICK g : /\ g = [i \in 1..Len(ss) |-> IF i = 1 THEN ss[i] ELSE g[i-1] \o ss[i]]
                 /\ FlattenSeq(ss) = g[Len(ss)]
    BY <1>1, <1>3, FlattenRec
  <2> HIDE DEF U
  <2> DEFINE T == {n \in Nat : n + 1 \in 1..N => IsListing(g[n + 1], U(n + 1), V)}
  <2>2. 0 \in T
    <3>1. g[1] = ss[1] /\ IsListing(ss[1], OO[1], V)
      BY <1>1, <1>3, <2>1
    <3>2. U(1) = OO[1]
      BY DEF U
    <3>3. IsListing(g[0 + 1], U(0 + 1), V)
      BY <3>1, <3>2
    <3> QED
      BY <3>3
  <2>3. ASSUME NEW n \in Nat, n \in T PROVE n + 1 \in T
    <3>1. SUFFICES ASSUME (n + 1) + 1 \in 1..N PROVE IsListing(g[(n + 1) + 1], U((n + 1) + 1), V)
      OBVIOUS
    <3> DEFINE k == n + 1
    <3>2. k \in Nat /\ k \in 1..N /\ k + 1 \in 1..N /\ k + 1 # 1 /\ (k + 1) - 1 = k
      BY <1>1, <3>1
    <3>3. IsListing(g[k], U(k), V)
      BY <2>3, <3>2
    <3> HIDE DEF k
    <3>4. g[k + 1] = g[k] \o ss[k + 1] /\ IsListing(ss[k + 1], OO[k + 1], V)
      BY <1>1, <2>1, <3>2
    <3>5. U(k) \cap OO[k + 1] = {} /\ U(k + 1) = U(k) \cup OO[k + 1]
      <4>1. \A i \in 1..k : i \in DOMAIN ss /\ i # k + 1
        BY <1>1, <3>2
      <4>2. U(k) \cap OO[k + 1] = {}
        BY <1>1, <3>2, <4>1 DEF U
      <4>3. 1..(k + 1) = (1..k) \cup {k + 1}
        BY <3>2
      <4>4. U(k + 1) = U(k) \cup OO[k + 1]
        BY <4>3 DEF U
      <4> QED
        BY <4>2, <4>4
    <3>6. IsListing(g[k + 1], U(k + 1), V)
      BY <3>3, <3>4, <3>5, ConcatListing
    <3> QED
      BY <3>6 DEF k
  <2>4. Nat \subseteq T
    <3> HIDE DEF T
    <3>1. \A n \in Nat : n \in T => n + 1 \in T
      BY <2>3
    <3> QED
      BY <2>2, <3>1, NatInd
  <2>5. N - 1 \in Nat /\ (N - 1) + 1 = N /\ N \in 1..N
    BY <1>1, <1>3
  <2>6. IsListing(g[N], U(N), V)
    BY <2>4, <2>5
  <2> QED
    BY <1>1, <2>1, <2>6 DEF U
<1> QED
  BY <1>1, <1>2, <1>3

-----------------------------------------------------------------------------
(***************************************************************************)
(* ByAddress sorts.                                                        *)
(***************************************************************************)
\* Servers with an address and a port that can be compared.
Comparable(s) == IsSeq(s) /\ \A i \in DOMAIN s : s[i].host \in Nat /\ s[i].port \in Nat

\* The places of s with a server before v, and with one not after v.
Below(s, v) == {j \in DOMAIN s : AddressLess(s[j], v)}
UpTo(s, v)  == {j \in DOMAIN s : ~AddressLess(v, s[j])}

\* AddressLess is a strict weak order.
LEMMA AddressOrder ==
  ASSUME NEW x, NEW y, NEW z, x.host \in Nat, x.port \in Nat, y.host \in Nat, y.port \in Nat,
         z.host \in Nat, z.port \in Nat
  PROVE  /\ ~AddressLess(x, x)
         /\ AddressLess(x, y) => ~AddressLess(y, x)
         /\ ~AddressLess(y, x) /\ AddressLess(y, z) => AddressLess(x, z)
         /\ AddressLess(x, y) /\ ~AddressLess(z, y) => AddressLess(x, z)
         /\ ~AddressLess(y, x) /\ ~AddressLess(z, y) => ~AddressLess(z, x)
         /\ ~AddressLess(x, y) /\ ~AddressLess(y, x) => x.host = y.host /\ x.port = y.port
  BY DEF AddressLess

\* The place of the i-th server is after those before it, and not after those
\* it is not before.
LEMMA PlaceFacts ==
  ASSUME NEW s, Comparable(s), NEW i \in DOMAIN s
  PROVE  /\ IsFiniteSet(NoLater(s, i)) /\ Cardinality(NoLater(s, i)) \in 1..Len(s)
         /\ Cardinality(Below(s, s[i])) < Cardinality(NoLater(s, i))
         /\ Cardinality(NoLater(s, i)) <= Cardinality(UpTo(s, s[i]))
<1> DEFINE D == DOMAIN s
           L == Below(s, s[i])
           P == NoLater(s, i)
           U == UpTo(s, s[i])
<1>1. Len(s) \in Nat /\ D = 1..Len(s)
  BY SeqFacts DEF Comparable
<1>2. IsFiniteSet(D) /\ Cardinality(D) = Len(s)
  <2> DEFINE N == Len(s)
  <2>1. N \in Nat /\ D = 1..N
    BY <1>1
  <2> HIDE DEF D, N
  <2>2. IsFiniteSet(1..N) /\ Cardinality(1..N) = N
    BY <2>1, FS_Interval
  <2> QED
    BY <2>1, <2>2 DEF N
<1>3. i <= i /\ ~AddressLess(s[i], s[i])
  BY <1>1, AddressOrder DEF Comparable
<1>4. i \in P /\ i \notin L
  BY <1>3 DEF NoLater, Below
<1>5. L \subseteq P
  BY DEF NoLater, Below
<1>6. P \subseteq U
  BY AddressOrder DEF NoLater, UpTo, Comparable
<1>7. U \subseteq D
  BY DEF UpTo
<1> HIDE DEF L, P, U, D
<1>8. IsFiniteSet(U) /\ Cardinality(U) <= Len(s)
  BY <1>2, <1>7, FS_Subset
<1>9. IsFiniteSet(P) /\ Cardinality(P) <= Cardinality(U)
  BY <1>6, <1>8, FS_Subset
<1>10. IsFiniteSet(L) /\ Cardinality(L) <= Cardinality(P) /\ Cardinality(L) # Cardinality(P)
  BY <1>4, <1>5, <1>9, FS_Subset
<1>11. Cardinality(L) \in Nat /\ Cardinality(P) \in Nat /\ Cardinality(U) \in Nat
  BY <1>8, <1>9, <1>10, FS_CardinalityType
<1>12. Cardinality(P) \in 1..Len(s) /\ Cardinality(L) < Cardinality(P)
  BY <1>1, <1>8, <1>9, <1>10, <1>11
<1> QED
  BY <1>9, <1>12 DEF L, P, U

\* No two of them have the same place.
LEMMA PlacesDiffer ==
  ASSUME NEW s, Comparable(s), NEW i \in DOMAIN s, NEW j \in DOMAIN s,
         AddressLess(s[i], s[j]) \/ (~AddressLess(s[j], s[i]) /\ i < j)
  PROVE  Cardinality(NoLater(s, i)) # Cardinality(NoLater(s, j))
<1>1. Len(s) \in Nat /\ DOMAIN s = 1..Len(s)
  BY SeqFacts DEF Comparable
<1>2. \A n \in DOMAIN s : n \in Nat /\ s[n].host \in Nat /\ s[n].port \in Nat
  BY <1>1 DEF Comparable
<1>3. j \in NoLater(s, j)
  BY <1>1, <1>2, AddressOrder DEF NoLater
<1>4. j \notin NoLater(s, i)
  BY <1>2, AddressOrder DEF NoLater
<1>5. ASSUME NEW n \in NoLater(s, i) PROVE n \in NoLater(s, j)
  <2>1. n \in DOMAIN s /\ (AddressLess(s[n], s[i]) \/ (~AddressLess(s[i], s[n]) /\ n <= i))
    BY <1>5 DEF NoLater
  <2> DEFINE x == s[n]
             y == s[i]
             z == s[j]
  <2>2. /\ x.host \in Nat /\ x.port \in Nat /\ y.host \in Nat /\ y.port \in Nat
        /\ z.host \in Nat /\ z.port \in Nat /\ n \in Nat /\ i \in Nat /\ j \in Nat
    BY <1>2, <2>1
  <2>3. AddressLess(x, z) \/ (~AddressLess(z, x) /\ n <= j)
    <3>1. /\ AddressLess(x, y) \/ (~AddressLess(y, x) /\ n <= i)
          /\ AddressLess(y, z) \/ (~AddressLess(z, y) /\ i < j)
      BY <2>1
    <3> HIDE DEF x, y, z
    <3> QED
      BY <2>2, <3>1 DEF AddressLess
  <2> QED
    BY <2>1, <2>3 DEF NoLater
<1>6. IsFiniteSet(NoLater(s, j)) /\ NoLater(s, i) \subseteq NoLater(s, j)
  BY <1>5, PlaceFacts
<1>7. NoLater(s, i) # NoLater(s, j)
  BY <1>3, <1>4
<1> QED
  BY <1>6, <1>7, FS_Subset

\* ByAddress puts each server in its place.
LEMMA SortFacts ==
  ASSUME NEW s, Comparable(s)
  PROVE  /\ IsSeq(ByAddress(s)) /\ Len(ByAddress(s)) = Len(s)
         /\ \E p \in [1..Len(s) -> 1..Len(s)] :
              /\ \A n, l \in 1..Len(s) : p[n] = p[l] => n = l
              /\ \A i \in 1..Len(s) : \E n \in 1..Len(s) : p[n] = i
              /\ \A n \in 1..Len(s) : ByAddress(s)[n] = s[p[n]] /\ Cardinality(NoLater(s, p[n])) = n
<1> DEFINE N == Len(s)
           rank == [i \in 1..N |-> Cardinality(NoLater(s, i))]
           p == [n \in 1..N |-> CHOOSE i \in 1..N : Cardinality(NoLater(s, i)) = n]
           t == ByAddress(s)
<1>1. N \in Nat /\ DOMAIN s = 1..N
  BY SeqFacts DEF Comparable
<1>2. rank \in [1..N -> 1..N]
  BY <1>1, PlaceFacts
<1>3. ASSUME NEW i \in 1..N, NEW j \in 1..N, i # j PROVE rank[i] # rank[j]
  <2>1. s[i].host \in Nat /\ s[i].port \in Nat /\ s[j].host \in Nat /\ s[j].port \in Nat
    BY <1>1 DEF Comparable
  <2>2. i \in Nat /\ j \in Nat /\ (i < j \/ j < i)
    BY <1>1, <1>3
  <2>3. \/ AddressLess(s[i], s[j]) \/ (~AddressLess(s[j], s[i]) /\ i < j)
        \/ AddressLess(s[j], s[i]) \/ (~AddressLess(s[i], s[j]) /\ j < i)
    BY <2>2
  <2> QED
    BY <1>1, <2>3, PlacesDiffer
<1>4. rank \in Surjection(1..N, 1..N)
  <2> DEFINE D == 1..N
  <2>1. rank \in Injection(D, D) /\ IsFiniteSet(D)
    <3>1. IsFiniteSet(D)
      BY <1>1, FS_Interval
    <3> QED
      BY <1>2, <1>3, <3>1 DEF Injection, IsInjective
  <2> HIDE DEF D, rank
  <2>2. rank \in Surjection(D, D)
    BY <2>1, FS_Injection
  <2> QED
    BY <2>2 DEF D
<1>5. \A n \in 1..N : \E i \in 1..N : Cardinality(NoLater(s, i)) = n
  BY <1>4 DEF Surjection
<1>6. \A n \in 1..N : p[n] \in 1..N /\ Cardinality(NoLater(s, p[n])) = n
  BY <1>5
<1>7. t = [n \in 1..N |-> s[p[n]]]
  BY <1>1 DEF ByAddress
<1>8. p = [n \in 1..N |-> p[n]]
  OBVIOUS
<1>9. \A i \in 1..N : rank[i] = Cardinality(NoLater(s, i)) /\ rank[i] \in 1..N
  BY <1>2
<1> HIDE DEF p, t, rank, N
<1>10. p \in [1..N -> 1..N]
  BY <1>6, <1>8
<1>11. \A n, l \in 1..N : p[n] = p[l] => n = l
  BY <1>6
<1>12. \A i \in 1..N : \E n \in 1..N : p[n] = i
  <2> TAKE i \in 1..N
  <2>1. rank[i] \in 1..N /\ rank[p[rank[i]]] = rank[i] /\ p[rank[i]] \in 1..N
    BY <1>6, <1>9
  <2> QED
    BY <1>3, <2>1
<1>13. IsSeq(t) /\ Len(t) = N
  <2>1. DOMAIN t = 1..N /\ t = [n \in 1..N |-> t[n]]
    BY <1>7
  <2> QED
    BY <1>1, <2>1, SeqIntro
<1>14. \A n \in 1..N : t[n] = s[p[n]] /\ Cardinality(NoLater(s, p[n])) = n
  BY <1>6, <1>7
<1> QED
  BY <1>10, <1>11, <1>12, <1>13, <1>14 DEF N, t

\* Sorting lists the same.
LEMMA SortListing ==
  ASSUME NEW s, Comparable(s), NEW O, NEW V, IsListing(s, O, V)
  PROVE  IsListing(ByAddress(s), O, V)
<1> DEFINE N == Len(s)
           t == ByAddress(s)
<1>1. IsSeq(t) /\ Len(t) = N
  BY SortFacts
<1>2. PICK p \in [1..N -> 1..N] :
        /\ \A n, l \in 1..N : p[n] = p[l] => n = l
        /\ \A i \in 1..N : \E n \in 1..N : p[n] = i
        /\ \A n \in 1..N : t[n] = s[p[n]] /\ Cardinality(NoLater(s, p[n])) = n
  BY SortFacts, Zenon
<1>3. PICK b : ListedBy(s, O, V, b)
  BY DEF IsListing
<1>4. /\ b \in [1..N -> O]
      /\ \A i, j \in 1..N : b[i] = b[j] => i = j
      /\ \A x \in O : \E i \in 1..N : b[i] = x
      /\ \A i \in 1..N : s[i] = V[b[i]]
  BY <1>3 DEF ListedBy
<1> HIDE DEF N, t
<1> DEFINE c == [n \in 1..N |-> b[p[n]]]
<1>5. c \in [1..N -> O] /\ (\A n, l \in 1..N : c[n] = c[l] => n = l) /\ \A n \in 1..N : t[n] = V[c[n]]
  <2>1. \A n \in 1..N : p[n] \in 1..N /\ c[n] = b[p[n]]
    BY <1>2
  <2>2. \A n \in 1..N : b[p[n]] \in O /\ t[n] = V[b[p[n]]]
    BY <1>2, <1>4, <2>1
  <2>3. c \in [1..N -> O]
    BY <2>1, <2>2
  <2> HIDE DEF c
  <2>4. \A n, l \in 1..N : c[n] = c[l] => n = l
    BY <1>2, <1>4, <2>1
  <2> QED
    BY <2>1, <2>2, <2>3, <2>4
<1>6. ASSUME NEW x \in O PROVE \E n \in 1..N : c[n] = x
  <2>1. PICK i \in 1..N : b[i] = x
    BY <1>4
  <2>2. PICK n \in 1..N : p[n] = i
    BY <1>2
  <2> QED
    BY <2>1, <2>2
<1> HIDE DEF c
<1>7. ListedBy(t, O, V, c)
  BY <1>1, <1>5, <1>6 DEF ListedBy
<1> QED
  BY <1>1, <1>7 DEF IsListing, t

-----------------------------------------------------------------------------
(***************************************************************************)
(* The pods of a Service.                                                  *)
(***************************************************************************)
\* Min picks the least.
LEMMA MinIn ==
  ASSUME NEW S, S \subseteq Nat, S # {}
  PROVE  Min(S) \in S
  BY Least DEF Min

\* The port a reference means is one of the Service's.
LEMMA ServicePortIn ==
  ASSUME NEW svc, IsSeq(svc.ports), NEW ref, servicePort(svc, ref) # None
  PROVE  servicePort(svc, ref) \in ToSet(svc.ports)
<1> DEFINE hits == {i \in DOMAIN svc.ports :
                      \/ ref.portName # "" /\ svc.ports[i].name = ref.portName
                      \/ ref.portName = "" /\ ref.portNumber # 0 /\ svc.ports[i].port = ref.portNumber}
<1>1. servicePort(svc, ref) = IF hits = {} THEN None ELSE svc.ports[Min(hits)]
  BY DEF servicePort, FirstWhere
<1>2. hits \subseteq DOMAIN svc.ports /\ DOMAIN svc.ports \subseteq Nat
  <2>1. DOMAIN svc.ports = 1..Len(svc.ports)
    BY SeqFacts
  <2>2. \A n : 1..n \subseteq Nat
    OBVIOUS
  <2> QED
    BY <2>1, <2>2
<1> HIDE DEF hits
<1>3. hits # {} /\ Min(hits) \in DOMAIN svc.ports
  BY <1>1, <1>2, MinIn
<1> QED
  BY <1>1, <1>3, ElemIn

\* The port of a slice is a number, and one that the slice gives.
LEMMA SlicePortFacts ==
  ASSUME NEW s, SliceFormed(s), NEW sp, sp.port \in Nat
  PROVE  /\ slicePort(s, sp) \in Nat
         /\ slicePort(s, sp) # 0 =>
              s.ports = <<>> \/ \E p \in ToSet(s.ports) : p.port \in {None, slicePort(s, sp)}
<1> DEFINE hits  == {i \in DOMAIN s.ports : s.ports[i].name = sp.name}
           entry == IF hits = {} THEN None ELSE s.ports[Min(hits)]
           port  == slicePort(s, sp)
<1>1. port = CASE s.ports = <<>> -> sp.port
               [] s.ports # <<>> /\ entry = None -> 0
               [] OTHER -> IF entry.port = None THEN sp.port ELSE entry.port
  BY DEF slicePort, FirstWhere
<1>2. hits \subseteq DOMAIN s.ports /\ DOMAIN s.ports \subseteq Nat
  BY SeqFacts DEF SliceFormed
<1>3. entry # None => entry \in ToSet(s.ports)
  <2> SUFFICES ASSUME entry # None PROVE entry \in ToSet(s.ports)
    OBVIOUS
  <2> HIDE DEF hits
  <2>1. hits # {} /\ Min(hits) \in DOMAIN s.ports /\ entry = s.ports[Min(hits)]
    BY <1>2, MinIn
  <2> QED
    BY <2>1, ElemIn DEF SliceFormed
<1> HIDE DEF entry, port
<1>4. CASE s.ports = <<>>
  BY <1>1, <1>4 DEF port
<1>5. CASE s.ports # <<>> /\ entry = None
  BY <1>1, <1>5 DEF port
<1>6. CASE s.ports # <<>> /\ entry # None
  <2>1. entry \in ToSet(s.ports) /\ entry.port \in Nat \cup {None}
    BY <1>3, <1>6 DEF SliceFormed
  <2>2. port = IF entry.port = None THEN sp.port ELSE entry.port
    BY <1>1, <1>6
  <2>3. port \in Nat /\ entry.port \in {None, port}
    BY <2>1, <2>2
  <2> QED
    BY <2>1, <2>3 DEF port
<1> QED
  BY <1>4, <1>5, <1>6

\* Where a server comes from: the slice, the endpoint and the address.
EndpointOrigins(s, e) ==
  IF endpointUsable(s.endpoints[e]) THEN {<<s, e, i>> : i \in DOMAIN s.endpoints[e].addresses} ELSE {}

SliceOrigins(s, sp) ==
  IF slicePort(s, sp) = 0 THEN {} ELSE UNION {EndpointOrigins(s, e) : e \in DOMAIN s.endpoints}

FamilyOrigins(s, service, type, sp) ==
  IF s.service = service /\ s.type = type THEN SliceOrigins(s, sp) ELSE {}

Origins(S, service, type, sp) == UNION {FamilyOrigins(s, service, type, sp) : s \in S}

\* The server that is made of it.
ServerOf(o, sp) == Server(o[1].type, o[1].endpoints[o[2]].addresses[o[3]], slicePort(o[1], sp))

Servers(O, sp) == [o \in O |-> ServerOf(o, sp)]

\* What an origin is.
LEMMA OriginFacts ==
  ASSUME NEW S, NEW service, NEW type, NEW sp, NEW o \in Origins(S, service, type, sp)
  PROVE  /\ o[1] \in S /\ o[1].type = type /\ slicePort(o[1], sp) # 0
         /\ o[2] \in DOMAIN o[1].endpoints /\ endpointUsable(o[1].endpoints[o[2]])
         /\ o[3] \in DOMAIN o[1].endpoints[o[2]].addresses
         /\ o = <<o[1], o[2], o[3]>>
<1>1. PICK s \in S : o \in FamilyOrigins(s, service, type, sp)
  BY DEF Origins
<1>2. s.type = type /\ o \in SliceOrigins(s, sp)
  BY <1>1 DEF FamilyOrigins
<1>3. slicePort(s, sp) # 0 /\ \E e \in DOMAIN s.endpoints : o \in EndpointOrigins(s, e)
  BY <1>2 DEF SliceOrigins
<1>4. PICK e \in DOMAIN s.endpoints : o \in EndpointOrigins(s, e)
  BY <1>3
<1>5. endpointUsable(s.endpoints[e]) /\ \E i \in DOMAIN s.endpoints[e].addresses : o = <<s, e, i>>
  BY <1>4 DEF EndpointOrigins
<1>6. PICK i \in DOMAIN s.endpoints[e].addresses : o = <<s, e, i>>
  BY <1>5
<1>7. o[1] = s /\ o[2] = e /\ o[3] = i
  BY <1>6
<1> QED
  BY <1>2, <1>3, <1>5, <1>6, <1>7

\* An endpoint that is usable gives one server for each address.
LEMMA EndpointListing ==
  ASSUME NEW s, SliceFormed(s), NEW sp, NEW e \in DOMAIN s.endpoints, NEW V,
         \A o \in EndpointOrigins(s, e) : V[o] = ServerOf(o, sp)
  PROVE  IsListing(endpointServers(s.endpoints[e], s.type, slicePort(s, sp)), EndpointOrigins(s, e), V)
<1> DEFINE ep   == s.endpoints[e]
           port == slicePort(s, sp)
           as   == ep.addresses
           g    == [i \in DOMAIN as |-> Server(s.type, as[i], port)]
           o    == [i \in DOMAIN as |-> <<s, e, i>>]
<1>1. IsSeq(as)
  BY ElemIn DEF SliceFormed
<1>2. CASE endpointUsable(ep)
  <2>1. endpointServers(ep, s.type, port) = g
    BY <1>2 DEF endpointServers
  <2>2. EndpointOrigins(s, e) = {o[i] : i \in DOMAIN as}
    BY <1>2 DEF EndpointOrigins
  <2>3. \A i, j \in DOMAIN as : o[i] = o[j] => i = j
    OBVIOUS
  <2>4. ASSUME NEW i \in DOMAIN as PROVE g[i] = V[o[i]]
    <3>1. o[i] \in EndpointOrigins(s, e) /\ o[i] = <<s, e, i>>
      BY <2>2
    <3>2. V[o[i]] = ServerOf(<<s, e, i>>, sp)
      BY <3>1
    <3>3. ServerOf(<<s, e, i>>, sp) = Server(s.type, as[i], port)
      BY DEF ServerOf
    <3> QED
      BY <3>2, <3>3
  <2>5. g = [i \in DOMAIN as |-> g[i]]
    OBVIOUS
  <2> DEFINE O == EndpointOrigins(s, e)
  <2>6. o \in [DOMAIN as -> O] /\ \A x \in O : \E i \in DOMAIN as : o[i] = x
    BY <2>2
  <2> HIDE DEF g, o, as, O
  <2>7. IsSeq(g) /\ DOMAIN as = 1..Len(g)
    BY <1>1, <2>5, MapSeq, SeqFacts
  <2>8. ListedBy(g, O, V, o)
    BY <2>3, <2>4, <2>6, <2>7 DEF ListedBy
  <2> QED
    BY <2>1, <2>7, <2>8 DEF IsListing, O
<1>3. CASE ~endpointUsable(ep)
  <2>1. endpointServers(ep, s.type, port) = <<>> /\ EndpointOrigins(s, e) = {}
    BY <1>3 DEF endpointServers, EndpointOrigins
  <2>2. IsListing(<<>>, {}, V)
    BY NilListing
  <2> QED
    BY <2>1, <2>2
<1> QED
  BY <1>2, <1>3

\* A slice gives the servers of its endpoints.
LEMMA SliceListing ==
  ASSUME NEW s, SliceFormed(s), NEW sp, NEW V,
         \A o \in SliceOrigins(s, sp) : V[o] = ServerOf(o, sp)
  PROVE  IsListing(sliceServers(s, sp), SliceOrigins(s, sp), V)
<1> DEFINE port == slicePort(s, sp)
           ss   == [e \in DOMAIN s.endpoints |-> endpointServers(s.endpoints[e], s.type, port)]
           OO   == [e \in DOMAIN s.endpoints |-> EndpointOrigins(s, e)]
<1>1. CASE port = 0
  <2>1. sliceServers(s, sp) = <<>> /\ SliceOrigins(s, sp) = {}
    BY <1>1 DEF sliceServers, SliceOrigins
  <2> QED
    BY <2>1, NilListing
<1>2. CASE port # 0
  <2>1. sliceServers(s, sp) = FlattenSeq(ss)
    BY <1>2 DEF sliceServers, Collect
  <2>2. SliceOrigins(s, sp) = UNION {EndpointOrigins(s, e) : e \in DOMAIN s.endpoints}
    BY <1>2 DEF SliceOrigins
  <2>3. IsSeq(ss) /\ DOMAIN ss = DOMAIN s.endpoints
    <3>1. IsSeq(s.endpoints) /\ ss = [e \in DOMAIN s.endpoints |-> ss[e]]
      BY DEF SliceFormed
    <3> HIDE DEF ss
    <3> QED
      BY <3>1, MapSeq
  <2>4. ASSUME NEW e \in DOMAIN ss PROVE IsListing(ss[e], OO[e], V)
    <3>1. e \in DOMAIN s.endpoints
      BY <2>3
    <3>2. \A o \in EndpointOrigins(s, e) : V[o] = ServerOf(o, sp)
      BY <2>2, <3>1
    <3> QED
      BY <3>1, <3>2, EndpointListing
  <2>5. ASSUME NEW e \in DOMAIN ss, NEW d \in DOMAIN ss, e # d PROVE OO[e] \cap OO[d] = {}
    BY <2>3, <2>5 DEF EndpointOrigins
  <2>6. UNION {OO[e] : e \in DOMAIN ss} = SliceOrigins(s, sp)
    BY <2>2, <2>3
  <2> HIDE DEF ss, OO
  <2>7. IsListing(FlattenSeq(ss), UNION {OO[e] : e \in DOMAIN ss}, V)
    BY <2>3, <2>4, <2>5, JoinListing
  <2> QED
    BY <2>1, <2>6, <2>7
<1> QED
  BY <1>1, <1>2

\* The slices of one family give theirs, in whatever order they are listed.
LEMMA FamilyListing ==
  ASSUME NEW S, IsFiniteSet(S), \A s \in S : SliceFormed(s), NEW slices \in SetToSeqs(S),
         NEW service, NEW type, NEW sp
  PROVE  IsListing(familyServers(slices, service, type, sp), Origins(S, service, type, sp),
                   Servers(Origins(S, service, type, sp), sp))
<1> DEFINE O  == Origins(S, service, type, sp)
           V  == Servers(O, sp)
           of(s) == IF s.service = service /\ s.type = type THEN sliceServers(s, sp) ELSE <<>>
           ss == [n \in DOMAIN slices |-> of(slices[n])]
           OO == [n \in DOMAIN slices |-> FamilyOrigins(slices[n], service, type, sp)]
<1>1. familyServers(slices, service, type, sp) = FlattenSeq(ss)
  BY DEF familyServers, Collect
<1>2. IsSeq(slices) /\ ToSet(slices) = S
  BY ListFacts
<1>3. \A n, l \in DOMAIN slices : n # l => slices[n] # slices[l]
  BY DEF SetToSeqs
<1>4. IsSeq(ss) /\ DOMAIN ss = DOMAIN slices
  <2>1. ss = [n \in DOMAIN slices |-> ss[n]]
    OBVIOUS
  <2> HIDE DEF ss
  <2> QED
    BY <1>2, <2>1, MapSeq
<1>5. \A o \in O : V[o] = ServerOf(o, sp)
  BY DEF Servers
<1>6. \A s \in S : FamilyOrigins(s, service, type, sp) \subseteq O
  BY DEF Origins
<1> HIDE DEF O, V
<1>7. ASSUME NEW n \in DOMAIN ss PROVE IsListing(ss[n], OO[n], V)
  <2> DEFINE s == slices[n]
  <2>1. n \in DOMAIN slices /\ s \in S /\ SliceFormed(s)
    BY <1>2, <1>4, ElemIn
  <2>2. ss[n] = of(s) /\ OO[n] = FamilyOrigins(s, service, type, sp)
    BY <2>1
  <2> HIDE DEF ss, OO, s
  <2>3. CASE s.service = service /\ s.type = type
    <3>1. OO[n] = SliceOrigins(s, sp) /\ ss[n] = sliceServers(s, sp)
      BY <2>2, <2>3 DEF FamilyOrigins
    <3>2. \A o \in SliceOrigins(s, sp) : V[o] = ServerOf(o, sp)
      BY <1>5, <1>6, <2>1, <2>2, <3>1
    <3> QED
      BY <2>1, <3>1, <3>2, SliceListing
  <2>4. CASE ~(s.service = service /\ s.type = type)
    <3>1. OO[n] = {} /\ ss[n] = <<>>
      BY <2>2, <2>4 DEF FamilyOrigins
    <3> QED
      BY <3>1, NilListing
  <2> QED
    BY <2>3, <2>4
<1>8. ASSUME NEW n \in DOMAIN ss, NEW l \in DOMAIN ss, n # l PROVE OO[n] \cap OO[l] = {}
  <2>1. slices[n] # slices[l]
    BY <1>3, <1>4, <1>8
  <2>2. \A s : \A o \in FamilyOrigins(s, service, type, sp) : o[1] = s
    BY DEF FamilyOrigins, SliceOrigins, EndpointOrigins
  <2> QED
    BY <1>4, <2>1, <2>2
<1>9. UNION {OO[n] : n \in DOMAIN ss} = O
  BY <1>2, <1>4 DEF O, Origins, ToSet
<1> HIDE DEF ss, OO
<1>10. IsListing(FlattenSeq(ss), UNION {OO[n] : n \in DOMAIN ss}, V)
  BY <1>4, <1>7, <1>8, JoinListing
<1> QED
  BY <1>1, <1>9, <1>10 DEF O, V

\* What the slices of a family list can be sorted.
LEMMA FamilyComparable ==
  ASSUME NEW S, IsFiniteSet(S), \A s \in S : SliceFormed(s), NEW slices \in SetToSeqs(S),
         NEW service, NEW type, NEW sp, sp.port \in Nat
  PROVE  Comparable(familyServers(slices, service, type, sp))
<1> DEFINE f == familyServers(slices, service, type, sp)
           O == Origins(S, service, type, sp)
<1> HIDE DEF f, O
<1>1. IsListing(f, O, Servers(O, sp))
  BY FamilyListing DEF f, O
<1>2. IsSeq(f) /\ DOMAIN f = 1..Len(f)
  BY <1>1, SeqFacts DEF IsListing
<1>3. PICK b : ListedBy(f, O, Servers(O, sp), b)
  BY <1>1 DEF IsListing
<1>4. ASSUME NEW i \in DOMAIN f PROVE f[i].host \in Nat /\ f[i].port \in Nat
  <2> DEFINE o == b[i]
  <2>1. o \in O /\ f[i] = ServerOf(o, sp)
    BY <1>2, <1>3 DEF ListedBy, Servers
  <2> HIDE DEF o
  <2>2. /\ o[1] \in S /\ o[2] \in DOMAIN o[1].endpoints
        /\ o[3] \in DOMAIN o[1].endpoints[o[2]].addresses
    BY <2>1, OriginFacts DEF O
  <2>3. SliceFormed(o[1])
    BY <2>2
  <2>4. slicePort(o[1], sp) \in Nat
    BY <2>3, SlicePortFacts
  <2>5. o[1].endpoints[o[2]] \in ToSet(o[1].endpoints)
    BY <2>2, <2>3, ElemIn DEF SliceFormed
  <2>6. o[1].endpoints[o[2]].addresses[o[3]] \in Nat
    BY <2>2, <2>3, <2>5, ElemIn DEF SliceFormed
  <2> QED
    BY <2>1, <2>4, <2>6 DEF ServerOf, Server
<1> QED
  BY <1>2, <1>4 DEF Comparable, f

-----------------------------------------------------------------------------
(***************************************************************************)
(* The servers of a route serve.                                           *)
(***************************************************************************)
\* A listing of an address, and what is one.
LEMMA ListingIn ==
  ASSUME NEW k, NEW srv, NEW s \in k.slices, s.type = srv.addr.kind, NEW e \in DOMAIN s.endpoints,
         endpointUsable(s.endpoints[e]), srv.addr.host \in ToSet(s.endpoints[e].addresses)
  PROVE  <<s, e>> \in Listing(k, srv)
  BY DEF Listing

\* And nothing else is.
LEMMA ListingOut ==
  ASSUME NEW k, NEW srv, NEW l \in Listing(k, srv)
  PROVE  /\ l[1] \in k.slices /\ l[1].type = srv.addr.kind /\ l[2] \in DOMAIN l[1].endpoints
         /\ endpointUsable(l[1].endpoints[l[2]])
         /\ srv.addr.host \in ToSet(l[1].endpoints[l[2]].addresses)
<1>1. PICK s \in k.slices :
        /\ s.type = srv.addr.kind
        /\ \E e \in DOMAIN s.endpoints : /\ endpointUsable(s.endpoints[e]) /\ l = <<s, e>>
                                         /\ srv.addr.host \in ToSet(s.endpoints[e].addresses)
  BY DEF Listing
<1>2. PICK e \in DOMAIN s.endpoints : /\ endpointUsable(s.endpoints[e]) /\ l = <<s, e>>
                                      /\ srv.addr.host \in ToSet(s.endpoints[e].addresses)
  BY <1>1
<1>3. l[1] = s /\ l[2] = e
  BY <1>2
<1> QED
  BY <1>1, <1>2, <1>3

\* The image of a finite set.
LEMMA ImageFinite ==
  ASSUME NEW S, IsFiniteSet(S), NEW f, NEW T, \A y \in T : \E x \in S : f[x] = y
  PROVE  IsFiniteSet(T)
<1> DEFINE D == {x \in S : f[x] \in T}
           g == [x \in D |-> f[x]]
<1>1. D \in SUBSET S
  OBVIOUS
<1>2. g \in Surjection(D, T)
  BY DEF Surjection
<1> HIDE DEF D, g
<1>3. IsFiniteSet(D)
  BY <1>1, FS_Subset
<1> QED
  BY <1>2, <1>3, FS_Surjection

\* An address is listed finitely often.
LEMMA ListingFinite ==
  ASSUME NEW k, WellFormed(k), NEW srv
  PROVE  IsFiniteSet(Listing(k, srv))
<1> DEFINE S    == k.slices
           P(s) == {<<s, e>> : e \in DOMAIN s.endpoints}
           all  == {P(s) : s \in S}
           by   == [s \in S |-> P(s)]
<1>1. IsFiniteSet(S) /\ \A s \in S : SliceFormed(s)
  BY DEF WellFormed
<1>2. ASSUME NEW s \in S PROVE IsFiniteSet(P(s))
  <2> DEFINE D == DOMAIN s.endpoints
             N == Len(s.endpoints)
             f == [e \in D |-> <<s, e>>]
             T == P(s)
  <2>1. N \in Nat /\ D = 1..N
    BY <1>1, SeqFacts DEF SliceFormed
  <2>2. \A y \in T : \E x \in D : f[x] = y
    OBVIOUS
  <2> HIDE DEF D, N, f, T
  <2>3. IsFiniteSet(D)
    BY <2>1, FS_Interval
  <2>4. IsFiniteSet(T)
    BY <2>2, <2>3, ImageFinite
  <2> QED
    BY <2>4 DEF T
<1>3. IsFiniteSet(all)
  <2>1. \A y \in all : \E s \in S : by[s] = y
    OBVIOUS
  <2> HIDE DEF all, by, S
  <2> QED
    BY <1>1, <2>1, ImageFinite
<1>4. \A T \in all : IsFiniteSet(T)
  BY <1>2
<1>5. Listing(k, srv) \in SUBSET UNION all
  BY DEF Listing
<1> HIDE DEF all
<1>6. IsFiniteSet(UNION all)
  BY <1>3, <1>4, FS_UNION
<1> QED
  BY <1>5, <1>6, FS_Subset

\* A set of two is not of one.
LEMMA MoreThanOne ==
  ASSUME NEW S, IsFiniteSet(S), NEW x \in S, NEW y \in S, x # y
  PROVE  Cardinality(S) > 1
<1>1. Cardinality(S) \in Nat /\ Cardinality(S) # 0
  BY FS_CardinalityType, FS_EmptySet
<1>2. Cardinality(S) # 1
  BY FS_Singleton
<1> QED
  BY <1>1, <1>2

\* Pods that are listed serve.
LEMMA PodsServe ==
  ASSUME NEW k, WellFormed(k), NEW service, NEW type, NEW sp, sp.port \in Nat, NEW t, t # <<>>,
         IsListing(t, Origins(k.slices, service, type, sp), Servers(Origins(k.slices, service, type, sp), sp))
  PROVE  Serving(k, [i \in DOMAIN t |-> Unweighted(t[i])])
<1> DEFINE O   == Origins(k.slices, service, type, sp)
           srv == [i \in DOMAIN t |-> Unweighted(t[i])]
<1>1. PICK b : ListedBy(t, O, Servers(O, sp), b)
  BY DEF IsListing
<1>2. IsSeq(t) /\ DOMAIN t = 1..Len(t)
  BY SeqFacts DEF IsListing
<1>3. DOMAIN srv = DOMAIN t
  OBVIOUS
<1>4. ASSUME NEW i \in DOMAIN t
      PROVE  b[i] \in O /\ srv[i].addr = ServerOf(b[i], sp)
  <2>1. b[i] \in O /\ t[i] = Servers(O, sp)[b[i]]
    BY <1>1, <1>2, <1>4 DEF ListedBy
  <2>2. srv[i].addr = t[i]
    BY DEF Unweighted
  <2> QED
    BY <2>1, <2>2 DEF Servers
<1>5. ASSUME NEW o \in O
      PROVE  /\ ServerOf(o, sp).kind = type /\ ServerOf(o, sp).port = slicePort(o[1], sp)
             /\ ServerOf(o, sp).host = o[1].endpoints[o[2]].addresses[o[3]]
             /\ o[1] \in k.slices /\ SliceFormed(o[1]) /\ o[1].type = type
             /\ o[2] \in DOMAIN o[1].endpoints /\ endpointUsable(o[1].endpoints[o[2]])
             /\ o[3] \in DOMAIN o[1].endpoints[o[2]].addresses
             /\ IsSeq(o[1].endpoints[o[2]].addresses)
             /\ ServerOf(o, sp).host \in ToSet(o[1].endpoints[o[2]].addresses)
             /\ slicePort(o[1], sp) # 0 /\ o = <<o[1], o[2], o[3]>>
  <2>1. /\ o[1] \in k.slices /\ o[1].type = type /\ slicePort(o[1], sp) # 0
        /\ o[2] \in DOMAIN o[1].endpoints /\ endpointUsable(o[1].endpoints[o[2]])
        /\ o[3] \in DOMAIN o[1].endpoints[o[2]].addresses
        /\ o = <<o[1], o[2], o[3]>>
    BY OriginFacts
  <2>2. SliceFormed(o[1])
    BY <2>1 DEF WellFormed
  <2>3. /\ ServerOf(o, sp).kind = type /\ ServerOf(o, sp).port = slicePort(o[1], sp)
        /\ ServerOf(o, sp).host = o[1].endpoints[o[2]].addresses[o[3]]
    BY <2>1 DEF ServerOf, Server
  <2>4. IsSeq(o[1].endpoints[o[2]].addresses)
    BY <2>1, <2>2, ElemIn DEF SliceFormed
  <2>5. ServerOf(o, sp).host \in ToSet(o[1].endpoints[o[2]].addresses)
    BY <2>1, <2>3, <2>4, ElemIn
  <2> QED
    BY <2>1, <2>2, <2>3, <2>4, <2>5
<1> HIDE DEF O, srv
<1>6. ASSUME NEW i \in DOMAIN t PROVE <<b[i][1], b[i][2]>> \in Listing(k, srv[i])
  BY <1>4, <1>5, ListingIn
<1>7. srv # <<>>
  <2>1. DOMAIN t # {}
    <3>1. t \in Seq(ToSet(t))
      BY <1>2 DEF IsSeq
    <3> QED
      BY <1>2, <3>1
  <2>2. DOMAIN <<>> = {}
    OBVIOUS
  <2> QED
    BY <1>3, <2>1, <2>2
<1>8. ASSUME NEW i \in DOMAIN t
      PROVE  \E l \in Listing(k, srv[i]) :
               l[1].ports = <<>> \/ \E p \in ToSet(l[1].ports) : p.port \in {None, srv[i].addr.port}
  <2> DEFINE l == <<b[i][1], b[i][2]>>
  <2>1. l \in Listing(k, srv[i]) /\ l[1] = b[i][1]
    BY <1>6
  <2>2. srv[i].addr.port = slicePort(b[i][1], sp) /\ SliceFormed(b[i][1]) /\ slicePort(b[i][1], sp) # 0
    BY <1>4, <1>5
  <2>3. b[i][1].ports = <<>> \/ \E p \in ToSet(b[i][1].ports) : p.port \in {None, srv[i].addr.port}
    BY <2>2, SlicePortFacts
  <2> QED
    BY <2>1, <2>3
<1>9. ASSUME NEW i \in DOMAIN t, NEW j \in DOMAIN t, i # j, Pods(k, srv[i]) \cap Pods(k, srv[j]) # {}
      PROVE  srv[i].addr.host = srv[j].addr.host /\ Cardinality(Listing(k, srv[i])) > 1
  <2>1. PICK l1 \in Listing(k, srv[i]), l2 \in Listing(k, srv[j]) :
          l1[1].endpoints[l1[2]].pod = l2[1].endpoints[l2[2]].pod
    BY <1>9 DEF Pods
  <2> DEFINE x == b[i]
             y == b[j]
  <2>2. /\ x \in O /\ y \in O /\ srv[i].addr.kind = type /\ srv[j].addr.kind = type
        /\ srv[i].addr = ServerOf(x, sp) /\ srv[j].addr = ServerOf(y, sp)
    BY <1>4, <1>5
  <2>3. x # y
    BY <1>1, <1>2, <1>9 DEF ListedBy
  <2> HIDE DEF x, y
  <2>4. srv[i].addr.host = srv[j].addr.host
    <3>1. /\ l1[1] \in k.slices /\ l1[1].type = type /\ l1[2] \in DOMAIN l1[1].endpoints
          /\ endpointUsable(l1[1].endpoints[l1[2]])
          /\ srv[i].addr.host \in ToSet(l1[1].endpoints[l1[2]].addresses)
      BY <2>2, ListingOut
    <3>2. /\ l2[1] \in k.slices /\ l2[1].type = type /\ l2[2] \in DOMAIN l2[1].endpoints
          /\ endpointUsable(l2[1].endpoints[l2[2]])
          /\ srv[j].addr.host \in ToSet(l2[1].endpoints[l2[2]].addresses)
      BY <2>2, ListingOut
    <3>3. OneAddress(l1[1], l2[1]) /\ IsSeq(l1[1].endpoints) /\ IsSeq(l2[1].endpoints)
      <4>1. \A s, u \in k.slices : s.type = u.type => OneAddress(s, u)
        BY DEF WellFormed
      <4>2. \A s \in k.slices : IsSeq(s.endpoints)
        BY DEF WellFormed, SliceFormed
      <4> QED
        BY <3>1, <3>2, <4>1, <4>2
    <3>4. l1[1].endpoints[l1[2]] \in ToSet(l1[1].endpoints) /\ l2[1].endpoints[l2[2]] \in ToSet(l2[1].endpoints)
      BY <3>1, <3>2, <3>3, ElemIn
    <3> DEFINE e1 == l1[1].endpoints[l1[2]]
               e2 == l2[1].endpoints[l2[2]]
               v  == srv[i].addr.host
               w  == srv[j].addr.host
    <3>5. /\ e1 \in ToSet(l1[1].endpoints) /\ e2 \in ToSet(l2[1].endpoints) /\ e1.pod = e2.pod
          /\ endpointUsable(e1) /\ endpointUsable(e2) /\ v \in ToSet(e1.addresses) /\ w \in ToSet(e2.addresses)
      BY <2>1, <3>1, <3>2, <3>4
    <3> HIDE DEF e1, e2, v, w
    <3>6. v = w
      BY <3>3, <3>5 DEF OneAddress
    <3> QED
      BY <3>6 DEF v, w
  <2>5. <<x[1], x[2]>> \in Listing(k, srv[i])
    BY <1>6 DEF x
  <2>6. <<y[1], y[2]>> \in Listing(k, srv[i])
    <3>1. srv[i].addr.host \in ToSet(y[1].endpoints[y[2]].addresses)
      BY <1>5, <2>2, <2>4
    <3> QED
      BY <1>5, <2>2, <3>1, ListingIn
  <2>7. <<x[1], x[2]>> # <<y[1], y[2]>>
    <3> SUFFICES ASSUME x[1] = y[1], x[2] = y[2] PROVE FALSE
      OBVIOUS
    <3> DEFINE ep == x[1].endpoints[x[2]]
    <3>1. /\ SliceFormed(x[1]) /\ x[2] \in DOMAIN x[1].endpoints
          /\ x[3] \in DOMAIN ep.addresses /\ y[3] \in DOMAIN ep.addresses
          /\ ep.addresses[x[3]] = ep.addresses[y[3]]
      BY <1>5, <2>2, <2>4
    <3>2. ep \in ToSet(x[1].endpoints)
      BY <3>1, ElemIn DEF SliceFormed
    <3>3. x[3] = y[3]
      BY <3>1, <3>2 DEF SliceFormed
    <3>4. x = <<x[1], x[2], x[3]>> /\ y = <<y[1], y[2], y[3]>>
      BY <1>5, <2>2
    <3> QED
      BY <2>3, <3>3, <3>4
  <2>8. IsFiniteSet(Listing(k, srv[i]))
    BY ListingFinite
  <2>9. Cardinality(Listing(k, srv[i])) > 1
    BY <2>5, <2>6, <2>7, <2>8, MoreThanOne
  <2> QED
    BY <2>4, <2>9
<1>10. Serving(k, srv)
  BY <1>3, <1>7, <1>8, <1>9 DEF Serving
<1> QED
  BY <1>10 DEF srv

\* So does a server that is no pod.
LEMMA OthersServe ==
  ASSUME NEW k, NEW servers, servers # <<>>, \A i \in DOMAIN servers : ~IsPod(servers[i])
  PROVE  Serving(k, servers)
  BY DEF Serving

\* The pods of a Service, sorted: one family's, in whatever order the slices
\* are listed.
LEMMA EndpointFacts ==
  ASSUME NEW k, WellFormed(k), NEW slices \in SetToSeqs(k.slices), NEW ns, NEW ref,
         endpointAddrs(k, slices, ns, ref) # <<>>
  PROVE  \E service, type, sp :
           /\ sp.port \in Nat
           /\ IsListing(endpointAddrs(k, slices, ns, ref), Origins(k.slices, service, type, sp),
                        Servers(Origins(k.slices, service, type, sp), sp))
<1> DEFINE service == <<ns, ref.service>>
           svc     == k.services[service]
           sp      == servicePort(svc, ref)
           fam(type) == familyServers(slices, service, type, sp)
           type    == IF fam("v4") # <<>> THEN "v4" ELSE "v6"
           O       == Origins(k.slices, service, type, sp)
           t       == endpointAddrs(k, slices, ns, ref)
<1>1. service \in DOMAIN k.services /\ sp # None /\ t = sliceEndpointAddrs(slices, service, sp)
  BY DEF endpointAddrs
<1>2. t = ByAddress(fam(type))
  BY <1>1 DEF sliceEndpointAddrs
<1>3. sp.port \in Nat
  <2>1. IsSeq(svc.ports) /\ \A p \in ToSet(svc.ports) : p.port \in Nat
    BY <1>1 DEF WellFormed
  <2> QED
    BY <1>1, <2>1, ServicePortIn
<1>4. IsFiniteSet(k.slices) /\ \A s \in k.slices : SliceFormed(s)
  BY DEF WellFormed
<1> HIDE DEF type, sp, service, t
<1>5. IsListing(fam(type), O, Servers(O, sp))
  BY <1>4, FamilyListing
<1>6. Comparable(fam(type))
  BY <1>3, <1>4, FamilyComparable
<1> HIDE DEF fam
<1>7. IsListing(t, O, Servers(O, sp))
  BY <1>2, <1>5, <1>6, SortListing
<1> QED
  BY <1>3, <1>7 DEF t

\* A backend of an Ingress resolves to servers that serve, or to none.
LEMMA BackendServes ==
  ASSUME NEW k, WellFormed(k), NEW slices \in SetToSeqs(k.slices), NEW ns, NEW ref,
         backendServers(k, slices, ns, ref) # None
  PROVE  Serving(k, backendServers(k, slices, ns, ref))
<1> DEFINE pods == IF k.flags.endpoints /\ ref.service # None
                   THEN endpointAddrs(k, slices, ns, ref) ELSE <<>>
           addr == backendAddr(k, ns, ref)
           r    == backendServers(k, slices, ns, ref)
<1>1. r = IF pods # <<>> THEN [i \in DOMAIN pods |-> Unweighted(pods[i])]
          ELSE IF addr = None THEN None ELSE <<Unweighted(addr)>>
  BY DEF backendServers
<1>2. CASE pods # <<>>
  <2>1. pods = endpointAddrs(k, slices, ns, ref)
    BY <1>2
  <2> HIDE DEF pods
  <2>2. PICK service, type, sp :
          /\ sp.port \in Nat
          /\ IsListing(pods, Origins(k.slices, service, type, sp),
                       Servers(Origins(k.slices, service, type, sp), sp))
    BY <1>2, <2>1, EndpointFacts
  <2>3. Serving(k, [i \in DOMAIN pods |-> Unweighted(pods[i])])
    BY <1>2, <2>2, PodsServe
  <2> QED
    BY <1>1, <1>2, <2>3
<1>3. CASE pods = <<>>
  <2>1. addr # None /\ r = <<Unweighted(addr)>>
    BY <1>1, <1>3
  <2>2. addr.kind = "service"
    BY <2>1 DEF backendAddr, Server
  <2> DEFINE one == <<Unweighted(addr)>>
  <2>3. one # <<>> /\ DOMAIN one = {1} /\ one[1].addr = addr
    BY DEF Unweighted
  <2> HIDE DEF addr, one
  <2>4. \A i \in DOMAIN one : ~IsPod(one[i])
    BY <2>2, <2>3 DEF IsPod
  <2>5. Serving(k, one)
    BY <2>3, <2>4, OthersServe
  <2> QED
    BY <2>1, <2>5 DEF one
<1> QED
  BY <1>2, <1>3

\* The backends of a rule of an HTTPRoute are no pods.
LEMMA RuleServes ==
  ASSUME NEW k, NEW ns, NEW rule, IsSeq(rule.backendRefs), ruleBackends(ns, rule) # <<>>
  PROVE  Serving(k, ruleBackends(ns, rule))
<1> DEFINE refs      == rule.backendRefs
           weighted  == \E i \in DOMAIN refs : refs[i].weight # None
           weight(r) == CASE ~weighted -> 0 [] weighted /\ r.weight = None -> 1 [] OTHER -> r.weight
           serves(r) == gwBackend(ns, r) # None /\ (weighted => weight(r) > 0)
           be(r)     == [addr |-> gwBackend(ns, r), weight |-> weight(r)]
           ss        == [i \in DOMAIN refs |-> IF serves(refs[i]) THEN <<be(refs[i])>> ELSE <<>>]
           f         == ruleBackends(ns, rule)
<1>1. f = FlattenSeq(ss)
  BY DEF ruleBackends, Collect
<1>2. \A r : serves(r) => be(r).addr.kind = "service"
  BY DEF gwBackend, Server
<1> HIDE DEF serves, be
<1>3. \A i \in DOMAIN refs : IsSeq(ss[i]) /\ \A x \in ToSet(ss[i]) : ~IsPod(x)
  <2> TAKE i \in DOMAIN refs
  <2>1. CASE serves(refs[i])
    <3>1. ss[i] = <<be(refs[i])>>
      BY <2>1
    <3> HIDE DEF ss
    <3> QED
      BY <1>2, <2>1, <3>1, OneSeq DEF IsPod
  <2>2. CASE ~serves(refs[i])
    <3>1. ss[i] = <<>>
      BY <2>2
    <3> HIDE DEF ss
    <3> QED
      BY <3>1, NilSeq
  <2> QED
    BY <2>1, <2>2
<1>4. ss = [i \in DOMAIN refs |-> ss[i]]
  OBVIOUS
<1> HIDE DEF ss, f
<1>5. IsSeq(ss) /\ DOMAIN ss = DOMAIN refs
  BY <1>4, MapSeq
<1>6. IsSeq(f) /\ \A x \in ToSet(f) : ~IsPod(x)
  BY <1>1, <1>3, <1>5, JoinSeq
<1>7. \A i \in DOMAIN f : ~IsPod(f[i])
  BY <1>6, ElemIn
<1> QED
  BY <1>7, OthersServe DEF f

-----------------------------------------------------------------------------
(***************************************************************************)
(* Claims that are well formed, and the lists they come in.                *)
(***************************************************************************)
\* A route: a record of these fields, whose switches are on, off or unset.
GoodCfg(cfg) ==
  /\ cfg = [servers |-> cfg.servers, knobs |-> cfg.knobs, redirect |-> cfg.redirect, expr |-> cfg.expr,
            reqHeaders |-> cfg.reqHeaders, respHeaders |-> cfg.respHeaders]
  /\ \A s \in {"ssl", "force-https", "healthcheck"} : cfg.knobs[s] \in BOOLEAN \cup {None}

\* A claim that binds a host: the host names the certificate, and the Secret
\* is one listed for it.
GoodCert(k, c) ==
  /\ c.stem = c.host /\ Concrete(c.host) /\ c.ns # <<>> /\ c.name # <<>>
  /\ <<c.ns, c.name>> \in CertsFor(k, c.host)

\* A claim that the object src of cluster k can make.
Good(k, c, src) ==
  /\ c.src = src
  /\ c.kind \in {"route", "regex"} => GoodCfg(c.cfg) /\ Serving(k, c.cfg.servers)
  /\ c.kind = "pass" => c.host # <<>> /\ c.upstream # None
  /\ c.kind = "cert" => src[1] \in {0, 1} /\ (c.host # <<>> => GoodCert(k, c))

\* A list of such claims.
AllGood(k, s, src) == IsSeq(s) /\ \A c \in ToSet(s) : Good(k, c, src)

\* No claims are well formed.
LEMMA NilGood == \A k, src, s : s = <<>> => AllGood(k, s, src)
  BY NilSeq DEF AllGood

\* One claim that is well formed.
LEMMA OneGood ==
  ASSUME NEW k, NEW src, NEW c, Good(k, c, src)
  PROVE  AllGood(k, <<c>>, src)
  BY OneSeq DEF AllGood

\* Claims after other claims of the same object.
LEMMA ConcatGood ==
  ASSUME NEW k, NEW src, NEW f, NEW s, AllGood(k, f, src), AllGood(k, s, src)
  PROVE  AllGood(k, f \o s, src)
  BY ConcatFacts DEF AllGood

\* One claim for each element of a list.
LEMMA MapGood ==
  ASSUME NEW k, NEW src, NEW s, IsSeq(s), NEW g, g = [i \in DOMAIN s |-> g[i]],
         \A i \in DOMAIN s : Good(k, g[i], src)
  PROVE  AllGood(k, g, src)
<1>1. IsSeq(g) /\ DOMAIN g = DOMAIN s
  BY MapSeq
<1> QED
  BY <1>1 DEF AllGood, ToSet

\* The claims of each element of a list.
LEMMA JoinGood ==
  ASSUME NEW k, NEW src, NEW s, IsSeq(s), NEW ss, ss = [i \in DOMAIN s |-> ss[i]],
         \A i \in DOMAIN s : AllGood(k, ss[i], src)
  PROVE  AllGood(k, FlattenSeq(ss), src)
<1>1. IsSeq(ss) /\ DOMAIN ss = DOMAIN s
  BY MapSeq
<1>2. \A i \in DOMAIN ss : IsSeq(ss[i])
  BY <1>1 DEF AllGood
<1> QED
  BY <1>1, <1>2, JoinSeq DEF AllGood

\* parseAnnotations gives the switches a Boolean or leaves them unset.
LEMMA KnobsBoolean ==
  ASSUME NEW ann, NEW s \in {"ssl", "force-https", "healthcheck"}
  PROVE  parseAnnotations(ann).knobs[s] \in BOOLEAN \cup {None}
<1> DEFINE kn == knobs(ann)
<1>1. parseAnnotations(ann).knobs = kn
  BY DEF parseAnnotations
<1>2. \A v : parseBool(v) \in BOOLEAN \cup {None}
  BY DEF parseBool
<1>3. CASE s = "ssl"
  <2> DEFINE protocol == Either(ann, "backend-protocol")
  <2>1. kn["ssl"] = IF protocol \in {None, ""} THEN None ELSE protocol = "HTTPS"
    BY DEF knobs, Knobs, Switches, Timeouts
  <2> HIDE DEF protocol, kn
  <2> QED
    BY <1>1, <1>3, <2>1, Zenon
<1>4. CASE s = "force-https"
  <2> DEFINE force == Get(ann, <<Synapse("force-https"), Synapse("ssl-redirect"), Nginx("ssl-redirect")>>)
  <2>1. kn["force-https"] = parseBool(force)
    BY DEF knobs, Knobs, Switches, Timeouts
  <2> HIDE DEF force, kn
  <2> QED
    BY <1>1, <1>2, <1>4, <2>1
<1>5. CASE s = "healthcheck"
  <2>1. kn["healthcheck"] = parseBool(Own(ann, "healthcheck"))
    BY DEF knobs, Knobs, Switches, Timeouts
  <2> HIDE DEF kn
  <2> QED
    BY <1>1, <1>2, <1>5, <2>1
<1> QED
  BY <1>3, <1>4, <1>5

\* routeCfg is well formed, whatever the servers and the headers.
LEMMA CfgGood ==
  ASSUME NEW servers, NEW ann, NEW req, NEW resp
  PROVE  /\ GoodCfg(routeCfg(servers, parseAnnotations(ann), req, resp))
         /\ routeCfg(servers, parseAnnotations(ann), req, resp).servers = servers
<1> DEFINE a == parseAnnotations(ann)
<1>1. \A s \in {"ssl", "force-https", "healthcheck"} : a.knobs[s] \in BOOLEAN \cup {None}
  BY KnobsBoolean
<1> HIDE DEF a
<1>2. GoodCfg(routeCfg(servers, a, req, resp)) /\ routeCfg(servers, a, req, resp).servers = servers
  BY <1>1 DEF GoodCfg, routeCfg
<1> QED
  BY <1>2 DEF a

\* server-alias, under either prefix, is a list.
LEMMA AliasSeq ==
  ASSUME NEW ann, \A key \in Aliases \cap DOMAIN ann : IsSeq(ann[key])
  PROVE  IsSeq(parseAnnotations(ann).serverAliases)
<1> DEFINE keys == <<Synapse("server-alias"), Nginx("server-alias")>>
           set == {i \in DOMAIN keys : keys[i] \in DOMAIN ann}
           v == Get(ann, keys)
<1>1. parseAnnotations(ann).serverAliases = csv(v)
  BY DEF parseAnnotations, Either
<1>2. DOMAIN keys = 1..2 /\ keys[1] = Synapse("server-alias") /\ keys[2] = Nginx("server-alias")
  OBVIOUS
<1>3. \A i \in DOMAIN keys : keys[i] \in Aliases
  BY <1>2 DEF Aliases
<1>4. v = IF set = {} THEN None ELSE ann[keys[Min(set)]]
  BY DEF Get
<1> HIDE DEF v, keys
<1>5. set # {} => Min(set) \in set
  <2> SUFFICES ASSUME set # {} PROVE Min(set) \in set
    OBVIOUS
  <2>1. set \subseteq 1..2
    BY <1>2
  <2>2. \E x \in set : \A y \in set : x <= y
    BY <2>1
  <2> QED
    BY <2>2 DEF Min
<1>6. v = None \/ IsSeq(v)
  <2>1. CASE set = {}
    BY <1>4, <2>1
  <2>2. CASE set # {}
    <3>1. keys[Min(set)] \in Aliases \cap DOMAIN ann
      BY <1>3, <1>5, <2>2
    <3> QED
      BY <1>4, <2>2, <3>1
  <2> QED
    BY <2>1, <2>2
<1>7. IsSeq(csv(v))
  <2>1. CASE v = None
    BY <2>1, NilSeq DEF csv
  <2>2. CASE v # None
    BY <1>6, <2>2 DEF csv
  <2> QED
    BY <2>1, <2>2
<1> QED
  BY <1>1, <1>7

\* The claims made of a well-formed route, by kind.
LEMMA RouteGood ==
  ASSUME NEW k, NEW src, NEW host, NEW path, NEW cfg, GoodCfg(cfg), Serving(k, cfg.servers), NEW a
  PROVE  Good(k, RouteClaim(src, host, path, cfg, a), src)
  BY DEF Good, RouteClaim

\* The same for a regular expression.
LEMMA RegexGood ==
  ASSUME NEW k, NEW src, NEW host, NEW regex, NEW cfg, GoodCfg(cfg), Serving(k, cfg.servers), NEW a
  PROVE  Good(k, RegexClaim(src, host, regex, cfg, a), src)
  BY DEF Good, RegexClaim

\* The claim of a challenge solver is always well formed.
LEMMA AcmeGood ==
  ASSUME NEW k, NEW src, NEW upstream
  PROVE  Good(k, AcmeClaim(src, upstream), src)
  BY DEF Good, AcmeClaim

\* And so is that of sticky sessions.
LEMMA StickyGood ==
  ASSUME NEW k, NEW src, NEW a
  PROVE  AllGood(k, Sticky(src, a), src)
<1>1. CASE a.sticky
  <2> DEFINE c == [kind |-> "sticky", src |-> src]
  <2>1. Good(k, c, src)
    BY DEF Good
  <2>2. Sticky(src, a) = <<c>>
    BY <1>1 DEF Sticky
  <2> HIDE DEF c
  <2> QED
    BY <2>1, <2>2, OneGood
<1>2. CASE ~a.sticky
  BY <1>2, NilGood DEF Sticky
<1> QED
  BY <1>1, <1>2

\* A certificate that is bound to a host is one listed for it.
LEMMA CertGood ==
  ASSUME NEW k, NEW src, src[1] \in {0, 1}, NEW host, NEW ns, NEW secret, ns # <<>>, secret # <<>>,
         Concrete(host) => <<ns, secret>> \in CertsFor(k, host)
  PROVE  Good(k, CertClaim(src, host, ns, secret), src)
<1> DEFINE c == CertClaim(src, host, ns, secret)
<1>1. /\ c.kind = "cert" /\ c.src = src /\ c.ns = ns /\ c.name = secret
      /\ c.stem = certStem(host, ns, secret)
      /\ c.host = IF Concrete(host) THEN host ELSE <<>>
  BY DEF CertClaim
<1> HIDE DEF c
<1>2. ASSUME c.host # <<>> PROVE GoodCert(k, c)
  <2>1. Concrete(host) /\ c.host = host /\ c.stem = host
    BY <1>1, <1>2 DEF certStem
  <2> QED
    BY <1>1, <2>1 DEF GoodCert
<1>3. Good(k, c, src)
  BY <1>1, <1>2 DEF Good
<1> QED
  BY <1>3 DEF c

-----------------------------------------------------------------------------
(***************************************************************************)
(* What each object claims.                                                *)
(***************************************************************************)
\* A Secret that an Ingress of ours lists for a host is in CertsFor.
LEMMA ListedByIngress ==
  ASSUME NEW k, NEW h, NEW ing \in k.ingresses, isOurs(k, ing), NEW t \in ToSet(ing.tls), t.secret # <<>>,
         h \in ToSet(t.hosts) \/ (t.hosts = <<>> /\ \E r \in ToSet(ing.rules) : r.host = h)
  PROVE  <<ing.ns, t.secret>> \in CertsFor(k, h)
<1>1. <<ing.ns, t.secret>> \in IngressCerts(k, ing, h)
  BY DEF IngressCerts
<1> QED
  BY <1>1 DEF CertsFor

\* A Secret that a listener of ours refers to is in CertsFor of its hostname.
LEMMA ListedByGateway ==
  ASSUME NEW k, NEW gw \in k.gateways, k.flags.gatewayAPI, GatewayIsOurs(k, gw),
         NEW l \in ToSet(gw.listeners), l.tls = "terminate", NEW r \in ToSet(l.refs), r.kind = "Secret"
  PROVE  <<IF r.ns = None THEN gw.ns ELSE r.ns, r.name>> \in CertsFor(k, l.hostname)
<1> DEFINE id == <<IF r.ns = None THEN gw.ns ELSE r.ns, r.name>>
<1>1. id \in ListenerCerts(gw, l)
  BY DEF ListenerCerts
<1> HIDE DEF id
<1>2. id \in GatewayCerts(k, gw, l.hostname)
  BY <1>1 DEF GatewayCerts
<1>3. id \in CertsFor(k, l.hostname)
  BY <1>2 DEF CertsFor
<1> QED
  BY <1>3 DEF id

\* The claims of a TLS entry: certificates it lists for hosts it covers.
LEMMA TlsGood ==
  ASSUME NEW k, WellFormed(k), NEW src, src[1] \in {0, 1}, NEW ing \in k.ingresses, isOurs(k, ing),
         NEW t \in ToSet(ing.tls)
  PROVE  AllGood(k, tlsClaims(src, ing, t), src)
<1> DEFINE hs    == [i \in DOMAIN ing.rules |-> ing.rules[i].host]
           ruled == Drop(hs, {<<>>})
           hosts == IF t.hosts # <<>> THEN t.hosts ELSE ruled
           cs    == [i \in DOMAIN hosts |-> CertClaim(src, hosts[i], ing.ns, t.secret)]
<1>1. ing.ns # <<>> /\ IsSeq(t.hosts) /\ IsSeq(ing.rules)
  BY DEF WellFormed
<1>2. IsSeq(hs) /\ \A h \in ToSet(hs) : \E r \in ToSet(ing.rules) : r.host = h
  <2>1. IsSeq(hs)
    <3>1. hs = [i \in DOMAIN ing.rules |-> hs[i]]
      OBVIOUS
    <3> HIDE DEF hs
    <3> QED
      BY <1>1, <3>1, MapSeq
  <2> QED
    BY <2>1 DEF ToSet
<1> HIDE DEF hs
<1>3. IsSeq(ruled) /\ ToSet(ruled) = ToSet(hs) \ {<<>>}
  BY <1>2, DropFacts
<1> HIDE DEF ruled
<1>4. IsSeq(hosts)
  BY <1>1, <1>3
<1>5. ASSUME t.secret # <<>>, NEW h \in ToSet(hosts) PROVE <<ing.ns, t.secret>> \in CertsFor(k, h)
  <2>1. CASE t.hosts # <<>>
    BY <1>5, <2>1, ListedByIngress
  <2>2. CASE t.hosts = <<>>
    BY <1>2, <1>3, <1>5, <2>2, ListedByIngress
  <2> QED
    BY <2>1, <2>2
<1>6. tlsClaims(src, ing, t) =
        CASE t.secret = <<>> -> <<>>
          [] t.secret # <<>> /\ hosts = <<>> -> <<CertClaim(src, <<>>, ing.ns, t.secret)>>
          [] OTHER -> cs
  BY DEF tlsClaims, ruled, hs
<1> HIDE DEF hosts
<1>7. CASE t.secret = <<>>
  BY <1>6, <1>7, NilGood
<1>8. CASE t.secret # <<>> /\ hosts = <<>>
  <2> DEFINE nil == <<>>
             c == CertClaim(src, nil, ing.ns, t.secret)
  <2>1. ~Concrete(nil)
    BY DEF Concrete
  <2> HIDE DEF nil
  <2>2. Good(k, c, src)
    <3>1. Concrete(nil) => <<ing.ns, t.secret>> \in CertsFor(k, nil)
      BY <2>1
    <3>2. ing.ns # <<>> /\ t.secret # <<>>
      BY <1>1, <1>8
    <3> QED
      BY <3>1, <3>2, CertGood
  <2> USE DEF nil
  <2>3. tlsClaims(src, ing, t) = <<c>>
    BY <1>6, <1>8
  <2> HIDE DEF c
  <2> QED
    BY <2>2, <2>3, OneGood
<1>9. CASE t.secret # <<>> /\ hosts # <<>>
  <2>1. ASSUME NEW i \in DOMAIN hosts PROVE Good(k, CertClaim(src, hosts[i], ing.ns, t.secret), src)
    <3>1. <<ing.ns, t.secret>> \in CertsFor(k, hosts[i])
      BY <1>4, <1>5, <1>9, ElemIn
    <3> QED
      BY <1>1, <1>9, <3>1, CertGood
  <2>2. cs = [i \in DOMAIN hosts |-> cs[i]] /\ \A i \in DOMAIN hosts : Good(k, cs[i], src)
    BY <2>1
  <2>3. tlsClaims(src, ing, t) = cs
    BY <1>6, <1>9
  <2> HIDE DEF cs
  <2> QED
    BY <1>4, <2>2, <2>3, MapGood
<1> QED
  BY <1>7, <1>8, <1>9

\* The claims of a path of a rule, for its host and the aliases.
LEMMA PathGood ==
  ASSUME NEW k, WellFormed(k), NEW slices \in SetToSeqs(k.slices), NEW src, NEW ing,
         NEW ann, IsSeq(parseAnnotations(ann).serverAliases), NEW host, NEW p
  PROVE  AllGood(k, pathClaims(k, slices, src, ing, parseAnnotations(ann), host, p), src)
<1> DEFINE a       == parseAnnotations(ann)
           servers == backendServers(k, slices, ing.ns, p.backend)
           path    == IF p.path = <<"", 0>> THEN Root ELSE p.path
           cfg     == routeCfg(servers, a, <<>>, <<>>)
           alias   == Drop(a.serverAliases, {<<>>, host})
           hosts   == <<host>> \o alias
           rx      == [i \in DOMAIN hosts |-> RegexClaim(src, hosts[i], <<FALSE, path>>, cfg, a)]
           rt      == [i \in DOMAIN hosts |-> RouteClaim(src, hosts[i], path, cfg, a)]
           ac      == AcmeClaim(src, backendAddr(k, ing.ns, p.backend))
           r       == pathClaims(k, slices, src, ing, a, host, p)
<1>1. GoodCfg(cfg) /\ cfg.servers = servers
  BY CfgGood
<1>9. servers # None => Serving(k, cfg.servers)
  BY <1>1, BackendServes
<1>2. IsSeq(hosts)
  <2>1. IsSeq(alias)
    BY DropFacts
  <2> HIDE DEF alias
  <2> QED
    BY <2>1, OneSeq, ConcatFacts
<1>3. r = CASE servers = None -> <<>>
            [] servers # None /\ a.useRegex -> rx
            [] servers # None /\ ~a.useRegex /\ Challenge(path) -> <<ac>>
            [] OTHER -> rt
  BY DEF pathClaims
<1>4. ASSUME servers # None PROVE AllGood(k, rx, src)
  <2>1. rx = [i \in DOMAIN hosts |-> rx[i]]
    OBVIOUS
  <2>2. \A i \in DOMAIN hosts : rx[i] = RegexClaim(src, hosts[i], <<FALSE, path>>, cfg, a)
    OBVIOUS
  <2> HIDE DEF rx, hosts, cfg, a, path
  <2>3. \A i \in DOMAIN hosts : Good(k, rx[i], src)
    BY <1>1, <1>4, <1>9, <2>2, RegexGood
  <2> QED
    BY <1>2, <2>1, <2>3, MapGood
<1>5. ASSUME servers # None PROVE AllGood(k, rt, src)
  <2>1. rt = [i \in DOMAIN hosts |-> rt[i]]
    OBVIOUS
  <2>2. \A i \in DOMAIN hosts : rt[i] = RouteClaim(src, hosts[i], path, cfg, a)
    OBVIOUS
  <2> HIDE DEF rt, hosts, cfg, a, path
  <2>3. \A i \in DOMAIN hosts : Good(k, rt[i], src)
    BY <1>1, <1>5, <1>9, <2>2, RouteGood
  <2> QED
    BY <1>2, <2>1, <2>3, MapGood
<1>6. AllGood(k, <<ac>>, src)
  BY AcmeGood, OneGood
<1> HIDE DEF rx, rt, ac, r, path, servers
<1>7. CASE servers = None
  BY <1>3, <1>7, NilGood DEF r, a
<1>8. CASE servers # None
  <2>1. r = rx \/ r = <<ac>> \/ r = rt
    BY <1>3, <1>8
  <2> QED
    BY <1>4, <1>5, <1>6, <1>8, <2>1 DEF r, a
<1> QED
  BY <1>7, <1>8

\* The claims of a rule, passed through or routed.
LEMMA RuleGood ==
  ASSUME NEW k, WellFormed(k), NEW slices \in SetToSeqs(k.slices), NEW src, NEW ing,
         NEW ann, IsSeq(parseAnnotations(ann).serverAliases), NEW rule, rule.http => IsSeq(rule.paths)
  PROVE  AllGood(k, ruleClaims(k, slices, src, ing, parseAnnotations(ann), rule), src)
<1> DEFINE a        == parseAnnotations(ann)
           addrs    == [i \in DOMAIN rule.paths |-> backendAddr(k, ing.ns, rule.paths[i].backend)]
           resolved == Drop(addrs, {None})
           c        == [kind |-> "pass", src |-> src, host |-> rule.host, upstream |-> Head(resolved)]
           ss       == [i \in DOMAIN rule.paths |-> pathClaims(k, slices, src, ing, a, rule.host, rule.paths[i])]
           r        == ruleClaims(k, slices, src, ing, a, rule)
<1>1. r = CASE rule.host = <<>> \/ ~rule.http -> <<>>
            [] rule.host # <<>> /\ rule.http /\ a.passthrough -> IF resolved = <<>> THEN <<>> ELSE <<c>>
            [] OTHER -> FlattenSeq(ss)
  BY DEF ruleClaims, Collect
<1>2. CASE rule.host = <<>> \/ ~rule.http
  <2> HIDE DEF a, resolved, c, ss
  <2>1. r = <<>>
    BY <1>1, <1>2
  <2> HIDE DEF r
  <2>2. AllGood(k, r, src)
    BY <2>1, NilGood
  <2> QED
    BY <2>2 DEF r, a
<1>3. CASE rule.host # <<>> /\ rule.http /\ a.passthrough
  <2>1. IsSeq(resolved) /\ None \notin ToSet(resolved)
    <3>1. addrs = [i \in DOMAIN rule.paths |-> addrs[i]]
      OBVIOUS
    <3> HIDE DEF addrs
    <3>2. IsSeq(addrs)
      BY <1>3, <3>1, MapSeq
    <3> QED
      BY <3>2, DropFacts
  <2> HIDE DEF resolved
  <2>2. r = IF resolved = <<>> THEN <<>> ELSE <<c>>
    BY <1>1, <1>3
  <2>3. CASE resolved = <<>>
    <3>1. r = <<>>
      BY <2>2, <2>3
    <3> HIDE DEF r
    <3>2. AllGood(k, r, src)
      BY <3>1, NilGood
    <3> QED
      BY <3>2 DEF r, a
  <2>4. CASE resolved # <<>>
    <3>1. Head(resolved) \in ToSet(resolved)
      BY <2>1, <2>4 DEF IsSeq
    <3>2. Good(k, c, src)
      BY <1>3, <2>1, <3>1 DEF Good
    <3>3. r = <<c>>
      BY <2>2, <2>4
    <3> HIDE DEF r, c
    <3>4. AllGood(k, r, src)
      BY <3>2, <3>3, OneGood
    <3> QED
      BY <3>4 DEF r, a
  <2> QED
    BY <2>3, <2>4
<1>4. CASE rule.host # <<>> /\ rule.http /\ ~a.passthrough
  <2>1. r = FlattenSeq(ss)
    BY <1>1, <1>4
  <2>2. ss = [i \in DOMAIN rule.paths |-> ss[i]] /\ \A i \in DOMAIN rule.paths : AllGood(k, ss[i], src)
    BY PathGood
  <2> HIDE DEF ss
  <2>3. AllGood(k, FlattenSeq(ss), src)
    BY <1>4, <2>2, JoinGood
  <2> QED
    BY <2>1, <2>3
<1> QED
  BY <1>2, <1>3, <1>4

\* The claims of an Ingress.
LEMMA IngressGood ==
  ASSUME NEW k, WellFormed(k), NEW slices \in SetToSeqs(k.slices), NEW ing \in k.ingresses
  PROVE  AllGood(k, ingressClaims(k, slices, ing), <<0, ing.id>>)
<1> DEFINE src == <<0, ing.id>>
           a   == parseAnnotations(ing.ann)
           ts  == [i \in DOMAIN ing.tls |-> tlsClaims(src, ing, ing.tls[i])]
           rs  == [i \in DOMAIN ing.rules |-> ruleClaims(k, slices, src, ing, a, ing.rules[i])]
           r   == ingressClaims(k, slices, ing)
<1>1. r = IF ~isOurs(k, ing) THEN <<>> ELSE (Sticky(src, a) \o FlattenSeq(ts)) \o FlattenSeq(rs)
  BY DEF ingressClaims, Collect
<1>2. /\ IsSeq(ing.tls) /\ IsSeq(ing.rules) /\ \A x \in ToSet(ing.rules) : x.http => IsSeq(x.paths)
      /\ IsSeq(a.serverAliases)
  BY AliasSeq DEF WellFormed
<1>3. AllGood(k, Sticky(src, a), src)
  BY StickyGood
<1>4. ASSUME isOurs(k, ing) PROVE AllGood(k, FlattenSeq(ts), src)
  <2>1. ts = [i \in DOMAIN ing.tls |-> ts[i]]
    OBVIOUS
  <2>2. ASSUME NEW i \in DOMAIN ing.tls PROVE AllGood(k, ts[i], src)
    <3>1. src[1] \in {0, 1} /\ ing.tls[i] \in ToSet(ing.tls)
      BY <1>2, ElemIn
    <3> HIDE DEF src
    <3> QED
      BY <1>4, <3>1, TlsGood
  <2> HIDE DEF ts, src
  <2> QED
    BY <1>2, <2>1, <2>2, JoinGood
<1>5. AllGood(k, FlattenSeq(rs), src)
  <2>1. rs = [i \in DOMAIN ing.rules |-> rs[i]]
    OBVIOUS
  <2>2. ASSUME NEW i \in DOMAIN ing.rules PROVE AllGood(k, rs[i], src)
    <3>1. ing.rules[i] \in ToSet(ing.rules)
      BY <1>2, ElemIn
    <3>2. ing.rules[i].http => IsSeq(ing.rules[i].paths)
      BY <1>2, <3>1
    <3> HIDE DEF src
    <3> QED
      BY <1>2, <3>2, RuleGood
  <2> HIDE DEF rs, src
  <2> QED
    BY <1>2, <2>1, <2>2, JoinGood
<1> HIDE DEF r, ts, rs, src, a
<1>6. AllGood(k, r, src)
  <2>1. CASE ~isOurs(k, ing)
    BY <1>1, <2>1, NilGood
  <2>2. CASE isOurs(k, ing)
    <3>1. AllGood(k, Sticky(src, a) \o FlattenSeq(ts), src)
      BY <1>3, <1>4, <2>2, ConcatGood
    <3>2. AllGood(k, (Sticky(src, a) \o FlattenSeq(ts)) \o FlattenSeq(rs), src)
      BY <1>5, <3>1, ConcatGood
    <3> QED
      BY <1>1, <2>2, <3>2
  <2> QED
    BY <2>1, <2>2
<1> QED
  BY <1>6 DEF r, src

\* Gateways only list certificates.
OnlyCerts(s) == \A c \in ToSet(s) : c.kind = "cert"

\* The claims of a listener.
LEMMA ListenerGood ==
  ASSUME NEW k, WellFormed(k), k.flags.gatewayAPI, NEW gw \in k.gateways, GatewayIsOurs(k, gw),
         NEW src, src[1] \in {0, 1}, NEW l \in ToSet(gw.listeners)
  PROVE  AllGood(k, listenerClaims(src, gw, l), src) /\ OnlyCerts(listenerClaims(src, gw, l))
<1> DEFINE id(x) == IF x.ns = None THEN gw.ns ELSE x.ns
           cc(x) == CertClaim(src, l.hostname, id(x), x.name)
           ss == [i \in DOMAIN l.refs |-> IF l.refs[i].kind # "Secret" THEN <<>> ELSE <<cc(l.refs[i])>>]
           r  == listenerClaims(src, gw, l)
<1>1. r = IF l.tls # "terminate" THEN <<>> ELSE FlattenSeq(ss)
  BY DEF listenerClaims, Collect
<1>2. IsSeq(l.refs) /\ gw.ns # <<>> /\ \A x \in ToSet(l.refs) : x.ns # <<>> /\ x.name # <<>>
  BY DEF WellFormed
<1>3. CASE l.tls # "terminate"
  <2>1. r = <<>>
    BY <1>1, <1>3
  <2> HIDE DEF r
  <2>2. AllGood(k, r, src) /\ OnlyCerts(r)
    BY <2>1, NilGood, NilSeq DEF OnlyCerts
  <2> QED
    BY <2>2 DEF r
<1>4. CASE l.tls = "terminate"
  <2>1. ss = [i \in DOMAIN l.refs |-> ss[i]]
    OBVIOUS
  <2>2. ASSUME NEW i \in DOMAIN l.refs PROVE AllGood(k, ss[i], src) /\ OnlyCerts(ss[i])
    <3> DEFINE x == l.refs[i]
    <3>1. x \in ToSet(l.refs) /\ id(x) # <<>> /\ x.name # <<>>
      BY <1>2, ElemIn
    <3>2. CASE x.kind # "Secret"
      <4>1. ss[i] = <<>>
        BY <3>2
      <4> HIDE DEF ss
      <4> QED
        BY <4>1, NilGood, NilSeq DEF OnlyCerts
    <3>3. CASE x.kind = "Secret"
      <4>1. ss[i] = <<cc(x)>>
        BY <3>3
      <4>2. <<id(x), x.name>> \in CertsFor(k, l.hostname)
        BY <1>4, <3>1, <3>3, ListedByGateway
      <4> HIDE DEF ss, x, id
      <4>3. Good(k, cc(x), src)
        BY <3>1, <4>2, CertGood
      <4>4. cc(x).kind = "cert"
        BY DEF CertClaim
      <4> HIDE DEF cc
      <4> QED
        BY <4>1, <4>3, <4>4, OneGood, OneSeq DEF OnlyCerts
    <3> QED
      BY <3>2, <3>3
  <2> HIDE DEF ss
  <2>3. AllGood(k, FlattenSeq(ss), src)
    BY <1>2, <2>1, <2>2, JoinGood
  <2>4. OnlyCerts(FlattenSeq(ss))
    <3>1. IsSeq(ss) /\ DOMAIN ss = DOMAIN l.refs
      BY <1>2, <2>1, MapSeq
    <3>2. \A i \in DOMAIN ss : IsSeq(ss[i])
      BY <2>2, <3>1 DEF AllGood
    <3> QED
      BY <2>2, <3>1, <3>2, JoinSeq DEF OnlyCerts
  <2> QED
    BY <1>1, <1>4, <2>3, <2>4
<1> QED
  BY <1>3, <1>4

\* The claims of a Gateway.
LEMMA GatewayGood ==
  ASSUME NEW k, WellFormed(k), k.flags.gatewayAPI, NEW gw \in k.gateways
  PROVE  AllGood(k, gatewayClaims(k, gw), <<1, gw.id>>) /\ OnlyCerts(gatewayClaims(k, gw))
<1> DEFINE src == <<1, gw.id>>
           ss  == [i \in DOMAIN gw.listeners |-> listenerClaims(src, gw, gw.listeners[i])]
           r   == gatewayClaims(k, gw)
<1>1. r = IF ~GatewayIsOurs(k, gw) THEN <<>> ELSE FlattenSeq(ss)
  BY DEF gatewayClaims, Collect
<1>2. IsSeq(gw.listeners)
  BY DEF WellFormed
<1>3. CASE ~GatewayIsOurs(k, gw)
  <2>1. r = <<>>
    BY <1>1, <1>3
  <2> HIDE DEF r
  <2>2. AllGood(k, r, src) /\ OnlyCerts(r)
    BY <2>1, NilGood, NilSeq DEF OnlyCerts
  <2> QED
    BY <2>2 DEF r
<1>4. CASE GatewayIsOurs(k, gw)
  <2>1. ss = [i \in DOMAIN gw.listeners |-> ss[i]]
    OBVIOUS
  <2>2. ASSUME NEW i \in DOMAIN gw.listeners PROVE AllGood(k, ss[i], src) /\ OnlyCerts(ss[i])
    <3>1. src[1] \in {0, 1} /\ gw.listeners[i] \in ToSet(gw.listeners)
      BY <1>2, ElemIn
    <3> HIDE DEF src
    <3> QED
      BY <1>4, <3>1, ListenerGood
  <2> HIDE DEF ss, src
  <2>3. AllGood(k, FlattenSeq(ss), src)
    BY <1>2, <2>1, <2>2, JoinGood
  <2>4. OnlyCerts(FlattenSeq(ss))
    <3>1. IsSeq(ss) /\ DOMAIN ss = DOMAIN gw.listeners
      BY <1>2, <2>1, MapSeq
    <3>2. \A i \in DOMAIN ss : IsSeq(ss[i])
      BY <2>2, <3>1 DEF AllGood
    <3> QED
      BY <2>2, <3>1, <3>2, JoinSeq DEF OnlyCerts
  <2> QED
    BY <1>1, <1>4, <2>3, <2>4 DEF src
<1> QED
  BY <1>3, <1>4

\* What a rule of an HTTPRoute matches are two lists.
LEMMA RulePathsSeq ==
  ASSUME NEW rule, IsSeq(rule.matches)
  PROVE  IsSeq(rulePaths(rule).paths) /\ IsSeq(rulePaths(rule).regexes)
<1> DEFINE ms == rule.matches
           v(mt, default) == IF mt.value = None THEN default ELSE mt.value
           ps == [i \in DOMAIN ms |-> IF ms[i].type = "regex" THEN <<>> ELSE <<v(ms[i], Root)>>]
           rs == [i \in DOMAIN ms |-> IF ms[i].type # "regex" THEN <<>> ELSE <<v(ms[i], <<FALSE, Root>>)>>]
<1>1. CASE ms = <<>>
  <2>1. rulePaths(rule).paths = <<Root>> /\ rulePaths(rule).regexes = <<>>
    BY <1>1 DEF rulePaths
  <2> QED
    BY <2>1, OneSeq, NilSeq
<1>2. CASE ms # <<>>
  <2>1. rulePaths(rule).paths = FlattenSeq(ps) /\ rulePaths(rule).regexes = FlattenSeq(rs)
    BY <1>2 DEF rulePaths, Collect
  <2>2. ps = [i \in DOMAIN ms |-> ps[i]] /\ rs = [i \in DOMAIN ms |-> rs[i]]
    OBVIOUS
  <2>3. \A i \in DOMAIN ms : (ps[i] = <<>> \/ \E x : ps[i] = <<x>>) /\ (rs[i] = <<>> \/ \E x : rs[i] = <<x>>)
    <3> HIDE DEF v
    <3> QED
      OBVIOUS
  <2> HIDE DEF ps, rs
  <2>4. /\ IsSeq(ps) /\ DOMAIN ps = DOMAIN ms /\ \A i \in DOMAIN ps : IsSeq(ps[i])
        /\ IsSeq(rs) /\ DOMAIN rs = DOMAIN ms /\ \A i \in DOMAIN rs : IsSeq(rs[i])
    BY <2>2, <2>3, MapSeq, NilSeq, OneSeq
  <2>5. IsSeq(FlattenSeq(ps)) /\ IsSeq(FlattenSeq(rs))
    BY <2>4, JoinSeq
  <2> QED
    BY <2>1, <2>5
<1> QED
  BY <1>1, <1>2

\* The claims of a rule of an HTTPRoute.
LEMMA HTTPRuleGood ==
  ASSUME NEW k, NEW src, NEW rt, IsSeq(rt.hostnames), NEW ann,
         NEW rule, IsSeq(rule.matches), IsSeq(rule.backendRefs)
  PROVE  AllGood(k, httpRuleClaims(src, rt, parseAnnotations(ann), rule), src)
<1> DEFINE a       == parseAnnotations(ann)
           servers == ruleBackends(rt.ns, rule)
           cfg     == routeCfg(servers, a, headerFilters(rule.filters, "request"),
                               headerFilters(rule.filters, "response"))
           paths   == rulePaths(rule).paths
           regexes == rulePaths(rule).regexes
           acme    == AcmeClaim(src, servers[1].addr)
           pre(h, p) == IF Challenge(p) THEN acme ELSE RouteClaim(src, h, p, cfg, a)
           ps      == [j \in DOMAIN paths |-> [i \in DOMAIN rt.hostnames |-> pre(rt.hostnames[i], paths[j])]]
           rs      == [j \in DOMAIN regexes |->
                         [i \in DOMAIN rt.hostnames |-> RegexClaim(src, rt.hostnames[i], regexes[j], cfg, a)]]
           r       == httpRuleClaims(src, rt, a, rule)
<1>1. r = IF servers = <<>> THEN <<>> ELSE FlattenSeq(ps) \o FlattenSeq(rs)
  BY DEF httpRuleClaims, Collect
<1>2. GoodCfg(cfg) /\ (servers # <<>> => Serving(k, cfg.servers))
  BY CfgGood, RuleServes
<1>3. IsSeq(paths) /\ IsSeq(regexes)
  BY RulePathsSeq
<1> HIDE DEF servers, cfg, paths, regexes, a
<1>4. Good(k, acme, src)
  BY AcmeGood
<1>5. ASSUME servers # <<>> PROVE \A h, p : Good(k, pre(h, p), src)
  <2> HIDE DEF acme
  <2> SUFFICES ASSUME NEW h, NEW p PROVE Good(k, pre(h, p), src)
    OBVIOUS
  <2>1. Good(k, RouteClaim(src, h, p, cfg, a), src)
    BY <1>2, <1>5, RouteGood
  <2> QED
    BY <1>4, <2>1
<1> HIDE DEF pre
<1>6. ASSUME servers # <<>> PROVE AllGood(k, FlattenSeq(ps), src)
  <2>1. ASSUME NEW j \in DOMAIN paths PROVE AllGood(k, ps[j], src)
    <3> DEFINE g == [i \in DOMAIN rt.hostnames |-> pre(rt.hostnames[i], paths[j])]
    <3>1. g = [i \in DOMAIN rt.hostnames |-> g[i]] /\ \A i \in DOMAIN rt.hostnames : Good(k, g[i], src)
      BY <1>5, <1>6
    <3>2. ps[j] = g
      OBVIOUS
    <3> HIDE DEF g, ps
    <3> QED
      BY <3>1, <3>2, MapGood
  <2>2. ps = [j \in DOMAIN paths |-> ps[j]]
    OBVIOUS
  <2> HIDE DEF ps
  <2> QED
    BY <1>3, <2>1, <2>2, JoinGood
<1>7. ASSUME servers # <<>> PROVE AllGood(k, FlattenSeq(rs), src)
  <2>1. ASSUME NEW j \in DOMAIN regexes PROVE AllGood(k, rs[j], src)
    <3> DEFINE g == [i \in DOMAIN rt.hostnames |-> RegexClaim(src, rt.hostnames[i], regexes[j], cfg, a)]
    <3>1. g = [i \in DOMAIN rt.hostnames |-> g[i]] /\ \A i \in DOMAIN rt.hostnames : Good(k, g[i], src)
      BY <1>2, <1>7, RegexGood
    <3>2. rs[j] = g
      OBVIOUS
    <3> HIDE DEF g, rs
    <3> QED
      BY <3>1, <3>2, MapGood
  <2>2. rs = [j \in DOMAIN regexes |-> rs[j]]
    OBVIOUS
  <2> HIDE DEF rs
  <2> QED
    BY <1>3, <2>1, <2>2, JoinGood
<1> HIDE DEF ps, rs, r
<1>8. AllGood(k, r, src)
  <2>1. CASE servers = <<>>
    BY <1>1, <2>1, NilGood
  <2>2. CASE servers # <<>>
    BY <1>1, <1>6, <1>7, <2>2, ConcatGood
  <2> QED
    BY <2>1, <2>2
<1> QED
  BY <1>8 DEF r, a

\* The claims of an HTTPRoute.
LEMMA HTTPRouteGood ==
  ASSUME NEW k, WellFormed(k), NEW rt \in k.httpRoutes
  PROVE  AllGood(k, httpRouteClaims(k, rt), <<2, rt.id>>)
<1> DEFINE src == <<2, rt.id>>
           a   == parseAnnotations(rt.ann)
           ss  == [i \in DOMAIN rt.rules |-> httpRuleClaims(src, rt, a, rt.rules[i])]
           r   == httpRouteClaims(k, rt)
<1>1. r = IF ~Attached(k, rt) THEN <<>> ELSE Sticky(src, a) \o FlattenSeq(ss)
  BY DEF httpRouteClaims, Collect
<1>2. /\ IsSeq(rt.hostnames) /\ IsSeq(rt.rules)
      /\ \A rule \in ToSet(rt.rules) : IsSeq(rule.matches) /\ IsSeq(rule.backendRefs)
  BY DEF WellFormed
<1>3. AllGood(k, Sticky(src, a), src)
  BY StickyGood
<1>4. AllGood(k, FlattenSeq(ss), src)
  <2>1. ss = [i \in DOMAIN rt.rules |-> ss[i]]
    OBVIOUS
  <2>2. ASSUME NEW i \in DOMAIN rt.rules PROVE AllGood(k, ss[i], src)
    <3>1. IsSeq(rt.rules[i].matches) /\ IsSeq(rt.rules[i].backendRefs)
      BY <1>2, ElemIn
    <3> HIDE DEF src
    <3> QED
      BY <1>2, <3>1, HTTPRuleGood
  <2> HIDE DEF ss, src
  <2> QED
    BY <1>2, <2>1, <2>2, JoinGood
<1> HIDE DEF r, ss, src, a
<1>5. AllGood(k, r, src)
  <2>1. CASE ~Attached(k, rt)
    BY <1>1, <2>1, NilGood
  <2>2. CASE Attached(k, rt)
    BY <1>1, <1>3, <1>4, <2>2, ConcatGood
  <2> QED
    BY <2>1, <2>2
<1> QED
  BY <1>5 DEF r, src

-----------------------------------------------------------------------------
(***************************************************************************)
(* The order of the claims of a render.                                    *)
(***************************************************************************)
\* Claims that decide what is served.
Serves(c) == c.kind \in {"route", "regex", "pass", "acme"}

\* Object a takes precedence over b or is b.
NotAfter(a, b) == a[1] < b[1] \/ (a[1] = b[1] /\ a[2] < b[2]) \/ a = b

\* The claims that serve come in the order of precedence.
InOrder(cs) ==
  \A i, j \in 1..Len(cs) : i < j /\ Serves(cs[i]) /\ Serves(cs[j]) => NotAfter(cs[i].src, cs[j].src)

\* The claims of a render of cluster k.
Ordered(k, cs) ==
  /\ IsSeq(cs) /\ InOrder(cs)
  /\ \A c \in ToSet(cs) : c.src \in Nat \X Nat /\ Good(k, c, c.src)

\* The claims of a list of objects whose sources are in order.
LEMMA JoinOrdered ==
  ASSUME NEW k, NEW ss, IsSeq(ss), NEW srcs,
         \A i \in DOMAIN ss : srcs[i] \in Nat \X Nat /\ AllGood(k, ss[i], srcs[i]),
         \/ \A i \in DOMAIN ss : OnlyCerts(ss[i])
         \/ \A i, j \in DOMAIN ss : i < j => NotAfter(srcs[i], srcs[j])
  PROVE  /\ Ordered(k, FlattenSeq(ss))
         /\ \A c \in ToSet(FlattenSeq(ss)) : \E i \in DOMAIN ss : c.src = srcs[i] /\ c \in ToSet(ss[i])
         /\ \A i \in DOMAIN ss : ToSet(ss[i]) \subseteq ToSet(FlattenSeq(ss))
<1> DEFINE f == FlattenSeq(ss)
<1>1. \A i \in DOMAIN ss : IsSeq(ss[i])
  BY DEF AllGood
<1>2. FlatOf(f, ss, Len(ss))
  BY <1>1, FlattenFacts
<1>3. /\ IsSeq(f)
      /\ \A x \in ToSet(f) : \E i \in DOMAIN ss : x \in ToSet(ss[i])
      /\ \A i \in DOMAIN ss : ToSet(ss[i]) \subseteq ToSet(f)
  BY <1>1, JoinSeq
<1> HIDE DEF f
<1>4. \A i \in DOMAIN ss : \A c \in ToSet(ss[i]) : c.src = srcs[i] /\ Good(k, c, c.src)
  BY DEF AllGood, Good
<1>5. DOMAIN ss = 1..Len(ss) /\ Len(ss) \in Nat /\ Len(f) \in Nat
  BY <1>3, SeqFacts
<1>6. InOrder(f)
  <2>1. PICK from \in [1..Len(f) -> 1..Len(ss)] :
          /\ \A p, q \in 1..Len(f) : p <= q => from[p] <= from[q]
          /\ \A p \in 1..Len(f) : f[p] \in ToSet(ss[from[p]])
    BY <1>2 DEF FlatOf
  <2> SUFFICES ASSUME NEW i \in 1..Len(f), NEW j \in 1..Len(f), i < j, Serves(f[i]), Serves(f[j])
               PROVE  NotAfter(f[i].src, f[j].src)
    BY DEF InOrder
  <2> DEFINE p == from[i]
             q == from[j]
  <2>2. p \in DOMAIN ss /\ q \in DOMAIN ss /\ f[i] \in ToSet(ss[p]) /\ f[j] \in ToSet(ss[q])
    BY <1>5, <2>1
  <2>3. p \in Nat /\ q \in Nat /\ p <= q
    BY <1>5, <2>1
  <2> HIDE DEF p, q
  <2>4. f[i].src = srcs[p] /\ f[j].src = srcs[q]
    BY <1>4, <2>2
  <2>5. ~OnlyCerts(ss[p])
    BY <2>2 DEF OnlyCerts, Serves
  <2>6. p = q \/ p < q
    BY <2>3
  <2>7. NotAfter(srcs[p], srcs[q])
    BY <2>2, <2>5, <2>6 DEF NotAfter
  <2> QED
    BY <2>4, <2>7
<1>7. \A c \in ToSet(f) : c.src \in Nat \X Nat /\ Good(k, c, c.src)
  BY <1>3, <1>4
<1>8. \A c \in ToSet(f) : \E i \in DOMAIN ss : c.src = srcs[i] /\ c \in ToSet(ss[i])
  BY <1>3, <1>4
<1> QED
  BY <1>3, <1>6, <1>7, <1>8 DEF Ordered, f

\* Claims of one kind of object after those of an earlier kind.
LEMMA ConcatOrdered ==
  ASSUME NEW k, NEW f, NEW s, Ordered(k, f), Ordered(k, s),
         \A x \in ToSet(f), y \in ToSet(s) : x.src[1] < y.src[1]
  PROVE  Ordered(k, f \o s)
<1> DEFINE h == f \o s
<1>1. IsSeq(f) /\ IsSeq(s)
  BY DEF Ordered
<1>2. /\ IsSeq(h) /\ Len(h) = Len(f) + Len(s)
      /\ \A p \in 1..Len(f) : h[p] = f[p]
      /\ \A p \in 1..Len(h) : p > Len(f) => p - Len(f) \in 1..Len(s) /\ h[p] = s[p - Len(f)]
      /\ ToSet(h) = ToSet(f) \cup ToSet(s)
  BY <1>1, ConcatFacts
<1>3. /\ Len(f) \in Nat /\ Len(s) \in Nat
      /\ \A p \in 1..Len(f) : f[p] \in ToSet(f)
      /\ \A p \in 1..Len(s) : s[p] \in ToSet(s)
  BY <1>1, SeqFacts
<1> HIDE DEF h
<1>4. ASSUME NEW i \in 1..Len(h), NEW j \in 1..Len(h), i < j, Serves(h[i]), Serves(h[j])
      PROVE  NotAfter(h[i].src, h[j].src)
  <2>1. CASE j <= Len(f)
    <3>1. i \in 1..Len(f) /\ j \in 1..Len(f)
      BY <1>2, <1>3, <1>4, <2>1
    <3>2. h[i] = f[i] /\ h[j] = f[j]
      BY <1>2, <3>1
    <3> QED
      BY <1>4, <3>1, <3>2 DEF Ordered, InOrder
  <2>2. CASE i <= Len(f) /\ j > Len(f)
    <3>1. i \in 1..Len(f) /\ j - Len(f) \in 1..Len(s)
      BY <1>2, <1>3, <1>4, <2>2
    <3>2. h[i] \in ToSet(f) /\ h[j] \in ToSet(s)
      BY <1>2, <1>3, <2>2, <3>1
    <3> QED
      BY <3>2 DEF NotAfter
  <2>3. CASE i > Len(f)
    <3> DEFINE p == i - Len(f)
               q == j - Len(f)
    <3>1. p \in 1..Len(s) /\ q \in 1..Len(s) /\ p < q /\ h[i] = s[p] /\ h[j] = s[q]
      BY <1>2, <1>3, <1>4, <2>3
    <3> HIDE DEF p, q
    <3> QED
      BY <1>4, <3>1 DEF Ordered, InOrder
  <2> QED
    BY <1>2, <1>3, <2>1, <2>2, <2>3
<1>5. \A c \in ToSet(h) : c.src \in Nat \X Nat /\ Good(k, c, c.src)
  BY <1>2 DEF Ordered
<1> QED
  BY <1>2, <1>4, <1>5 DEF Ordered, InOrder, h

\* The claims of a render, whatever order the caches list in, are made by
\* Ingresses and then by HTTPRoutes, each by namespace and name.
LEMMA ClaimsOrdered ==
  ASSUME NEW k, WellFormed(k), NEW ings \in SetToSeqs(k.ingresses), NEW gws \in SetToSeqs(k.gateways),
         NEW rts \in SetToSeqs(k.httpRoutes), NEW slices \in SetToSeqs(k.slices)
  PROVE  /\ Ordered(k, Claims(k, ings, gws, rts, slices))
         /\ \A ing \in k.ingresses :
              ToSet(ingressClaims(k, slices, ing)) \subseteq ToSet(Claims(k, ings, gws, rts, slices))
         /\ k.flags.gatewayAPI => \A gw \in k.gateways :
              ToSet(gatewayClaims(k, gw)) \subseteq ToSet(Claims(k, ings, gws, rts, slices))
<1> DEFINE is == ById(ings)
           rs == ById(rts)
           A == [i \in DOMAIN is |-> ingressClaims(k, slices, is[i])]
           B == [i \in DOMAIN gws |-> gatewayClaims(k, gws[i])]
           C == [i \in DOMAIN rs |-> httpRouteClaims(k, rs[i])]
           all == Claims(k, ings, gws, rts, slices)
<1>1. all = FlattenSeq(A) \o (IF ~k.flags.gatewayAPI THEN <<>> ELSE FlattenSeq(B) \o FlattenSeq(C))
  BY DEF Claims, Collect
<1>2. Identified(k.ingresses) /\ Identified(k.gateways) /\ Identified(k.httpRoutes)
  BY DEF WellFormed
<1>3. IsSeq(is) /\ ToSet(is) = k.ingresses /\ Sorted(is)
  BY <1>2, ByIdFacts DEF Identified
<1>4. IsSeq(rs) /\ ToSet(rs) = k.httpRoutes /\ Sorted(rs)
  BY <1>2, ByIdFacts DEF Identified
<1>5. IsSeq(gws) /\ ToSet(gws) = k.gateways
  BY <1>2, ListFacts DEF Identified
<1> HIDE DEF is, rs
<1>6. /\ Ordered(k, FlattenSeq(A)) /\ \A c \in ToSet(FlattenSeq(A)) : c.src[1] = 0
      /\ \A i \in DOMAIN is : ToSet(A[i]) \subseteq ToSet(FlattenSeq(A))
  <2> DEFINE srcs == [i \in DOMAIN is |-> <<0, is[i].id>>]
  <2>1. A = [i \in DOMAIN is |-> A[i]]
    OBVIOUS
  <2>2. \A i \in DOMAIN is : is[i] \in k.ingresses /\ is[i].id \in Nat
    BY <1>2, <1>3, ElemIn DEF Identified
  <2>3. ASSUME NEW i \in DOMAIN is PROVE srcs[i] \in Nat \X Nat /\ srcs[i][1] = 0 /\ AllGood(k, A[i], srcs[i])
    BY <2>2, IngressGood
  <2>4. \A i, j \in DOMAIN is : i < j => NotAfter(srcs[i], srcs[j])
    BY <1>3 DEF Sorted, NotAfter
  <2> HIDE DEF A, srcs
  <2>5. IsSeq(A) /\ DOMAIN A = DOMAIN is
    BY <1>3, <2>1, MapSeq
  <2>6. /\ Ordered(k, FlattenSeq(A))
        /\ \A c \in ToSet(FlattenSeq(A)) : \E i \in DOMAIN A : c.src = srcs[i] /\ c \in ToSet(A[i])
        /\ \A i \in DOMAIN A : ToSet(A[i]) \subseteq ToSet(FlattenSeq(A))
    BY <2>3, <2>4, <2>5, JoinOrdered
  <2> QED
    BY <2>3, <2>5, <2>6
<1>7. ASSUME k.flags.gatewayAPI
      PROVE /\ Ordered(k, FlattenSeq(B)) /\ \A c \in ToSet(FlattenSeq(B)) : c.src[1] = 1
            /\ \A i \in DOMAIN gws : ToSet(B[i]) \subseteq ToSet(FlattenSeq(B))
  <2> DEFINE srcs == [i \in DOMAIN gws |-> <<1, gws[i].id>>]
  <2>1. B = [i \in DOMAIN gws |-> B[i]]
    OBVIOUS
  <2>2. \A i \in DOMAIN gws : gws[i] \in k.gateways /\ gws[i].id \in Nat
    BY <1>2, <1>5, ElemIn DEF Identified
  <2>3. ASSUME NEW i \in DOMAIN gws
        PROVE  srcs[i] \in Nat \X Nat /\ srcs[i][1] = 1 /\ AllGood(k, B[i], srcs[i]) /\ OnlyCerts(B[i])
    BY <1>7, <2>2, GatewayGood
  <2> HIDE DEF B, srcs
  <2>5. IsSeq(B) /\ DOMAIN B = DOMAIN gws
    BY <1>5, <2>1, MapSeq
  <2>6. /\ Ordered(k, FlattenSeq(B))
        /\ \A c \in ToSet(FlattenSeq(B)) : \E i \in DOMAIN B : c.src = srcs[i] /\ c \in ToSet(B[i])
        /\ \A i \in DOMAIN B : ToSet(B[i]) \subseteq ToSet(FlattenSeq(B))
    BY <2>3, <2>5, JoinOrdered
  <2> QED
    BY <2>3, <2>5, <2>6
<1>8. Ordered(k, FlattenSeq(C)) /\ \A c \in ToSet(FlattenSeq(C)) : c.src[1] = 2
  <2> DEFINE srcs == [i \in DOMAIN rs |-> <<2, rs[i].id>>]
  <2>1. C = [i \in DOMAIN rs |-> C[i]]
    OBVIOUS
  <2>2. \A i \in DOMAIN rs : rs[i] \in k.httpRoutes /\ rs[i].id \in Nat
    BY <1>2, <1>4, ElemIn DEF Identified
  <2>3. ASSUME NEW i \in DOMAIN rs PROVE srcs[i] \in Nat \X Nat /\ srcs[i][1] = 2 /\ AllGood(k, C[i], srcs[i])
    BY <2>2, HTTPRouteGood
  <2>4. \A i, j \in DOMAIN rs : i < j => NotAfter(srcs[i], srcs[j])
    BY <1>4 DEF Sorted, NotAfter
  <2> HIDE DEF C, srcs
  <2>5. IsSeq(C) /\ DOMAIN C = DOMAIN rs
    BY <1>4, <2>1, MapSeq
  <2>6. /\ Ordered(k, FlattenSeq(C))
        /\ \A c \in ToSet(FlattenSeq(C)) : \E i \in DOMAIN C : c.src = srcs[i] /\ c \in ToSet(C[i])
        /\ \A i \in DOMAIN C : ToSet(C[i]) \subseteq ToSet(FlattenSeq(C))
    BY <2>3, <2>4, <2>5, JoinOrdered
  <2> QED
    BY <2>3, <2>5, <2>6
<1>9. \A ing \in k.ingresses : \E i \in DOMAIN is : A[i] = ingressClaims(k, slices, ing)
  BY <1>3 DEF ToSet
<1>10. \A gw \in k.gateways : \E i \in DOMAIN gws : B[i] = gatewayClaims(k, gw)
  BY <1>5 DEF ToSet
<1> DEFINE a == FlattenSeq(A)
           b == FlattenSeq(B)
           c == FlattenSeq(C)
<1>11. \A ing \in k.ingresses : ToSet(ingressClaims(k, slices, ing)) \subseteq ToSet(a)
  BY <1>6, <1>9
<1>12. k.flags.gatewayAPI => \A gw \in k.gateways : ToSet(gatewayClaims(k, gw)) \subseteq ToSet(b)
  BY <1>7, <1>10
<1>13. CASE ~k.flags.gatewayAPI
  <2> DEFINE e == <<>>
  <2>1. IsSeq(e) /\ ToSet(e) = {} /\ Len(e) = 0
    BY NilSeq
  <2>2. all = a \o e
    BY <1>1, <1>13
  <2> HIDE DEF e, a, all, A
  <2>3. Ordered(k, e)
    BY <2>1 DEF Ordered, InOrder
  <2>4. Ordered(k, a \o e)
    BY <1>6, <2>1, <2>3, ConcatOrdered DEF a
  <2>5. ToSet(a \o e) = ToSet(a)
    BY <1>6, <2>1, ConcatFacts DEF a, Ordered
  <2>6. Ordered(k, all) /\ \A ing \in k.ingresses : ToSet(ingressClaims(k, slices, ing)) \subseteq ToSet(all)
    BY <1>11, <2>2, <2>4, <2>5
  <2> QED
    BY <1>13, <2>6 DEF all
<1>14. CASE k.flags.gatewayAPI
  <2>1. all = a \o (b \o c)
    BY <1>1, <1>14
  <2>2. Ordered(k, a) /\ \A x \in ToSet(a) : x.src[1] = 0
    BY <1>6
  <2>3. Ordered(k, b) /\ \A x \in ToSet(b) : x.src[1] = 1
    BY <1>7, <1>14
  <2>4. Ordered(k, c) /\ \A x \in ToSet(c) : x.src[1] = 2
    BY <1>8
  <2> HIDE DEF a, b, c, all
  <2>5. Ordered(k, b \o c)
    BY <2>3, <2>4, ConcatOrdered
  <2>6. ToSet(b \o c) = ToSet(b) \cup ToSet(c)
    BY <2>3, <2>4, ConcatFacts DEF Ordered
  <2>7. Ordered(k, a \o (b \o c))
    BY <2>2, <2>3, <2>4, <2>5, <2>6, ConcatOrdered
  <2>8. ToSet(a \o (b \o c)) = ToSet(a) \cup ToSet(b \o c)
    BY <2>2, <2>5, ConcatFacts DEF Ordered
  <2>9. /\ Ordered(k, all)
        /\ \A ing \in k.ingresses : ToSet(ingressClaims(k, slices, ing)) \subseteq ToSet(all)
        /\ \A gw \in k.gateways : ToSet(gatewayClaims(k, gw)) \subseteq ToSet(all)
    BY <1>11, <1>12, <1>14, <2>1, <2>6, <2>7, <2>8
  <2> QED
    BY <2>9 DEF all
<1> QED
  BY <1>13, <1>14

-----------------------------------------------------------------------------
(***************************************************************************)
(* The certificates a render claims.                                       *)
(***************************************************************************)
\* Some claim of s binds host h.
Binds(s, h) == \E c \in ToSet(s) : c.kind = "cert" /\ c.host = h

\* A TLS entry claims a certificate for every host it covers.
LEMMA TlsBinds ==
  ASSUME NEW k, WellFormed(k), NEW src, NEW ing \in k.ingresses, NEW t \in ToSet(ing.tls), t.secret # <<>>,
         NEW h, Concrete(h),
         h \in ToSet(t.hosts) \/ (t.hosts = <<>> /\ \E r \in ToSet(ing.rules) : r.host = h)
  PROVE  Binds(tlsClaims(src, ing, t), h)
<1> DEFINE hs    == [i \in DOMAIN ing.rules |-> ing.rules[i].host]
           ruled == Drop(hs, {<<>>})
           hosts == IF t.hosts # <<>> THEN t.hosts ELSE ruled
           cs    == [i \in DOMAIN hosts |-> CertClaim(src, hosts[i], ing.ns, t.secret)]
<1>1. IsSeq(t.hosts) /\ IsSeq(ing.rules) /\ h # <<>>
  BY DEF WellFormed, Concrete
<1>2. IsSeq(hs) /\ \A r \in ToSet(ing.rules) : r.host \in ToSet(hs)
  <2>1. IsSeq(hs)
    <3>1. hs = [i \in DOMAIN ing.rules |-> hs[i]]
      OBVIOUS
    <3> HIDE DEF hs
    <3> QED
      BY <1>1, <3>1, MapSeq
  <2> QED
    BY <2>1 DEF ToSet
<1> HIDE DEF hs
<1>3. IsSeq(ruled) /\ ToSet(ruled) = ToSet(hs) \ {<<>>}
  BY <1>2, DropFacts
<1> HIDE DEF ruled
<1>4. h \in ToSet(hosts)
  <2>1. CASE t.hosts # <<>>
    BY <2>1
  <2>2. CASE t.hosts = <<>>
    <3>1. ToSet(t.hosts) = {}
      BY <2>2, NilSeq
    <3> QED
      BY <1>1, <1>2, <1>3, <2>2, <3>1
  <2> QED
    BY <2>1, <2>2
<1>5. IsSeq(hosts)
  BY <1>1, <1>3
<1>6. tlsClaims(src, ing, t) =
        CASE t.secret = <<>> -> <<>>
          [] t.secret # <<>> /\ hosts = <<>> -> <<CertClaim(src, <<>>, ing.ns, t.secret)>>
          [] OTHER -> cs
  BY DEF tlsClaims, ruled, hs
<1> HIDE DEF hosts
<1>7. PICK i \in DOMAIN hosts : hosts[i] = h
  BY <1>4 DEF ToSet
<1>8. hosts # <<>>
  BY <1>4, NilSeq
<1>9. tlsClaims(src, ing, t) = cs
  BY <1>6, <1>8
<1>10. cs[i] \in ToSet(cs) /\ cs[i] = CertClaim(src, h, ing.ns, t.secret)
  BY <1>7 DEF ToSet
<1>11. cs[i].kind = "cert" /\ cs[i].host = h
  BY <1>10 DEF CertClaim
<1> QED
  BY <1>9, <1>10, <1>11 DEF Binds

\* And so does a listener, when it refers to a Secret at all.
LEMMA ListenerBinds ==
  ASSUME NEW k, WellFormed(k), NEW gw \in k.gateways, NEW src, NEW l \in ToSet(gw.listeners),
         l.tls = "terminate", NEW x \in ToSet(l.refs), x.kind = "Secret", Concrete(l.hostname)
  PROVE  Binds(listenerClaims(src, gw, l), l.hostname)
<1> DEFINE cc(y) == CertClaim(src, l.hostname, IF y.ns = None THEN gw.ns ELSE y.ns, y.name)
           ss == [i \in DOMAIN l.refs |-> IF l.refs[i].kind # "Secret" THEN <<>> ELSE <<cc(l.refs[i])>>]
<1>1. listenerClaims(src, gw, l) = FlattenSeq(ss)
  BY DEF listenerClaims, Collect
<1>2. IsSeq(l.refs)
  BY DEF WellFormed
<1>3. PICK i \in DOMAIN l.refs : l.refs[i] = x
  BY DEF ToSet
<1>4. cc(x).kind = "cert" /\ cc(x).host = l.hostname
  BY DEF CertClaim
<1> HIDE DEF cc
<1>5. ss[i] = <<cc(x)>>
  BY <1>3
<1>6. \A j \in DOMAIN l.refs : ss[j] = <<>> \/ ss[j] = <<cc(l.refs[j])>>
  OBVIOUS
<1>7. ss = [j \in DOMAIN l.refs |-> ss[j]]
  OBVIOUS
<1> HIDE DEF ss
<1>8. IsSeq(ss) /\ DOMAIN ss = DOMAIN l.refs
  BY <1>2, <1>7, MapSeq
<1>9. \A j \in DOMAIN ss : IsSeq(ss[j])
  BY <1>6, <1>8, NilSeq, OneSeq
<1>10. ToSet(ss[i]) \subseteq ToSet(FlattenSeq(ss))
  BY <1>8, <1>9, JoinSeq
<1>11. cc(x) \in ToSet(ss[i])
  BY <1>5, OneSeq
<1> QED
  BY <1>1, <1>4, <1>10, <1>11 DEF Binds

\* An Ingress claims every certificate it lists for a concrete host.
LEMMA IngressBinds ==
  ASSUME NEW k, WellFormed(k), NEW slices \in SetToSeqs(k.slices), NEW ing \in k.ingresses, isOurs(k, ing),
         NEW h, Concrete(h), IngressCerts(k, ing, h) # {}
  PROVE  Binds(ingressClaims(k, slices, ing), h)
<1> DEFINE src == <<0, ing.id>>
           a   == parseAnnotations(ing.ann)
           ts  == [i \in DOMAIN ing.tls |-> tlsClaims(src, ing, ing.tls[i])]
           rs  == [i \in DOMAIN ing.rules |-> ruleClaims(k, slices, src, ing, a, ing.rules[i])]
<1>1. PICK t \in ToSet(ing.tls) :
        /\ t.secret # <<>>
        /\ h \in ToSet(t.hosts) \/ (t.hosts = <<>> /\ \E r \in ToSet(ing.rules) : r.host = h)
  BY DEF IngressCerts
<1>2. Binds(tlsClaims(src, ing, t), h)
  BY <1>1, TlsBinds
<1>3. ingressClaims(k, slices, ing) = (Sticky(src, a) \o FlattenSeq(ts)) \o FlattenSeq(rs)
  BY DEF ingressClaims, Collect
<1>4. IsSeq(ing.tls) /\ IsSeq(ing.rules) /\ IsSeq(a.serverAliases)
      /\ \A r \in ToSet(ing.rules) : r.http => IsSeq(r.paths)
  BY AliasSeq DEF WellFormed
<1>5. PICK i \in DOMAIN ing.tls : ts[i] = tlsClaims(src, ing, t)
  BY DEF ToSet
<1>6. ts = [j \in DOMAIN ing.tls |-> ts[j]] /\ \A j \in DOMAIN ing.tls : AllGood(k, ts[j], src)
  BY <1>4, ElemIn, TlsGood
<1>7. rs = [j \in DOMAIN ing.rules |-> rs[j]]
  OBVIOUS
<1>8. ASSUME NEW j \in DOMAIN ing.rules PROVE AllGood(k, rs[j], src)
  <2>1. ing.rules[j] \in ToSet(ing.rules)
    BY <1>4, ElemIn
  <2> HIDE DEF src
  <2> QED
    BY <1>4, <2>1, RuleGood
<1>9. AllGood(k, Sticky(src, a), src)
  BY StickyGood
<1> HIDE DEF ts, rs, src, a
<1>10. IsSeq(ts) /\ DOMAIN ts = DOMAIN ing.tls
  BY <1>4, <1>6, MapSeq
<1>11. IsSeq(FlattenSeq(ts)) /\ ToSet(ts[i]) \subseteq ToSet(FlattenSeq(ts))
  BY <1>6, <1>10, JoinSeq DEF AllGood
<1>12. IsSeq(FlattenSeq(rs)) /\ IsSeq(Sticky(src, a))
  BY <1>4, <1>7, <1>8, <1>9, JoinGood DEF AllGood
<1> DEFINE f == FlattenSeq(ts)
           g == FlattenSeq(rs)
           s == Sticky(src, a)
<1> HIDE DEF f, g, s
<1>13. IsSeq(s \o f) /\ ToSet(f) \subseteq ToSet(s \o f)
  BY <1>11, <1>12, ConcatFacts DEF f, s
<1>14. ToSet(s \o f) \subseteq ToSet((s \o f) \o g)
  BY <1>12, <1>13, ConcatFacts DEF g
<1> QED
  BY <1>2, <1>3, <1>5, <1>11, <1>13, <1>14 DEF Binds, f, g, s

\* A Gateway claims every certificate it lists for a concrete host, when the
\* Gateway API is on.
LEMMA GatewayBinds ==
  ASSUME NEW k, WellFormed(k), NEW gw \in k.gateways, NEW h, Concrete(h), GatewayCerts(k, gw, h) # {}
  PROVE  k.flags.gatewayAPI /\ Binds(gatewayClaims(k, gw), h)
<1> DEFINE src == <<1, gw.id>>
           ss  == [i \in DOMAIN gw.listeners |-> listenerClaims(src, gw, gw.listeners[i])]
<1>1. PICK l \in ToSet(gw.listeners) :
        /\ k.flags.gatewayAPI /\ GatewayIsOurs(k, gw) /\ l.tls = "terminate" /\ l.hostname = h
        /\ ListenerCerts(gw, l) # {}
  BY DEF GatewayCerts
<1>2. PICK x \in ToSet(l.refs) : x.kind = "Secret"
  BY <1>1 DEF ListenerCerts
<1>3. Binds(listenerClaims(src, gw, l), h)
  BY <1>1, <1>2, ListenerBinds
<1>4. gatewayClaims(k, gw) = FlattenSeq(ss)
  BY <1>1 DEF gatewayClaims, Collect
<1>5. IsSeq(gw.listeners)
  BY DEF WellFormed
<1>6. PICK i \in DOMAIN gw.listeners : ss[i] = listenerClaims(src, gw, l)
  BY DEF ToSet
<1>7. ss = [j \in DOMAIN gw.listeners |-> ss[j]] /\ \A j \in DOMAIN gw.listeners : AllGood(k, ss[j], src)
  BY <1>1, <1>5, ElemIn, ListenerGood
<1> HIDE DEF ss, src
<1>8. IsSeq(ss) /\ DOMAIN ss = DOMAIN gw.listeners
  BY <1>5, <1>7, MapSeq
<1>9. ToSet(ss[i]) \subseteq ToSet(FlattenSeq(ss))
  BY <1>6, <1>7, <1>8, JoinSeq DEF AllGood
<1> QED
  BY <1>1, <1>3, <1>4, <1>6, <1>9 DEF Binds

\* A render claims a certificate for every host that has one listed.
LEMMA ClaimsBind ==
  ASSUME NEW k, WellFormed(k), NEW ings \in SetToSeqs(k.ingresses), NEW gws \in SetToSeqs(k.gateways),
         NEW rts \in SetToSeqs(k.httpRoutes), NEW slices \in SetToSeqs(k.slices),
         NEW h, Concrete(h), CertsFor(k, h) # {}
  PROVE  Binds(Claims(k, ings, gws, rts, slices), h)
<1> DEFINE all == Claims(k, ings, gws, rts, slices)
<1>1. /\ \A ing \in k.ingresses : ToSet(ingressClaims(k, slices, ing)) \subseteq ToSet(all)
      /\ k.flags.gatewayAPI => \A gw \in k.gateways : ToSet(gatewayClaims(k, gw)) \subseteq ToSet(all)
  BY ClaimsOrdered
<1> HIDE DEF all
<1>2. \/ \E ing \in k.ingresses : IngressCerts(k, ing, h) # {}
      \/ \E gw \in k.gateways : GatewayCerts(k, gw, h) # {}
  BY DEF CertsFor
<1>3. CASE \E ing \in k.ingresses : IngressCerts(k, ing, h) # {}
  <2>1. PICK ing \in k.ingresses : IngressCerts(k, ing, h) # {}
    BY <1>3
  <2>2. isOurs(k, ing)
    BY <2>1 DEF IngressCerts
  <2>3. Binds(ingressClaims(k, slices, ing), h)
    BY <2>1, <2>2, IngressBinds
  <2>4. Binds(all, h)
    BY <1>1, <2>3 DEF Binds
  <2> QED
    BY <2>4 DEF all
<1>4. CASE \E gw \in k.gateways : GatewayCerts(k, gw, h) # {}
  <2>1. PICK gw \in k.gateways : GatewayCerts(k, gw, h) # {}
    BY <1>4
  <2>2. k.flags.gatewayAPI /\ Binds(gatewayClaims(k, gw), h)
    BY <2>1, GatewayBinds
  <2>3. Binds(all, h)
    BY <1>1, <2>2 DEF Binds
  <2> QED
    BY <2>3 DEF all
<1> QED
  BY <1>2, <1>3, <1>4

-----------------------------------------------------------------------------
(***************************************************************************)
(* What the file says of the table.                                        *)
(***************************************************************************)
\* The route keys of a host.
KeysOn(t, h) == {hk[2] : hk \in {x \in DOMAIN t.hosts : x[1] = h}}

\* The stem a host is bound to.
CertOn(t, h) == IF h \in DOMAIN t.hostCert THEN t.hostCert[h] ELSE None

\* The file f says what the table t holds, in either schema.
Says(f, t) ==
  /\ f.acme = t.acme
  /\ DOMAIN f.hosts = TerminateHosts(t) \cup PassthroughHosts(t)
  /\ \A h \in PassthroughHosts(t) :
       f.hosts[h] = [tls |-> "passthrough", upstream |-> t.passthroughHosts[h]]
  /\ \A h \in TerminateHosts(t) :
       /\ f.hosts[h].tls = "terminate" /\ f.hosts[h].cert = CertOn(t, h)
       /\ DOMAIN f.hosts[h].paths = KeysOn(t, h)
       /\ \A key \in KeysOn(t, h) :
            f.hosts[h].paths[key] \in {writeRouteV1(t.hosts[<<h, key>>]), writeRouteV2(t.hosts[<<h, key>>])}

\* What emit writes is what the table holds, in the schema it chooses.
LEMMA EmitSays ==
  ASSUME NEW t, Exclusive(t)
  PROVE  Says(emit(t), t)
<1> DEFINE f == emit(t)
           P1(h) == [key \in KeysOn(t, h) |-> writeRouteV1(t.hosts[<<h, key>>])]
           P2(h) == [key \in KeysOn(t, h) |-> writeRouteV2(t.hosts[<<h, key>>])]
           B1(h) == [tls |-> "terminate", cert |-> CertOn(t, h), paths |-> P1(h)]
           B2(h) == [tls |-> "terminate", cert |-> CertOn(t, h), paths |-> P2(h)]
           B0(h) == [tls |-> "passthrough", upstream |-> t.passthroughHosts[h]]
<1>1. \A h : /\ B1(h).tls = "terminate" /\ B1(h).cert = CertOn(t, h)
             /\ DOMAIN B1(h).paths = KeysOn(t, h)
             /\ \A key \in KeysOn(t, h) : B1(h).paths[key] = writeRouteV1(t.hosts[<<h, key>>])
  OBVIOUS
<1>2. \A h : /\ B2(h).tls = "terminate" /\ B2(h).cert = CertOn(t, h)
             /\ DOMAIN B2(h).paths = KeysOn(t, h)
             /\ \A key \in KeysOn(t, h) : B2(h).paths[key] = writeRouteV2(t.hosts[<<h, key>>])
  OBVIOUS
<1>3. CASE PassthroughHosts(t) = {}
  <2>1. f = [version |-> 1, acme |-> t.acme, sticky |-> t.sticky, hosts |-> [h \in TerminateHosts(t) |-> B1(h)]]
    BY <1>3 DEF emit, renderUpstreams, TerminateBlock, KeysOn, CertOn
  <2> HIDE DEF f, B1
  <2>2. /\ f.acme = t.acme /\ DOMAIN f.hosts = TerminateHosts(t)
        /\ \A h \in TerminateHosts(t) : f.hosts[h] = B1(h)
    BY <2>1
  <2>3. Says(f, t)
    BY <1>1, <1>3, <2>2 DEF Says
  <2> QED
    BY <2>3 DEF f
<1>4. CASE PassthroughHosts(t) # {}
  <2>1. f = [version |-> 2, acme |-> t.acme, sticky |-> t.sticky,
             hosts |-> [h \in TerminateHosts(t) \cup PassthroughHosts(t) |->
                          IF h \in PassthroughHosts(t) THEN B0(h) ELSE B2(h)]]
    BY <1>4 DEF emit, renderUpstreamsV2, TerminateBlock, KeysOn, CertOn
  <2> HIDE DEF f, B2
  <2>2. /\ f.acme = t.acme /\ DOMAIN f.hosts = TerminateHosts(t) \cup PassthroughHosts(t)
        /\ \A h \in PassthroughHosts(t) : f.hosts[h] = B0(h)
        /\ \A h \in TerminateHosts(t) : f.hosts[h] = B2(h)
    BY <2>1 DEF Exclusive
  <2>3. Says(f, t)
    BY <1>2, <2>2 DEF Says
  <2> QED
    BY <2>3 DEF f
<1> QED
  BY <1>3, <1>4

\* Either schema writes what the claim asked for.
LEMMA BlockFacts ==
  ASSUME NEW cfg, NEW b \in {writeRouteV1(cfg), writeRouteV2(cfg)}
  PROVE  b.servers = cfg.servers /\ b.redirect = cfg.redirect
  BY DEF writeRouteV1, writeRouteV2, Block

\* The two schemas mean the same.
LEMMA SchemasAgree ==
  ASSUME NEW cfg, GoodCfg(cfg)
  PROVE  Meaning(writeRouteV2(cfg)) = Meaning(writeRouteV1(cfg))
<1> DEFINE on == {x \in {"force-https", "healthcheck"} : cfg.knobs[x] = TRUE}
           D2 == on \cup (Set(cfg) \ {"force-https", "healthcheck"})
           f1 == Put(Fields(cfg, Set(cfg)), "ssl", cfg.knobs["ssl"] = TRUE)
           f2 == Fields(cfg, D2)
           b1 == Block(cfg, f1)
           b2 == Block(cfg, f2)
<1>1. writeRouteV1(cfg) = b1 /\ writeRouteV2(cfg) = b2
  BY DEF writeRouteV1, writeRouteV2
<1>2. /\ \A x \in {"ssl", "force-https", "healthcheck"} : cfg.knobs[x] = TRUE \/ cfg.knobs[x] = FALSE \/ cfg.knobs[x] = None
  BY DEF GoodCfg
<1>3. None # TRUE /\ None # FALSE
  BY NoneAssumption
<1>4. DOMAIN f1 = Set(cfg) \cup {"ssl"} /\ DOMAIN f2 = D2
  BY DEF Put, Fields
<1>5. f1["ssl"] = (cfg.knobs["ssl"] = TRUE) /\ \A x \in Set(cfg) : x # "ssl" => f1[x] = cfg.knobs[x]
  BY DEF Put, Fields
<1>6. \A x \in D2 : f2[x] = cfg.knobs[x]
  BY DEF Fields
<1>7. \A x : Read(b1, x) = IF x \in DOMAIN f1 THEN f1[x] ELSE IF x \in Switches THEN FALSE ELSE None
  BY DEF Read, Block
<1>8. \A x : Read(b2, x) = IF x \in DOMAIN f2 THEN f2[x] ELSE IF x \in Switches THEN FALSE ELSE None
  BY DEF Read, Block
<1> HIDE DEF f1, f2, b1, b2
<1>9. ASSUME NEW x \in Knobs PROVE Read(b1, x) = Read(b2, x)
  <2>1. CASE x = "ssl"
    <3>1. Read(b1, x) = (cfg.knobs["ssl"] = TRUE)
      BY <1>4, <1>5, <1>7, <2>1, Zenon
    <3>2. CASE cfg.knobs["ssl"] = None
      <4>1. x \notin DOMAIN f2 /\ x \in Switches
        BY <1>4, <2>1, <3>2 DEF Set, Switches
      <4>2. Read(b2, x) = FALSE
        BY <1>8, <4>1
      <4> QED
        BY <1>3, <3>1, <3>2, <4>2, Zenon
    <3>3. CASE cfg.knobs["ssl"] \in BOOLEAN
      <4>1. x \in D2
        BY <1>3, <2>1, <3>3 DEF Set, Knobs, Switches
      <4>2. Read(b2, x) = cfg.knobs["ssl"]
        BY <1>4, <1>6, <1>8, <2>1, <4>1
      <4> QED
        BY <3>1, <3>3, <4>2, Zenon
    <3> QED
      BY <1>2, <3>2, <3>3
  <2>2. CASE x \in {"force-https", "healthcheck"}
    <3>1. x # "ssl" /\ x \in Knobs /\ x \in Switches
      BY <2>2 DEF Knobs, Switches
    <3>2. CASE cfg.knobs[x] = TRUE
      <4>1. x \in Set(cfg) /\ x \in D2
        BY <1>3, <2>2, <3>1, <3>2 DEF Set
      <4> HIDE DEF D2
      <4> QED
        BY <1>4, <1>5, <1>6, <1>7, <1>8, <3>1, <4>1
    <3>3. CASE cfg.knobs[x] # TRUE
      <4>1. x \notin D2
        BY <2>2, <3>3
      <4> HIDE DEF D2
      <4>2. Read(b2, x) = FALSE
        BY <1>4, <1>8, <3>1, <4>1
      <4>3. x \in Set(cfg) => cfg.knobs[x] = FALSE
        BY <1>2, <2>2, <3>3 DEF Set
      <4>4. Read(b1, x) = FALSE
        BY <1>4, <1>5, <1>7, <3>1, <4>3
      <4> QED
        BY <4>2, <4>4
    <3> QED
      BY <3>2, <3>3
  <2>3. CASE x \notin {"ssl", "force-https", "healthcheck"}
    <3>1. x \in DOMAIN f1 <=> x \in DOMAIN f2
      BY <1>4, <2>3
    <3>2. x \in DOMAIN f1 => f1[x] = f2[x]
      BY <1>4, <1>5, <1>6, <2>3
    <3> QED
      BY <1>7, <1>8, <3>1, <3>2
  <2> QED
    BY <2>1, <2>2, <2>3
<1>10. [x \in Knobs |-> Read(b1, x)] = [x \in Knobs |-> Read(b2, x)]
  BY <1>9
<1>11. Meaning(b1) = Meaning(b2)
  BY <1>10 DEF Meaning, b1, b2, Block
<1> QED
  BY <1>1, <1>11

-----------------------------------------------------------------------------
(***************************************************************************)
(* What the table holds after some of the claims.                          *)
(***************************************************************************)
\* A claim of a route on host h, under key; of passing h through; on h at all.
Routes(c, h)    == c.kind \in {"route", "regex"} /\ c.host = h
RoutesAt(c, h, key) == Routes(c, h) /\ KeyOf(c) = key
Passes(c, h)    == c.kind = "pass" /\ c.host = h
Solves(c)       == c.kind = "acme" /\ c.upstream # None

\* Claim i is the first of its kind.
FirstRoute(cs, i, h, key) ==
  RoutesAt(cs[i], h, key) /\ \A j \in 1..Len(cs) : j < i => ~RoutesAt(cs[j], h, key)

UnpassedRoute(cs, i, h) ==
  Routes(cs[i], h) /\ \A j \in 1..Len(cs) : j < i => ~Passes(cs[j], h)

FirstPass(cs, i, h) ==
  Passes(cs[i], h) /\ \A j \in 1..Len(cs) : j < i => ~Passes(cs[j], h) /\ ~Routes(cs[j], h)

FirstSolver(cs, i) ==
  Solves(cs[i]) /\ \A j \in 1..Len(cs) : j < i => ~Solves(cs[j])

\* A route says what its claim asked for.
SaysAs(cfg, asked) ==
  /\ GoodCfg(cfg)
  /\ cfg.servers = asked.servers /\ cfg.redirect = asked.redirect

\* The table after the first n claims.
ServedBy(cs, t, n) ==
  /\ \A hk \in DOMAIN t.hosts :
       /\ hk = <<hk[1], hk[2]>>
       /\ \E i \in 1..n : FirstRoute(cs, i, hk[1], hk[2]) /\ SaysAs(t.hosts[hk], cs[i].cfg)
       /\ \E i \in 1..n : UnpassedRoute(cs, i, hk[1])
  /\ \A h \in DOMAIN t.passthroughHosts :
       \E i \in 1..n : FirstPass(cs, i, h) /\ t.passthroughHosts[h] = cs[i].upstream
  /\ \A i \in 1..n : \A h :
       /\ Routes(cs[i], h) => h \in DOMAIN t.passthroughHosts \/ <<h, KeyOf(cs[i])>> \in DOMAIN t.hosts
       /\ Passes(cs[i], h) => h \in DOMAIN t.passthroughHosts \/ h \in TerminateHosts(t)

\* The same for the challenge path: the first solver has it.
SolvedBy(cs, t, n) ==
  \/ t.acme = None /\ \A i \in 1..n : ~Solves(cs[i])
  \/ \E i \in 1..n : FirstSolver(cs, i) /\ t.acme = cs[i].upstream

\* And for certificates: a host is bound under its own name when some claim
\* lists a certificate for it, and each projection is of some claim.
CertifiedBy(cs, t, n) ==
  /\ \A h \in DOMAIN t.hostCert :
       t.hostCert[h] = h /\ \E i \in 1..n : cs[i].kind = "cert" /\ cs[i].host = h /\ h # <<>>
  /\ \A s \in DOMAIN t.certProjections :
       \E i \in 1..n : /\ cs[i].kind = "cert" /\ cs[i].stem = s
                       /\ t.certProjections[s] = [ns |-> cs[i].ns, name |-> cs[i].name]
  /\ \A i \in 1..n : cs[i].kind = "cert" /\ cs[i].host # <<>> =>
       cs[i].host \in DOMAIN t.hostCert /\ cs[i].host \in DOMAIN t.certProjections

\* All of it.
Applied(cs, t, n) == ServedBy(cs, t, n) /\ SolvedBy(cs, t, n) /\ CertifiedBy(cs, t, n)

\* No claim, an empty table.
LEMMA NoneApplied == ASSUME NEW cs PROVE Applied(cs, newRenderModel, 0)
<1> DEFINE t == newRenderModel
<1>1. DOMAIN t.hosts = {} /\ DOMAIN t.passthroughHosts = {} /\ t.acme = None
      /\ DOMAIN t.hostCert = {} /\ DOMAIN t.certProjections = {}
  BY DEF newRenderModel, Nothing
<1>2. \A i \in 1..0 : FALSE
  OBVIOUS
<1> HIDE DEF t
<1>3. ServedBy(cs, t, 0)
  BY <1>1, <1>2 DEF ServedBy
<1>4. SolvedBy(cs, t, 0)
  BY <1>1, <1>2 DEF SolvedBy
<1>5. CertifiedBy(cs, t, 0)
  BY <1>1, <1>2 DEF CertifiedBy
<1> QED
  BY <1>3, <1>4, <1>5 DEF Applied, t

\* A claim of another kind leaves each part as it is.
LEMMA ServedIdle ==
  ASSUME NEW cs, NEW t, NEW u, NEW n \in Nat, ServedBy(cs, t, n),
         u.hosts = t.hosts, u.passthroughHosts = t.passthroughHosts,
         cs[n + 1].kind \notin {"route", "regex", "pass"}
  PROVE  ServedBy(cs, u, n + 1)
<1>1. \A i \in 1..n : i \in 1..(n + 1)
  OBVIOUS
<1>2. \A i \in 1..(n + 1) : i \in 1..n \/ i = n + 1
  OBVIOUS
<1>3. \A h : ~Routes(cs[n + 1], h) /\ ~Passes(cs[n + 1], h)
  BY DEF Routes, Passes
<1>4. TerminateHosts(u) = TerminateHosts(t)
  BY DEF TerminateHosts
<1> QED
  BY <1>1, <1>2, <1>3, <1>4 DEF ServedBy

\* The challenge solver, under a claim of another kind.
LEMMA SolvedIdle ==
  ASSUME NEW cs, NEW t, NEW u, NEW n \in Nat, SolvedBy(cs, t, n),
         u.acme = t.acme, cs[n + 1].kind # "acme"
  PROVE  SolvedBy(cs, u, n + 1)
<1>1. \A i \in 1..n : i \in 1..(n + 1)
  OBVIOUS
<1>2. \A i \in 1..(n + 1) : i \in 1..n \/ i = n + 1
  OBVIOUS
<1>3. ~Solves(cs[n + 1])
  BY DEF Solves
<1> QED
  BY <1>1, <1>2, <1>3 DEF SolvedBy

\* The certificates, under a claim of another kind.
LEMMA CertifiedIdle ==
  ASSUME NEW cs, NEW t, NEW u, NEW n \in Nat, CertifiedBy(cs, t, n),
         u.hostCert = t.hostCert, u.certProjections = t.certProjections, cs[n + 1].kind # "cert"
  PROVE  CertifiedBy(cs, u, n + 1)
<1>1. \A i \in 1..n : i \in 1..(n + 1)
  OBVIOUS
<1>2. \A i \in 1..(n + 1) : i \in 1..n \/ i = n + 1
  OBVIOUS
<1> QED
  BY <1>1, <1>2 DEF CertifiedBy

\* A route is entered when it is the first under its key and the host has
\* not been passed through before.
LEMMA RouteServed ==
  ASSUME NEW cs, NEW t, NEW n \in Nat, NEW cfg, NEW sticky, NEW u,
         n + 1 \in 1..Len(cs), Len(cs) \in Nat, IsModel(t), ServedBy(cs, t, n),
         cs[n + 1].kind \in {"route", "regex"}, SaysAs(cfg, cs[n + 1].cfg),
         u = Insert(t, cs[n + 1].host, KeyOf(cs[n + 1]), cfg, sticky)
  PROVE  /\ ServedBy(cs, u, n + 1)
         /\ u.acme = t.acme /\ u.hostCert = t.hostCert /\ u.certProjections = t.certProjections
<1> DEFINE c == cs[n + 1]
           h == c.host
           key == KeyOf(c)
<1>1. \A i \in 1..n : i \in 1..(n + 1) /\ i < n + 1
  OBVIOUS
<1>2. \A i \in 1..(n + 1) : i \in 1..n \/ i = n + 1
  OBVIOUS
<1>3. \A j \in 1..Len(cs) : j < n + 1 => j \in 1..n
  OBVIOUS
<1>4. n + 1 \in 1..(n + 1)
  OBVIOUS
<1>5. \A g : (Routes(c, g) <=> g = h) /\ ~Passes(c, g)
  BY DEF Routes, Passes
<1>6. CASE h \in PassthroughHosts(t) \/ <<h, key>> \in DOMAIN t.hosts
  <2>1. u = t
    BY <1>6 DEF Insert
  <2> HIDE DEF c, key, h
  <2>2. \A g : /\ Routes(cs[n + 1], g) => g \in DOMAIN t.passthroughHosts \/ <<g, KeyOf(cs[n + 1])>> \in DOMAIN t.hosts
               /\ Passes(cs[n + 1], g) => g \in DOMAIN t.passthroughHosts \/ g \in TerminateHosts(t)
    BY <1>5, <1>6 DEF PassthroughHosts, c, key
  <2>3. ServedBy(cs, t, n + 1)
    BY <1>1, <1>2, <2>2 DEF ServedBy
  <2> QED
    BY <2>1, <2>3 DEF c, key, h
<1>7. CASE ~(h \in PassthroughHosts(t) \/ <<h, key>> \in DOMAIN t.hosts)
  <2> DEFINE g == Put(t.hosts, <<h, key>>, cfg)
             s == IF sticky THEN TRUE ELSE t.sticky
  <2>1. u = [t EXCEPT !.hosts = g, !.sticky = s]
    BY <1>7 DEF Insert
  <2>2. /\ DOMAIN g = DOMAIN t.hosts \cup {<<h, key>>}
        /\ g[<<h, key>>] = cfg
        /\ \A x \in DOMAIN t.hosts : g[x] = t.hosts[x]
    BY <1>7 DEF Put
  <2> HIDE DEF g, s
  <2>3. u = [hosts |-> g, passthroughHosts |-> t.passthroughHosts, hostCert |-> t.hostCert,
             certProjections |-> t.certProjections, acme |-> t.acme, sticky |-> s]
    BY <2>1 DEF IsModel
  <2>4. /\ u.hosts = g /\ u.passthroughHosts = t.passthroughHosts /\ u.acme = t.acme
        /\ u.hostCert = t.hostCert /\ u.certProjections = t.certProjections
    BY <2>3
  <2>5. FirstRoute(cs, n + 1, h, key)
    <3>1. RoutesAt(cs[n + 1], h, key)
      BY <1>5 DEF RoutesAt
    <3>2. ASSUME NEW j \in 1..Len(cs), j < n + 1, RoutesAt(cs[j], h, key) PROVE FALSE
      <4>1. j \in 1..n /\ Routes(cs[j], h) /\ KeyOf(cs[j]) = key
        BY <1>3, <3>2 DEF RoutesAt
      <4> QED
        BY <1>7, <4>1 DEF ServedBy, PassthroughHosts
    <3> QED
      BY <3>1, <3>2 DEF FirstRoute
  <2>6. \E i \in 1..(n + 1) : UnpassedRoute(cs, i, h)
    <3>1. CASE h \in TerminateHosts(t)
      <4>1. PICK hk \in DOMAIN t.hosts : hk[1] = h
        BY <3>1 DEF TerminateHosts
      <4>2. \E i \in 1..n : UnpassedRoute(cs, i, hk[1])
        BY <4>1 DEF ServedBy
      <4> QED
        BY <1>1, <4>1, <4>2
    <3>2. CASE h \notin TerminateHosts(t)
      <4>1. ASSUME NEW j \in 1..Len(cs), j < n + 1, Passes(cs[j], h) PROVE FALSE
        <5>1. j \in 1..n
          BY <1>3, <4>1
        <5> QED
          BY <1>7, <3>2, <4>1, <5>1 DEF ServedBy, PassthroughHosts
      <4>2. UnpassedRoute(cs, n + 1, h)
        BY <1>5, <4>1 DEF UnpassedRoute
      <4> QED
        BY <1>4, <4>2
    <3> QED
      BY <3>1, <3>2
  <2>7. <<h, key>>[1] = h /\ <<h, key>>[2] = key
    OBVIOUS
  <2> HIDE DEF c, key, h
  <2>8. ASSUME NEW hk \in DOMAIN u.hosts
        PROVE  /\ hk = <<hk[1], hk[2]>>
               /\ \E i \in 1..(n + 1) : FirstRoute(cs, i, hk[1], hk[2]) /\ SaysAs(u.hosts[hk], cs[i].cfg)
               /\ \E i \in 1..(n + 1) : UnpassedRoute(cs, i, hk[1])
    <3>1. CASE hk \in DOMAIN t.hosts
      <4>1. u.hosts[hk] = t.hosts[hk]
        BY <2>2, <2>4, <3>1
      <4> QED
        BY <1>1, <3>1, <4>1 DEF ServedBy
    <3>2. CASE hk = <<h, key>>
      <4>1. u.hosts[hk] = cfg /\ hk[1] = h /\ hk[2] = key
        BY <2>2, <2>4, <2>7, <3>2
      <4> QED
        BY <1>4, <2>5, <2>6, <3>2, <4>1 DEF c
    <3> QED
      BY <2>2, <2>4, <2>8, <3>1, <3>2
  <2>9. \A x \in TerminateHosts(t) : x \in TerminateHosts(u)
    BY <2>2, <2>4 DEF TerminateHosts
  <2>10. \A i \in 1..(n + 1) : \A x :
           /\ Routes(cs[i], x) => x \in DOMAIN u.passthroughHosts \/ <<x, KeyOf(cs[i])>> \in DOMAIN u.hosts
           /\ Passes(cs[i], x) => x \in DOMAIN u.passthroughHosts \/ x \in TerminateHosts(u)
    <3> SUFFICES ASSUME NEW i \in 1..(n + 1), NEW x
                 PROVE  /\ Routes(cs[i], x) => x \in DOMAIN u.passthroughHosts \/ <<x, KeyOf(cs[i])>> \in DOMAIN u.hosts
                        /\ Passes(cs[i], x) => x \in DOMAIN u.passthroughHosts \/ x \in TerminateHosts(u)
      OBVIOUS
    <3>1. CASE i \in 1..n
      BY <2>2, <2>4, <2>9, <3>1 DEF ServedBy
    <3>2. CASE i = n + 1
      BY <1>5, <2>2, <2>4, <3>2 DEF c, key
    <3> QED
      BY <1>2, <3>1, <3>2
  <2>11. \A x \in DOMAIN u.passthroughHosts :
           \E i \in 1..(n + 1) : FirstPass(cs, i, x) /\ u.passthroughHosts[x] = cs[i].upstream
    BY <1>1, <2>4 DEF ServedBy
  <2>12. ServedBy(cs, u, n + 1)
    BY <2>8, <2>10, <2>11 DEF ServedBy
  <2> QED
    BY <2>4, <2>12 DEF c, key, h
<1> QED
  BY <1>6, <1>7

\* A host is passed through when nothing has claimed it before.
LEMMA PassServed ==
  ASSUME NEW cs, NEW t, NEW n \in Nat, n + 1 \in 1..Len(cs), Len(cs) \in Nat, IsModel(t), ServedBy(cs, t, n),
         cs[n + 1].kind = "pass", cs[n + 1].host # <<>>, cs[n + 1].upstream # None,
         NEW u, u = addPassthroughHost(t, cs[n + 1])
  PROVE  /\ ServedBy(cs, u, n + 1)
         /\ u.acme = t.acme /\ u.hostCert = t.hostCert /\ u.certProjections = t.certProjections
<1> DEFINE c == cs[n + 1]
           h == c.host
<1>1. \A i \in 1..n : i \in 1..(n + 1) /\ i < n + 1
  OBVIOUS
<1>2. \A i \in 1..(n + 1) : i \in 1..n \/ i = n + 1
  OBVIOUS
<1>3. \A j \in 1..Len(cs) : j < n + 1 => j \in 1..n
  OBVIOUS
<1>4. n + 1 \in 1..(n + 1)
  OBVIOUS
<1>5. \A g : (Passes(c, g) <=> g = h) /\ ~Routes(c, g)
  BY DEF Routes, Passes
<1>6. CASE h \in TerminateHosts(t) \/ h \in DOMAIN t.passthroughHosts
  <2>1. u.hosts = t.hosts /\ u.passthroughHosts = t.passthroughHosts
        /\ u.acme = t.acme /\ u.hostCert = t.hostCert /\ u.certProjections = t.certProjections
    BY <1>6 DEF addPassthroughHost, IsModel, PutNew
  <2> HIDE DEF c, h
  <2>2. TerminateHosts(u) = TerminateHosts(t)
    BY <2>1 DEF TerminateHosts
  <2>3. \A g : /\ Routes(cs[n + 1], g) => g \in DOMAIN t.passthroughHosts \/ <<g, KeyOf(cs[n + 1])>> \in DOMAIN t.hosts
               /\ Passes(cs[n + 1], g) => g \in DOMAIN t.passthroughHosts \/ g \in TerminateHosts(t)
    BY <1>5, <1>6 DEF c
  <2>4. ServedBy(cs, u, n + 1)
    BY <1>1, <1>2, <2>1, <2>2, <2>3 DEF ServedBy
  <2> QED
    BY <2>1, <2>4 DEF c, h
<1>7. CASE h \notin TerminateHosts(t) /\ h \notin DOMAIN t.passthroughHosts
  <2> DEFINE p == Put(t.passthroughHosts, h, c.upstream)
  <2>1. u = [t EXCEPT !.passthroughHosts = p]
    BY <1>7 DEF addPassthroughHost, PutNew
  <2>2. /\ DOMAIN p = DOMAIN t.passthroughHosts \cup {h}
        /\ p[h] = c.upstream
        /\ \A x \in DOMAIN t.passthroughHosts : p[x] = t.passthroughHosts[x]
    BY <1>7 DEF Put
  <2> HIDE DEF p
  <2>3. u = [hosts |-> t.hosts, passthroughHosts |-> p, hostCert |-> t.hostCert,
             certProjections |-> t.certProjections, acme |-> t.acme, sticky |-> t.sticky]
    BY <2>1 DEF IsModel
  <2>4. /\ u.hosts = t.hosts /\ u.passthroughHosts = p /\ u.acme = t.acme
        /\ u.hostCert = t.hostCert /\ u.certProjections = t.certProjections
    BY <2>3
  <2>5. FirstPass(cs, n + 1, h)
    <3>1. ASSUME NEW j \in 1..Len(cs), j < n + 1, Passes(cs[j], h) \/ Routes(cs[j], h) PROVE FALSE
      <4>1. j \in 1..n
        BY <1>3, <3>1
      <4>2. \A key : <<h, key>> \notin DOMAIN t.hosts
        BY <1>7 DEF TerminateHosts
      <4> QED
        BY <1>7, <3>1, <4>1, <4>2 DEF ServedBy
    <3> QED
      BY <1>5, <3>1 DEF FirstPass
  <2> HIDE DEF c, h
  <2>6. TerminateHosts(u) = TerminateHosts(t)
    BY <2>4 DEF TerminateHosts
  <2>7. ASSUME NEW x \in DOMAIN u.passthroughHosts
        PROVE  \E i \in 1..(n + 1) : FirstPass(cs, i, x) /\ u.passthroughHosts[x] = cs[i].upstream
    <3>1. CASE x \in DOMAIN t.passthroughHosts
      BY <1>1, <2>2, <2>4, <3>1 DEF ServedBy
    <3>2. CASE x = h
      BY <1>4, <2>2, <2>4, <2>5, <3>2 DEF c
    <3> QED
      BY <2>2, <2>4, <2>7, <3>1, <3>2
  <2>8. \A i \in 1..(n + 1) : \A x :
          /\ Routes(cs[i], x) => x \in DOMAIN u.passthroughHosts \/ <<x, KeyOf(cs[i])>> \in DOMAIN u.hosts
          /\ Passes(cs[i], x) => x \in DOMAIN u.passthroughHosts \/ x \in TerminateHosts(u)
    <3> SUFFICES ASSUME NEW i \in 1..(n + 1), NEW x
                 PROVE  /\ Routes(cs[i], x) => x \in DOMAIN u.passthroughHosts \/ <<x, KeyOf(cs[i])>> \in DOMAIN u.hosts
                        /\ Passes(cs[i], x) => x \in DOMAIN u.passthroughHosts \/ x \in TerminateHosts(u)
      OBVIOUS
    <3>1. CASE i \in 1..n
      BY <2>2, <2>4, <2>6, <3>1 DEF ServedBy
    <3>2. CASE i = n + 1
      BY <1>5, <2>2, <2>4, <3>2 DEF c
    <3> QED
      BY <1>2, <3>1, <3>2
  <2>9. ServedBy(cs, u, n + 1)
    BY <1>1, <2>4, <2>7, <2>8 DEF ServedBy
  <2> QED
    BY <2>4, <2>9 DEF c, h
<1> QED
  BY <1>6, <1>7

\* The first solver with a backend takes the challenge path (claimAcme).
LEMMA AcmeSolved ==
  ASSUME NEW cs, NEW t, NEW n \in Nat, n + 1 \in 1..Len(cs), Len(cs) \in Nat, IsModel(t), SolvedBy(cs, t, n),
         cs[n + 1].kind = "acme",
         NEW u, u = claimAcme(t, cs[n + 1])
  PROVE  /\ SolvedBy(cs, u, n + 1)
         /\ u.hosts = t.hosts /\ u.passthroughHosts = t.passthroughHosts
         /\ u.hostCert = t.hostCert /\ u.certProjections = t.certProjections
<1>1. \A i \in 1..n : i \in 1..(n + 1) /\ i < n + 1
  OBVIOUS
<1>2. \A i \in 1..(n + 1) : i \in 1..n \/ i = n + 1
  OBVIOUS
<1>3. \A j \in 1..Len(cs) : j < n + 1 => j \in 1..n
  OBVIOUS
<1>4. n + 1 \in 1..(n + 1)
  OBVIOUS
<1>5. /\ u.hosts = t.hosts /\ u.passthroughHosts = t.passthroughHosts
      /\ u.hostCert = t.hostCert /\ u.certProjections = t.certProjections
      /\ u.acme = IF t.acme = None THEN cs[n + 1].upstream ELSE t.acme
  BY DEF claimAcme, IsModel
<1>6. CASE t.acme # None
  <2>1. \E i \in 1..n : FirstSolver(cs, i) /\ t.acme = cs[i].upstream
    BY <1>6 DEF SolvedBy
  <2>2. SolvedBy(cs, u, n + 1)
    BY <1>1, <1>5, <1>6, <2>1 DEF SolvedBy
  <2> QED
    BY <1>5, <2>2
<1>7. CASE t.acme = None
  <2>1. \A i \in 1..n : ~Solves(cs[i])
    BY <1>7 DEF SolvedBy, FirstSolver, Solves
  <2>2. SolvedBy(cs, u, n + 1)
    <3>1. CASE cs[n + 1].upstream = None
      BY <1>2, <1>5, <1>7, <2>1, <3>1 DEF SolvedBy, Solves
    <3>2. CASE cs[n + 1].upstream # None
      <4>1. FirstSolver(cs, n + 1)
        BY <1>3, <2>1, <3>2 DEF FirstSolver, Solves
      <4> QED
        BY <1>4, <1>5, <1>7, <4>1 DEF SolvedBy
    <3> QED
      BY <3>1, <3>2
  <2> QED
    BY <1>5, <2>2
<1> QED
  BY <1>6, <1>7

\* A certificate is projected under a stem that is free, and bound to a host
\* that has none (addCert).
LEMMA CertCertified ==
  ASSUME NEW cs, NEW t, NEW n \in Nat, IsModel(t), CertifiedBy(cs, t, n),
         cs[n + 1].kind = "cert",
         cs[n + 1].host # <<>> =>
           cs[n + 1].stem = cs[n + 1].host /\ cs[n + 1].ns # <<>> /\ cs[n + 1].name # <<>>,
         NEW u, u = addCert(t, cs[n + 1])
  PROVE  /\ CertifiedBy(cs, u, n + 1)
         /\ u.hosts = t.hosts /\ u.passthroughHosts = t.passthroughHosts /\ u.acme = t.acme
<1> DEFINE c == cs[n + 1]
<1>1. \A i \in 1..n : i \in 1..(n + 1)
  OBVIOUS
<1>2. \A i \in 1..(n + 1) : i \in 1..n \/ i = n + 1
  OBVIOUS
<1>3. n + 1 \in 1..(n + 1)
  OBVIOUS
<1>4. c.host # <<>> => c.stem = c.host /\ c.ns # <<>> /\ c.name # <<>>
  OBVIOUS
<1>5. CASE c.stem = <<>> \/ c.ns = <<>> \/ c.name = <<>>
  <2>1. u = t /\ c.host = <<>>
    BY <1>4, <1>5 DEF addCert
  <2>2. CertifiedBy(cs, t, n + 1)
    BY <1>1, <1>2, <2>1 DEF CertifiedBy
  <2> QED
    BY <2>1, <2>2
<1>6. CASE ~(c.stem = <<>> \/ c.ns = <<>> \/ c.name = <<>>)
  <2> DEFINE e == [ns |-> c.ns, name |-> c.name]
             p == PutNew(t.certProjections, c.stem, e)
             h == IF c.host = <<>> THEN t.hostCert ELSE PutNew(t.hostCert, c.host, c.stem)
  <2>1. u = [t EXCEPT !.certProjections = p, !.hostCert = h]
    BY <1>6 DEF addCert
  <2>2. /\ DOMAIN p = DOMAIN t.certProjections \cup {c.stem}
        /\ \A s \in DOMAIN p : \/ s \in DOMAIN t.certProjections /\ p[s] = t.certProjections[s]
                               \/ s = c.stem /\ p[s] = e
    BY DEF PutNew, Put
  <2>3. CASE c.host = <<>>
    <3>1. h = t.hostCert
      BY <2>3
    <3> HIDE DEF p, h, e
    <3>2. u = [hosts |-> t.hosts, passthroughHosts |-> t.passthroughHosts, hostCert |-> h,
               certProjections |-> p, acme |-> t.acme, sticky |-> t.sticky]
      BY <2>1 DEF IsModel
      <3>3. /\ u.hostCert = t.hostCert /\ u.certProjections = p
          /\ u.hosts = t.hosts /\ u.passthroughHosts = t.passthroughHosts /\ u.acme = t.acme
      BY <3>1, <3>2
    <3>4. \A s \in DOMAIN u.certProjections :
            \E i \in 1..(n + 1) : /\ cs[i].kind = "cert" /\ cs[i].stem = s
                                  /\ u.certProjections[s] = [ns |-> cs[i].ns, name |-> cs[i].name]
      <4> TAKE s \in DOMAIN u.certProjections
      <4>1. CASE s \in DOMAIN t.certProjections /\ p[s] = t.certProjections[s]
        BY <1>1, <3>3, <4>1 DEF CertifiedBy
      <4>2. CASE s = c.stem /\ p[s] = e
        BY <1>3, <3>3, <4>2 DEF e
      <4> QED
        BY <2>2, <3>3, <4>1, <4>2
    <3>5. CertifiedBy(cs, u, n + 1)
      BY <1>1, <1>2, <2>2, <2>3, <3>3, <3>4 DEF CertifiedBy
    <3> QED
      BY <3>3, <3>5
  <2>4. CASE c.host # <<>>
    <3>1. /\ DOMAIN h = DOMAIN t.hostCert \cup {c.host}
          /\ \A x \in DOMAIN h : \/ x \in DOMAIN t.hostCert /\ h[x] = t.hostCert[x]
                                 \/ x = c.host /\ h[x] = c.host
      BY <1>4, <2>4 DEF PutNew, Put
    <3> HIDE DEF p, h, e
    <3>2. u = [hosts |-> t.hosts, passthroughHosts |-> t.passthroughHosts, hostCert |-> h,
               certProjections |-> p, acme |-> t.acme, sticky |-> t.sticky]
      BY <2>1 DEF IsModel
      <3>3. /\ u.hostCert = h /\ u.certProjections = p
          /\ u.hosts = t.hosts /\ u.passthroughHosts = t.passthroughHosts /\ u.acme = t.acme
      BY <3>2
    <3>4. \A s \in DOMAIN u.certProjections :
            \E i \in 1..(n + 1) : /\ cs[i].kind = "cert" /\ cs[i].stem = s
                                  /\ u.certProjections[s] = [ns |-> cs[i].ns, name |-> cs[i].name]
      <4> TAKE s \in DOMAIN u.certProjections
      <4>1. CASE s \in DOMAIN t.certProjections /\ p[s] = t.certProjections[s]
        BY <1>1, <3>3, <4>1 DEF CertifiedBy
      <4>2. CASE s = c.stem /\ p[s] = e
        BY <1>3, <3>3, <4>2 DEF e
      <4> QED
        BY <2>2, <3>3, <4>1, <4>2
    <3>5. \A x \in DOMAIN u.hostCert :
            u.hostCert[x] = x /\ \E i \in 1..(n + 1) : cs[i].kind = "cert" /\ cs[i].host = x /\ x # <<>>
      BY <1>1, <1>3, <2>4, <3>1, <3>3 DEF CertifiedBy
    <3>6. \A i \in 1..(n + 1) : cs[i].kind = "cert" /\ cs[i].host # <<>> =>
            cs[i].host \in DOMAIN u.hostCert /\ cs[i].host \in DOMAIN u.certProjections
      BY <1>2, <1>4, <2>2, <3>1, <3>3 DEF CertifiedBy
    <3>7. CertifiedBy(cs, u, n + 1)
      BY <3>4, <3>5, <3>6 DEF CertifiedBy
    <3> QED
      BY <3>3, <3>7
  <2> QED
    BY <2>3, <2>4
<1> QED
  BY <1>5, <1>6

\* One more claim.
LEMMA OneApplied ==
  ASSUME NEW k, NEW cs, NEW t, NEW n \in Nat, n + 1 \in 1..Len(cs), Len(cs) \in Nat, IsModel(t),
         Applied(cs, t, n), Good(k, cs[n + 1], cs[n + 1].src)
  PROVE  Applied(cs, Apply(t, cs[n + 1]), n + 1)
<1> DEFINE c == cs[n + 1]
           u == Apply(t, c)
<1>0. ServedBy(cs, t, n) /\ SolvedBy(cs, t, n) /\ CertifiedBy(cs, t, n)
  BY DEF Applied
<1>1. CASE c.kind = "cert"
  <2>1. u = addCert(t, c)
    BY <1>1 DEF Apply
  <2>2. c.host # <<>> => c.stem = c.host /\ c.ns # <<>> /\ c.name # <<>>
    BY <1>1 DEF Good, GoodCert
  <2> HIDE DEF u
  <2>3. CertifiedBy(cs, u, n + 1) /\ u.hosts = t.hosts /\ u.passthroughHosts = t.passthroughHosts /\ u.acme = t.acme
    BY <1>0, <1>1, <2>1, <2>2, CertCertified
  <2>4. ServedBy(cs, u, n + 1) /\ SolvedBy(cs, u, n + 1)
    BY <1>0, <1>1, <2>3, ServedIdle, SolvedIdle
  <2> QED
    BY <2>3, <2>4 DEF Applied, u
<1>2. CASE c.kind = "route"
  <2>1. u = Insert(t, c.host, KeyOf(c), c.cfg, c.sticky)
    BY <1>2 DEF Apply, addRoute, KeyOf
  <2>2. SaysAs(c.cfg, c.cfg) /\ c.kind \in {"route", "regex"}
    BY <1>2 DEF SaysAs, Good
  <2> HIDE DEF u
  <2>3. /\ ServedBy(cs, u, n + 1)
        /\ u.acme = t.acme /\ u.hostCert = t.hostCert /\ u.certProjections = t.certProjections
    BY <1>0, <1>2, <2>1, <2>2, RouteServed
  <2>4. SolvedBy(cs, u, n + 1) /\ CertifiedBy(cs, u, n + 1)
    BY <1>0, <1>2, <2>3, SolvedIdle, CertifiedIdle
  <2> QED
    BY <2>3, <2>4 DEF Applied, u
<1>3. CASE c.kind = "regex"
  <2> DEFINE cfg == [c.cfg EXCEPT !.expr = pathRegexExpr(c.regex)]
  <2>1. u = Insert(t, c.host, KeyOf(c), cfg, c.sticky)
    BY <1>3 DEF Apply, addRegexRoute, KeyOf
  <2>2. GoodCfg(c.cfg)
    BY <1>3 DEF Good
  <2>3. SaysAs(cfg, c.cfg) /\ c.kind \in {"route", "regex"}
    BY <1>3, <2>2 DEF SaysAs, GoodCfg
  <2> HIDE DEF cfg, u
  <2>4. /\ ServedBy(cs, u, n + 1)
        /\ u.acme = t.acme /\ u.hostCert = t.hostCert /\ u.certProjections = t.certProjections
    BY <1>0, <1>3, <2>1, <2>3, RouteServed
  <2>5. SolvedBy(cs, u, n + 1) /\ CertifiedBy(cs, u, n + 1)
    BY <1>0, <1>3, <2>4, SolvedIdle, CertifiedIdle
  <2> QED
    BY <2>4, <2>5 DEF Applied, u
<1>4. CASE c.kind = "pass"
  <2>1. u = addPassthroughHost(t, c)
    BY <1>4 DEF Apply
  <2>2. c.host # <<>> /\ c.upstream # None
    BY <1>4 DEF Good
  <2>3. /\ ServedBy(cs, u, n + 1)
        /\ u.acme = t.acme /\ u.hostCert = t.hostCert /\ u.certProjections = t.certProjections
    BY <1>0, <1>4, <2>1, <2>2, PassServed
  <2> HIDE DEF u
  <2>4. SolvedBy(cs, u, n + 1) /\ CertifiedBy(cs, u, n + 1)
    BY <1>0, <1>4, <2>3, SolvedIdle, CertifiedIdle
  <2> QED
    BY <2>3, <2>4 DEF Applied, u
<1>5. CASE c.kind = "acme"
  <2>1. u = claimAcme(t, c)
    BY <1>5 DEF Apply
  <2>2. /\ SolvedBy(cs, u, n + 1) /\ u.hosts = t.hosts /\ u.passthroughHosts = t.passthroughHosts
        /\ u.hostCert = t.hostCert /\ u.certProjections = t.certProjections
    BY <1>0, <1>5, <2>1, AcmeSolved
  <2> HIDE DEF u
  <2>3. ServedBy(cs, u, n + 1) /\ CertifiedBy(cs, u, n + 1)
    BY <1>0, <1>5, <2>2, ServedIdle, CertifiedIdle
  <2> QED
    BY <2>2, <2>3 DEF Applied, u
<1>6. CASE c.kind \notin {"cert", "route", "regex", "pass", "acme"}
  <2>1. u = [t EXCEPT !.sticky = TRUE]
    BY <1>6 DEF Apply
  <2>2. /\ u.hosts = t.hosts /\ u.passthroughHosts = t.passthroughHosts /\ u.acme = t.acme
        /\ u.hostCert = t.hostCert /\ u.certProjections = t.certProjections
    BY <2>1 DEF IsModel
  <2> HIDE DEF u
  <2>3. ServedBy(cs, u, n + 1) /\ SolvedBy(cs, u, n + 1) /\ CertifiedBy(cs, u, n + 1)
    BY <1>0, <1>6, <2>2, ServedIdle, SolvedIdle, CertifiedIdle
  <2> QED
    BY <2>3 DEF Applied, u
<1> QED
  BY <1>1, <1>2, <1>3, <1>4, <1>5, <1>6

-----------------------------------------------------------------------------
(***************************************************************************)
(* Precedence.                                                             *)
(***************************************************************************)
\* The first claim in the list is the one that takes precedence.
LEMMA WinnerIs ==
  ASSUME NEW k, Ordered(k, claims), NEW is, is \subseteq DOMAIN claims, \A i \in is : Serves(claims[i]),
         NEW i \in is, \A j \in is : i <= j
  PROVE  Winner(is) = claims[i]
<1>1. DOMAIN claims = 1..Len(claims) /\ Len(claims) \in Nat /\ \A j \in 1..Len(claims) : claims[j] \in ToSet(claims)
  BY SeqFacts DEF Ordered
<1>2. \A j \in is : j \in 1..Len(claims) /\ j \in Nat
  BY <1>1
<1>3. \A j \in is : claims[j].src[1] \in Nat /\ claims[j].src[2] \in Nat
  BY <1>1, <1>2 DEF Ordered
<1>4. ASSUME NEW j \in is \ {i} PROVE i < j /\ Before(i, j) /\ ~Before(j, i)
  <2>1. i < j
    BY <1>2
  <2>2. NotAfter(claims[i].src, claims[j].src)
    BY <1>2, <2>1 DEF Ordered, InOrder
  <2> DEFINE a == claims[i].src
             b == claims[j].src
  <2>3. a[1] \in Nat /\ a[2] \in Nat /\ b[1] \in Nat /\ b[2] \in Nat /\ i \in Nat /\ j \in Nat
    BY <1>2, <1>3
  <2>4. Before(i, j) <=> a[1] < b[1] \/ (a[1] = b[1] /\ a[2] < b[2]) \/ (a = b /\ i < j)
    BY DEF Before
  <2>5. Before(j, i) <=> b[1] < a[1] \/ (b[1] = a[1] /\ b[2] < a[2]) \/ (b = a /\ j < i)
    BY DEF Before
  <2>6. a[1] < b[1] \/ (a[1] = b[1] /\ a[2] < b[2]) \/ a = b
    BY <2>2 DEF NotAfter
  <2> HIDE DEF a, b
  <2> QED
    BY <2>1, <2>3, <2>4, <2>5, <2>6
<1> DEFINE P(x) == \A j \in is \ {x} : Before(x, j)
           w == CHOOSE x \in is : P(x)
<1>5. w \in is /\ P(w)
  BY <1>4
<1>6. Winner(is) = claims[w]
  BY DEF Winner
<1> HIDE DEF w
<1>7. w = i
  <2> SUFFICES ASSUME w # i PROVE FALSE
    OBVIOUS
  <2>1. Before(w, i)
    BY <1>5
  <2>2. ~Before(w, i)
    BY <1>4, <1>5
  <2> QED
    BY <2>1, <2>2
<1> QED
  BY <1>6, <1>7

-----------------------------------------------------------------------------
(***************************************************************************)
(* The render.                                                             *)
(***************************************************************************)
\* The inductive invariant: the claims are in order and complete, and the
\* table holds what the first next - 1 of them, or all of them, left in it.
Sourced ==
  /\ Ordered(cluster, claims)
  /\ \A h : Concrete(h) /\ CertsFor(cluster, h) # {} => Binds(claims, h)

RenderInv ==
  /\ cluster \in Clusters /\ next \in Nat /\ IsSeq(claims)
  /\ IsModel(m) /\ Exclusive(m)
  /\ next # 0 => Sourced /\ next <= Len(claims) + 1 /\ Applied(claims, m, next - 1)
  /\ Done => Sourced /\ Applied(claims, m, Len(claims)) /\ file = emit(m) /\ certs = m.certProjections

\* The invariant holds before the first render.
LEMMA RenderInvInit == Init => RenderInv
  BY NewModelSound, NilSeq DEF Init, RenderInv, Done

\* Begin starts with no claim applied, Claim applies one more, Emit writes
\* when all are applied.
LEMMA RenderInvStep == RenderInv /\ [Next]_vars => RenderInv'
<1> SUFFICES ASSUME RenderInv, [Next]_vars PROVE RenderInv'
  OBVIOUS
<1> USE DEF RenderInv
<1>1. CASE Begin
  <2>1. PICK ings \in SetToSeqs(cluster.ingresses), gws \in SetToSeqs(cluster.gateways),
             rts \in SetToSeqs(cluster.httpRoutes), slices \in SetToSeqs(cluster.slices) :
          claims' = Claims(cluster, ings, gws, rts, slices)
    BY <1>1 DEF Begin
  <2>2. cluster' = cluster /\ next' = 1 /\ m' = newRenderModel
    BY <1>1 DEF Begin
  <2>3. WellFormed(cluster)
    BY ClustersAssumption
  <2>4. Ordered(cluster, claims') /\ \A h : Concrete(h) /\ CertsFor(cluster, h) # {} => Binds(claims', h)
    <3>1. Ordered(cluster, claims')
      BY <2>1, <2>3, ClaimsOrdered
    <3>2. ASSUME NEW h, Concrete(h), CertsFor(cluster, h) # {} PROVE Binds(claims', h)
      BY <2>1, <2>3, <3>2, ClaimsBind
    <3> QED
      BY <3>1, <3>2
  <2>5. Sourced'
    BY <2>2, <2>4 DEF Sourced
  <2>6. Applied(claims', m', 0)
    BY <2>2, NoneApplied
  <2>7. IsSeq(claims') /\ Len(claims') \in Nat
    BY <2>4, SeqFacts DEF Ordered
  <2>8. IsModel(m') /\ Exclusive(m')
    BY <2>2, NewModelSound
  <2>9. next' - 1 = 0 /\ next' <= Len(claims') + 1 /\ next' # 0 /\ next' \in Nat
    BY <2>2, <2>7
  <2> QED
    BY <2>2, <2>5, <2>6, <2>7, <2>8, <2>9 DEF Done
<1>2. CASE Claim
  <2>1. /\ next \in DOMAIN claims /\ m' = Apply(m, claims[next]) /\ next' = next + 1
        /\ cluster' = cluster /\ claims' = claims
    BY <1>2 DEF Claim
  <2>2. next \in 1..Len(claims) /\ Len(claims) \in Nat /\ claims[next] \in ToSet(claims)
    BY <2>1, SeqFacts
  <2>3. Sourced /\ Applied(claims, m, next - 1)
    BY <2>2
  <2> DEFINE n == next - 1
  <2>4. n \in Nat /\ n + 1 = next
    BY <2>2
  <2>5. Good(cluster, claims[next], claims[next].src)
    BY <2>2, <2>3 DEF Sourced, Ordered
  <2> HIDE DEF n
  <2>6. Applied(claims, m, n)
    BY <2>3 DEF n
  <2>7. Applied(claims, Apply(m, claims[n + 1]), n + 1)
    BY <2>2, <2>4, <2>5, <2>6, OneApplied
  <2>8. Applied(claims', m', next' - 1)
    <3>1. next' - 1 = n + 1
      BY <2>1, <2>4
    <3> QED
      BY <2>1, <2>4, <2>7, <3>1
  <2>9. SoundStep(m, m')
    BY <2>1, ApplySound
  <2>10. Sourced'
    BY <2>1, <2>3 DEF Sourced
  <2>11. next' # 0 /\ next' \in Nat /\ next' <= Len(claims') + 1
    BY <2>1, <2>2
  <2> QED
    BY <2>1, <2>8, <2>9, <2>10, <2>11 DEF SoundStep, Done
<1>3. CASE Emit
  <2>1. /\ next = Len(claims) + 1 /\ next' = 0 /\ certs' = m.certProjections /\ file' = emit(m)
        /\ cluster' = cluster /\ claims' = claims /\ m' = m
    BY <1>3 DEF Emit
  <2>2. Len(claims) \in Nat
    BY SeqFacts
  <2>3. next # 0 /\ next - 1 = Len(claims)
    BY <2>1, <2>2
  <2>4. Sourced /\ Applied(claims, m, Len(claims))
    BY <2>3
  <2>5. Sourced'
    BY <2>1, <2>4 DEF Sourced
  <2> QED
    BY <2>1, <2>4, <2>5
<1>4. CASE UNCHANGED vars
  BY <1>4 DEF vars, Done, Sourced
<1> QED
  BY <1>1, <1>2, <1>3, <1>4 DEF Next

\* The table that was emitted.
LEMMA DoneFacts ==
  ASSUME RenderInv, Done
  PROVE  /\ Ordered(cluster, claims) /\ Says(file, m) /\ Exclusive(m)
         /\ Len(claims) \in Nat /\ DOMAIN claims = 1..Len(claims)
         /\ ServedBy(claims, m, Len(claims)) /\ SolvedBy(claims, m, Len(claims))
         /\ CertifiedBy(claims, m, Len(claims))
  BY EmitSays, SeqFacts DEF RenderInv, Sourced, Applied

\* A v2 route means what its v1 form would, whatever the cluster holds
\* (writeRouteV1, writeRouteV2).
THEOREM SchemaAgnosticHolds == Spec => []SchemaAgnostic
<1>1. ASSUME RenderInv, Done, NEW hk \in DOMAIN m.hosts
      PROVE  Meaning(file.hosts[hk[1]].paths[hk[2]]) = Meaning(writeRouteV1(m.hosts[hk]))
  <2> DEFINE h == hk[1]
             key == hk[2]
             b == file.hosts[h].paths[key]
  <2>1. Says(file, m) /\ ServedBy(claims, m, Len(claims))
    BY <1>1, DoneFacts
  <2>2. hk = <<h, key>> /\ GoodCfg(m.hosts[hk])
    BY <2>1 DEF ServedBy, SaysAs
  <2>3. h \in TerminateHosts(m) /\ key \in KeysOn(m, h)
    BY DEF TerminateHosts, KeysOn
  <2>4. b \in {writeRouteV1(m.hosts[hk]), writeRouteV2(m.hosts[hk])}
    BY <2>1, <2>2, <2>3 DEF Says
  <2> HIDE DEF b
  <2>5. Meaning(b) = Meaning(writeRouteV1(m.hosts[hk]))
    BY <2>2, <2>4, SchemasAgree
  <2> QED
    BY <2>5 DEF b
<1>2. RenderInv => SchemaAgnostic
  BY <1>1 DEF SchemaAgnostic
<1> QED
  BY <1>2, RenderInvInit, RenderInvStep, PTL DEF Spec

\* No route is left without servers, and the pods among them are usable, on a
\* port of their slice and taken once, whatever the cluster holds and in
\* whatever order its slices are listed (endpointAddrs, sliceEndpointAddrs,
\* ruleBackends).
THEOREM ServersServeHolds == Spec => []ServersServe
<1>1. ASSUME RenderInv, Done, NEW hk \in DOMAIN m.hosts
      PROVE  Serving(cluster, file.hosts[hk[1]].paths[hk[2]].servers)
  <2> DEFINE h == hk[1]
             key == hk[2]
             b == file.hosts[h].paths[key]
  <2>1. /\ Says(file, m) /\ ServedBy(claims, m, Len(claims)) /\ Ordered(cluster, claims)
        /\ DOMAIN claims = 1..Len(claims)
    BY <1>1, DoneFacts
  <2>2. PICK i \in 1..Len(claims) :
          hk = <<h, key>> /\ FirstRoute(claims, i, h, key) /\ SaysAs(m.hosts[hk], claims[i].cfg)
    BY <2>1 DEF ServedBy
  <2>3. h \in TerminateHosts(m) /\ key \in KeysOn(m, h)
    BY DEF TerminateHosts, KeysOn
  <2>4. b \in {writeRouteV1(m.hosts[hk]), writeRouteV2(m.hosts[hk])}
    BY <2>1, <2>2, <2>3 DEF Says
  <2>5. claims[i].kind \in {"route", "regex"}
    BY <2>2 DEF FirstRoute, RoutesAt, Routes
  <2>6. claims[i] \in ToSet(claims)
    BY <2>1, ElemIn DEF Ordered
  <2>7. Serving(cluster, claims[i].cfg.servers)
    BY <2>1, <2>5, <2>6 DEF Ordered, Good
  <2> HIDE DEF b
  <2>8. b.servers = claims[i].cfg.servers
    BY <2>2, <2>4, BlockFacts DEF SaysAs
  <2> QED
    BY <2>7, <2>8 DEF b
<1>2. RenderInv => ServersServe
  BY <1>1 DEF ServersServe
<1> QED
  BY <1>2, RenderInvInit, RenderInvStep, PTL DEF Spec

\* The certificate bound to a host is one that an Ingress or a Gateway lists
\* for it, unless stems collide, and a concrete host with one listed is bound,
\* whatever the cluster holds (addCert, certStem, hostCert in
\* renderUpstreams and renderUpstreamsV2).
THEOREM CertOfHostHolds == Spec => []CertOfHost
<1>1. ASSUME RenderInv, Done, NEW h \in DOMAIN file.hosts, file.hosts[h].tls = "terminate"
      PROVE  IF CertsFor(cluster, h) = {} \/ ~Concrete(h) THEN file.hosts[h].cert = None
             ELSE /\ file.hosts[h].cert \in DOMAIN certs
                  /\ LET cp == certs[file.hosts[h].cert]
                     IN <<cp.ns, cp.name>> \in CertsFor(cluster, h) \/ Collides(h)
  <2>1. /\ Ordered(cluster, claims) /\ Says(file, m) /\ CertifiedBy(claims, m, Len(claims))
        /\ DOMAIN claims = 1..Len(claims)
    BY <1>1, DoneFacts
  <2>2. certs = m.certProjections /\ Sourced
    BY <1>1 DEF RenderInv
  <2>3. h \in TerminateHosts(m)
    <3>1. h \in TerminateHosts(m) \/ h \in PassthroughHosts(m)
      BY <2>1 DEF Says
    <3>2. CASE h \in PassthroughHosts(m)
      <4>1. file.hosts[h] = [tls |-> "passthrough", upstream |-> m.passthroughHosts[h]]
        BY <2>1, <3>2 DEF Says
      <4>2. file.hosts[h].tls = "passthrough"
        BY <4>1
      <4> QED
        BY <1>1, <4>2
    <3> QED
      BY <3>1, <3>2
  <2>4. file.hosts[h].cert = IF h \in DOMAIN m.hostCert THEN m.hostCert[h] ELSE None
    BY <2>1, <2>3 DEF Says, CertOn
  <2>5. \A i \in 1..Len(claims) : claims[i] \in ToSet(claims) /\ Good(cluster, claims[i], claims[i].src)
    BY <2>1, SeqFacts DEF Ordered
  <2>6. CASE CertsFor(cluster, h) = {} \/ ~Concrete(h)
    <3>1. ASSUME h \in DOMAIN m.hostCert PROVE FALSE
      <4>1. PICK i \in 1..Len(claims) : claims[i].kind = "cert" /\ claims[i].host = h /\ h # <<>>
        BY <2>1, <3>1 DEF CertifiedBy
      <4>2. GoodCert(cluster, claims[i])
        BY <2>5, <4>1 DEF Good
      <4> QED
        BY <2>6, <4>1, <4>2 DEF GoodCert
    <3> QED
      BY <2>4, <2>6, <3>1
  <2>7. CASE CertsFor(cluster, h) # {} /\ Concrete(h)
    <3>1. Binds(claims, h) /\ h # <<>>
      BY <2>2, <2>7 DEF Sourced, Concrete
    <3>2. PICK i \in 1..Len(claims) : claims[i].kind = "cert" /\ claims[i].host = h
      BY <2>1, <3>1 DEF Binds, ToSet
    <3>3. h \in DOMAIN m.hostCert /\ h \in DOMAIN m.certProjections /\ m.hostCert[h] = h
      BY <2>1, <3>1, <3>2 DEF CertifiedBy
    <3>4. file.hosts[h].cert = h /\ h \in DOMAIN certs
      BY <2>2, <2>4, <3>3
    <3>5. PICK j \in 1..Len(claims) : /\ claims[j].kind = "cert" /\ claims[j].stem = h
                                      /\ m.certProjections[h] = [ns |-> claims[j].ns, name |-> claims[j].name]
      BY <2>1, <3>3 DEF CertifiedBy
    <3>6. certs[h].ns = claims[j].ns /\ certs[h].name = claims[j].name
      BY <2>2, <3>5
    <3>7. CASE claims[j].host = <<>>
      <4>1. Collides(h)
        BY <2>1, <3>5, <3>7 DEF Collides
      <4> QED
        BY <2>7, <3>4, <4>1
    <3>8. CASE claims[j].host # <<>>
      <4>1. GoodCert(cluster, claims[j])
        BY <2>5, <3>5, <3>8 DEF Good
      <4>2. <<claims[j].ns, claims[j].name>> \in CertsFor(cluster, h)
        BY <3>5, <4>1 DEF GoodCert
      <4> QED
        BY <2>7, <3>4, <3>6, <4>2
    <3> QED
      BY <3>7, <3>8
  <2> QED
    BY <2>6, <2>7
<1>2. RenderInv => CertOfHost
  BY <1>1 DEF CertOfHost
<1> QED
  BY <1>2, RenderInvInit, RenderInvStep, PTL DEF Spec

\* Which hosts are in the file.
LEMMA AllClaimed ==
  ASSUME RenderInv, Done
  PROVE  DOMAIN file.hosts = Claimed
<1>1. Says(file, m) /\ ServedBy(claims, m, Len(claims)) /\ DOMAIN claims = 1..Len(claims)
  BY DoneFacts
<1>2. ASSUME NEW h \in DOMAIN file.hosts PROVE h \in Claimed
  <2>1. h \in TerminateHosts(m) \/ h \in PassthroughHosts(m)
    BY <1>1 DEF Says
  <2>2. CASE h \in TerminateHosts(m)
    <3>1. PICK hk \in DOMAIN m.hosts : hk[1] = h
      BY <2>2 DEF TerminateHosts
    <3>2. PICK i \in 1..Len(claims) : FirstRoute(claims, i, hk[1], hk[2])
      BY <1>1, <3>1 DEF ServedBy
    <3>3. claims[i].kind \in {"route", "regex"} /\ claims[i].host = h
      BY <3>1, <3>2 DEF FirstRoute, RoutesAt, Routes
    <3> QED
      BY <1>1, <3>3 DEF Claimed
  <2>3. CASE h \in PassthroughHosts(m)
    <3>1. PICK i \in 1..Len(claims) : FirstPass(claims, i, h)
      BY <1>1, <2>3 DEF ServedBy, PassthroughHosts
    <3>2. claims[i].kind = "pass" /\ claims[i].host = h
      BY <3>1 DEF FirstPass, Passes
    <3> QED
      BY <1>1, <3>2 DEF Claimed
  <2> QED
    BY <2>1, <2>2, <2>3
<1>3. ASSUME NEW h \in Claimed PROVE h \in DOMAIN file.hosts
  <2>1. PICK i \in 1..Len(claims) : claims[i].kind \in {"route", "regex", "pass"} /\ claims[i].host = h
    BY <1>1 DEF Claimed
  <2>2. CASE claims[i].kind = "pass"
    <3>1. Passes(claims[i], h)
      BY <2>1, <2>2 DEF Passes
    <3>2. h \in DOMAIN m.passthroughHosts \/ h \in TerminateHosts(m)
      BY <1>1, <3>1 DEF ServedBy
    <3> QED
      BY <1>1, <3>2 DEF Says, PassthroughHosts
  <2>3. CASE claims[i].kind # "pass"
    <3>1. Routes(claims[i], h)
      BY <2>1, <2>3 DEF Routes
    <3>2. h \in DOMAIN m.passthroughHosts \/ <<h, KeyOf(claims[i])>> \in DOMAIN m.hosts
      BY <1>1, <3>1 DEF ServedBy
    <3>3. h \in DOMAIN m.passthroughHosts \/ h \in TerminateHosts(m)
      BY <3>2 DEF TerminateHosts
    <3> QED
      BY <1>1, <3>3 DEF Says, PassthroughHosts
  <2> QED
    BY <2>2, <2>3
<1> QED
  BY <1>2, <1>3

\* A host that is passed through is, because the first claim on it says so.
LEMMA PassWins ==
  ASSUME RenderInv, Done, NEW h \in PassthroughHosts(m)
  PROVE  /\ Winner(RoutesOn(h) \cup PassesOn(h)).kind = "pass"
         /\ file.hosts[h] = [tls |-> "passthrough", upstream |-> Winner(PassesOn(h)).upstream]
<1>1. /\ Says(file, m) /\ ServedBy(claims, m, Len(claims)) /\ DOMAIN claims = 1..Len(claims)
      /\ Len(claims) \in Nat /\ Ordered(cluster, claims)
  BY DoneFacts
<1>2. PICK i \in 1..Len(claims) : FirstPass(claims, i, h) /\ m.passthroughHosts[h] = claims[i].upstream
  BY <1>1 DEF ServedBy, PassthroughHosts
<1> DEFINE ps == PassesOn(h)
           is == RoutesOn(h) \cup PassesOn(h)
<1>3. i \in ps /\ i \in is /\ claims[i].kind = "pass"
  BY <1>1, <1>2 DEF FirstPass, Passes, PassesOn
<1>4. \A j \in is : j \in 1..Len(claims) /\ (Routes(claims[j], h) \/ Passes(claims[j], h))
  BY <1>1 DEF RoutesOn, PassesOn, Routes, Passes
<1>5. \A j \in is : ~(j < i)
  BY <1>2, <1>4 DEF FirstPass
<1>6. \A j \in is : i <= j
  BY <1>1, <1>2, <1>4, <1>5
<1>7. ps \subseteq is /\ is \subseteq DOMAIN claims /\ \A j \in is : Serves(claims[j])
  BY <1>1, <1>4 DEF Routes, Passes, Serves
<1> HIDE DEF is, ps
<1>8. Winner(is) = claims[i]
  BY <1>1, <1>3, <1>6, <1>7, WinnerIs
<1>9. Winner(ps) = claims[i]
  <2>1. ps \subseteq DOMAIN claims /\ (\A j \in ps : Serves(claims[j])) /\ \A j \in ps : i <= j
    BY <1>6, <1>7
  <2> QED
    BY <1>1, <1>3, <2>1, WinnerIs
<1>10. file.hosts[h] = [tls |-> "passthrough", upstream |-> m.passthroughHosts[h]]
  BY <1>1 DEF Says
<1> QED
  BY <1>2, <1>3, <1>8, <1>9, <1>10 DEF is, ps

\* A host that is terminated has no earlier claim to pass it through.
LEMMA RouteWins ==
  ASSUME RenderInv, Done, NEW h \in TerminateHosts(m)
  PROVE  Winner(RoutesOn(h) \cup PassesOn(h)).kind # "pass"
<1>1. /\ ServedBy(claims, m, Len(claims)) /\ DOMAIN claims = 1..Len(claims)
      /\ Len(claims) \in Nat /\ Ordered(cluster, claims)
  BY DoneFacts
<1>2. PICK hk \in DOMAIN m.hosts : hk[1] = h
  BY DEF TerminateHosts
<1>3. PICK n \in 1..Len(claims) : UnpassedRoute(claims, n, h)
  BY <1>1, <1>2 DEF ServedBy
<1> DEFINE rs == RoutesOn(h)
           is == RoutesOn(h) \cup PassesOn(h)
<1>4. n \in rs
  BY <1>1, <1>3 DEF UnpassedRoute, Routes, RoutesOn
<1>5. \A j \in rs : j \in 1..Len(claims) /\ j \in is /\ claims[j].kind \in {"route", "regex"}
  BY <1>1 DEF RoutesOn
<1>6. \A j \in is : j \in rs \/ (j \in 1..Len(claims) /\ Passes(claims[j], h))
  BY <1>1 DEF PassesOn, Passes
<1>7. is \subseteq DOMAIN claims /\ \A j \in is : Serves(claims[j])
  BY <1>1, <1>5, <1>6 DEF Passes, Serves
<1> HIDE DEF rs, is
<1>8. rs \subseteq Nat /\ rs # {}
  BY <1>4, <1>5
<1>9. PICK i \in rs : \A j \in rs : i <= j
  BY <1>8, Least
<1>10. ASSUME NEW j \in is PROVE i <= j
  <2>1. CASE j \in rs
    BY <1>9, <2>1
  <2>2. CASE j \in 1..Len(claims) /\ Passes(claims[j], h)
    <3>1. ~(j < n)
      BY <1>3, <2>2 DEF UnpassedRoute
    <3>2. i <= n /\ i \in Nat /\ n \in Nat /\ j \in Nat
      BY <1>4, <1>8, <1>9, <2>2
    <3> QED
      BY <3>1, <3>2
  <2> QED
    BY <1>6, <2>1, <2>2
<1>11. i \in is /\ claims[i].kind # "pass"
  BY <1>5, <1>9
<1>12. Winner(is) = claims[i]
  BY <1>1, <1>7, <1>10, <1>11, WinnerIs
<1> QED
  BY <1>11, <1>12 DEF is

\* The keys of a terminated host, and who has each.
LEMMA KeysServed ==
  ASSUME RenderInv, Done, NEW h \in TerminateHosts(m)
  PROVE  /\ file.hosts[h].tls = "terminate"
         /\ DOMAIN file.hosts[h].paths = {KeyOf(claims[i]) : i \in RoutesOn(h)}
         /\ \A key \in {KeyOf(claims[i]) : i \in RoutesOn(h)} :
              LET cfg == Winner({i \in RoutesOn(h) : KeyOf(claims[i]) = key}).cfg
              IN /\ file.hosts[h].paths[key].servers = cfg.servers
                 /\ file.hosts[h].paths[key].redirect = cfg.redirect
<1> DEFINE keys == {KeyOf(claims[i]) : i \in RoutesOn(h)}
<1>1. /\ Says(file, m) /\ ServedBy(claims, m, Len(claims)) /\ DOMAIN claims = 1..Len(claims)
      /\ Len(claims) \in Nat /\ Ordered(cluster, claims) /\ Exclusive(m)
  BY DoneFacts
<1>2. file.hosts[h].tls = "terminate" /\ DOMAIN file.hosts[h].paths = KeysOn(m, h)
  BY <1>1 DEF Says
<1>3. h \notin DOMAIN m.passthroughHosts
  BY <1>1 DEF Exclusive, PassthroughHosts
<1>4. \A key : key \in keys <=> \E i \in 1..Len(claims) : RoutesAt(claims[i], h, key)
  BY <1>1 DEF RoutesOn, RoutesAt, Routes
<1>5. \A key : key \in KeysOn(m, h) <=> <<h, key>> \in DOMAIN m.hosts
  <2>1. ASSUME NEW key \in KeysOn(m, h) PROVE <<h, key>> \in DOMAIN m.hosts
    <3>1. PICK hk \in DOMAIN m.hosts : hk[1] = h /\ hk[2] = key
      BY DEF KeysOn
    <3>2. hk = <<hk[1], hk[2]>>
      BY <1>1 DEF ServedBy
    <3> QED
      BY <3>1, <3>2
  <2> QED
    BY <2>1 DEF KeysOn
<1>6. ASSUME NEW key \in KeysOn(m, h) PROVE key \in keys
  <2>1. <<h, key>> \in DOMAIN m.hosts /\ <<h, key>>[1] = h /\ <<h, key>>[2] = key
    BY <1>5
  <2>2. \E i \in 1..Len(claims) : FirstRoute(claims, i, h, key)
    BY <1>1, <2>1 DEF ServedBy
  <2> HIDE DEF keys
  <2> QED
    BY <1>4, <2>2 DEF FirstRoute
<1>7. ASSUME NEW key \in keys PROVE key \in KeysOn(m, h)
  <2>1. PICK i \in 1..Len(claims) : Routes(claims[i], h) /\ KeyOf(claims[i]) = key
    BY <1>4 DEF RoutesAt
  <2>2. <<h, key>> \in DOMAIN m.hosts
    BY <1>1, <1>3, <2>1 DEF ServedBy
  <2> QED
    BY <1>5, <2>2
<1>8. ASSUME NEW key \in keys
      PROVE  LET cfg == Winner({i \in RoutesOn(h) : KeyOf(claims[i]) = key}).cfg
             IN /\ file.hosts[h].paths[key].servers = cfg.servers
                /\ file.hosts[h].paths[key].redirect = cfg.redirect
  <2> DEFINE rs == {i \in RoutesOn(h) : KeyOf(claims[i]) = key}
             hk == <<h, key>>
             b  == file.hosts[h].paths[key]
  <2>1. hk \in DOMAIN m.hosts /\ hk[1] = h /\ hk[2] = key /\ key \in KeysOn(m, h)
    BY <1>5, <1>7
  <2>2. b \in {writeRouteV1(m.hosts[hk]), writeRouteV2(m.hosts[hk])}
    BY <1>1, <2>1 DEF Says
  <2> HIDE DEF hk, b, keys
  <2>3. PICK i \in 1..Len(claims) : FirstRoute(claims, i, h, key) /\ SaysAs(m.hosts[hk], claims[i].cfg)
    BY <1>1, <2>1 DEF ServedBy
  <2>4. b.servers = claims[i].cfg.servers /\ b.redirect = claims[i].cfg.redirect
    BY <2>2, <2>3, BlockFacts DEF SaysAs
  <2>5. \A j : j \in rs <=> j \in 1..Len(claims) /\ RoutesAt(claims[j], h, key)
    BY <1>1 DEF RoutesOn, RoutesAt, Routes
  <2>6. i \in rs /\ \A j \in rs : ~(j < i)
    BY <2>3, <2>5 DEF FirstRoute
  <2>7. rs \subseteq DOMAIN claims /\ \A j \in rs : Serves(claims[j])
    BY <1>1, <2>5 DEF RoutesAt, Routes, Serves
  <2> HIDE DEF rs
  <2>8. \A j \in rs : i <= j
    BY <2>3, <2>5, <2>6
  <2>9. Winner(rs) = claims[i]
    BY <1>1, <2>6, <2>7, <2>8, WinnerIs
  <2> QED
    BY <2>4, <2>9 DEF rs, b
<1> QED
  BY <1>2, <1>6, <1>7, <1>8

\* The challenge path.
LEMMA AcmeWins ==
  ASSUME RenderInv, Done
  PROVE  file.acme = IF AcmeClaims = {} THEN None ELSE Winner(AcmeClaims).upstream
<1>1. /\ Says(file, m) /\ SolvedBy(claims, m, Len(claims)) /\ DOMAIN claims = 1..Len(claims)
      /\ Len(claims) \in Nat /\ Ordered(cluster, claims)
  BY DoneFacts
<1> DEFINE is == AcmeClaims
<1>2. \A i : i \in is <=> i \in 1..Len(claims) /\ Solves(claims[i])
  BY <1>1 DEF AcmeClaims, Solves
<1>3. file.acme = m.acme
  BY <1>1 DEF Says
<1> HIDE DEF is
<1>4. CASE m.acme = None /\ \A i \in 1..Len(claims) : ~Solves(claims[i])
  <2>1. is = {}
    BY <1>2, <1>4
  <2> QED
    BY <1>3, <1>4, <2>1 DEF is
<1>5. CASE \E i \in 1..Len(claims) : FirstSolver(claims, i) /\ m.acme = claims[i].upstream
  <2>1. PICK i \in 1..Len(claims) : FirstSolver(claims, i) /\ m.acme = claims[i].upstream
    BY <1>5
  <2>2. i \in is /\ \A j \in is : ~(j < i)
    BY <1>2, <2>1 DEF FirstSolver
  <2>3. \A j \in is : i <= j
    BY <1>2, <2>1, <2>2
  <2>4. is \subseteq DOMAIN claims /\ \A j \in is : Serves(claims[j])
    BY <1>1, <1>2 DEF Solves, Serves
  <2>5. Winner(is) = claims[i]
    BY <1>1, <2>2, <2>3, <2>4, WinnerIs
  <2> QED
    BY <1>3, <2>1, <2>2, <2>5 DEF is
<1> QED
  BY <1>1, <1>4, <1>5 DEF SolvedBy

\* What is served is decided by precedence alone: whatever order the caches
\* list in, host modes, routes and the challenge path go to the first claim,
\* and every host claimed is in the file (render, addRoute, addRegexRoute,
\* addPassthroughHost, claimAcme).
THEOREM FirstClaimWinsHolds == Spec => []FirstClaimWins
<1>1. ASSUME RenderInv, Done PROVE FirstClaimWins
  <2>1. ASSUME NEW h \in Claimed
        PROVE  IF Winner(RoutesOn(h) \cup PassesOn(h)).kind = "pass"
               THEN file.hosts[h] = [tls |-> "passthrough", upstream |-> Winner(PassesOn(h)).upstream]
               ELSE LET keys == {KeyOf(claims[i]) : i \in RoutesOn(h)}
                    IN /\ file.hosts[h].tls = "terminate"
                       /\ DOMAIN file.hosts[h].paths = keys
                       /\ \A key \in keys :
                            LET cfg == Winner({i \in RoutesOn(h) : KeyOf(claims[i]) = key}).cfg
                            IN /\ file.hosts[h].paths[key].servers = cfg.servers
                               /\ file.hosts[h].paths[key].redirect = cfg.redirect
    <3>1. h \in TerminateHosts(m) \/ h \in PassthroughHosts(m)
      BY <1>1, AllClaimed, DoneFacts DEF Says
    <3>2. CASE h \in PassthroughHosts(m)
      BY <1>1, <3>2, PassWins
    <3>3. CASE h \in TerminateHosts(m)
      BY <1>1, <3>3, RouteWins, KeysServed
    <3> QED
      BY <3>1, <3>2, <3>3
  <2> QED
    BY <1>1, <2>1, AllClaimed, AcmeWins DEF FirstClaimWins
<1>2. RenderInv => FirstClaimWins
  BY <1>1 DEF FirstClaimWins
<1> QED
  BY <1>2, RenderInvInit, RenderInvStep, PTL DEF Spec

-----------------------------------------------------------------------------
(***************************************************************************)
(* Listings of the same, sorted, are the same.                             *)
(***************************************************************************)
\* Only a list of nothing is empty.
LEMMA EmptyListing ==
  ASSUME NEW f, NEW O, NEW V, IsListing(f, O, V)
  PROVE  f = <<>> <=> O = {}
<1>1. Len(f) \in Nat /\ DOMAIN f = 1..Len(f) /\ f = [p \in 1..Len(f) |-> f[p]]
  BY SeqFacts DEF IsListing
<1>2. PICK b : ListedBy(f, O, V, b)
  BY DEF IsListing
<1>3. b \in [1..Len(f) -> O] /\ \A x \in O : \E p \in 1..Len(f) : b[p] = x
  BY <1>2 DEF ListedBy
<1>4. CASE Len(f) = 0
  <2>1. f = <<>>
    BY <1>1, <1>4
  <2>2. O = {}
    BY <1>3, <1>4
  <2> QED
    BY <2>1, <2>2
<1>5. CASE Len(f) # 0
  <2>1. 1 \in 1..Len(f)
    BY <1>1, <1>5
  <2>2. f # <<>>
    BY <1>5
  <2>3. b[1] \in O
    BY <1>3, <2>1
  <2> QED
    BY <2>2, <2>3
<1> QED
  BY <1>4, <1>5

\* A list has as many elements made of members of X as X has members.
LEMMA ListCount ==
  ASSUME NEW f, NEW O, NEW V, NEW b, IsSeq(f), ListedBy(f, O, V, b), NEW X \in SUBSET O,
         NEW D, D = {j \in DOMAIN f : b[j] \in X}
  PROVE  IsFiniteSet(X) /\ Cardinality(D) = Cardinality(X)
<1> DEFINE g == [j \in D |-> b[j]]
<1>1. Len(f) \in Nat /\ DOMAIN f = 1..Len(f)
  BY SeqFacts
<1>2. /\ b \in [1..Len(f) -> O] /\ \A p, q \in 1..Len(f) : b[p] = b[q] => p = q
      /\ \A x \in O : \E p \in 1..Len(f) : b[p] = x
  BY DEF ListedBy
<1>3. g \in [D -> X]
  OBVIOUS
<1>4. \A p, q \in D : g[p] = g[q] => p = q
  BY <1>1, <1>2
<1>5. \A x \in X : \E p \in D : g[p] = x
  BY <1>1, <1>2
<1>6. IsFiniteSet(D)
  <2> DEFINE n == Len(f)
  <2>1. D \subseteq 1..n /\ n \in Nat
    BY <1>1
  <2> HIDE DEF n
  <2>2. IsFiniteSet(1..n)
    BY <2>1, FS_Interval
  <2> QED
    BY <2>1, <2>2, FS_Subset
<1> HIDE DEF g
<1>7. g \in Bijection(D, X)
  BY <1>3, <1>4, <1>5 DEF Bijection, Injection, IsInjective, Surjection
<1>8. ExistsBijection(D, X)
  BY <1>7 DEF ExistsBijection
<1>9. IsFiniteSet(X) /\ Cardinality(X) = Cardinality(D)
  BY <1>6, <1>8, FS_Bijection
<1> QED
  BY <1>9

\* The members whose server comes before v, and those whose does not come after.
Lesser(O, V, v)   == {x \in O : AddressLess(V[x], v)}
NoGreater(O, V, v) == {x \in O : ~AddressLess(v, V[x])}

\* How many servers of a list come before one, and how many not after it, is
\* settled by what the list is a list of.
LEMMA PlacesCounted ==
  ASSUME NEW f, NEW O, NEW V, IsListing(f, O, V), NEW v
  PROVE  /\ Cardinality(Below(f, v)) = Cardinality(Lesser(O, V, v))
         /\ Cardinality(UpTo(f, v)) = Cardinality(NoGreater(O, V, v))
<1> DEFINE L == Lesser(O, V, v)
           U == NoGreater(O, V, v)
<1>1. IsSeq(f) /\ DOMAIN f = 1..Len(f)
  BY SeqFacts DEF IsListing
<1>2. PICK b : ListedBy(f, O, V, b)
  BY DEF IsListing
<1>3. \A j \in DOMAIN f : b[j] \in O /\ f[j] = V[b[j]]
  BY <1>1, <1>2 DEF ListedBy
<1>4. Below(f, v) = {j \in DOMAIN f : b[j] \in L}
  BY <1>3 DEF Below, Lesser
<1>5. UpTo(f, v) = {j \in DOMAIN f : b[j] \in U}
  BY <1>3 DEF UpTo, NoGreater
<1>6. L \in SUBSET O /\ U \in SUBSET O
  BY DEF Lesser, NoGreater
<1> HIDE DEF L, U
<1>7. Cardinality(Below(f, v)) = Cardinality(L)
  BY <1>1, <1>2, <1>4, <1>6, ListCount
<1>8. Cardinality(UpTo(f, v)) = Cardinality(U)
  BY <1>1, <1>2, <1>5, <1>6, ListCount
<1> QED
  BY <1>7, <1>8 DEF L, U

\* Two servers with the same place in two lists of the same: neither comes
\* before the other.
LEMMA PlaceSettled ==
  ASSUME NEW f, NEW g, NEW O, NEW V, Comparable(f), Comparable(g), IsListing(f, O, V), IsListing(g, O, V),
         NEW i \in DOMAIN f, NEW j \in DOMAIN g,
         Cardinality(NoLater(f, i)) = Cardinality(NoLater(g, j))
  PROVE  ~AddressLess(f[i], g[j])
<1> SUFFICES ASSUME AddressLess(f[i], g[j]) PROVE FALSE
  OBVIOUS
<1> DEFINE n == Cardinality(NoLater(f, i))
<1>1. Len(f) \in Nat /\ DOMAIN f = 1..Len(f) /\ \A p \in DOMAIN f : f[p].host \in Nat /\ f[p].port \in Nat
  BY SeqFacts DEF Comparable
<1>2. g[j].host \in Nat /\ g[j].port \in Nat
  BY DEF Comparable
<1>3. UpTo(f, f[i]) \subseteq Below(f, g[j])
  <2> SUFFICES ASSUME NEW p \in DOMAIN f, ~AddressLess(f[i], f[p]) PROVE AddressLess(f[p], g[j])
    BY DEF UpTo, Below
  <2> DEFINE x == f[p]
             y == f[i]
             z == g[j]
  <2>1. /\ x.host \in Nat /\ x.port \in Nat /\ y.host \in Nat /\ y.port \in Nat
        /\ z.host \in Nat /\ z.port \in Nat /\ ~AddressLess(y, x) /\ AddressLess(y, z)
    BY <1>1, <1>2
  <2> HIDE DEF x, y, z
  <2>2. AddressLess(x, z)
    BY <2>1, AddressOrder
  <2> QED
    BY <2>2 DEF x, z
<1>4. IsFiniteSet(Below(f, g[j])) /\ Cardinality(Below(f, g[j])) \in Nat
  <2> DEFINE N == Len(f)
             B == Below(f, g[j])
  <2>1. N \in Nat /\ B \subseteq 1..N
    BY <1>1 DEF Below
  <2> HIDE DEF N, B
  <2>2. IsFiniteSet(1..N)
    BY <2>1, FS_Interval
  <2>3. IsFiniteSet(B) /\ Cardinality(B) \in Nat
    BY <2>1, <2>2, FS_Subset, FS_CardinalityType
  <2> QED
    BY <2>3 DEF B
<1>5. n \in Nat /\ n <= Cardinality(UpTo(f, f[i]))
  BY PlaceFacts, <1>1
<1>6. Cardinality(UpTo(f, f[i])) \in Nat /\ Cardinality(UpTo(f, f[i])) <= Cardinality(Below(f, g[j]))
  <2> DEFINE U == UpTo(f, f[i])
             B == Below(f, g[j])
  <2> HIDE DEF U, B
  <2>1. IsFiniteSet(U) /\ Cardinality(U) <= Cardinality(B)
    BY <1>3, <1>4, FS_Subset DEF U, B
  <2> QED
    BY <2>1, FS_CardinalityType DEF U, B
<1>7. Cardinality(Below(f, g[j])) = Cardinality(Below(g, g[j]))
  BY PlacesCounted
<1>8. Cardinality(Below(g, g[j])) < n
  BY PlaceFacts
<1> HIDE DEF n
<1> QED
  BY <1>4, <1>5, <1>6, <1>7, <1>8

\* Sorted lists of the same are the same.
LEMMA SortUnique ==
  ASSUME NEW f, NEW g, NEW O, NEW V, Comparable(f), Comparable(g), IsListing(f, O, V), IsListing(g, O, V),
         NEW type, \A x \in O : V[x] = Server(type, V[x].host, V[x].port)
  PROVE  ByAddress(f) = ByAddress(g)
<1> DEFINE N == Len(f)
           F == ByAddress(f)
           G == ByAddress(g)
<1>1. Len(f) \in Nat /\ DOMAIN f = 1..Len(f) /\ Len(g) \in Nat /\ DOMAIN g = 1..Len(g)
  BY SeqFacts DEF Comparable
<1>2. \A s : IsSeq(s) /\ IsListing(s, O, V) => Cardinality(O) = Len(s)
  <2> SUFFICES ASSUME NEW s, IsSeq(s), IsListing(s, O, V) PROVE Cardinality(O) = Len(s)
    OBVIOUS
  <2>1. PICK b : ListedBy(s, O, V, b)
    BY DEF IsListing
  <2> DEFINE D == {j \in DOMAIN s : b[j] \in O}
             n == Len(s)
  <2>2. D = 1..n /\ n \in Nat
    BY <2>1, SeqFacts DEF ListedBy
  <2>3. Cardinality(D) = Cardinality(O)
    BY <2>1, ListCount
  <2> HIDE DEF D, n
  <2>4. Cardinality(1..n) = n
    BY <2>2, FS_Interval
  <2> QED
    BY <2>2, <2>3, <2>4 DEF n
<1>3. Len(g) = N
  BY <1>2 DEF Comparable
<1>4. IsSeq(F) /\ Len(F) = N /\ IsSeq(G) /\ Len(G) = N
  BY <1>3, SortFacts
<1>5. PICK p \in [1..Len(f) -> 1..Len(f)] :
        /\ \A n, l \in 1..Len(f) : p[n] = p[l] => n = l
        /\ \A i \in 1..Len(f) : \E n \in 1..Len(f) : p[n] = i
        /\ \A n \in 1..Len(f) : F[n] = f[p[n]] /\ Cardinality(NoLater(f, p[n])) = n
  BY SortFacts, Zenon
<1>6. PICK q \in [1..Len(g) -> 1..Len(g)] :
        /\ \A n, l \in 1..Len(g) : q[n] = q[l] => n = l
        /\ \A i \in 1..Len(g) : \E n \in 1..Len(g) : q[n] = i
        /\ \A n \in 1..Len(g) : G[n] = g[q[n]] /\ Cardinality(NoLater(g, q[n])) = n
  BY SortFacts, Zenon
<1>7. ASSUME NEW s, IsListing(s, O, V), NEW i \in 1..Len(s)
      PROVE  s[i] = Server(type, s[i].host, s[i].port)
  <2>1. PICK b : ListedBy(s, O, V, b)
    BY <1>7 DEF IsListing
  <2>2. b[i] \in O /\ s[i] = V[b[i]]
    BY <1>7, <2>1 DEF ListedBy
  <2> QED
    BY <2>2
<1> HIDE DEF N, F, G
<1>8. ASSUME NEW n \in 1..N PROVE F[n] = G[n]
  <2> DEFINE i == p[n]
             j == q[n]
             x == f[i]
             y == g[j]
  <2>1. n \in 1..Len(f) /\ n \in 1..Len(g)
    BY <1>3 DEF N
  <2>1a. i \in DOMAIN f /\ j \in DOMAIN g /\ Cardinality(NoLater(f, i)) = Cardinality(NoLater(g, j))
    BY <1>1, <1>5, <1>6, <2>1
  <2>2. x = Server(type, x.host, x.port) /\ y = Server(type, y.host, y.port)
    BY <1>1, <1>7, <2>1a
  <2>3. x.host \in Nat /\ x.port \in Nat /\ y.host \in Nat /\ y.port \in Nat
    BY <2>1a DEF Comparable
  <2>4. F[n] = x /\ G[n] = y
    BY <1>5, <1>6, <2>1
  <2> HIDE DEF i, j
  <2>5. ~AddressLess(x, y) /\ ~AddressLess(y, x)
    BY <2>1a, PlaceSettled
  <2> HIDE DEF x, y
  <2>6. x.host = y.host /\ x.port = y.port
    BY <2>3, <2>5, AddressOrder
  <2> QED
    BY <2>2, <2>4, <2>6
<1>9. F = [n \in 1..N |-> F[n]] /\ G = [n \in 1..N |-> G[n]]
  BY <1>4, SeqFacts
<1>10. F = G
  BY <1>8, <1>9
<1> QED
  BY <1>10 DEF F, G

-----------------------------------------------------------------------------
(***************************************************************************)
(* What is claimed does not depend on the order of the slices.             *)
(***************************************************************************)
\* The pods of a Service are the same in whatever order slices are listed.
LEMMA FamiliesSettled ==
  ASSUME NEW S, IsFiniteSet(S), \A s \in S : SliceFormed(s), NEW sl1 \in SetToSeqs(S), NEW sl2 \in SetToSeqs(S),
         NEW service, NEW sp, sp.port \in Nat
  PROVE  sliceEndpointAddrs(sl1, service, sp) = sliceEndpointAddrs(sl2, service, sp)
<1> DEFINE fam(sl, type) == familyServers(sl, service, type, sp)
           O(type) == Origins(S, service, type, sp)
<1>1. \A type : fam(sl1, type) = <<>> <=> fam(sl2, type) = <<>>
  <2> TAKE type
  <2>1. fam(sl1, type) = <<>> <=> O(type) = {}
    BY FamilyListing, EmptyListing
  <2>2. fam(sl2, type) = <<>> <=> O(type) = {}
    BY FamilyListing, EmptyListing
  <2> QED
    BY <2>1, <2>2
<1>2. \A type : ByAddress(fam(sl1, type)) = ByAddress(fam(sl2, type))
  <2> TAKE type
  <2> DEFINE f == fam(sl1, type)
             g == fam(sl2, type)
             V == Servers(O(type), sp)
  <2>1. IsListing(f, O(type), V) /\ IsListing(g, O(type), V)
    BY FamilyListing
  <2>2. Comparable(f) /\ Comparable(g)
    BY FamilyComparable
  <2>3. ASSUME NEW o \in O(type) PROVE V[o] = Server(type, V[o].host, V[o].port)
    <3>1. V[o] = ServerOf(o, sp) /\ o[1].type = type
      BY OriginFacts DEF Servers
    <3> QED
      BY <3>1 DEF ServerOf, Server
  <2> HIDE DEF f, g, V, O
  <2>4. ByAddress(f) = ByAddress(g)
    BY <2>1, <2>2, <2>3, SortUnique
  <2> QED
    BY <2>4 DEF f, g
<1> HIDE DEF fam
<1>3. ASSUME NEW sl
      PROVE  sliceEndpointAddrs(sl, service, sp)
               = IF fam(sl, "v4") # <<>> THEN ByAddress(fam(sl, "v4")) ELSE ByAddress(fam(sl, "v6"))
  BY DEF sliceEndpointAddrs, fam
<1> QED
  BY <1>1, <1>2, <1>3

\* So are the servers of a backend.
LEMMA BackendSettled ==
  ASSUME NEW k, WellFormed(k), NEW sl1 \in SetToSeqs(k.slices), NEW sl2 \in SetToSeqs(k.slices), NEW ns, NEW ref
  PROVE  backendServers(k, sl1, ns, ref) = backendServers(k, sl2, ns, ref)
<1> DEFINE id  == <<ns, ref.service>>
           svc == k.services[id]
           sp  == servicePort(svc, ref)
<1>1. endpointAddrs(k, sl1, ns, ref) = endpointAddrs(k, sl2, ns, ref)
  <2>1. CASE id \notin DOMAIN k.services \/ svc.external \/ sp = None
    BY <2>1 DEF endpointAddrs
  <2>2. CASE ~(id \notin DOMAIN k.services \/ svc.external \/ sp = None)
    <3>1. \A sl : endpointAddrs(k, sl, ns, ref) = sliceEndpointAddrs(sl, id, sp)
      BY <2>2 DEF endpointAddrs
    <3>2. IsSeq(svc.ports) /\ \A p \in ToSet(svc.ports) : p.port \in Nat
      BY <2>2 DEF WellFormed
    <3>3. IsFiniteSet(k.slices) /\ \A s \in k.slices : SliceFormed(s)
      BY DEF WellFormed
    <3>4. sp.port \in Nat
      BY <2>2, <3>2, ServicePortIn
    <3> HIDE DEF id, sp
    <3>5. sliceEndpointAddrs(sl1, id, sp) = sliceEndpointAddrs(sl2, id, sp)
      BY <3>3, <3>4, FamiliesSettled
    <3> QED
      BY <3>1, <3>5
  <2> QED
    BY <2>1, <2>2
<1> QED
  BY <1>1 DEF backendServers

\* And the claims of an Ingress.
LEMMA IngressSettled ==
  ASSUME NEW k, WellFormed(k), NEW sl1 \in SetToSeqs(k.slices), NEW sl2 \in SetToSeqs(k.slices), NEW ing
  PROVE  ingressClaims(k, sl1, ing) = ingressClaims(k, sl2, ing)
<1>1. \A src, a, host, p : pathClaims(k, sl1, src, ing, a, host, p) = pathClaims(k, sl2, src, ing, a, host, p)
  <2> TAKE src, a, host, p
  <2>1. backendServers(k, sl1, ing.ns, p.backend) = backendServers(k, sl2, ing.ns, p.backend)
    BY BackendSettled
  <2> QED
    BY <2>1 DEF pathClaims
<1>2. \A src, a, r : ruleClaims(k, sl1, src, ing, a, r) = ruleClaims(k, sl2, src, ing, a, r)
  <2> TAKE src, a, r
  <2> DEFINE of(sl) == [i \in DOMAIN r.paths |-> pathClaims(k, sl, src, ing, a, r.host, r.paths[i])]
  <2>1. of(sl1) = of(sl2)
    BY <1>1
  <2>2. Collect(LAMBDA p : pathClaims(k, sl1, src, ing, a, r.host, p), r.paths)
          = Collect(LAMBDA p : pathClaims(k, sl2, src, ing, a, r.host, p), r.paths)
    BY <2>1 DEF Collect
  <2> QED
    BY <2>2 DEF ruleClaims
<1> DEFINE src == <<0, ing.id>>
           a   == parseAnnotations(ing.ann)
           of(sl) == [i \in DOMAIN ing.rules |-> ruleClaims(k, sl, src, ing, a, ing.rules[i])]
<1>3. of(sl1) = of(sl2)
  BY <1>2
<1>4. Collect(LAMBDA r : ruleClaims(k, sl1, src, ing, a, r), ing.rules)
        = Collect(LAMBDA r : ruleClaims(k, sl2, src, ing, a, r), ing.rules)
  BY <1>3 DEF Collect
<1> QED
  BY <1>4 DEF ingressClaims

-----------------------------------------------------------------------------
(***************************************************************************)
(* Two runs of much the same claims.                                       *)
(***************************************************************************)
\* r are the tables that the first n claims go through.
RunTo(cs, r, n) ==
  r[0] = newRenderModel /\ \A i \in 1..n : r[i] = Apply(r[i - 1], cs[i])

\* The table after the first n claims is t.
Ran(cs, t, n) == \E r : RunTo(cs, r, n) /\ r[n] = t

\* Before the first claim the table is new.
LEMMA RanNone == \A cs : Ran(cs, newRenderModel, 0)
<1> TAKE cs
<1> DEFINE r == [i \in {0} |-> newRenderModel]
<1>1. r[0] = newRenderModel /\ \A i \in 1..0 : FALSE
  OBVIOUS
<1> HIDE DEF r
<1>2. RunTo(cs, r, 0)
  BY <1>1 DEF RunTo
<1> QED
  BY <1>1, <1>2 DEF Ran

\* One more claim.
LEMMA RanOne ==
  ASSUME NEW cs, NEW t, NEW n \in Nat, Ran(cs, t, n)
  PROVE  Ran(cs, Apply(t, cs[n + 1]), n + 1)
<1> PICK r : RunTo(cs, r, n) /\ r[n] = t
  BY DEF Ran
<1> DEFINE u == Apply(t, cs[n + 1])
           q == [i \in 0..(n + 1) |-> IF i = n + 1 THEN u ELSE r[i]]
<1>1. q[0] = newRenderModel /\ q[n + 1] = u /\ q[n] = t
  BY DEF RunTo
<1>2. ASSUME NEW i \in 1..(n + 1) PROVE q[i] = Apply(q[i - 1], cs[i])
  <2>1. CASE i = n + 1
    <3>1. i - 1 = n
      BY <2>1
    <3> QED
      BY <1>1, <2>1, <3>1
  <2>2. CASE i # n + 1
    <3>1. i \in 1..n /\ i - 1 \in 0..(n + 1) /\ i - 1 # n + 1
      BY <2>2
    <3>2. q[i] = r[i] /\ q[i - 1] = r[i - 1]
      BY <3>1
    <3> QED
      BY <3>1, <3>2 DEF RunTo
  <2> QED
    BY <2>1, <2>2
<1> HIDE DEF q, u
<1>3. RunTo(cs, q, n + 1)
  BY <1>1, <1>2 DEF RunTo
<1>4. Ran(cs, u, n + 1)
  BY <1>1, <1>3 DEF Ran
<1> QED
  BY <1>4 DEF u

\* What the file is made of but for the certificates.
Core(t) == <<t.hosts, t.passthroughHosts, t.acme, t.sticky>>

\* Cores compare field by field.
LEMMA CoreIs ==
  ASSUME NEW t, NEW u
  PROVE  Core(t) = Core(u) <=> /\ t.hosts = u.hosts /\ t.passthroughHosts = u.passthroughHosts
                               /\ t.acme = u.acme /\ t.sticky = u.sticky
  BY DEF Core

\* A claim does the same to tables that differ only in certificates, and a
\* certificate leaves the rest alone.
LEMMA ApplyCore ==
  ASSUME NEW t, NEW u, NEW c, IsModel(t), IsModel(u), Core(t) = Core(u)
  PROVE  /\ Core(Apply(t, c)) = Core(Apply(u, c))
         /\ c.kind = "cert" => Core(Apply(t, c)) = Core(t)
<1>0. t.hosts = u.hosts /\ t.passthroughHosts = u.passthroughHosts /\ t.acme = u.acme /\ t.sticky = u.sticky
  BY CoreIs
<1> DEFINE shape(x) == [hosts |-> x.hosts, passthroughHosts |-> x.passthroughHosts, hostCert |-> x.hostCert,
                        certProjections |-> x.certProjections, acme |-> x.acme, sticky |-> x.sticky]
<1>00. t = shape(t) /\ u = shape(u)
  BY DEF IsModel
<1>1. CASE c.kind = "cert"
  <2>1. ASSUME NEW x, x = shape(x) PROVE Core(addCert(x, c)) = Core(x)
    BY <2>1 DEF addCert, Core
  <2> QED
    BY <1>1, <1>0, <1>00, <2>1 DEF Apply
<1>2. ASSUME NEW key, NEW cfg, NEW sticky
      PROVE  Core(Insert(t, c.host, key, cfg, sticky)) = Core(Insert(u, c.host, key, cfg, sticky))
  <2>1. CASE c.host \in PassthroughHosts(t) \/ <<c.host, key>> \in DOMAIN t.hosts
    BY <1>0, <2>1 DEF Insert, PassthroughHosts
  <2>2. CASE ~(c.host \in PassthroughHosts(t) \/ <<c.host, key>> \in DOMAIN t.hosts)
    <3>1. ASSUME NEW x, x = shape(x), x.hosts = t.hosts, x.passthroughHosts = t.passthroughHosts,
                 x.acme = t.acme, x.sticky = t.sticky
          PROVE  Core(Insert(x, c.host, key, cfg, sticky))
                   = <<Put(t.hosts, <<c.host, key>>, cfg), t.passthroughHosts, t.acme, IF sticky THEN TRUE ELSE t.sticky>>
      <4> DEFINE p == Put(t.hosts, <<c.host, key>>, cfg)
                 s == IF sticky THEN TRUE ELSE t.sticky
      <4>1. Insert(x, c.host, key, cfg, sticky) = [x EXCEPT !.hosts = p, !.sticky = s]
        BY <2>2, <3>1 DEF Insert, PassthroughHosts
      <4> HIDE DEF p, s
      <4>2. Core([x EXCEPT !.hosts = p, !.sticky = s]) = <<p, t.passthroughHosts, t.acme, s>>
        BY <3>1 DEF Core
      <4> QED
        BY <4>1, <4>2 DEF p, s
    <3> QED
      BY <1>0, <1>00, <3>1
  <2> QED
    BY <2>1, <2>2
<1>3. CASE c.kind = "route"
  BY <1>2, <1>3 DEF Apply, addRoute
<1>4. CASE c.kind = "regex"
  BY <1>2, <1>4 DEF Apply, addRegexRoute
<1>5. CASE c.kind = "pass"
  <2>1. TerminateHosts(t) = TerminateHosts(u)
    BY <1>0 DEF TerminateHosts
  <2>2. Core(addPassthroughHost(t, c)) = Core(addPassthroughHost(u, c))
    BY <1>0, <1>00, <2>1 DEF addPassthroughHost, Core
  <2> QED
    BY <1>5, <2>2 DEF Apply
<1>6. CASE c.kind = "acme"
  <2>1. Core(claimAcme(t, c)) = Core(claimAcme(u, c))
    BY <1>0, <1>00 DEF claimAcme, Core
  <2> QED
    BY <1>6, <2>1 DEF Apply
<1>7. CASE c.kind \notin {"cert", "route", "regex", "pass", "acme"}
  <2>1. Core([t EXCEPT !.sticky = TRUE]) = Core([u EXCEPT !.sticky = TRUE])
    BY <1>0, <1>00 DEF Core
  <2> QED
    BY <1>7, <2>1 DEF Apply
<1> QED
  BY <1>1, <1>3, <1>4, <1>5, <1>6, <1>7

\* The tables of a run are models.
LEMMA RunSound ==
  ASSUME NEW cs, NEW r, NEW n \in Nat, RunTo(cs, r, n)
  PROVE  \A i \in 0..n : IsModel(r[i]) /\ Exclusive(r[i])
<1> DEFINE T == {i \in Nat : i <= n => IsModel(r[i]) /\ Exclusive(r[i])}
<1>1. 0 \in T
  BY NewModelSound DEF RunTo
<1>2. ASSUME NEW i \in Nat, i \in T PROVE i + 1 \in T
  <2> SUFFICES ASSUME i + 1 <= n PROVE IsModel(r[i + 1]) /\ Exclusive(r[i + 1])
    OBVIOUS
  <2>1. IsModel(r[i]) /\ Exclusive(r[i])
    BY <1>2
  <2>2. i + 1 \in 1..n /\ (i + 1) - 1 = i
    OBVIOUS
  <2>3. r[i + 1] = Apply(r[i], cs[i + 1])
    BY <2>2 DEF RunTo
  <2> QED
    BY <2>1, <2>3, ApplySound DEF SoundStep
<1> HIDE DEF T
<1>3. Nat \subseteq T
  BY <1>1, <1>2, NatInd
<1> QED
  BY <1>3 DEF T

\* After i claims cs has l that ds has after j; after i claims it has l
\* certificates.
Meet(cs, i, ds, j, l) == \A x \in 1..l : cs[i + x] = ds[j + x]
Certs(cs, i, l)       == \A x \in 1..l : cs[i + x].kind = "cert"

\* Two runs that agree at i and j and then meet the same l claims.
LEMMA SameClaims ==
  ASSUME NEW cs, NEW ds, NEW r, NEW q, NEW n \in Nat, NEW p \in Nat, RunTo(cs, r, n), RunTo(ds, q, p),
         NEW i \in Nat, NEW j \in Nat, NEW l \in Nat, Core(r[i]) = Core(q[j]), Meet(cs, i, ds, j, l),
         NEW I \in 0..n, I = i + l, NEW J \in 0..p, J = j + l
  PROVE  Core(r[I]) = Core(q[J])
<1> DEFINE T == {x \in Nat : x <= l => Core(r[i + x]) = Core(q[j + x])}
<1>1. 0 \in T
  OBVIOUS
<1>2. ASSUME NEW x \in Nat, x \in T PROVE x + 1 \in T
  <2> SUFFICES ASSUME x + 1 <= l PROVE Core(r[i + (x + 1)]) = Core(q[j + (x + 1)])
    OBVIOUS
  <2>1. Core(r[i + x]) = Core(q[j + x])
    BY <1>2
  <2> DEFINE a == i + (x + 1)
             b == j + (x + 1)
  <2>2. a \in 1..n /\ b \in 1..p /\ a - 1 = i + x /\ b - 1 = j + x /\ i + x \in 0..n /\ j + x \in 0..p
    OBVIOUS
  <2>3. cs[a] = ds[b]
    BY DEF Meet
  <2> HIDE DEF a, b
  <2>4. IsModel(r[i + x]) /\ IsModel(q[j + x])
    BY <2>2, RunSound
  <2>5. r[a] = Apply(r[i + x], cs[a]) /\ q[b] = Apply(q[j + x], cs[a])
    BY <2>2, <2>3 DEF RunTo
  <2>6. Core(r[a]) = Core(q[b])
    BY <2>1, <2>4, <2>5, ApplyCore
  <2> QED
    BY <2>6 DEF a, b
<1> HIDE DEF T
<1>3. Nat \subseteq T
  BY <1>1, <1>2, NatInd
<1>4. l \in T
  BY <1>3
<1> QED
  BY <1>4 DEF T

\* A run that meets l certificates.
LEMMA CertsPass ==
  ASSUME NEW cs, NEW r, NEW n \in Nat, RunTo(cs, r, n), NEW i \in Nat, NEW l \in Nat, Certs(cs, i, l),
         NEW I \in 0..n, I = i + l
  PROVE  Core(r[I]) = Core(r[i])
<1> DEFINE T == {x \in Nat : x <= l => Core(r[i + x]) = Core(r[i])}
<1>1. 0 \in T
  OBVIOUS
<1>2. ASSUME NEW x \in Nat, x \in T PROVE x + 1 \in T
  <2> SUFFICES ASSUME x + 1 <= l PROVE Core(r[i + (x + 1)]) = Core(r[i])
    OBVIOUS
  <2>1. Core(r[i + x]) = Core(r[i])
    BY <1>2
  <2> DEFINE a == i + (x + 1)
  <2>2. a \in 1..n /\ a - 1 = i + x /\ i + x \in 0..n
    OBVIOUS
  <2>3. cs[a].kind = "cert"
    BY DEF Certs
  <2> HIDE DEF a
  <2>4. IsModel(r[i + x])
    BY <2>2, RunSound
  <2>5. r[a] = Apply(r[i + x], cs[a])
    BY <2>2 DEF RunTo
  <2>6. Core(r[a]) = Core(r[i + x])
    BY <2>3, <2>4, <2>5, ApplyCore
  <2> QED
    BY <2>1, <2>6 DEF a
<1> HIDE DEF T
<1>3. Nat \subseteq T
  BY <1>1, <1>2, NatInd
<1>4. l \in T
  BY <1>3
<1> QED
  BY <1>4 DEF T

\* Lists of claims that differ only in the middle, where there are only
\* certificates: a claims of Ingresses, b or d of Gateways, e of HTTPRoutes.
Alike(cs, ds, a, b, d, e) ==
  /\ a \in Nat /\ b \in Nat /\ d \in Nat /\ e \in Nat
  /\ Len(cs) = a + b + e /\ Len(ds) = a + d + e
  /\ Meet(cs, 0, ds, 0, a) /\ Certs(cs, a, b) /\ Certs(ds, a, d) /\ Meet(cs, a + b, ds, a + d, e)

\* They leave the same table but for the certificates.
LEMMA CoreSettled ==
  ASSUME NEW cs, NEW ds, NEW t, NEW u, NEW a, NEW b, NEW d, NEW e, Alike(cs, ds, a, b, d, e),
         Ran(cs, t, Len(cs)), Ran(ds, u, Len(ds))
  PROVE  Core(t) = Core(u)
<1> DEFINE n == Len(cs)
           p == Len(ds)
<1>1. PICK r : RunTo(cs, r, n) /\ r[n] = t
  BY DEF Ran
<1>2. PICK q : RunTo(ds, q, p) /\ q[p] = u
  BY DEF Ran
<1>3. /\ a \in Nat /\ b \in Nat /\ d \in Nat /\ e \in Nat
      /\ a + b \in Nat /\ a + d \in Nat /\ n \in Nat /\ p \in Nat
      /\ n = (a + b) + e /\ p = (a + d) + e
      /\ a \in 0..n /\ a \in 0..p /\ a + b \in 0..n /\ a + d \in 0..p /\ n \in 0..n /\ p \in 0..p /\ a = 0 + a
  BY DEF Alike
<1>4. Core(r[0]) = Core(q[0])
  BY <1>1, <1>2 DEF RunTo
<1> HIDE DEF n, p
<1>5. Core(r[a]) = Core(q[a])
  BY <1>1, <1>2, <1>3, <1>4, SameClaims DEF Alike
<1>6. Core(r[a + b]) = Core(r[a]) /\ Core(q[a + d]) = Core(q[a])
  BY <1>1, <1>2, <1>3, CertsPass DEF Alike
<1>7. Core(r[a + b]) = Core(q[a + d])
  BY <1>5, <1>6
<1>8. Core(r[n]) = Core(q[p])
  BY <1>1, <1>2, <1>3, <1>7, SameClaims DEF Alike
<1> QED
  BY <1>1, <1>2, <1>8

\* A claim projects its Secret under stem s.
Projects(c, s) == c.kind = "cert" /\ c.stem = s /\ s # <<>> /\ c.ns # <<>> /\ c.name # <<>>

\* The first claim under s, and what it leaves in the table.
FirstProjects(cs, i, s) ==
  Projects(cs[i], s) /\ \A j \in 1..Len(cs) : j < i => ~Projects(cs[j], s)

Secret(c) == [ns |-> c.ns, name |-> c.name]

\* The certificates after the first n claims: under each stem the first.
ProjectedBy(cs, t, n) ==
  /\ t.certProjections = [s \in DOMAIN t.certProjections |-> t.certProjections[s]]
  /\ \A s \in DOMAIN t.certProjections :
       \E i \in 1..n : FirstProjects(cs, i, s) /\ t.certProjections[s] = Secret(cs[i])
  /\ \A i \in 1..n : \A s : Projects(cs[i], s) => s \in DOMAIN t.certProjections

\* One more claim.
LEMMA OneProjected ==
  ASSUME NEW cs, NEW t, NEW n \in Nat, n + 1 \in 1..Len(cs), Len(cs) \in Nat, IsModel(t), ProjectedBy(cs, t, n)
  PROVE  ProjectedBy(cs, Apply(t, cs[n + 1]), n + 1)
<1> DEFINE c == cs[n + 1]
           u == Apply(t, c)
           f == t.certProjections
           g == u.certProjections
<1>1. /\ \A i \in 1..n : i \in 1..(n + 1)
      /\ \A i \in 1..(n + 1) : i \in 1..n \/ i = n + 1
      /\ n + 1 \in 1..(n + 1)
      /\ \A j \in 1..Len(cs) : j < n + 1 => j \in 1..n
  OBVIOUS
<1>2. /\ f = [s \in DOMAIN f |-> f[s]]
      /\ \A s \in DOMAIN f : \E i \in 1..n : FirstProjects(cs, i, s) /\ f[s] = Secret(cs[i])
      /\ \A i \in 1..n : \A s : Projects(cs[i], s) => s \in DOMAIN f
  BY DEF ProjectedBy
<1>3. ASSUME NEW s, Projects(c, s), g = PutNew(f, s, Secret(c)) PROVE ProjectedBy(cs, u, n + 1)
  <2>1. CASE s \in DOMAIN f
    <3>1. g = f
      BY <1>3, <2>1 DEF PutNew
    <3>2. \A x : Projects(c, x) => x = s
      BY <1>3 DEF Projects
    <3> HIDE DEF u
    <3>3. ProjectedBy(cs, u, n + 1)
      BY <1>1, <1>2, <2>1, <3>1, <3>2 DEF ProjectedBy
    <3> QED
      BY <3>3 DEF u
  <2>2. CASE s \notin DOMAIN f
    <3>1. /\ g = [x \in DOMAIN f \cup {s} |-> IF x = s THEN Secret(c) ELSE f[x]]
      BY <1>3, <2>2 DEF PutNew, Put
    <3>2. /\ DOMAIN g = DOMAIN f \cup {s} /\ g = [x \in DOMAIN g |-> g[x]]
          /\ g[s] = Secret(c) /\ \A x \in DOMAIN f : g[x] = f[x]
      BY <2>2, <3>1
    <3>3. \A x : Projects(c, x) => x = s
      BY <1>3 DEF Projects
    <3>4. FirstProjects(cs, n + 1, s)
      BY <1>1, <1>2, <1>3, <2>2 DEF FirstProjects
    <3>5. \A x \in DOMAIN g : \E i \in 1..(n + 1) : FirstProjects(cs, i, x) /\ g[x] = Secret(cs[i])
      <4> HIDE DEF g
      <4> QED
        BY <1>1, <1>2, <3>2, <3>4
    <3> HIDE DEF u
    <3>6. ProjectedBy(cs, u, n + 1)
      BY <1>1, <1>2, <3>2, <3>3, <3>5 DEF ProjectedBy
    <3> QED
      BY <3>6 DEF u
  <2> QED
    BY <2>1, <2>2
<1>4. ASSUME g = f, \A s : ~Projects(c, s) PROVE ProjectedBy(cs, u, n + 1)
  <2> HIDE DEF u
  <2>1. ProjectedBy(cs, u, n + 1)
    BY <1>1, <1>2, <1>4 DEF ProjectedBy
  <2> QED
    BY <2>1 DEF u
<1>5. CASE c.kind = "cert" /\ Projects(c, c.stem)
  <2>1. u = [t EXCEPT !.certProjections = PutNew(@, c.stem, Secret(c)),
                      !.hostCert = IF c.host = <<>> THEN @ ELSE PutNew(@, c.host, c.stem)]
    BY <1>5 DEF Apply, addCert, Projects, Secret
  <2>2. g = PutNew(f, c.stem, Secret(c))
    BY <2>1 DEF IsModel
  <2> QED
    BY <1>3, <1>5, <2>2
<1>6. CASE c.kind = "cert" /\ ~Projects(c, c.stem)
  <2>1. u = t
    BY <1>6 DEF Apply, addCert, Projects
  <2>2. \A s : ~Projects(c, s)
    BY <1>6 DEF Projects
  <2> QED
    BY <1>4, <2>1, <2>2
<1>7. CASE c.kind # "cert"
  <2>1. ASSUME NEW key, NEW cfg, NEW sticky
        PROVE  Insert(t, c.host, key, cfg, sticky).certProjections = f
    BY DEF Insert, IsModel
  <2>2. g = f
    <3>1. CASE c.kind = "route"
      BY <2>1, <3>1 DEF Apply, addRoute
    <3>2. CASE c.kind = "regex"
      BY <2>1, <3>2 DEF Apply, addRegexRoute
    <3>3. CASE c.kind = "pass"
      BY <3>3 DEF Apply, addPassthroughHost, IsModel
    <3>4. CASE c.kind = "acme"
      BY <3>4 DEF Apply, claimAcme, IsModel
    <3>5. CASE c.kind \notin {"cert", "route", "regex", "pass", "acme"}
      BY <3>5 DEF Apply, IsModel
    <3> QED
      BY <1>7, <3>1, <3>2, <3>3, <3>4, <3>5
  <2>3. \A s : ~Projects(c, s)
    BY <1>7 DEF Projects
  <2> QED
    BY <1>4, <2>2, <2>3
<1> QED
  BY <1>5, <1>6, <1>7

\* What a run of the claims of a cluster ends in.
LEMMA RunApplied ==
  ASSUME NEW k, NEW cs, Ordered(k, cs), NEW t, Ran(cs, t, Len(cs))
  PROVE  IsModel(t) /\ Applied(cs, t, Len(cs)) /\ ProjectedBy(cs, t, Len(cs))
<1> DEFINE n == Len(cs)
<1>1. n \in Nat /\ DOMAIN cs = 1..n /\ \A i \in 1..n : Good(k, cs[i], cs[i].src)
  BY SeqFacts DEF Ordered
<1>2. PICK r : RunTo(cs, r, n) /\ r[n] = t
  BY DEF Ran
<1> DEFINE T == {i \in Nat : i <= n => Applied(cs, r[i], i) /\ ProjectedBy(cs, r[i], i)}
<1>3. 0 \in T
  <2>1. r[0] = newRenderModel
    BY <1>2 DEF RunTo
  <2>2. Applied(cs, r[0], 0)
    BY <2>1, NoneApplied
  <2>3. ProjectedBy(cs, r[0], 0)
    BY <2>1 DEF ProjectedBy, newRenderModel, Nothing
  <2> QED
    BY <2>2, <2>3
<1>4. ASSUME NEW i \in Nat, i \in T PROVE i + 1 \in T
  <2> SUFFICES ASSUME i + 1 <= n PROVE Applied(cs, r[i + 1], i + 1) /\ ProjectedBy(cs, r[i + 1], i + 1)
    OBVIOUS
  <2>1. Applied(cs, r[i], i) /\ ProjectedBy(cs, r[i], i)
    BY <1>4
  <2>2. i + 1 \in 1..n /\ (i + 1) - 1 = i /\ i \in 0..n
    BY <1>1
  <2>3. IsModel(r[i]) /\ r[i + 1] = Apply(r[i], cs[i + 1])
    <3>1. IsModel(r[i])
      BY <1>1, <1>2, <2>2, RunSound
    <3>2. r[i + 1] = Apply(r[i], cs[i + 1])
      BY <1>2, <2>2 DEF RunTo
    <3> QED
      BY <3>1, <3>2
  <2>4. Good(k, cs[i + 1], cs[i + 1].src)
    BY <1>1, <2>2
  <2>5. Applied(cs, Apply(r[i], cs[i + 1]), i + 1)
    BY <1>1, <2>1, <2>2, <2>3, <2>4, OneApplied
  <2>6. ProjectedBy(cs, Apply(r[i], cs[i + 1]), i + 1)
    BY <1>1, <2>1, <2>2, <2>3, OneProjected
  <2> QED
    BY <2>3, <2>5, <2>6
<1> HIDE DEF T
<1>5. n \in T
  BY <1>1, <1>3, <1>4, NatInd
<1>6. IsModel(r[n])
  <2>1. n \in 0..n
    BY <1>1
  <2> HIDE DEF n
  <2> QED
    BY <1>1, <1>2, <2>1, RunSound
<1> QED
  BY <1>2, <1>5, <1>6, <1>1 DEF T

-----------------------------------------------------------------------------
(***************************************************************************)
(* Two lists of the claims of one cluster.                                 *)
(***************************************************************************)
\* The claims cs may be those of a render of k.
Listed(k, cs) ==
  \E ings \in SetToSeqs(k.ingresses), gws \in SetToSeqs(k.gateways),
     rts \in SetToSeqs(k.httpRoutes), slices \in SetToSeqs(k.slices) :
     cs = Claims(k, ings, gws, rts, slices)

\* The claims of Ingresses, of Gateways and of HTTPRoutes.
OfIngresses(k, slices, s) == Collect(LAMBDA ing : ingressClaims(k, slices, ing), s)
OfGateways(k, s)          == Collect(LAMBDA gw : gatewayClaims(k, gw), s)
OfRoutes(k, s)            == Collect(LAMBDA rt : httpRouteClaims(k, rt), s)

\* The claims of the objects of one kind.
LEMMA JoinFrom ==
  ASSUME NEW s, IsSeq(s), NEW ss, ss = [i \in DOMAIN s |-> ss[i]], NEW kind,
         \A i \in DOMAIN s : IsSeq(ss[i]) /\ \A c \in ToSet(ss[i]) : c.src[1] = kind
  PROVE  /\ IsSeq(FlattenSeq(ss)) /\ \A c \in ToSet(FlattenSeq(ss)) : c.src[1] = kind
         /\ \A c : c \in ToSet(FlattenSeq(ss)) <=> \E i \in DOMAIN s : c \in ToSet(ss[i])
<1>1. IsSeq(ss) /\ DOMAIN ss = DOMAIN s
  BY MapSeq
<1>2. /\ IsSeq(FlattenSeq(ss))
      /\ \A x \in ToSet(FlattenSeq(ss)) : \E i \in DOMAIN ss : x \in ToSet(ss[i])
      /\ \A i \in DOMAIN ss : ToSet(ss[i]) \subseteq ToSet(FlattenSeq(ss))
  BY <1>1, JoinSeq
<1> QED
  BY <1>1, <1>2

\* The claims of Ingresses have a source of kind 0.
LEMMA IngressesClaim ==
  ASSUME NEW k, WellFormed(k), NEW slices \in SetToSeqs(k.slices), NEW s, IsSeq(s), ToSet(s) = k.ingresses
  PROVE  IsSeq(OfIngresses(k, slices, s)) /\ \A c \in ToSet(OfIngresses(k, slices, s)) : c.src[1] = 0
<1> DEFINE ss == [i \in DOMAIN s |-> ingressClaims(k, slices, s[i])]
<1>1. ss = [i \in DOMAIN s |-> ss[i]]
  OBVIOUS
<1>2. ASSUME NEW i \in DOMAIN s PROVE IsSeq(ss[i]) /\ \A c \in ToSet(ss[i]) : c.src[1] = 0
  <2>1. s[i] \in k.ingresses
    BY ElemIn
  <2>2. AllGood(k, ss[i], <<0, s[i].id>>)
    BY <2>1, IngressGood
  <2> QED
    BY <2>2 DEF AllGood, Good
<1> HIDE DEF ss
<1>3. IsSeq(FlattenSeq(ss)) /\ \A c \in ToSet(FlattenSeq(ss)) : c.src[1] = 0
  BY <1>1, <1>2, JoinFrom
<1> QED
  BY <1>3 DEF ss, Collect, OfIngresses

\* Those of HTTPRoutes have a source of kind 2.
LEMMA RoutesClaim ==
  ASSUME NEW k, WellFormed(k), NEW s, IsSeq(s), ToSet(s) = k.httpRoutes
  PROVE  IsSeq(OfRoutes(k, s)) /\ \A c \in ToSet(OfRoutes(k, s)) : c.src[1] = 2
<1> DEFINE ss == [i \in DOMAIN s |-> httpRouteClaims(k, s[i])]
<1>1. ss = [i \in DOMAIN s |-> ss[i]]
  OBVIOUS
<1>2. ASSUME NEW i \in DOMAIN s PROVE IsSeq(ss[i]) /\ \A c \in ToSet(ss[i]) : c.src[1] = 2
  <2>1. s[i] \in k.httpRoutes
    BY ElemIn
  <2>2. AllGood(k, ss[i], <<2, s[i].id>>)
    BY <2>1, HTTPRouteGood
  <2> QED
    BY <2>2 DEF AllGood, Good
<1> HIDE DEF ss
<1>3. IsSeq(FlattenSeq(ss)) /\ \A c \in ToSet(FlattenSeq(ss)) : c.src[1] = 2
  BY <1>1, <1>2, JoinFrom
<1> QED
  BY <1>3 DEF ss, Collect, OfRoutes

\* Those of Gateways are certificates, the same in whatever order the Gateways
\* are listed.
LEMMA GatewaysClaim ==
  ASSUME NEW k, WellFormed(k), k.flags.gatewayAPI, NEW s \in SetToSeqs(k.gateways)
  PROVE  /\ IsSeq(OfGateways(k, s))
         /\ \A c \in ToSet(OfGateways(k, s)) : c.src[1] = 1 /\ c.kind = "cert"
         /\ \A c : c \in ToSet(OfGateways(k, s)) <=>
              \E gw \in k.gateways : c \in ToSet(gatewayClaims(k, gw))
<1> DEFINE ss == [i \in DOMAIN s |-> gatewayClaims(k, s[i])]
<1>0. IsSeq(s) /\ ToSet(s) = k.gateways
  BY ListFacts DEF WellFormed, Identified
<1>1. ss = [i \in DOMAIN s |-> ss[i]]
  OBVIOUS
<1>2. ASSUME NEW gw \in k.gateways
      PROVE  /\ IsSeq(gatewayClaims(k, gw))
             /\ \A c \in ToSet(gatewayClaims(k, gw)) : c.src[1] = 1 /\ c.kind = "cert"
  <2>1. AllGood(k, gatewayClaims(k, gw), <<1, gw.id>>) /\ OnlyCerts(gatewayClaims(k, gw))
    BY GatewayGood
  <2> QED
    BY <2>1 DEF AllGood, Good, OnlyCerts
<1>3. \A i \in DOMAIN s : s[i] \in k.gateways /\ ss[i] = gatewayClaims(k, s[i])
  BY <1>0, ElemIn
<1>4. \A gw \in k.gateways : \E i \in DOMAIN s : ss[i] = gatewayClaims(k, gw)
  BY <1>0 DEF ToSet
<1>5. OfGateways(k, s) = FlattenSeq(ss)
  BY DEF Collect, OfGateways
<1> HIDE DEF ss
<1>6. \A i \in DOMAIN s : IsSeq(ss[i]) /\ \A c \in ToSet(ss[i]) : c.src[1] = 1 /\ c.kind = "cert"
  BY <1>2, <1>3
<1>7. /\ IsSeq(FlattenSeq(ss)) /\ \A c \in ToSet(FlattenSeq(ss)) : c.src[1] = 1
      /\ \A c : c \in ToSet(FlattenSeq(ss)) <=> \E i \in DOMAIN s : c \in ToSet(ss[i])
  BY <1>0, <1>1, <1>6, JoinFrom
<1>8. \A c : c \in ToSet(FlattenSeq(ss)) <=> \E gw \in k.gateways : c \in ToSet(gatewayClaims(k, gw))
  BY <1>3, <1>4, <1>7
<1> QED
  BY <1>5, <1>6, <1>7, <1>8

\* Where the elements of A, B and C stand in s.
Joins(s, A, B, C) ==
  /\ IsSeq(s) /\ Len(s) = Len(A) + Len(B) + Len(C) /\ ToSet(s) = ToSet(A) \cup ToSet(B) \cup ToSet(C)
  /\ \A i \in 1..Len(A) : s[i] = A[i]
  /\ \A i \in 1..Len(B) : s[Len(A) + i] = B[i]
  /\ \A i \in 1..Len(C) : s[(Len(A) + Len(B)) + i] = C[i]
  /\ \A i \in 1..Len(s) : i > Len(A) => s[i] \in ToSet(B) \cup ToSet(C)

\* A render joins three lists.
LEMMA ThreeJoined ==
  ASSUME NEW A, NEW B, NEW C, IsSeq(A), IsSeq(B), IsSeq(C)
  PROVE  Joins(A \o (B \o C), A, B, C)
<1> DEFINE BC == B \o C
           s  == A \o BC
<1>1. Len(A) \in Nat /\ Len(B) \in Nat /\ Len(C) \in Nat
  BY SeqFacts
<1>2. /\ IsSeq(BC) /\ Len(BC) = Len(B) + Len(C) /\ ToSet(BC) = ToSet(B) \cup ToSet(C)
      /\ \A p \in 1..Len(B) : BC[p] = B[p]
      /\ \A p \in 1..Len(C) : BC[Len(B) + p] = C[p]
  BY ConcatFacts
<1> HIDE DEF BC
<1>3. /\ IsSeq(s) /\ Len(s) = Len(A) + Len(BC) /\ ToSet(s) = ToSet(A) \cup ToSet(BC)
      /\ \A p \in 1..Len(A) : s[p] = A[p]
      /\ \A p \in 1..Len(BC) : s[Len(A) + p] = BC[p]
      /\ \A p \in 1..Len(s) : p > Len(A) => p - Len(A) \in 1..Len(BC) /\ s[p] = BC[p - Len(A)]
  <2>1. IsSeq(BC)
    BY <1>2
  <2> QED
    BY <2>1, ConcatFacts, SMTT(30)
<1> HIDE DEF s
<1>4. \A i \in 1..Len(B) : s[Len(A) + i] = B[i]
  <2> TAKE i \in 1..Len(B)
  <2>1. i \in 1..Len(BC)
    BY <1>1, <1>2
  <2> QED
    BY <1>2, <1>3, <2>1
<1>5. ASSUME NEW i \in 1..Len(C) PROVE s[(Len(A) + Len(B)) + i] = C[i]
  <2> DEFINE p == Len(B) + i
  <2>1. p \in 1..Len(BC) /\ Len(A) + p = (Len(A) + Len(B)) + i
    BY <1>1, <1>2
  <2>2. BC[p] = C[i]
    BY <1>2
  <2> HIDE DEF p
  <2>3. s[Len(A) + p] = C[i]
    BY <1>3, <2>1, <2>2
  <2> QED
    BY <2>1, <2>3
<1>6. ASSUME NEW i \in 1..Len(s), i > Len(A) PROVE s[i] \in ToSet(B) \cup ToSet(C)
  <2>1. i - Len(A) \in 1..Len(BC) /\ s[i] = BC[i - Len(A)]
    BY <1>3, <1>6
  <2>2. s[i] \in ToSet(BC)
    BY <1>2, <2>1, SeqFacts
  <2> QED
    BY <1>2, <2>2
<1>7. Len(s) = Len(A) + Len(B) + Len(C)
  BY <1>1, <1>2, <1>3
<1>8. ToSet(s) = ToSet(A) \cup ToSet(B) \cup ToSet(C)
  BY <1>2, <1>3
<1>9. Joins(s, A, B, C)
  BY <1>3, <1>4, <1>5, <1>6, <1>7, <1>8 DEF Joins
<1> QED
  BY <1>9 DEF s, BC

\* Two lists of the claims of a cluster: the same but for the order of the
\* Gateways.
LEMMA ClaimsAlike ==
  ASSUME NEW k, WellFormed(k), NEW cs, Listed(k, cs), NEW ds, Listed(k, ds)
  PROVE  /\ IsSeq(cs) /\ IsSeq(ds) /\ ToSet(cs) = ToSet(ds)
         /\ \E a, b, d, e :
              /\ Alike(cs, ds, a, b, d, e)
              /\ \A i \in 1..Len(cs) : i > a => cs[i].src[1] # 0
              /\ \A i \in 1..Len(ds) : i > a => ds[i].src[1] # 0
<1>1. PICK ings1 \in SetToSeqs(k.ingresses), gws1 \in SetToSeqs(k.gateways),
           rts1 \in SetToSeqs(k.httpRoutes), slices1 \in SetToSeqs(k.slices) :
        cs = Claims(k, ings1, gws1, rts1, slices1)
  BY DEF Listed
<1>2. PICK ings2 \in SetToSeqs(k.ingresses), gws2 \in SetToSeqs(k.gateways),
           rts2 \in SetToSeqs(k.httpRoutes), slices2 \in SetToSeqs(k.slices) :
        ds = Claims(k, ings2, gws2, rts2, slices2)
  BY DEF Listed
<1>3. Identified(k.ingresses) /\ Identified(k.gateways) /\ Identified(k.httpRoutes)
  BY DEF WellFormed
<1>4. ById(ings1) = ById(ings2) /\ ById(rts1) = ById(rts2)
  <2>1. ToSet(ings1) = ToSet(ings2) /\ ToSet(rts1) = ToSet(rts2)
    BY <1>3, ListFacts DEF Identified
  <2> QED
    BY <2>1 DEF ById
<1> DEFINE is == ById(ings1)
           rs == ById(rts1)
           A == OfIngresses(k, slices1, is)
           B == IF ~k.flags.gatewayAPI THEN <<>> ELSE OfGateways(k, gws1)
           D == IF ~k.flags.gatewayAPI THEN <<>> ELSE OfGateways(k, gws2)
           C == IF ~k.flags.gatewayAPI THEN <<>> ELSE OfRoutes(k, rs)
<1>5. IsSeq(is) /\ ToSet(is) = k.ingresses /\ IsSeq(rs) /\ ToSet(rs) = k.httpRoutes
  BY <1>3, ByIdFacts DEF Identified
<1>6. A = OfIngresses(k, slices2, is)
  <2>1. [i \in DOMAIN is |-> ingressClaims(k, slices1, is[i])] = [i \in DOMAIN is |-> ingressClaims(k, slices2, is[i])]
    BY IngressSettled
  <2> QED
    BY <2>1 DEF Collect, OfIngresses
<1>7. cs = A \o (IF ~k.flags.gatewayAPI THEN <<>> ELSE OfGateways(k, gws1) \o OfRoutes(k, rs))
  BY <1>1 DEF Claims, OfIngresses, OfGateways, OfRoutes
<1>8. ds = A \o (IF ~k.flags.gatewayAPI THEN <<>> ELSE OfGateways(k, gws2) \o OfRoutes(k, rs))
  <2>1. ds = OfIngresses(k, slices2, is) \o
               (IF ~k.flags.gatewayAPI THEN <<>> ELSE OfGateways(k, gws2) \o OfRoutes(k, rs))
    BY <1>2, <1>4 DEF Claims, OfIngresses, OfGateways, OfRoutes
  <2> QED
    BY <1>6, <2>1
<1> HIDE DEF is, rs
<1>9. IsSeq(A)
  BY <1>5, IngressesClaim
<1>10. IsSeq(OfRoutes(k, rs)) /\ \A c \in ToSet(OfRoutes(k, rs)) : c.src[1] = 2
  BY <1>5, RoutesClaim
<1>11. ASSUME k.flags.gatewayAPI
       PROVE  /\ IsSeq(OfGateways(k, gws1)) /\ IsSeq(OfGateways(k, gws2))
              /\ ToSet(OfGateways(k, gws1)) = ToSet(OfGateways(k, gws2))
              /\ \A c \in ToSet(OfGateways(k, gws1)) : c.src[1] = 1 /\ c.kind = "cert"
  <2> DEFINE E(s) == ToSet(OfGateways(k, s))
  <2>1. \A s \in SetToSeqs(k.gateways) :
          /\ IsSeq(OfGateways(k, s)) /\ \A c \in E(s) : c.src[1] = 1 /\ c.kind = "cert"
          /\ \A c : c \in E(s) <=> \E gw \in k.gateways : c \in ToSet(gatewayClaims(k, gw))
    BY <1>11, GatewaysClaim
  <2> HIDE DEF E
  <2>2. \A c : c \in E(gws1) <=> c \in E(gws2)
    BY <2>1
  <2>3. E(gws1) = E(gws2)
    BY <2>2
  <2> QED
    BY <2>1, <2>3 DEF E
<1> HIDE DEF A
<1>12. /\ IsSeq(B) /\ IsSeq(D) /\ IsSeq(C) /\ ToSet(B) = ToSet(D)
       /\ \A c \in ToSet(B) : c.src[1] = 1 /\ c.kind = "cert"
       /\ \A c \in ToSet(C) : c.src[1] = 2
       /\ cs = A \o (B \o C) /\ ds = A \o (D \o C)
  <2>1. CASE k.flags.gatewayAPI
    BY <1>7, <1>8, <1>10, <1>11, <2>1
  <2>2. CASE ~k.flags.gatewayAPI
    <3> DEFINE nil == <<>>
    <3>1. B = nil /\ D = nil /\ C = nil /\ cs = A \o nil /\ ds = A \o nil
      BY <1>7, <1>8, <2>2
    <3>2. nil \o nil = nil
      OBVIOUS
    <3>3. IsSeq(nil) /\ ToSet(nil) = {}
      BY NilSeq
    <3> HIDE DEF nil, B, C, D
    <3> QED
      BY <3>1, <3>2, <3>3
  <2> QED
    BY <2>1, <2>2
<1> HIDE DEF B, C, D
<1> DEFINE a == Len(A)
           b == Len(B)
           d == Len(D)
           e == Len(C)
<1>13. Joins(cs, A, B, C) /\ Joins(ds, A, D, C)
  BY <1>9, <1>12, ThreeJoined
<1>14. /\ a \in Nat /\ b \in Nat /\ d \in Nat /\ e \in Nat
       /\ \A i \in 1..b : B[i] \in ToSet(B)
       /\ \A i \in 1..d : D[i] \in ToSet(D)
  BY <1>9, <1>12, SeqFacts
<1>15. /\ Len(cs) = a + b + e /\ Len(ds) = a + d + e
       /\ \A i \in 1..a : cs[i] = A[i] /\ ds[i] = A[i]
       /\ \A i \in 1..b : cs[a + i] = B[i]
       /\ \A i \in 1..d : ds[a + i] = D[i]
       /\ \A i \in 1..e : cs[(a + b) + i] = C[i] /\ ds[(a + d) + i] = C[i]
  BY <1>13 DEF Joins
<1>16. ASSUME NEW i, i \in 1..Len(cs) \/ i \in 1..Len(ds), i > a
       PROVE  /\ i \in 1..Len(cs) => cs[i].src[1] # 0
              /\ i \in 1..Len(ds) => ds[i].src[1] # 0
  <2>1. i \in 1..Len(cs) => cs[i] \in ToSet(B) \cup ToSet(C)
    BY <1>13, <1>16 DEF Joins
  <2>2. i \in 1..Len(ds) => ds[i] \in ToSet(B) \cup ToSet(C)
    BY <1>12, <1>13, <1>16 DEF Joins
  <2>3. \A c \in ToSet(B) \cup ToSet(C) : c.src[1] # 0
    BY <1>12
  <2> QED
    BY <2>1, <2>2, <2>3
<1>17. IsSeq(cs) /\ IsSeq(ds) /\ ToSet(cs) = ToSet(ds)
  BY <1>12, <1>13 DEF Joins
<1> HIDE DEF a, b, d, e
<1>18. Meet(cs, 0, ds, 0, a)
  <2>1. \A i \in 1..a : 0 + i = i
    BY <1>14
  <2> QED
    BY <1>15, <2>1 DEF Meet
<1>19. Certs(cs, a, b) /\ Certs(ds, a, d) /\ Meet(cs, a + b, ds, a + d, e)
  BY <1>12, <1>14, <1>15 DEF Certs, Meet
<1>20. Alike(cs, ds, a, b, d, e)
  BY <1>14, <1>15, <1>18, <1>19 DEF Alike
<1> QED
  BY <1>16, <1>17, <1>20

-----------------------------------------------------------------------------
(***************************************************************************)
(* Two renders of one cluster.                                             *)
(***************************************************************************)
\* The same certificate for the same hosts.
SameBinding(t, u) ==
  DOMAIN t.hostCert = DOMAIN u.hostCert /\ \A h \in DOMAIN t.hostCert : t.hostCert[h] = u.hostCert[h]

\* The file is made of no more than that.
LEMMA EmitSettled ==
  ASSUME NEW t, NEW u, Core(t) = Core(u), SameBinding(t, u)
  PROVE  emit(t) = emit(u)
<1>1. t.hosts = u.hosts /\ t.passthroughHosts = u.passthroughHosts /\ t.acme = u.acme /\ t.sticky = u.sticky
  BY CoreIs
<1>2. TerminateHosts(t) = TerminateHosts(u) /\ PassthroughHosts(t) = PassthroughHosts(u)
  BY <1>1 DEF TerminateHosts, PassthroughHosts
<1> DEFINE certOf(x, h) == IF h \in DOMAIN x.hostCert THEN x.hostCert[h] ELSE None
<1>3. \A h : certOf(t, h) = certOf(u, h)
  BY DEF SameBinding
<1>4. \A h : TerminateBlock(t, h, writeRouteV1) = TerminateBlock(u, h, writeRouteV1)
  BY <1>1, <1>3 DEF TerminateBlock
<1>5. \A h : TerminateBlock(t, h, writeRouteV2) = TerminateBlock(u, h, writeRouteV2)
  BY <1>1, <1>3 DEF TerminateBlock
<1>6. renderUpstreams(t) = renderUpstreams(u)
  BY <1>1, <1>2, <1>4 DEF renderUpstreams
<1>7. renderUpstreamsV2(t) = renderUpstreamsV2(u)
  <2> DEFINE host(x, h) == IF h \in PassthroughHosts(x)
                           THEN [tls |-> "passthrough", upstream |-> x.passthroughHosts[h]]
                           ELSE TerminateBlock(x, h, writeRouteV2)
  <2>1. \A h : host(t, h) = host(u, h)
    BY <1>1, <1>2, <1>5
  <2> HIDE DEF host
  <2>2. [h \in TerminateHosts(t) \cup PassthroughHosts(t) |-> host(t, h)]
          = [h \in TerminateHosts(u) \cup PassthroughHosts(u) |-> host(u, h)]
    BY <1>2, <2>1
  <2> QED
    BY <1>1, <2>2 DEF renderUpstreamsV2, host
<1> QED
  BY <1>2, <1>6, <1>7 DEF emit

\* Runs of the same claims, in whatever order, bind the same hosts.
LEMMA BindingSettled ==
  ASSUME NEW cs, IsSeq(cs), NEW ds, IsSeq(ds), ToSet(cs) = ToSet(ds), NEW t, NEW u,
         CertifiedBy(cs, t, Len(cs)), CertifiedBy(ds, u, Len(ds))
  PROVE  SameBinding(t, u)
<1> DEFINE binds(c, h) == c.kind = "cert" /\ c.host = h /\ h # <<>>
<1>1. ASSUME NEW xs, IsSeq(xs), ToSet(xs) = ToSet(ds), NEW x, CertifiedBy(xs, x, Len(xs)), NEW h
      PROVE  /\ h \in DOMAIN x.hostCert <=> \E c \in ToSet(ds) : binds(c, h)
             /\ h \in DOMAIN x.hostCert => x.hostCert[h] = h
  <2>1. /\ \A i \in 1..Len(xs) : xs[i] \in ToSet(ds)
        /\ \A c \in ToSet(ds) : \E i \in 1..Len(xs) : c = xs[i]
    BY <1>1, SetIndexed
  <2> QED
    BY <1>1, <2>1 DEF CertifiedBy
<1>2. \A h : h \in DOMAIN t.hostCert <=> h \in DOMAIN u.hostCert
  BY <1>1
<1>3. \A h : /\ h \in DOMAIN t.hostCert => t.hostCert[h] = h
             /\ h \in DOMAIN u.hostCert => u.hostCert[h] = h
  BY <1>1
<1>4. DOMAIN t.hostCert = DOMAIN u.hostCert
  BY <1>2
<1> QED
  BY <1>3, <1>4 DEF SameBinding

\* Two Gateways list different Secrets in cs (GatewaysCompete).
Compete(cs) ==
  \E i, j \in DOMAIN cs :
    LET x == cs[i]  y == cs[j]
    IN /\ x.kind = "cert" /\ y.kind = "cert" /\ x.src[1] = 1 /\ y.src[1] = 1
       /\ <<x.ns, x.name>> # <<y.ns, y.name>>
       /\ x.stem = y.stem \/ (x.host = y.host /\ x.host # <<>>)

\* The first claim under a stem: of the same Ingress in both lists, or of a
\* Gateway in both.
LEMMA FirstSettled ==
  ASSUME NEW cs, NEW ds, NEW a \in Nat, Meet(cs, 0, ds, 0, a), a <= Len(cs), a <= Len(ds),
         Len(cs) \in Nat, Len(ds) \in Nat,
         \A i \in 1..Len(cs) : i > a => cs[i].src[1] # 0,
         NEW s, NEW i \in 1..Len(cs), NEW j \in 1..Len(ds), FirstProjects(cs, i, s), FirstProjects(ds, j, s),
         cs[i].src[1] = 0
  PROVE  cs[i] = ds[j]
<1>1. \A x \in 1..a : cs[x] = ds[x]
  <2>1. \A x \in 1..a : 0 + x = x
    OBVIOUS
  <2> QED
    BY <2>1 DEF Meet
<1>2. i \in 1..a /\ i \in 1..Len(ds)
  OBVIOUS
<1>3. ~(i < j)
  BY <1>1, <1>2 DEF FirstProjects
<1>4. ~(j < i)
  <2> SUFFICES ASSUME j < i PROVE FALSE
    OBVIOUS
  <2>1. j \in 1..a /\ j \in 1..Len(cs)
    BY <1>2
  <2> QED
    BY <1>1, <2>1 DEF FirstProjects
<1>5. i = j
  BY <1>3, <1>4
<1> QED
  BY <1>1, <1>2, <1>5

\* Two renders of one cluster, whatever order the caches list in: the same
\* file, and the same certificates unless Gateways compete.
LEMMA RendersAgree ==
  ASSUME NEW k, WellFormed(k), NEW cs, Listed(k, cs), NEW ds, Listed(k, ds),
         NEW t, Ran(cs, t, Len(cs)), NEW u, Ran(ds, u, Len(ds))
  PROVE  emit(t) = emit(u) /\ (t.certProjections = u.certProjections \/ Compete(ds))
<1>1. Ordered(k, cs) /\ Ordered(k, ds)
  BY ClaimsOrdered DEF Listed
<1>2. IsSeq(cs) /\ IsSeq(ds) /\ ToSet(cs) = ToSet(ds)
  BY ClaimsAlike
<1>3. PICK a, b, d, e :
        /\ Alike(cs, ds, a, b, d, e)
        /\ \A i \in 1..Len(cs) : i > a => cs[i].src[1] # 0
        /\ \A i \in 1..Len(ds) : i > a => ds[i].src[1] # 0
  BY ClaimsAlike
<1>4. /\ Applied(cs, t, Len(cs)) /\ ProjectedBy(cs, t, Len(cs))
      /\ Applied(ds, u, Len(ds)) /\ ProjectedBy(ds, u, Len(ds))
  BY <1>1, RunApplied
<1>5. emit(t) = emit(u)
  <2>1. Core(t) = Core(u)
    BY <1>3, CoreSettled
  <2>2. SameBinding(t, u)
    BY <1>2, <1>4, BindingSettled DEF Applied
  <2> QED
    BY <2>1, <2>2, EmitSettled
<1>6. ASSUME ~Compete(ds) PROVE t.certProjections = u.certProjections
  <2> DEFINE f == t.certProjections
             g == u.certProjections
  <2>1. /\ Len(cs) \in Nat /\ Len(ds) \in Nat /\ DOMAIN ds = 1..Len(ds)
        /\ \A i \in 1..Len(cs) : cs[i] \in ToSet(ds)
        /\ \A i \in 1..Len(ds) : ds[i] \in ToSet(ds)
        /\ \A c \in ToSet(ds) : \E i \in 1..Len(cs) : c = cs[i]
        /\ \A c \in ToSet(ds) : \E i \in 1..Len(ds) : c = ds[i]
    BY <1>2, SetIndexed
  <2>2. /\ f = [s \in DOMAIN f |-> f[s]] /\ g = [s \in DOMAIN g |-> g[s]]
        /\ \A s \in DOMAIN f : \E i \in 1..Len(cs) : FirstProjects(cs, i, s) /\ f[s] = Secret(cs[i])
        /\ \A s \in DOMAIN g : \E i \in 1..Len(ds) : FirstProjects(ds, i, s) /\ g[s] = Secret(ds[i])
        /\ \A i \in 1..Len(cs) : \A s : Projects(cs[i], s) => s \in DOMAIN f
        /\ \A i \in 1..Len(ds) : \A s : Projects(ds[i], s) => s \in DOMAIN g
    BY <1>4 DEF ProjectedBy
  <2> HIDE DEF f, g
  <2>3. DOMAIN f = DOMAIN g
    <3>1. \A s : s \in DOMAIN f <=> \E c \in ToSet(ds) : Projects(c, s)
      BY <2>1, <2>2 DEF FirstProjects
    <3>2. \A s : s \in DOMAIN g <=> \E c \in ToSet(ds) : Projects(c, s)
      BY <2>1, <2>2 DEF FirstProjects
    <3> QED
      BY <3>1, <3>2
  <2>4. ASSUME NEW s \in DOMAIN f PROVE f[s] = g[s]
    <3>1. PICK i \in 1..Len(cs) : FirstProjects(cs, i, s) /\ f[s] = Secret(cs[i])
      BY <2>2
    <3>2. PICK j \in 1..Len(ds) : FirstProjects(ds, j, s) /\ g[s] = Secret(ds[j])
      BY <2>2, <2>3
    <3>3. /\ a \in Nat /\ a <= Len(cs) /\ a <= Len(ds) /\ Meet(cs, 0, ds, 0, a) /\ Meet(ds, 0, cs, 0, a)
      <4>1. a \in Nat /\ b \in Nat /\ d \in Nat /\ e \in Nat /\ Len(cs) = a + b + e /\ Len(ds) = a + d + e
        BY <1>3 DEF Alike
      <4>2. Meet(cs, 0, ds, 0, a)
        BY <1>3 DEF Alike
      <4>3. Meet(ds, 0, cs, 0, a)
        BY <4>2 DEF Meet
      <4> QED
        BY <4>1, <4>2, <4>3
    <3>4. CASE cs[i].src[1] = 0
      <4>0. /\ FirstProjects(cs, i, s) /\ FirstProjects(ds, j, s) /\ Len(cs) \in Nat /\ Len(ds) \in Nat
            /\ \A l \in 1..Len(cs) : l > a => cs[l].src[1] # 0
        BY <1>3, <2>1, <3>1, <3>2
      <4>1. cs[i] = ds[j]
        BY <3>3, <3>4, <4>0, FirstSettled
      <4> QED
        BY <3>1, <3>2, <4>1
    <3>5. CASE ds[j].src[1] = 0
      <4>0. /\ FirstProjects(cs, i, s) /\ FirstProjects(ds, j, s) /\ Len(cs) \in Nat /\ Len(ds) \in Nat
            /\ \A l \in 1..Len(ds) : l > a => ds[l].src[1] # 0
        BY <1>3, <2>1, <3>1, <3>2
      <4>1. ds[j] = cs[i]
        BY <3>3, <3>5, <4>0, FirstSettled
      <4> QED
        BY <3>1, <3>2, <4>1
    <3>6. CASE cs[i].src[1] # 0 /\ ds[j].src[1] # 0
      <4> DEFINE x == cs[i]
                 y == ds[j]
      <4>1. x.kind = "cert" /\ x.stem = s /\ y.kind = "cert" /\ y.stem = s
        BY <3>1, <3>2 DEF FirstProjects, Projects
      <4>2. x \in ToSet(ds) /\ y \in ToSet(ds)
        BY <2>1
      <4>3. x.src[1] = 1 /\ y.src[1] = 1
        <5>1. Good(k, x, x.src) /\ Good(k, y, y.src)
          BY <1>1, <4>2 DEF Ordered
        <5> HIDE DEF x, y
        <5>2. x.src[1] \in {0, 1} /\ y.src[1] \in {0, 1}
          BY <4>1, <5>1 DEF Good
        <5> QED
          BY <3>6, <5>2 DEF x, y
      <4>4. \E l \in DOMAIN ds : ds[l] = x
        BY <2>1, <4>2
      <4>5. j \in DOMAIN ds /\ ds[j] = y
        BY <2>1
      <4> HIDE DEF x, y
      <4>6. <<x.ns, x.name>> = <<y.ns, y.name>>
        BY <1>6, <4>1, <4>3, <4>4, <4>5 DEF Compete
      <4>7. Secret(x) = Secret(y)
        BY <4>6 DEF Secret
      <4> QED
        BY <3>1, <3>2, <4>7 DEF x, y
    <3> QED
      BY <3>4, <3>5, <3>6
  <2>5. f = g
    BY <2>2, <2>3, <2>4
  <2> QED
    BY <2>5 DEF f, g
<1> QED
  BY <1>5, <1>6

\* The inductive invariant: the table is that of a run of the claims applied,
\* and the last outputs are those of a whole run of some list of claims.
Rendered(k, f, c) ==
  \E cs, t : Listed(k, cs) /\ Ran(cs, t, Len(cs)) /\ f = emit(t) /\ c = t.certProjections

StableInv ==
  /\ cluster \in Clusters
  /\ next \in Nat /\ IsSeq(claims)
  /\ next # 0 => Listed(cluster, claims) /\ next <= Len(claims) + 1 /\ Ran(claims, m, next - 1)
  /\ file # None => Rendered(cluster, file, certs)

\* The invariant holds before the first render.
LEMMA StableInvInit == Init => StableInv
  BY NilSeq DEF Init, StableInv

\* What Emit has when it writes: a whole run of the claims.
LEMMA WholeRun ==
  ASSUME StableInv, Emit
  PROVE  /\ Listed(cluster, claims) /\ Ran(claims, m, Len(claims))
         /\ file' = emit(m) /\ certs' = m.certProjections
<1>1. next = Len(claims) + 1 /\ file' = emit(m) /\ certs' = m.certProjections
  BY DEF Emit
<1>2. Len(claims) \in Nat
  BY SeqFacts DEF StableInv
<1>3. next # 0 /\ next - 1 = Len(claims)
  BY <1>1, <1>2
<1> QED
  BY <1>1, <1>3 DEF StableInv

\* Begin starts a run of claims of the cluster, Claim extends it and Emit
\* writes what the whole run leaves.
LEMMA StableInvStep == StableInv /\ [Next]_vars => StableInv'
<1> SUFFICES ASSUME StableInv, [Next]_vars PROVE StableInv'
  OBVIOUS
<1>1. CASE Begin
  <2>1. Listed(cluster, claims')
    BY <1>1 DEF Begin, Listed
  <2>2. cluster' = cluster /\ next' = 1 /\ m' = newRenderModel /\ file' = file /\ certs' = certs
    BY <1>1 DEF Begin
  <2>3. IsSeq(claims') /\ Len(claims') \in Nat
    <3>1. WellFormed(cluster)
      BY ClustersAssumption DEF StableInv
    <3>2. IsSeq(claims')
      BY <2>1, <3>1, ClaimsAlike
    <3> QED
      BY <3>2, SeqFacts
  <2>4. next' - 1 = 0 /\ next' \in Nat /\ next' <= Len(claims') + 1
    BY <2>2, <2>3
  <2>5. Ran(claims', m', next' - 1)
    BY <2>2, <2>4, RanNone
  <2> QED
    BY <2>1, <2>2, <2>3, <2>4, <2>5 DEF StableInv
<1>2. CASE Claim
  <2>1. /\ next \in DOMAIN claims /\ m' = Apply(m, claims[next]) /\ next' = next + 1
        /\ cluster' = cluster /\ claims' = claims /\ file' = file /\ certs' = certs
    BY <1>2 DEF Claim
  <2>2. next \in 1..Len(claims) /\ Len(claims) \in Nat
    BY <2>1, SeqFacts DEF StableInv
  <2>3. next # 0
    BY <2>2
  <2> DEFINE n == next - 1
  <2>4. n \in Nat /\ n + 1 = next /\ next' - 1 = n + 1 /\ next' \in Nat /\ next' <= Len(claims) + 1
    BY <2>1, <2>2
  <2>5. Ran(claims, m, n)
    BY <2>3 DEF StableInv
  <2> HIDE DEF n
  <2>6. Ran(claims, Apply(m, claims[n + 1]), n + 1)
    BY <2>4, <2>5, RanOne
  <2>7. Ran(claims', m', next' - 1)
    BY <2>1, <2>4, <2>6
  <2> QED
    BY <2>1, <2>3, <2>4, <2>7 DEF StableInv
<1>3. CASE Emit
  <2>1. Listed(cluster, claims) /\ Ran(claims, m, Len(claims)) /\ file' = emit(m) /\ certs' = m.certProjections
    BY <1>3, WholeRun
  <2>2. next' = 0 /\ cluster' = cluster /\ claims' = claims
    BY <1>3 DEF Emit
  <2>3. Rendered(cluster', file', certs')
    BY <2>1, <2>2 DEF Rendered
  <2> QED
    BY <2>2, <2>3 DEF StableInv
<1>4. CASE UNCHANGED vars
  BY <1>4 DEF vars, StableInv
<1> QED
  BY <1>1, <1>2, <1>3, <1>4 DEF Next

\* Rendering an unchanged cluster again gives the same file and the same
\* certificates, unless Gateways compete for a host, whatever the cluster
\* holds and in whatever order the caches list it each time (render,
\* renderGateways, addCert).
THEOREM OutputIsStableHolds == Spec => OutputIsStable
<1> DEFINE Same == file # None => file' = file /\ (certs' = certs \/ GatewaysCompete)
<1>1. StableInv /\ [Next]_vars => [Same]_vars
  <2> SUFFICES ASSUME StableInv, [Next]_vars, file # None PROVE Same \/ UNCHANGED vars
    OBVIOUS
  <2>1. CASE Begin \/ Claim
    BY <2>1 DEF Begin, Claim
  <2>2. CASE Emit
    <3>1. Listed(cluster, claims) /\ Ran(claims, m, Len(claims)) /\ file' = emit(m) /\ certs' = m.certProjections
      BY <2>2, WholeRun
    <3>2. PICK cs, t : Listed(cluster, cs) /\ Ran(cs, t, Len(cs)) /\ file = emit(t) /\ certs = t.certProjections
      BY DEF StableInv, Rendered
    <3>3. WellFormed(cluster)
      BY ClustersAssumption DEF StableInv
    <3>4. emit(t) = emit(m) /\ (t.certProjections = m.certProjections \/ Compete(claims))
      BY <3>1, <3>2, <3>3, RendersAgree
    <3>5. Compete(claims) => GatewaysCompete
      BY DEF Compete, GatewaysCompete
    <3> QED
      BY <3>1, <3>2, <3>4, <3>5
  <2> QED
    BY <2>1, <2>2 DEF Next
<1> QED
  BY <1>1, StableInvInit, StableInvStep, PTL DEF Spec, OutputIsStable
=============================================================================
