----------------------- MODULE ReloadDebouncerProofs -----------------------
(***************************************************************************)
(* Proofs about ReloadDebouncer, for every set of callers, timers and      *)
(* processes, every window and every number of writes.                     *)
(***************************************************************************)
EXTENDS ReloadDebouncer, TLAPS

\* Which goroutine can be where: only callers run trigger, only timers wait.
Places ==
  /\ \A c \in Callers : pc[c] # "armed"
  /\ \A t \in Timers : pc[t] \notin {"trigger", "arm"}

(***************************************************************************)
(* A trailing fire is at least a window away from the fire it follows,     *)
(* unless a leading fire came in between, which pushes the one before it   *)
(* out of the window.                                                      *)
(***************************************************************************)
Spacing ==
  /\ age <= prevAge
  /\ \A c \in Callers : pc[c] = "arm" => prevAge = Window \/ wait[c] + age >= Window
  /\ \A t \in Timers : pc[t] = "armed" => prevAge = Window \/ due[t] + age >= Window

IInv ==
  /\ TypeOK
  /\ Places
  /\ SingleTrailing
  /\ Spacing
  /\ NoLostReload
-----------------------------------------------------------------------------
(* Every step preserves the types. *)
LEMMA TypeStep ==
  TypeOK /\ [Next]_vars => TypeOK'
<1> SUFFICES ASSUME TypeOK, [Next]_vars PROVE TypeOK'
  OBVIOUS
<1> USE WindowAssumption, VersionAssumption, ThreadAssumption
     DEF TypeOK, Threads, proxy, debouncer, Goto
<1>1. ASSUME NEW c \in Callers, Write(c) PROVE TypeOK'
  BY <1>1 DEF Write
<1>2. ASSUME NEW c \in Callers, LeadingFire(c) PROVE TypeOK'
  BY <1>2 DEF LeadingFire, Fire
<1>3. ASSUME NEW c \in Callers, Collapse(c) PROVE TypeOK'
  BY <1>3 DEF Collapse
<1>4. ASSUME NEW c \in Callers, Defer(c) PROVE TypeOK'
  BY <1>4 DEF Defer
<1>5. ASSUME NEW c \in Callers, NEW t \in Timers, Arm(c, t) PROVE TypeOK'
  BY <1>5 DEF Arm
<1>6. ASSUME NEW t \in Timers, TimerFire(t) PROVE TypeOK'
  BY <1>6 DEF TimerFire, Fire
<1>7. ASSUME NEW t \in Threads, Scan(t) PROVE TypeOK'
  BY <1>7 DEF Scan
<1>8. ASSUME NEW t \in Threads, NEW p \in Pids, Kill(t, p) PROVE TypeOK'
  BY <1>8 DEF Kill
<1>9. ASSUME NEW p \in Pids, Start(p) PROVE TypeOK'
  BY <1>9 DEF Start
<1>10. ASSUME NEW p \in Pids, Exit(p) PROVE TypeOK'
  BY <1>10 DEF Exit
<1>11. ASSUME NEW p \in Pids, Handle(p) PROVE TypeOK'
  BY <1>11 DEF Handle
<1>12. CASE Tick
  BY <1>12 DEF Tick, Grow, Shrink
<1>13. CASE UNCHANGED vars
  BY <1>13 DEF vars
<1> QED
  BY <1>1, <1>2, <1>3, <1>4, <1>5, <1>6, <1>7, <1>8, <1>9, <1>10, <1>11, <1>12,
     <1>13 DEF Next, CallerStep, ReloadStep

(* Every step leaves goroutines where they can be. *)
LEMMA PlacesStep ==
  TypeOK /\ Places /\ [Next]_vars => Places'
<1> SUFFICES ASSUME TypeOK, Places, [Next]_vars PROVE Places'
  OBVIOUS
<1> USE ThreadAssumption DEF TypeOK, Places, Threads, proxy, debouncer, Goto
<1>1. ASSUME NEW c \in Callers, Write(c) PROVE Places'
  BY <1>1 DEF Write
<1>2. ASSUME NEW c \in Callers, LeadingFire(c) PROVE Places'
  BY <1>2 DEF LeadingFire, Fire
<1>3. ASSUME NEW c \in Callers, Collapse(c) PROVE Places'
  BY <1>3 DEF Collapse
<1>4. ASSUME NEW c \in Callers, Defer(c) PROVE Places'
  BY <1>4 DEF Defer
<1>5. ASSUME NEW c \in Callers, NEW t \in Timers, Arm(c, t) PROVE Places'
  BY <1>5 DEF Arm
<1>6. ASSUME NEW t \in Timers, TimerFire(t) PROVE Places'
  BY <1>6 DEF TimerFire, Fire
<1>7. ASSUME NEW t \in Threads, Scan(t) PROVE Places'
  BY <1>7 DEF Scan
<1>8. ASSUME NEW t \in Threads, NEW p \in Pids, Kill(t, p) PROVE Places'
  BY <1>8 DEF Kill
<1>9. ASSUME NEW p \in Pids, Start(p) PROVE Places'
  BY <1>9 DEF Start
<1>10. ASSUME NEW p \in Pids, Exit(p) PROVE Places'
  BY <1>10 DEF Exit
<1>11. ASSUME NEW p \in Pids, Handle(p) PROVE Places'
  BY <1>11 DEF Handle
<1>12. CASE Tick
  BY <1>12 DEF Tick, Grow, Shrink
<1>13. CASE UNCHANGED vars
  BY <1>13 DEF vars
<1> QED
  BY <1>1, <1>2, <1>3, <1>4, <1>5, <1>6, <1>7, <1>8, <1>9, <1>10, <1>11, <1>12,
     <1>13 DEF Next, CallerStep, ReloadStep

(* Every step keeps at most one trailing fire behind the flag. *)
LEMMA TrailingStep ==
  TypeOK /\ Places /\ SingleTrailing /\ [Next]_vars => SingleTrailing'
<1> SUFFICES ASSUME TypeOK, Places, SingleTrailing, [Next]_vars PROVE SingleTrailing'
  OBVIOUS
<1> USE ThreadAssumption
     DEF TypeOK, Places, SingleTrailing, Trailing, Threads, proxy, debouncer, Goto
<1>1. ASSUME NEW c \in Callers, Write(c) PROVE SingleTrailing'
  BY <1>1 DEF Write
<1>2. ASSUME NEW c \in Callers, LeadingFire(c) PROVE SingleTrailing'
  BY <1>2 DEF LeadingFire, Fire
<1>3. ASSUME NEW c \in Callers, Collapse(c) PROVE SingleTrailing'
  BY <1>3 DEF Collapse
<1>4. ASSUME NEW c \in Callers, Defer(c) PROVE SingleTrailing'
  BY <1>4 DEF Defer
<1>5. ASSUME NEW c \in Callers, NEW t \in Timers, Arm(c, t) PROVE SingleTrailing'
  BY <1>5 DEF Arm
<1>6. ASSUME NEW t \in Timers, TimerFire(t) PROVE SingleTrailing'
  BY <1>6 DEF TimerFire, Fire
<1>7. ASSUME NEW t \in Threads, Scan(t) PROVE SingleTrailing'
  BY <1>7 DEF Scan
<1>8. ASSUME NEW t \in Threads, NEW p \in Pids, Kill(t, p) PROVE SingleTrailing'
  BY <1>8 DEF Kill
<1>9. ASSUME NEW p \in Pids, Start(p) PROVE SingleTrailing'
  BY <1>9 DEF Start
<1>10. ASSUME NEW p \in Pids, Exit(p) PROVE SingleTrailing'
  BY <1>10 DEF Exit
<1>11. ASSUME NEW p \in Pids, Handle(p) PROVE SingleTrailing'
  BY <1>11 DEF Handle
<1>12. CASE Tick
  BY <1>12 DEF Tick, Grow, Shrink
<1>13. CASE UNCHANGED vars
  BY <1>13 DEF vars
<1> QED
  BY <1>1, <1>2, <1>3, <1>4, <1>5, <1>6, <1>7, <1>8, <1>9, <1>10, <1>11, <1>12,
     <1>13 DEF Next, CallerStep, ReloadStep

(* Every step keeps the trailing fire a window away. *)
LEMMA SpacingStep ==
  TypeOK /\ Places /\ SingleTrailing /\ Spacing /\ [Next]_vars => Spacing'
<1> SUFFICES ASSUME TypeOK, Places, SingleTrailing, Spacing, [Next]_vars PROVE Spacing'
  OBVIOUS
<1> USE WindowAssumption, ThreadAssumption
     DEF TypeOK, Places, SingleTrailing, Trailing, Spacing, Threads, proxy, debouncer, Goto
<1>1. ASSUME NEW c \in Callers, Write(c) PROVE Spacing'
  BY <1>1 DEF Write
<1>2. ASSUME NEW c \in Callers, LeadingFire(c) PROVE Spacing'
  BY <1>2 DEF LeadingFire, Fire
<1>3. ASSUME NEW c \in Callers, Collapse(c) PROVE Spacing'
  BY <1>3 DEF Collapse
<1>4. ASSUME NEW c \in Callers, Defer(c) PROVE Spacing'
  BY <1>4 DEF Defer
<1>5. ASSUME NEW c \in Callers, NEW t \in Timers, Arm(c, t) PROVE Spacing'
  BY <1>5 DEF Arm
<1>6. ASSUME NEW t \in Timers, TimerFire(t) PROVE Spacing'
  BY <1>6 DEF TimerFire, Fire
<1>7. ASSUME NEW t \in Threads, Scan(t) PROVE Spacing'
  BY <1>7 DEF Scan
<1>8. ASSUME NEW t \in Threads, NEW p \in Pids, Kill(t, p) PROVE Spacing'
  BY <1>8 DEF Kill
<1>9. ASSUME NEW p \in Pids, Start(p) PROVE Spacing'
  BY <1>9 DEF Start
<1>10. ASSUME NEW p \in Pids, Exit(p) PROVE Spacing'
  BY <1>10 DEF Exit
<1>11. ASSUME NEW p \in Pids, Handle(p) PROVE Spacing'
  BY <1>11 DEF Handle
<1>12. CASE Tick
  BY <1>12 DEF Tick, Grow, Shrink
<1>13. CASE UNCHANGED vars
  BY <1>13 DEF vars
<1> QED
  BY <1>1, <1>2, <1>3, <1>4, <1>5, <1>6, <1>7, <1>8, <1>9, <1>10, <1>11, <1>12,
     <1>13 DEF Next, CallerStep, ReloadStep

(* Every step keeps somebody on the way to an out-of-date process. *)
LEMMA NoLostStep ==
  TypeOK /\ Places /\ SingleTrailing /\ NoLostReload /\ [Next]_vars => NoLostReload'
<1> SUFFICES ASSUME TypeOK, Places, SingleTrailing, NoLostReload, [Next]_vars PROVE NoLostReload'
  OBVIOUS
<1> USE VersionAssumption, ThreadAssumption
     DEF TypeOK, Places, SingleTrailing, Trailing, NoLostReload, Threads, proxy, debouncer, Goto
<1>1. ASSUME NEW c \in Callers, Write(c) PROVE NoLostReload'
  BY <1>1 DEF Write
<1>2. ASSUME NEW c \in Callers, LeadingFire(c) PROVE NoLostReload'
  BY <1>2 DEF LeadingFire, Fire
<1>3. ASSUME NEW c \in Callers, Collapse(c) PROVE NoLostReload'
  BY <1>3 DEF Collapse
<1>4. ASSUME NEW c \in Callers, Defer(c) PROVE NoLostReload'
  BY <1>4 DEF Defer
<1>5. ASSUME NEW c \in Callers, NEW t \in Timers, Arm(c, t) PROVE NoLostReload'
  BY <1>5 DEF Arm
<1>6. ASSUME NEW t \in Timers, TimerFire(t) PROVE NoLostReload'
  BY <1>6 DEF TimerFire, Fire
<1>7. ASSUME NEW t \in Threads, Scan(t) PROVE NoLostReload'
  BY <1>7 DEF Scan
<1>8. ASSUME NEW t \in Threads, NEW p \in Pids, Kill(t, p) PROVE NoLostReload'
  BY <1>8 DEF Kill
<1>9. ASSUME NEW p \in Pids, Start(p) PROVE NoLostReload'
  BY <1>9 DEF Start
<1>10. ASSUME NEW p \in Pids, Exit(p) PROVE NoLostReload'
  BY <1>10 DEF Exit
<1>11. ASSUME NEW p \in Pids, Handle(p) PROVE NoLostReload'
  BY <1>11 DEF Handle
<1>12. CASE Tick
  BY <1>12 DEF Tick, Grow, Shrink
<1>13. CASE UNCHANGED vars
  BY <1>13 DEF vars
<1> QED
  BY <1>1, <1>2, <1>3, <1>4, <1>5, <1>6, <1>7, <1>8, <1>9, <1>10, <1>11, <1>12,
     <1>13 DEF Next, CallerStep, ReloadStep
-----------------------------------------------------------------------------
(* The initial states satisfy the inductive invariant. *)
LEMMA InitIInv == Init => IInv
<1> SUFFICES ASSUME Init PROVE IInv
  OBVIOUS
<1> USE WindowAssumption, VersionAssumption, ThreadAssumption DEF Init, Threads
<1>1. TypeOK
  <2>1. targets \in [Threads -> SUBSET Pids]
    OBVIOUS
  <2>2. pc \in [Threads -> {"idle", "trigger", "arm", "armed", "scan", "kill"}]
    OBVIOUS
  <2>3. due \in [Timers -> 0..Window] /\ wait \in [Callers -> 0..Window]
    OBVIOUS
  <2>4. loaded \in [Pids -> 0..MaxVersion]
    OBVIOUS
  <2>5. disk \in 0..MaxVersion /\ age \in 0..Window /\ prevAge \in 0..Window
    OBVIOUS
  <2>6. alive \subseteq Pids /\ sighup \subseteq alive /\ pending \in BOOLEAN
    BY Zenon
  <2> QED
    BY <2>1, <2>2, <2>3, <2>4, <2>5, <2>6 DEF TypeOK
<1>2. Places /\ SingleTrailing
  BY DEF Places, SingleTrailing, Trailing
<1>3. Spacing /\ NoLostReload
  BY DEF Spacing, NoLostReload
<1> QED
  BY <1>1, <1>2, <1>3 DEF IInv

(* The invariant is inductive, and so holds of every behaviour of the code. *)
LEMMA Invariance == Safety => []IInv
<1>1. IInv /\ [Next]_vars => IInv'
  BY TypeStep, PlacesStep, TrailingStep, SpacingStep, NoLostStep DEF IInv
<1> QED
  BY InitIInv, <1>1, PTL DEF Safety

(* Type correctness of the debouncer and of the goroutines around it. *)
THEOREM TypeCorrect == Safety => []TypeOK
<1>1. IInv => TypeOK
  BY DEF IInv
<1> QED
  BY Invariance, <1>1, PTL

(***************************************************************************)
(* d.pending and the trailing fire agree: the flag is never left raised    *)
(* with no timer behind it, and there are never two timers.                *)
(***************************************************************************)
THEOREM TrailingFireIsSingle == Safety => []SingleTrailing
<1>1. IInv => SingleTrailing
  BY DEF IInv
<1> QED
  BY Invariance, <1>1, PTL

(***************************************************************************)
(* No configuration change is lost between the write and the proxy, for    *)
(* any number of concurrent callers, timers and proxy processes.           *)
(***************************************************************************)
THEOREM ReloadNeverLost == Safety => []NoLostReload
<1>1. IInv => NoLostReload
  BY DEF IInv
<1> QED
  BY Invariance, <1>1, PTL

(* At most two fires of the debouncer fall into one window. *)
THEOREM AtMostTwoFires == Safety => BurstBound
<1>1. IInv /\ [Next]_vars => [Fires => prevAge = Window]_vars
  <2> SUFFICES ASSUME IInv, [Next]_vars, Fires PROVE prevAge = Window
    OBVIOUS
  <2> PICK f \in Threads : pc[f] # "scan" /\ pc'[f] = "scan"
    BY DEF Fires
  <2> USE WindowAssumption, ThreadAssumption
       DEF IInv, TypeOK, Places, Threads, debouncer, proxy, Goto
  <2>1. ASSUME NEW c \in Callers, LeadingFire(c) PROVE prevAge = Window
    BY <2>1 DEF LeadingFire, Fire, Spacing
  <2>2. ASSUME NEW t \in Timers, TimerFire(t) PROVE prevAge = Window
    BY <2>2 DEF TimerFire, Fire, Spacing
  <2>3. ASSUME NEW c \in Callers, Write(c) \/ Collapse(c) \/ Defer(c) PROVE FALSE
    BY <2>3 DEF Write, Collapse, Defer
  <2>4. ASSUME NEW c \in Callers, NEW t \in Timers, Arm(c, t) PROVE FALSE
    BY <2>4 DEF Arm
  <2>5. ASSUME NEW t \in Threads, Scan(t) \/ \E p \in Pids : Kill(t, p) PROVE FALSE
    BY <2>5 DEF Scan, Kill
  <2>6. ASSUME NEW p \in Pids, Start(p) \/ Exit(p) \/ Handle(p) PROVE FALSE
    BY <2>6 DEF Start, Exit, Handle
  <2>7. CASE Tick \/ UNCHANGED vars
    BY <2>7 DEF Tick, vars
  <2> QED
    BY <2>1, <2>2, <2>3, <2>4, <2>5, <2>6, <2>7 DEF Next, CallerStep, ReloadStep
<1> QED
  BY Invariance, <1>1, PTL DEF Safety, BurstBound

(***************************************************************************)
(* Step simulation: with no assumption on the constants but their types,   *)
(* every step of the debouncer is a step of ReloadGoal or leaves the       *)
(* configuration, the processes and what they loaded alone.                *)
(***************************************************************************)
THEOREM ImplementsGoalSafety == Safety => Goal!Safety
<1>1. Init => Goal!Init
  BY DEF Init, Goal!Init
<1>2. IInv /\ [Next]_vars => [Goal!Next]_Goal!vars
  <2> SUFFICES ASSUME IInv, [Next]_vars PROVE [Goal!Next]_Goal!vars
    OBVIOUS
  <2> USE DEF Goal!Next, Goal!vars, proxy, debouncer
  <2>1. ASSUME NEW c \in Callers, Write(c) PROVE Goal!Next
    BY <2>1 DEF Write, Goal!Write
  <2>2. ASSUME NEW c \in Callers, CallerStep(c) PROVE UNCHANGED Goal!vars
    BY <2>2 DEF CallerStep, LeadingFire, Collapse, Defer, Arm
  <2>3. ASSUME NEW t \in Timers, TimerFire(t) PROVE UNCHANGED Goal!vars
    BY <2>3 DEF TimerFire
  <2>4. ASSUME NEW t \in Threads, ReloadStep(t) PROVE UNCHANGED Goal!vars
    BY <2>4 DEF ReloadStep, Scan, Kill
  <2>5. ASSUME NEW p \in Pids, Start(p) PROVE Goal!Next
    BY <2>5 DEF Start, Goal!Start
  <2>6. ASSUME NEW p \in Pids, Exit(p) PROVE Goal!Next
    BY <2>6 DEF Exit, Goal!Exit
  <2>7. ASSUME NEW p \in Pids, Handle(p) PROVE [Goal!Next]_Goal!vars
    <3>1. p \in alive
      BY <2>7 DEF IInv, TypeOK, Handle
    <3>2. CASE loaded[p] = disk
      BY <2>7, <3>2 DEF IInv, TypeOK, Handle
    <3>3. CASE loaded[p] # disk
      BY <2>7, <3>1, <3>3 DEF Handle, Goal!Reload
    <3> QED
      BY <3>2, <3>3
  <2>8. CASE Tick \/ UNCHANGED vars
    BY <2>8 DEF Tick, vars
  <2> QED
    BY <2>1, <2>2, <2>3, <2>4, <2>5, <2>6, <2>7, <2>8 DEF Next
<1> QED
  BY Invariance, <1>1, <1>2, PTL DEF Safety, Goal!Safety
=============================================================================
