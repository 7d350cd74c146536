-------------------------- MODULE ReloadDebouncer --------------------------
(***************************************************************************)
(* The reload path of controllers/signal.go: a writer that changed the     *)
(* configuration calls ReloadSignaler.Signal, the reloadDebouncer decides  *)
(* under its mutex between firing now, arming a trailing timer and doing   *)
(* nothing, and a fire scans /proc for the proxy and sends it SIGHUP.      *)
(*                                                                         *)
(* A critical section of trigger is one step; everything the code does     *)
(* after Unlock (AfterFunc, do) is a later step, so callers, timer         *)
(* callbacks and the proxy interleave as the goroutines do.                *)
(*                                                                         *)
(* Time is relative: `age` is now.Sub(d.last) and `due` what is left of an *)
(* armed timer, in ticks.  trigger only asks whether age has reached the   *)
(* window, so ages stop growing at Window and no bound on time is needed;  *)
(* a debouncer that never fired (the zero time.Time) has age Window.       *)
(***************************************************************************)
EXTENDS Integers

CONSTANTS Callers,      \* goroutines that write the configuration and Signal
          Timers,       \* goroutines the runtime runs AfterFunc callbacks on
          Pids,         \* processes whose argv0 basename is ProcessName
          Window,       \* the debounce window in ticks; 0 = no debouncing
          MaxVersion    \* bound on the number of configuration writes

ASSUME WindowAssumption  == Window \in Nat
ASSUME VersionAssumption == MaxVersion \in Nat
ASSUME ThreadAssumption  == Callers \cap Timers = {}

VARIABLES disk,         \* version of the configuration on the shared volume
          alive,        \* running proxy processes
          loaded,       \* the version each process has read
          sighup,       \* processes with a SIGHUP delivered, not yet handled
          age,          \* ticks since d.last, at most Window
          pending,      \* d.pending
          due,          \* ticks left of each armed timer
          pc,           \* where each goroutine is
          wait,         \* `wait` of a caller about to call AfterFunc
          targets,      \* the PIDs a doReload has still to signal
          prevAge       \* history: ticks since the last fire but one

debouncer == <<age, pending, due, wait, prevAge>>
proxy     == <<alive, loaded, sighup>>
vars      == <<disk, proxy, debouncer, pc, targets>>

Threads == Callers \cup Timers

TypeOK ==
  /\ disk \in 0..MaxVersion
  /\ alive \subseteq Pids
  /\ loaded \in [Pids -> 0..MaxVersion]
  /\ sighup \subseteq alive
  /\ age \in 0..Window
  /\ prevAge \in 0..Window
  /\ pending \in BOOLEAN
  /\ due \in [Timers -> 0..Window]
  /\ pc \in [Threads -> {"idle", "trigger", "arm", "armed", "scan", "kill"}]
  /\ wait \in [Callers -> 0..Window]
  /\ targets \in [Threads -> SUBSET Pids]

\* newReloadDebouncer, built by the first Signal under once.Do.
Init ==
  /\ disk = 0
  /\ alive \in SUBSET Pids
  /\ loaded = [p \in Pids |-> 0]
  /\ sighup = {}
  /\ age = Window
  /\ prevAge = Window
  /\ pending = FALSE
  /\ due = [t \in Timers |-> 0]
  /\ pc = [t \in Threads |-> "idle"]
  /\ wait = [c \in Callers |-> 0]
  /\ targets = [t \in Threads |-> {}]

Goto(t, l) == pc' = [pc EXCEPT ![t] = l]

\* d.last = now, followed by Unlock and do().
Fire(t) ==
  /\ age' = 0
  /\ prevAge' = age
  /\ Goto(t, "scan")

-----------------------------------------------------------------------------
\* A render or a projection changed the file; the next thing it does is Signal.
Write(c) ==
  /\ pc[c] = "idle"
  /\ disk < MaxVersion
  /\ disk' = disk + 1
  /\ Goto(c, "trigger")
  /\ UNCHANGED <<proxy, debouncer, targets>>

\* trigger, leading edge: the window has passed (or there is none).
LeadingFire(c) ==
  /\ pc[c] = "trigger"
  /\ age >= Window
  /\ Fire(c)
  /\ UNCHANGED <<disk, proxy, pending, due, wait, targets>>

\* Faulty: a leading-edge-only debouncer, which drops every other trigger.
CollapseAlways(c) ==
  /\ pc[c] = "trigger"
  /\ age < Window
  /\ Goto(c, "idle")
  /\ UNCHANGED <<disk, proxy, debouncer, targets>>

\* trigger inside the window with a trailing fire already scheduled.
Collapse(c) ==
  /\ pc[c] = "trigger"
  /\ age < Window
  /\ pending
  /\ Goto(c, "idle")
  /\ UNCHANGED <<disk, proxy, debouncer, targets>>

\* Faulty: waits for what has passed of the window, not for what is left.
DeferElapsed(c) ==
  /\ pc[c] = "trigger"
  /\ age < Window
  /\ ~pending
  /\ pending' = TRUE
  /\ wait' = [wait EXCEPT ![c] = age]
  /\ Goto(c, "arm")
  /\ UNCHANGED <<disk, proxy, age, prevAge, due, targets>>

\* Faulty: the elapsed time is added to the window instead of subtracted.
DeferLonger(c) ==
  /\ pc[c] = "trigger"
  /\ age < Window
  /\ ~pending
  /\ pending' = TRUE
  /\ wait' = [wait EXCEPT ![c] = Window + age]
  /\ Goto(c, "arm")
  /\ UNCHANGED <<disk, proxy, age, prevAge, due, targets>>

\* trigger inside the window, first of its burst: claim the trailing fire.
Defer(c) ==
  /\ pc[c] = "trigger"
  /\ age < Window
  /\ ~pending
  /\ pending' = TRUE
  /\ wait' = [wait EXCEPT ![c] = Window - age]
  /\ Goto(c, "arm")
  /\ UNCHANGED <<disk, proxy, age, prevAge, due, targets>>

\* time.AfterFunc, called after Unlock: the timer runs from this moment.
Arm(c, t) ==
  /\ pc[c] = "arm"
  /\ pc[t] = "idle"
  /\ due' = [due EXCEPT ![t] = wait[c]]
  /\ pc' = [pc EXCEPT ![c] = "idle", ![t] = "armed"]
  /\ UNCHANGED <<disk, proxy, age, prevAge, pending, wait, targets>>

\* Faulty: the callback does not lower d.pending.
TimerFireNoReset(t) ==
  /\ pc[t] = "armed"
  /\ due[t] = 0
  /\ Fire(t)
  /\ UNCHANGED <<disk, proxy, pending, due, wait, targets>>

\* The AfterFunc callback, at its time or any time later.
TimerFire(t) ==
  /\ pc[t] = "armed"
  /\ due[t] = 0
  /\ pending' = FALSE
  /\ Fire(t)
  /\ UNCHANGED <<disk, proxy, due, wait, targets>>

\* doReload, findReloadTargets: the PIDs /proc shows now.
Scan(t) ==
  /\ pc[t] = "scan"
  /\ targets' = [targets EXCEPT ![t] = alive]
  /\ Goto(t, IF alive = {} THEN "idle" ELSE "kill")
  /\ UNCHANGED <<disk, proxy, debouncer>>

\* doReload, one iteration: Kill fails with ESRCH on a process that is gone,
\* which is logged and does not end the loop.
Kill(t, p) ==
  /\ pc[t] = "kill"
  /\ p \in targets[t]
  /\ sighup' = sighup \cup ({p} \cap alive)
  /\ targets' = [targets EXCEPT ![t] = @ \ {p}]
  /\ Goto(t, IF targets[t] = {p} THEN "idle" ELSE "kill")
  /\ UNCHANGED <<disk, alive, loaded, debouncer>>

\* Time passes; a timer that is due may still wait for its goroutine.
Grow(n) == IF n < Window THEN n + 1 ELSE n
Shrink(n) == IF n > 0 THEN n - 1 ELSE n

Tick ==
  /\ \/ prevAge < Window
     \/ age < Window
     \/ \E t \in Timers : due[t] > 0
  /\ age' = Grow(age)
  /\ prevAge' = Grow(prevAge)
  /\ due' = [t \in Timers |-> Shrink(due[t])]
  /\ UNCHANGED <<disk, proxy, pending, wait, pc, targets>>

-----------------------------------------------------------------------------
(***************************************************************************)
(* The proxy, as the signal path relies on it: a blocking initial read of  *)
(* the file at start, and a re-read of it for a SIGHUP.                    *)
(***************************************************************************)
Start(p) ==
  /\ p \notin alive
  /\ alive' = alive \cup {p}
  /\ loaded' = [loaded EXCEPT ![p] = disk]
  /\ UNCHANGED <<disk, sighup, debouncer, pc, targets>>

Exit(p) ==
  /\ p \in alive
  /\ alive' = alive \ {p}
  /\ sighup' = sighup \ {p}
  /\ UNCHANGED <<disk, loaded, debouncer, pc, targets>>

Handle(p) ==
  /\ p \in sighup
  /\ sighup' = sighup \ {p}
  /\ loaded' = [loaded EXCEPT ![p] = disk]
  /\ UNCHANGED <<disk, alive, debouncer, pc, targets>>

-----------------------------------------------------------------------------
CallerStep(c) ==
  \/ LeadingFire(c)
  \/ Collapse(c)
  \/ Defer(c)
  \/ \E t \in Timers : Arm(c, t)

ReloadStep(t) ==
  \/ Scan(t)
  \/ \E p \in Pids : Kill(t, p)

Next ==
  \/ \E c \in Callers : Write(c) \/ CallerStep(c)
  \/ \E t \in Timers : TimerFire(t)
  \/ \E t \in Threads : ReloadStep(t)
  \/ \E p \in Pids : Start(p) \/ Exit(p) \/ Handle(p)
  \/ Tick

(***************************************************************************)
(* Fairness: a goroutine that can run is scheduled, time passes, and the   *)
(* proxy handles a signal.  Nothing obliges a writer to write or a process *)
(* to start or to stop.                                                    *)
(***************************************************************************)
Fairness ==
  /\ \A c \in Callers : WF_vars(CallerStep(c))
  /\ \A t \in Timers : WF_vars(TimerFire(t))
  /\ \A t \in Threads : WF_vars(ReloadStep(t))
  /\ \A p \in Pids : WF_vars(Handle(p))
  /\ WF_vars(Tick)

Safety == Init /\ [][Next]_vars
Spec   == Safety /\ Fairness

-----------------------------------------------------------------------------
\* A caller between claiming the trailing fire and AfterFunc, or the timer.
Trailing == {c \in Callers : pc[c] = "arm"} \cup {t \in Timers : pc[t] = "armed"}

(***************************************************************************)
(* d.pending is raised exactly while one trailing fire is on its way: a    *)
(* flag left raised with nobody behind it would swallow every later        *)
(* trigger of the window, a second timer would defeat the coalescing.      *)
(* trigger sets the flag, AfterFunc runs after Unlock, and the callback    *)
(* lowers it, so this spans three critical sections.                       *)
(***************************************************************************)
SingleTrailing ==
  /\ pending <=> Trailing # {}
  /\ \A s, t \in Trailing : s = t

(***************************************************************************)
(* No change is forgotten between the write and the proxy: while a running *)
(* process holds an older version, some goroutine is still on its way to   *)
(* signal it, or the signal is there.  This is the state behind            *)
(* signal.go's "the final state is ALWAYS applied": the leading fire reads *)
(* nothing itself, collapsed triggers rely on a timer that is armed after  *)
(* the mutex is released, and the scan may run after the process changed.  *)
(***************************************************************************)
NoLostReload ==
  \A p \in alive : loaded[p] < disk =>
    \/ \E c \in Callers : pc[c] \in {"trigger", "arm"}
    \/ \E t \in Timers : pc[t] = "armed"
    \/ \E t \in Threads : pc[t] = "scan" \/ (pc[t] = "kill" /\ p \in targets[t])
    \/ p \in sighup

Fires == \E t \in Threads : pc[t] # "scan" /\ pc'[t] = "scan"

(***************************************************************************)
(* No SIGHUP storm: when the debouncer fires, the last fire but one is at  *)
(* least a window old, so no window holds three fires.  Two are possible:  *)
(* a trailing timer that runs late follows a leading fire closely.         *)
(***************************************************************************)
BurstBound == [][Fires => prevAge = Window]_vars

(***************************************************************************)
(* The trailing edge delivers: the debouncer, the scan and the signal      *)
(* together implement ReloadGoal, its fairness included, so a process that *)
(* holds an old version re-reads the file however the triggers fall into   *)
(* the window and whichever timer runs late.                               *)
(***************************************************************************)
Goal == INSTANCE ReloadGoal

ImplementsGoal == Goal!Spec
=============================================================================
