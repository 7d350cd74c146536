----------------------------- MODULE ReloadGoal -----------------------------
(***************************************************************************)
(* What the reload path of the operator promises, with no debouncer, no    *)
(* timer, no /proc scan and no signal in it: configuration is written in   *)
(* versions, and every running proxy process that holds an older version   *)
(* sooner or later re-reads the current one.                               *)
(***************************************************************************)
EXTENDS Naturals

CONSTANTS Pids,         \* processes whose argv0 basename is the proxy's
          MaxVersion    \* bound on the number of configuration writes

VARIABLES disk,         \* version of the configuration on the shared volume
          alive,        \* running proxy processes
          loaded        \* the version each process has read

vars == <<disk, alive, loaded>>

Init ==
  /\ disk = 0
  /\ alive \in SUBSET Pids
  /\ loaded = [p \in Pids |-> 0]

\* The operator publishes a new configuration.
Write ==
  /\ disk < MaxVersion
  /\ disk' = disk + 1
  /\ UNCHANGED <<alive, loaded>>

\* A proxy process starts: its blocking initial read takes the current file.
Start(p) ==
  /\ p \notin alive
  /\ alive' = alive \cup {p}
  /\ loaded' = [loaded EXCEPT ![p] = disk]
  /\ UNCHANGED disk

Exit(p) ==
  /\ p \in alive
  /\ alive' = alive \ {p}
  /\ UNCHANGED <<disk, loaded>>

\* An out-of-date process re-reads the file.
Reload(p) ==
  /\ p \in alive
  /\ loaded[p] # disk
  /\ loaded' = [loaded EXCEPT ![p] = disk]
  /\ UNCHANGED <<disk, alive>>

Next == Write \/ \E p \in Pids : Start(p) \/ Exit(p) \/ Reload(p)

Safety == Init /\ [][Next]_vars

Spec == Safety /\ \A p \in Pids : WF_vars(Reload(p))
=============================================================================
