\* Two goroutines that signal (Reconcile and the start-up primer), one proxy
\* process, a window of two ticks and three writes.
SPECIFICATION Spec
CONSTANTS
  Callers = {worker, primer}
  Timers = {t1, t2}
  Pids = {p1}
  Window = 2
  MaxVersion = 3
INVARIANTS TypeOK SingleTrailing NoLostReload
PROPERTIES BurstBound ImplementsGoal
