SPECIFICATION SchedulerSpec
CONSTANTS
  Main = Main
  Timers = {t1, t2, t3}
  Jobs = {j1, j2}
  Unset = Unset
INVARIANTS
  RunningHasOwner
CHECK_DEADLOCK FALSE
