SPECIFICATION Spec
CONSTANTS
  r1 = r1
  r2 = r2
  t1 = t1
  t2 = t2
  t3 = t3
  t4 = t4
  Nobody = Nobody
  Loop = Loop
  NoTimer = NoTimer
  Timerfd = Timerfd
  Routine <- MCRoutines
  Timer <- MCFewTimers
  Delays <- MCDelays
  MinWait = 2
  MaxNow = 6
  MaxSteps = 0
  Ties = TRUE
INVARIANTS
  NoAbort
CHECK_DEADLOCK FALSE
