SPECIFICATION FairSpec
CONSTANTS
  r1 = r1
  r2 = r2
  t1 = t1
  t2 = t2
  t3 = t3
  t4 = t4
  Nobody = Nobody
  Loop = Loop
  NoTimer = NoTimer
  Timerfd = Timerfd
  Routine <- MCRoutines
  Timer <- MCFewTimers
  Delays <- MCDelays
  MinWait = 2
  MaxNow = 5
  MaxSteps = 1
  Ties = FALSE
INVARIANTS
  TimersArmed
  TimersAlive
  FiresInTime
  OwnTimer
PROPERTIES
  CancelsOwn
  WaitEnds
  ImplementsTimedWait
CHECK_DEADLOCK FALSE
