SPECIFICATION Spec
CONSTANTS
  w1 = w1
  w2 = w2
  conn1 = conn1
  conn2 = conn2
  conn3 = conn3
  Acceptor = Acceptor
  Main = Main
  NoRoutine = NoRoutine
  ListenFd = ListenFd
  TimerFd = TimerFd
  NoFd = NoFd
  TimerChan = TimerChan
  NoChannel = NoChannel
  NoConn = NoConn
  RW <- MCWorkers
  Conn <- MCThreeConns
  ConnFd <- MCFds
  Resets = {conn1}
  Slow = {conn1}
  Capacity = 128
  MaxData = 1
  TimerLast = FALSE
INVARIANTS
  FdOwned
  PoolIdle
  WaitersWatched
SYMMETRY MCSymmetry
PROPERTIES
  KeepsContracts
  EchoesAll
CHECK_DEADLOCK FALSE
