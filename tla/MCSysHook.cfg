SPECIFICATION FairSpec
CONSTANTS
  t1 = t1
  t2 = t2
  t3 = t3
  fd1 = fd1
  NoFd = NoFd
  Thread <- MCThreads
  Fd <- MCFds
  MaxBytes = 3
  SndBuf = 2
INVARIANTS
  TableAgrees
  CountsRight
  FailsOnlyAfterWait
PROPERTIES
  CallsEnd
