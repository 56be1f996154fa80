SPECIFICATION FairSpec
CONSTANTS
  conn1 = conn1
  conn2 = conn2
  Acceptor = Acceptor
  NoConn = NoConn
  proccnt = 2
  cnt = 1
  Conn <- MCConns
  Daemonize = FALSE
INVARIANTS
  OneOwner
  PoolIdle
PROPERTIES
  NeverDrops
  ServesOn
  Closed
CHECK_DEADLOCK FALSE
