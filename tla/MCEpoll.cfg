SPECIFICATION Spec
CONSTANTS
  c1 = c1
  c2 = c2
  c3 = c3
  fd1 = fd1
  fd2 = fd2
  NoChannel = NoChannel
  NoFd = NoFd
  Channel <- MCChannels
  Fd <- MCFds
INVARIANTS
  ChannelsExact
  KernelAgrees
  NoAssertFails
