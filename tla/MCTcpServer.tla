---------------------------- MODULE MCTcpServer ----------------------------
(* One or two read-write routines, with two descriptors.                   *)
EXTENDS TcpServer
CONSTANTS w1, w2, conn1, conn2, conn3
MCWorkers == {w1, w2}
MCOneWorker == {w1}
MCConns == {conn1, conn2}
MCThreeConns == {conn1, conn2, conn3}
MCFds == {1, 2}
(* conn1 may be reset, and slow to read. *)
MCSymmetry == Permutations(MCWorkers) \cup Permutations({conn2, conn3})
=============================================================================
