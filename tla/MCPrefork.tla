----------------------------- MODULE MCPrefork ------------------------------
(* Two processes with one read-write routine each, so that one of them may *)
(* have to leave a connection to the other, and two connections.           *)
EXTENDS Prefork
CONSTANTS conn1, conn2
MCConns == {conn1, conn2}
=============================================================================
