----------------------------- MODULE MCTcpConn -----------------------------
(* The TcpConn run: one client process.                                      *)
EXTENDS TcpConn

\* Two packets in flight to the server, where the order of an acknowledgement,
\* a segment and a FIN matters; one to the client.
Narrow == [h \in {"server", "client"} |-> IF h = "server" THEN 2 ELSE 1]
=============================================================================
