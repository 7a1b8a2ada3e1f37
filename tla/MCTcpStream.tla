---------------------------- MODULE MCTcpStream ----------------------------
(* Constants of the TcpStream runs: the timeouts in scans, scaled down.      *)
EXTENDS TcpStream

MCRtoWindow == <<1, 1>>
MCRtoThreads == <<1, 2, 2>>
=============================================================================
