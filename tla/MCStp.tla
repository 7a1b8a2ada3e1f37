------------------------------- MODULE MCStp -------------------------------
(* The topologies of the Stp runs.  Ports are numbered as Mininet does, in  *)
(* the order in which the links are added.                                  *)
EXTENDS Stp

\* Both directions of the wires in ws, each a pair of ports.
Both(ws) ==
  [p \in {w[1] : w \in ws} \cup {w[2] : w \in ws} |->
     LET w == CHOOSE w \in ws : p \in {w[1], w[2]}
     IN  IF w[1] = p THEN w[2] ELSE w[1]]

\* Three switches in a ring.
TriSwitch == 1 .. 3
TriWire == Both({<<<<1, 1>>, <<2, 1>>>>, <<<<1, 2>>, <<3, 1>>>>, <<<<2, 2>>, <<3, 2>>>>})
TriPort == DOMAIN TriWire
=============================================================================
