----------------------------- MODULE MCNatTable -----------------------------
(* Two clients and a server inside, two hosts outside, two ports in the    *)
(* pool, and the rule for the server, with a port that is not in the pool. *)
EXTENDS NatTable
CONSTANTS i3
OneRule == [p \in {80} |-> i3]
=============================================================================
