------------------------------- MODULE TcpLink -------------------------------
(***************************************************************************)
(* The path between the two hosts of the TCP labs, as tcp_topo_loss.py     *)
(* builds it: one FIFO per direction, dropping packets.  A packet that     *)
(* does not fit into LinkCap is dropped too.                               *)
(***************************************************************************)
EXTENDS Naturals, Sequences

CONSTANT LinkCap            \* bound: packets in flight in each direction

ASSUME LinkCapAssumption == LinkCap \in Nat \ {0}

VARIABLES dataq,            \* towards the receiver of the stream
          ackq              \* towards its sender

link == <<dataq, ackq>>

LinkInit == dataq = <<>> /\ ackq = <<>>

\* ip_send_packet of the packets ms, in that order.
Put(q, ms) == LET all == q \o ms
              IN  IF Len(all) <= LinkCap THEN all ELSE SubSeq(all, 1, LinkCap)

LoseData == dataq # <<>> /\ dataq' = Tail(dataq) /\ UNCHANGED ackq
LoseAck  == ackq # <<>> /\ ackq' = Tail(ackq) /\ UNCHANGED dataq
=============================================================================
