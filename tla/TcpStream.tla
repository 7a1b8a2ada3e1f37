------------------------------ MODULE TcpStream ------------------------------
(***************************************************************************)
(* One direction of an established connection of lab-17: the sending half  *)
(* (TcpSend) and the receiving half (TcpRecv), each with its threads, over *)
(* the lossy link (TcpLink).                                               *)
(***************************************************************************)
EXTENDS TcpSend, TcpRecv

vars == <<sndVars, rcvVars, link>>

Init == SendInit /\ RecvInit /\ LinkInit

Next == \/ SendNext /\ UNCHANGED rcvVars
        \/ (Receive \/ Reader \/ ReaderSpurious) /\ UNCHANGED sndVars
        \/ (LoseData \/ LoseAck) /\ UNCHANGED <<sndVars, rcvVars>>

\* Each thread of the code runs for ever: the timer thread every 100 ms, the
\* receiving threads whenever poll reports a packet, the applications whenever
\* they are not blocked.  Nothing is assumed of the link, and no spurious wake-up.
Fairness == /\ WF_vars(Writer /\ UNCHANGED rcvVars)
            /\ WF_vars(Acks /\ UNCHANGED rcvVars)
            /\ WF_vars(TimerScan /\ UNCHANGED rcvVars)
            /\ WF_vars(Receive /\ UNCHANGED sndVars)
            /\ WF_vars(Reader /\ UNCHANGED sndVars)

Spec == Init /\ [][Next]_vars

\* The behaviours in which the receiving application does not get to read.
NextUnread == \/ SendNext /\ UNCHANGED rcvVars
              \/ Receive /\ UNCHANGED sndVars
              \/ (LoseData \/ LoseAck) /\ UNCHANGED <<sndVars, rcvVars>>

SpecUnread == Init /\ [][NextUnread]_vars

FairSpec == Spec /\ Fairness

-----------------------------------------------------------------------------
(* Properties *)

Segs == 1 .. NSeg
Seqs == 1 .. NSeg + 1

TypeOK ==
  /\ state \in {"ESTABLISHED", "CLOSED"}
  /\ snd_una \in Seqs /\ snd_nxt \in Seqs
  /\ \A i \in DOMAIN send_buf :
       send_buf[i] \in [seq_end : Seqs, times : 1 .. MaxTimes + 1, timeout : Int]
  /\ send_buf_count \in -1 .. NSeg
  /\ cgt_state \in {"OPEN", "RCVR", "LOSS"}
  /\ cwnd \in Nat \ {0} /\ cwnd_unit \in Nat /\ ssthresh \in Nat
  /\ rep_ack \in Nat /\ recovery_point \in {0} \cup Seqs /\ snd_wnd \in 1 .. AdvWnd
  /\ wait_send \in Wait /\ wait_recv \in Wait
  /\ sstate \in {"up", "segfault"}
  /\ wpc \in {"write", "numbered", "pushed", "check", "presleep", "asleep"}
  /\ rpc \in {"idle", "got", "enter", "halve", "point", "first", "resend", "shrink", "look",
              "delete", "uncount", "inc", "switch", "RCVR", "LOSS", "reopen", "window", "fsm"}
  /\ rack \in {0} \cup Seqs /\ rloop \in {1, 2} /\ rend \in BOOLEAN
  /\ rcv_nxt \in Seqs
  /\ rcv_buf \in Seq(Segs) /\ rcv_ofo_buf \in Seq(Segs) /\ delivered \in Seq(Segs)
  /\ stray \subseteq Segs /\ dangling \in BOOLEAN
  /\ rstate \in {"up", "abort", "segfault"}
  /\ gpc \in {"idle", "wake"} /\ dpc \in {"check", "presleep", "asleep"}
  /\ dataq \in Seq([kind : {"PSH", "RST"}, seq : Seqs]) /\ Len(dataq) <= LinkCap
  /\ ackq \in Seq(Seqs) /\ Len(ackq) <= LinkCap

\* The sender has not given up and neither process has ended (in an assertion, or
\* in following a pointer to where there is no node).
Intact == state = "ESTABLISHED" /\ sstate = "up" /\ rstate = "up"

\* Every segment sent stays in the send buffer, in order, until it is
\* acknowledged, and only what the receiver has is acknowledged.  What the writer
\* has numbered and not yet inserted (tcp_out.c:59, tcp_sock.c:462) is not sent.
UnackedKept ==
  /\ Len(send_buf) = snd_nxt - snd_una - (IF wpc = "numbered" THEN 1 ELSE 0)
  /\ \A i \in DOMAIN send_buf : send_buf[i].seq_end = snd_una + i
  /\ Intact => snd_una <= rcv_nxt

\* The counter tcp_sock_write blocks on agrees with the list it counts, but for the
\* one buffer that each thread has inserted or deleted and not yet counted
\* (tcp_sock.c:463-464, 475-476).
CountMatches ==
  send_buf_count = Len(send_buf) - (IF wpc = "pushed" THEN 1 ELSE 0)
                                 + (IF rpc = "uncount" THEN 1 ELSE 0)

\* The receiver keeps out-of-order segments sorted, once each, all of them
\* still to be delivered.
OfoSorted ==
  Intact => \A i \in DOMAIN rcv_ofo_buf :
              /\ rcv_ofo_buf[i] > rcv_nxt
              /\ \A j \in 1 .. i - 1 : rcv_ofo_buf[j] < rcv_ofo_buf[i]

\* The code follows the list's first pointer without looking whether it is empty: the
\* loop that frees what a partial acknowledgement in fast recovery has acknowledged
\* leaves a buffer to resend, unless the writer has numbered a segment, up to which
\* recovery lasts, and not yet inserted it (tcp_out.c:59, tcp_in.c:127, 166).
PartialAckHasBuffer ==
  (/\ rpc \in {"look", "delete", "uncount", "inc"} /\ rloop = 1
   /\ cgt_state = "RCVR" /\ recovery_point > rack)
     => wpc = "numbered" \/ \E i \in DOMAIN send_buf : send_buf[i].seq_end > rack

Stream == INSTANCE ReliableStream
            WITH written <- snd_nxt - 1, read <- delivered \o rcv_buf,
                 failed <- ~Intact

\* The two halves over the lossy link implement the promise of a stream, as far
\* as the ring buffer the application reads from.
StreamSpec == Stream!Spec

Over == state = "CLOSED" \/ sstate # "up"

\* Every segment is acknowledged in the end, or the sender gives up.
AckedOrGivenUp == \A n \in Segs : (snd_nxt > n) ~> (snd_una > n \/ Over)

\* A writer that has found the send buffer full writes on, unless the sender gives up:
\* no wake-up is lost between its look at the count and its sleep (tcp_sock.c:439-443).
WriterProceeds == (wpc \in {"presleep", "asleep"}) ~> (wpc = "write" \/ Over)

\* A reader starts reading when the ring buffer is not empty.
ReaderServed == (rcv_buf # <<>> /\ rstate = "up") ~> (rcv_buf = <<>> \/ rstate # "up")
=============================================================================
