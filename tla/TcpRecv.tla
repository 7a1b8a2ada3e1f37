------------------------------- MODULE TcpRecv -------------------------------
(***************************************************************************)
(* The receiving half of an established socket of lab-17 (prj-17): the     *)
(* receiving thread in tcp_process and tcp_recv_psh_ack_tool, and the      *)
(* application thread in tcp_sock_read.  rcv_buf is the queue RingBuffer   *)
(* implements, counted in segments.                                        *)
(***************************************************************************)
EXTENDS TcpLink, Integers, SequencesExt, SynchWait

CONSTANTS RcvCap,           \* segments the ring buffer holds (65535 bytes)
          ReadLen           \* segments one tcp_sock_read asks for (1)

ASSUME RecvAssumption == RcvCap \in Nat \ {0} /\ ReadLen \in Nat \ {0}

VARIABLES
  rcv_nxt,                  \* the segment expected next
  rcv_buf,                  \* segments written to the ring buffer, not yet read
  rcv_ofo_buf,              \* the list of out-of-order segments, from its head
  stray,                    \* segments that hang off the list, not reachable from its head
  dangling,                 \* the head's next pointer points to a freed node
  rstate,                   \* "up", or how the process ended
  delivered,                \* what the application has read
  wait_recv,
  gpc,                      \* where the receiving thread is
  dpc                       \* where the application thread is

rcvVars == <<rcv_nxt, rcv_buf, rcv_ofo_buf, stray, dangling, rstate, delivered,
             wait_recv, gpc, dpc>>

RecvInit ==
  /\ rcv_nxt = 1
  /\ rcv_buf = <<>> /\ rcv_ofo_buf = <<>>
  /\ stray = {} /\ dangling = FALSE
  /\ rstate = "up"
  /\ delivered = <<>>
  /\ wait_recv = wait_init
  /\ gpc = "idle" /\ dpc = "check"

-----------------------------------------------------------------------------
(* The receiving thread.                                                   *)

Arrives(kind) == gpc = "idle" /\ rstate = "up" /\ dataq # <<>> /\ Head(dataq).kind = kind

\* A packet without PSH sets rcv_nxt, wherever its sequence number is; an
\* established socket does nothing else with a RST.
RecvRst ==
  /\ Arrives("RST")
  /\ rcv_nxt' = Head(dataq).seq
  /\ dataq' = Tail(dataq)
  /\ UNCHANGED <<rcv_buf, rcv_ofo_buf, stray, dangling, rstate, delivered,
                 wait_recv, gpc, dpc, ackq>>

Expected(seq) == seq = rcv_nxt

\* A segment from before rcv_nxt is acknowledged again; nobody is woken.
RecvOld ==
  /\ Arrives("PSH")
  /\ Head(dataq).seq < rcv_nxt
  /\ dataq' = Tail(dataq)
  /\ ackq' = Put(ackq, <<rcv_nxt>>)
  /\ UNCHANGED rcvVars

\* Traversing the list from a freed first node.
RecvDangling ==
  /\ Arrives("PSH")
  /\ Head(dataq).seq >= rcv_nxt
  /\ dangling
  /\ rstate' = "segfault"
  /\ dataq' = Tail(dataq)
  /\ UNCHANGED <<rcv_nxt, rcv_buf, rcv_ofo_buf, stray, dangling, delivered,
                 wait_recv, gpc, dpc, ackq>>

\* Mutant: a gap of one segment does not stop the loop.
DrainLengthGap(n) ==
  LET joins(i) == rcv_ofo_buf[i] <= IF i = 1 THEN n + 1 ELSE rcv_ofo_buf[i - 1] + 2
  IN  Max({k \in 0 .. Len(rcv_ofo_buf) : \A i \in 1 .. k : joins(i)})

\* How many nodes the drain loop consumes, starting from seq_end = n: it goes on
\* while the next node starts no later than where the one before it ended.
DrainLength(n) ==
  LET joins(i) == rcv_ofo_buf[i] <= IF i = 1 THEN n ELSE rcv_ofo_buf[i - 1] + 1
  IN  Max({k \in 0 .. Len(rcv_ofo_buf) : \A i \in 1 .. k : joins(i)})

\* The expected segment: written to the ring buffer, with the out-of-order ones
\* that follow it.  Each write asserts that there is room.  Freeing the first
\* node of a list that has strays leaves the head pointing to it.
RecvNext ==
  /\ Arrives("PSH")
  /\ Expected(Head(dataq).seq)
  /\ ~dangling
  /\ dataq' = Tail(dataq)
  /\ LET n     == DrainLength(Head(dataq).seq + 1)
         chunk == <<Head(dataq).seq>> \o SubSeq(rcv_ofo_buf, 1, n)
     IN  IF Len(rcv_buf) + Len(chunk) > RcvCap
         THEN /\ rstate' = "abort"
              /\ UNCHANGED <<rcv_nxt, rcv_buf, rcv_ofo_buf, dangling, gpc>>
         ELSE /\ rcv_buf' = rcv_buf \o chunk
              /\ rcv_ofo_buf' = SubSeq(rcv_ofo_buf, n + 1, Len(rcv_ofo_buf))
              /\ rcv_nxt' = chunk[n + 1] + 1
              /\ dangling' = (n > 0 /\ stray # {})
              /\ gpc' = "wake"
              /\ UNCHANGED rstate
  /\ UNCHANGED <<stray, delivered, wait_recv, dpc, ackq>>

\* Mutant: a new node always goes to the tail.
BelowAll(s) == Len(rcv_ofo_buf)

\* The nodes WriteOfoBuf walks past to find the place of segment s.
Below(s) == Max({k \in 0 .. Len(rcv_ofo_buf) : \A i \in 1 .. k : rcv_ofo_buf[i] < s})

\* WriteOfoBuf.  The list is kept sorted, but a segment that belongs before the
\* first node is linked behind a copy of the list head: the head never gets to
\* point to it.
RecvAhead ==
  /\ Arrives("PSH")
  /\ Head(dataq).seq > rcv_nxt
  /\ ~dangling
  /\ dataq' = Tail(dataq)
  /\ gpc' = "wake"
  /\ LET s == Head(dataq).seq
     IN  IF s \in ToSet(rcv_ofo_buf) THEN UNCHANGED <<rcv_ofo_buf, stray>>
         ELSE IF Below(s) = 0 /\ rcv_ofo_buf # <<>>
         THEN stray' = stray \cup {s} /\ UNCHANGED rcv_ofo_buf
         ELSE /\ rcv_ofo_buf' = InsertAt(rcv_ofo_buf, Below(s) + 1, s)
              /\ UNCHANGED stray
  /\ UNCHANGED <<rcv_nxt, rcv_buf, dangling, rstate, delivered, wait_recv, dpc, ackq>>

\* With rbuf_lock released: wake the reader if its sleep flag, read without the
\* lock of wait_recv, is up; then acknowledge.
WakeAndAck ==
  /\ gpc = "wake" /\ rstate = "up"
  /\ wait_recv' = IF wait_recv.sleep THEN wake_up(wait_recv) ELSE wait_recv
  /\ ackq' = Put(ackq, <<rcv_nxt>>)
  /\ gpc' = "idle"
  /\ UNCHANGED <<rcv_nxt, rcv_buf, rcv_ofo_buf, stray, dangling, rstate,
                 delivered, dpc, dataq>>

Receive == \/ RecvRst \/ RecvOld \/ RecvDangling \/ RecvNext \/ RecvAhead \/ WakeAndAck

-----------------------------------------------------------------------------
(* The application thread: tcp_sock_read in a loop.                        *)

ReadEmpty ==
  /\ dpc = "check" /\ rstate = "up"
  /\ rcv_buf = <<>>
  /\ dpc' = "presleep"
  /\ UNCHANGED <<rcv_nxt, rcv_buf, rcv_ofo_buf, stray, dangling, rstate,
                 delivered, wait_recv, gpc, link>>

ReadSegments ==
  /\ dpc = "check" /\ rstate = "up"
  /\ rcv_buf # <<>>
  /\ LET n == IF Len(rcv_buf) < ReadLen THEN Len(rcv_buf) ELSE ReadLen
     IN  /\ delivered' = delivered \o SubSeq(rcv_buf, 1, n)
         /\ rcv_buf' = SubSeq(rcv_buf, n + 1, Len(rcv_buf))
  /\ wait_recv' = wake_up(wait_recv)
  /\ UNCHANGED <<rcv_nxt, rcv_ofo_buf, stray, dangling, rstate, gpc, dpc, link>>

ReaderSleeps ==
  /\ dpc = "presleep" /\ rstate = "up"
  /\ wait_recv' = sleep_on(wait_recv)
  /\ dpc' = IF Returns(wait_recv) THEN "check" ELSE "asleep"
  /\ UNCHANGED <<rcv_nxt, rcv_buf, rcv_ofo_buf, stray, dangling, rstate,
                 delivered, gpc, link>>

ReaderWakes ==
  /\ dpc = "asleep" /\ rstate = "up"
  /\ wait_recv' = Resume(wait_recv)
  /\ dpc' = "check"
  /\ UNCHANGED <<rcv_nxt, rcv_buf, rcv_ofo_buf, stray, dangling, rstate,
                 delivered, gpc, link>>

ReaderResumes == Returns(wait_recv) /\ ReaderWakes

Reader == ReadEmpty \/ ReadSegments \/ ReaderSleeps \/ ReaderResumes

\* A wait on a condition may return without having been told to.
ReaderSpurious == ReaderWakes
=============================================================================
