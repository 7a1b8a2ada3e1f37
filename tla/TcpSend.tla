------------------------------- MODULE TcpSend -------------------------------
(***************************************************************************)
(* The sending half of an established socket of lab-17 (prj-17): the       *)
(* application thread in tcp_sock_write, the receiving thread in           *)
(* tcp_process for the acknowledgements, and the timer thread in           *)
(* tcp_scan_timer_list.  Sequence numbers count segments from 1 (a         *)
(* tcp_sock_write of the file transfer is one segment).                    *)
(*                                                                         *)
(* A step is a critical section, or a statement outside of one with what   *)
(* only its own thread uses.  send_lock covers the changes of send_buf and *)
(* a whole scan, count_lock the counter; the receiving thread reads the    *)
(* list, and all threads use snd_nxt and the congestion variables, without *)
(* a lock.  The scan is one step: what the receiving thread does in the    *)
(* midst of it amounts to doing it before or after, except where a choice  *)
(* of TimerScan says what else may come of it.                             *)
(***************************************************************************)
EXTENDS TcpLink, Integers, FiniteSets, SequencesExt, SynchWait, Lists

CONSTANTS NSeg,             \* bound: segments the application writes
          SendLimit,        \* tcp_sock_write waits at this many buffers (5)
          DupLimit,         \* repeated ACKs tolerated in OPEN (2)
          MaxTimes,         \* a buffer expiring with this count gives up (3)
          Rto,              \* Rto[k]: scans until the k-th expiry (2, 16, 32)
          SsThresh,         \* initial ssthresh, in segments
          AdvWnd            \* window the peer advertises, in segments

ASSUME SendAssumption == /\ NSeg \in Nat /\ SendLimit \in Nat \ {0}
                         /\ DupLimit \in Nat \ {0} /\ MaxTimes \in Nat \ {0}
                         /\ Rto \in [1 .. MaxTimes -> Nat \ {0}]
                         /\ SsThresh \in Nat /\ AdvWnd \in Nat \ {0}

VARIABLES
  state,                    \* ESTABLISHED, or CLOSED by the timer thread
  snd_una, snd_nxt,         \* first unacknowledged, next to send
  send_buf,                 \* list of [seq_end, times, timeout]
  send_buf_count,
  cgt_state, cwnd, cwnd_unit, ssthresh, rep_ack, recovery_point, snd_wnd,
  wait_send,
  sstate,                   \* "up", or how the process ended
  wpc,                      \* where the application thread is
  rpc, rack,                \* where the receiving thread is, the ACK it handles
  rloop,                    \* which of its two loops over send_buf it runs
  rend                      \* the buffer its loop goes to next is the list's head

window == <<cwnd, cwnd_unit, ssthresh, snd_wnd>>
congestion == <<cgt_state, rep_ack, recovery_point, window>>
sndVars == <<state, snd_una, snd_nxt, send_buf, send_buf_count, congestion,
             wait_send, sstate, wpc, rpc, rack, rloop, rend>>
buffers == <<snd_una, send_buf, send_buf_count>>

\* What all steps of the application thread leave alone; what the steps of the
\* receiving thread do, and those of them that touch the congestion variables alone.
notWriter == <<state, snd_una, congestion, sstate, rpc, rack, rloop, rend, ackq>>
notAcks == <<state, snd_nxt, sstate, wpc, rack, link>>
notCongestion == <<snd_una, send_buf, send_buf_count, wait_send, rloop, rend, notAcks>>

-----------------------------------------------------------------------------
(* After the handshake: the SYN has been acknowledged, which took cwnd to 2. *)
SendInit ==
  /\ state = "ESTABLISHED"
  /\ snd_una = 1 /\ snd_nxt = 1
  /\ send_buf = <<>> /\ send_buf_count = 0
  /\ cgt_state = "OPEN" /\ rep_ack = 0 /\ recovery_point = 0
  /\ cwnd = 2 /\ cwnd_unit = 0 /\ ssthresh = SsThresh
  /\ snd_wnd = 1
  /\ wait_send = wait_init
  /\ sstate = "up"
  /\ wpc = "write" /\ rpc = "idle" /\ rack = 0 /\ rloop = 1 /\ rend = FALSE

\* The packets the peer can get.  A segment is named by its sequence number.
Psh(n) == [kind |-> "PSH", seq |-> n]
Rst(n) == [kind |-> "RST", seq |-> n]

\* Mutant: the larger of the two.
LesserSwapped(m, n) == IF m > n THEN m ELSE n

Lesser(m, n) == IF m < n THEN m ELSE n

-----------------------------------------------------------------------------
(* The application thread: tcp_sock_write, once per segment.               *)

\* tcp_send_packet takes a sequence number.  Nothing looks at the socket's state.
NumberSegment ==
  /\ wpc = "write" /\ snd_nxt <= NSeg
  /\ snd_nxt' = snd_nxt + 1
  /\ wpc' = "numbered"
  /\ UNCHANGED <<send_buf, send_buf_count, wait_send, dataq, notWriter>>

\* PushSendBuf puts it into the list.
InsertSegment ==
  /\ wpc = "numbered"
  /\ send_buf' = Append(send_buf, [seq_end |-> snd_nxt, times |-> 1, timeout |-> Rto[1]])
  /\ wpc' = "pushed"
  /\ UNCHANGED <<snd_nxt, send_buf_count, wait_send, dataq, notWriter>>

\* The count is raised under its own lock; then the segment goes out.  In between
\* nobody else looks at the count.
TransmitSegment ==
  /\ wpc = "pushed"
  /\ send_buf_count' = send_buf_count + 1
  /\ dataq' = Put(dataq, <<Psh(snd_nxt - 1)>>)
  /\ wpc' = "check"
  /\ UNCHANGED <<snd_nxt, send_buf, wait_send, notWriter>>

\* The loop's condition, read under count_lock, which is dropped before sleep_on.
CheckCount ==
  /\ wpc = "check"
  /\ wpc' = IF send_buf_count >= SendLimit THEN "presleep" ELSE "write"
  /\ UNCHANGED <<snd_nxt, send_buf, send_buf_count, wait_send, dataq, notWriter>>

WriterSleeps ==
  /\ wpc = "presleep"
  /\ wait_send' = sleep_on(wait_send)
  /\ wpc' = IF Returns(wait_send) THEN "check" ELSE "asleep"
  /\ UNCHANGED <<snd_nxt, send_buf, send_buf_count, dataq, notWriter>>

WriterWakes ==
  /\ wpc = "asleep"
  /\ wait_send' = Resume(wait_send)
  /\ wpc' = "check"
  /\ UNCHANGED <<snd_nxt, send_buf, send_buf_count, dataq, notWriter>>

WriterResumes == Returns(wait_send) /\ WriterWakes

Writer ==
  /\ sstate = "up"
  /\ \/ NumberSegment \/ InsertSegment \/ TransmitSegment
     \/ CheckCount \/ WriterSleeps \/ WriterResumes

\* A wait on a condition may return without having been told to.
WriterSpurious == sstate = "up" /\ WriterWakes

-----------------------------------------------------------------------------
(* The receiving thread: tcp_process for a packet that carries an ACK.     *)

Goes(from, to) == rpc = from /\ rpc' = to

\* The socket was unhashed when it closed: tcp_sock_lookup finds no socket.
AckForNobody ==
  /\ rpc = "idle" /\ ackq # <<>> /\ state = "CLOSED"
  /\ ackq' = Tail(ackq)
  /\ UNCHANGED <<sndVars, dataq>>

TakeAck ==
  /\ Goes("idle", "got") /\ ackq # <<>> /\ state # "CLOSED"
  /\ rack' = Head(ackq) /\ ackq' = Tail(ackq)
  /\ UNCHANGED <<state, snd_nxt, buffers, congestion, wait_send, sstate, wpc, rloop,
                 rend, dataq>>

\* Where a repeated acknowledgement leads in fast recovery.
Shrinking(rep) == IF rep > 1 THEN "shrink" ELSE "window"

\* The acknowledgement repeats snd_una.
DupAck ==
  /\ rack = snd_una
  /\ rep_ack' = rep_ack + 1
  /\ Goes("got", IF cgt_state = "OPEN" /\ rep_ack' > DupLimit THEN "enter"
                 ELSE IF cgt_state = "RCVR" THEN Shrinking(rep_ack') ELSE "window")
  /\ UNCHANGED <<cgt_state, recovery_point, window, notCongestion>>

EnterRecovery ==
  /\ Goes("enter", "halve")
  /\ cgt_state' = "RCVR"
  /\ UNCHANGED <<rep_ack, recovery_point, window, notCongestion>>

HalveThreshold ==
  /\ Goes("halve", "point")
  /\ ssthresh' = (cwnd + 1) \div 2
  /\ UNCHANGED <<cgt_state, rep_ack, recovery_point, cwnd, cwnd_unit, snd_wnd, notCongestion>>

\* Mutant: one past what has been sent.
RecoveryPointPast == snd_nxt + 1

\* Recovery lasts until all that has been sent so far is acknowledged.
RecoveryPoint == snd_nxt

SetRecoveryPoint ==
  /\ Goes("point", "first")
  /\ recovery_point' = RecoveryPoint
  /\ UNCHANGED <<cgt_state, rep_ack, window, notCongestion>>

FindFirst ==
  /\ Goes("first", "resend")
  /\ rend' = (send_buf = <<>>)
  /\ UNCHANGED <<buffers, congestion, wait_send, rloop, notAcks>>

\* The segment is sent again, or the list's head is taken for a buffer.
Resend ==
  /\ dataq' = Put(dataq, <<Psh(Head(send_buf).seq_end - 1)>>)
  /\ UNCHANGED sstate

HeadTaken == sstate' = "segfault" /\ UNCHANGED dataq

\* What was found is sent again if the list, as it is now, is not empty.
ResendFirst ==
  /\ Goes("resend", Shrinking(rep_ack))
  /\ IF send_buf = <<>> THEN UNCHANGED <<sstate, dataq>>
     ELSE IF rend THEN HeadTaken ELSE Resend
  /\ rend' = FALSE
  /\ UNCHANGED <<state, snd_nxt, buffers, congestion, wait_send, wpc, rack, rloop, ackq>>

ShrinkWindow ==
  /\ Goes("shrink", "window")
  /\ rep_ack' = rep_ack - 2
  /\ cwnd' = IF cwnd > 1 THEN cwnd - 1 ELSE cwnd
  /\ UNCHANGED <<cgt_state, recovery_point, cwnd_unit, ssthresh, snd_wnd, notCongestion>>

\* Any other acknowledgement: the first loop over the list.
NewAck ==
  /\ Goes("got", "look") /\ rack # snd_una
  /\ rep_ack' = 0
  /\ UNCHANGED <<cgt_state, recovery_point, window, notCongestion>>

\* Mutant: the comparison is off by one.
AckedEarly == send_buf # <<>> /\ Head(send_buf).seq_end <= rack + 1

Acked == send_buf # <<>> /\ Head(send_buf).seq_end <= rack

\* A turn of either loop: which buffer comes next, as the list is now, is kept.
LookAcked ==
  /\ Goes("look", "delete") /\ ~rend /\ Acked
  /\ rend' = (Len(send_buf) = 1)
  /\ UNCHANGED <<buffers, congestion, wait_send, rloop, notAcks>>

\* PopSendBuf, under send_lock.  Nobody else uses snd_una.
DeleteAcked ==
  /\ Goes("delete", "uncount")
  /\ snd_una' = Head(send_buf).seq_end
  /\ send_buf' = Tail(send_buf)
  /\ UNCHANGED <<send_buf_count, congestion, wait_send, rloop, rend, notAcks>>

\* Mutant: the counter is forgotten.
UncountForgotten ==
  /\ Goes("uncount", IF rloop = 1 THEN "inc" ELSE "look")
  /\ UNCHANGED <<buffers, congestion, wait_send, rloop, rend, notAcks>>

\* PopSendBuf, under count_lock.
UncountAcked ==
  /\ Goes("uncount", IF rloop = 1 THEN "inc" ELSE "look")
  /\ send_buf_count' = send_buf_count - 1
  /\ UNCHANGED <<snd_una, send_buf, congestion, wait_send, rloop, rend, notAcks>>

\* tcp_cwnd_inc, in the first loop.
IncCwnd ==
  /\ Goes("inc", "look")
  /\ IF cgt_state # "OPEN" THEN UNCHANGED <<cwnd, cwnd_unit>>
     ELSE IF cwnd < ssthresh THEN cwnd' = cwnd + 1 /\ UNCHANGED cwnd_unit
     ELSE IF cwnd_unit + 1 >= cwnd THEN cwnd' = cwnd + 1 /\ cwnd_unit' = 0
     ELSE cwnd_unit' = cwnd_unit + 1 /\ UNCHANGED cwnd
  /\ UNCHANGED <<cgt_state, rep_ack, recovery_point, ssthresh, snd_wnd, notCongestion>>

\* The loop ends at the list's head, or at a buffer that is not acknowledged.
LeaveLoop ==
  /\ Goes("look", IF rloop = 1 THEN "switch" ELSE "fsm") /\ (rend \/ ~Acked)
  /\ rend' = (rend \/ send_buf = <<>>)
  /\ UNCHANGED <<buffers, congestion, wait_send, rloop, notAcks>>

SwitchOnState ==
  /\ Goes("switch", IF cgt_state \in {"RCVR", "LOSS"} THEN cgt_state ELSE "window")
  /\ UNCHANGED <<congestion, notCongestion>>

Recovered == rpc \in {"RCVR", "LOSS"} /\ recovery_point <= rack

EndRecovery ==
  /\ Recovered
  /\ rpc' = "reopen"
  /\ UNCHANGED <<congestion, notCongestion>>

\* Fast recovery sends the buffer again that the loop has ended at.
GoOnRecovering ==
  /\ rpc \in {"RCVR", "LOSS"} /\ ~Recovered
  /\ rpc' = "window"
  /\ IF rpc = "LOSS" THEN UNCHANGED <<sstate, dataq>>
     ELSE IF rend THEN HeadTaken ELSE Resend
  /\ UNCHANGED <<state, snd_nxt, buffers, congestion, wait_send, wpc, rack, rloop, rend, ackq>>

Reopen ==
  /\ Goes("reopen", "window")
  /\ cgt_state' = "OPEN"
  /\ UNCHANGED <<rep_ack, recovery_point, window, notCongestion>>

\* tcp_update_window_safe; then the second loop begins.
UpdateWindow ==
  LET inRange == snd_una <= rack /\ rack <= snd_nxt
  IN  /\ Goes("window", "look") /\ rloop' = 2 /\ rend' = FALSE
      /\ snd_wnd' = IF inRange THEN Lesser(AdvWnd, cwnd) ELSE snd_wnd
      /\ wait_send' = IF inRange /\ snd_wnd = 0 THEN wake_up(wait_send) ELSE wait_send
      /\ UNCHANGED <<buffers, cgt_state, rep_ack, recovery_point, cwnd, cwnd_unit,
                     ssthresh, notAcks>>

\* The state machine, for a packet without data.
FinishAck ==
  /\ Goes("fsm", "idle") /\ rack' = 0 /\ rloop' = 1 /\ rend' = FALSE
  /\ wait_send' = IF state = "ESTABLISHED" THEN wake_up(wait_send) ELSE wait_send
  /\ UNCHANGED <<state, snd_nxt, buffers, congestion, sstate, wpc, link>>

Acks ==
  /\ sstate = "up"
  /\ \/ AckForNobody \/ TakeAck
     \/ DupAck \/ EnterRecovery \/ HalveThreshold \/ SetRecoveryPoint
     \/ FindFirst \/ ResendFirst \/ ShrinkWindow
     \/ NewAck \/ LookAcked \/ DeleteAcked \/ UncountAcked \/ IncCwnd \/ LeaveLoop
     \/ SwitchOnState \/ EndRecovery \/ GoOnRecovering \/ Reopen
     \/ UpdateWindow \/ FinishAck

-----------------------------------------------------------------------------
(* The timer thread: one scan of the retransmission timer of this socket.  *)

\* What the timer's store to cwnd leaves behind: the receiving thread may be in
\* the middle of changing it, and store last.
CwndAfterTimeout ==
  IF rpc = "inc" /\ cgt_state = "OPEN" THEN {1, 2, cwnd + 1}
  ELSE IF rpc = "shrink" THEN {1, cwnd}
  ELSE {1}

\* What it may find there.
CwndFound == IF rpc = "shrink" THEN {cwnd, cwnd - 1} ELSE {cwnd}

\* Where it leaves the receiving thread: OPEN may have been stored in between,
\* after the timer thread has seen LOSS and before it stores that again.
ReopenLost ==
  IF rpc = "reopen" /\ cgt_state = "LOSS" THEN {"reopen", "window"} ELSE {rpc}

\* Mutant: the resends are not counted.
RearmUncounted(b) == [b EXCEPT !.timeout = Rto[b.times]]

\* A buffer that is sent again: counted, and its next timeout longer.
Rearm(b) == [b EXCEPT !.times = @ + 1, !.timeout = Rto[b.times + 1]]

TimerScan ==
  LET expired == {i \in DOMAIN send_buf : send_buf[i].timeout = 1}
      last    == {i \in expired : send_buf[i].times = MaxTimes}
      givesUp == last # {}
      stop    == IF givesUp THEN Min(last) ELSE Len(send_buf) + 1
      fired   == {i \in expired : i <= stop}
      resent  == Ascending(fired \ {stop})
      Aged(i) == LET b == send_buf[i]
                 IN  IF i = stop THEN [b EXCEPT !.times = @ + 1, !.timeout = 0]
                     ELSE IF i \in fired THEN Rearm(b)
                     ELSE [b EXCEPT !.timeout = @ - 1]
  IN  /\ sstate = "up"
      /\ state # "CLOSED"          \* closing took the timer off timer_list
      /\ send_buf # <<>>
      /\ send_buf' = [i \in DOMAIN send_buf |-> Aged(i)]
      /\ IF fired = {} THEN UNCHANGED <<congestion, rpc>>
         ELSE /\ recovery_point' = IF cgt_state = "LOSS" THEN recovery_point
                                   ELSE RecoveryPoint
              /\ cgt_state' = "LOSS"
              \* a second expiry in the same scan halves what the first has left
              /\ \E c \in CwndFound \cup IF Cardinality(fired) = 1 THEN {} ELSE CwndAfterTimeout :
                     ssthresh' = (c + 1) \div 2
              /\ cwnd' \in CwndAfterTimeout
              /\ snd_wnd' = 1
              /\ rpc' \in ReopenLost
              /\ UNCHANGED <<cwnd_unit, rep_ack>>
      /\ state' = IF givesUp THEN "CLOSED" ELSE state
      /\ wait_send' = IF givesUp THEN wait_exit(wait_send) ELSE wait_send
      /\ dataq' = Put(dataq, [k \in DOMAIN resent |-> Psh(send_buf[resent[k]].seq_end - 1)]
                             \o (IF givesUp THEN <<Rst(snd_nxt)>> ELSE <<>>))
      /\ UNCHANGED <<snd_una, snd_nxt, send_buf_count, sstate, wpc, rack, rloop, rend, ackq>>

SendNext == Writer \/ WriterSpurious \/ Acks \/ TimerScan
=============================================================================
