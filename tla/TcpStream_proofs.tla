-------------------------- MODULE TcpStream_proofs --------------------------
(***************************************************************************)
(* What TLAPS proves of TcpStream, for every number of segments, limit,    *)
(* timeout, window, capacity of the link, of the ring buffer and of the    *)
(* reads.                                                                  *)
(*                                                                         *)
(* The sending half (SendInv), whatever the receiver does: the send buffer *)
(* holds the segments that are not acknowledged, in order, and the counter *)
(* that blocks the writer agrees with it, but for what a thread is between *)
(* two critical sections of.  What the receiving thread has seen of the    *)
(* list without a lock still holds when it acts on it (LoopKnows).         *)
(*                                                                         *)
(* The stream (StreamInv), as long as the sender has not given up: what    *)
(* the application gets is what was written, in order (StreamSpec, the     *)
(* promise of ReliableStream), out-of-order segments are kept sorted, and  *)
(* nothing is acknowledged that has not arrived.  On their way are then    *)
(* only segments below snd_nxt, and acknowledgements up to rcv_nxt         *)
(* (InFlight): a RST, whose number the receiver would take for the next to *)
(* expect, is sent only by the scan that gives up.                         *)
(*                                                                         *)
(* The types hold after that as well (TypeInv).  Acknowledgements arrive   *)
(* in ascending order (AckInv), so that fast recovery finds what to send   *)
(* again.                                                                  *)
(*                                                                         *)
(* The ring buffer that rcv_buf stands for (RingBuffer), for every         *)
(* capacity, every set of byte values and every chunk length, stays well   *)
(* formed and implements a bounded queue of bytes.  Its type invariant is  *)
(* inductive as it stands; the refinement rests on it and on what the      *)
(* modular indices mean (BytesAre).                                        *)
(***************************************************************************)
EXTENDS TcpStream, RingBuffer, Lists_proofs

Buffer == [seq_end : Nat, times : 1 .. MaxTimes + 1, timeout : Int]

\* The parts of the invariant: the types; only a scan that closes the socket
\* counts a buffer past MaxTimes; the buffers are those from snd_una on.
SendType ==
  /\ state \in {"ESTABLISHED", "CLOSED"}
  /\ snd_una \in Nat /\ snd_nxt \in Nat
  /\ send_buf \in Seq(Buffer)
  /\ send_buf_count \in Int

NotGivenUp ==
  state # "CLOSED" => \A i \in DOMAIN send_buf : send_buf[i].times <= MaxTimes

Contiguous ==
  /\ Len(send_buf) = snd_nxt - snd_una - (IF wpc = "numbered" THEN 1 ELSE 0)
  /\ \A i \in DOMAIN send_buf : send_buf[i].seq_end = snd_una + i

\* What the receiving thread has seen of the list still holds when it acts on it:
\* others add to the list, and only it deletes.
LoopKnows ==
  /\ rpc = "delete" => Acked
  /\ (rpc \in {"switch", "RCVR", "LOSS"} /\ ~rend) => send_buf # <<>>

SendInv == SendType /\ NotGivenUp /\ Contiguous /\ CountMatches /\ LoopKnows

-----------------------------------------------------------------------------
LEMMA SendInitStep == Init => SendInv
  BY DEF Init, SendInit, SendInv, SendType, NotGivenUp, Contiguous, CountMatches, LoopKnows

\* The steps that leave the send buffer and its numbers alone.
LEMMA Unmoved ==
  ASSUME SendInv, UNCHANGED <<snd_una, snd_nxt, send_buf, send_buf_count, state>>,
         wpc' = "pushed" <=> wpc = "pushed", wpc' = "numbered" <=> wpc = "numbered",
         rpc' = "uncount" <=> rpc = "uncount", LoopKnows'
  PROVE  SendInv'
  BY DEF SendInv, SendType, NotGivenUp, Contiguous, CountMatches

LEMMA NumberStep ==
  ASSUME SendInv, NumberSegment
  PROVE  SendInv'
<1>1. /\ wpc = "write" /\ wpc' = "numbered" /\ snd_nxt' = snd_nxt + 1
      /\ UNCHANGED <<state, snd_una, send_buf, send_buf_count, rpc, rack, rend>>
  BY DEF NumberSegment, notWriter
<1>2. SendType' /\ NotGivenUp'
  BY <1>1 DEF SendInv, SendType, NotGivenUp
<1>3. Contiguous'
  BY <1>1 DEF SendInv, SendType, Contiguous
<1>4. CountMatches'
  BY <1>1 DEF SendInv, CountMatches
<1>5. LoopKnows'
  BY <1>1 DEF SendInv, LoopKnows, Acked
<1> QED
  BY <1>2, <1>3, <1>4, <1>5 DEF SendInv

LEMMA InsertStep ==
  ASSUME SendInv, InsertSegment
  PROVE  SendInv'
<1> DEFINE b == [seq_end |-> snd_nxt, times |-> 1, timeout |-> Rto[1]]
<1>1. b \in Buffer
  BY SendAssumption DEF SendInv, SendType, Buffer
<1>2. /\ wpc = "numbered" /\ wpc' = "pushed"
      /\ send_buf' = Append(send_buf, b)
      /\ UNCHANGED <<state, snd_una, snd_nxt, send_buf_count, rpc, rack, rend>>
  BY DEF InsertSegment, notWriter
<1>3. SendType'
  BY <1>1, <1>2 DEF SendInv, SendType
<1>4. NotGivenUp'
  BY <1>1, <1>2, SendAssumption DEF SendInv, SendType, NotGivenUp
<1>5. /\ Len(send_buf') = Len(send_buf) + 1
      /\ \A i \in 1 .. Len(send_buf) : send_buf'[i] = send_buf[i]
      /\ send_buf'[Len(send_buf) + 1] = b
      /\ DOMAIN send_buf' = 1 .. Len(send_buf) + 1 /\ Len(send_buf) \in Nat
  BY <1>1, <1>2 DEF SendInv, SendType
<1>6. Contiguous'
  <2>1. /\ Len(send_buf) = snd_nxt - snd_una - 1 /\ snd_una \in Nat /\ snd_nxt \in Nat
        /\ \A i \in 1 .. Len(send_buf) : send_buf[i].seq_end = snd_una + i
    BY <1>2 DEF SendInv, SendType, Contiguous
  <2>2. ASSUME NEW i \in 1 .. Len(send_buf) + 1
        PROVE  send_buf'[i].seq_end = snd_una + i
    <3>1. CASE i \in 1 .. Len(send_buf)
      BY <1>5, <2>1, <3>1
    <3>2. CASE i = Len(send_buf) + 1
      <4>1. snd_una + i = snd_nxt
        BY <1>5, <2>1, <3>2
      <4> QED
        BY <1>5, <3>2, <4>1
    <3> QED
      BY <1>5, <3>1, <3>2
  <2>3. Len(send_buf') = snd_nxt - snd_una
    BY <1>5, <2>1
  <2> QED
    BY <1>2, <1>5, <2>2, <2>3 DEF Contiguous
<1>7. CountMatches'
  BY <1>2, <1>5 DEF SendInv, SendType, CountMatches
<1>8. LoopKnows'
  <2>1. send_buf # <<>> => Head(send_buf') = Head(send_buf)
    BY <1>1, <1>2 DEF SendInv, SendType
  <2>2. send_buf' # <<>>
    BY <1>5
  <2> QED
    BY <1>2, <2>1, <2>2 DEF SendInv, LoopKnows, Acked
<1> QED
  BY <1>3, <1>4, <1>6, <1>7, <1>8 DEF SendInv

LEMMA TransmitStep ==
  ASSUME SendInv, TransmitSegment
  PROVE  SendInv'
<1>1. /\ wpc = "pushed" /\ wpc' = "check" /\ send_buf_count' = send_buf_count + 1
      /\ UNCHANGED <<state, snd_una, snd_nxt, send_buf, rpc, rack, rend>>
  BY DEF TransmitSegment, notWriter
<1>2. SendType' /\ NotGivenUp' /\ Contiguous'
  BY <1>1 DEF SendInv, SendType, NotGivenUp, Contiguous
<1>3. CountMatches'
  BY <1>1 DEF SendInv, SendType, CountMatches
<1>4. LoopKnows'
  BY <1>1 DEF SendInv, LoopKnows, Acked
<1> QED
  BY <1>2, <1>3, <1>4 DEF SendInv

\* The first buffer is taken from the front, and counted under another lock.
LEMMA DeleteStep ==
  ASSUME SendInv, DeleteAcked
  PROVE  SendInv'
<1>1. /\ rpc = "delete" /\ rpc' = "uncount"
      /\ send_buf' = Tail(send_buf)
      /\ snd_una' = Head(send_buf).seq_end
      /\ UNCHANGED <<state, snd_nxt, send_buf_count, wpc, rack, rend>>
  BY DEF DeleteAcked, Goes, notAcks
<1>2. send_buf \in Seq(Buffer) /\ send_buf # <<>>
  BY <1>1 DEF SendInv, SendType, LoopKnows, Acked
<1>3. /\ send_buf' \in Seq(Buffer)
      /\ Len(send_buf') = Len(send_buf) - 1
      /\ DOMAIN send_buf' = 1 .. Len(send_buf) - 1
      /\ \A i \in 1 .. Len(send_buf) - 1 :
           send_buf'[i] = send_buf[1 + i] /\ 1 + i \in DOMAIN send_buf
      /\ Len(send_buf) \in Nat \ {0} /\ 1 \in DOMAIN send_buf
  BY <1>1, <1>2
<1>4. snd_una' = snd_una + 1
  BY <1>1, <1>2, <1>3 DEF SendInv, Contiguous
<1> USE DEF SendInv, SendType
<1>5. SendType'
  BY <1>1, <1>3, <1>4
<1>6. NotGivenUp'
  BY <1>1, <1>3 DEF NotGivenUp
<1>7. Contiguous'
  <2>1. ASSUME NEW i \in 1 .. Len(send_buf) - 1
        PROVE  send_buf'[i].seq_end = (snd_una + 1) + i
    <3>1. send_buf[1 + i].seq_end = snd_una + (1 + i)
      BY <1>3 DEF Contiguous
    <3> QED
      BY <1>3, <3>1
  <2>2. Len(send_buf') = snd_nxt - (snd_una + 1) - (IF wpc = "numbered" THEN 1 ELSE 0)
    BY <1>3 DEF Contiguous
  <2> QED
    BY <1>1, <1>3, <1>4, <2>1, <2>2 DEF Contiguous
<1>8. CountMatches'
  <2>1. Len(send_buf') = Len(send_buf) - 1 /\ Len(send_buf) \in Nat /\ send_buf_count \in Int
    BY <1>3
  <2> QED
    BY <1>1, <2>1 DEF CountMatches
<1>9. LoopKnows'
  BY <1>1 DEF LoopKnows
<1> QED
  BY <1>5, <1>6, <1>7, <1>8, <1>9

LEMMA UncountStep ==
  ASSUME SendInv, UncountAcked
  PROVE  SendInv'
  BY DEF SendInv, SendType, NotGivenUp, Contiguous, CountMatches, LoopKnows,
         UncountAcked, Goes, notAcks

\* A buffer that is counted or aged is a buffer of the same segment.
Edited(b, t, o) == [b EXCEPT !.times = t, !.timeout = o]
Older(b, o) == [b EXCEPT !.timeout = o]

LEMMA EditedIs ==
  ASSUME NEW b \in Buffer, NEW t \in 1 .. MaxTimes + 1, NEW o \in Int
  PROVE  /\ Edited(b, t, o) \in Buffer
         /\ Edited(b, t, o).seq_end = b.seq_end
         /\ Edited(b, t, o).times = t
  BY DEF Buffer, Edited

LEMMA OlderIs ==
  ASSUME NEW b \in Buffer, NEW o \in Int
  PROVE  /\ Older(b, o) \in Buffer
         /\ Older(b, o).seq_end = b.seq_end
         /\ Older(b, o).times = b.times
  BY DEF Buffer, Older

\* A scan ages every buffer in its place; the one it gives up on is the first
\* that has been sent MaxTimes, so that those before it may be counted once more.
LEMMA TimerStep ==
  ASSUME SendInv, TimerScan
  PROVE  SendInv'
<1> DEFINE expired == {i \in DOMAIN send_buf : send_buf[i].timeout = 1}
           last    == {i \in expired : send_buf[i].times = MaxTimes}
           givesUp == last # {}
           stop    == IF givesUp THEN Min(last) ELSE Len(send_buf) + 1
           fired   == {i \in expired : i <= stop}
           Aged(i) == LET b == send_buf[i]
                      IN  IF i = stop THEN [b EXCEPT !.times = @ + 1, !.timeout = 0]
                          ELSE IF i \in fired THEN Rearm(b)
                          ELSE [b EXCEPT !.timeout = @ - 1]
<1>1. /\ state = "ESTABLISHED"
      /\ send_buf' = [i \in DOMAIN send_buf |-> Aged(i)]
      /\ state' = IF givesUp THEN "CLOSED" ELSE state
      /\ UNCHANGED <<snd_una, snd_nxt, send_buf_count, wpc, rack, rend>>
      /\ send_buf # <<>>
      /\ rpc' = rpc \/ (rpc = "reopen" /\ rpc' = "window")
  BY DEF SendInv, SendType, TimerScan, ReopenLost
<1>2. /\ send_buf \in Seq(Buffer)
      /\ DOMAIN send_buf = 1 .. Len(send_buf) /\ Len(send_buf) \in Nat
      /\ \A i \in DOMAIN send_buf : send_buf[i] \in Buffer /\ send_buf[i].times <= MaxTimes
  <2>1. send_buf \in Seq(Buffer)
    BY DEF SendInv, SendType
  <2>2. \A i \in DOMAIN send_buf : send_buf[i].times <= MaxTimes
    BY <1>1 DEF SendInv, NotGivenUp
  <2> QED
    BY <2>1, <2>2
<1>3. givesUp => stop \in last /\ \A i \in last : stop <= i
  <2>1. last \in SUBSET Nat
    BY <1>2
  <2> QED
    BY <2>1, LeastIs
<1>4. ASSUME NEW i \in DOMAIN send_buf
      PROVE  /\ Aged(i) \in Buffer
             /\ Aged(i).seq_end = send_buf[i].seq_end
             /\ ~givesUp => Aged(i).times <= MaxTimes
  <2> DEFINE b == send_buf[i]
  <2> HIDE DEF last
  <2>0. /\ b \in Buffer /\ b.timeout \in Int
        /\ b.times \in 1 .. MaxTimes /\ b.times + 1 \in 1 .. MaxTimes + 1
    BY <1>2, SendAssumption DEF Buffer
  <2>1. CASE i = stop
    <3>1. givesUp
      BY <1>2, <2>1
    <3>2. Aged(i) = Edited(b, b.times + 1, 0)
      BY <2>1 DEF Edited
    <3> HIDE DEF b, Aged
    <3>3. Aged(i) \in Buffer /\ Aged(i).seq_end = b.seq_end
      BY <2>0, <3>2, EditedIs
    <3> QED
      BY <3>1, <3>3 DEF b
  <2>2. CASE i # stop /\ i \in fired
    <3>1. i \in expired /\ i <= stop /\ stop \in Int
      BY <1>2, <1>3, <2>2 DEF last
    <3>2. i \notin last
      BY <1>2, <1>3, <2>2, <3>1
    <3>3. b.times # MaxTimes
      BY <3>1, <3>2 DEF last
    <3>4. b.times + 1 \in 1 .. MaxTimes
      BY <2>0, <3>3, SendAssumption
    <3>5. Rto[b.times + 1] \in Int
      BY <3>4, SendAssumption
    <3>6. Aged(i) = Edited(b, b.times + 1, Rto[b.times + 1])
      BY <2>2 DEF Rearm, Edited
    <3> HIDE DEF b, Aged
    <3>7. Aged(i) \in Buffer /\ Aged(i).seq_end = b.seq_end /\ Aged(i).times = b.times + 1
      BY <2>0, <3>5, <3>6, EditedIs
    <3> QED
      BY <3>4, <3>7 DEF b
  <2>3. CASE i # stop /\ i \notin fired
    <3>1. Aged(i) = Older(b, b.timeout - 1) /\ b.timeout - 1 \in Int
      BY <2>0, <2>3 DEF Older
    <3> HIDE DEF b, Aged
    <3>2. Aged(i) \in Buffer /\ Aged(i).seq_end = b.seq_end /\ Aged(i).times = b.times
      BY <2>0, <3>1, OlderIs
    <3> QED
      BY <2>0, <3>2 DEF b
  <2> QED
    BY <2>1, <2>2, <2>3
<1> HIDE DEF Aged
<1>5. /\ send_buf' \in Seq(Buffer)
      /\ Len(send_buf') = Len(send_buf)
      /\ \A i \in DOMAIN send_buf' : i \in DOMAIN send_buf /\ send_buf'[i] = Aged(i)
  BY <1>1, <1>2, <1>4
<1>6. SendType'
  BY <1>1, <1>5 DEF SendInv, SendType
<1>7. NotGivenUp'
  BY <1>1, <1>4, <1>5 DEF NotGivenUp
<1>8. Contiguous'
  BY <1>1, <1>4, <1>5 DEF SendInv, Contiguous
<1>9. CountMatches'
  BY <1>1, <1>5 DEF SendInv, CountMatches
<1>10. LoopKnows'
  <2>1. Head(send_buf').seq_end = Head(send_buf).seq_end /\ send_buf' # <<>>
    BY <1>1, <1>2, <1>4, <1>5
  <2> QED
    BY <1>1, <2>1 DEF SendInv, LoopKnows, Acked
<1> QED
  BY <1>6, <1>7, <1>8, <1>9, <1>10 DEF SendInv

LEMMA NextStep == SendInv /\ [Next]_vars => SendInv'
<1> SUFFICES ASSUME SendInv, [Next]_vars
             PROVE  SendInv'
  OBVIOUS
<1> USE DEF LoopKnows, Acked
<1>1. CASE Writer \/ WriterSpurious
  <2>1. CASE CheckCount
    BY <2>1, Unmoved DEF SendInv, CheckCount, notWriter
  <2>2. CASE WriterSleeps
    BY <2>2, Unmoved DEF SendInv, WriterSleeps, notWriter
  <2>3. CASE WriterWakes
    BY <2>3, Unmoved DEF SendInv, WriterWakes, notWriter
  <2> QED
    BY <1>1, <2>1, <2>2, <2>3, NumberStep, InsertStep, TransmitStep
    DEF Writer, WriterSpurious, WriterResumes
<1>2. CASE Acks
  <2> USE DEF SendInv, Goes, buffers, notAcks, notCongestion
  <2>1. CASE AckForNobody
    BY <2>1, Unmoved DEF AckForNobody, sndVars
  <2>2. CASE TakeAck
    BY <2>2, Unmoved DEF TakeAck
  <2>3. CASE DupAck
    BY <2>3, Unmoved DEF DupAck, Shrinking
  <2>4. CASE EnterRecovery \/ HalveThreshold \/ SetRecoveryPoint \/ ShrinkWindow \/ Reopen
    BY <2>4, Unmoved
    DEF EnterRecovery, HalveThreshold, SetRecoveryPoint, ShrinkWindow, Reopen
  <2>5. CASE FindFirst
    BY <2>5, Unmoved DEF FindFirst
  <2>6. CASE ResendFirst
    BY <2>6, Unmoved DEF ResendFirst, Shrinking
  <2>7. CASE NewAck
    BY <2>7, Unmoved DEF NewAck
  <2>8. CASE LookAcked
    BY <2>8, Unmoved DEF LookAcked
  <2>9. CASE IncCwnd
    BY <2>9, Unmoved DEF IncCwnd
  <2>10. CASE LeaveLoop
    BY <2>10, Unmoved DEF LeaveLoop
  <2>11. CASE SwitchOnState
    BY <2>11, Unmoved DEF SwitchOnState
  <2>12. CASE EndRecovery
    <3>1. /\ rpc # "uncount" /\ rpc' = "reopen"
          /\ UNCHANGED <<snd_una, snd_nxt, send_buf, send_buf_count, state, wpc>>
      BY <2>12 DEF EndRecovery, Recovered
    <3> QED
      BY <3>1, Unmoved
  <2>14. CASE GoOnRecovering
    BY <2>14, Unmoved DEF GoOnRecovering
  <2>13. CASE UpdateWindow \/ FinishAck
    BY <2>13, Unmoved DEF UpdateWindow, FinishAck
  <2> QED
    BY <1>2, <2>1, <2>2, <2>3, <2>4, <2>5, <2>6, <2>7, <2>8, <2>9, <2>10, <2>11, <2>12,
       <2>13, <2>14, DeleteStep, UncountStep DEF Acks
<1>3. CASE UNCHANGED sndVars
  BY <1>3, Unmoved DEF SendInv, sndVars
<1> QED
  BY <1>1, <1>2, <1>3, TimerStep DEF Next, SendNext, vars

\* tcp_sock_write waits on a counter that is changed under a lock of its own: it
\* agrees with the list of buffers, but for the buffer that the writer has inserted,
\* and the one that the receiving thread has deleted, and not yet counted.
THEOREM CountIsExact == Spec => []CountMatches
<1>1. Init => SendInv
  BY SendInitStep
<1>2. SendInv /\ [Next]_vars => SendInv'
  BY NextStep
<1>3. SendInv => CountMatches
  BY DEF SendInv
<1> QED
  BY <1>1, <1>2, <1>3, PTL DEF Spec

\* Whatever is acknowledged, lost, sent again or given up, the send buffer holds the
\* segments from snd_una on, each once and in order: all that have been numbered, but
\* for the one the writer is about to insert (tcp_out.c:59, tcp_sock.c:462).
THEOREM BufferIsContiguous == Spec => []Contiguous
<1>1. Init => SendInv
  BY SendInitStep
<1>2. SendInv /\ [Next]_vars => SendInv'
  BY NextStep
<1>3. SendInv => Contiguous
  BY DEF SendInv
<1> QED
  BY <1>1, <1>2, <1>3, PTL DEF Spec

-----------------------------------------------------------------------------
(* The stream *)

Segments(n) == {m \in [kind : {"PSH"}, seq : Int] : m.seq < n}
UpTo(n) == {a \in Int : a <= n}

RecvType ==
  /\ rcv_nxt \in Nat \ {0}
  /\ rcv_buf \in Seq(Int) /\ delivered \in Seq(Int) /\ rcv_ofo_buf \in Seq(Int)

InFlight ==
  /\ rcv_nxt <= snd_nxt
  /\ dataq \in Seq(Segments(snd_nxt))
  /\ ackq \in Seq(UpTo(rcv_nxt)) /\ rack \in UpTo(rcv_nxt)
  /\ snd_una <= rcv_nxt

InOrder == delivered \o rcv_buf = [i \in 1 .. rcv_nxt - 1 |-> i]

\* l is sorted, without repetition, between a and b.
Sorted(l, a, b) ==
  \A i \in DOMAIN l : /\ a < l[i] /\ l[i] < b
                      /\ \A j \in 1 .. i - 1 : l[j] < l[i]

RecvInv == RecvType /\ InFlight /\ InOrder /\ Sorted(rcv_ofo_buf, rcv_nxt, snd_nxt)

StreamInv == SendInv /\ (state = "ESTABLISHED" => RecvInv)

-----------------------------------------------------------------------------
(* Queues *)

\* What is put into a queue is of the kind that was there and of what is added.
LEMMA PutIs ==
  ASSUME NEW S, NEW q \in Seq(S), NEW ms \in Seq(S)
  PROVE  Put(q, ms) \in Seq(S)
<1> DEFINE all == q \o ms
<1>1. all \in Seq(S)
  OBVIOUS
<1> HIDE DEF all
<1>2. CASE Len(all) <= LinkCap
  BY <1>1, <1>2 DEF Put, all
<1>3. CASE ~(Len(all) <= LinkCap)
  <2>1. SubSeq(all, 1, LinkCap) \in Seq(S)
    BY <1>1, <1>3, LinkCapAssumption
  <2> QED
    BY <1>3, <2>1 DEF Put, all
<1> QED
  BY <1>2, <1>3

LEMMA Grow ==
  ASSUME NEW m \in Int, NEW n \in Int, m <= n
  PROVE  Seq(Segments(m)) \subseteq Seq(Segments(n)) /\ Seq(UpTo(m)) \subseteq Seq(UpTo(n))
<1>1. Segments(m) \subseteq Segments(n) /\ UpTo(m) \subseteq UpTo(n)
  BY DEF Segments, UpTo
<1> QED
  BY <1>1, SeqMonotonic

LEMMA PshIs ==
  ASSUME NEW n \in Int, NEW k \in Int, k < n
  PROVE  Psh(k) \in Segments(n)
BY DEF Psh, Segments

-----------------------------------------------------------------------------
(* Steps of the sending host *)

\* What a step of the sender must leave to the receiver.
LEMMA RecvKept ==
  ASSUME SendInv, RecvInv, UNCHANGED rcvVars,
         snd_nxt' \in Nat, snd_nxt <= snd_nxt',
         dataq' \in Seq(Segments(snd_nxt')), ackq' \in Seq(UpTo(rcv_nxt)),
         rack' \in UpTo(rcv_nxt), snd_una' <= rcv_nxt
  PROVE  RecvInv'
<1>1. snd_nxt \in Nat /\ rcv_nxt \in Nat
  BY DEF SendInv, SendType, RecvInv, RecvType
<1>2. UNCHANGED <<rcv_nxt, rcv_buf, delivered, rcv_ofo_buf>>
  BY DEF rcvVars
<1>3. RecvType' /\ InOrder'
  BY <1>2 DEF RecvInv, RecvType, InOrder
<1>4. InFlight'
  BY <1>1, <1>2 DEF RecvInv, InFlight
<1>5. Sorted(rcv_ofo_buf, rcv_nxt, snd_nxt)'
  <2>1. \A i \in DOMAIN rcv_ofo_buf : rcv_ofo_buf[i] \in Int
    BY DEF RecvInv, RecvType
  <2> QED
    BY <1>1, <1>2, <2>1 DEF RecvInv, Sorted
<1> QED
  BY <1>3, <1>4, <1>5 DEF RecvInv

\* The facts about the sender that its steps rest on.
LEMMA SenderIs ==
  ASSUME SendInv, RecvInv
  PROVE  /\ snd_una \in Nat /\ snd_nxt \in Nat /\ rcv_nxt \in Nat /\ rack \in Int
         /\ send_buf \in Seq(Buffer) /\ Len(send_buf) \in Nat
         /\ DOMAIN send_buf = 1 .. Len(send_buf)
         /\ \A i \in DOMAIN send_buf :
              /\ send_buf[i].seq_end \in Nat /\ send_buf[i].seq_end <= snd_nxt
              /\ Psh(send_buf[i].seq_end - 1) \in Segments(snd_nxt)
         /\ dataq \in Seq(Segments(snd_nxt)) /\ ackq \in Seq(UpTo(rcv_nxt))
         /\ rack \in UpTo(rcv_nxt) /\ snd_una <= rcv_nxt
<1>1. /\ snd_una \in Nat /\ snd_nxt \in Nat /\ rcv_nxt \in Nat
      /\ send_buf \in Seq(Buffer) /\ Len(send_buf) \in Nat
      /\ DOMAIN send_buf = 1 .. Len(send_buf)
  BY DEF SendInv, SendType, RecvInv, RecvType
<1>2. /\ dataq \in Seq(Segments(snd_nxt)) /\ ackq \in Seq(UpTo(rcv_nxt))
      /\ rack \in UpTo(rcv_nxt) /\ rack \in Int /\ snd_una <= rcv_nxt
  BY DEF RecvInv, InFlight, UpTo
<1>3. ASSUME NEW i \in DOMAIN send_buf
      PROVE  send_buf[i].seq_end \in Nat /\ send_buf[i].seq_end <= snd_nxt
  <2>1. send_buf[i].seq_end = snd_una + i /\ i <= snd_nxt - snd_una
    BY <1>1 DEF SendInv, Contiguous
  <2> QED
    BY <1>1, <2>1
<1>4. ASSUME NEW i \in DOMAIN send_buf
      PROVE  Psh(send_buf[i].seq_end - 1) \in Segments(snd_nxt)
  BY <1>1, <1>3, PshIs
<1> QED
  BY <1>1, <1>2, <1>3, <1>4

LEMMA WriterKeeps ==
  ASSUME SendInv, RecvInv, Writer \/ WriterSpurious, UNCHANGED rcvVars
  PROVE  RecvInv'
<1>1. CASE NumberSegment
  <2>1. /\ snd_nxt' = snd_nxt + 1 /\ UNCHANGED <<dataq, ackq, rack, snd_una>>
    BY <1>1 DEF NumberSegment, notWriter
  <2>2. Seq(Segments(snd_nxt)) \subseteq Seq(Segments(snd_nxt'))
    BY <2>1, SenderIs, Grow
  <2> QED
    BY <2>1, <2>2, SenderIs, RecvKept
<1>2. CASE TransmitSegment
  <2>1. /\ UNCHANGED <<snd_nxt, ackq, rack, snd_una>>
        /\ dataq' = Put(dataq, <<Psh(snd_nxt - 1)>>)
    BY <1>2 DEF TransmitSegment, notWriter
  <2>2. <<Psh(snd_nxt - 1)>> \in Seq(Segments(snd_nxt))
    <3>1. Psh(snd_nxt - 1) \in Segments(snd_nxt)
      BY SenderIs, PshIs
    <3> QED
      BY <3>1, OneIsSeq
  <2>3. dataq' \in Seq(Segments(snd_nxt))
    BY <2>1, <2>2, SenderIs, PutIs
  <2> QED
    BY <2>1, <2>3, SenderIs, RecvKept
<1>3. CASE InsertSegment \/ CheckCount \/ WriterSleeps \/ WriterWakes
  <2>1. UNCHANGED <<snd_nxt, dataq, ackq, rack, snd_una>>
    BY <1>3 DEF InsertSegment, CheckCount, WriterSleeps, WriterWakes, notWriter
  <2> QED
    BY <2>1, SenderIs, RecvKept
<1> QED
  BY <1>1, <1>2, <1>3 DEF Writer, WriterSpurious, WriterResumes

\* The first buffer is sent again.
LEMMA FirstAgain ==
  ASSUME SendInv, RecvInv, send_buf # <<>>
  PROVE  Put(dataq, <<Psh(Head(send_buf).seq_end - 1)>>) \in Seq(Segments(snd_nxt))
<1>1. Head(send_buf) = send_buf[1] /\ 1 \in DOMAIN send_buf
  BY SenderIs
<1>2. Psh(Head(send_buf).seq_end - 1) \in Segments(snd_nxt)
  BY <1>1, SenderIs
<1>3. <<Psh(Head(send_buf).seq_end - 1)>> \in Seq(Segments(snd_nxt))
  BY <1>2, OneIsSeq
<1> QED
  BY <1>3, SenderIs, PutIs

LEMMA AcksKeep ==
  ASSUME SendInv, RecvInv, state = "ESTABLISHED", Acks, UNCHANGED rcvVars
  PROVE  RecvInv'
<1>1. CASE TakeAck
  <2>1. /\ ackq # <<>> /\ rack' = Head(ackq) /\ ackq' = Tail(ackq)
        /\ UNCHANGED <<snd_nxt, snd_una, dataq>>
    BY <1>1 DEF TakeAck, buffers
  <2>2. rack' \in UpTo(rcv_nxt) /\ ackq' \in Seq(UpTo(rcv_nxt))
    BY <2>1, SenderIs, HeadIs
  <2> QED
    BY <2>1, <2>2, SenderIs, RecvKept
<1>2. CASE DeleteAcked
  <2>1. /\ send_buf # <<>> /\ Head(send_buf).seq_end <= rack
        /\ snd_una' = Head(send_buf).seq_end /\ UNCHANGED <<snd_nxt, dataq, ackq, rack>>
    BY <1>2 DEF SendInv, LoopKnows, DeleteAcked, Goes, Acked, notAcks, link
  <2>2. Head(send_buf) = send_buf[1] /\ 1 \in DOMAIN send_buf
    BY <2>1, SenderIs
  <2>3. snd_una' <= rcv_nxt
    <3>1. rack <= rcv_nxt /\ send_buf[1].seq_end \in Nat
      BY <2>2, SenderIs DEF UpTo
    <3> QED
      BY <2>1, <2>2, <3>1, SenderIs
  <2> QED
    BY <2>1, <2>3, SenderIs, RecvKept
<1>3. CASE ResendFirst \/ GoOnRecovering
  <2>1. /\ UNCHANGED <<snd_nxt, ackq, rack, snd_una>>
        /\ \/ dataq' = dataq
           \/ send_buf # <<>> /\ dataq' = Put(dataq, <<Psh(Head(send_buf).seq_end - 1)>>)
    BY <1>3 DEF SendInv, LoopKnows, ResendFirst, GoOnRecovering, HeadTaken, Resend, Goes,
                buffers
  <2>2. dataq' \in Seq(Segments(snd_nxt))
    BY <2>1, SenderIs, FirstAgain
  <2> QED
    BY <2>1, <2>2, SenderIs, RecvKept
<1>4. CASE UNCHANGED <<snd_nxt, dataq, ackq, rack, snd_una>>
  BY <1>4, SenderIs, RecvKept
<1>5. CASE FinishAck
  <2>1. rack' = 0 /\ UNCHANGED <<snd_nxt, dataq, ackq, snd_una>>
    BY <1>5 DEF FinishAck, buffers, link
  <2>2. rack' \in UpTo(rcv_nxt)
    BY <2>1, SenderIs DEF UpTo
  <2> QED
    BY <2>1, <2>2, SenderIs, RecvKept
<1>6. CASE AckForNobody
  BY <1>6 DEF AckForNobody
<1> QED
  BY <1>1, <1>2, <1>3, <1>4, <1>5, <1>6
  DEF Acks, DupAck, EnterRecovery, HalveThreshold, SetRecoveryPoint, FindFirst, ShrinkWindow,
      NewAck, LookAcked, UncountAcked, IncCwnd, LeaveLoop, SwitchOnState, EndRecovery, Reopen,
      UpdateWindow, notCongestion, notAcks, buffers, link

\* A scan that does not give up sends buffers again, and nothing else.
LEMMA TimerKeeps ==
  ASSUME SendInv, RecvInv, TimerScan, state' = "ESTABLISHED", UNCHANGED rcvVars
  PROVE  RecvInv'
<1> DEFINE expired == {i \in DOMAIN send_buf : send_buf[i].timeout = 1}
           last    == {i \in expired : send_buf[i].times = MaxTimes}
           givesUp == last # {}
           stop    == IF givesUp THEN Min(last) ELSE Len(send_buf) + 1
           fired   == {i \in expired : i <= stop}
           resent  == Ascending(fired \ {stop})
           psh     == [k \in DOMAIN resent |-> Psh(send_buf[resent[k]].seq_end - 1)]
<1>1. /\ state' = IF givesUp THEN "CLOSED" ELSE state
      /\ dataq' = Put(dataq, psh \o (IF givesUp THEN <<Rst(snd_nxt)>> ELSE <<>>))
      /\ UNCHANGED <<snd_una, snd_nxt, rack, ackq>>
  BY DEF TimerScan
<1>2. ~givesUp
  BY <1>1
<1>3. fired \ {stop} \in SUBSET (1 .. Len(send_buf))
  BY SenderIs
<1>4. psh \in Seq(Segments(snd_nxt))
  <2> DEFINE F == fired \ {stop}
             c == Cardinality(F)
  <2>1. c \in Nat /\ resent \in [1 .. c -> F] /\ F \in SUBSET (1 .. Len(send_buf))
    BY <1>3, SenderIs, AscendingIs DEF Orders
  <2> HIDE DEF resent, F, c
  <2>2. \A k \in 1 .. c : resent[k] \in DOMAIN send_buf
    BY <2>1, SenderIs
  <2>3. \A k \in 1 .. c : Psh(send_buf[resent[k]].seq_end - 1) \in Segments(snd_nxt)
    BY <2>2, SenderIs
  <2>4. psh \in [1 .. c -> Segments(snd_nxt)]
    BY <2>1, <2>3
  <2> QED
    BY <2>1, <2>4
<1> HIDE DEF psh, givesUp
<1>5. dataq' \in Seq(Segments(snd_nxt))
  <2>1. psh \o <<>> = psh
    BY <1>4
  <2> QED
    BY <1>1, <1>2, <1>4, <2>1, SenderIs, PutIs
<1> QED
  BY <1>1, <1>5, SenderIs, RecvKept

-----------------------------------------------------------------------------
(* Steps of the receiving host *)

\* The head of the queue is a segment that has been sent.
LEMMA FirstIs ==
  ASSUME SendInv, RecvInv, dataq # <<>>
  PROVE  /\ Head(dataq).kind = "PSH" /\ Head(dataq).seq \in Int
         /\ Head(dataq).seq < snd_nxt /\ Tail(dataq) \in Seq(Segments(snd_nxt))
<1>1. Head(dataq) \in Segments(snd_nxt) /\ Tail(dataq) \in Seq(Segments(snd_nxt))
  BY SenderIs, HeadIs
<1> QED
  BY <1>1 DEF Segments

\* The steps that leave what has been received alone.
LEMMA LinkKept ==
  ASSUME SendInv, RecvInv, UNCHANGED <<sndVars, rcv_nxt, rcv_ofo_buf>>,
         rcv_buf' \in Seq(Int) /\ delivered' \in Seq(Int),
         delivered' \o rcv_buf' = delivered \o rcv_buf,
         dataq' \in Seq(Segments(snd_nxt)), ackq' \in Seq(UpTo(rcv_nxt))
  PROVE  RecvInv'
<1>1. UNCHANGED <<snd_nxt, snd_una, rack>>
  BY DEF sndVars
<1> QED
  BY <1>1 DEF RecvInv, RecvType, InFlight, InOrder, Sorted

\* rcv_nxt is acknowledged.
LEMMA AckIs ==
  ASSUME SendInv, RecvInv
  PROVE  Put(ackq, <<rcv_nxt>>) \in Seq(UpTo(rcv_nxt))
<1>1. rcv_nxt \in UpTo(rcv_nxt)
  BY SenderIs DEF UpTo
<1>2. <<rcv_nxt>> \in Seq(UpTo(rcv_nxt))
  BY <1>1, OneIsSeq
<1> QED
  BY <1>2, SenderIs, PutIs

LEMMA BuffersAre ==
  ASSUME RecvInv
  PROVE  /\ rcv_buf \in Seq(Int) /\ delivered \in Seq(Int) /\ rcv_ofo_buf \in Seq(Int)
         /\ rcv_nxt \in Nat \ {0}
BY DEF RecvInv, RecvType

LEMMA Regrouped ==
  ASSUME NEW s \in Seq(Int), NEW t \in Seq(Int), NEW u \in Seq(Int)
  PROVE  (s \o t) \o u = s \o (t \o u)
BY ConcatAssociative

LEMMA ReaderKeeps ==
  ASSUME SendInv, RecvInv, Reader \/ ReaderSpurious, UNCHANGED sndVars
  PROVE  RecvInv' /\ delivered' \o rcv_buf' = delivered \o rcv_buf
<1>1. CASE ReadSegments
  <2> DEFINE n == IF Len(rcv_buf) < ReadLen THEN Len(rcv_buf) ELSE ReadLen
             now  == SubSeq(rcv_buf, 1, n)
             then == SubSeq(rcv_buf, n + 1, Len(rcv_buf))
  <2>1. /\ delivered' = delivered \o now /\ rcv_buf' = then
        /\ UNCHANGED <<rcv_nxt, rcv_ofo_buf, dataq, ackq>>
    BY <1>1 DEF ReadSegments, link
  <2>2. n \in 0 .. Len(rcv_buf) /\ Len(rcv_buf) \in Nat
    BY BuffersAre, RecvAssumption
  <2> HIDE DEF n
  <2>3. now \in Seq(Int) /\ then \in Seq(Int)
    BY <2>2, BuffersAre
  <2>4. now \o then = rcv_buf
    <3>1. now \o then = SubSeq(rcv_buf, 1, Len(rcv_buf))
      <4>1. /\ 1 \in 1 .. Len(rcv_buf) + 1 /\ n \in 1 - 1 .. Len(rcv_buf)
            /\ Len(rcv_buf) \in n .. Len(rcv_buf)
        BY <2>2
      <4> QED
        BY <4>1, BuffersAre, ConcatAdjacentSubSeq
    <3> QED
      BY <3>1, BuffersAre, SubSeqFull
  <2> HIDE DEF now, then
  <2>5. delivered' \o rcv_buf' = delivered \o rcv_buf
    <3>1. (delivered \o now) \o then = delivered \o (now \o then)
      BY <2>3, BuffersAre, Regrouped
    <3>2. delivered' = delivered \o now /\ rcv_buf' = then
      BY <2>1
    <3> QED
      BY <2>4, <3>1, <3>2, Zenon
  <2>6. delivered' \in Seq(Int) /\ rcv_buf' \in Seq(Int)
    BY <2>1, <2>3, BuffersAre
  <2> QED
    BY <2>1, <2>5, <2>6, SenderIs, LinkKept
<1>2. CASE ReadEmpty \/ ReaderSleeps \/ ReaderWakes
  <2>1. UNCHANGED <<rcv_nxt, rcv_buf, rcv_ofo_buf, delivered, dataq, ackq>>
    BY <1>2 DEF ReadEmpty, ReaderSleeps, ReaderWakes, link
  <2> QED
    BY <2>1, SenderIs, BuffersAre, LinkKept
<1> QED
  BY <1>1, <1>2 DEF Reader, ReaderResumes, ReaderSpurious

\* The nodes that the drain loop consumes follow each other without a gap, and
\* the next node, if any, does not follow them.
LEMMA DrainIs ==
  ASSUME NEW l \in Seq(Int), l = rcv_ofo_buf, NEW s \in Int, NEW b, Sorted(l, s, b),
         NEW n, n = DrainLength(s + 1)
  PROVE  /\ n \in 0 .. Len(l)
         /\ \A i \in 1 .. n : l[i] = s + i
         /\ n < Len(l) => l[n + 1] > s + n + 1
<1> DEFINE joins(i) == l[i] <= IF i = 1 THEN s + 1 ELSE l[i - 1] + 1
           S == {k \in 0 .. Len(l) : \A i \in 1 .. k : joins(i)}
<1>1. Len(l) \in Nat /\ DOMAIN l = 1 .. Len(l) /\ \A i \in 1 .. Len(l) : l[i] \in Int
  OBVIOUS
<1>2. n \in S /\ \A k \in S : n >= k
  <2>1. S \in SUBSET (0 .. Len(l)) /\ 0 \in S
    BY <1>1
  <2>2. Max(S) \in S /\ \A k \in S : Max(S) >= k
    BY <1>1, <2>1, GreatestIs
  <2> QED
    BY <2>2 DEF DrainLength
<1>3. n \in 0 .. Len(l) /\ \A i \in 1 .. n : joins(i)
  BY <1>2
<1>4. \A i \in 1 .. n : l[i] = s + i
  <2> DEFINE Bad == {i \in 1 .. n : l[i] # s + i}
  <2> SUFFICES ASSUME Bad # {}  PROVE FALSE
    OBVIOUS
  <2> DEFINE i == Min(Bad)
  <2>1. i \in Bad /\ \A j \in Bad : i <= j
    <3>1. Bad \in SUBSET Nat
      BY <1>3
    <3> HIDE DEF Bad
    <3> QED
      BY <3>1, LeastIs
  <2> HIDE DEF i
  <2>2. i \in 1 .. Len(l) /\ i \in 1 .. n /\ l[i] # s + i /\ l[i] \in Int /\ joins(i)
    BY <1>1, <1>3, <2>1
  <2>3. CASE i = 1
    BY <1>1, <2>2, <2>3 DEF Sorted
  <2>4. CASE i # 1
    <3>1. i - 1 \in 1 .. n /\ i - 1 \in 1 .. Len(l) /\ i - 1 \in 1 .. i - 1 /\ i - 1 < i
      BY <1>1, <1>3, <2>2, <2>4
    <3>2. l[i - 1] = s + (i - 1)
      BY <2>1, <3>1
    <3>3. l[i - 1] < l[i]
      BY <1>1, <2>2, <3>1 DEF Sorted
    <3> QED
      BY <2>2, <2>4, <3>1, <3>2, <3>3
  <2> QED
    BY <2>3, <2>4
<1>5. ASSUME n < Len(l)  PROVE l[n + 1] > s + n + 1
  <2>1. n + 1 \in 0 .. Len(l) /\ n + 1 \in 1 .. Len(l) /\ n + 1 \notin S
    <3>1. n \in Nat /\ n + 1 \in 0 .. Len(l) /\ n + 1 \in 1 .. Len(l)
      BY <1>1, <1>3, <1>5
    <3> HIDE DEF S
    <3> QED
      BY <1>2, <3>1
  <2>2. \E i \in 1 .. n + 1 : ~joins(i)
    BY <2>1
  <2>3. ~joins(n + 1)
    BY <1>3, <2>1, <2>2
  <2>4. CASE n = 0
    BY <1>1, <2>1, <2>3, <2>4
  <2>5. CASE n # 0
    <3>1. n \in 1 .. n /\ n + 1 # 1 /\ (n + 1) - 1 = n
      BY <1>3, <2>5
    <3>2. l[n] = s + n
      BY <1>4, <3>1
    <3> QED
      BY <1>1, <1>3, <2>1, <2>3, <3>1, <3>2
  <2> QED
    BY <2>4, <2>5
<1> QED
  BY <1>3, <1>4, <1>5

\* The expected segment, and those that wait behind it, are appended to what has
\* been received; the rest of the list is still ahead.
LEMMA NextKeeps ==
  ASSUME SendInv, RecvInv, RecvNext, UNCHANGED sndVars
  PROVE  /\ RecvInv'
         /\ \/ rstate' # "up" /\ UNCHANGED <<rcv_buf, delivered, rcv_nxt>>
            \/ rcv_nxt' > rcv_nxt /\ UNCHANGED rstate
<1> DEFINE l == rcv_ofo_buf
           s == Head(dataq).seq
           n == DrainLength(s + 1)
           chunk == <<s>> \o SubSeq(l, 1, n)
           rest == SubSeq(l, n + 1, Len(l))
<1>1. /\ dataq # <<>> /\ s = rcv_nxt /\ dataq' = Tail(dataq)
      /\ UNCHANGED <<delivered, ackq>>
      /\ \/ rstate' = "abort" /\ UNCHANGED <<rcv_nxt, rcv_buf, rcv_ofo_buf>>
         \/ /\ rcv_buf' = rcv_buf \o chunk /\ rcv_ofo_buf' = rest
            /\ rcv_nxt' = chunk[n + 1] + 1 /\ UNCHANGED rstate
  BY DEF RecvNext, Arrives, Expected
<1>2. /\ s \in Nat \ {0} /\ s < snd_nxt /\ snd_nxt \in Nat
      /\ dataq' \in Seq(Segments(snd_nxt)) /\ ackq' \in Seq(UpTo(rcv_nxt))
  BY <1>1, FirstIs, SenderIs, BuffersAre
<1>3. UNCHANGED <<snd_nxt, snd_una, rack>>
  BY DEF sndVars
<1> HIDE DEF s
<1>4. CASE rstate' = "abort" /\ UNCHANGED <<rcv_nxt, rcv_buf, rcv_ofo_buf>>
  <2>1. RecvInv'
    BY <1>1, <1>2, <1>4, BuffersAre, LinkKept
  <2> QED
    BY <1>1, <1>4, <2>1
<1>5. CASE /\ rcv_buf' = rcv_buf \o chunk /\ rcv_ofo_buf' = rest
           /\ rcv_nxt' = chunk[n + 1] + 1 /\ UNCHANGED rstate
  <2>1. l \in Seq(Int) /\ Len(l) \in Nat /\ DOMAIN l = 1 .. Len(l)
        /\ Sorted(l, s, snd_nxt)
    BY <1>1, BuffersAre DEF RecvInv
  <2>2. /\ n \in 0 .. Len(l) /\ \A i \in 1 .. n : l[i] = s + i
        /\ n < Len(l) => l[n + 1] > s + n + 1
    <3>1. s \in Int /\ l = rcv_ofo_buf
      BY <1>2
    <3> HIDE DEF n, l
    <3>2. n = DrainLength(s + 1)
      BY DEF n
    <3> QED
      BY <2>1, <3>1, <3>2, DrainIs
  <2> HIDE DEF n
  <2>3. chunk = [i \in 1 .. n + 1 |-> s + i - 1]
    <3> DEFINE t == SubSeq(l, 1, n)
    <3>1. /\ t \in Seq(Int) /\ Len(t) = n /\ \A i \in 1 .. n : t[i] = s + i
      BY <2>1, <2>2
    <3>2. <<s>> \in Seq(Int) /\ Len(<<s>>) = 1 /\ <<s>>[1] = s
      BY <1>2
    <3> HIDE DEF t
    <3>3. /\ <<s>> \o t \in Seq(Int) /\ Len(<<s>> \o t) = 1 + n
          /\ \A i \in 1 .. 1 + n : (<<s>> \o t)[i] = IF i <= 1 THEN <<s>>[i] ELSE t[i - 1]
      BY <3>1, <3>2, ConcatProperties
    <3> DEFINE u == [i \in 1 .. n + 1 |-> s + i - 1]
    <3>4. u \in Seq(Int) /\ Len(u) = n + 1 /\ \A i \in 1 .. n + 1 : u[i] = s + i - 1
      BY <1>2, <2>2
    <3> DEFINE v == <<s>> \o t
    <3>5. ASSUME NEW i \in 1 .. n + 1  PROVE v[i] = u[i]
      <4>1. CASE i = 1
        BY <1>2, <2>2, <3>2, <3>3, <3>4, <4>1
      <4>2. CASE i # 1
        <5>1. i - 1 \in 1 .. n /\ ~(i <= 1)
          BY <2>2, <4>2
        <5>2. v[i] = s + (i - 1)
          BY <2>2, <3>1, <3>3, <5>1
        <5> QED
          BY <1>2, <2>2, <3>4, <5>1, <5>2
      <4> QED
        BY <4>1, <4>2
    <3>6. v \in Seq(Int) /\ Len(v) = n + 1
      BY <2>2, <3>3
    <3> HIDE DEF u, v
    <3>7. v = u
      BY <3>4, <3>5, <3>6, SeqEqual
    <3> QED
      BY <3>7 DEF u, v, t
  <2> HIDE DEF chunk
  <2>4. rcv_nxt' = s + n + 1 /\ rcv_nxt' \in Nat \ {0} /\ rcv_nxt' > rcv_nxt
    <3>1. chunk[n + 1] = s + n
      BY <1>2, <2>2, <2>3
    <3> QED
      BY <1>1, <1>2, <1>5, <2>1, <2>2, <3>1
  <2>5. rcv_nxt' <= snd_nxt
    <3>1. CASE n = 0
      BY <1>2, <2>4, <3>1
    <3>2. CASE n # 0
      <4>1. n \in 1 .. n /\ n \in DOMAIN l
        BY <2>1, <2>2, <3>2
      <4>2. l[n] = s + n /\ l[n] < snd_nxt
        BY <2>1, <2>2, <4>1 DEF Sorted
      <4> QED
        BY <1>2, <2>2, <2>4, <4>2
    <3> QED
      BY <3>1, <3>2
  <2>6. /\ rest \in Seq(Int) /\ DOMAIN rest = 1 .. Len(l) - n
        /\ \A i \in 1 .. Len(l) - n : rest[i] = l[n + i]
    BY <2>1, <2>2
  <2> HIDE DEF rest
  <2>7. Sorted(rest, rcv_nxt', snd_nxt)
    <3> SUFFICES ASSUME NEW i \in 1 .. Len(l) - n
                 PROVE  /\ rcv_nxt' < rest[i] /\ rest[i] < snd_nxt
                        /\ \A j \in 1 .. i - 1 : rest[j] < rest[i]
      BY <2>6 DEF Sorted
    <3>1. n + i \in DOMAIN l /\ n + 1 \in DOMAIN l /\ n < Len(l)
      BY <2>1, <2>2
    <3>2. rest[i] = l[n + i] /\ l[n + i] < snd_nxt /\ l[n + i] \in Int /\ l[n + 1] \in Int
      BY <2>1, <2>6, <3>1 DEF Sorted
    <3>3. l[n + 1] <= l[n + i]
      <4>1. CASE i = 1
        BY <3>2, <4>1
      <4>2. CASE i # 1
        <5>1. n + 1 \in 1 .. (n + i) - 1
          BY <2>1, <2>2, <4>2
        <5> QED
          BY <2>1, <3>1, <3>2, <5>1 DEF Sorted
      <4> QED
        BY <4>1, <4>2
    <3>4. rcv_nxt' < rest[i]
      BY <1>2, <2>2, <2>4, <3>1, <3>2, <3>3
    <3>5. ASSUME NEW j \in 1 .. i - 1  PROVE rest[j] < rest[i]
      <4>1. j \in 1 .. Len(l) - n /\ n + j \in 1 .. (n + i) - 1
        BY <2>1, <2>2
      <4> QED
        BY <2>1, <2>6, <3>1, <3>2, <4>1 DEF Sorted
    <3> QED
      BY <3>2, <3>4, <3>5
  <2>8. rcv_buf' \in Seq(Int)
    <3>1. chunk \in Seq(Int)
      BY <1>2, <2>2, <2>3
    <3> QED
      BY <1>5, <3>1, BuffersAre, ConcatProperties
  <2>9. InOrder'
    <3> DEFINE had == delivered \o rcv_buf
    <3>1. had = [i \in 1 .. s - 1 |-> i]
      BY <1>1 DEF RecvInv, InOrder
    <3>2. chunk \in Seq(Int) /\ Len(chunk) = n + 1
      BY <1>2, <2>2, <2>3
    <3>3. had \in Seq(Int) /\ Len(had) = s - 1
      BY <1>2, <3>1
    <3>4. delivered' \o rcv_buf' = had \o chunk
      <4>0. delivered \in Seq(Int) /\ rcv_buf \in Seq(Int) /\ chunk \in Seq(Int)
        BY <3>2, BuffersAre
      <4>1. (delivered \o rcv_buf) \o chunk = delivered \o (rcv_buf \o chunk)
        BY <4>0, ConcatAssociative
      <4> QED
        BY <1>1, <1>5, <4>1
    <3> HIDE DEF had
    <3> DEFINE all == had \o chunk
               ident == [i \in 1 .. rcv_nxt' - 1 |-> i]
    <3>5. /\ all \in Seq(Int) /\ Len(all) = (s - 1) + (n + 1)
          /\ \A i \in 1 .. (s - 1) + (n + 1) :
               all[i] = IF i <= s - 1 THEN had[i] ELSE chunk[i - (s - 1)]
      <4>1. /\ all \in Seq(Int) /\ Len(all) = Len(had) + Len(chunk)
            /\ \A i \in 1 .. Len(had) + Len(chunk) :
                 all[i] = IF i <= Len(had) THEN had[i] ELSE chunk[i - Len(had)]
        <5>1. had \in Seq(Int) /\ chunk \in Seq(Int)
          BY <3>2, <3>3
        <5> QED
          BY <5>1, ConcatProperties
      <4> HIDE DEF all
      <4> QED
        BY <3>2, <3>3, <4>1
    <3>6. ident \in Seq(Int) /\ Len(ident) = s + n /\ \A i \in 1 .. s + n : ident[i] = i
      BY <1>2, <2>2, <2>4
    <3> HIDE DEF all, ident
    <3>7. ASSUME NEW i \in 1 .. s + n  PROVE all[i] = ident[i]
      <4>0. i \in 1 .. (s - 1) + (n + 1)
        BY <1>2, <2>2
      <4>1. CASE i <= s - 1
        <5>1. i \in 1 .. s - 1
          BY <1>2, <2>2, <4>1
        <5>2. had[i] = i
          BY <3>1, <5>1
        <5> QED
          BY <3>5, <3>6, <4>0, <4>1, <5>2
      <4>2. CASE ~(i <= s - 1)
        <5>1. i - (s - 1) \in 1 .. n + 1 /\ s + (i - (s - 1)) - 1 = i
          BY <1>2, <2>2, <4>2
        <5>2. chunk[i - (s - 1)] = i
          BY <2>3, <5>1
        <5> QED
          BY <3>5, <3>6, <4>0, <4>2, <5>2
      <4> QED
        BY <4>1, <4>2
    <3>8. Len(all) = s + n /\ Len(ident) = s + n
      BY <1>2, <2>2, <3>5, <3>6
    <3>9. all = ident
      BY <3>5, <3>6, <3>7, <3>8, SeqEqual
    <3> QED
      BY <3>4, <3>9 DEF InOrder, all, ident
  <2>10. RecvType'
    BY <1>1, <1>5, <2>4, <2>6, <2>8, BuffersAre DEF RecvType
  <2>11. InFlight'
    <3>1. Seq(UpTo(rcv_nxt)) \subseteq Seq(UpTo(rcv_nxt'))
      BY <1>1, <1>2, <2>4, Grow
    <3>2. rack \in UpTo(rcv_nxt') /\ snd_una <= rcv_nxt'
      BY <2>4, SenderIs DEF UpTo
    <3> QED
      BY <1>2, <1>3, <2>5, <3>1, <3>2 DEF InFlight
  <2> QED
    BY <1>3, <1>5, <2>4, <2>7, <2>9, <2>10, <2>11 DEF RecvInv
<1> QED
  BY <1>1, <1>4, <1>5

\* The nodes walked past are below s, the others, if s is new, above it.
LEMMA BelowIs ==
  ASSUME NEW l \in Seq(Int), l = rcv_ofo_buf, NEW s \in Int, NEW a, NEW b, Sorted(l, a, b),
         s \notin ToSet(l), NEW k, k = Below(s)
  PROVE  /\ k \in 0 .. Len(l)
         /\ \A i \in 1 .. k : l[i] < s
         /\ \A i \in k + 1 .. Len(l) : s < l[i]
<1> DEFINE S == {n \in 0 .. Len(l) : \A i \in 1 .. n : l[i] < s}
<1>1. /\ Len(l) \in Nat /\ DOMAIN l = 1 .. Len(l)
      /\ \A i \in 1 .. Len(l) : l[i] \in Int /\ l[i] # s
  BY DEF ToSet
<1>2. k \in S /\ \A n \in S : k >= n
  <2>1. S \in SUBSET (0 .. Len(l)) /\ 0 \in S
    BY <1>1
  <2>2. Max(S) \in S /\ \A n \in S : Max(S) >= n
    BY <1>1, <2>1, GreatestIs
  <2> QED
    BY <2>2 DEF Below
<1>3. k \in 0 .. Len(l) /\ \A i \in 1 .. k : l[i] < s
  BY <1>2
<1>4. ASSUME k < Len(l)  PROVE s < l[k + 1]
  <2>1. k \in Nat /\ k + 1 \in 0 .. Len(l) /\ k + 1 \in 1 .. Len(l)
    BY <1>1, <1>3, <1>4
  <2>2. k + 1 \notin S
    <3> HIDE DEF S
    <3> QED
      BY <1>2, <2>1
  <2>3. \E i \in 1 .. k + 1 : ~(l[i] < s)
    BY <2>1, <2>2
  <2>4. ~(l[k + 1] < s)
    BY <1>3, <2>1, <2>3
  <2> QED
    BY <1>1, <2>1, <2>4
<1>5. ASSUME NEW i \in k + 1 .. Len(l)  PROVE s < l[i]
  <2>1. /\ k < Len(l) /\ i \in 1 .. Len(l) /\ k + 1 \in 1 .. Len(l)
        /\ i = k + 1 \/ k + 1 \in 1 .. i - 1
    BY <1>1, <1>3
  <2>2. l[k + 1] <= l[i]
    <3>1. CASE i = k + 1
      BY <1>1, <2>1, <3>1
    <3>2. CASE k + 1 \in 1 .. i - 1
      <4>1. l[k + 1] < l[i]
        BY <1>1, <2>1, <3>2 DEF Sorted
      <4> QED
        BY <1>1, <2>1, <4>1
    <3> QED
      BY <2>1, <3>1, <3>2
  <2> QED
    BY <1>1, <1>4, <2>1, <2>2
<1> QED
  BY <1>3, <1>5

\* An early segment is put in its place, or is lost to the list.
LEMMA AheadKeeps ==
  ASSUME SendInv, RecvInv, RecvAhead, UNCHANGED sndVars
  PROVE  /\ RecvInv' /\ UNCHANGED <<rcv_buf, delivered, rstate>>
<1> DEFINE l == rcv_ofo_buf
           s == Head(dataq).seq
           k == Below(s)
           t == InsertAt(l, k + 1, s)
<1>1. /\ dataq # <<>> /\ s > rcv_nxt /\ dataq' = Tail(dataq)
      /\ UNCHANGED <<rcv_nxt, rcv_buf, delivered, ackq, rstate>>
      /\ \/ UNCHANGED rcv_ofo_buf
         \/ s \notin ToSet(l) /\ rcv_ofo_buf' = t
  BY DEF RecvAhead, Arrives
<1>2. /\ s \in Int /\ s < snd_nxt /\ snd_nxt \in Nat /\ rcv_nxt \in Nat
      /\ dataq' \in Seq(Segments(snd_nxt)) /\ ackq' \in Seq(UpTo(rcv_nxt))
  BY <1>1, FirstIs, SenderIs
<1> HIDE DEF s
<1>3. CASE UNCHANGED rcv_ofo_buf
  BY <1>1, <1>2, <1>3, BuffersAre, LinkKept
<1>4. CASE s \notin ToSet(l) /\ rcv_ofo_buf' = t
  <2>1. l \in Seq(Int) /\ Len(l) \in Nat /\ DOMAIN l = 1 .. Len(l)
        /\ Sorted(l, rcv_nxt, snd_nxt) /\ \A i \in 1 .. Len(l) : l[i] \in Int
    BY BuffersAre DEF RecvInv
  <2>2. /\ k \in 0 .. Len(l) /\ \A i \in 1 .. k : l[i] < s
        /\ \A i \in k + 1 .. Len(l) : s < l[i]
    <3>1. s \in Int /\ l = rcv_ofo_buf /\ s \notin ToSet(l)
      BY <1>2, <1>4
    <3> HIDE DEF k, l
    <3>2. k = Below(s)
      BY DEF k
    <3> QED
      BY <2>1, <3>1, <3>2, BelowIs
  <2> HIDE DEF k
  <2>3. /\ t \in Seq(Int) /\ Len(t) = Len(l) + 1
        /\ \A i \in 1 .. Len(l) + 1 :
             t[i] = IF i <= k THEN l[i] ELSE IF i = k + 1 THEN s ELSE l[i - 1]
    BY <1>2, <2>1, <2>2, InsertIs
  <2> HIDE DEF t
  <2>4. DOMAIN t = 1 .. Len(l) + 1
    BY <2>3
  <2>5. Sorted(t, rcv_nxt, snd_nxt)
    <3> SUFFICES ASSUME NEW i \in 1 .. Len(l) + 1
                 PROVE  /\ rcv_nxt < t[i] /\ t[i] < snd_nxt
                        /\ \A j \in 1 .. i - 1 : t[j] < t[i]
      BY <2>4 DEF Sorted
    <3> DEFINE Old(m) == IF m <= k THEN m ELSE m - 1
    <3>1. ASSUME NEW m \in 1 .. Len(l) + 1, m # k + 1
          PROVE  Old(m) \in 1 .. Len(l) /\ t[m] = l[Old(m)]
      BY <2>1, <2>2, <2>3, <3>1
    <3>2. rcv_nxt < t[i] /\ t[i] < snd_nxt
      <4>1. CASE i = k + 1
        <5>1. ~(i <= k)
          BY <2>2, <4>1
        <5>2. t[i] = s
          BY <2>3, <4>1, <5>1
        <5> QED
          BY <1>1, <1>2, <5>2
      <4>2. CASE i # k + 1
        <5>1. Old(i) \in DOMAIN l /\ t[i] = l[Old(i)]
          BY <2>1, <3>1, <4>2
        <5> HIDE DEF Old
        <5> QED
          BY <2>1, <5>1 DEF Sorted
      <4> QED
        BY <4>1, <4>2
    <3>3. ASSUME NEW j \in 1 .. i - 1  PROVE t[j] < t[i]
      <4>0. j \in 1 .. Len(l) + 1 /\ j < i /\ k \in Nat
        BY <2>1, <2>2
      <4>1. CASE i = k + 1
        <5>1. j \in 1 .. k /\ j <= k /\ ~(i <= k)
          BY <2>2, <4>0, <4>1
        <5> QED
          BY <2>2, <2>3, <4>0, <4>1, <5>1
      <4>2. CASE j = k + 1
        <5>1. i - 1 \in k + 1 .. Len(l) /\ ~(i <= k) /\ i # k + 1 /\ ~(j <= k)
          BY <2>1, <2>2, <4>0, <4>2
        <5> QED
          BY <2>2, <2>3, <4>0, <4>2, <5>1
      <4>3. CASE i # k + 1 /\ j # k + 1
        <5>1. Old(j) \in 1 .. Old(i) - 1
          BY <2>1, <2>2, <4>0, <4>3
        <5>2. Old(i) \in 1 .. Len(l) /\ t[i] = l[Old(i)] /\ t[j] = l[Old(j)]
          BY <3>1, <4>0, <4>3
        <5> QED
          BY <2>1, <5>1, <5>2 DEF Sorted
      <4> QED
        BY <4>1, <4>2, <4>3
    <3> QED
      BY <3>2, <3>3
  <2>6. UNCHANGED <<snd_nxt, snd_una, rack>>
    BY DEF sndVars
  <2>7. RecvType' /\ InOrder'
    BY <1>1, <1>4, <2>3 DEF RecvInv, RecvType, InOrder
  <2>8. InFlight'
    BY <1>1, <1>2, <2>6 DEF RecvInv, InFlight
  <2> QED
    BY <1>1, <1>4, <2>5, <2>6, <2>7, <2>8 DEF RecvInv
<1> QED
  BY <1>1, <1>3, <1>4

\* The other steps of the receiving thread leave all that has been received alone.
LEMMA ReceiveKeeps ==
  ASSUME SendInv, RecvInv, Receive, UNCHANGED sndVars
  PROVE  /\ RecvInv'
         /\ \/ rstate' # "up" /\ UNCHANGED <<rcv_buf, delivered, rcv_nxt>>
            \/ rcv_nxt' > rcv_nxt /\ UNCHANGED rstate
            \/ UNCHANGED <<rcv_buf, delivered, rstate>>
<1>1. CASE RecvRst
  <2>1. dataq # <<>> /\ Head(dataq).kind = "RST"
    BY <1>1 DEF RecvRst, Arrives
  <2>2. Head(dataq).kind = "PSH"
    BY <2>1, FirstIs
  <2> QED
    BY <2>1, <2>2
<1>2. CASE RecvOld
  <2>1. /\ dataq # <<>> /\ dataq' = Tail(dataq) /\ ackq' = Put(ackq, <<rcv_nxt>>)
        /\ UNCHANGED <<rcv_nxt, rcv_buf, rcv_ofo_buf, delivered, rstate>>
    BY <1>2 DEF RecvOld, Arrives, rcvVars
  <2>2. RecvInv'
    BY <2>1, FirstIs, AckIs, BuffersAre, LinkKept
  <2> QED
    BY <2>1, <2>2
<1>3. CASE RecvDangling
  <2>1. /\ dataq # <<>> /\ dataq' = Tail(dataq) /\ rstate' = "segfault"
        /\ UNCHANGED <<rcv_nxt, rcv_buf, rcv_ofo_buf, delivered, ackq>>
    BY <1>3 DEF RecvDangling, Arrives
  <2>2. RecvInv'
    BY <2>1, FirstIs, SenderIs, BuffersAre, LinkKept
  <2> QED
    BY <2>1, <2>2
<1>4. CASE WakeAndAck
  <2>1. /\ ackq' = Put(ackq, <<rcv_nxt>>)
        /\ UNCHANGED <<rcv_nxt, rcv_buf, rcv_ofo_buf, delivered, dataq, rstate>>
    BY <1>4 DEF WakeAndAck
  <2>2. RecvInv'
    BY <2>1, SenderIs, AckIs, BuffersAre, LinkKept
  <2> QED
    BY <2>1, <2>2
<1> QED
  BY <1>1, <1>2, <1>3, <1>4, NextKeeps, AheadKeeps DEF Receive

LEMMA LossKeeps ==
  ASSUME SendInv, RecvInv, LoseData \/ LoseAck, UNCHANGED <<sndVars, rcvVars>>
  PROVE  RecvInv'
<1>1. dataq' \in Seq(Segments(snd_nxt)) /\ ackq' \in Seq(UpTo(rcv_nxt))
  BY SenderIs, HeadIs DEF LoseData, LoseAck
<1>2. UNCHANGED <<rcv_nxt, rcv_buf, rcv_ofo_buf, delivered>>
  BY DEF rcvVars
<1> QED
  BY <1>1, <1>2, BuffersAre, LinkKept

-----------------------------------------------------------------------------
(* The invariant *)

LEMMA StreamInit == Init => StreamInv
<1> SUFFICES ASSUME Init  PROVE StreamInv
  OBVIOUS
<1>1. /\ rcv_nxt = 1 /\ rcv_buf = <<>> /\ delivered = <<>> /\ rcv_ofo_buf = <<>>
      /\ snd_nxt = 1 /\ snd_una = 1 /\ rack = 0 /\ dataq = <<>> /\ ackq = <<>>
  BY DEF Init, SendInit, RecvInit, LinkInit
<1>2. \A S : <<>> \in Seq(S)
  OBVIOUS
<1>3. RecvType
  BY <1>1, <1>2 DEF RecvType
<1>4. InFlight
  BY <1>1, <1>2 DEF InFlight, UpTo
<1>5. InOrder
  <2>1. <<>> \o <<>> = <<>> /\ [i \in 1 .. 0 |-> i] = <<>>
    OBVIOUS
  <2> QED
    BY <1>1, <2>1 DEF InOrder
<1>6. Sorted(rcv_ofo_buf, rcv_nxt, snd_nxt)
  <2>1. DOMAIN <<>> = {}
    OBVIOUS
  <2> QED
    BY <1>1, <2>1 DEF Sorted
<1> QED
  BY <1>3, <1>4, <1>5, <1>6, SendInitStep DEF StreamInv, RecvInv

\* What neither thread that uses the socket changes; what only one changes.
LEMMA AcksAlter ==
  ASSUME Acks
  PROVE  UNCHANGED <<state, snd_nxt, wpc>>
BY DEF Acks, AckForNobody, TakeAck, DupAck, EnterRecovery, HalveThreshold, SetRecoveryPoint,
       FindFirst, ResendFirst, ShrinkWindow, NewAck, LookAcked, DeleteAcked, UncountAcked,
       IncCwnd, LeaveLoop, SwitchOnState, EndRecovery, GoOnRecovering, Reopen, UpdateWindow,
       FinishAck, notAcks, notCongestion, sndVars

LEMMA WriterAlters ==
  ASSUME Writer \/ WriterSpurious
  PROVE  /\ UNCHANGED notWriter /\ UNCHANGED state
         /\ UNCHANGED snd_nxt \/ snd_nxt' = snd_nxt + 1
BY DEF Writer, WriterSpurious, NumberSegment, InsertSegment, TransmitSegment, CheckCount,
       WriterSleeps, WriterResumes, WriterWakes, notWriter

\* A socket that the sender has closed stays closed, and only a scan closes it.
LEMMA StateIs ==
  ASSUME SendNext
  PROVE  UNCHANGED state \/ (TimerScan /\ state # "CLOSED")
BY AcksAlter, WriterAlters DEF SendNext, TimerScan

LEMMA StreamNext == StreamInv /\ [Next]_vars => StreamInv'
<1> SUFFICES ASSUME StreamInv, [Next]_vars  PROVE StreamInv'
  OBVIOUS
<1>1. SendInv /\ SendInv'
  BY NextStep DEF StreamInv
<1> SUFFICES ASSUME state' = "ESTABLISHED"  PROVE RecvInv'
  BY <1>1 DEF StreamInv
<1>2. state = "ESTABLISHED"
  <2>1. state \in {"ESTABLISHED", "CLOSED"}
    BY <1>1 DEF SendInv, SendType
  <2>2. UNCHANGED state \/ state # "CLOSED"
    BY StateIs DEF Next, vars, sndVars
  <2> QED
    BY <2>1, <2>2
<1>3. RecvInv
  BY <1>2 DEF StreamInv
<1>4. CASE SendNext /\ UNCHANGED rcvVars
  BY <1>1, <1>2, <1>3, <1>4, WriterKeeps, AcksKeep, TimerKeeps DEF SendNext
<1>5. CASE (Receive \/ Reader \/ ReaderSpurious) /\ UNCHANGED sndVars
  BY <1>1, <1>3, <1>5, ReceiveKeeps, ReaderKeeps
<1>6. CASE (LoseData \/ LoseAck) /\ UNCHANGED <<sndVars, rcvVars>>
  BY <1>1, <1>3, <1>6, LossKeeps
<1>7. CASE UNCHANGED vars
  <2>1. UNCHANGED <<sndVars, rcv_nxt, rcv_buf, rcv_ofo_buf, delivered, dataq, ackq>>
    BY <1>7 DEF vars, rcvVars, link
  <2> QED
    BY <1>1, <1>3, <2>1, SenderIs, BuffersAre, LinkKept
<1> QED
  BY <1>4, <1>5, <1>6, <1>7 DEF Next

-----------------------------------------------------------------------------
(* The refinement *)

LEMMA StreamStart == Init => Stream!Init
<1> SUFFICES ASSUME Init  PROVE Stream!Init
  OBVIOUS
<1>1. /\ snd_nxt = 1 /\ delivered = <<>> /\ rcv_buf = <<>>
      /\ state = "ESTABLISHED" /\ sstate = "up" /\ rstate = "up"
  BY DEF Init, SendInit, RecvInit
<1>2. <<>> \o <<>> = <<>>
  OBVIOUS
<1>3. ~Intact = FALSE
  BY <1>1 DEF Intact
<1> QED
  BY <1>1, <1>2, <1>3 DEF Stream!Init

\* What has failed stays so.
LEMMA FailedStays ==
  ASSUME SendInv, [Next]_vars, ~Intact
  PROVE  ~Intact'
<1>1. CASE state # "ESTABLISHED"
  <2>1. state = "CLOSED"
    BY <1>1 DEF SendInv, SendType
  <2>2. UNCHANGED state
    BY <2>1, StateIs DEF Next, vars, sndVars
  <2> QED
    BY <2>1, <2>2 DEF Intact
<1>2. CASE rstate # "up"
  <2>1. UNCHANGED rstate
    BY <1>2 DEF Next, vars, rcvVars, Receive, RecvRst, RecvOld, RecvDangling, RecvNext,
                RecvAhead, WakeAndAck, Arrives, Reader, ReaderSpurious, ReadEmpty,
                ReadSegments, ReaderSleeps, ReaderResumes, ReaderWakes
  <2> QED
    BY <1>2, <2>1 DEF Intact
<1>3. CASE sstate # "up"
  <2>1. UNCHANGED sstate
    BY <1>3 DEF Next, vars, sndVars, SendNext, Writer, WriterSpurious, Acks, TimerScan
  <2> QED
    BY <1>3, <2>1 DEF Intact
<1> QED
  BY <1>1, <1>2, <1>3 DEF Intact

\* The five ways in which a step of the two hosts is one of the stream.
LEMMA StreamStep ==
  ASSUME StreamInv, StreamInv', [Next]_vars
  PROVE  [Stream!Next]_Stream!vars
<1> DEFINE read == delivered \o rcv_buf
<1>1. SendInv /\ SendInv' /\ snd_nxt \in Nat
  BY DEF StreamInv, SendInv, SendType
<1>2. CASE ~Intact
  <2>1. ~Intact /\ ~Intact'
    BY <1>1, <1>2, FailedStays
  <2>2. Stream!Anything
    BY <2>1 DEF Stream!Anything
  <2> QED
    BY <2>2 DEF Stream!Next
<1>3. ASSUME Intact, UNCHANGED <<snd_nxt, state, sstate, rstate>>, read' = read
      PROVE  UNCHANGED Stream!vars
  <2>1. Intact' = Intact
    BY <1>3 DEF Intact
  <2> QED
    BY <1>3, <2>1 DEF Stream!vars
<1>4. ASSUME Intact, ~Intact', UNCHANGED snd_nxt, read' = read
      PROVE  Stream!Next
  <2>1. Stream!Fail
    BY <1>4 DEF Stream!Fail
  <2> QED
    BY <2>1 DEF Stream!Next
<1>5. ASSUME Intact, SendNext, UNCHANGED rcvVars
      PROVE  [Stream!Next]_Stream!vars
  <2>1. UNCHANGED rstate /\ read' = read
    BY <1>5 DEF rcvVars
  <2>2. CASE snd_nxt' = snd_nxt + 1 /\ (Writer \/ WriterSpurious)
    <3>1. UNCHANGED <<state, sstate>>
      BY <2>2, WriterAlters DEF notWriter
    <3>2. Intact' = Intact
      BY <2>1, <3>1 DEF Intact
    <3>3. (snd_nxt - 1)' = (snd_nxt - 1) + 1
      BY <1>1, <2>2
    <3>4. Stream!Write
      BY <2>1, <3>2, <3>3 DEF Stream!Write
    <3> QED
      BY <3>4 DEF Stream!Next
  <2>3. CASE UNCHANGED snd_nxt
    <3>1. CASE Intact'
      <4>1. UNCHANGED <<state, sstate>>
        BY <1>5, <3>1 DEF Intact
      <4> QED
        BY <1>3, <1>5, <2>1, <2>3, <4>1
    <3>2. CASE ~Intact'
      BY <1>4, <1>5, <2>1, <2>3, <3>2
    <3> QED
      BY <3>1, <3>2
  <2>4. \/ UNCHANGED snd_nxt
        \/ snd_nxt' = snd_nxt + 1 /\ (Writer \/ WriterSpurious)
    BY <1>5, WriterAlters, AcksAlter DEF SendNext, TimerScan
  <2> QED
    BY <2>2, <2>3, <2>4
<1>6. ASSUME Intact, Receive, UNCHANGED sndVars
      PROVE  [Stream!Next]_Stream!vars
  <2>1. UNCHANGED <<snd_nxt, state, sstate>>
    BY <1>6 DEF sndVars
  <2>2. RecvInv /\ RecvInv'
    BY <1>6, <2>1 DEF StreamInv, Intact
  <2>3. CASE rstate' # "up" /\ UNCHANGED <<rcv_buf, delivered, rcv_nxt>>
    <3>1. ~Intact'
      BY <2>3 DEF Intact
    <3> QED
      BY <1>4, <1>6, <2>1, <2>3, <3>1
  <2>4. CASE UNCHANGED <<rcv_buf, delivered, rstate>>
    BY <1>3, <1>6, <2>1, <2>4
  <2>5. CASE rcv_nxt' > rcv_nxt /\ UNCHANGED rstate
    <3>1. /\ read = [i \in 1 .. rcv_nxt - 1 |-> i]
          /\ read' = [i \in 1 .. rcv_nxt' - 1 |-> i]
      BY <2>2 DEF RecvInv, RecvType, InFlight, InOrder
    <3>2. rcv_nxt \in Nat \ {0} /\ rcv_nxt' \in Nat \ {0} /\ rcv_nxt' <= snd_nxt
      BY <2>1, <2>2 DEF RecvInv, RecvType, InFlight, InOrder
    <3>3. snd_nxt \in Int
      BY <1>1
    <3> HIDE DEF read
    <3>4. Len(read) = rcv_nxt - 1
      BY <3>1, <3>2
    <3>5. rcv_nxt' > rcv_nxt
      BY <2>5
    <3>6. rcv_nxt' - 1 \in Len(read) + 1 .. snd_nxt - 1
      <4>1. rcv_nxt' - 1 \in Int /\ Len(read) + 1 = rcv_nxt
        BY <3>4, <3>2
      <4>2. \A a, b, c \in Int : a > b /\ a <= c => a - 1 \in b .. c - 1
        OBVIOUS
      <4>3. rcv_nxt' \in Int /\ rcv_nxt \in Int
        BY <3>2
      <4>4. rcv_nxt' - 1 \in rcv_nxt .. snd_nxt - 1
        BY <3>2, <3>3, <3>5, <4>2, <4>3
      <4> QED
        BY <4>1, <4>4
    <3>7. \E n \in Len(read) + 1 .. snd_nxt - 1 : read' = [i \in 1 .. n |-> i]
      BY <3>1, <3>6
    <3>8. Intact' = Intact
      BY <2>1, <2>5 DEF Intact
    <3>9. Stream!Read
      BY <1>6, <2>1, <3>7, <3>8 DEF Stream!Read, read
    <3> QED
      BY <3>9 DEF Stream!Next
  <2> QED
    BY <1>1, <1>6, <2>2, <2>3, <2>4, <2>5, ReceiveKeeps
<1>7. ASSUME Intact, Reader \/ ReaderSpurious, UNCHANGED sndVars
      PROVE  UNCHANGED Stream!vars
  <2>1. UNCHANGED <<snd_nxt, state, sstate>>
    BY <1>7 DEF sndVars
  <2>2. RecvInv
    BY <1>7 DEF StreamInv, Intact
  <2>3. read' = read
    BY <1>1, <1>7, <2>2, ReaderKeeps
  <2>4. UNCHANGED rstate
    BY <1>7 DEF Reader, ReaderSpurious, ReadEmpty, ReadSegments, ReaderSleeps, ReaderResumes,
                ReaderWakes
  <2> QED
    BY <1>3, <1>7, <2>1, <2>3, <2>4
<1>8. ASSUME Intact, UNCHANGED <<sndVars, rcvVars>>
      PROVE  UNCHANGED Stream!vars
  <2>1. UNCHANGED <<snd_nxt, state, sstate, rstate>> /\ read' = read
    BY <1>8 DEF sndVars, rcvVars
  <2> QED
    BY <1>3, <1>8, <2>1
<1>9. CASE Intact
  <2>1. CASE SendNext /\ UNCHANGED rcvVars
    BY <1>5, <1>9, <2>1
  <2>2. CASE Receive /\ UNCHANGED sndVars
    BY <1>6, <1>9, <2>2
  <2>3. CASE (Reader \/ ReaderSpurious) /\ UNCHANGED sndVars
    BY <1>7, <1>9, <2>3
  <2>4. CASE UNCHANGED <<sndVars, rcvVars>>
    BY <1>8, <1>9, <2>4
  <2>5. vars' = vars => UNCHANGED <<sndVars, rcvVars>>
    BY DEF vars
  <2>6. Next => \/ SendNext /\ UNCHANGED rcvVars
                \/ Receive /\ UNCHANGED sndVars
                \/ (Reader \/ ReaderSpurious) /\ UNCHANGED sndVars
                \/ UNCHANGED <<sndVars, rcvVars>>
    BY DEF Next
  <2> QED
    BY <2>1, <2>2, <2>3, <2>4, <2>5, <2>6
<1> QED
  BY <1>2, <1>9

-----------------------------------------------------------------------------
\* The inductive invariant behind the three results below: what the four threads
\* of the two hosts leave of one another's lists, numbers and packets.
THEOREM InvariantHolds == Spec => []StreamInv
  BY StreamInit, StreamNext, PTL DEF Spec

\* tcp_sock_write, tcp_process, tcp_scan_timer_list and tcp_sock_read together, over
\* a link that loses what it likes: the receiver is given what was written, in
\* order, until the connection fails.
THEOREM StreamImplemented == Spec => StreamSpec
<1>1. Init => Stream!Init
  BY StreamStart
<1>2. StreamInv /\ StreamInv' /\ [Next]_vars => [Stream!Next]_Stream!vars
  BY StreamStep
<1> QED
  BY <1>1, <1>2, InvariantHolds, PTL DEF Spec, StreamSpec, Stream!Spec

\* PopSendBuf frees no segment that the receiver does not have: what is not
\* acknowledged can be sent again.
THEOREM UnackedIsKept == Spec => []UnackedKept
<1>1. StreamInv => UnackedKept
  BY DEF StreamInv, SendInv, Contiguous, RecvInv, InFlight, UnackedKept, Intact
<1> QED
  BY <1>1, InvariantHolds, PTL

\* The list of WriteOfoBuf stays sorted, without repetition, and above rcv_nxt,
\* although it loses the segments that belong before its first.
THEOREM OfoIsSorted == Spec => []OfoSorted
<1>1. StreamInv => OfoSorted
  <2> SUFFICES ASSUME StreamInv, Intact, NEW i \in DOMAIN rcv_ofo_buf
               PROVE  /\ rcv_ofo_buf[i] > rcv_nxt
                      /\ \A j \in 1 .. i - 1 : rcv_ofo_buf[j] < rcv_ofo_buf[i]
    BY DEF OfoSorted
  <2>1. RecvInv
    BY DEF StreamInv, Intact
  <2>2. rcv_ofo_buf[i] \in Int /\ rcv_nxt \in Int
    BY <2>1, BuffersAre
  <2> QED
    BY <2>1, <2>2 DEF RecvInv, Sorted
<1> QED
  BY <1>1, InvariantHolds, PTL

-----------------------------------------------------------------------------
(* Types *)

Packets == [kind : {"PSH"}, seq : Segs] \cup [kind : {"RST"}, seq : Seqs]

NumbersType ==
  /\ snd_una \in Seqs /\ snd_nxt \in Seqs
  /\ wpc \in {"write", "numbered", "pushed", "check", "presleep", "asleep"}
  /\ wpc \in {"numbered", "pushed"} => snd_nxt # 1
  /\ rpc = "uncount" => snd_una # 1
  /\ rpc \in {"idle", "got", "enter", "halve", "point", "first", "resend", "shrink", "look",
              "delete", "uncount", "inc", "switch", "RCVR", "LOSS", "reopen", "window", "fsm"}
  /\ rack \in {0} \cup Seqs /\ rloop \in {1, 2} /\ rend \in BOOLEAN
  /\ sstate \in {"up", "segfault"}

CongestionType ==
  /\ cgt_state \in {"OPEN", "RCVR", "LOSS"}
  /\ cwnd \in Nat \ {0} /\ cwnd_unit \in Nat /\ ssthresh \in Nat
  /\ rep_ack \in Nat /\ recovery_point \in {0} \cup Seqs /\ snd_wnd \in 1 .. AdvWnd
  /\ rpc = "shrink" => rep_ack > 1

WaitType == wait_send \in Wait /\ wait_recv \in Wait

LinkType ==
  /\ dataq \in Seq(Packets) /\ Len(dataq) <= LinkCap
  /\ ackq \in Seq(Seqs) /\ Len(ackq) <= LinkCap

ReceiverType ==
  /\ rcv_nxt \in Seqs
  /\ rcv_buf \in Seq(Segs) /\ rcv_ofo_buf \in Seq(Segs) /\ delivered \in Seq(Segs)
  /\ stray \subseteq Segs /\ dangling \in BOOLEAN
  /\ rstate \in {"up", "abort", "segfault"}
  /\ gpc \in {"idle", "wake"} /\ dpc \in {"check", "presleep", "asleep"}

TypeInv == NumbersType /\ CongestionType /\ WaitType /\ LinkType /\ ReceiverType

\* A queue is never longer than the link's capacity.
LEMMA PutFits ==
  ASSUME NEW S, NEW q \in Seq(S), NEW ms \in Seq(S)
  PROVE  Put(q, ms) \in Seq(S) /\ Len(Put(q, ms)) <= LinkCap
<1> DEFINE all == q \o ms
<1>1. all \in Seq(S) /\ Len(all) \in Nat
  OBVIOUS
<1> HIDE DEF all
<1>2. CASE Len(all) <= LinkCap
  BY <1>1, <1>2 DEF Put, all
<1>3. CASE ~(Len(all) <= LinkCap)
  <2>1. SubSeq(all, 1, LinkCap) \in Seq(S) /\ Len(SubSeq(all, 1, LinkCap)) <= LinkCap
    BY <1>1, <1>3, LinkCapAssumption
  <2> QED
    BY <1>3, <2>1 DEF Put, all
<1> QED
  BY <1>2, <1>3

LEMMA ShorterIs ==
  ASSUME NEW S, NEW q \in Seq(S), q # <<>>, Len(q) <= LinkCap
  PROVE  Head(q) \in S /\ Tail(q) \in Seq(S) /\ Len(Tail(q)) <= LinkCap
BY LinkCapAssumption

LEMMA PacketsAre ==
  /\ \A n \in Segs : Psh(n) \in Packets
  /\ \A n \in Seqs : Rst(n) \in Packets
  /\ \A p \in Packets : p.seq \in Seqs /\ (p.kind = "PSH" => p.seq \in Segs)
  /\ NSeg \in Nat
BY SendAssumption DEF Packets, Psh, Rst, Segs, Seqs

LEMMA BuffersType ==
  ASSUME SendInv, snd_una \in Seqs, snd_nxt \in Seqs
  PROVE  /\ send_buf \in Seq(Buffer)
         /\ Len(send_buf) \in 0 .. NSeg
         /\ snd_una <= snd_nxt
         /\ \A i \in 1 .. Len(send_buf) :
              send_buf[i].seq_end \in Seqs /\ send_buf[i].seq_end - 1 \in Segs
<1>1. /\ send_buf \in Seq(Buffer) /\ Len(send_buf) \in Nat
      /\ Len(send_buf) = snd_nxt - snd_una \/ Len(send_buf) = snd_nxt - snd_una - 1
  BY DEF SendInv, SendType, Contiguous
<1>2. \A i \in 1 .. Len(send_buf) : send_buf[i].seq_end = snd_una + i
  BY <1>1 DEF SendInv, Contiguous
<1> QED
  BY <1>1, <1>2, PacketsAre DEF Segs, Seqs

LEMMA NumbersKept ==
  ASSUME SendInv, TypeInv, Next
  PROVE  NumbersType'
<1> USE DEF TypeInv, NumbersType
<1>1. CASE NumberSegment
  BY <1>1, SendAssumption DEF NumberSegment, notWriter, Seqs
<1>2. CASE InsertSegment \/ TransmitSegment \/ CheckCount \/ WriterSleeps \/ WriterWakes
  BY <1>2 DEF InsertSegment, TransmitSegment, CheckCount, WriterSleeps, WriterWakes, notWriter
<1>3. CASE TakeAck
  <2>1. ackq # <<>> /\ rack' = Head(ackq)
    BY <1>3 DEF TakeAck
  <2>2. Head(ackq) \in Seqs
    BY <2>1, ShorterIs DEF LinkType
  <2> QED
    BY <1>3, <2>1, <2>2 DEF TakeAck, Goes, buffers
<1>4. CASE DeleteAcked
  <2>1. rpc = "delete"
    BY <1>4 DEF DeleteAcked, Goes
  <2>2. Head(send_buf) = send_buf[1] /\ 1 \in 1 .. Len(send_buf)
    BY <2>1, BuffersType DEF SendInv, LoopKnows, Acked
  <2>3. snd_una' \in Seqs /\ snd_una' # 1
    <3>1. snd_una' = snd_una + 1
      BY <1>4, <2>2, BuffersType DEF DeleteAcked, SendInv, Contiguous
    <3>2. snd_una' \in Seqs
      BY <1>4, <2>2, BuffersType DEF DeleteAcked
    <3> QED
      BY <3>1, <3>2 DEF Seqs
  <2> QED
    BY <1>4, <2>3 DEF DeleteAcked, Goes, notAcks
<1>5. CASE UNCHANGED <<snd_una, snd_nxt, wpc, rack>> /\ Acks /\ ~DeleteAcked
  <2>1. /\ rloop' \in {1, 2} /\ rend' \in BOOLEAN /\ sstate' \in {"up", "segfault"}
    BY <1>5 DEF Acks, AckForNobody, TakeAck, DupAck, EnterRecovery, HalveThreshold,
       SetRecoveryPoint, FindFirst, ResendFirst, ShrinkWindow, NewAck, LookAcked, DeleteAcked,
       UncountAcked, IncCwnd, LeaveLoop, SwitchOnState, EndRecovery, GoOnRecovering, Reopen,
       UpdateWindow, FinishAck, HeadTaken, Resend, notAcks, notCongestion, sndVars
  <2>2. cgt_state \in {"OPEN", "RCVR", "LOSS"}
    BY DEF CongestionType
  <2>3. rpc' \in {"idle", "got", "enter", "halve", "point", "first", "resend", "shrink", "look",
                  "delete", "uncount", "inc", "switch", "RCVR", "LOSS", "reopen", "window", "fsm"}
    BY <1>5, <2>2 DEF Acks, AckForNobody, TakeAck, DupAck, EnterRecovery, HalveThreshold,
       SetRecoveryPoint, FindFirst, ResendFirst, ShrinkWindow, NewAck, LookAcked, DeleteAcked,
       UncountAcked, IncCwnd, LeaveLoop, SwitchOnState, EndRecovery, GoOnRecovering, Reopen,
       UpdateWindow, FinishAck, Goes, Shrinking, sndVars
  <2>4. rpc' = "uncount" => rpc = "uncount"
    BY <1>5, <2>2 DEF Acks, AckForNobody, TakeAck, DupAck, EnterRecovery, HalveThreshold,
       SetRecoveryPoint, FindFirst, ResendFirst, ShrinkWindow, NewAck, LookAcked, DeleteAcked,
       UncountAcked, IncCwnd, LeaveLoop, SwitchOnState, EndRecovery, GoOnRecovering, Reopen,
       UpdateWindow, FinishAck, Goes, Shrinking, buffers, sndVars
  <2> QED
    BY <1>5, <2>1, <2>3, <2>4
<1>6. CASE FinishAck
  BY <1>6 DEF FinishAck, Goes, buffers
<1>7. CASE TimerScan
  <2>1. UNCHANGED <<snd_una, snd_nxt, wpc, rack, rloop, rend, sstate>> /\ rpc' \in {rpc, "window"}
    BY <1>7 DEF TimerScan, ReopenLost
  <2> QED
    BY <2>1
<1>8. CASE UNCHANGED sndVars
  BY <1>8 DEF sndVars
<1>9. Acks => \/ TakeAck \/ DeleteAcked \/ FinishAck
              \/ UNCHANGED <<snd_una, snd_nxt, wpc, rack>>
  BY DEF Acks, AckForNobody, DupAck, EnterRecovery, HalveThreshold, SetRecoveryPoint,
         FindFirst, ResendFirst, ShrinkWindow, NewAck, LookAcked, UncountAcked,
         IncCwnd, LeaveLoop, SwitchOnState, EndRecovery, GoOnRecovering, Reopen, UpdateWindow,
         notAcks, notCongestion, buffers, sndVars
<1> QED
  BY <1>1, <1>2, <1>3, <1>4, <1>5, <1>6, <1>7, <1>8, <1>9
  DEF Next, SendNext, Writer, WriterSpurious, WriterResumes

LEMMA CongestionKept ==
  ASSUME SendInv, TypeInv, Next
  PROVE  CongestionType'
<1> USE DEF CongestionType
<1>1. CongestionType /\ snd_nxt \in Seqs
  BY DEF TypeInv, NumbersType
<1>2. \A n \in Nat : (n + 1) \div 2 \in Nat
  OBVIOUS
<1>3. CASE DupAck
  BY <1>1, <1>3 DEF DupAck, Goes, Shrinking, window
<1>4. CASE EnterRecovery \/ SetRecoveryPoint \/ NewAck \/ Reopen
  BY <1>1, <1>4
  DEF EnterRecovery, SetRecoveryPoint, NewAck, Reopen, Goes, RecoveryPoint, window
<1>5. CASE HalveThreshold
  BY <1>1, <1>2, <1>5 DEF HalveThreshold, Goes
<1>6. CASE ShrinkWindow
  BY <1>1, <1>6 DEF ShrinkWindow, Goes
<1>7. CASE IncCwnd
  BY <1>1, <1>7 DEF IncCwnd, Goes
<1>8. CASE UpdateWindow
  <2>1. Lesser(AdvWnd, cwnd) \in 1 .. AdvWnd
    BY <1>1, SendAssumption DEF Lesser
  <2> QED
    BY <1>1, <1>8, <2>1 DEF UpdateWindow, Goes
<1>9. CASE TimerScan
  <2>1. \/ UNCHANGED <<congestion, rpc>>
        \/ /\ recovery_point' = recovery_point \/ recovery_point' = RecoveryPoint
           /\ cgt_state' = "LOSS"
           /\ \E c \in CwndFound \cup CwndAfterTimeout : ssthresh' = (c + 1) \div 2
           /\ cwnd' \in CwndAfterTimeout
           /\ snd_wnd' = 1
           /\ rpc' \in ReopenLost
           /\ UNCHANGED <<cwnd_unit, rep_ack>>
    <3> HIDE DEF CongestionType
    <3> QED
      BY <1>9 DEF TimerScan
  <2>2. CwndAfterTimeout \subseteq Nat \ {0} /\ CwndFound \subseteq Nat
    BY <1>1 DEF CwndAfterTimeout, CwndFound
  <2>3. CASE UNCHANGED <<congestion, rpc>>
    BY <1>1, <2>3 DEF congestion, window
  <2>4. CASE ~(UNCHANGED <<congestion, rpc>>)
    <3>1. recovery_point' \in {0} \cup Seqs
      BY <1>1, <2>1, <2>4 DEF RecoveryPoint
    <3>2. ssthresh' \in Nat
      <4>1. PICK c \in CwndFound \cup CwndAfterTimeout : ssthresh' = (c + 1) \div 2
        BY <2>1, <2>4
      <4>2. c \in Nat
        BY <2>2, <4>1
      <4> QED
        BY <1>2, <4>1, <4>2
    <3>3. cwnd' \in Nat \ {0}
      BY <2>1, <2>2, <2>4
    <3>4. snd_wnd' \in 1 .. AdvWnd
      BY <2>1, <2>4, SendAssumption
    <3>5. rpc' = "shrink" => rep_ack' > 1
      BY <1>1, <2>1, <2>4 DEF ReopenLost
    <3> QED
      BY <1>1, <2>1, <2>4, <3>1, <3>2, <3>3, <3>4, <3>5
  <2> QED
    BY <2>3, <2>4
<1>10. CASE ResendFirst
  BY <1>1, <1>10 DEF ResendFirst, Goes, Shrinking, congestion, window
<1>11. CASE UNCHANGED congestion /\ (UNCHANGED rpc \/ rpc' # "shrink")
  BY <1>1, <1>11 DEF congestion, window
<1>12. Acks => \/ DupAck \/ EnterRecovery \/ SetRecoveryPoint \/ NewAck \/ Reopen
               \/ HalveThreshold \/ ShrinkWindow \/ IncCwnd \/ UpdateWindow \/ ResendFirst
               \/ UNCHANGED congestion /\ (UNCHANGED rpc \/ rpc' # "shrink")
  <2>1. SwitchOnState => rpc' # "shrink"
    BY <1>1 DEF SwitchOnState, Goes
  <2> HIDE DEF CongestionType
  <2> QED
    BY <2>1 DEF Acks, AckForNobody, TakeAck, FindFirst, LookAcked, DeleteAcked, UncountAcked,
           LeaveLoop, SwitchOnState, EndRecovery, GoOnRecovering, FinishAck, Goes, sndVars
<1>13. Writer \/ WriterSpurious => UNCHANGED <<congestion, rpc>>
  BY WriterAlters DEF notWriter
<1>14. UNCHANGED sndVars => UNCHANGED <<congestion, rpc>>
  BY DEF sndVars
<1> QED
  <2> HIDE DEF CongestionType
  <2> QED
    BY <1>3, <1>4, <1>5, <1>6, <1>7, <1>8, <1>9, <1>10, <1>11, <1>12, <1>13, <1>14
    DEF Next, SendNext

LEMMA WaitsAre ==
  ASSUME NEW w \in Wait
  PROVE  /\ wake_up(w) \in Wait /\ sleep_on(w) \in Wait
         /\ Resume(w) \in Wait /\ wait_exit(w) \in Wait
BY DEF Wait, wake_up, sleep_on, Resume, wait_exit

LEMMA WaitsKept ==
  ASSUME TypeInv, Next
  PROVE  WaitType'
<1> USE DEF WaitType
<1>1. WaitType
  BY DEF TypeInv
<1>2. \/ wait_send' = wait_send
      \/ wait_send' = sleep_on(wait_send)
      \/ wait_send' = Resume(wait_send)
      \/ wait_send' = wake_up(wait_send)
      \/ wait_send' = wait_exit(wait_send)
  <2>1. \/ Writer \/ WriterSpurious
        \/ wait_send' = wait_send \/ wait_send' = wake_up(wait_send)
        \/ wait_send' = wait_exit(wait_send)
    BY DEF Next, SendNext, Acks, AckForNobody, TakeAck, DupAck, EnterRecovery, HalveThreshold,
       SetRecoveryPoint, FindFirst, ResendFirst, ShrinkWindow, NewAck, LookAcked, DeleteAcked,
       UncountAcked, IncCwnd, LeaveLoop, SwitchOnState, EndRecovery, GoOnRecovering, Reopen,
       UpdateWindow, FinishAck, TimerScan, notCongestion, sndVars
  <2>2. Writer \/ WriterSpurious => \/ wait_send' = wait_send
                                    \/ wait_send' = sleep_on(wait_send)
                                    \/ wait_send' = Resume(wait_send)
    BY DEF Writer, WriterSpurious, NumberSegment, InsertSegment, TransmitSegment, CheckCount,
           WriterSleeps, WriterResumes, WriterWakes
  <2> QED
    BY <2>1, <2>2
<1>3. \/ wait_recv' = wait_recv
      \/ wait_recv' = sleep_on(wait_recv)
      \/ wait_recv' = Resume(wait_recv)
      \/ wait_recv' = wake_up(wait_recv)
  BY DEF Next, Receive, RecvRst, RecvOld, RecvDangling, RecvNext, RecvAhead, WakeAndAck,
         Reader, ReaderSpurious, ReadEmpty, ReadSegments, ReaderSleeps, ReaderResumes,
         ReaderWakes, rcvVars
<1> QED
  BY <1>1, <1>2, <1>3, WaitsAre

LEMMA ScanIs ==
  ASSUME SendInv, TimerScan
  PROVE  \E ms \in Seq({Psh(send_buf[i].seq_end - 1) : i \in DOMAIN send_buf}
                         \cup {Rst(snd_nxt)}) : dataq' = Put(dataq, ms)
<1> DEFINE expired == {i \in DOMAIN send_buf : send_buf[i].timeout = 1}
           last    == {i \in expired : send_buf[i].times = MaxTimes}
           givesUp == last # {}
           stop    == IF givesUp THEN Min(last) ELSE Len(send_buf) + 1
           fired   == {i \in expired : i <= stop}
           places  == fired \ {stop}
           resent  == Ascending(places)
           again   == [k \in DOMAIN resent |-> Psh(send_buf[resent[k]].seq_end - 1)]
           reset   == IF givesUp THEN <<Rst(snd_nxt)>> ELSE <<>>
           S       == {Psh(send_buf[i].seq_end - 1) : i \in DOMAIN send_buf} \cup {Rst(snd_nxt)}
<1>1. DOMAIN send_buf = 1 .. Len(send_buf) /\ Len(send_buf) \in Nat
  BY DEF SendInv, SendType
<1>2. dataq' = Put(dataq, again \o reset)
  BY DEF TimerScan
<1>3. places \in SUBSET (1 .. Len(send_buf))
  BY <1>1
<1> HIDE DEF places
<1>4. Cardinality(places) \in Nat /\ resent \in [1 .. Cardinality(places) -> places]
  BY <1>1, <1>3, AscendingIs DEF Orders
<1> HIDE DEF resent
<1>5. \A k \in DOMAIN resent : resent[k] \in DOMAIN send_buf
  BY <1>1, <1>3, <1>4
<1>6. again \in Seq(S)
  BY <1>4, <1>5
<1>7. reset \in Seq(S)
  <2>1. Rst(snd_nxt) \in S
    OBVIOUS
  <2> HIDE DEF S
  <2> QED
    BY <2>1, OneIsSeq
<1>8. again \o reset \in Seq(S)
  <2> HIDE DEF S, again, reset
  <2> QED
    BY <1>6, <1>7
<1> QED
  BY <1>2, <1>8

LEMMA LinkTypeKept ==
  ASSUME SendInv, TypeInv, Next
  PROVE  LinkType'
<1>1. /\ dataq \in Seq(Packets) /\ Len(dataq) <= LinkCap
      /\ ackq \in Seq(Seqs) /\ Len(ackq) <= LinkCap
      /\ snd_una \in Seqs /\ snd_nxt \in Seqs /\ rcv_nxt \in Seqs
  BY DEF TypeInv, LinkType, NumbersType, ReceiverType
<1>2. \/ ackq' = ackq
      \/ ackq # <<>> /\ ackq' = Tail(ackq)
      \/ ackq' = Put(ackq, <<rcv_nxt>>)
  <2>1. Acks => ackq' = ackq \/ (ackq # <<>> /\ ackq' = Tail(ackq))
    BY DEF Acks, AckForNobody, TakeAck, DupAck, EnterRecovery, HalveThreshold,
       SetRecoveryPoint, FindFirst, ResendFirst, ShrinkWindow, NewAck, LookAcked, DeleteAcked,
       UncountAcked, IncCwnd, LeaveLoop, SwitchOnState, EndRecovery, GoOnRecovering, Reopen,
       UpdateWindow, FinishAck, notAcks, notCongestion, link
  <2>2. Receive \/ Reader \/ ReaderSpurious => ackq' = ackq \/ ackq' = Put(ackq, <<rcv_nxt>>)
    BY DEF Receive, RecvRst, RecvOld, RecvDangling, RecvNext, RecvAhead, WakeAndAck, Reader,
           ReaderSpurious, ReadEmpty, ReadSegments, ReaderSleeps, ReaderResumes, ReaderWakes,
           link
  <2> QED
    BY <2>1, <2>2, WriterAlters DEF Next, SendNext, TimerScan, LoseData, LoseAck, notWriter
<1>3. ackq' \in Seq(Seqs) /\ Len(ackq') <= LinkCap
  <2>1. CASE ackq' = ackq
    BY <1>1, <2>1
  <2>2. CASE ackq # <<>> /\ ackq' = Tail(ackq)
    BY <1>1, <2>2, ShorterIs
  <2>3. CASE ackq' = Put(ackq, <<rcv_nxt>>)
    <3>1. <<rcv_nxt>> \in Seq(Seqs)
      BY <1>1, OneIsSeq
    <3> QED
      BY <1>1, <2>3, <3>1, PutFits
  <2> QED
    BY <1>2, <2>1, <2>2, <2>3
<1>4. ASSUME NEW ms \in Seq(Packets), dataq' = Put(dataq, ms)
      PROVE  dataq' \in Seq(Packets) /\ Len(dataq') <= LinkCap
  BY <1>1, <1>4, PutFits
<1>5. ASSUME NEW n \in Segs, dataq' = Put(dataq, <<Psh(n)>>)
      PROVE  dataq' \in Seq(Packets) /\ Len(dataq') <= LinkCap
  <2>1. <<Psh(n)>> \in Seq(Packets)
    BY PacketsAre, OneIsSeq
  <2> QED
    BY <1>4, <1>5, <2>1
<1>6. ASSUME send_buf # <<>>
      PROVE  Head(send_buf).seq_end - 1 \in Segs
  <2>1. Head(send_buf) = send_buf[1] /\ 1 \in 1 .. Len(send_buf)
    BY <1>1, <1>6, BuffersType
  <2> QED
    BY <1>1, <2>1, BuffersType
<1>7. ASSUME wpc = "pushed"
      PROVE  snd_nxt - 1 \in Segs
  BY <1>1, <1>7, PacketsAre DEF TypeInv, NumbersType, Segs, Seqs
<1>8. dataq' \in Seq(Packets) /\ Len(dataq') <= LinkCap
  <2>1. CASE TransmitSegment
    BY <1>5, <1>7, <2>1 DEF TransmitSegment
  <2>2. CASE ResendFirst \/ GoOnRecovering
    <3>1. \/ dataq' = dataq
          \/ send_buf # <<>> /\ dataq' = Put(dataq, <<Psh(Head(send_buf).seq_end - 1)>>)
      BY <2>2 DEF SendInv, LoopKnows, ResendFirst, GoOnRecovering, Goes, HeadTaken, Resend
    <3> QED
      BY <1>1, <1>5, <1>6, <3>1
  <2>3. CASE TimerScan
    <3> DEFINE S == {Psh(send_buf[i].seq_end - 1) : i \in DOMAIN send_buf} \cup {Rst(snd_nxt)}
    <3>1. PICK ms \in Seq(S) : dataq' = Put(dataq, ms)
      BY <2>3, ScanIs
    <3>2. S \subseteq Packets
      <4>1. \A i \in DOMAIN send_buf : send_buf[i].seq_end - 1 \in Segs
        BY <1>1, BuffersType
      <4> QED
        BY <1>1, <4>1, PacketsAre
    <3> HIDE DEF S
    <3>3. ms \in Seq(Packets)
      BY <3>1, <3>2, SeqMonotonic
    <3> QED
      BY <1>4, <3>1, <3>3
  <2>4. CASE dataq' = dataq
    BY <1>1, <2>4
  <2>5. CASE dataq # <<>> /\ dataq' = Tail(dataq)
    BY <1>1, <2>5, ShorterIs
  <2>6. Acks => ResendFirst \/ GoOnRecovering \/ dataq' = dataq
    BY DEF Acks, AckForNobody, TakeAck, DupAck, EnterRecovery, HalveThreshold,
       SetRecoveryPoint, FindFirst, ShrinkWindow, NewAck, LookAcked, DeleteAcked,
       UncountAcked, IncCwnd, LeaveLoop, SwitchOnState, EndRecovery, Reopen,
       UpdateWindow, FinishAck, notAcks, notCongestion, link
  <2>7. Writer \/ WriterSpurious => TransmitSegment \/ dataq' = dataq
    BY DEF Writer, WriterSpurious, NumberSegment, InsertSegment, CheckCount, WriterSleeps,
           WriterResumes, WriterWakes
  <2>8. Receive \/ Reader \/ ReaderSpurious =>
          dataq' = dataq \/ (dataq # <<>> /\ dataq' = Tail(dataq))
    BY DEF Receive, RecvRst, RecvOld, RecvDangling, RecvNext, RecvAhead, WakeAndAck, Reader,
           ReaderSpurious, ReadEmpty, ReadSegments, ReaderSleeps, ReaderResumes, ReaderWakes,
           Arrives, link
  <2> QED
    BY <2>1, <2>2, <2>3, <2>4, <2>5, <2>6, <2>7, <2>8 DEF Next, SendNext, LoseData, LoseAck
<1> QED
  BY <1>3, <1>8 DEF LinkType

\* How many nodes a traversal walks past.
LEMMA WalkIs ==
  ASSUME rcv_ofo_buf \in Seq(Segs)
  PROVE  /\ \A n : DrainLength(n) \in 0 .. Len(rcv_ofo_buf)
         /\ \A s \in Segs : Below(s) \in 0 .. Len(rcv_ofo_buf)
<1>1. Len(rcv_ofo_buf) \in Nat
  OBVIOUS
<1>2. ASSUME NEW n  PROVE DrainLength(n) \in 0 .. Len(rcv_ofo_buf)
  <2> DEFINE joins(i) == rcv_ofo_buf[i] <= IF i = 1 THEN n ELSE rcv_ofo_buf[i - 1] + 1
             S == {k \in 0 .. Len(rcv_ofo_buf) : \A i \in 1 .. k : joins(i)}
  <2>1. S \in SUBSET (0 .. Len(rcv_ofo_buf)) /\ 0 \in S
    BY <1>1
  <2>2. Max(S) \in S
    BY <1>1, <2>1, GreatestIs
  <2> QED
    BY <2>1, <2>2 DEF DrainLength
<1>3. ASSUME NEW s \in Segs  PROVE Below(s) \in 0 .. Len(rcv_ofo_buf)
  <2> DEFINE S == {k \in 0 .. Len(rcv_ofo_buf) : \A i \in 1 .. k : rcv_ofo_buf[i] < s}
  <2>1. S \in SUBSET (0 .. Len(rcv_ofo_buf)) /\ 0 \in S
    BY <1>1
  <2>2. Max(S) \in S
    BY <1>1, <2>1, GreatestIs
  <2> QED
    BY <2>1, <2>2 DEF Below
<1> QED
  BY <1>2, <1>3

LEMMA ReceiverTypeKept ==
  ASSUME SendInv, TypeInv, Next
  PROVE  ReceiverType'
<1> USE DEF ReceiverType
<1>1. ReceiverType /\ LinkType
  BY DEF TypeInv
<1>2. ASSUME dataq # <<>>
      PROVE  Head(dataq).seq \in Seqs /\ (Head(dataq).kind = "PSH" => Head(dataq).seq \in Segs)
  BY <1>1, <1>2, ShorterIs, PacketsAre DEF LinkType
<1>3. CASE RecvRst
  BY <1>1, <1>2, <1>3 DEF RecvRst, Arrives
<1>4. CASE RecvDangling
  BY <1>1, <1>4 DEF RecvDangling
<1>5. CASE RecvNext
  <2> DEFINE s == Head(dataq).seq
             n == DrainLength(s + 1)
             front == SubSeq(rcv_ofo_buf, 1, n)
             chunk == <<s>> \o front
  <2>1. s \in Segs
    BY <1>2, <1>5 DEF RecvNext, Arrives
  <2>2. n \in 0 .. Len(rcv_ofo_buf) /\ Len(rcv_ofo_buf) \in Nat
    BY <1>1, WalkIs
  <2>3. /\ UNCHANGED <<stray, delivered, dpc>>
        /\ \/ rstate' = "abort" /\ UNCHANGED <<rcv_nxt, rcv_buf, rcv_ofo_buf, dangling, gpc>>
           \/ /\ rcv_buf' = rcv_buf \o chunk
              /\ rcv_ofo_buf' = SubSeq(rcv_ofo_buf, n + 1, Len(rcv_ofo_buf))
              /\ rcv_nxt' = chunk[n + 1] + 1
              /\ dangling' = (n > 0 /\ stray # {})
              /\ gpc' = "wake" /\ UNCHANGED rstate
    BY <1>5 DEF RecvNext
  <2> HIDE DEF s, n
  <2>4. /\ front \in Seq(Segs) /\ Len(front) = n /\ <<s>> \in Seq(Segs) /\ Len(<<s>>) = 1
        /\ SubSeq(rcv_ofo_buf, n + 1, Len(rcv_ofo_buf)) \in Seq(Segs)
    BY <1>1, <2>1, <2>2
  <2> HIDE DEF front
  <2>5. chunk \in Seq(Segs) /\ Len(chunk) = n + 1
    BY <2>1, <2>2, <2>4, ConcatProperties
  <2> HIDE DEF chunk
  <2>6. chunk[n + 1] \in Segs
    BY <2>2, <2>5
  <2>7. chunk[n + 1] + 1 \in Seqs
    BY <2>6, PacketsAre DEF Segs, Seqs
  <2>8. rcv_buf \o chunk \in Seq(Segs)
    BY <1>1, <2>5
  <2>9. CASE rstate' = "abort" /\ UNCHANGED <<rcv_nxt, rcv_buf, rcv_ofo_buf, dangling, gpc>>
    BY <1>1, <2>3, <2>9
  <2>10. CASE rcv_buf' = rcv_buf \o chunk
    BY <1>1, <2>3, <2>4, <2>7, <2>8, <2>10
  <2> QED
    BY <2>3, <2>9, <2>10
<1>6. CASE RecvAhead
  <2> DEFINE s == Head(dataq).seq
  <2>1. s \in Segs
    BY <1>2, <1>6 DEF RecvAhead, Arrives
  <2>2. Below(s) \in 0 .. Len(rcv_ofo_buf)
    BY <1>1, <2>1, WalkIs
  <2>3. InsertAt(rcv_ofo_buf, Below(s) + 1, s) \in Seq(Segs)
    <3> HIDE DEF s
    <3> QED
      BY <1>1, <2>1, <2>2, InsertType
  <2>4. /\ gpc' = "wake"
        /\ rcv_ofo_buf' = rcv_ofo_buf \/ rcv_ofo_buf' = InsertAt(rcv_ofo_buf, Below(s) + 1, s)
        /\ stray' = stray \/ stray' = stray \cup {s}
        /\ UNCHANGED <<rcv_nxt, rcv_buf, dangling, rstate, delivered, dpc>>
    BY <1>6 DEF RecvAhead
  <2> HIDE DEF s
  <2>5. rcv_ofo_buf' \in Seq(Segs) /\ stray' \subseteq Segs
    BY <1>1, <2>1, <2>3, <2>4
  <2> QED
    BY <1>1, <2>4, <2>5
<1>7. CASE WakeAndAck
  BY <1>1, <1>7 DEF WakeAndAck
<1>8. CASE ReadSegments
  <2> DEFINE n == IF Len(rcv_buf) < ReadLen THEN Len(rcv_buf) ELSE ReadLen
             now == SubSeq(rcv_buf, 1, n)
  <2>1. n \in 0 .. Len(rcv_buf) /\ Len(rcv_buf) \in Nat
    BY <1>1, RecvAssumption
  <2>2. /\ delivered' = delivered \o now /\ rcv_buf' = SubSeq(rcv_buf, n + 1, Len(rcv_buf))
        /\ UNCHANGED <<rcv_nxt, rcv_ofo_buf, stray, dangling, rstate, gpc, dpc>>
    BY <1>8 DEF ReadSegments
  <2> HIDE DEF n
  <2>3. now \in Seq(Segs) /\ SubSeq(rcv_buf, n + 1, Len(rcv_buf)) \in Seq(Segs)
    BY <1>1, <2>1
  <2> HIDE DEF now
  <2>4. delivered \o now \in Seq(Segs)
    BY <1>1, <2>3
  <2> QED
    BY <1>1, <2>2, <2>3, <2>4
<1>9. CASE ReadEmpty \/ ReaderSleeps \/ ReaderWakes
  BY <1>1, <1>9 DEF ReadEmpty, ReaderSleeps, ReaderWakes
<1>10. CASE UNCHANGED rcvVars
  BY <1>1, <1>10 DEF rcvVars
<1>11. \/ RecvRst \/ RecvDangling \/ RecvNext \/ RecvAhead \/ WakeAndAck
       \/ ReadSegments \/ ReadEmpty \/ ReaderSleeps \/ ReaderWakes
       \/ UNCHANGED rcvVars
  BY DEF Next, Receive, Reader, ReaderSpurious, ReaderResumes, RecvOld
<1> QED
  BY <1>3, <1>4, <1>5, <1>6, <1>7, <1>8, <1>9, <1>10, <1>11

LEMMA TypesStart == Init => TypeInv
<1> SUFFICES ASSUME Init  PROVE TypeInv
  OBVIOUS
<1> USE DEF Init, SendInit, RecvInit, LinkInit
<1>1. 1 \in Seqs /\ 1 \in 1 .. AdvWnd /\ SsThresh \in Nat
  BY SendAssumption DEF Seqs
<1>2. /\ \A S : <<>> \in Seq(S)
      /\ Len(<<>>) = 0 /\ 0 <= LinkCap
  BY LinkCapAssumption
<1>3. NumbersType /\ CongestionType
  <2>1. NumbersType
    BY <1>1 DEF NumbersType
  <2>2. CongestionType
    BY <1>1 DEF CongestionType
  <2> QED
    BY <2>1, <2>2
<1>4. WaitType
  BY DEF WaitType, wait_init, Wait
<1>5. LinkType
  BY <1>2 DEF LinkType
<1>6. ReceiverType
  BY <1>1, <1>2 DEF ReceiverType
<1> QED
  BY <1>3, <1>4, <1>5, <1>6 DEF TypeInv

LEMMA TypesKept == SendInv /\ TypeInv /\ [Next]_vars => TypeInv'
<1> SUFFICES ASSUME SendInv, TypeInv, [Next]_vars  PROVE TypeInv'
  OBVIOUS
<1>1. CASE Next
  BY <1>1, NumbersKept, CongestionKept, WaitsKept, LinkTypeKept, ReceiverTypeKept DEF TypeInv
<1>2. CASE UNCHANGED vars
  BY <1>2 DEF TypeInv, NumbersType, CongestionType, WaitType, LinkType, ReceiverType,
              vars, sndVars, rcvVars, link, congestion, window
<1> QED
  BY <1>1, <1>2

LEMMA TypesImply == SendInv /\ TypeInv => TypeOK
<1> SUFFICES ASSUME SendInv, TypeInv  PROVE TypeOK
  OBVIOUS
<1>1. /\ snd_una \in Seqs /\ snd_nxt \in Seqs /\ state \in {"ESTABLISHED", "CLOSED"}
      /\ send_buf \in Seq(Buffer) /\ DOMAIN send_buf = 1 .. Len(send_buf)
  BY DEF TypeInv, NumbersType, SendInv, SendType
<1>2. \A i \in DOMAIN send_buf :
        send_buf[i] \in [seq_end : Seqs, times : 1 .. MaxTimes + 1, timeout : Int]
  <2>1. \A b \in Buffer :
          b.seq_end \in Seqs => b \in [seq_end : Seqs, times : 1 .. MaxTimes + 1, timeout : Int]
    BY DEF Buffer
  <2>2. \A i \in DOMAIN send_buf : send_buf[i] \in Buffer /\ send_buf[i].seq_end \in Seqs
    BY <1>1, BuffersType
  <2> QED
    BY <2>1, <2>2
<1>3. send_buf_count \in -1 .. NSeg
  <2>1. NSeg \in Nat /\ Len(send_buf) \in Nat /\ Len(send_buf) <= NSeg
    BY <1>1, BuffersType, PacketsAre
  <2>2. rpc = "uncount" => Len(send_buf) < NSeg
    <3>1. Len(send_buf) <= snd_nxt - snd_una
      BY <1>1, PacketsAre DEF SendInv, Contiguous, Seqs
    <3>2. rpc = "uncount" => snd_una # 1
      BY DEF TypeInv, NumbersType
    <3> QED
      BY <1>1, <2>1, <3>1, <3>2 DEF Seqs
  <2> QED
    BY <2>1, <2>2 DEF SendInv, CountMatches
<1>4. dataq \in Seq([kind : {"PSH", "RST"}, seq : Seqs])
  <2>1. Packets \subseteq [kind : {"PSH", "RST"}, seq : Seqs]
    BY PacketsAre DEF Packets, Segs, Seqs
  <2> QED
    BY <2>1, SeqMonotonic DEF TypeInv, LinkType
<1> QED
  BY <1>1, <1>2, <1>3, <1>4 DEF TypeInv, NumbersType, CongestionType, WaitType, LinkType,
                                ReceiverType, TypeOK

\* The numbers, lists, queues and places in the code keep their types, also when the
\* sender has given up, and a RST has set the receiver's rcv_nxt.
THEOREM TypesHold == Spec => []TypeOK
<1>1. Init => SendInv /\ TypeInv
  BY SendInitStep, TypesStart
<1>2. SendInv /\ TypeInv /\ [Next]_vars => SendInv' /\ TypeInv'
  BY NextStep, TypesKept
<1> QED
  BY <1>1, <1>2, TypesImply, PTL DEF Spec

-----------------------------------------------------------------------------
(* Acknowledgements in order *)

\* q ascends, from u and from r on.
Ascends(q, u, r) ==
  \A i \in DOMAIN q : u <= q[i] /\ r <= q[i] /\ \A j \in 1 .. i - 1 : q[j] <= q[i]

\* The link is a FIFO, and the receiver acknowledges ever more: the ACK at work
\* and those on their way ascend, from snd_una.  Fast recovery ends at a number
\* that has been sent.
AckInv ==
  /\ rpc # "idle" => snd_una <= rack
  /\ recovery_point <= snd_nxt
  /\ state = "ESTABLISHED" => Ascends(ackq, snd_una, rack)

LEMMA AscendsTail ==
  ASSUME NEW q \in Seq(Int), q # <<>>, NEW u \in Int, NEW r \in Int, Ascends(q, u, r)
  PROVE  /\ u <= Head(q) /\ Ascends(Tail(q), u, r) /\ Ascends(Tail(q), u, Head(q))
<1>1. /\ Len(q) \in Nat /\ 1 \in DOMAIN q /\ Head(q) = q[1]
      /\ Tail(q) \in Seq(Int) /\ Len(Tail(q)) = Len(q) - 1
      /\ DOMAIN Tail(q) = 1 .. Len(q) - 1 /\ DOMAIN q = 1 .. Len(q)
      /\ \A i \in 1 .. Len(q) - 1 : Tail(q)[i] = q[i + 1]
  OBVIOUS
<1>2. u <= q[1]
  BY <1>1 DEF Ascends
<1>3. ASSUME NEW i \in 1 .. Len(q) - 1
      PROVE  /\ u <= Tail(q)[i] /\ r <= Tail(q)[i] /\ q[1] <= Tail(q)[i]
             /\ \A j \in 1 .. i - 1 : Tail(q)[j] <= Tail(q)[i]
  <2>1. i + 1 \in DOMAIN q /\ 1 \in 1 .. (i + 1) - 1
    BY <1>1
  <2>2. u <= q[i + 1] /\ r <= q[i + 1] /\ \A j \in 1 .. (i + 1) - 1 : q[j] <= q[i + 1]
    BY <2>1 DEF Ascends
  <2>3. \A j \in 1 .. i - 1 : j + 1 \in 1 .. (i + 1) - 1 /\ j \in 1 .. Len(q) - 1
    BY <1>1
  <2> QED
    BY <1>1, <2>1, <2>2, <2>3
<1> QED
  BY <1>1, <1>2, <1>3 DEF Ascends

LEMMA AscendsPut ==
  ASSUME NEW n \in Int, NEW q \in Seq(UpTo(n)), NEW u \in Int, NEW r \in Int,
         Ascends(q, u, r), u <= n, r <= n
  PROVE  Ascends(Put(q, <<n>>), u, r)
<1> DEFINE all == q \o <<n>>
<1>1. /\ Len(q) \in Nat /\ DOMAIN q = 1 .. Len(q)
      /\ \A i \in 1 .. Len(q) : q[i] \in Int /\ q[i] <= n
  BY DEF UpTo
<1>2. /\ all \in Seq(UpTo(n)) /\ Len(all) = Len(q) + 1
      /\ \A i \in 1 .. Len(q) : all[i] = q[i]
      /\ all[Len(q) + 1] = n
  BY DEF UpTo
<1> HIDE DEF all
<1>3. Ascends(all, u, r)
  <2> SUFFICES ASSUME NEW i \in 1 .. Len(q) + 1
               PROVE  u <= all[i] /\ r <= all[i] /\ \A j \in 1 .. i - 1 : all[j] <= all[i]
    BY <1>2 DEF Ascends
  <2>1. CASE i = Len(q) + 1
    <3>1. \A j \in 1 .. i - 1 : j \in 1 .. Len(q)
      BY <2>1, <1>1
    <3> QED
      BY <1>1, <1>2, <2>1, <3>1
  <2>2. CASE i # Len(q) + 1
    <3>1. i \in 1 .. Len(q) /\ \A j \in 1 .. i - 1 : j \in 1 .. Len(q)
      BY <2>2, <1>1
    <3> QED
      BY <1>1, <1>2, <3>1 DEF Ascends
  <2> QED
    BY <2>1, <2>2
<1>4. CASE Len(all) <= LinkCap
  BY <1>3, <1>4 DEF Put, all
<1>5. CASE ~(Len(all) <= LinkCap)
  <2> DEFINE p == SubSeq(all, 1, LinkCap)
  <2>1. /\ Len(p) = LinkCap /\ DOMAIN p = 1 .. LinkCap
        /\ \A i \in 1 .. LinkCap : p[i] = all[i] /\ i \in DOMAIN all
    BY <1>2, <1>5, LinkCapAssumption
  <2>2. p = Put(q, <<n>>)
    BY <1>5 DEF Put, all
  <2> HIDE DEF p
  <2>3. \A i \in 1 .. LinkCap : \A j \in 1 .. i - 1 : j \in 1 .. LinkCap
    BY LinkCapAssumption
  <2>4. Ascends(p, u, r)
    BY <1>3, <2>1, <2>3 DEF Ascends
  <2> QED
    BY <2>2, <2>4
<1> QED
  BY <1>4, <1>5

\* What the invariants say of the numbers, in every state, and while the
\* connection lives.
LEMMA AcksAre ==
  ASSUME StreamInv, TypeInv
  PROVE  /\ snd_una \in Nat /\ snd_nxt \in Nat /\ rack \in Nat /\ rcv_nxt \in Nat
         /\ recovery_point \in Nat
         /\ send_buf \in Seq(Buffer)
         /\ state # "CLOSED" => state = "ESTABLISHED"
         /\ state = "ESTABLISHED" =>
              ackq \in Seq(UpTo(rcv_nxt)) /\ ackq \in Seq(Int)
              /\ rack <= rcv_nxt /\ snd_una <= rcv_nxt
<1>1. SendInv
  BY DEF StreamInv
<1>2. \A n \in {0} \cup Seqs : n \in Nat
  BY PacketsAre DEF Seqs
<1>3. ASSUME state = "ESTABLISHED"
      PROVE  ackq \in Seq(UpTo(rcv_nxt)) /\ ackq \in Seq(Int) /\ rack <= rcv_nxt /\ snd_una <= rcv_nxt
  <2>1. InFlight
    BY <1>3 DEF StreamInv, RecvInv
  <2>2. UpTo(rcv_nxt) \subseteq Int
    BY DEF UpTo
  <2>3. ackq \in Seq(Int)
    BY <2>1, <2>2, SeqMonotonic DEF InFlight
  <2> QED
    BY <2>1, <2>3 DEF InFlight, UpTo
<1> QED
  BY <1>1, <1>2, <1>3 DEF SendInv, SendType, TypeInv, NumbersType, CongestionType, ReceiverType

LEMMA AckInvStart == Init => AckInv
<1> SUFFICES ASSUME Init  PROVE AckInv
  OBVIOUS
<1>1. DOMAIN ackq = {}
  BY DEF Init, LinkInit
<1> QED
  BY <1>1 DEF Init, SendInit, AckInv, Ascends

LEMMA AckInvKept == StreamInv /\ TypeInv /\ AckInv /\ [Next]_vars => AckInv'
<1> SUFFICES ASSUME StreamInv, TypeInv, AckInv, [Next]_vars  PROVE AckInv'
  OBVIOUS
<1> USE DEF AckInv
<1>1. CASE Writer \/ WriterSpurious
  <2>1. /\ UNCHANGED <<state, snd_una, recovery_point, rpc, rack, ackq>>
        /\ snd_nxt <= snd_nxt' /\ snd_nxt' \in Nat
    BY <1>1, WriterAlters, AcksAre DEF notWriter, congestion
  <2> QED
    BY <2>1, AcksAre
<1>2. CASE TakeAck
  <2>1. /\ ackq # <<>> /\ state = "ESTABLISHED"
        /\ rack' = Head(ackq) /\ ackq' = Tail(ackq)
        /\ UNCHANGED <<state, snd_una, snd_nxt, recovery_point>>
    BY <1>2, AcksAre DEF TakeAck, buffers, congestion
  <2>2. snd_una <= Head(ackq) /\ Ascends(Tail(ackq), snd_una, Head(ackq))
    BY <2>1, AcksAre, AscendsTail
  <2> QED
    BY <2>1, <2>2, AcksAre
<1>3. CASE DeleteAcked
  <2>1. /\ rpc = "delete" /\ snd_una' = Head(send_buf).seq_end
        /\ UNCHANGED <<state, snd_nxt, recovery_point, rack, ackq>>
    BY <1>3 DEF DeleteAcked, Goes, congestion, notAcks, link
  <2>2. send_buf # <<>> /\ snd_una' <= rack
    BY <2>1 DEF StreamInv, SendInv, LoopKnows, Acked
  <2>3. snd_una' \in Int
    <3>1. Head(send_buf) \in Buffer
      BY <2>2, AcksAre
    <3> QED
      BY <2>1, <3>1 DEF Buffer
  <2>4. state = "ESTABLISHED" => Ascends(ackq, snd_una', rack)
    <3> SUFFICES ASSUME state = "ESTABLISHED", NEW i \in DOMAIN ackq
                 PROVE  snd_una' <= ackq[i]
      BY DEF Ascends
    <3>1. ackq[i] \in Int /\ rack <= ackq[i]
      BY AcksAre DEF Ascends
    <3> QED
      BY <2>2, <2>3, <3>1, AcksAre
  <2> QED
    BY <2>1, <2>2, <2>4
<1>4. CASE FinishAck
  <2>1. /\ rpc' = "idle" /\ rack' = 0
        /\ UNCHANGED <<state, snd_una, snd_nxt, recovery_point, ackq>>
    BY <1>4 DEF FinishAck, Goes, buffers, congestion, link
  <2>2. state = "ESTABLISHED" => Ascends(ackq, snd_una, 0)
    <3> SUFFICES ASSUME state = "ESTABLISHED", NEW i \in DOMAIN ackq
                 PROVE  0 <= ackq[i]
      BY DEF Ascends
    <3>1. ackq[i] \in Int /\ rack <= ackq[i]
      BY AcksAre DEF Ascends
    <3> QED
      BY <3>1, AcksAre
  <2> QED
    BY <2>1, <2>2
<1>5. CASE TimerScan
  <2>1. /\ recovery_point' = recovery_point \/ recovery_point' = snd_nxt
        /\ state' = "ESTABLISHED" => state = "ESTABLISHED"
        /\ UNCHANGED <<snd_una, snd_nxt, rack, ackq>>
        /\ rpc' # "idle" => rpc # "idle"
    BY <1>5, AcksAre DEF TimerScan, congestion, RecoveryPoint, ReopenLost
  <2> QED
    BY <2>1, AcksAre
<1>6. CASE (RecvOld \/ WakeAndAck) /\ UNCHANGED sndVars
  <2>1. ackq' = Put(ackq, <<rcv_nxt>>)
    BY <1>6 DEF RecvOld, WakeAndAck
  <2>2. state = "ESTABLISHED" => Ascends(ackq', snd_una, rack)
    BY <2>1, AcksAre, AscendsPut
  <2> QED
    BY <1>6, <2>2 DEF sndVars, congestion
<1>7. CASE LoseAck /\ UNCHANGED sndVars
  <2>1. state = "ESTABLISHED" => Ascends(ackq', snd_una, rack)
    BY <1>7, AcksAre, AscendsTail DEF LoseAck
  <2> QED
    BY <1>7, <2>1 DEF sndVars, congestion
<1>8. CASE AckForNobody
  BY <1>8 DEF AckForNobody, sndVars, congestion
<1>9. CASE UNCHANGED <<state, snd_una, snd_nxt, rack, recovery_point, ackq>> /\ (rpc = "idle" => rpc' = "idle")
  BY <1>9
<1>10. CASE SetRecoveryPoint
  BY <1>10, AcksAre DEF SetRecoveryPoint, RecoveryPoint, Goes, notCongestion, notAcks, link
<1>15. Acks => \/ TakeAck \/ DeleteAcked \/ FinishAck \/ AckForNobody \/ SetRecoveryPoint
               \/ /\ UNCHANGED <<state, snd_una, snd_nxt, rack, recovery_point, ackq>>
                  /\ rpc = "idle" => rpc' = "idle"
  BY DEF Acks, DupAck, EnterRecovery, HalveThreshold,
         FindFirst, ResendFirst, ShrinkWindow, NewAck, LookAcked,
         UncountAcked, IncCwnd, LeaveLoop, SwitchOnState, EndRecovery, GoOnRecovering, Reopen,
         UpdateWindow, Recovered, Goes, notAcks, notCongestion, buffers, congestion, link
<1>11. ASSUME Receive \/ Reader \/ ReaderSpurious
       PROVE  RecvOld \/ WakeAndAck \/ UNCHANGED ackq
  BY <1>11 DEF Receive, RecvRst, RecvDangling, RecvNext, RecvAhead,
               Reader, ReaderSpurious, ReadEmpty, ReadSegments, ReaderSleeps,
               ReaderResumes, ReaderWakes, link
<1>12. UNCHANGED sndVars => UNCHANGED <<state, snd_una, snd_nxt, rpc, rack, recovery_point>>
  BY DEF sndVars, congestion
<1>13. LoseData => UNCHANGED ackq
  BY DEF LoseData
<1>14. UNCHANGED vars => UNCHANGED <<sndVars, ackq>>
  BY DEF vars, link
<1> QED
  BY <1>1, <1>2, <1>3, <1>4, <1>5, <1>6, <1>7, <1>8, <1>9, <1>10, <1>11, <1>12, <1>13, <1>14,
     <1>15 DEF Next, SendNext

\* tcp_process works on acknowledgements in order: none is older than what was
\* acknowledged before it, whatever the link loses.  A fast recovery ends at a
\* number that has been sent.
THEOREM AcksInOrder == Spec => []AckInv
<1>1. Init => StreamInv /\ SendInv /\ TypeInv /\ AckInv
  BY StreamInit, SendInitStep, TypesStart, AckInvStart
<1>2. StreamInv /\ TypeInv /\ AckInv /\ [Next]_vars => StreamInv' /\ TypeInv' /\ AckInv'
  BY StreamNext, TypesKept, AckInvKept DEF StreamInv
<1> QED
  BY <1>1, <1>2, PTL DEF Spec

\* Leaving the loop over acknowledged buffers in fast recovery, tcp_process follows
\* the list's first pointer without a look: with an ACK below recovery_point there is
\* a buffer, unless the writer has numbered a segment and not yet inserted it.
THEOREM BufferToResend == Spec => []PartialAckHasBuffer
<1>1. Init => SendInv /\ TypeInv
  BY SendInitStep, TypesStart
<1>2. SendInv /\ TypeInv /\ [Next]_vars => SendInv' /\ TypeInv'
  BY NextStep, TypesKept
<1>3. StreamInv /\ TypeInv /\ AckInv => PartialAckHasBuffer
  <2> SUFFICES ASSUME StreamInv, TypeInv, AckInv,
                      rpc # "idle", recovery_point > rack, wpc # "numbered"
               PROVE  \E i \in DOMAIN send_buf : send_buf[i].seq_end > rack
    BY DEF PartialAckHasBuffer
  <2> DEFINE n == Len(send_buf)
  <2>1. /\ n = snd_nxt - snd_una /\ DOMAIN send_buf = 1 .. n /\ n \in Nat
        /\ \A i \in DOMAIN send_buf : send_buf[i].seq_end = snd_una + i
    BY AcksAre DEF StreamInv, SendInv, Contiguous
  <2> HIDE DEF n
  <2>2. snd_una <= rack /\ recovery_point <= snd_nxt
    BY DEF AckInv
  <2>3. n \in 1 .. n /\ snd_una + n > rack
    BY <2>1, <2>2, AcksAre
  <2> QED
    BY <2>1, <2>3
<1> QED
  BY <1>1, <1>2, <1>3, InvariantHolds, AcksInOrder, PTL DEF Spec

\* A run without the reader is a run: what is proved of Spec holds of SpecUnread.
THEOREM UnreadIsSpec == SpecUnread => Spec
<1>1. [NextUnread]_vars => [Next]_vars
  BY DEF NextUnread, Next
<1> QED
  BY <1>1, PTL DEF SpecUnread, Spec

-----------------------------------------------------------------------------
(* The ring buffer.                                                        *)

\* What the array b holds between the indices h and t, as functions of the
\* indices, so that the lemmas speak of the state before a step and after it.
UsedOf(h, t) == (t - h + size) % size
Bytes(h, t, b) == [i \in 1 .. UsedOf(h, t) |-> b[(h + i - 1) % size]]

LEMMA SizeIs == size \in Nat \ {0} /\ size = Cap + 1 /\ Cap \in Nat \ {0}
  BY CapAssumption DEF size

\* A sum of two indices, reduced, is an index: at most one turn is taken off.
LEMMA Wrapped ==
  ASSUME NEW x \in 0 .. 2 * size - 1
  PROVE  /\ x % size \in Index
         /\ x % size = IF x < size THEN x ELSE x - size
<1> USE SizeIs DEF Index
<1>1. CASE x < size
  <2>1. x \in 0 .. size - 1
    BY <1>1
  <2>2. x % size = x
    BY <2>1, SMTT(30)
  <2> QED  BY <2>1, <2>2
<1>2. CASE ~(x < size)
  <2>1. x \in size .. 2 * size - 1
    BY <1>2
  <2>2. x % size = x - size
    BY <2>1, SMTT(30)
  <2> QED  BY <1>2, <2>1, <2>2
<1> QED  BY <1>1, <1>2

\* The number of unread bytes; one byte of the array always stays unused.
LEMMA UsedIs ==
  ASSUME NEW h \in Index, NEW t \in Index
  PROVE  /\ UsedOf(h, t) \in 0 .. Cap
         /\ UsedOf(h, t) = IF t >= h THEN t - h ELSE t - h + size
<1> DEFINE x == t - h + size
<1>1. x \in 0 .. 2 * size - 1
  BY SizeIs DEF Index
<1>2. /\ x % size \in Index
      /\ x % size = IF x < size THEN x ELSE x - size
  BY <1>1, Wrapped
<1>3. UsedOf(h, t) = x % size
  BY DEF UsedOf
<1> QED  BY <1>2, <1>3, SizeIs DEF Index

\* Moving an index on by no more than Cap bytes.
LEMMA AdvanceIs ==
  ASSUME NEW h \in Index, NEW len \in 0 .. Cap
  PROVE  /\ Advance(h, len) \in Index
         /\ Advance(h, len) = IF h + len < size THEN h + len ELSE h + len - size
<1> DEFINE x == h + len
<1>1. x \in 0 .. 2 * size - 1
  BY SizeIs DEF Index
<1>2. /\ x % size \in Index
      /\ x % size = IF x < size THEN x ELSE x - size
  BY <1>1, Wrapped
<1>3. Advance(h, len) = x % size
  BY DEF Advance
<1> QED  BY <1>2, <1>3, SizeIs DEF Index

\* The unread bytes form a sequence, whose i-th byte lies where the code's
\* copies look for it.
LEMMA BytesAre ==
  ASSUME NEW h \in Index, NEW t \in Index, NEW b \in [Index -> Data]
  PROVE  /\ Bytes(h, t, b) \in Seq(Data)
         /\ Len(Bytes(h, t, b)) = UsedOf(h, t)
         /\ \A i \in 1 .. UsedOf(h, t) :
              Bytes(h, t, b)[i] = IF h + i - 1 < size THEN b[h + i - 1]
                                                      ELSE b[h + i - 1 - size]
<1>1. UsedOf(h, t) \in 0 .. Cap
  BY UsedIs
<1>2. ASSUME NEW i \in 1 .. UsedOf(h, t)
      PROVE  /\ (h + i - 1) % size \in Index
             /\ (h + i - 1) % size = IF h + i - 1 < size THEN h + i - 1 ELSE h + i - 1 - size
  <2> DEFINE x == h + i - 1
  <2>1. x \in 0 .. 2 * size - 1
    BY <1>1, SizeIs DEF Index
  <2>2. /\ x % size \in Index
        /\ x % size = IF x < size THEN x ELSE x - size
    BY <2>1, Wrapped
  <2> QED  BY <1>1, <2>2, SizeIs DEF Index
<1>4. Bytes(h, t, b) \in [1 .. UsedOf(h, t) -> Data]
  BY <1>2 DEF Bytes
<1>5. Bytes(h, t, b) \in Seq(Data)
  BY <1>1, <1>4, SeqDef
<1>6. Len(Bytes(h, t, b)) = UsedOf(h, t)
  BY <1>1, <1>4, <1>5, LenProperties
<1> QED  BY <1>2, <1>5, <1>6 DEF Bytes

\* A chunk is a sequence of bytes.
LEMMA ChunkIs ==
  ASSUME NEW s \in Chunk
  PROVE  /\ s \in Seq(Data)
         /\ Len(s) \in Nat
         /\ s \in [1 .. Len(s) -> Data]
<1>1. PICK n \in 1 .. MaxChunk : s \in [1 .. n -> Data]
  BY DEF Chunk
<1>2. s \in Seq(Data)
  BY <1>1, SeqDef, ChunkAssumption
<1> QED  BY <1>2, LenProperties

-----------------------------------------------------------------------------
(* The steps, under the type invariant.                                    *)

\* A read of n bytes copies out the oldest ones, wherever they wrap, and leaves
\* the others: it is a Take of the queue.
LEMMA RingReadStep ==
  ASSUME RingTypeOK, NEW n \in 0 .. MaxChunk, read_ring_buffer(n)
  PROVE  RingTypeOK' /\ Fifo!Take(n)
<1> DEFINE u == UsedOf(head, tail)
           len == IF u < n THEN u ELSE n
<1>1. /\ head \in Index /\ tail \in Index /\ buf \in [Index -> Data]
      /\ aborted \in BOOLEAN
  BY DEF RingTypeOK
<1>2. /\ u \in 0 .. Cap
      /\ u = IF tail >= head THEN tail - head ELSE tail - head + size
  BY <1>1, UsedIs
<1>3. n \in Nat
  BY ChunkAssumption
<1>4. len \in 0 .. u /\ len \in 0 .. Cap /\ len \in Nat
  BY <1>2, <1>3, SizeIs
<1>5. ring_buffer_used = u
  BY DEF ring_buffer_used, UsedOf
<1>6. /\ got' = CopyOut(len)
      /\ head' = Advance(head, len)
      /\ tail' = tail /\ buf' = buf /\ aborted' = aborted
  BY <1>5 DEF read_ring_buffer
<1>7. /\ head' \in Index
      /\ head' = IF head + len < size THEN head + len ELSE head + len - size
  BY <1>1, <1>4, <1>6, AdvanceIs
<1>8. UsedOf(head', tail') = u - len
  <2>1. UsedOf(head', tail') = IF tail >= head' THEN tail - head' ELSE tail - head' + size
    BY <1>1, <1>6, <1>7, UsedIs
  <2> HIDE DEF len, u
  <2> QED  BY <1>1, <1>2, <1>4, <1>7, <2>1, SizeIs DEF Index
<1>9. Unread = Bytes(head, tail, buf) /\ Unread' = Bytes(head', tail', buf')
  BY DEF Unread, Bytes, UsedOf, ring_buffer_used
<1>10. /\ Unread \in Seq(Data) /\ Len(Unread) = u
       /\ \A i \in 1 .. u : Unread[i] = IF head + i - 1 < size THEN buf[head + i - 1]
                                                             ELSE buf[head + i - 1 - size]
  BY <1>1, <1>9, BytesAre
<1>11. /\ Unread' \in Seq(Data) /\ Len(Unread') = u - len
       /\ \A i \in 1 .. u - len :
            Unread'[i] = IF head' + i - 1 < size THEN buf[head' + i - 1]
                                                 ELSE buf[head' + i - 1 - size]
  BY <1>1, <1>6, <1>7, <1>8, <1>9, BytesAre
<1> HIDE DEF len, u
\* What the two copies give, byte by byte.
<1>12. /\ DOMAIN got' = 1 .. len
       /\ \A i \in 1 .. len : got'[i] = Unread[i]
  <2>1. CASE head + len > size
    <3>1. got' = [i \in 1 .. len |-> IF i <= size - head THEN buf[head + i - 1]
                                                         ELSE buf[i - (size - head) - 1]]
      BY <1>6, <2>1 DEF CopyOut
    <3>2. \A i \in 1 .. len : i - (size - head) - 1 = head + i - 1 - size
      BY <1>1, <1>4, SizeIs DEF Index
    <3>3. \A i \in 1 .. len : i \in 1 .. u /\ (i <= size - head <=> head + i - 1 < size)
      BY <1>1, <1>2, <1>4, SizeIs DEF Index
    <3> QED  BY <1>10, <3>1, <3>2, <3>3
  <2>2. CASE ~(head + len > size)
    <3>1. got' = [i \in 1 .. len |-> buf[head + i - 1]]
      BY <1>6, <2>2 DEF CopyOut
    <3>2. \A i \in 1 .. len : i \in 1 .. u /\ head + i - 1 < size
      BY <1>1, <1>2, <1>4, <2>2, SizeIs DEF Index
    <3> QED  BY <1>10, <3>1, <3>2
  <2> QED  BY <2>1, <2>2
<1>13. got' \in Seq(Data) /\ Len(got') = len
  <2>1. \A i \in 1 .. len : Unread[i] \in Data
    BY <1>2, <1>4, <1>10, ElementOfSeq
  <2>2. got' = [i \in 1 .. len |-> got'[i]]
    BY <1>6 DEF CopyOut
  <2>3. got' \in [1 .. len -> Data]
    BY <1>12, <2>1, <2>2
  <2>4. got' \in Seq(Data)
    BY <1>4, <2>3, SeqDef
  <2> QED  BY <1>4, <2>3, <2>4, LenProperties
<1>14. RingTypeOK'
  BY <1>1, <1>6, <1>7, <1>13 DEF RingTypeOK
<1>15. got' = SubSeq(Unread, 1, len)
  <2>1. \A i \in 1 .. len : Unread[i] \in Data
    BY <1>2, <1>4, <1>10, ElementOfSeq
  <2>2. /\ SubSeq(Unread, 1, len) \in Seq(Data)
        /\ Len(SubSeq(Unread, 1, len)) = len
        /\ \A i \in 1 .. len : SubSeq(Unread, 1, len)[i] = Unread[i]
    <3>1. /\ SubSeq(Unread, 1, len) \in Seq(Data)
          /\ Len(SubSeq(Unread, 1, len)) = IF 1 <= len THEN len - 1 + 1 ELSE 0
          /\ \A i \in 1 .. len - 1 + 1 : SubSeq(Unread, 1, len)[i] = Unread[1 + i - 1]
      BY <1>4, <2>1, SubSeqProperties
    <3> QED  BY <1>4, <3>1
  <2> QED  BY <1>12, <1>13, <2>2, SeqEqual
<1>16. Unread' = SubSeq(Unread, len + 1, u)
  <2>1. \A i \in len + 1 .. u : Unread[i] \in Data
    BY <1>2, <1>4, <1>10, ElementOfSeq
  <2>2. /\ SubSeq(Unread, len + 1, u) \in Seq(Data)
        /\ Len(SubSeq(Unread, len + 1, u)) = u - len
        /\ \A i \in 1 .. u - len : SubSeq(Unread, len + 1, u)[i] = Unread[len + i]
    <3>1. /\ SubSeq(Unread, len + 1, u) \in Seq(Data)
          /\ Len(SubSeq(Unread, len + 1, u)) = IF len + 1 <= u THEN u - (len + 1) + 1 ELSE 0
          /\ \A i \in 1 .. u - (len + 1) + 1 : SubSeq(Unread, len + 1, u)[i] = Unread[len + 1 + i - 1]
      BY <1>2, <1>4, <2>1, SubSeqProperties
    <3> QED  BY <1>2, <1>4, <3>1
  <2>3. \A i \in 1 .. u - len : Unread'[i] = Unread[len + i]
    BY <1>1, <1>2, <1>4, <1>7, <1>10, <1>11, SizeIs DEF Index
  <2> QED  BY <1>11, <2>2, <2>3, SeqEqual
<1> QED  BY <1>3, <1>10, <1>14, <1>15, <1>16 DEF Fifo!Take, len

\* A write that fits appends its bytes to the unread ones and overwrites none of
\* them: it is a Put of the queue.  One that does not fit changes nothing.
LEMMA RingWriteStep ==
  ASSUME RingTypeOK, NEW s \in Chunk, write_ring_buffer(s)
  PROVE  RingTypeOK' /\ (Fifo!Put(s) \/ UNCHANGED <<Unread, got>>)
<1> DEFINE u == UsedOf(head, tail)
           len == Len(s)
<1>1. /\ head \in Index /\ tail \in Index /\ buf \in [Index -> Data]
      /\ aborted \in BOOLEAN /\ got \in Seq(Data)
  BY DEF RingTypeOK
<1>2. /\ u \in 0 .. Cap
      /\ u = IF tail >= head THEN tail - head ELSE tail - head + size
  BY <1>1, UsedIs
<1>3. s \in Seq(Data) /\ len \in Nat /\ s \in [1 .. len -> Data]
  BY ChunkIs
<1>4. ring_buffer_free = Cap - u
  BY <1>2, SizeIs DEF ring_buffer_free, ring_buffer_used, UsedOf
<1>5. Unread = Bytes(head, tail, buf) /\ Unread' = Bytes(head', tail', buf')
  BY DEF Unread, Bytes, UsedOf, ring_buffer_used
<1>6. /\ Unread \in Seq(Data) /\ Len(Unread) = u
      /\ \A i \in 1 .. u : Unread[i] = IF head + i - 1 < size THEN buf[head + i - 1]
                                                            ELSE buf[head + i - 1 - size]
  BY <1>1, <1>5, BytesAre
<1>7. CASE ~(ring_buffer_free >= len)
  <2>1. UNCHANGED <<head, tail, buf, got>> /\ aborted' = TRUE
    BY <1>7 DEF write_ring_buffer
  <2> QED  BY <1>1, <1>5, <2>1 DEF RingTypeOK
<1>8. CASE ring_buffer_free >= len
  <2>1. /\ buf' = CopyIn(s)
        /\ tail' = Advance(tail, len)
        /\ head' = head /\ got' = got /\ aborted' = aborted
    BY <1>8 DEF write_ring_buffer
  <2>2. u + len <= Cap /\ len \in 0 .. Cap
    BY <1>2, <1>3, <1>4, <1>8, SizeIs
  <2>3. /\ tail' \in Index
        /\ tail' = IF tail + len < size THEN tail + len ELSE tail + len - size
    BY <1>1, <2>1, <2>2, AdvanceIs
  <2>4. UsedOf(head', tail') = u + len
    <3>1. UsedOf(head', tail') = IF tail' >= head THEN tail' - head ELSE tail' - head + size
      BY <1>1, <2>1, <2>3, UsedIs
    <3> HIDE DEF u, len
    <3> QED  BY <1>1, <1>2, <2>2, <2>3, <3>1, SizeIs DEF Index
  <2> HIDE DEF u, len
  \* The cell the j-th byte of the chunk is copied to, and the cells kept.
  <2>5. /\ DOMAIN buf' = Index
        /\ \A k \in Index :
             buf'[k] = IF k >= tail /\ k < tail + len THEN s[k - tail + 1]
                       ELSE IF k < tail + len - size THEN s[size - tail + k + 1]
                       ELSE buf[k]
    <3>1. CASE tail + len > size
      <4>1. buf' = [i \in Index |-> IF i >= tail THEN s[i - tail + 1]
                      ELSE IF i < len - (size - tail) THEN s[size - tail + i + 1] ELSE buf[i]]
        BY <2>1, <3>1 DEF CopyIn, len
      <4>2. \A k \in Index : /\ k < tail + len
                             /\ k < len - (size - tail) <=> k < tail + len - size
        BY <1>1, <2>2, <3>1, SizeIs DEF Index
      <4> QED  BY <4>1, <4>2
    <3>2. CASE ~(tail + len > size)
      <4>1. buf' = [i \in Index |-> IF i >= tail /\ i < tail + len
                                     THEN s[i - tail + 1] ELSE buf[i]]
        BY <2>1, <3>2 DEF CopyIn, len
      <4>2. \A k \in Index : ~(k < tail + len - size)
        BY <1>1, <2>2, <3>2, SizeIs DEF Index
      <4> QED  BY <4>1, <4>2
    <3> QED  BY <3>1, <3>2
  <2>6. buf' \in [Index -> Data]
    <3>1. ASSUME NEW k \in Index  PROVE buf'[k] \in Data
      <4>1. k >= tail /\ k < tail + len => k - tail + 1 \in 1 .. len
        BY <1>1, <2>2, SizeIs DEF Index
      <4>2. k < tail + len - size => size - tail + k + 1 \in 1 .. len
        BY <1>1, <2>2, SizeIs DEF Index
      <4> QED  BY <1>1, <1>3, <2>5, <4>1, <4>2
    <3>2. buf' = [k \in Index |-> buf'[k]]
      BY <2>1, <2>5 DEF CopyIn
    <3> QED  BY <3>1, <3>2
  <2>7. RingTypeOK'
    BY <1>1, <2>1, <2>3, <2>6 DEF RingTypeOK
  <2>8. /\ Unread' \in Seq(Data) /\ Len(Unread') = u + len
        /\ \A i \in 1 .. u + len :
             Unread'[i] = IF head + i - 1 < size THEN buf'[head + i - 1]
                                                 ELSE buf'[head + i - 1 - size]
    <3>1. head' \in Index /\ tail' \in Index /\ buf' \in [Index -> Data]
      BY <1>1, <2>1, <2>3, <2>6
    <3>2. /\ Unread' \in Seq(Data) /\ Len(Unread') = u + len
          /\ \A i \in 1 .. u + len :
               Unread'[i] = IF head' + i - 1 < size THEN buf'[head' + i - 1]
                                                    ELSE buf'[head' + i - 1 - size]
      BY <1>5, <2>4, <3>1, BytesAre
    <3> QED  BY <2>1, <3>2
  <2>9. /\ Unread \o s \in Seq(Data)
        /\ Len(Unread \o s) = u + len
        /\ \A i \in 1 .. u + len : (Unread \o s)[i] = IF i <= u THEN Unread[i] ELSE s[i - u]
    BY <1>3, <1>6, ConcatProperties DEF len
  <2>10. \A i \in 1 .. u + len : Unread'[i] = (Unread \o s)[i]
    <3>1. ASSUME NEW i \in 1 .. u  PROVE Unread'[i] = Unread[i]
      <4> DEFINE k == IF head + i - 1 < size THEN head + i - 1 ELSE head + i - 1 - size
      <4>1. k \in Index
        BY <1>1, <1>2, <2>2, SizeIs DEF Index
      <4>2. ~(k >= tail /\ k < tail + len) /\ ~(k < tail + len - size)
        BY <1>1, <1>2, <2>2, SizeIs DEF Index
      <4>3. buf'[k] = buf[k]
        BY <2>5, <4>1, <4>2
      <4>4. Unread'[i] = buf'[k]
        BY <1>2, <2>2, <2>8
      <4>5. Unread[i] = buf[k]
        BY <1>6
      <4> QED  BY <4>3, <4>4, <4>5
    <3>2. ASSUME NEW i \in u + 1 .. u + len  PROVE Unread'[i] = s[i - u]
      <4> DEFINE k == IF head + i - 1 < size THEN head + i - 1 ELSE head + i - 1 - size
      <4>1. k \in Index
        BY <1>1, <1>2, <2>2, SizeIs DEF Index
      <4>2. \/ k >= tail /\ k < tail + len /\ k - tail + 1 = i - u
            \/ ~(k >= tail /\ k < tail + len) /\ k < tail + len - size
                 /\ size - tail + k + 1 = i - u
        BY <1>1, <1>2, <2>2, SizeIs DEF Index
      <4>3. Unread'[i] = buf'[k]
        <5> u \in Nat /\ len \in Nat
          BY <1>2, <2>2
        <5>1. i \in 1 .. u + len
          OBVIOUS
        <5> QED  BY <2>8, <5>1
      <4> HIDE DEF k
      <4>4. buf'[k] = s[i - u]
        <5>1. CASE k >= tail /\ k < tail + len /\ k - tail + 1 = i - u
          BY <2>5, <4>1, <5>1
        <5>2. CASE /\ ~(k >= tail /\ k < tail + len) /\ k < tail + len - size
                   /\ size - tail + k + 1 = i - u
          BY <2>5, <4>1, <5>2
        <5> QED
          BY <4>2, <5>1, <5>2
      <4> QED  BY <4>3, <4>4
    <3> QED  BY <1>2, <2>2, <2>9, <3>1, <3>2
  <2>11. Unread' = Unread \o s
    BY <2>8, <2>9, <2>10, SeqEqual
  <2>12. Fifo!Put(s)
    BY <1>6, <2>1, <2>2, <2>11 DEF Fifo!Put, len
  <2> QED  BY <2>7, <2>12
<1> QED  BY <1>7, <1>8

-----------------------------------------------------------------------------
(* The theorems.                                                           *)

LEMMA RingInitStep == RingInit => RingTypeOK /\ Fifo!Init
<1> SUFFICES ASSUME RingInit PROVE RingTypeOK /\ Fifo!Init
  OBVIOUS
<1>1. head = 0 /\ tail = 0 /\ buf = [i \in Index |-> Zero] /\ got = <<>> /\ aborted = FALSE
  BY DEF RingInit
<1>2. RingTypeOK
  BY <1>1, ZeroAssumption, SizeIs DEF RingTypeOK, Index
<1>3. UsedOf(head, tail) = 0
  BY <1>1, <1>2, UsedIs DEF RingTypeOK
<1>4. Unread = Bytes(head, tail, buf)
  BY DEF Unread, Bytes, UsedOf, ring_buffer_used
<1>5. Unread \in Seq(Data) /\ Len(Unread) = 0
  BY <1>2, <1>3, <1>4, BytesAre DEF RingTypeOK
<1>6. Unread = <<>>
  BY <1>5, EmptySeq
<1> QED  BY <1>1, <1>2, <1>6 DEF Fifo!Init

LEMMA RingNextStep ==
  RingTypeOK /\ [RingNext]_ringVars => RingTypeOK' /\ [Fifo!Next]_<<Unread, got>>
<1> SUFFICES ASSUME RingTypeOK, [RingNext]_ringVars
             PROVE  RingTypeOK' /\ [Fifo!Next]_<<Unread, got>>
  OBVIOUS
<1>1. CASE UNCHANGED ringVars
  BY <1>1 DEF ringVars, RingTypeOK, Unread, ring_buffer_used
<1>2. ASSUME NEW s \in Chunk, write_ring_buffer(s)
      PROVE  RingTypeOK' /\ [Fifo!Next]_<<Unread, got>>
  BY <1>2, RingWriteStep DEF Fifo!Next
<1>3. ASSUME NEW n \in 0 .. MaxChunk, read_ring_buffer(n)
      PROVE  RingTypeOK' /\ [Fifo!Next]_<<Unread, got>>
  BY <1>3, RingReadStep DEF Fifo!Next
<1> QED  BY <1>1, <1>2, <1>3 DEF RingNext

\* The indices of the ring stay inside the array, whatever its size and however
\* long the reads and writes.
THEOREM RingTypeCorrect == RingSpec => []RingTypeOK
<1>1. RingInit => RingTypeOK
  BY RingInitStep
<1>2. RingTypeOK /\ [RingNext]_ringVars => RingTypeOK'
  BY RingNextStep
<1> QED  BY <1>1, <1>2, PTL DEF RingSpec

\* The ring buffer is a bounded queue: read_ring_buffer returns the bytes given
\* to write_ring_buffer in order, each once, across every wrap.
THEOREM RingIsFifo == RingSpec => FifoSpec
<1>1. RingInit => Fifo!Init
  BY RingInitStep
<1>2. RingTypeOK /\ [RingNext]_ringVars => [Fifo!Next]_Fifo!vars
  BY RingNextStep DEF Fifo!vars
<1> QED  BY <1>1, <1>2, RingTypeCorrect, PTL DEF RingSpec, FifoSpec, Fifo!Spec
=============================================================================
