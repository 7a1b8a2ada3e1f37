------------------------------- MODULE TcpConn -------------------------------
(***************************************************************************)
(* Opening and closing connections in lab-17 (prj-17): the state machine   *)
(* of tcp_process, the hash bucket, the timer list and the reference       *)
(* counts a socket lives in, connect, accept and close.                    *)
(*                                                                         *)
(* One server process listens; client processes run one after another on   *)
(* the other host, and each may be killed at any time.  Every one of them  *)
(* gets the same port from tcp_get_port and, rand() being unseeded, the    *)
(* same initial sequence number, so all connections have the same four     *)
(* addresses and fall into the same bucket.  A connection carries at most  *)
(* one segment of data: the stream itself is the subject of TcpStream.     *)
(* The threads of a host interleave: application, receiver and timer.      *)
(*                                                                         *)
(* Nothing locks the buckets, the accept queue, the states of the sockets, *)
(* and tcp_set_timewait_timer inserts without timer_lock.  A call on a     *)
(* list is one step here, and so is the end of a socket, its state and its *)
(* place in the table together.  Where another thread may be in the middle *)
(* of such a call, the two may overlap instead, word by word: then the     *)
(* lists are torn, and the model stops (ListsOverlap).                     *)
(***************************************************************************)
EXTENDS Integers, Sequences, SequencesExt, SynchWait, DList

CONSTANTS Client,           \* sockets of the successive client processes
          Child,            \* sockets the listening socket can allocate
          Table, Timers,    \* heads of the server's hash bucket and timer list
          CTable, CTimers,  \* and of the client's
          HasData,          \* the client writes a segment before it closes
          MaxTimes,         \* a buffer expiring with this count gives up (3)
          LinkCap           \* bound: packets in flight to each host

ASSUME ConnAssumption ==
  /\ HasData \in BOOLEAN
  /\ MaxTimes \in Nat \ {0} /\ LinkCap \in [{"server", "client"} -> Nat \ {0}]
  /\ IsFiniteSet(Client) /\ IsFiniteSet(Child) /\ Client \cap Child = {}
  /\ {Table, CTable} \cap (Client \cup Child) = {} /\ Table # CTable /\ Timers # CTimers

VARIABLES
  sock,                     \* the sockets
  hl,                       \* memory of the hash_list pointers
  tl,                       \* memory of the timers' list pointers
  net,                      \* packets on their way to "server" and to "client"
  running,                  \* the running client process: its socket
  unused,                   \* sockets of the clients not yet started
  cpc,                      \* where the client application is
  wait_connect,
  accept_queue, wait_accept,
  apc,                      \* where the server application is
  accepted,                 \* the socket accept took from the queue
  rpc,                      \* where the server's receiving thread is
  queued,                   \* the socket that it is putting into the queue
  giving,                   \* the socket that the client's timer thread is giving up
  torn                      \* two threads have used a list at once

connVars == <<sock, hl, tl>>
clientVars == <<running, unused, cpc, wait_connect>>
threadVars == <<accept_queue, wait_accept, apc, accepted, rpc, queued, giving, torn>>
vars == <<connVars, net, clientVars, threadVars>>

-----------------------------------------------------------------------------
Sock == Client \cup Child
RetransTimer(x) == <<x, "retrans">>
Timewait(x) == <<x, "timewait">>
TableOf(x) == IF x \in Child THEN Table ELSE CTable
TimersOf(x) == IF x \in Child THEN Timers ELSE CTimers
HashNode == Sock \cup {Table, CTable}
TimerNode == (Sock \X {"retrans", "timewait"})
               \cup {<<Timers, "head">>, <<CTimers, "head">>}
TimerHead(x) == <<TimersOf(x), "head">>
Own == CHOOSE x \in running : TRUE         \* the socket of the client that runs
HostOf(x) == IF x \in Child THEN "server" ELSE "client"
Peer(x) == IF x \in Child THEN "client" ELSE "server"

Iss == 1

\* Packets.  A PSH and a SYNACK or FINACK carry an acknowledgement as well.
Kinds == {"SYN", "SYNACK", "ACK", "PSH", "FIN", "FINACK", "RST"}
HasAck(p) == p.kind \in {"SYNACK", "ACK", "PSH", "FINACK"}
HasSyn(p) == p.kind \in {"SYN", "SYNACK"}
HasFin(p) == p.kind \in {"FIN", "FINACK"}
SeqEnd(p) == p.seq + (IF HasSyn(p) \/ HasFin(p) \/ p.kind = "PSH" THEN 1 ELSE 0)

Packet(s, kind) == [kind |-> kind, seq |-> s.snd_nxt, ack |-> s.rcv_nxt]

Packets == UNION {{Head(net[h])} : h \in {g \in DOMAIN net : net[g] # <<>>}}

\* ip_send_packet over the lossy link; what does not fit is dropped.
Transmit(n, host, ps) ==
  LET all == n[host] \o ps
  IN  [n EXCEPT ![host] = IF Len(all) <= LinkCap[host] THEN all ELSE SubSeq(all, 1, LinkCap[host])]

\* The socket after it has sent a packet of its own: all but a plain ACK and a
\* RST take a sequence number and are kept for retransmission.
Sent(s, kind) ==
  IF kind \in {"ACK", "RST"} THEN s
  ELSE [s EXCEPT !.snd_nxt = @ + 1,
                 !.send_buf = Append(@, [pkt |-> Packet(s, kind), times |-> 1])]

\* alloc_tcp_sock: the retransmission timer holds the first reference.
NewSock == [state |-> "CLOSED", snd_una |-> 0, snd_nxt |-> 0, rcv_nxt |-> 0,
            send_buf |-> <<>>, got |-> 0, refs |-> 1, freed |-> FALSE]
Fresh(x) == sock[x].snd_nxt = 0

Init ==
  /\ sock = [x \in Sock |-> NewSock]
  /\ hl = init_list_head(HashNode)
  /\ tl = init_list_head(TimerNode)
  /\ net = [h \in {"server", "client"} |-> <<>>]
  /\ running = {} /\ unused = Client
  /\ cpc = "exited" /\ wait_connect = wait_init
  /\ accept_queue = <<>> /\ wait_accept = wait_init
  /\ apc = "check" /\ accepted = {}
  /\ rpc = "ready" /\ queued = {} /\ giving = {} /\ torn = FALSE

-----------------------------------------------------------------------------
(* The tables, the timer list, and the references they hold.               *)

Hashed(x) == x \in Entries(hl, TableOf(x))
Armed(t, x) == t \in Entries(tl, TimerHead(x))

\* Mutant: the last reference does not free the socket.
ReleaseLate(s) == [s EXCEPT !.refs = @ - 1, !.freed = @ \/ s.refs <= 0]

\* free_tcp_sock
Release(s) == [s EXCEPT !.refs = @ - 1, !.freed = @ \/ s.refs <= 1]

Hold(s) == [s EXCEPT !.refs = @ + 1]

\* Mutant: the test whether the addresses are in use is gone.
HashAgain(x) == list_add_head(hl, x, TableOf(x))

\* Mutant: a socket is put into a table once.
HashOnce(x) == IF hl.next[x] = x THEN list_add_head(hl, x, TableOf(x)) ELSE hl

\* tcp_hash: nothing is done if a socket with the same four addresses is there.
Hash(x) == IF hl.next[TableOf(x)] = TableOf(x) THEN list_add_head(hl, x, TableOf(x)) ELSE hl

\* tcp_unhash.  Deleting does not reset the pointers of the socket, so that the
\* test whether it is in a table holds for ever once it has been in one.
Unhash(x) == IF list_empty(hl, x) THEN hl ELSE list_delete_entry(hl, x)
Unhashed(s, x) == IF list_empty(hl, x) THEN s ELSE Release(s)

\* tcp_bind_unhash of a socket without a parent, which is bound once and for all.
Unbound(s, x) == IF x \in Client THEN Release(s) ELSE s

\* Mutant: the timer is not put into the list.
TimewaitUnarmed(x) == tl

\* tcp_set_timewait_timer
ArmTimewait(x) == list_add_tail(tl, Timewait(x), TimerHead(x))

-----------------------------------------------------------------------------
(* The receiving thread: tcp_sock_lookup and tcp_process.                  *)

\* The receiving thread of the host h is between two packets.
Ready(h) == h = "client" \/ rpc = "ready"

\* The packet p is handled by the socket x.
For(x, p) == /\ net[HostOf(x)] # <<>> /\ p = Head(net[HostOf(x)])
             /\ hl.next[TableOf(x)] = x /\ Ready(HostOf(x))

\* What tcp_process does before it looks at the state: a packet without PSH
\* sets rcv_nxt, wherever it is; acknowledged buffers are freed.  What it sends
\* again when acknowledgements repeat is left out: see TcpSend.
Acknowledged(s, p) ==
  LET n == IF HasAck(p)
           THEN Max({k \in 0 .. Len(s.send_buf) :
                       \A i \in 1 .. k : SeqEnd(s.send_buf[i].pkt) <= p.ack})
           ELSE 0
  IN  [s EXCEPT !.rcv_nxt  = IF p.kind = "PSH" THEN @ ELSE SeqEnd(p),
                !.snd_una  = IF n = 0 THEN @ ELSE SeqEnd(s.send_buf[n].pkt),
                !.send_buf = SubSeq(@, n + 1, Len(@))]

\* Mutant: an old segment is taken for the expected one.
AcceptOld(s, p) == IF p.seq <= s.rcv_nxt THEN [s EXCEPT !.rcv_nxt = p.seq + 1, !.got = @ + 1] ELSE s

\* tcp_recv_psh_ack_tool, of a segment that is not ahead of rcv_nxt.
Accept(s, p) == IF p.seq = s.rcv_nxt THEN [s EXCEPT !.rcv_nxt = @ + 1, !.got = @ + 1] ELSE s

\* The socket becomes s and sends the packets ps; the packet handled is gone.
Becomes(x, s, ps) ==
  /\ sock' = [sock EXCEPT ![x] = s]
  /\ net' = Transmit([net EXCEPT ![HostOf(x)] = Tail(@)], Peer(x), ps)

RecvNobody(h, head) ==
  /\ net[h] # <<>> /\ hl.next[head] = head /\ Ready(h)
  /\ h = "client" \/ ~HasSyn(Head(net[h]))
  /\ net' = [net EXCEPT ![h] = Tail(@)]
  /\ UNCHANGED <<connVars, clientVars, threadVars>>

\* LISTEN: a SYN allocates a child, which goes into the bucket at once.
RecvListen ==
  /\ net["server"] # <<>> /\ hl.next[Table] = Table /\ Ready("server")
  /\ HasSyn(Head(net["server"]))
  /\ LET p == Head(net["server"])
         c == CHOOSE c \in Child : Fresh(c)
         s == [NewSock EXCEPT !.state = "SYN_RECV", !.snd_nxt = Iss, !.rcv_nxt = SeqEnd(p)]
     IN  IF \A x \in Child : ~Fresh(x)       \* bound: the SYN is lost
         THEN /\ net' = [net EXCEPT !["server"] = Tail(@)]
              /\ UNCHANGED connVars
         ELSE /\ tl' = list_add_tail(tl, RetransTimer(c), TimerHead(c))
              /\ hl' = Hash(c)
              /\ sock' = [sock EXCEPT ![c] = Hold(Sent(s, "SYNACK"))]
              /\ net' = Transmit([net EXCEPT !["server"] = Tail(@)], "client",
                                 <<Packet(s, "SYNACK")>>)
  /\ UNCHANGED <<clientVars, threadVars>>

\* Mutant: so does a repeated SYN.
CompletesAny(p) == TRUE

\* What ends the wait in SYN_RECV.
Completes(p) == HasAck(p)

\* SYN_RECV: an acknowledgement completes the handshake.  Only one without data
\* puts the socket into the accept queue, before it is ESTABLISHED.
RecvSynRecv(x) ==
  \E p \in Packets :
    LET s == Acknowledged(sock[x], p)
    IN  /\ For(x, p) /\ sock[x].state = "SYN_RECV"
        /\ IF ~Completes(p) THEN Becomes(x, s, <<>>) /\ UNCHANGED threadVars
           ELSE IF p.kind = "PSH"
           THEN LET t == Accept([s EXCEPT !.state = "ESTABLISHED"], p)
                IN  Becomes(x, t, <<Packet(t, "ACK")>>) /\ UNCHANGED threadVars
           ELSE /\ Becomes(x, s, <<>>)
                /\ accept_queue' = Append(accept_queue, x)
                /\ rpc' = "enqueued" /\ queued' = {x}
                /\ UNCHANGED <<wait_accept, apc, accepted, giving, torn>>
        /\ UNCHANGED <<hl, tl, clientVars>>

\* Mutant: whoever waits in accept is not woken.
QueueWakesNobody ==
  /\ rpc = "enqueued" /\ rpc' = "woken"
  /\ UNCHANGED <<connVars, net, clientVars, accept_queue, wait_accept, apc, accepted, queued, giving, torn>>

QueueWakes ==
  /\ rpc = "enqueued" /\ rpc' = "woken"
  /\ wait_accept' = wake_up(wait_accept)
  /\ UNCHANGED <<connVars, net, clientVars, accept_queue, apc, accepted, queued, giving, torn>>

\* accept may have returned the socket by now, or the timer thread given it up.
QueueEstablishes ==
  /\ rpc = "woken" /\ rpc' = "ready" /\ queued' = {}
  /\ LET x == CHOOSE x \in queued : TRUE
     IN  sock' = [sock EXCEPT ![x].state = "ESTABLISHED"]
  /\ UNCHANGED <<hl, tl, net, clientVars, accept_queue, wait_accept, apc, accepted, giving, torn>>

\* SYN_SENT: only the connecting thread is woken; it changes the state.
RecvSynSent(x) ==
  \E p \in Packets :
    /\ For(x, p) /\ sock[x].state = "SYN_SENT"
    /\ Becomes(x, Acknowledged(sock[x], p), <<>>)
    /\ wait_connect' = IF p.kind = "SYNACK" THEN wake_up(wait_connect) ELSE wait_connect
    /\ UNCHANGED <<hl, tl, running, unused, cpc, threadVars>>

\* ESTABLISHED: a FIN is answered with ACK and FIN at once.
RecvEstablished(x) ==
  \E p \in Packets :
    LET s == Acknowledged(sock[x], p)
    IN  /\ For(x, p) /\ sock[x].state = "ESTABLISHED"
        /\ IF HasFin(p)
           THEN LET t == [s EXCEPT !.state = "LAST_ACK"]
                IN  /\ Becomes(x, Hold(Sent(t, "FINACK")), <<Packet(t, "FINACK")>>)
                    /\ tl' = ArmTimewait(x)
           ELSE /\ IF p.kind = "PSH"
                   THEN LET t == Accept(s, p) IN Becomes(x, t, <<Packet(t, "ACK")>>)
                   ELSE Becomes(x, s, <<>>)
                /\ UNCHANGED tl
        /\ UNCHANGED <<hl, clientVars, threadVars>>

\* LAST_ACK: any acknowledgement closes the socket; its timer stays armed.
RecvLastAck(x) ==
  \E p \in Packets :
    LET s == Acknowledged(sock[x], p)
    IN  /\ For(x, p) /\ sock[x].state = "LAST_ACK"
        /\ IF HasAck(p)
           THEN /\ Becomes(x, Unhashed(Unbound([s EXCEPT !.state = "CLOSED"], x), x), <<>>)
                /\ hl' = Unhash(x)
           ELSE Becomes(x, s, <<>>) /\ UNCHANGED hl
        /\ UNCHANGED <<tl, clientVars, threadVars>>

\* Mutant: an acknowledgement is as good as a FIN.
PeerClosedAck(p) == HasAck(p)

\* The acknowledgement that also brings the peer's FIN.
PeerClosed(p) == p.kind = "FINACK"

\* FIN_WAIT_1: any acknowledgement, not only that of the FIN.
RecvFinWait1(x) ==
  \E p \in Packets :
    LET s == Acknowledged(sock[x], p)
        t == [s EXCEPT !.state = "TIME_WAIT"]
    IN  /\ For(x, p) /\ sock[x].state = "FIN_WAIT_1"
        /\ IF PeerClosed(p)
           THEN Becomes(x, Hold(t), <<Packet(t, "ACK")>>) /\ tl' = ArmTimewait(x)
           ELSE /\ Becomes(x, IF HasAck(p) THEN [s EXCEPT !.state = "FIN_WAIT_2"] ELSE s, <<>>)
                /\ UNCHANGED tl
        /\ UNCHANGED <<hl, clientVars, threadVars>>

RecvFinWait2(x) ==
  \E p \in Packets :
    LET s == Acknowledged(sock[x], p)
        t == [s EXCEPT !.state = "TIME_WAIT"]
    IN  /\ For(x, p) /\ sock[x].state = "FIN_WAIT_2"
        /\ IF HasFin(p)
           THEN Becomes(x, Hold(t), <<Packet(t, "ACK")>>) /\ tl' = ArmTimewait(x)
           ELSE Becomes(x, s, <<>>) /\ UNCHANGED tl
        /\ UNCHANGED <<hl, clientVars, threadVars>>

\* CLOSED and TIME_WAIT do nothing more.
RecvIgnored(x) ==
  \E p \in Packets :
    /\ For(x, p) /\ sock[x].state \in {"CLOSED", "TIME_WAIT"}
    /\ Becomes(x, Acknowledged(sock[x], p), <<>>)
    /\ UNCHANGED <<hl, tl, clientVars, threadVars>>

Receive == \/ RecvNobody("client", CTable) \/ RecvNobody("server", Table) \/ RecvListen
           \/ \E x \in Sock : \/ RecvSynRecv(x) \/ RecvSynSent(x) \/ RecvEstablished(x)
                              \/ RecvLastAck(x) \/ RecvFinWait1(x) \/ RecvFinWait2(x)
                              \/ RecvIgnored(x)
           \/ QueueWakes \/ QueueEstablishes

-----------------------------------------------------------------------------
(* The timer thread: tcp_scan_timer_list.  When a timer expires, relative  *)
(* to everything else, is left open.                                       *)

\* The i-th buffer of the socket s has been sent once more.
Tried(s, i) == [s EXCEPT !.send_buf[i].times = @ + 1]

\* The timer thread of the host of x is not giving up a socket.
Scanning(x) == x \in Child \/ giving = {}

Resend(x, i) ==
  /\ Scanning(x)
  /\ sock[x].state # "CLOSED" /\ sock[x].send_buf[i].times < MaxTimes
  /\ Armed(RetransTimer(x), x)
  /\ sock' = [sock EXCEPT ![x] = Tried(@, i)]
  /\ net' = Transmit(net, Peer(x), <<sock[x].send_buf[i].pkt>>)
  /\ UNCHANGED <<hl, tl, clientVars, threadVars>>

\* The buffer has been sent often enough: the timer of its socket leaves the list.
Exhausted(x, i) ==
  /\ Scanning(x)
  /\ sock[x].state # "CLOSED" /\ sock[x].send_buf[i].times = MaxTimes
  /\ Armed(RetransTimer(x), x)
  /\ tl' = list_delete_entry(tl, RetransTimer(x))

\* A socket without a parent is taken out of its table, and the connecting thread
\* is let go, before it is closed.
GiveUp(x, i) ==
  /\ x \in Client /\ Exhausted(x, i)
  /\ sock' = [sock EXCEPT ![x] = Unhashed(Tried(@, i), x)]
  /\ hl' = Unhash(x)
  /\ wait_connect' = wait_exit(wait_connect)
  /\ giving' = {x}
  /\ UNCHANGED <<net, running, unused, cpc, accept_queue, wait_accept, apc, accepted, rpc, queued, torn>>

GivenUp ==
  /\ giving # {} /\ giving' = {}
  /\ sock' = [sock EXCEPT ![Own].state = "CLOSED"]
  /\ net' = Transmit(net, "server", <<Packet(sock[Own], "RST")>>)
  /\ UNCHANGED <<hl, tl, clientVars, accept_queue, wait_accept, apc, accepted, rpc, queued, torn>>

\* One with a parent stays in its table, and nobody here waits for it.
GiveUpChild(x, i) ==
  /\ x \in Child /\ Exhausted(x, i)
  /\ sock' = [sock EXCEPT ![x] = [Tried(@, i) EXCEPT !.state = "CLOSED"]]
  /\ net' = Transmit(net, "client", <<Packet(sock[x], "RST")>>)
  /\ UNCHANGED <<hl, clientVars, threadVars>>

TimewaitExpires(x) ==
  /\ Scanning(x) /\ Armed(Timewait(x), x)
  /\ tl' = list_delete_entry(tl, Timewait(x))
  /\ sock' = [sock EXCEPT ![x] = Unhashed(Unbound([@ EXCEPT !.state = "CLOSED"], x), x)]
  /\ hl' = Unhash(x)
  /\ UNCHANGED <<net, clientVars, threadVars>>

Timer == \/ \E x \in Sock :
              \/ \E i \in DOMAIN sock[x].send_buf : Resend(x, i) \/ GiveUp(x, i) \/ GiveUpChild(x, i)
              \/ TimewaitExpires(x)
         \/ GivenUp

-----------------------------------------------------------------------------
(* The client application: tcp_client.  Its waits do not end spuriously:   *)
(* connect would take that for an answer, as it does not look at the state.*)

At(pc) == cpc = pc /\ running # {}
ClientStep(pc, s) == cpc' = pc /\ sock' = [sock EXCEPT ![Own] = s]

ClientStarts ==
  /\ running = {} /\ unused # {}
  /\ LET x == CHOOSE x \in unused : TRUE
     IN  /\ running' = {x} /\ unused' = unused \ {x}
         /\ tl' = list_add_tail(tl, RetransTimer(x), TimerHead(x))
  /\ cpc' = "connect"
  /\ UNCHANGED <<sock, hl, net, wait_connect, threadVars>>

\* tcp_sock_connect as far as sleep_on: bound, hashed, and the SYN sent.
Connect ==
  /\ At("connect")
  /\ LET s == [sock[Own] EXCEPT !.state = "SYN_SENT", !.snd_nxt = Iss]
     IN  /\ ClientStep("sleep", Hold(Hold(Sent(s, "SYN"))))
         /\ net' = Transmit(net, "server", <<Packet(s, "SYN")>>)
  /\ hl' = Hash(Own)
  /\ UNCHANGED <<tl, running, unused, wait_connect, threadVars>>

ConnectSleeps ==
  /\ At("sleep")
  /\ wait_connect' = sleep_on(wait_connect)
  /\ cpc' = IF Returns(wait_connect) THEN "woken" ELSE "asleep"
  /\ UNCHANGED <<connVars, net, running, unused, threadVars>>

ConnectResumes ==
  /\ At("asleep") /\ Returns(wait_connect)
  /\ wait_connect' = Resume(wait_connect)
  /\ cpc' = "woken"
  /\ UNCHANGED <<connVars, net, running, unused, threadVars>>

\* Whatever woke it: the result of sleep_on is not looked at.
ConnectReturns ==
  /\ At("woken")
  /\ ClientStep("ack", [sock[Own] EXCEPT !.state = "ESTABLISHED"])
  /\ UNCHANGED <<hl, tl, net, running, unused, wait_connect, threadVars>>

ClientSends(pc, kind, next) ==
  /\ At(pc)
  /\ ClientStep(next, Sent(sock[Own], kind))
  /\ net' = Transmit(net, "server", <<Packet(sock[Own], kind)>>)
  /\ UNCHANGED <<hl, tl, running, unused, wait_connect, threadVars>>

AckSynAck == ClientSends("ack", "ACK", IF HasData THEN "write" ELSE "close")
Write == ClientSends("write", "PSH", "close")

\* tcp_sock_close: what was ESTABLISHED need not be so any more when it is changed.
Close ==
  /\ At("close")
  /\ cpc' = IF sock[Own].state = "ESTABLISHED" THEN "closing" ELSE "closed"
  /\ UNCHANGED <<connVars, net, running, unused, wait_connect, threadVars>>

CloseGoesOn ==
  /\ At("closing")
  /\ ClientStep("fin", [sock[Own] EXCEPT !.state = "FIN_WAIT_1"])
  /\ UNCHANGED <<hl, tl, net, running, unused, wait_connect, threadVars>>

SendFin == ClientSends("fin", "FIN", "closed")

\* The process is killed: its socket, tables and timers are gone.
ClientKilled ==
  /\ running # {}
  /\ running' = {} /\ cpc' = "exited"
  /\ hl' = [hl EXCEPT !.next[CTable] = CTable, !.prev[CTable] = CTable]
  /\ tl' = [tl EXCEPT !.next[<<CTimers, "head">>] = <<CTimers, "head">>,
                      !.prev[<<CTimers, "head">>] = <<CTimers, "head">>]
  /\ sock' = [sock EXCEPT ![Own] = NewSock]
  /\ wait_connect' = wait_init /\ giving' = {}
  /\ UNCHANGED <<net, unused, accept_queue, wait_accept, apc, accepted, rpc, queued, torn>>

ClientApp == \/ Connect \/ ConnectSleeps \/ ConnectResumes \/ ConnectReturns
             \/ AckSynAck \/ Write \/ Close \/ CloseGoesOn \/ SendFin

-----------------------------------------------------------------------------
(* The server application: tcp_sock_accept, once.                          *)

AcceptStep(pc) == apc' = pc /\ UNCHANGED <<net, clientVars, rpc, queued, giving, torn>>

AcceptLooks ==
  /\ apc = "check"
  /\ AcceptStep(IF accept_queue = <<>> THEN "sleep" ELSE "dequeue")
  /\ UNCHANGED <<connVars, accept_queue, wait_accept, accepted>>

AcceptSleeps ==
  /\ apc = "sleep"
  /\ wait_accept' = sleep_on(wait_accept)
  /\ AcceptStep(IF Returns(wait_accept) THEN "check" ELSE "asleep")
  /\ UNCHANGED <<connVars, accept_queue, accepted>>

AcceptResumes ==
  /\ apc = "asleep" /\ Returns(wait_accept)
  /\ wait_accept' = Resume(wait_accept)
  /\ AcceptStep("check")
  /\ UNCHANGED <<connVars, accept_queue, accepted>>

AcceptDequeues ==
  /\ apc = "dequeue"
  /\ accepted' = {Head(accept_queue)}
  /\ accept_queue' = Tail(accept_queue)
  /\ AcceptStep("popped")
  /\ UNCHANGED <<connVars, wait_accept>>

\* Whatever has become of the socket since it was queued, it is ESTABLISHED
\* again, and hashed again if its place is free.
AcceptReturns ==
  /\ apc = "popped"
  /\ AcceptStep("up")
  /\ LET x == CHOOSE x \in accepted : TRUE
         s == [sock[x] EXCEPT !.state = "ESTABLISHED"]
     IN  /\ sock' = [sock EXCEPT ![x] = IF Hash(x) = hl THEN s ELSE Hold(s)]
         /\ hl' = Hash(x)
  /\ UNCHANGED <<tl, accept_queue, wait_accept, accepted>>

ServerApp == AcceptLooks \/ AcceptSleeps \/ AcceptResumes \/ AcceptDequeues \/ AcceptReturns

-----------------------------------------------------------------------------
(* Calls on a list that no lock keeps apart.                               *)

\* The receiving thread arms a timer: tcp_set_timewait_timer, without the lock
\* under which the timer thread walks along the list and deletes from it.
Arms(x) == /\ sock[x].state \in {"ESTABLISHED", "FIN_WAIT_1", "FIN_WAIT_2"}
           /\ \E p \in Packets : For(x, p) /\ HasFin(p)

\* It appends to the accept queue, which accept looks at and takes from.
Queues(x) == /\ sock[x].state = "SYN_RECV"
             /\ \E p \in Packets : For(x, p) /\ HasAck(p) /\ p.kind # "PSH"

\* The threads that change the server's bucket, and a socket's state with it.
ReceiverHashes == \/ /\ hl.next[Table] = Table /\ Ready("server")
                     /\ net["server"] # <<>> /\ HasSyn(Head(net["server"]))
                  \/ \E x \in Child : /\ sock[x].state = "LAST_ACK"
                                       /\ \E p \in Packets : For(x, p) /\ HasAck(p)
TimerUnhashes == \E x \in Child : Armed(Timewait(x), x)
AcceptHashes == apc = "popped"

ListsOverlap ==
  /\ \/ \E x \in Sock : Arms(x)
     \/ apc \in {"check", "dequeue"} /\ \E x \in Sock : Queues(x)
     \/ ReceiverHashes /\ (TimerUnhashes \/ AcceptHashes)
     \/ TimerUnhashes /\ AcceptHashes
  /\ torn' = TRUE
  /\ UNCHANGED <<connVars, net, clientVars, accept_queue, wait_accept, apc, accepted, rpc, queued, giving>>

-----------------------------------------------------------------------------
Lose(h) == /\ net[h] # <<>>
           /\ net' = [net EXCEPT ![h] = Tail(@)]
           /\ UNCHANGED <<connVars, clientVars, threadVars>>

\* Freeing a socket for good frees its ring buffer twice: the process aborts.  And
\* what threads make of lists that are torn is anybody's guess.
Up == ~torn /\ \A x \in Sock : ~sock[x].freed

Next == Up /\ \/ Receive \/ Timer \/ ClientStarts \/ ClientApp \/ ClientKilled \/ ServerApp \/ ListsOverlap
              \/ \E h \in {"server", "client"} : Lose(h)

Spec == Init /\ [][Next]_vars

\* The processes do not stop while one of their threads has something to do, and
\* which one does not matter: no thread can go on for ever alone.  Nothing is
\* assumed of the links, nor of whoever starts and kills the clients.
Fairness == WF_vars(Up /\ (ClientApp \/ ServerApp \/ Receive \/ Timer))

FairSpec == Spec /\ Fairness

-----------------------------------------------------------------------------
(* Properties *)

States == {"CLOSED", "SYN_RECV", "SYN_SENT", "ESTABLISHED", "FIN_WAIT_1", "FIN_WAIT_2",
           "TIME_WAIT", "LAST_ACK"}
PacketType == [kind : Kinds, seq : Nat, ack : Nat]

TypeOK ==
  /\ \A x \in Sock :
       LET s == sock[x]
       IN  /\ s.state \in States
           /\ s.snd_una \in Nat /\ s.snd_nxt \in Nat /\ s.rcv_nxt \in Nat
           /\ s.send_buf \in Seq([pkt : PacketType, times : 1 .. MaxTimes + 1])
           /\ s.got \in Nat /\ s.refs \in Int /\ s.freed = (s.refs <= 0)
  /\ hl \in Memory(HashNode) /\ tl \in Memory(TimerNode)
  /\ \A h \in DOMAIN net : net[h] \in Seq(PacketType) /\ Len(net[h]) <= LinkCap[h]
  /\ running \subseteq Client /\ unused \subseteq Client
  /\ wait_connect \in Wait /\ wait_accept \in Wait
  /\ accept_queue \in Seq(Child) /\ accepted \subseteq Child
  /\ rpc = "ready" <=> queued = {}
  /\ queued \subseteq Child /\ giving \subseteq running /\ torn \in BOOLEAN

\* A socket that a connection still needs is in the established table, where
\* the packets of the connection find it, as long as the lists are not torn.
Findable == torn \/ \A x \in Child :
              sock[x].state \in {"SYN_RECV", "ESTABLISHED", "LAST_ACK"} => Hashed(x)

\* No list is left without its end by an entry deleted or inserted twice: the
\* lookup of a packet and the scan of the timers both come to an end, as long as
\* no two calls on a list without a lock overlap.
WalksEnd == torn \/ /\ WalkEnds(hl, Table) /\ WalkEnds(hl, CTable)
                    /\ WalkEnds(tl, <<Timers, "head">>) /\ WalkEnds(tl, <<CTimers, "head">>)

\* accept does not sleep for ever while a connection is queued, although it looks
\* at the queue and goes to sleep in two steps, between which one may be queued.
AcceptWakes == accept_queue # <<>> ~> (apc = "up" \/ ~Up)

\* The server takes a connection for complete only when connect has returned on
\* the other side and the acknowledgement of the SYN has been sent.
HandshakeComplete ==
  \A x \in ToSet(accept_queue) \cup accepted :
    running # {} => cpc \notin {"connect", "sleep", "asleep", "woken", "ack"}

\* A segment that is sent again is not received twice.
ReceivedOnce == \A x \in Child : sock[x].got <= 1

\* The side that closes first reaches TIME_WAIT only if the server has taken its FIN:
\* some child's rcv_nxt is past it.  The data before it may be lost all the same.
FinReceived ==
  \A x \in Client : sock[x].state = "TIME_WAIT" =>
    \E y \in Child : sock[y].rcv_nxt = sock[x].snd_nxt

\* A connecting thread does not sleep for ever: it is woken by an answer, or by
\* the timer thread giving up on its SYN.
ConnectWakes == cpc = "asleep" ~> (cpc # "asleep" \/ ~Up)

\* Once a side has sent and received a FIN, no side waits in LAST_ACK or
\* TIME_WAIT for ever, whatever is lost.
Closing == \E x \in Sock : sock[x].state \in {"LAST_ACK", "TIME_WAIT"}
ClosingEnds == Closing ~> (~Closing \/ ~Up)
=============================================================================
