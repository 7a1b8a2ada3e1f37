------------------------------- MODULE Router -------------------------------
(* The data plane of a router: ip.c, ip_base.c and icmp.c (lab-11) over the route
   table and the ARP cache, and the hosts around it.

   The main thread handles one packet after the other; the sweeping thread
   refuses the packets whose next hop did not answer. icmp_send_packet makes a
   new packet out of the one it is about, which is freed by its caller: here it
   keeps the name of that packet. `kind` tells what a packet has become. *)
EXTENDS ArpCache, RouteTable

CONSTANTS
    rtable,     \* the routes, in their order
    IfaceIp,    \* interface -> its address
    Arrivals,   \* the packets that may come: [at, src, dst, echo, ttl]
    Hosts       \* the addresses of the hosts that are up

ASSUME RouterAssumption ==
    /\ rtable \in Seq(Routes)
    /\ IfaceIp \in [Ifaces -> Addr]
    /\ Arrivals \subseteq [at : Ifaces, src : Addr, dst : Addr, echo : BOOLEAN, ttl : Nat]
    /\ Addrs = Addr /\ Hosts \subseteq Addr

VARIABLES
    hdr,    \* packet -> its addresses and what it is
    gone    \* the packets that have been freed unsent

vars == <<cacheVars, hdr, gone>>

Kinds == {"data", "reply", "error"}

Headers == [src : Addr, dst : Addr, kind : Kinds]

(* The packet has not come yet. *)
Unseen == [kind |-> "new"]

(* A packet leaves the router: `dst` is its next hop's address, through the route
   that has been found. *)
SendBy(t, p, h, r) ==
    /\ hdr' = [hdr EXCEPT ![p] = h]
    /\ iface_send_packet_by_arp(t, p, get_next_hop(r, h.dst))
    /\ UNCHANGED gone

Free(p, h) ==
    /\ hdr' = [hdr EXCEPT ![p] = h]
    /\ gone' = gone \cup {p}
    /\ UNCHANGED <<hand, emitted>>

ip_send_packet(t, p, h) ==
    LET r == longest_prefix_match(rtable, h.dst) IN
    IF r = NoRoute THEN Free(p, h) ELSE SendBy(t, p, h, r)

(* ICMP_DEST_UNREACH or ICMP_TIME_EXCEEDED for the packet with the header `in`,
   from the interface that leads to its source. *)
icmp_send_error(t, p, in) ==
    LET r == longest_prefix_match(rtable, in.src) IN
    IF r = NoRoute
    THEN Free(p, in)
    ELSE ip_send_packet(t, p, [src |-> IfaceIp[r.iface], dst |-> in.src, kind |-> "error"])

icmp_send_reply(t, p, in) ==
    ip_send_packet(t, p, [src |-> in.dst, dst |-> in.src, kind |-> "reply"])

ip_forward_packet(p, in, ttl) ==
    LET r == longest_prefix_match(rtable, in.dst) IN
    IF ttl <= 1 \/ r = NoRoute
    THEN icmp_send_error("main", p, in)
    ELSE SendBy("main", p, in, r)

(* Only the address of the interface a packet came by makes it the router's own. *)
handle_ip_packet(p, a) ==
    LET in == [src |-> a.src, dst |-> a.dst, kind |-> "data"] IN
    IF a.dst # IfaceIp[a.at] THEN ip_forward_packet(p, in, a.ttl)
    ELSE IF a.echo THEN icmp_send_reply("main", p, in)
    ELSE Free(p, in)

(* The main thread takes the next packet when it has finished with the last. *)
Receive(p, a) ==
    /\ hdr[p] = Unseen /\ hand["main"] = Nothing
    /\ handle_ip_packet(p, a)
    /\ UNCHANGED <<entries, outside, req_list, pkt_list, slept>>

(* A host asks for the router's address, or answers. *)
handle_arp_packet(ip) ==
    /\ hand["main"] = Nothing
    /\ arpcache_insert(ip)
    /\ UNCHANGED <<hdr, gone>>

(* The sweeping thread refuses the first of the packets it has given up. *)
Refuse ==
    /\ pkt_list # <<>> /\ hand["sweep"] = Nothing
    /\ icmp_send_error("sweep", Head(pkt_list), hdr[Head(pkt_list)])
    /\ pkt_list' = Tail(pkt_list)
    /\ UNCHANGED <<entries, outside, req_list, slept>>

Pend(t) == arpcache_append_packet(t) /\ UNCHANGED <<hdr, gone>>

Sweep == arpcache_sweep /\ UNCHANGED <<hdr, gone>>

Second == Tick /\ UNCHANGED <<hdr, gone>>

Init ==
    /\ arpcache_init
    /\ hdr = [p \in Packets |-> Unseen]
    /\ gone = {}

(* What the sweeping thread does: it sleeps, sweeps, and refuses. *)
SweepThread == Sweep \/ Refuse \/ Pend("sweep")

Next ==
    \/ \E p \in Packets, a \in Arrivals : Receive(p, a)
    \/ \E ip \in Hosts : handle_arp_packet(ip)
    \/ Pend("main")
    \/ SweepThread
    \/ Second

(* Time passes, and the two threads run. *)
Fairness == WF_vars(Pend("main")) /\ WF_vars(SweepThread) /\ WF_vars(Second)

Spec == Init /\ [][Next]_vars /\ Fairness

-----------------------------------------------------------------------------
TypeOK ==
    /\ CacheTypeOK
    /\ hdr \in [Packets -> Headers \cup {Unseen}]
    /\ gone \subseteq Packets

(* Where packet p is: in hands, in requests, in the list of the given up. *)
Places(p) ==
    LET at(i) == {j \in DOMAIN req_list[i].pkts : req_list[i].pkts[j] = p} IN
    {<<"hand", t>> : t \in {t \in Threads : hand[t].pkt = p}}
      \cup (UNION {{<<"req", i, j>> : j \in at(i)} : i \in DOMAIN req_list})
      \cup {<<"given up", i>> : i \in {i \in DOMAIN pkt_list : pkt_list[i] = p}}

FateOf(p) ==
    LET held == Cardinality(Places(p)) IN
    CASE hdr[p] = Unseen /\ held = 0 /\ emitted[p] = 0 /\ p \notin gone -> "new"
      [] hdr[p] # Unseen /\ held = 1 /\ emitted[p] = 0 /\ p \notin gone -> "held"
      [] hdr[p] # Unseen /\ held = 0 /\ emitted[p] = 1 /\ p \notin gone -> "sent"
      [] hdr[p] # Unseen /\ held = 0 /\ emitted[p] = 0 /\ p \in gone -> "dropped"
      [] OTHER -> "broken"

Fate == INSTANCE PacketFate WITH fate <- [p \in Packets |-> FateOf(p)]

(* The router keeps what PacketFate promises: no packet is lost between the
   lookup and the queue, sent twice, or freed while it waits (arp.c:113,
   arpcache.c:118, 176, 191). *)
FateSpec == Fate!Spec

(* A packet that waits for an address is sent, or its source gets an answer, or
   the answer has no way to it (arpcache.c:186-193): it does not wait for ever. *)
Answered ==
    \A p \in Packets :
        (hdr[p].kind = "data") ~> (hdr[p].kind = "error" \/ emitted[p] > 0 \/ p \in gone)

=============================================================================
