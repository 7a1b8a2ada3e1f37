---------------------------- MODULE Router_proofs ----------------------------
(* For all routes, arrivals, hosts, sizes and timeouts: the state of the router
   keeps its types, its cache knows one answer and one request for an address, and
   it implements PacketFate: a packet is never in two places, and never in none
   until it has been sent or freed.

   What a packet's handling does to it is one of three things (Handled); where a
   packet is, is told by the sets of packets in hands, in requests and in the list
   of the given up, which are shown to be disjoint and without repetition. *)
EXTENDS Router, Lists_proofs

Holding == [pkt : Packets, ip : Addrs]

CacheType ==
    /\ entries \in [1 .. Slots -> Entries]
    /\ outside \in BOOLEAN
    /\ req_list \in Seq(Requests)
    /\ hand \in [Threads -> Holding \cup {Nothing}]
    /\ pkt_list \in Seq(Packets)
    /\ slept \in BOOLEAN
    /\ emitted \in [Packets -> 0 .. 2]

RouterType ==
    /\ CacheType
    /\ hdr \in [Packets -> Headers \cup {Unseen}]
    /\ gone \subseteq Packets

-----------------------------------------------------------------------------
(* The lookup of a route *)

(* What the walk has found among the first n routes: the first of the longest. *)
FirstLongest(t, dst, n, r) ==
    \/ /\ r = NoRoute
       /\ \A j \in 1 .. n : ~ Matches(t[j], dst)
    \/ \E i \in 1 .. n :
         /\ r = t[i] /\ Matches(t[i], dst)
         /\ \A j \in 1 .. n : Matches(t[j], dst) => \/ t[j].len < t[i].len
                                                    \/ t[j].len = t[i].len /\ i <= j

LEMMA NoRouteIsNone ==
    NoRoute \notin Routes
<1>1. \A r \in Routes : DOMAIN r = {"dest", "len", "gw", "iface"}
    BY DEF Routes
<1>2. DOMAIN NoRoute = {"none"}
    BY DEF NoRoute
<1> QED
    BY <1>1, <1>2

(* The loop of longest_prefix_match finds, for every table and address, the first of
   the longest prefixes that match, and nothing only if none does. *)
THEOREM LongestPrefixFound ==
    ASSUME NEW t \in Seq(Routes), NEW dst \in Addr
    PROVE  FirstLongest(t, dst, Len(t), longest_prefix_match(t, dst))
<1> DEFINE n == Len(t)
           V == Routes \cup {NoRoute}
           next(i, s) == IF Longer(s, t[i], dst) THEN t[i] ELSE s
           walk == CHOOSE walk : walk = [i \in 0 .. n |-> IF i = 0 THEN NoRoute
                                                          ELSE next(i, walk[i - 1])]
           G == [x \in (1 .. n) \X V |-> next(x[1], x[2])]
<1>1. n \in Nat /\ \A i \in 1 .. n : t[i] \in Routes
    OBVIOUS
<1>2. longest_prefix_match(t, dst) = walk[n]
    BY DEF longest_prefix_match
<1>3. \E f : f = [i \in 0 .. n |-> IF i = 0 THEN NoRoute ELSE next(i, f[i - 1])]
    <2>1. \A i \in 1 .. n, s \in V : next(i, s) \in V
        BY <1>1
    <2>2. \A i \in 1 .. n, s \in V : G[<<i, s>>] = next(i, s)
        OBVIOUS
    <2> HIDE DEF next
    <2>3. \A x \in (1 .. n) \X V : next(x[1], x[2]) \in V
        BY <2>1
    <2>4. G \in Paces(n, V)
        BY <2>3 DEF Paces
    <2>5. NoRoute \in V
        OBVIOUS
    <2> HIDE DEF G, V, n
    <2>6. PICK f \in [0 .. n -> V] : Course(f, n, NoRoute, G)
        BY <1>1, <2>4, <2>5, CourseExists
    <2>7. ASSUME NEW i \in 0 .. n
          PROVE  f[i] = IF i = 0 THEN NoRoute ELSE next(i, f[i - 1])
        <3>1. CASE i = 0
            BY <2>6, <3>1 DEF Course
        <3>2. CASE i # 0
            <4>1. i \in 1 .. n /\ i - 1 \in 0 .. n
                BY <1>1, <3>2
            <4>2. f[i - 1] \in V
                BY <2>6, <4>1
            <4> QED
                BY <2>2, <2>6, <3>2, <4>1, <4>2 DEF Course
        <3> QED
            BY <3>1, <3>2
    <2>8. f = [i \in 0 .. n |-> f[i]]
        BY <2>6
    <2>9. f = [i \in 0 .. n |-> IF i = 0 THEN NoRoute ELSE next(i, f[i - 1])]
        BY <2>7, <2>8
    <2> QED
        BY <2>9
<1>4. walk = [i \in 0 .. n |-> IF i = 0 THEN NoRoute ELSE next(i, walk[i - 1])]
    BY <1>3
<1> HIDE DEF walk
<1> DEFINE P == {i \in 0 .. n : FirstLongest(t, dst, i, walk[i])}
<1>5. 0 \in P
    BY <1>1, <1>4 DEF FirstLongest
<1>6. ASSUME NEW i \in 1 .. n, i - 1 \in P  PROVE i \in P
    <2> DEFINE s == walk[i - 1]
               M(j) == Matches(t[j], dst)
    <2>1. FirstLongest(t, dst, i - 1, s) /\ walk[i] = next(i, s)
        BY <1>4, <1>6
    <2>2. t[i] \in Routes /\ t[i].len \in Nat /\ \A j \in 1 .. i - 1 : t[j].len \in Nat
        <3>1. \A j \in 1 .. i - 1 : j \in 1 .. n
            BY <1>1
        <3>2. \A r \in Routes : r.len \in Nat
            BY WidthAssumption DEF Routes
        <3> QED
            BY <1>1, <3>1, <3>2
    <2>3. \A j \in 1 .. i : j \in 1 .. i - 1 \/ j = i
        OBVIOUS
    <2>4. i \in 1 .. i /\ \A j \in 1 .. i - 1 : j \in 1 .. i /\ j < i
        OBVIOUS
    <2> HIDE DEF s
    <2>5. CASE s = NoRoute /\ \A j \in 1 .. i - 1 : ~ M(j)
        <3>1. CASE M(i)
            <4>1. walk[i] = t[i]
                BY <2>1, <2>5, <3>1 DEF Longer
            <4> QED
                BY <2>3, <2>4, <2>5, <3>1, <4>1 DEF FirstLongest
        <3>2. CASE ~ M(i)
            <4>1. walk[i] = NoRoute
                BY <2>1, <2>5, <3>2 DEF Longer
            <4> QED
                BY <2>3, <2>5, <3>2, <4>1 DEF FirstLongest
        <3> QED
            BY <3>1, <3>2
    <2>6. ASSUME NEW k \in 1 .. i - 1, s = t[k], M(k),
                 \A j \in 1 .. i - 1 : M(j) => \/ t[j].len < t[k].len
                                               \/ t[j].len = t[k].len /\ k <= j
          PROVE  i \in P
        <3>1. k \in 1 .. i /\ k <= i /\ t[k] # NoRoute
            <4>1. k \in 1 .. n
                BY <1>1
            <4> QED
                BY <1>1, <4>1, NoRouteIsNone
        <3>2. CASE Longer(s, t[i], dst)
            <4>1. walk[i] = t[i] /\ M(i) /\ t[k].len < t[i].len
                BY <2>1, <2>6, <3>1, <3>2 DEF Longer
            <4>2. ASSUME NEW j \in 1 .. i, M(j), j # i  PROVE t[j].len < t[i].len
                <5>1. j \in 1 .. i - 1
                    BY <2>3, <4>2
                <5>2. t[j].len < t[k].len \/ t[j].len = t[k].len
                    BY <2>6, <4>2, <5>1
                <5> QED
                    BY <2>2, <4>1, <5>1, <5>2
            <4> QED
                BY <2>4, <4>1, <4>2 DEF FirstLongest
        <3>3. CASE ~ Longer(s, t[i], dst)
            <4>1. walk[i] = t[k]
                BY <2>1, <2>6, <3>3
            <4>2. M(i) => t[i].len < t[k].len \/ t[i].len = t[k].len
                BY <2>2, <2>6, <3>3 DEF Longer
            <4> QED
                BY <2>3, <2>6, <3>1, <4>1, <4>2 DEF FirstLongest
        <3> QED
            BY <3>2, <3>3
    <2> QED
        BY <2>1, <2>5, <2>6 DEF FirstLongest
<1> HIDE DEF P
<1>7. n \in P
    <2>1. n \in 0 .. n
        BY <1>1
    <2> QED
        BY <1>1, <1>5, <1>6, <2>1, CountUp
<1> QED
    BY <1>2, <1>7 DEF P

LEMMA RouteIs ==
    ASSUME NEW dst \in Addr
    PROVE  longest_prefix_match(rtable, dst) \in Routes \cup {NoRoute}
<1>1. rtable \in Seq(Routes)
    BY RouterAssumption
<1> QED
    BY <1>1, LongestPrefixFound DEF FirstLongest

-----------------------------------------------------------------------------
(* What the handling of a packet does *)

Drops(p) ==
    gone' = gone \cup {p} /\ UNCHANGED <<hand, emitted>>

Emits(p) ==
    Emit({p}) /\ UNCHANGED <<hand, gone>>

Takes(t, p, ip) ==
    hand' = [hand EXCEPT ![t] = [pkt |-> p, ip |-> ip]] /\ UNCHANGED <<gone, emitted>>

Handled(t, p) ==
    /\ \E h \in Headers : hdr' = [hdr EXCEPT ![p] = h]
    /\ Drops(p) \/ Emits(p) \/ \E ip \in Addrs : Takes(t, p, ip)

LEMMA SendByIs ==
    ASSUME NEW t \in Threads, NEW p \in Packets, NEW h \in Headers, NEW r \in Routes,
           SendBy(t, p, h, r)
    PROVE  Handled(t, p)
<1>1. get_next_hop(r, h.dst) \in Addrs
    BY RouterAssumption DEF get_next_hop, Routes, Headers
<1> QED
    BY <1>1 DEF SendBy, iface_send_packet_by_arp, Handled, Emits, Takes

LEMMA FreeIs ==
    ASSUME NEW t \in Threads, NEW p \in Packets, NEW h \in Headers, Free(p, h)
    PROVE  Handled(t, p)
BY DEF Free, Handled, Drops

LEMMA ip_send_packetIs ==
    ASSUME NEW t \in Threads, NEW p \in Packets, NEW h \in Headers, ip_send_packet(t, p, h)
    PROVE  Handled(t, p)
<1> DEFINE r == longest_prefix_match(rtable, h.dst)
<1>1. r \in Routes \cup {NoRoute}
    BY RouteIs DEF Headers
<1>2. IF r = NoRoute THEN Free(p, h) ELSE SendBy(t, p, h, r)
    BY DEF ip_send_packet
<1> HIDE DEF r
<1> QED
    BY <1>1, <1>2, FreeIs, SendByIs

LEMMA icmp_send_errorIs ==
    ASSUME NEW t \in Threads, NEW p \in Packets, NEW in \in Headers, icmp_send_error(t, p, in)
    PROVE  Handled(t, p)
<1> DEFINE r == longest_prefix_match(rtable, in.src)
           h == [src |-> IfaceIp[r.iface], dst |-> in.src, kind |-> "error"]
<1>1. r \in Routes \cup {NoRoute}
    BY RouteIs DEF Headers
<1>2. IF r = NoRoute THEN Free(p, in) ELSE ip_send_packet(t, p, h)
    BY DEF icmp_send_error
<1>3. r \in Routes => h \in Headers
    BY RouterAssumption DEF Routes, Headers, Kinds
<1> HIDE DEF r, h
<1> QED
    BY <1>1, <1>2, <1>3, FreeIs, ip_send_packetIs

LEMMA handle_ip_packetIs ==
    ASSUME NEW p \in Packets, NEW a \in Arrivals, handle_ip_packet(p, a)
    PROVE  Handled("main", p)
<1> DEFINE in == [src |-> a.src, dst |-> a.dst, kind |-> "data"]
           r == longest_prefix_match(rtable, a.dst)
<1>1. /\ a.src \in Addr /\ a.dst \in Addr
      /\ "main" \in Threads
    BY RouterAssumption DEF Threads
<1>2. in \in Headers /\ in.dst = a.dst /\ in.src = a.src
    BY <1>1 DEF Headers, Kinds
<1>3. r \in Routes \cup {NoRoute}
    BY <1>1, RouteIs
<1>4. CASE ip_forward_packet(p, in, a.ttl)
    <2>1. IF a.ttl <= 1 \/ r = NoRoute THEN icmp_send_error("main", p, in)
                                       ELSE SendBy("main", p, in, r)
        BY <1>4 DEF ip_forward_packet
    <2> HIDE DEF r, in
    <2> QED
        BY <1>1, <1>2, <1>3, <2>1, icmp_send_errorIs, SendByIs
<1>5. CASE icmp_send_reply("main", p, in)
    <2> DEFINE h == [src |-> in.dst, dst |-> in.src, kind |-> "reply"]
    <2>1. h \in Headers
        BY <1>1 DEF Headers, Kinds
    <2>2. ip_send_packet("main", p, h)
        BY <1>5 DEF icmp_send_reply
    <2> HIDE DEF h
    <2> QED
        BY <1>1, <2>1, <2>2, ip_send_packetIs
<1>6. CASE Free(p, in)
    <2> HIDE DEF in
    <2> QED
        BY <1>1, <1>2, <1>6, FreeIs
<1> QED
    BY <1>4, <1>5, <1>6 DEF handle_ip_packet

-----------------------------------------------------------------------------
(* The inductive invariant *)

Waiting(p) == \E i \in DOMAIN req_list : p \in ToSet(req_list[i].pkts)

Held(p) ==
    \/ \E t \in Threads : hand[t].pkt = p
    \/ Waiting(p)
    \/ p \in ToSet(pkt_list)

(* No packet is in two places. *)
Apart ==
    /\ \A i \in DOMAIN req_list : IsInjective(req_list[i].pkts)
    /\ \A i, j \in DOMAIN req_list :
           ToSet(req_list[i].pkts) \cap ToSet(req_list[j].pkts) # {} => i = j
    /\ IsInjective(pkt_list)
    /\ \A p \in Packets : hand["main"].pkt = p => hand["sweep"].pkt # p
    /\ \A p \in Packets, t \in Threads :
           hand[t].pkt = p => ~ Waiting(p) /\ p \notin ToSet(pkt_list)
    /\ \A p \in Packets : Waiting(p) => p \notin ToSet(pkt_list)

(* A packet that is seen is held, or has been sent, or has been freed. *)
Status(p) ==
    /\ emitted[p] \in {0, 1} /\ (emitted[p] = 1 => p \notin gone)
    /\ hdr[p] = Unseen => ~ Held(p) /\ emitted[p] = 0 /\ p \notin gone
    /\ hdr[p] # Unseen => /\ hdr[p] \in Headers
                          /\ Held(p) <=> emitted[p] = 0 /\ p \notin gone

RouterInv ==
    /\ RouterType
    /\ OnePerAddress
    /\ Apart
    /\ \A p \in Packets : Status(p)

LEMMA HandIs ==
    ASSUME RouterType, NEW t \in Threads
    PROVE  /\ hand[t] = Nothing => \A p \in Packets : hand[t].pkt # p
           /\ hand[t] # Nothing => hand[t].pkt \in Packets /\ hand[t].ip \in Addrs
           /\ \A p \in Packets, ip \in Addrs :
                  /\ [pkt |-> p, ip |-> ip] \in Holding
                  /\ [pkt |-> p, ip |-> ip].pkt = p
<1>1. hand[t] \in Holding \cup {Nothing}
    BY DEF RouterType, CacheType
<1>2. hand[t] = Nothing => \A p \in Packets : hand[t].pkt # p
    BY CacheAssumption DEF Nothing
<1>3. hand[t] # Nothing => hand[t].pkt \in Packets /\ hand[t].ip \in Addrs
    BY <1>1 DEF Holding
<1> QED
    BY <1>2, <1>3 DEF Holding

(* A packet that no place holds is handled by thread t, which had nothing in hand. *)
LEMMA HandledStep ==
    ASSUME RouterInv, NEW t \in Threads, NEW p \in Packets,
           hand[t] = Nothing, Handled(t, p),
           UNCHANGED <<entries, outside, req_list, slept>>,
           pkt_list' \in Seq(Packets), IsInjective(pkt_list'), p \notin ToSet(pkt_list'),
           \A q \in Packets \ {p} : q \in ToSet(pkt_list') <=> q \in ToSet(pkt_list),
           \A u \in Threads : hand[u].pkt # p, ~ Waiting(p),
           emitted[p] = 0, p \notin gone
    PROVE  RouterInv'
<1>1. PICK h \in Headers : hdr' = [hdr EXCEPT ![p] = h]
    BY DEF Handled
<1>2. h # Unseen
    BY DEF Headers, Kinds, Unseen
<1>3. hdr' \in [Packets -> Headers \cup {Unseen}] /\ hdr'[p] = h /\ \A q \in Packets \ {p} : hdr'[q] = hdr[q]
    BY <1>1 DEF RouterInv, RouterType
<1>4. \A q : Waiting(q)' <=> Waiting(q)
    BY DEF Waiting
<1>5. OnePerAddress'
    BY DEF RouterInv, OnePerAddress
<1>6. CASE Drops(p)
    <2>1. gone' \subseteq Packets /\ \A q : q \in gone' <=> q \in gone \/ q = p
        BY <1>6 DEF Drops, RouterInv, RouterType
    <2>2. UNCHANGED <<hand, emitted>>
        BY <1>6 DEF Drops
    <2>3. RouterType'
        BY <1>3, <2>1, <2>2 DEF RouterInv, RouterType, CacheType
    <2>4. Apart'
        BY <1>4, <2>2 DEF RouterInv, Apart
    <2>5. \A q \in Packets : Held(q)' <=> q # p /\ Held(q)
        BY <1>4, <2>2 DEF Held
    <2>6. \A q \in Packets : Status(q)'
        BY <1>2, <1>3, <2>1, <2>2, <2>5 DEF RouterInv, Status
    <2> QED
        BY <1>5, <2>3, <2>4, <2>6 DEF RouterInv
<1>7. CASE Emits(p)
    <2>1. /\ emitted' \in [Packets -> 0 .. 2]
          /\ \A q \in Packets : emitted'[q] = IF q = p THEN 1 ELSE emitted[q]
        <3>1. emitted' = [q \in Packets |-> IF q = p THEN Min2(emitted[q] + 1, 2) ELSE emitted[q]]
            BY <1>7 DEF Emits, Emit
        <3>2. Min2(emitted[p] + 1, 2) = 1
            BY DEF Min2
        <3>3. emitted' = [q \in Packets |-> IF q = p THEN 1 ELSE emitted[q]]
            BY <3>1, <3>2
        <3>4. emitted \in [Packets -> 0 .. 2]
            BY DEF RouterInv, RouterType, CacheType
        <3> QED
            BY <3>3, <3>4
    <2>2. UNCHANGED <<hand, gone>>
        BY <1>7 DEF Emits
    <2>3. RouterType'
        BY <1>3, <2>1, <2>2 DEF RouterInv, RouterType, CacheType
    <2>4. Apart'
        BY <1>4, <2>2 DEF RouterInv, Apart
    <2>5. \A q \in Packets : Held(q)' <=> q # p /\ Held(q)
        BY <1>4, <2>2 DEF Held
    <2>6. \A q \in Packets : Status(q)'
        BY <1>2, <1>3, <2>1, <2>2, <2>5 DEF RouterInv, Status
    <2> QED
        BY <1>5, <2>3, <2>4, <2>6 DEF RouterInv
<1>8. ASSUME NEW ip \in Addrs, Takes(t, p, ip)  PROVE RouterInv'
    <2>1. /\ hand' \in [Threads -> Holding \cup {Nothing}]
          /\ hand'[t].pkt = p
          /\ \A u \in Threads \ {t} : hand'[u] = hand[u]
        <3>1. hand' = [hand EXCEPT ![t] = [pkt |-> p, ip |-> ip]]
            BY <1>8 DEF Takes
        <3>2. hand \in [Threads -> Holding \cup {Nothing}]
            BY DEF RouterInv, RouterType, CacheType
        <3>3. [pkt |-> p, ip |-> ip] \in Holding /\ [pkt |-> p, ip |-> ip].pkt = p
            BY HandIs DEF RouterInv
        <3> QED
            BY <3>1, <3>2, <3>3
    <2>2. UNCHANGED <<gone, emitted>>
        BY <1>8 DEF Takes
    <2>3. RouterType'
        BY <1>3, <2>1, <2>2 DEF RouterInv, RouterType, CacheType
    <2>4. \A q \in Packets : hand[t].pkt # q
        BY HandIs DEF RouterInv
    <2>5. \A q \in Packets, u \in Threads :
              hand'[u].pkt = q <=> \/ u = t /\ q = p
                                   \/ hand[u].pkt = q
        BY <2>1, <2>4
    <2>6. Apart'
        <3>1. \A q \in Packets : hand'["main"].pkt = q => hand'["sweep"].pkt # q
            BY <2>5 DEF RouterInv, Apart, Threads
        <3>2. \A q \in Packets, u \in Threads :
                  hand'[u].pkt = q => ~ Waiting(q)' /\ q \notin ToSet(pkt_list')
            BY <1>4, <2>5 DEF RouterInv, Apart
        <3>3. \A q \in Packets : Waiting(q)' => q \notin ToSet(pkt_list')
            BY <1>4 DEF RouterInv, Apart
        <3> QED
            BY <3>1, <3>2, <3>3 DEF RouterInv, Apart
    <2>7. \A q \in Packets : Held(q)' <=> q = p \/ Held(q)
        BY <1>4, <2>5 DEF Held
    <2>8. \A q \in Packets : Status(q)'
        BY <1>2, <1>3, <2>2, <2>7 DEF RouterInv, Status
    <2> QED
        BY <1>5, <2>3, <2>6, <2>8 DEF RouterInv
<1> QED
    BY <1>6, <1>7, <1>8 DEF Handled

-----------------------------------------------------------------------------
(* The cache *)

EntriesOK ==
    /\ entries \in [1 .. Slots -> Entries]
    /\ \A i, j \in 1 .. Slots :
           entries[i].valid /\ entries[j].valid /\ entries[i].ip = entries[j].ip => i = j

LEMMA EntryIs ==
    /\ \A e \in Entries : /\ e.valid \in BOOLEAN
                          /\ e.valid => e.ip \in Addrs /\ e.age \in 0 .. EntryTimeout
    /\ Unused \in Entries /\ Unused.valid = FALSE
    /\ \A ip \in Addrs, n \in 0 .. EntryTimeout :
           [valid |-> TRUE, ip |-> ip, age |-> n] \in Entries
<1>1. Unused \in Entries /\ Unused.valid = FALSE
    BY DEF Entries, Unused
<1>2. ASSUME NEW e \in Entries
      PROVE  /\ e.valid \in BOOLEAN
             /\ e.valid => e.ip \in Addrs /\ e.age \in 0 .. EntryTimeout
    <2>1. CASE e = Unused
        BY <1>1, <2>1
    <2>2. CASE e \in [valid : {TRUE}, ip : Addrs, age : 0 .. EntryTimeout]
        BY <2>2
    <2> QED
        BY <2>1, <2>2 DEF Entries
<1>3. \A ip \in Addrs, n \in 0 .. EntryTimeout :
          [valid |-> TRUE, ip |-> ip, age |-> n] \in Entries
    BY DEF Entries
<1> QED
    BY <1>1, <1>2, <1>3

(* Entries that keep their address, or are emptied, are as different as they were. *)
LEMMA KeptEntries ==
    ASSUME EntriesOK, entries' \in [1 .. Slots -> Entries],
           \A i \in 1 .. Slots :
               entries'[i].valid => entries[i].valid /\ entries'[i].ip = entries[i].ip
    PROVE  EntriesOK'
BY DEF EntriesOK

LEMMA TouchedEntry ==
    ASSUME NEW e \in Entries, e.valid, NEW n \in 0 .. EntryTimeout
    PROVE  /\ [e EXCEPT !.age = n] \in Entries
           /\ [e EXCEPT !.age = n].valid /\ [e EXCEPT !.age = n].ip = e.ip
BY DEF Entries, Unused

LEMMA StoreIs ==
    ASSUME EntriesOK, outside \in BOOLEAN, NEW ip \in Addrs, Store(ip)
    PROVE  EntriesOK' /\ outside' \in BOOLEAN
<1>1. CASE Known(ip)
    <2>1. entries' = Renewed(ip) /\ UNCHANGED outside
        BY <1>1 DEF Store
    <2> DEFINE e(i) == IF entries[i].valid /\ entries[i].ip = ip
                       THEN [entries[i] EXCEPT !.age = 0] ELSE entries[i]
    <2>2. entries' = [i \in 1 .. Slots |-> e(i)]
        BY <2>1 DEF Renewed
    <2>3. ASSUME NEW i \in 1 .. Slots
          PROVE  e(i) \in Entries /\ (e(i).valid => entries[i].valid /\ e(i).ip = entries[i].ip)
        <3>1. entries[i] \in Entries /\ 0 \in 0 .. EntryTimeout
            BY CacheAssumption DEF EntriesOK
        <3> QED
            BY <3>1, TouchedEntry
    <2> HIDE DEF e
    <2>4. /\ entries' \in [1 .. Slots -> Entries]
          /\ \A i \in 1 .. Slots : entries'[i] = e(i)
        BY <2>2, <2>3
    <2>5. EntriesOK'
        BY <2>3, <2>4, KeptEntries
    <2> QED
        BY <2>1, <2>5
<1>2. CASE ~ Known(ip) /\ \E i \in 1 .. Slots : ~ entries[i].valid
    <2>1. PICK pos \in 1 .. Slots :
              entries' = [entries EXCEPT ![pos] = [valid |-> TRUE, ip |-> ip, age |-> 0]]
        BY <1>2 DEF Store
    <2> DEFINE e == [valid |-> TRUE, ip |-> ip, age |-> 0]
    <2>2. e \in Entries /\ e.ip = ip
        BY EntryIs, CacheAssumption
    <2>3. entries' = [entries EXCEPT ![pos] = e]
        BY <2>1
    <2> HIDE DEF e
    <2>4. /\ entries' \in [1 .. Slots -> Entries]
          /\ entries'[pos] = e /\ \A i \in 1 .. Slots : i # pos => entries'[i] = entries[i]
        BY <2>2, <2>3 DEF EntriesOK
    <2>5. \A i \in 1 .. Slots : entries[i].valid => entries[i].ip # ip
        BY <1>2 DEF Known
    <2>6. EntriesOK'
        BY <2>2, <2>4, <2>5 DEF EntriesOK
    <2> QED
        BY <1>2, <2>6 DEF Store
<1>3. CASE ~ Known(ip) /\ ~ \E i \in 1 .. Slots : ~ entries[i].valid
    BY <1>3 DEF Store, EntriesOK
<1> QED
    BY <1>1, <1>2, <1>3

LEMMA AgedIs ==
    ASSUME EntriesOK, entries' = Aged
    PROVE  EntriesOK'
<1>1. /\ entries' \in [1 .. Slots -> Entries]
      /\ \A i \in 1 .. Slots : entries'[i] = Unused \/ entries'[i] = entries[i]
    BY EntryIs DEF EntriesOK, Aged
<1> QED
    BY <1>1, EntryIs, KeptEntries

LEMMA OlderIs ==
    ASSUME EntriesOK, Tick
    PROVE  EntriesOK'
<1> DEFINE older(i) == Min2(entries[i].age + 1, EntryTimeout)
           e(i) == IF entries[i].valid THEN [entries[i] EXCEPT !.age = older(i)]
                   ELSE entries[i]
<1>1. entries' = [i \in 1 .. Slots |-> e(i)]
    BY DEF Tick
<1>2. ASSUME NEW i \in 1 .. Slots
      PROVE  e(i) \in Entries /\ (e(i).valid => entries[i].valid /\ e(i).ip = entries[i].ip)
    <2>1. entries[i] \in Entries
        BY DEF EntriesOK
    <2>2. entries[i].valid => older(i) \in 0 .. EntryTimeout
        BY <2>1, EntryIs, CacheAssumption DEF Min2
    <2> HIDE DEF older
    <2> QED
        BY <2>1, <2>2, TouchedEntry
<1> HIDE DEF e
<1>3. /\ entries' \in [1 .. Slots -> Entries]
      /\ \A i \in 1 .. Slots : entries'[i] = e(i)
    BY <1>1, <1>2
<1> QED
    BY <1>2, <1>3, KeptEntries

-----------------------------------------------------------------------------
(* The requests *)

LEMMA RequestIs ==
    ASSUME RouterType, NEW i \in DOMAIN req_list
    PROVE  /\ req_list[i].ip \in Addrs /\ req_list[i].pkts \in Seq(Packets)
           /\ req_list[i].retries \in 1 .. MaxRetries /\ req_list[i] \in Requests
<1>1. req_list \in Seq(Requests)
    BY DEF RouterType, CacheType
<1>2. req_list[i] \in Requests
    BY <1>1
<1> QED
    BY <1>2 DEF Requests

(* The requests are some of what they were, perhaps all, each with its packets. *)
Fewer(f) ==
    /\ req_list' \in Seq(Requests)
    /\ f \in [DOMAIN req_list' -> DOMAIN req_list]
    /\ \A i, j \in DOMAIN req_list' : f[i] = f[j] => i = j
    /\ \A i \in DOMAIN req_list' : /\ req_list'[i].ip = req_list[f[i]].ip
                                   /\ req_list'[i].pkts = req_list[f[i]].pkts

(* They keep apart, and what waits in one of them has waited in one that is kept. *)
LEMMA FewerIs ==
    ASSUME RouterInv, NEW f, Fewer(f)
    PROVE  /\ \A i, j \in DOMAIN req_list' : req_list'[i].ip = req_list'[j].ip => i = j
           /\ \A i \in DOMAIN req_list' : IsInjective(req_list'[i].pkts)
           /\ \A i, j \in DOMAIN req_list' :
                  ToSet(req_list'[i].pkts) \cap ToSet(req_list'[j].pkts) # {} => i = j
           /\ \A p : Waiting(p)' <=>
                  \E i \in DOMAIN req_list' : p \in ToSet(req_list[f[i]].pkts)
           /\ \A p : Waiting(p)' => Waiting(p)
<1>1. \A i \in DOMAIN req_list' : f[i] \in DOMAIN req_list
    BY DEF Fewer
<1>2. \A p : Waiting(p)' <=> \E i \in DOMAIN req_list' : p \in ToSet(req_list[f[i]].pkts)
    BY DEF Waiting, Fewer
<1>3. \A p : Waiting(p)' => Waiting(p)
    BY <1>1, <1>2 DEF Waiting
<1>4. \A i, j \in DOMAIN req_list' : req_list'[i].ip = req_list'[j].ip => i = j
    BY <1>1 DEF Fewer, RouterInv, OnePerAddress
<1>5. \A i \in DOMAIN req_list' : IsInjective(req_list'[i].pkts)
    BY <1>1 DEF Fewer, RouterInv, Apart
<1>6. \A i, j \in DOMAIN req_list' :
          ToSet(req_list'[i].pkts) \cap ToSet(req_list'[j].pkts) # {} => i = j
    BY <1>1 DEF Fewer, RouterInv, Apart
<1> QED
    BY <1>2, <1>3, <1>4, <1>5, <1>6

LEMMA FirstRequest ==
    ASSUME RouterType, NEW ip, RequestsFor(ip) # {}
    PROVE  /\ Min(RequestsFor(ip)) \in DOMAIN req_list
           /\ req_list[Min(RequestsFor(ip))].ip = ip
<1>1. req_list \in Seq(Requests)
    BY DEF RouterType, CacheType
<1>2. RequestsFor(ip) \in SUBSET Nat
    BY <1>1 DEF RequestsFor
<1>3. Min(RequestsFor(ip)) \in RequestsFor(ip)
    BY <1>2, LeastIs
<1> QED
    BY <1>3 DEF RequestsFor

(* Thread t hands its packet to the request for its address, or to a new one. *)
LEMMA PendStep ==
    ASSUME RouterInv, NEW t \in Threads, Pend(t)
    PROVE  RouterInv'
<1> DEFINE p == hand[t].pkt
           ip == hand[t].ip
<1>1. RouterType /\ hand[t] # Nothing /\ p \in Packets /\ ip \in Addrs
    BY HandIs DEF RouterInv, Pend, arpcache_append_packet
<1>2. /\ UNCHANGED <<hdr, gone, entries, outside, pkt_list, slept, emitted>>
      /\ hand' = [hand EXCEPT ![t] = Nothing]
    BY DEF Pend, arpcache_append_packet
<1>3. ~ Waiting(p) /\ p \notin ToSet(pkt_list)
    BY <1>1 DEF RouterInv, Apart
<1>4. /\ hand' \in [Threads -> Holding \cup {Nothing}]
      /\ \A u \in Threads, q \in Packets :
             hand'[u].pkt = q <=> u # t /\ hand[u].pkt = q
    <2>1. hand \in [Threads -> Holding \cup {Nothing}]
        BY <1>1 DEF RouterType, CacheType
    <2>2. \A q \in Packets : Nothing.pkt # q
        BY CacheAssumption DEF Nothing
    <2> QED
        BY <1>2, <2>1, <2>2
<1>5. \A u \in Threads : u # t => hand[u].pkt # p
    BY <1>1 DEF RouterInv, Apart, Threads
<1>6. req_list \in Seq(Requests) /\ DOMAIN req_list = 1 .. Len(req_list) /\ Len(req_list) \in Nat
    BY <1>1 DEF RouterType, CacheType
<1> HIDE DEF p, ip
<1>7. /\ req_list' \in Seq(Requests)
      /\ \A i, j \in DOMAIN req_list' : req_list'[i].ip = req_list'[j].ip => i = j
      /\ \A i \in DOMAIN req_list' : IsInjective(req_list'[i].pkts)
      /\ \A i, j \in DOMAIN req_list' :
             ToSet(req_list'[i].pkts) \cap ToSet(req_list'[j].pkts) # {} => i = j
      /\ \A q : Waiting(q)' <=> Waiting(q) \/ q = p
    <2>1. CASE RequestsFor(ip) = {}
        <3> DEFINE r == NewRequest(ip, p)
                   l == <<r>> \o req_list
                   n == Len(req_list)
        <3>1. r \in Requests /\ r.ip = ip /\ r.pkts = <<p>>
            <4>1. <<p>> \in Seq(Packets)
                BY <1>1, OneIsSeq
            <4> QED
                BY <1>1, <4>1, CacheAssumption DEF NewRequest, Requests
        <3>2. req_list' = l
            BY <2>1 DEF Pend, arpcache_append_packet, p, ip
        <3> HIDE DEF r
        <3>3. /\ l \in Seq(Requests) /\ DOMAIN l = 1 .. n + 1
              /\ l[1] = r /\ \A i \in 1 .. n : l[i + 1] = req_list[i]
            <4>1. <<r>> \in Seq(Requests) /\ Len(<<r>>) = 1 /\ <<r>>[1] = r
                BY <3>1, OneIsSeq
            <4>2. l \in Seq(Requests) /\ Len(l) = 1 + n
                BY <1>6, <4>1
            <4>3. \A i \in 1 .. 1 + n : l[i] = IF i <= 1 THEN <<r>>[i] ELSE req_list[i - 1]
                BY <1>6, <4>1, ConcatProperties
            <4> HIDE DEF l
            <4>4. \A i \in 1 .. n : i + 1 \in 1 .. 1 + n /\ ~ (i + 1 <= 1) /\ (i + 1) - 1 = i
                BY <1>6
            <4>5. DOMAIN l = 1 .. n + 1
                BY <1>6, <4>2
            <4>6. 1 \in 1 .. 1 + n /\ l[1] = r
                BY <1>6, <4>1, <4>3
            <4> QED
                BY <4>2, <4>3, <4>4, <4>5, <4>6
        <3> HIDE DEF l, n
        <3>4. \A i \in 1 .. n + 1 : i = 1 \/ (i - 1 \in DOMAIN req_list /\ l[i] = req_list[i - 1])
            <4>1. \A i \in 1 .. n + 1 : i = 1 \/ (i - 1 \in 1 .. n /\ (i - 1) + 1 = i)
                BY <1>6 DEF n
            <4> QED
                BY <1>6, <3>3, <4>1 DEF n
        <3>5. /\ IsInjective(<<p>>) /\ ToSet(<<p>>) = {p}
            BY DEF IsInjective, ToSet
        <3>6. \A i \in DOMAIN req_list : /\ req_list[i].ip # ip
                                         /\ p \notin ToSet(req_list[i].pkts)
            BY <1>3, <2>1 DEF RequestsFor, Waiting
        <3>7. \A i, j \in 1 .. n + 1 : l[i].ip = l[j].ip => i = j
            <4> SUFFICES ASSUME NEW i \in 1 .. n + 1, NEW j \in 1 .. n + 1, l[i].ip = l[j].ip
                         PROVE  i = j
                OBVIOUS
            <4>1. CASE i # 1 /\ j # 1
                <5>1. i - 1 = j - 1
                    BY <3>4, <4>1 DEF RouterInv, OnePerAddress
                <5> QED
                    BY <1>6, <5>1 DEF n
            <4>2. CASE i = 1 \/ j = 1
                BY <3>1, <3>3, <3>4, <3>6, <4>2
            <4> QED
                BY <4>1, <4>2
        <3>8. \A i \in 1 .. n + 1 : IsInjective(l[i].pkts)
            BY <3>1, <3>3, <3>4, <3>5 DEF RouterInv, Apart
        <3>9. \A i, j \in 1 .. n + 1 : ToSet(l[i].pkts) \cap ToSet(l[j].pkts) # {} => i = j
            <4> SUFFICES ASSUME NEW i \in 1 .. n + 1, NEW j \in 1 .. n + 1,
                                ToSet(l[i].pkts) \cap ToSet(l[j].pkts) # {}
                         PROVE  i = j
                OBVIOUS
            <4>1. CASE i # 1 /\ j # 1
                <5>1. i - 1 = j - 1
                    BY <3>4, <4>1 DEF RouterInv, Apart
                <5> QED
                    BY <1>6, <5>1 DEF n
            <4>2. CASE i = 1 \/ j = 1
                BY <3>1, <3>3, <3>4, <3>5, <3>6, <4>2
            <4> QED
                BY <4>1, <4>2
        <3>10. \A q : Waiting(q)' <=> Waiting(q) \/ q = p
            <4>1. ASSUME NEW q, Waiting(q)'  PROVE Waiting(q) \/ q = p
                <5>1. PICK i \in 1 .. n + 1 : q \in ToSet(l[i].pkts)
                    BY <3>2, <3>3, <4>1 DEF Waiting
                <5> QED
                    BY <3>1, <3>3, <3>4, <3>5, <5>1 DEF Waiting
            <4>2. ASSUME NEW q, Waiting(q)  PROVE Waiting(q)'
                <5>1. PICK i \in DOMAIN req_list : q \in ToSet(req_list[i].pkts)
                    BY <4>2 DEF Waiting
                <5>2. i + 1 \in 1 .. n + 1 /\ l[i + 1] = req_list[i]
                    BY <1>6, <3>3, <5>1 DEF n
                <5> QED
                    BY <3>2, <3>3, <5>1, <5>2 DEF Waiting
            <4>3. ASSUME NEW q, q = p  PROVE Waiting(q)'
                <5>1. 1 \in 1 .. n + 1
                    BY <1>6 DEF n
                <5>2. q \in ToSet(l[1].pkts)
                    BY <3>1, <3>3, <3>5, <4>3
                <5> QED
                    BY <3>2, <3>3, <5>1, <5>2 DEF Waiting
            <4> QED
                BY <4>1, <4>2, <4>3
        <3> QED
            BY <3>2, <3>3, <3>7, <3>8, <3>9, <3>10
    <2>2. CASE RequestsFor(ip) # {}
        <3> DEFINE k == Min(RequestsFor(ip))
                   ps == Append(req_list[k].pkts, p)
                   r == [req_list[k] EXCEPT !.pkts = ps]
        <3>1. k \in DOMAIN req_list
            BY <1>1, <2>2, FirstRequest
        <3>2. req_list' = [req_list EXCEPT ![k] = r]
            BY <2>2 DEF Pend, arpcache_append_packet, p, ip
        <3> HIDE DEF k
        <3>3. /\ ps \in Seq(Packets) /\ IsInjective(ps)
              /\ \A q : q \in ToSet(ps) <=> q \in ToSet(req_list[k].pkts) \/ q = p
            <4> DEFINE u == req_list[k].pkts
                       v == <<p>>
            <4>1. u \in Seq(Packets) /\ v \in Seq(Packets) /\ ps = u \o v
                <5>1. u \in Seq(Packets)
                    BY <1>1, <3>1, RequestIs
                <5>2. v \in Seq(Packets)
                    BY <1>1, OneIsSeq
                <5> HIDE DEF u
                <5>3. Append(u, p) = u \o <<p>>
                    BY <1>1, <5>1, AppendIsConcat
                <5> QED
                    BY <5>1, <5>2, <5>3 DEF u
            <4>2. IsInjective(v) /\ ToSet(v) = {p}
                BY DEF IsInjective, ToSet
            <4>3. IsInjective(u) /\ p \notin ToSet(u)
                BY <1>3, <3>1 DEF RouterInv, Apart, Waiting
            <4> HIDE DEF u, v, ps
            <4>4. /\ u \o v \in Seq(Packets) /\ IsInjective(u \o v)
                  /\ ToSet(u \o v) = ToSet(u) \cup ToSet(v)
                BY <4>1, <4>2, <4>3, JoinIs
            <4> QED
                BY <4>1, <4>2, <4>4 DEF u
        <3> HIDE DEF ps
        <3>4. /\ r \in Requests /\ r.ip = req_list[k].ip /\ r.pkts = ps
            BY <1>1, <3>1, <3>3, RequestIs DEF Requests
        <3> HIDE DEF r
        <3>5. /\ req_list' \in Seq(Requests) /\ DOMAIN req_list' = DOMAIN req_list
              /\ req_list'[k] = r
              /\ \A i \in DOMAIN req_list : i # k => req_list'[i] = req_list[i]
            BY <1>6, <3>1, <3>2, <3>4
        <3>6. \A i \in DOMAIN req_list : req_list'[i].ip = req_list[i].ip
            BY <3>4, <3>5
        <3>7. \A i \in DOMAIN req_list : IsInjective(req_list'[i].pkts)
            BY <3>3, <3>4, <3>5 DEF RouterInv, Apart
        <3>8. \A i \in DOMAIN req_list : \A q : q \in ToSet(req_list'[i].pkts)
                  <=> q \in ToSet(req_list[i].pkts) \/ (i = k /\ q = p)
            BY <3>3, <3>4, <3>5
        <3>9. \A i \in DOMAIN req_list : p \notin ToSet(req_list[i].pkts)
            BY <1>3 DEF Waiting
        <3>10. ASSUME NEW i \in DOMAIN req_list, NEW j \in DOMAIN req_list, NEW q,
                      q \in ToSet(req_list'[i].pkts), q \in ToSet(req_list'[j].pkts)
               PROVE  i = j
            <4>1. CASE q = p
                BY <3>8, <3>9, <3>10, <4>1
            <4>2. CASE q # p
                BY <3>8, <3>10, <4>2 DEF RouterInv, Apart
            <4> QED
                BY <4>1, <4>2
        <3>11. \A q : Waiting(q)' <=> Waiting(q) \/ q = p
            BY <3>1, <3>5, <3>8 DEF Waiting
        <3> QED
            BY <3>5, <3>6, <3>7, <3>10, <3>11 DEF RouterInv, OnePerAddress
    <2> QED
        BY <2>1, <2>2
<1>8. RouterType'
    BY <1>1, <1>2, <1>4, <1>7 DEF RouterType, CacheType
<1>9. OnePerAddress'
    BY <1>2, <1>7 DEF RouterInv, OnePerAddress
<1>10. Apart'
    <2>1. \A q \in Packets : hand'["main"].pkt = q => hand'["sweep"].pkt # q
        BY <1>4 DEF RouterInv, Apart, Threads
    <2>2. \A q \in Packets, u \in Threads :
              hand'[u].pkt = q => ~ Waiting(q)' /\ q \notin ToSet(pkt_list')
        BY <1>2, <1>4, <1>5, <1>7 DEF RouterInv, Apart
    <2>3. \A q \in Packets : Waiting(q)' => q \notin ToSet(pkt_list')
        BY <1>2, <1>3, <1>7 DEF RouterInv, Apart
    <2> QED
        BY <1>2, <1>7, <2>1, <2>2, <2>3 DEF RouterInv, Apart
<1>11. \A q \in Packets : Held(q)' <=> Held(q)
    BY <1>1, <1>2, <1>4, <1>7 DEF Held, p
<1>12. \A q \in Packets : Status(q)'
    BY <1>2, <1>11 DEF RouterInv, Status
<1> QED
    BY <1>8, <1>9, <1>10, <1>12 DEF RouterInv

(* Requests go, and their packets may go to the list of the given up. *)
LEMMA StillApart ==
    ASSUME RouterInv, NEW f, Fewer(f), UNCHANGED hand,
           IsInjective(pkt_list'),
           \A q \in Packets : q \in ToSet(pkt_list') => q \in ToSet(pkt_list) \/ Waiting(q),
           \A q \in Packets : Waiting(q)' => q \notin ToSet(pkt_list')
    PROVE  Apart'
<1>1. /\ \A i \in DOMAIN req_list' : IsInjective(req_list'[i].pkts)
      /\ \A i, j \in DOMAIN req_list' :
             ToSet(req_list'[i].pkts) \cap ToSet(req_list'[j].pkts) # {} => i = j
      /\ \A q : Waiting(q)' => Waiting(q)
    BY FewerIs
<1>2. \A q \in Packets, t \in Threads :
          hand'[t].pkt = q => ~ Waiting(q)' /\ q \notin ToSet(pkt_list')
    BY <1>1 DEF RouterInv, Apart
<1>3. \A q \in Packets : hand'["main"].pkt = q => hand'["sweep"].pkt # q
    BY DEF RouterInv, Apart
<1> QED
    BY <1>1, <1>2, <1>3 DEF Apart

LEMMA OneRequestEach ==
    ASSUME RouterInv, NEW f, Fewer(f), EntriesOK'
    PROVE  OnePerAddress'
BY FewerIs DEF OnePerAddress, EntriesOK

LEMMA SecondStep ==
    ASSUME RouterInv, Second
    PROVE  RouterInv'
<1> DEFINE f == [i \in DOMAIN req_list |-> i]
           new(i) == [req_list[i] EXCEPT !.due = TRUE]
<1>1. RouterType /\ EntriesOK /\ req_list \in Seq(Requests)
    BY DEF RouterInv, RouterType, CacheType, OnePerAddress, EntriesOK
<1>2. /\ UNCHANGED <<hdr, gone, outside, hand, pkt_list, emitted>>
      /\ slept' = TRUE /\ req_list' = [i \in DOMAIN req_list |-> new(i)]
    BY DEF Second, Tick
<1>3. EntriesOK'
    BY <1>1, OlderIs DEF Second
<1>4. ASSUME NEW i \in DOMAIN req_list
      PROVE  /\ new(i) \in Requests
             /\ new(i).ip = req_list[i].ip /\ new(i).pkts = req_list[i].pkts
    <2>1. req_list[i] \in Requests
        BY <1>1
    <2> QED
        BY <2>1 DEF Requests
<1> HIDE DEF new
<1>5. /\ req_list' \in Seq(Requests) /\ DOMAIN req_list' = DOMAIN req_list
      /\ \A i \in DOMAIN req_list : req_list'[i] = new(i)
    <2>1. DOMAIN req_list = 1 .. Len(req_list) /\ Len(req_list) \in Nat
        BY <1>1
    <2> QED
        BY <1>2, <1>4, <2>1
<1>6. Fewer(f)
    BY <1>4, <1>5 DEF Fewer
<1>7. \A q : Waiting(q)' <=> Waiting(q)
    BY <1>4, <1>5 DEF Waiting
<1>8. RouterType'
    BY <1>1, <1>2, <1>3, <1>5 DEF RouterType, CacheType, EntriesOK
<1>9. OnePerAddress'
    BY <1>3, <1>6, OneRequestEach
<1>10. Apart'
    <2>1. IsInjective(pkt_list') /\ \A q \in Packets : Waiting(q)' => q \notin ToSet(pkt_list')
        BY <1>2, <1>7 DEF RouterInv, Apart
    <2> QED
        BY <1>2, <1>6, <2>1, StillApart
<1>11. \A q \in Packets : Status(q)'
    <2>1. \A q \in Packets : Held(q)' <=> Held(q)
        BY <1>2, <1>7 DEF Held
    <2> QED
        BY <1>2, <2>1 DEF RouterInv, Status
<1> QED
    BY <1>8, <1>9, <1>10, <1>11 DEF RouterInv

(* An answer for ip: the packets of the first request for it are sent. *)
LEMMA AnswerStep ==
    ASSUME RouterInv, NEW ip \in Hosts, handle_arp_packet(ip)
    PROVE  RouterInv'
<1> DEFINE k == Min(RequestsFor(ip))
           ps == ToSet(req_list[k].pkts)
<1>1. RouterType /\ EntriesOK /\ req_list \in Seq(Requests) /\ ip \in Addrs
    BY RouterAssumption DEF RouterInv, RouterType, CacheType, OnePerAddress, EntriesOK
<1>2. /\ Store(ip) /\ Answer(ip)
      /\ UNCHANGED <<hdr, gone, hand, pkt_list, slept>>
    BY DEF handle_arp_packet, arpcache_insert
<1>3. EntriesOK' /\ outside' \in BOOLEAN
    BY <1>1, <1>2, StoreIs DEF RouterType, CacheType
<1>4. emitted \in [Packets -> 0 .. 2]
    BY <1>1 DEF RouterType, CacheType
<1>5. CASE RequestsFor(ip) = {}
    <2>1. UNCHANGED <<req_list, emitted>>
        BY <1>2, <1>5 DEF Answer
    <2>2. RouterType'
        BY <1>1, <1>2, <1>3, <2>1 DEF RouterType, CacheType, EntriesOK
    <2>3. OnePerAddress'
        BY <1>3, <2>1 DEF RouterInv, OnePerAddress, EntriesOK
    <2>4. \A q : Waiting(q)' <=> Waiting(q)
        BY <2>1 DEF Waiting
    <2>5. Apart'
        BY <1>2, <2>1, <2>4 DEF RouterInv, Apart
    <2>6. \A q \in Packets : Status(q)'
        BY <1>2, <2>1, <2>4 DEF RouterInv, Status, Held
    <2> QED
        BY <2>2, <2>3, <2>5, <2>6 DEF RouterInv
<1>6. CASE RequestsFor(ip) # {}
    <2>1. Emit(ps) /\ req_list' = RemoveAt(req_list, k)
        BY <1>2, <1>6 DEF Answer
    <2>2. k \in DOMAIN req_list
        BY <1>1, <1>6, FirstRequest
    <2> HIDE DEF k
    <2> DEFINE n == Len(req_list)
               f == [j \in 1 .. n - 1 |-> IF j < k THEN j ELSE j + 1]
    <2>3. n \in Nat /\ DOMAIN req_list = 1 .. n /\ k \in 1 .. n
        BY <1>1, <2>2
    <2>4. /\ req_list' \in Seq(Requests) /\ DOMAIN req_list' = 1 .. n - 1
          /\ \A j \in 1 .. n - 1 : req_list'[j] = req_list[IF j < k THEN j ELSE j + 1]
        <3>1. /\ RemoveAt(req_list, k) \in Seq(Requests)
              /\ Len(RemoveAt(req_list, k)) = n - 1
              /\ \A j \in 1 .. n - 1 :
                     RemoveAt(req_list, k)[j] = req_list[IF j < k THEN j ELSE j + 1]
            BY <1>1, <2>2, RemoveIs
        <3> QED
            BY <2>1, <3>1
    <2> HIDE DEF n
    <2>5. /\ f \in [1 .. n - 1 -> 1 .. n]
          /\ \A i, j \in 1 .. n - 1 : f[i] = f[j] => i = j
          /\ \A i \in 1 .. n - 1 : f[i] # k
          /\ \A j \in 1 .. n : j # k => \E i \in 1 .. n - 1 : f[i] = j
        <3>1. \A i \in 1 .. n - 1 : /\ (IF i < k THEN i ELSE i + 1) \in 1 .. n
                                    /\ (IF i < k THEN i ELSE i + 1) # k
            BY <2>3
        <3>2. \A i, j \in 1 .. n - 1 :
                  (IF i < k THEN i ELSE i + 1) = (IF j < k THEN j ELSE j + 1) => i = j
            BY <2>3
        <3>3. ASSUME NEW j \in 1 .. n, j # k  PROVE \E i \in 1 .. n - 1 : f[i] = j
            <4>1. CASE j < k
                <5>1. j \in 1 .. n - 1
                    BY <2>3, <4>1
                <5> QED
                    BY <4>1, <5>1
            <4>2. CASE ~ (j < k)
                <5>1. j - 1 \in 1 .. n - 1 /\ ~ (j - 1 < k) /\ (j - 1) + 1 = j
                    BY <2>3, <3>3, <4>2
                <5> QED
                    BY <5>1
            <4> QED
                BY <4>1, <4>2
        <3> QED
            BY <3>1, <3>2, <3>3
    <2>6. \A i \in 1 .. n - 1 : req_list'[i] = req_list[f[i]]
        BY <2>4
    <2> HIDE DEF f
    <2>7. Fewer(f)
        BY <2>3, <2>4, <2>5, <2>6 DEF Fewer
    <2>8. \A q : Waiting(q)' <=> \E i \in 1 .. n - 1 : q \in ToSet(req_list[f[i]].pkts)
        BY <2>4, <2>7, FewerIs
    <2>9. \A q \in Packets : Waiting(q)' <=> Waiting(q) /\ q \notin ps
        <3> SUFFICES ASSUME NEW q \in Packets
                     PROVE  Waiting(q)' <=> Waiting(q) /\ q \notin ps
            OBVIOUS
        <3>1. ASSUME Waiting(q)'  PROVE Waiting(q) /\ q \notin ps
            <4>1. PICK i \in 1 .. n - 1 : q \in ToSet(req_list[f[i]].pkts)
                BY <2>8, <3>1
            <4>2. f[i] \in DOMAIN req_list /\ f[i] # k
                BY <2>3, <2>5
            <4>3. q \notin ps
                BY <2>2, <4>1, <4>2 DEF RouterInv, Apart
            <4> QED
                BY <4>1, <4>2, <4>3 DEF Waiting
        <3>2. ASSUME Waiting(q), q \notin ps  PROVE Waiting(q)'
            <4>1. PICK j \in DOMAIN req_list : q \in ToSet(req_list[j].pkts)
                BY <3>2 DEF Waiting
            <4>2. j # k
                BY <3>2, <4>1
            <4>3. PICK i \in 1 .. n - 1 : f[i] = j
                BY <2>3, <2>5, <4>2
            <4> QED
                BY <2>8, <4>1, <4>3
        <3> QED
            BY <3>1, <3>2
    <2>10. \A q \in ps : Waiting(q)
        BY <2>2 DEF Waiting
    <2> HIDE DEF ps
    <2>11. ASSUME NEW q \in Packets, q \in ps
           PROVE  emitted[q] = 0 /\ q \notin gone /\ hdr[q] # Unseen /\ Held(q)
        <3>1. Held(q)
            BY <2>10, <2>11 DEF Held
        <3> QED
            BY <3>1 DEF RouterInv, Status
    <2>12. /\ emitted' \in [Packets -> 0 .. 2]
           /\ \A q \in Packets : emitted'[q] = IF q \in ps THEN 1 ELSE emitted[q]
        <3>1. emitted' = [q \in Packets |-> IF q \in ps THEN Min2(emitted[q] + 1, 2)
                                                        ELSE emitted[q]]
            BY <2>1 DEF Emit
        <3>2. \A q \in Packets : q \in ps => Min2(emitted[q] + 1, 2) = 1
            BY <2>11 DEF Min2
        <3>3. emitted' = [q \in Packets |-> IF q \in ps THEN 1 ELSE emitted[q]]
            BY <3>1, <3>2
        <3> QED
            BY <1>4, <3>3
    <2>13. RouterType'
        BY <1>1, <1>2, <1>3, <2>4, <2>12 DEF RouterType, CacheType, EntriesOK
    <2>14. OnePerAddress'
        BY <1>3, <2>7, OneRequestEach
    <2>15. Apart'
        <3>1. IsInjective(pkt_list')
            BY <1>2 DEF RouterInv, Apart
        <3>2. \A q \in Packets : Waiting(q)' => q \notin ToSet(pkt_list')
            BY <1>2, <2>9 DEF RouterInv, Apart
        <3> QED
            BY <1>2, <2>7, <3>1, <3>2, StillApart
    <2>16. ASSUME NEW q \in Packets  PROVE Status(q)'
        <3>1. CASE q \in ps
            <4>1. ~ Held(q)'
                <5>1. ~ Waiting(q)' /\ Waiting(q)
                    BY <2>9, <2>10, <3>1
                <5>2. /\ \A t \in Threads : hand'[t].pkt # q
                      /\ q \notin ToSet(pkt_list')
                    BY <1>2, <5>1 DEF RouterInv, Apart
                <5> QED
                    BY <5>1, <5>2 DEF Held
            <4> QED
                BY <1>2, <2>11, <2>12, <3>1, <4>1 DEF RouterInv, Status
        <3>2. CASE q \notin ps
            <4>1. Held(q)' <=> Held(q)
                BY <1>2, <2>9, <3>2 DEF Held
            <4> QED
                BY <1>2, <2>12, <3>2, <4>1 DEF RouterInv, Status
        <3> QED
            BY <3>1, <3>2
    <2> QED
        BY <2>13, <2>14, <2>15, <2>16 DEF RouterInv
<1> QED
    BY <1>5, <1>6

(* A request that is kept is not repeated more than MaxRetries times. *)
LEMMA ResentIs ==
    ASSUME NEW r \in Requests, ~ GivenUp(r)
    PROVE  /\ Resent(r) \in Requests
           /\ Resent(r).ip = r.ip /\ Resent(r).pkts = r.pkts
<1>1. r.due \in BOOLEAN /\ r.retries \in 1 .. MaxRetries
    BY DEF Requests
<1>2. CASE r.due
    <2> DEFINE n == r.retries + 1
    <2>1. n \in 1 .. MaxRetries
        BY <1>1, <1>2, CacheAssumption DEF GivenUp
    <2>2. Resent(r) = [r EXCEPT !.retries = n]
        BY <1>2 DEF Resent
    <2> HIDE DEF n
    <2> QED
        BY <2>1, <2>2 DEF Requests
<1>3. CASE ~ r.due
    BY <1>3 DEF Resent
<1> QED
    BY <1>1, <1>2, <1>3

(* Some of the requests, in order, are sublists with a place for each. *)
LEMMA SomeRequests ==
    ASSUME req_list \in Seq(Requests), NEW K \in SUBSET DOMAIN req_list
    PROVE  LET l == Sublist(req_list, K)
           IN  /\ l \in Seq(Requests)
               /\ \E r \in [1 .. Len(l) -> K] :
                      /\ \A i, j \in 1 .. Len(l) : r[i] = r[j] => i = j
                      /\ \A k \in K : \E i \in 1 .. Len(l) : r[i] = k
                      /\ \A i \in 1 .. Len(l) : l[i] = req_list[r[i]]
<1> DEFINE l == Sublist(req_list, K)
           n == Len(l)
<1>1. l \in Seq(Requests) /\ n \in Nat
    BY SublistIs
<1>2. PICK r : /\ Orders(r, K) /\ Cardinality(K) = n
               /\ \A j \in 1 .. n : l[j] = req_list[r[j]]
    BY SublistIs
<1> HIDE DEF l, n
<1>3. /\ r \in [1 .. n -> K]
      /\ \A i, j \in 1 .. n : i < j => r[i] < r[j]
      /\ \A k \in K : \E i \in 1 .. n : r[i] = k
    BY <1>2 DEF Orders
<1>4. \A k \in K : k \in Nat
    OBVIOUS
<1>5. \A i, j \in 1 .. n : r[i] = r[j] => i = j
    <2>1. \A i, j \in 1 .. n : i < j \/ j < i \/ i = j
        BY <1>1
    <2>2. \A i \in 1 .. n : r[i] \in Nat
        BY <1>3, <1>4
    <2>3. \A x, y \in Nat : x < y => x # y
        OBVIOUS
    <2> QED
        BY <1>3, <2>1, <2>2, <2>3
<1>6. \A i \in 1 .. n : l[i] = req_list[r[i]]
    BY <1>2
<1> QED
    BY <1>1, <1>3, <1>5, <1>6 DEF l, n

(* A sweep moves the packets of the requests it gives up to pkt_list. *)
LEMMA SweepStep ==
    ASSUME RouterInv, Sweep
    PROVE  RouterInv'
<1> DEFINE D == DOMAIN req_list
           lost == {i \in D : GivenUp(req_list[i])}
           kept == Sublist(req_list, D \ lost)
           up == Sublist(req_list, lost)
           new(i) == Resent(kept[i])
           ss == [i \in DOMAIN up |-> up[i].pkts]
<1>1. RouterType /\ EntriesOK /\ req_list \in Seq(Requests)
    BY DEF RouterInv, RouterType, CacheType, OnePerAddress, EntriesOK
<1>2. /\ UNCHANGED <<hdr, gone, outside, hand, emitted>>
      /\ pkt_list = <<>> /\ slept' = FALSE /\ entries' = Aged
      /\ req_list' = [i \in DOMAIN kept |-> new(i)]
      /\ pkt_list' = FlattenSeq(ss)
    BY DEF Sweep, arpcache_sweep, PacketsOf
<1>3. EntriesOK'
    BY <1>1, <1>2, AgedIs
<1>4. lost \in SUBSET D /\ D \ lost \in SUBSET D
    OBVIOUS
<1>5. \A i \in D \ lost : ~ GivenUp(req_list[i])
    OBVIOUS
<1>6. kept \in Seq(Requests) /\ up \in Seq(Requests)
    BY <1>1, <1>4, SomeRequests
<1>7. PICK f \in [1 .. Len(kept) -> D \ lost] :
          /\ \A i, j \in 1 .. Len(kept) : f[i] = f[j] => i = j
          /\ \A k \in D \ lost : \E i \in 1 .. Len(kept) : f[i] = k
          /\ \A i \in 1 .. Len(kept) : kept[i] = req_list[f[i]]
    BY <1>1, <1>4, SomeRequests
<1>8. PICK g \in [1 .. Len(up) -> lost] :
          /\ \A i, j \in 1 .. Len(up) : g[i] = g[j] => i = j
          /\ \A k \in lost : \E i \in 1 .. Len(up) : g[i] = k
          /\ \A i \in 1 .. Len(up) : up[i] = req_list[g[i]]
    BY <1>1, <1>4, SomeRequests
<1> DEFINE m == Len(kept)
           n == Len(up)
<1>9. m \in Nat /\ n \in Nat /\ DOMAIN kept = 1 .. m /\ DOMAIN up = 1 .. n
    BY <1>6
<1> HIDE DEF kept, up, lost, D
<1>10. ASSUME NEW i \in 1 .. m
       PROVE  /\ f[i] \in DOMAIN req_list
              /\ new(i) \in Requests
              /\ new(i).ip = req_list[f[i]].ip /\ new(i).pkts = req_list[f[i]].pkts
    <2>1. f[i] \in D /\ ~ GivenUp(req_list[f[i]]) /\ kept[i] = req_list[f[i]]
        BY <1>5, <1>7
    <2>2. req_list[f[i]] \in Requests
        BY <1>1, <2>1 DEF D
    <2> QED
        BY <2>1, <2>2, ResentIs DEF D
<1> HIDE DEF new
<1>11. /\ req_list' \in Seq(Requests) /\ DOMAIN req_list' = 1 .. m
       /\ \A i \in 1 .. m : req_list'[i] = new(i)
    BY <1>2, <1>9, <1>10
<1>12. Fewer(f)
    <2>1. f \in [1 .. m -> DOMAIN req_list]
        BY <1>7, <1>10
    <2> QED
        BY <1>7, <1>10, <1>11, <2>1 DEF Fewer
<1>13. \A q : Waiting(q)' <=> \E k \in D \ lost : q \in ToSet(req_list[k].pkts)
    <2>1. \A q : Waiting(q)' <=> \E i \in 1 .. m : q \in ToSet(req_list[f[i]].pkts)
        BY <1>11, <1>12, FewerIs
    <2>2. \A i \in 1 .. m : f[i] \in D \ lost
        BY <1>7
    <2>3. \A k \in D \ lost : \E i \in 1 .. m : f[i] = k
        BY <1>7
    <2> QED
        BY <2>1, <2>2, <2>3
<1>14. /\ pkt_list' \in Seq(Packets) /\ IsInjective(pkt_list')
       /\ \A q : q \in ToSet(pkt_list') <=> \E k \in lost : q \in ToSet(req_list[k].pkts)
    <2>1. \A i \in 1 .. n : g[i] \in lost /\ g[i] \in DOMAIN req_list
        BY <1>4, <1>8 DEF D
    <2>2. \A i \in 1 .. n : ss[i] = req_list[g[i]].pkts
        BY <1>8, <1>9
    <2>3. \A i \in 1 .. n : ss[i] \in Seq(Packets) /\ IsInjective(ss[i])
        BY <1>1, <2>1, <2>2, RequestIs DEF RouterInv, Apart
    <2>4. ss \in Seq(Seq(Packets)) /\ Len(ss) = n
        <3>1. DOMAIN ss = 1 .. n /\ ss = [i \in 1 .. n |-> ss[i]]
            BY <1>9
        <3> HIDE DEF ss, n
        <3> QED
            BY <1>9, <2>3, <3>1
    <2>5. ASSUME NEW i \in 1 .. n, NEW j \in 1 .. n, ToSet(ss[i]) \cap ToSet(ss[j]) # {}
          PROVE  i = j
        <3>1. g[i] = g[j]
            BY <2>1, <2>2, <2>5 DEF RouterInv, Apart
        <3> QED
            BY <1>8, <3>1
    <2> HIDE DEF ss, n
    <2>6. DOMAIN ss = 1 .. n
        BY <1>9, <2>4
    <2>8. Separate(ss)
        BY <2>3, <2>5, <2>6 DEF Separate
    <2>9. /\ FlattenSeq(ss) \in Seq(Packets) /\ IsInjective(FlattenSeq(ss))
          /\ \A q : q \in ToSet(FlattenSeq(ss)) <=> \E i \in DOMAIN ss : q \in ToSet(ss[i])
        BY <2>4, <2>8, FlattenIs
    <2>7. \A k \in lost : \E i \in 1 .. n : g[i] = k
        BY <1>8 DEF n
    <2> QED
        BY <1>2, <2>1, <2>2, <2>6, <2>7, <2>9
<1>15. \A q : Waiting(q) <=> \E k \in D : q \in ToSet(req_list[k].pkts)
    BY DEF Waiting, D
<1>16. \A q : Waiting(q) <=> Waiting(q)' \/ q \in ToSet(pkt_list')
    BY <1>4, <1>13, <1>14, <1>15
<1>17. \A q : q \notin ToSet(pkt_list)
    BY <1>2 DEF ToSet
<1>18. RouterType'
    BY <1>1, <1>2, <1>3, <1>11, <1>14 DEF RouterType, CacheType, EntriesOK
<1>19. OnePerAddress'
    BY <1>3, <1>12, OneRequestEach
<1>20. Apart'
    <2>1. ASSUME NEW q, Waiting(q)', q \in ToSet(pkt_list')  PROVE FALSE
        <3>1. PICK k \in D \ lost : q \in ToSet(req_list[k].pkts)
            BY <1>13, <2>1
        <3>2. PICK l \in lost : q \in ToSet(req_list[l].pkts)
            BY <1>14, <2>1
        <3>3. k = l
            BY <1>4, <3>1, <3>2 DEF RouterInv, Apart, D
        <3> QED
            BY <3>1, <3>2, <3>3
    <2> QED
        BY <1>2, <1>12, <1>14, <1>16, <2>1, StillApart
<1>21. \A q \in Packets : Held(q)' <=> Held(q)
    BY <1>2, <1>16, <1>17 DEF Held
<1>22. \A q \in Packets : Status(q)'
    BY <1>2, <1>21 DEF RouterInv, Status
<1> QED
    BY <1>18, <1>19, <1>20, <1>22 DEF RouterInv

(* A packet comes, that nothing holds, and is handled by the main thread. *)
LEMMA ReceiveIs ==
    ASSUME RouterInv, NEW p \in Packets, NEW a \in Arrivals, Receive(p, a)
    PROVE  RouterInv' /\ Handled("main", p) /\ hdr[p] = Unseen
<1>1. /\ hdr[p] = Unseen /\ hand["main"] = Nothing /\ "main" \in Threads
      /\ UNCHANGED <<entries, outside, req_list, pkt_list, slept>>
    BY DEF Receive, Threads
<1>2. Handled("main", p)
    BY handle_ip_packetIs DEF Receive
<1>3. ~ Held(p) /\ emitted[p] = 0 /\ p \notin gone
    BY <1>1 DEF RouterInv, Status
<1>4. ~ Waiting(p) /\ p \notin ToSet(pkt_list) /\ \A u \in Threads : hand[u].pkt # p
    BY <1>3 DEF Held
<1>5. pkt_list' \in Seq(Packets) /\ IsInjective(pkt_list') /\ ToSet(pkt_list') = ToSet(pkt_list)
    BY <1>1 DEF RouterInv, RouterType, CacheType, Apart
<1>6. RouterInv'
    BY <1>1, <1>2, <1>3, <1>4, <1>5, HandledStep
<1> QED
    BY <1>1, <1>2, <1>6

LEMMA TailIs ==
    ASSUME NEW S, NEW s \in Seq(S), s # <<>>, IsInjective(s)
    PROVE  /\ Head(s) \in S /\ Head(s) \in ToSet(s)
           /\ Tail(s) \in Seq(S) /\ IsInjective(Tail(s))
           /\ \A q : q \in ToSet(Tail(s)) <=> q \in ToSet(s) /\ q # Head(s)
<1> DEFINE n == Len(s)
           t == Tail(s)
<1>1. n \in Nat /\ n >= 1 /\ DOMAIN s = 1 .. n /\ Head(s) = s[1] /\ Head(s) \in S
    OBVIOUS
<1>2. t \in Seq(S) /\ DOMAIN t = 1 .. n - 1 /\ \A i \in 1 .. n - 1 : t[i] = s[i + 1]
    OBVIOUS
<1> HIDE DEF n, t
<1>3. 1 \in 1 .. n /\ \A i \in 1 .. n - 1 : i + 1 \in 1 .. n /\ i + 1 # 1
    BY <1>1
<1>4. IsInjective(t)
    <2> SUFFICES ASSUME NEW i \in 1 .. n - 1, NEW j \in 1 .. n - 1, t[i] = t[j]
                 PROVE  i = j
        BY <1>2 DEF IsInjective
    <2>1. i + 1 = j + 1
        BY <1>1, <1>2, <1>3 DEF IsInjective
    <2> QED
        BY <1>1, <2>1
<1>5. ASSUME NEW q, q \in ToSet(t)  PROVE q \in ToSet(s) /\ q # Head(s)
    <2>1. PICK i \in 1 .. n - 1 : q = s[i + 1]
        BY <1>2, <1>5 DEF ToSet
    <2>2. s[i + 1] # s[1]
        BY <1>1, <1>3 DEF IsInjective
    <2> QED
        BY <1>1, <1>3, <2>1, <2>2 DEF ToSet
<1>6. ASSUME NEW q, q \in ToSet(s), q # Head(s)  PROVE q \in ToSet(t)
    <2>1. PICK i \in 1 .. n : q = s[i]
        BY <1>1, <1>6 DEF ToSet
    <2>2. i - 1 \in 1 .. n - 1 /\ (i - 1) + 1 = i
        BY <1>1, <1>6, <2>1
    <2>3. t[i - 1] = q
        BY <1>2, <2>1, <2>2
    <2> QED
        BY <1>2, <2>2, <2>3 DEF ToSet
<1>7. Head(s) \in ToSet(s)
    BY <1>1, <1>3 DEF ToSet
<1> QED
    BY <1>1, <1>2, <1>4, <1>5, <1>6, <1>7 DEF t

(* The sweeping thread takes the first packet from its list and handles it. *)
LEMMA RefuseIs ==
    ASSUME RouterInv, Refuse
    PROVE  LET p == Head(pkt_list)
           IN  RouterInv' /\ Handled("sweep", p) /\ p \in Packets /\ Held(p)
<1> DEFINE p == Head(pkt_list)
<1>1. /\ pkt_list # <<>> /\ hand["sweep"] = Nothing /\ "sweep" \in Threads
      /\ icmp_send_error("sweep", p, hdr[p]) /\ pkt_list' = Tail(pkt_list)
      /\ UNCHANGED <<entries, outside, req_list, slept>>
    BY DEF Refuse, Threads
<1>2. pkt_list \in Seq(Packets) /\ IsInjective(pkt_list)
    BY DEF RouterInv, RouterType, CacheType, Apart
<1>3. /\ p \in Packets /\ p \in ToSet(pkt_list)
      /\ pkt_list' \in Seq(Packets) /\ IsInjective(pkt_list')
      /\ \A q : q \in ToSet(pkt_list') <=> q \in ToSet(pkt_list) /\ q # p
    BY <1>1, <1>2, TailIs
<1> HIDE DEF p
<1>4. Held(p)
    BY <1>3 DEF Held
<1>5. hdr[p] \in Headers /\ emitted[p] = 0 /\ p \notin gone
    BY <1>3, <1>4 DEF RouterInv, Status
<1>6. Handled("sweep", p)
    BY <1>1, <1>3, <1>5, icmp_send_errorIs
<1>7. ~ Waiting(p) /\ \A u \in Threads : hand[u].pkt # p
    BY <1>3 DEF RouterInv, Apart
<1>8. RouterInv'
    BY <1>1, <1>3, <1>5, <1>6, <1>7, HandledStep
<1> QED
    BY <1>3, <1>4, <1>6, <1>8 DEF p

LEMMA InitStep ==
    Init => RouterInv
<1> SUFFICES ASSUME Init  PROVE RouterInv
    OBVIOUS
<1>1. /\ entries = [i \in 1 .. Slots |-> Unused] /\ outside = FALSE /\ req_list = <<>>
      /\ hand = [t \in Threads |-> Nothing] /\ pkt_list = <<>> /\ slept = FALSE
      /\ emitted = [p \in Packets |-> 0]
      /\ hdr = [p \in Packets |-> Unseen] /\ gone = {}
    BY DEF Init, arpcache_init
<1>2. entries \in [1 .. Slots -> Entries] /\ \A i \in 1 .. Slots : ~ entries[i].valid
    BY <1>1, EntryIs
<1>3. RouterType
    <2>1. req_list \in Seq(Requests) /\ pkt_list \in Seq(Packets)
        BY <1>1
    <2>2. /\ hand \in [Threads -> Holding \cup {Nothing}]
          /\ emitted \in [Packets -> 0 .. 2] /\ hdr \in [Packets -> Headers \cup {Unseen}]
        BY <1>1
    <2> QED
        BY <1>1, <1>2, <2>1, <2>2 DEF RouterType, CacheType
<1>4. OnePerAddress
    BY <1>1, <1>2 DEF OnePerAddress
<1>5. \A p \in Packets : ~ Held(p)
    <2>1. \A p : ~ Waiting(p) /\ p \notin ToSet(pkt_list)
        BY <1>1 DEF Waiting, ToSet
    <2>2. \A p \in Packets, t \in Threads : hand[t].pkt # p
        BY <1>1, CacheAssumption DEF Nothing
    <2> QED
        BY <2>1, <2>2 DEF Held
<1>6. Apart
    BY <1>1, <1>5 DEF Apart, Held, Threads, IsInjective
<1>7. \A p \in Packets : Status(p)
    BY <1>1, <1>5 DEF Status
<1> QED
    BY <1>3, <1>4, <1>6, <1>7 DEF RouterInv

LEMMA NextStep ==
    RouterInv /\ [Next]_vars => RouterInv'
<1> SUFFICES ASSUME RouterInv, [Next]_vars  PROVE RouterInv'
    OBVIOUS
<1>1. ASSUME NEW p \in Packets, NEW a \in Arrivals, Receive(p, a)  PROVE RouterInv'
    BY <1>1, ReceiveIs
<1>2. ASSUME NEW ip \in Hosts, handle_arp_packet(ip)  PROVE RouterInv'
    BY <1>2, AnswerStep
<1>3. ASSUME NEW t \in Threads, Pend(t)  PROVE RouterInv'
    BY <1>3, PendStep
<1>4. CASE Sweep
    BY <1>4, SweepStep
<1>5. CASE Refuse
    BY <1>5, RefuseIs
<1>6. CASE Second
    BY <1>6, SecondStep
<1>7. CASE UNCHANGED vars
    BY <1>7 DEF vars, cacheVars, RouterInv, RouterType, CacheType, OnePerAddress, Apart,
                Status, Held, Waiting
<1>8. "main" \in Threads /\ "sweep" \in Threads
    BY DEF Threads
<1> QED
    BY <1>1, <1>2, <1>3, <1>4, <1>5, <1>6, <1>7, <1>8 DEF Next, SweepThread

-----------------------------------------------------------------------------
(* The invariant behind the results below: the types, one request for an address,
   and for every packet one place until it is sent or freed. *)
THEOREM InvariantHolds == Spec => []RouterInv
BY InitStep, NextStep, PTL DEF Spec

(* Routes, requests, entries and headers keep their types; a request that is
   repeated is repeated MaxRetries times at most (arpcache.c:165). *)
THEOREM TypesHold == Spec => []TypeOK
<1>1. RouterInv => TypeOK
    <2> SUFFICES ASSUME RouterInv  PROVE TypeOK
        OBVIOUS
    <2>1. \A i \in DOMAIN req_list : req_list[i] \in Requests
        BY RequestIs DEF RouterInv
    <2> QED
        BY <2>1 DEF RouterInv, RouterType, CacheType, TypeOK, CacheTypeOK, Holding
<1> QED
    BY <1>1, InvariantHolds, PTL

(* An address has one entry and one request, although the slot is taken at random
   and the lookup and the queue are two critical sections (arpcache.c:50, 100). *)
THEOREM OneEach == Spec => []OnePerAddress
<1>1. RouterInv => OnePerAddress
    BY DEF RouterInv
<1> QED
    BY <1>1, InvariantHolds, PTL

-----------------------------------------------------------------------------
(* The router implements PacketFate *)

(* While the invariant holds, a packet's fate shows in three variables. *)
Outcome(p) ==
    IF hdr[p] = Unseen THEN "new"
    ELSE IF p \in gone THEN "dropped"
    ELSE IF emitted[p] = 1 THEN "sent"
    ELSE "held"

LEMMA PlacesAre ==
    ASSUME RouterInv, NEW p \in Packets
    PROVE  /\ ~ Held(p) => Places(p) = {}
           /\ Held(p) => \E x : Places(p) = {x}
<1> DEFINE hands == {<<"hand", t>> : t \in {t \in Threads : hand[t].pkt = p}}
           at(i) == {j \in DOMAIN req_list[i].pkts : req_list[i].pkts[j] = p}
           reqs == UNION {{<<"req", i, j>> : j \in at(i)} : i \in DOMAIN req_list}
           listed == {<<"given up", i>> : i \in {i \in DOMAIN pkt_list : pkt_list[i] = p}}
<1>1. Places(p) = hands \cup reqs \cup listed
    BY DEF Places
<1>2. (\E t \in Threads : hand[t].pkt = p) => \E x : hands = {x}
    <2>1. ASSUME NEW t \in Threads, hand[t].pkt = p  PROVE hands = {<<"hand", t>>}
        <3>1. \A u \in Threads : hand[u].pkt = p => u = t
            BY <2>1 DEF RouterInv, Apart, Threads
        <3> QED
            BY <2>1, <3>1
    <2> QED
        BY <2>1
<1>3. ~ (\E t \in Threads : hand[t].pkt = p) => hands = {}
    OBVIOUS
<1>4. Waiting(p) => \E x : reqs = {x}
    <2>1. ASSUME NEW i \in DOMAIN req_list, NEW j \in at(i)
          PROVE  reqs = {<<"req", i, j>>}
        <3>1. p \in ToSet(req_list[i].pkts)
            BY <2>1 DEF ToSet
        <3>2. ASSUME NEW k \in DOMAIN req_list, NEW l \in at(k)  PROVE k = i /\ l = j
            <4>1. p \in ToSet(req_list[k].pkts)
                BY <3>2 DEF ToSet
            <4>2. k = i
                BY <3>1, <4>1 DEF RouterInv, Apart
            <4>3. IsInjective(req_list[i].pkts)
                BY DEF RouterInv, Apart
            <4> QED
                BY <2>1, <3>2, <4>2, <4>3 DEF IsInjective
        <3> HIDE DEF at
        <3> QED
            BY <2>1, <3>2
    <2>2. Waiting(p) => \E i \in DOMAIN req_list : \E j \in at(i) : TRUE
        BY DEF Waiting, ToSet
    <2> QED
        BY <2>1, <2>2
<1>5. ~ Waiting(p) => reqs = {}
    BY DEF Waiting, ToSet
<1>6. p \in ToSet(pkt_list) => \E x : listed = {x}
    <2>1. ASSUME NEW i \in DOMAIN pkt_list, pkt_list[i] = p
          PROVE  listed = {<<"given up", i>>}
        <3>1. \A j \in DOMAIN pkt_list : pkt_list[j] = p => j = i
            BY <2>1 DEF RouterInv, Apart, IsInjective
        <3> QED
            BY <2>1, <3>1
    <2> QED
        BY <2>1 DEF ToSet
<1>7. p \notin ToSet(pkt_list) => listed = {}
    BY DEF ToSet
<1> HIDE DEF hands, reqs, listed
<1>8. ~ Held(p) => Places(p) = {}
    BY <1>1, <1>3, <1>5, <1>7 DEF Held
<1>9. CASE \E t \in Threads : hand[t].pkt = p
    <2>1. ~ Waiting(p) /\ p \notin ToSet(pkt_list)
        BY <1>9 DEF RouterInv, Apart
    <2>2. Places(p) = hands
        BY <1>1, <1>5, <1>7, <2>1
    <2> QED
        BY <1>2, <1>8, <1>9, <2>2
<1>10. CASE Waiting(p) /\ ~ \E t \in Threads : hand[t].pkt = p
    <2>1. p \notin ToSet(pkt_list)
        BY <1>10 DEF RouterInv, Apart
    <2>2. Places(p) = reqs
        BY <1>1, <1>3, <1>7, <1>10, <2>1
    <2> QED
        BY <1>4, <1>8, <1>10, <2>2
<1>11. CASE ~ Waiting(p) /\ ~ \E t \in Threads : hand[t].pkt = p
    <2>1. Places(p) = listed
        BY <1>1, <1>3, <1>5, <1>11
    <2>2. Held(p) => p \in ToSet(pkt_list)
        BY <1>11 DEF Held
    <2> QED
        BY <1>6, <1>8, <2>1, <2>2
<1> QED
    BY <1>9, <1>10, <1>11

LEMMA FateIs ==
    ASSUME RouterInv, NEW p \in Packets
    PROVE  FateOf(p) = Outcome(p)
<1> DEFINE held == Cardinality(Places(p))
<1>1. IF Held(p) THEN held = 1 ELSE held = 0
    <2>1. ~ Held(p) => held = 0
        BY PlacesAre, FS_EmptySet
    <2>2. ASSUME Held(p)  PROVE held = 1
        <3>1. PICK x : Places(p) = {x}
            BY <2>2, PlacesAre
        <3> QED
            BY <3>1, FS_Singleton
    <2> QED
        BY <2>1, <2>2
<1>2. Status(p)
    BY DEF RouterInv
<1>3. FateOf(p) =
        CASE hdr[p] = Unseen /\ held = 0 /\ emitted[p] = 0 /\ p \notin gone -> "new"
          [] hdr[p] # Unseen /\ held = 1 /\ emitted[p] = 0 /\ p \notin gone -> "held"
          [] hdr[p] # Unseen /\ held = 0 /\ emitted[p] = 1 /\ p \notin gone -> "sent"
          [] hdr[p] # Unseen /\ held = 0 /\ emitted[p] = 0 /\ p \in gone -> "dropped"
          [] OTHER -> "broken"
    BY DEF FateOf
<1> HIDE DEF held
<1> QED
    BY <1>1, <1>2, <1>3 DEF Status, Outcome

(* The handling of p by a thread changes the fate of p alone, and never to "new". *)
LEMMA HandledFate ==
    ASSUME RouterInv, NEW t \in Threads, NEW p \in Packets, Handled(t, p),
           emitted[p] = 0, p \notin gone
    PROVE  /\ \A q \in Packets : q # p => Outcome(q)' = Outcome(q)
           /\ Outcome(p)' \in {"held", "sent", "dropped"}
<1>1. /\ hdr'[p] # Unseen
      /\ \A q \in Packets : q # p => hdr'[q] = hdr[q]
    <2>1. PICK h \in Headers : hdr' = [hdr EXCEPT ![p] = h]
        BY DEF Handled
    <2>2. h # Unseen
        BY DEF Headers, Kinds, Unseen
    <2> QED
        BY <2>1, <2>2 DEF RouterInv, RouterType
<1>2. \A q \in Packets : q # p => /\ q \in gone' <=> q \in gone
                                  /\ emitted'[q] = emitted[q]
    BY DEF Handled, Drops, Emits, Takes, Emit, RouterInv, RouterType
<1> QED
    BY <1>1, <1>2 DEF Outcome

fates == [p \in Packets |-> FateOf(p)]

LEMMA FatesAre ==
    RouterInv => fates = [p \in Packets |-> Outcome(p)]
BY FateIs DEF fates

LEMMA FatesWillBe ==
    RouterInv' => (fates = [p \in Packets |-> Outcome(p)])'
BY FatesAre, PTL

LEMMA HandledMaps ==
    ASSUME RouterInv, RouterInv', NEW t \in Threads, NEW p \in Packets, Handled(t, p),
           emitted[p] = 0, p \notin gone
    PROVE  /\ Outcome(p) = "new" => Fate!Arrive(p)
           /\ Outcome(p) = "held" => Fate!Leave(p) \/ UNCHANGED fates
<1>1. fates = [q \in Packets |-> Outcome(q)] /\ fates' = [q \in Packets |-> Outcome(q)']
    BY FatesAre, FatesWillBe
<1> DEFINE f == Outcome(p)'
<1>2. f \in {"held", "sent", "dropped"} /\ \A q \in Packets : q # p => Outcome(q)' = Outcome(q)
    BY HandledFate
<1>3. fates[p] = Outcome(p) /\ fates' = [fates EXCEPT ![p] = f]
    BY <1>1, <1>2
<1> HIDE DEF f
<1>4. CASE Outcome(p) = "new"
    BY <1>2, <1>3, <1>4 DEF Fate!Arrive, fates
<1>5. CASE Outcome(p) = "held"
    <2>1. CASE f = "held"
        <3>1. fates' = fates
            BY <1>1, <1>3, <1>5, <2>1
        <3> QED
            BY <1>5, <3>1
    <2>2. CASE f # "held"
        BY <1>2, <1>3, <1>5, <2>2 DEF Fate!Leave, fates
    <2> QED
        BY <2>1, <2>2
<1> QED
    BY <1>4, <1>5

LEMMA AnswerMaps ==
    ASSUME RouterInv, RouterInv', NEW ip \in Hosts, handle_arp_packet(ip)
    PROVE  (\E s \in SUBSET Packets : Fate!LeaveTogether(s)) \/ UNCHANGED fates
<1>1. fates = [q \in Packets |-> Outcome(q)] /\ fates' = [q \in Packets |-> Outcome(q)']
    BY FatesAre, FatesWillBe
<1>2. UNCHANGED <<hdr, gone>> /\ Answer(ip)
    BY DEF handle_arp_packet, arpcache_insert
<1>3. CASE RequestsFor(ip) = {}
    <2>1. UNCHANGED emitted
        BY <1>2, <1>3 DEF Answer
    <2> QED
        BY <1>1, <1>2, <2>1 DEF Outcome
<1>4. CASE RequestsFor(ip) # {}
    <2> DEFINE k == Min(RequestsFor(ip))
               s == ToSet(req_list[k].pkts) \cap Packets
    <2>1. Emit(ToSet(req_list[k].pkts))
        BY <1>2, <1>4 DEF Answer
    <2>2. k \in DOMAIN req_list
        BY <1>4, FirstRequest DEF RouterInv
    <2>3. ASSUME NEW p \in s
          PROVE  emitted[p] = 0 /\ p \notin gone /\ hdr[p] # Unseen
        <3>1. Held(p)
            BY <2>2, <2>3 DEF Held, Waiting
        <3> QED
            BY <2>3, <3>1 DEF RouterInv, Status
    <2>4. \A p \in Packets : emitted'[p] = IF p \in s THEN 1 ELSE emitted[p]
        <3>1. emitted' = [p \in Packets |-> IF p \in ToSet(req_list[k].pkts)
                                             THEN Min2(emitted[p] + 1, 2) ELSE emitted[p]]
            BY <2>1 DEF Emit
        <3> HIDE DEF k
        <3>2. \A p \in s : Min2(emitted[p] + 1, 2) = 1
            BY <2>3 DEF Min2
        <3> QED
            BY <3>1, <3>2
    <2> HIDE DEF s, k
    <2>5. \A p \in Packets : p \in s => Outcome(p) = "held" /\ Outcome(p)' = "sent"
        BY <1>2, <2>3, <2>4 DEF Outcome
    <2>6. \A p \in Packets : p \notin s => Outcome(p)' = Outcome(p)
        BY <1>2, <2>4 DEF Outcome
    <2>7. fates' = [p \in Packets |-> IF p \in s THEN "sent" ELSE fates[p]]
        BY <1>1, <2>5, <2>6
    <2>8. s \in SUBSET Packets /\ \A p \in s : fates[p] = "held"
        BY <1>1, <2>5 DEF s
    <2>9. Fate!LeaveTogether(s)
        BY <2>7, <2>8 DEF Fate!LeaveTogether, fates
    <2> QED
        BY <2>8, <2>9
<1> QED
    BY <1>3, <1>4

LEMMA StepMaps ==
    RouterInv /\ RouterInv' /\ [Next]_vars => [Fate!Next]_fates
<1> SUFFICES ASSUME RouterInv, RouterInv', [Next]_vars
             PROVE  Fate!Next \/ UNCHANGED fates
    OBVIOUS
<1>0. fates = [q \in Packets |-> Outcome(q)] /\ fates' = [q \in Packets |-> Outcome(q)']
    BY FatesAre, FatesWillBe
<1>1. ASSUME NEW p \in Packets, NEW a \in Arrivals, Receive(p, a)  PROVE Fate!Next
    <2>1. Handled("main", p) /\ Outcome(p) = "new" /\ emitted[p] = 0 /\ p \notin gone
        BY <1>1, ReceiveIs DEF RouterInv, Status, Outcome
    <2>2. Fate!Arrive(p)
        BY <2>1, HandledMaps DEF Threads
    <2> QED
        BY <2>2 DEF Fate!Next
<1>2. ASSUME NEW ip \in Hosts, handle_arp_packet(ip)  PROVE Fate!Next \/ UNCHANGED fates
    BY <1>2, AnswerMaps DEF Fate!Next
<1>3. CASE Refuse
    <2> DEFINE p == Head(pkt_list)
    <2>1. Handled("sweep", p) /\ p \in Packets /\ Held(p)
        BY <1>3, RefuseIs
    <2> HIDE DEF p
    <2>2. Outcome(p) = "held" /\ emitted[p] = 0 /\ p \notin gone
        BY <2>1 DEF RouterInv, Status, Outcome
    <2>3. Fate!Leave(p) \/ UNCHANGED fates
        BY <2>1, <2>2, HandledMaps DEF Threads
    <2> QED
        BY <2>1, <2>3 DEF Fate!Next
<1>4. CASE UNCHANGED <<hdr, gone, emitted>>
    BY <1>0, <1>4 DEF Outcome
<1>5. ASSUME NEW t \in Threads, Pend(t)  PROVE UNCHANGED <<hdr, gone, emitted>>
    BY <1>5 DEF Pend, arpcache_append_packet
<1>6. CASE Sweep
    BY <1>4, <1>6 DEF Sweep, arpcache_sweep
<1>7. CASE Second
    BY <1>4, <1>7 DEF Second, Tick
<1>8. CASE UNCHANGED vars
    BY <1>4, <1>8 DEF vars, cacheVars
<1>9. "main" \in Threads /\ "sweep" \in Threads
    BY DEF Threads
<1> QED
    BY <1>1, <1>2, <1>3, <1>4, <1>5, <1>6, <1>7, <1>8, <1>9 DEF Next, SweepThread

(* However the two threads interleave, and whoever answers: a packet leaves the
   router once at most, as it came or as an answer, and until then is in one place. *)
THEOREM FateImplemented == Spec => FateSpec
<1>1. Init => Fate!Init
    <2> SUFFICES ASSUME Init  PROVE Fate!Init
        OBVIOUS
    <2>1. fates = [p \in Packets |-> Outcome(p)]
        BY InitStep, FatesAre
    <2>2. \A p \in Packets : Outcome(p) = "new"
        BY DEF Init, Outcome
    <2> QED
        BY <2>1, <2>2 DEF Fate!Init, fates
<1>2. RouterInv /\ RouterInv' /\ [Next]_vars => [Fate!Next]_fates
    BY StepMaps
<1> QED
    BY <1>1, <1>2, InvariantHolds, PTL DEF Spec, FateSpec, Fate!Spec, fates
=============================================================================
