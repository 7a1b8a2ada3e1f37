------------------------------ MODULE ArpCache ------------------------------
(* The ARP cache of a router (arpcache.c, arp.c of lab-12; labs 13 to 17 have the
   same files): addresses that are known, requests for those that are not, and
   the packets that wait for an answer.

   Several threads use it: the one that receives packets ("main") and the one
   that sweeps the cache every second ("sweep"), which sends packets of its own.
   Each function of arpcache.c is one critical section. iface_send_packet_by_arp
   is two of them, between which a thread holds the packet in its hand.

   Time: the age of an entry in seconds; a request is `due` when its `sent` is a
   second old or more. A packet goes out by the interface of its next hop, so
   that requests are told apart by the address alone. *)
EXTENDS Integers, Sequences, FiniteSets, SequencesExt, Lists

CONSTANTS
    Addrs,         \* addresses that packets may be sent to
    Packets,       \* packets
    Slots,         \* MAX_ARP_SIZE
    EntryTimeout,  \* ARP_ENTRY_TIMEOUT, in seconds
    MaxRetries     \* ARP_REQUEST_MAX_RETRIES

ASSUME CacheAssumption ==
    /\ Slots \in Nat \ {0} /\ EntryTimeout \in Nat \ {0} /\ MaxRetries \in Nat \ {0}
    /\ "nothing" \notin Packets

VARIABLES
    entries,   \* the cache: slot -> [valid, ip, age] or Unused
    outside,   \* the entry at -1, before the array, has been written
    req_list,  \* requests without an answer, the newest first
    hand,      \* per thread: what it looked up in vain and has not yet appended
    pkt_list,  \* packets the sweeping thread has given up and not yet refused
    slept,     \* a second has passed since the last sweep
    emitted    \* packet -> how often it has been sent (counted to 2)

cacheVars == <<entries, outside, req_list, hand, pkt_list, slept, emitted>>

Threads == {"main", "sweep"}

Nothing == [pkt |-> "nothing"]

(* A slot that is not valid; what it held before does not matter. *)
Unused == [valid |-> FALSE]

Entries == [valid : {TRUE}, ip : Addrs, age : 0 .. EntryTimeout] \cup {Unused}

Requests == [ip : Addrs, due : BOOLEAN, retries : 1 .. MaxRetries, pkts : Seq(Packets)]

Min2(a, b) == IF a < b THEN a ELSE b

arpcache_init ==
    /\ entries = [i \in 1 .. Slots |-> Unused]
    /\ outside = FALSE
    /\ req_list = <<>>
    /\ hand = [t \in Threads |-> Nothing]
    /\ pkt_list = <<>>
    /\ slept = FALSE
    /\ emitted = [p \in Packets |-> 0]

Known(ip) == \E i \in 1 .. Slots : entries[i].valid /\ entries[i].ip = ip

Emit(ps) ==
    emitted' = [p \in Packets |-> IF p \in ps THEN Min2(emitted[p] + 1, 2) ELSE emitted[p]]

(* iface_send_packet_by_arp up to the end of arpcache_lookup. *)
iface_send_packet_by_arp(t, p, ip) ==
    IF Known(ip)
    THEN Emit({p}) /\ UNCHANGED hand
    ELSE hand' = [hand EXCEPT ![t] = [pkt |-> p, ip |-> ip]] /\ UNCHANGED emitted

\* Mutant: a second request is made although one for the address is in the list.
AlwaysNew(ip) == {}

RequestsFor(ip) == {i \in DOMAIN req_list : req_list[i].ip = ip}

NewRequest(ip, p) ==
    [ip |-> ip, due |-> FALSE, retries |-> 1, pkts |-> <<p>>]

(* The first request for the address takes the packet; a new one goes to the
   head of the list, and is sent once the lock is released. *)
arpcache_append_packet(t) ==
    LET p == hand[t].pkt  ip == hand[t].ip IN
    /\ hand[t] # Nothing
    /\ IF RequestsFor(ip) = {}
       THEN req_list' = <<NewRequest(ip, p)>> \o req_list
       ELSE req_list' = [req_list EXCEPT ![Min(RequestsFor(ip))].pkts = Append(@, p)]
    /\ hand' = [hand EXCEPT ![t] = Nothing]
    /\ UNCHANGED <<entries, outside, pkt_list, slept, emitted>>

Renewed(ip) ==
    [i \in 1 .. Slots |-> IF entries[i].valid /\ entries[i].ip = ip
                          THEN [entries[i] EXCEPT !.age = 0] ELSE entries[i]]

(* The test of the free slot is inverted: if there is one, a slot is taken at
   random, free or not; if there is none, pos is -1 and the entry before the
   array is written. *)
Store(ip) ==
    IF Known(ip)
    THEN entries' = Renewed(ip) /\ UNCHANGED outside
    ELSE IF \E i \in 1 .. Slots : ~ entries[i].valid
    THEN /\ \E pos \in 1 .. Slots :
                entries' = [entries EXCEPT ![pos] = [valid |-> TRUE, ip |-> ip, age |-> 0]]
         /\ UNCHANGED outside
    ELSE outside' = TRUE /\ UNCHANGED entries

\* Mutant: the request whose packets were sent stays in the list.
AnswerKeeps(ip) ==
    IF RequestsFor(ip) = {}
    THEN UNCHANGED <<req_list, emitted>>
    ELSE /\ Emit(ToSet(req_list[Min(RequestsFor(ip))].pkts))
         /\ UNCHANGED req_list

(* Only the first request for the address is answered. *)
Answer(ip) ==
    IF RequestsFor(ip) = {}
    THEN UNCHANGED <<req_list, emitted>>
    ELSE LET i == Min(RequestsFor(ip)) IN
         /\ Emit(ToSet(req_list[i].pkts))
         /\ req_list' = RemoveAt(req_list, i)

arpcache_insert(ip) ==
    /\ Store(ip)
    /\ Answer(ip)
    /\ UNCHANGED <<hand, pkt_list, slept>>

Tick ==
    /\ slept' = TRUE
    /\ entries' = [i \in 1 .. Slots |->
                      IF entries[i].valid
                      THEN [entries[i] EXCEPT !.age = Min2(@ + 1, EntryTimeout)]
                      ELSE entries[i]]
    /\ req_list' = [i \in DOMAIN req_list |-> [req_list[i] EXCEPT !.due = TRUE]]
    /\ UNCHANGED <<outside, hand, pkt_list, emitted>>

\* Mutant: one request too many before the packets are given up.
GivenUpLate(r) == r.due /\ r.retries > MaxRetries

GivenUp(r) == r.due /\ r.retries >= MaxRetries

\* Mutant: the retries are not counted.
ResentUncounted(r) == r

(* `sent` is not renewed: once due, a request is repeated at every sweep. *)
Resent(r) == IF r.due THEN [r EXCEPT !.retries = @ + 1] ELSE r

Aged ==
    [i \in 1 .. Slots |-> IF entries[i].valid /\ entries[i].age >= EntryTimeout
                          THEN Unused ELSE entries[i]]

PacketsOf(rs) == FlattenSeq([i \in DOMAIN rs |-> rs[i].pkts])

(* One round of the sweeping thread under its lock. The packets it gives up are
   refused after the lock is released, one by one. *)
arpcache_sweep ==
    LET lost == {i \in DOMAIN req_list : GivenUp(req_list[i])}
        kept == Sublist(req_list, DOMAIN req_list \ lost) IN
    /\ slept /\ pkt_list = <<>> /\ hand["sweep"] = Nothing
    /\ entries' = Aged
    /\ req_list' = [i \in DOMAIN kept |-> Resent(kept[i])]
    /\ pkt_list' = PacketsOf(Sublist(req_list, lost))
    /\ slept' = FALSE
    /\ UNCHANGED <<outside, hand, emitted>>

-----------------------------------------------------------------------------
CacheTypeOK ==
    /\ entries \in [1 .. Slots -> Entries]
    /\ outside \in BOOLEAN
    /\ \A i \in DOMAIN req_list : req_list[i] \in Requests
    /\ hand \in [Threads -> [pkt : Packets, ip : Addrs] \cup {Nothing}]
    /\ pkt_list \in Seq(Packets)
    /\ slept \in BOOLEAN
    /\ emitted \in [Packets -> 0 .. 2]

(* The cache knows one answer for an address, and one request stands for it
   (arpcache.c:53-60, 89-96): packets in a second request would not be sent by
   the answer, which serves the first only (arpcache.c:126). *)
OnePerAddress ==
    /\ \A i, j \in 1 .. Slots :
           entries[i].valid /\ entries[j].valid /\ entries[i].ip = entries[j].ip => i = j
    /\ \A i, j \in DOMAIN req_list : req_list[i].ip = req_list[j].ip => i = j
=============================================================================
