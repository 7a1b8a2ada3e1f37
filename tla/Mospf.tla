------------------------------- MODULE Mospf -------------------------------
(* The link-state routing of lab-11 (mospf_daemon.c): hellos find the neighbours,
   LSUs that are flooded tell every router about those of the others.

   A router runs five threads under one lock. Its main thread handles what comes
   from the network; for an LSU it takes the lock twice, to store it and to pass it
   on, and the other threads run in between. Routers crash and restart, networks are
   cut and mended. An LSU may overtake another one: a packet whose next hop is not
   known waits in the ARP cache while a later one goes out.

   Time: a neighbour goes after 15 seconds without a hello, hellos come every 5:
   only a neighbour that has crashed or is cut off goes. LSUs come every 30 seconds
   and an entry lasts 40: it does not expire while it is its router's latest. *)
EXTENDS Spf

CONSTANTS
    Routers,      \* router ids, from 1
    Nets,         \* networks
    Members,      \* network -> the routers on it
    MaxSeq,     \* bound: router -> no periodic LSU after this sequence number
    Crashing,   \* the routers that may crash, each once
    Breaking,   \* the networks that may be cut
    MaxFaults,  \* bound: crashes and cuts
    MaxMsgs     \* bound: no new LSU while more messages than these are on their way

ASSUME MospfAssumption ==
    /\ Routers \subseteq Nat \ {NoRouter} /\ IsFiniteSet(Routers)
    /\ Members \in [Nets -> SUBSET Routers]
    \* With three on a network a router may come to advertise more than it did at
    \* first, and its entry's array is written past its end (mospf_daemon.c:384-402).
    /\ \A k \in Nets : Cardinality(Members[k]) <= 2
    \* An LSU goes 255 hops at most (:407), and a router passes a latest one on once.
    /\ Cardinality(Routers) <= 255
    /\ Crashing \subseteq Routers /\ Breaking \subseteq Nets
    /\ MaxSeq \in [Routers -> Nat] /\ MaxFaults \in Nat /\ MaxMsgs \in Nat

VARIABLES
    up,     \* router -> it runs
    cut,    \* the networks that are cut, and how often it has happened
    nbr,    \* router -> network -> its neighbours there (nbr_list)
    seq,    \* router -> the number of its next LSU
    db,     \* router -> its database, a list of [rid, seq, life, adv]
    flood,  \* router -> what its main thread has stored and not yet passed on
    msgs,   \* LSUs on their way
    life,   \* router -> how often it has restarted (of the model only)
    sent,   \* router -> its latest LSU (of the model only)
    fresh   \* the routers that have sent one since any neighbour changed, any network
            \* was cut or mended, and any entry of theirs from before their restart
            \* expired (of the model only)

vars == <<up, cut, nbr, seq, db, flood, msgs, life, sent, fresh>>

NetsOf(r) == {k \in Nets : r \in Members[k]}

NoLsu == [rid |-> NoRouter]

(* What r advertises with these neighbours: them, or the network alone. *)
AdvOf(r, nbrs) ==
    UNION {IF nbrs[k] = {} THEN {[net |-> k, rid |-> NoRouter]}
           ELSE {[net |-> k, rid |-> s] : s \in nbrs[k]} : k \in NetsOf(r)}

(* The LSU on its way to each of these neighbours of r that is there to get it. *)
Copies(nbrs, lsu) ==
    UNION {{[to |-> s, net |-> k, lsu |-> lsu] : s \in {s \in nbrs[k] : up[s]}} :
               k \in DOMAIN nbrs \ cut.now}

(* r sends its next LSU to each of these neighbours. *)
send_mospf_lsu(r, nbrs) ==
    LET lsu == [rid |-> r, seq |-> seq[r], life |-> life[r], adv |-> AdvOf(r, nbrs)] IN
    /\ msgs' = msgs \cup Copies(nbrs, lsu)
    /\ seq' = [seq EXCEPT ![r] = @ + 1]
    /\ sent' = [sent EXCEPT ![r] = lsu]
    /\ fresh' = IF nbrs = nbr[r] THEN fresh \cup {r} ELSE {r}

\* Mutant: a router takes its own hello, which the socket shows it, too, for one.
OwnHello(r, s, k) ==
    /\ up[r] /\ up[s] /\ k \notin cut.now /\ flood[r] = NoLsu
    /\ Cardinality(msgs) <= MaxMsgs
    /\ s \in Members[k] /\ r \in Members[k] /\ s \notin nbr[r][k]
    /\ nbr' = [nbr EXCEPT ![r][k] = @ \cup {s}]
    /\ send_mospf_lsu(r, nbr'[r])
    /\ UNCHANGED <<up, cut, db, flood, life>>

(* A hello of s on network k: a new neighbour is told to all. *)
handle_mospf_hello(r, s, k) ==
    /\ up[r] /\ up[s] /\ r # s /\ k \notin cut.now /\ flood[r] = NoLsu
    /\ Cardinality(msgs) <= MaxMsgs
    /\ s \in Members[k] /\ r \in Members[k] /\ s \notin nbr[r][k]
    /\ nbr' = [nbr EXCEPT ![r][k] = @ \cup {s}]
    /\ send_mospf_lsu(r, nbr'[r])
    /\ UNCHANGED <<up, cut, db, flood, life>>

(* The thread that checks the neighbours misses one. *)
checking_nbr_thread(r, s, k) ==
    /\ up[r] /\ r \in Members[k] /\ s \in nbr[r][k]
    /\ ~ up[s] \/ k \in cut.now
    /\ Cardinality(msgs) <= MaxMsgs
    /\ nbr' = [nbr EXCEPT ![r][k] = @ \ {s}]
    /\ send_mospf_lsu(r, nbr'[r])
    /\ UNCHANGED <<up, cut, db, flood, life>>

sending_mospf_lsu_thread(r) ==
    /\ up[r] /\ Cardinality(msgs) <= MaxMsgs /\ seq[r] <= MaxSeq[r]
    /\ send_mospf_lsu(r, nbr[r])
    /\ UNCHANGED <<up, cut, nbr, db, flood, life>>

Indices(r, o) == {i \in DOMAIN db[r] : db[r][i].rid = o}

IsLatest(e, o) == e.rid = sent[o].rid /\ e.seq = sent[o].seq /\ e.life = sent[o].life

(* The thread that checks the database drops an entry; see the remark on time. What
   its router sends now may have been refused because of it. *)
checking_database_thread(r, o) ==
    /\ up[r]
    /\ \E i \in Indices(r, o) :
           /\ ~ (up[o] /\ IsLatest(db[r][i], o))
           /\ db' = [db EXCEPT ![r] = RemoveAt(@, i)]
           /\ fresh' = IF up[o] /\ db[r][i].life = life[o] THEN fresh ELSE fresh \ {o}
    /\ UNCHANGED <<up, cut, nbr, seq, flood, msgs, life, sent>>

\* Mutant: no LSU is refused.
RefusedNever(r, lsu) == FALSE

\* Mutant: what a router has sent itself is not recognised.
RefusedIfKnown(r, lsu) == \E i \in Indices(r, lsu.rid) : db[r][i].seq >= lsu.seq

(* r's own LSU, and one that is not newer than what r has. *)
Refused(r, lsu) == lsu.rid = r \/ \E i \in Indices(r, lsu.rid) : db[r][i].seq >= lsu.seq

(* An entry is renewed in its place. *)
Stored(r, lsu) ==
    IF Indices(r, lsu.rid) = {} THEN Append(db[r], lsu)
    ELSE [i \in DOMAIN db[r] |-> IF db[r][i].rid = lsu.rid THEN lsu ELSE db[r][i]]

(* The first critical section. *)
handle_mospf_lsu(m) ==
    LET r == m.to IN
    /\ m \in msgs /\ up[r] /\ flood[r] = NoLsu
    /\ msgs' = msgs \ {m}
    /\ IF Refused(r, m.lsu)
       THEN UNCHANGED <<db, flood>>
       ELSE /\ db' = [db EXCEPT ![r] = Stored(r, m.lsu)]
            /\ flood' = [flood EXCEPT ![r] = [rid |-> m.lsu.rid, by |-> m.net, lsu |-> m.lsu]]
    /\ UNCHANGED <<up, cut, nbr, seq, life, sent, fresh>>

\* Mutant: the LSU goes no further than the neighbours of its router.
PassNone(r) ==
    /\ up[r] /\ flood[r] # NoLsu
    /\ flood' = [flood EXCEPT ![r] = NoLsu]
    /\ UNCHANGED <<up, cut, nbr, seq, db, msgs, life, sent, fresh>>

(* The second one: the LSU goes on by all networks but the one it came by, with the
   packet's contents and the neighbours of now. *)
PassOn(r) ==
    /\ up[r] /\ flood[r] # NoLsu
    /\ LET others == [k \in NetsOf(r) \ {flood[r].by} |-> nbr[r][k]] IN
       msgs' = msgs \cup Copies(others, flood[r].lsu)
    /\ flood' = [flood EXCEPT ![r] = NoLsu]
    /\ UNCHANGED <<up, cut, nbr, seq, db, life, sent, fresh>>

Faults == cut.count + Cardinality({r \in Routers : ~ up[r] \/ life[r] > 0})

(* A router stops, and starts again with nothing. *)
Crash(r) ==
    /\ r \in Crashing /\ up[r] /\ life[r] = 0 /\ Faults < MaxFaults
    /\ up' = [up EXCEPT ![r] = FALSE]
    /\ nbr' = [nbr EXCEPT ![r] = [k \in NetsOf(r) |-> {}]]
    /\ db' = [db EXCEPT ![r] = <<>>]
    /\ flood' = [flood EXCEPT ![r] = NoLsu]
    /\ msgs' = {m \in msgs : m.to # r}
    /\ fresh' = {}
    /\ UNCHANGED <<cut, seq, life, sent>>

mospf_init(r) ==
    /\ ~ up[r]
    /\ up' = [up EXCEPT ![r] = TRUE]
    /\ seq' = [seq EXCEPT ![r] = 0]
    /\ life' = [life EXCEPT ![r] = @ + 1]
    /\ sent' = [sent EXCEPT ![r] = NoLsu]
    /\ fresh' = {}
    /\ UNCHANGED <<cut, nbr, db, flood, msgs>>

CutNet(k) ==
    /\ k \in Breaking \ cut.now /\ Faults < MaxFaults
    /\ cut' = [now |-> cut.now \cup {k}, count |-> cut.count + 1]
    /\ msgs' = {m \in msgs : m.net # k}
    /\ fresh' = {}
    /\ UNCHANGED <<up, nbr, seq, db, flood, life, sent>>

MendNet(k) ==
    /\ k \in cut.now
    /\ cut' = [cut EXCEPT !.now = @ \ {k}]
    /\ fresh' = {}
    /\ UNCHANGED <<up, nbr, seq, db, flood, msgs, life, sent>>

Init ==
    /\ up = [r \in Routers |-> TRUE]
    /\ cut = [now |-> {}, count |-> 0]
    /\ nbr = [r \in Routers |-> [k \in NetsOf(r) |-> {}]]
    /\ seq = [r \in Routers |-> 0]
    /\ db = [r \in Routers |-> <<>>]
    /\ flood = [r \in Routers |-> NoLsu]
    /\ msgs = {}
    /\ life = [r \in Routers |-> 0]
    /\ sent = [r \in Routers |-> NoLsu]
    /\ fresh = {}

Next ==
    \/ \E m \in msgs : handle_mospf_lsu(m)
    \/ \E r, s \in Routers, k \in Nets :
           handle_mospf_hello(r, s, k) \/ checking_nbr_thread(r, s, k)
    \/ \E r, o \in Routers : checking_database_thread(r, o)
    \/ \E r \in Routers :
           PassOn(r) \/ sending_mospf_lsu_thread(r) \/ Crash(r) \/ mospf_init(r)
    \/ \E k \in Nets : CutNet(k) \/ MendNet(k)

(* The main threads take what has come and finish with it. *)
Fairness ==
    /\ WF_vars(\E m \in msgs : handle_mospf_lsu(m))
    /\ \A r \in Routers : WF_vars(PassOn(r))

Spec == Init /\ [][Next]_vars /\ Fairness

-----------------------------------------------------------------------------
Lsus == [rid : Routers, seq : Nat, life : {0, 1},
         adv : SUBSET [net : Nets, rid : Routers \cup {NoRouter}]]

TypeOK ==
    /\ up \in [Routers -> BOOLEAN]
    /\ cut.now \subseteq Nets /\ cut.count \in 0 .. MaxFaults
    /\ \A r \in Routers : nbr[r] \in [NetsOf(r) -> SUBSET (Routers \ {r})]
    /\ seq \in [Routers -> Nat]
    /\ \A r \in Routers : \A i \in DOMAIN db[r] :
           db[r][i] \in Lsus
    /\ \A r \in Routers : flood[r] = NoLsu \/ flood[r].lsu \in Lsus
    /\ \A m \in msgs : m.to \in Routers /\ m.net \in Nets /\ m.lsu \in Lsus
    /\ life \in [Routers -> {0, 1}]
    /\ \A r \in Routers : sent[r] = NoLsu \/ sent[r] \in Lsus
    /\ fresh \subseteq Routers

(* A router has one entry of a router at most, and none of itself
   (mospf_daemon.c:357, 366-387). *)
OneEntryEach ==
    \A r \in Routers : \A i, j \in DOMAIN db[r] :
        /\ db[r][i].rid # r
        /\ db[r][i].rid = db[r][j].rid => i = j

(* An entry from before its router's restart keeps out what the router sends now
   (mospf_daemon.c:368). *)
Stale(r, o) == \E i \in Indices(r, o) : db[r][i].life < life[o]

(* The routers that listen to one of s, and have no such entry of o. *)
Listening(o, s) ==
    {r \in Routers \ {o} : /\ up[r] /\ ~ Stale(r, o)
                           /\ \E n \in s : \E k \in NetsOf(n) \ cut.now : r \in nbr[n][k]}

(* The routers that what o sends must come to, over neighbours that listen: those in
   every set that, with o, has all that listen to one of it. *)
Informed(o) ==
    {r \in Routers \ {o} : \A s \in SUBSET Routers :
        o \in s /\ Listening(o, s) \subseteq s => r \in s}

(* No LSU is on its way or waits in a router to be passed on. *)
Quiet == msgs = {} /\ \A r \in Routers : flood[r] = NoLsu

(* When nothing is on its way, every router that a router has informed since the
   last change has its latest LSU, whatever was passed on and thrown away in what
   order (mospf_daemon.c:368, 405-431). *)
Agreement ==
    Quiet => \A o \in fresh : \A r \in Informed(o) :
        \E i \in Indices(r, o) : IsLatest(db[r][i], o) /\ db[r][i].adv = sent[o].adv

(* An LSU does not go round for ever (mospf_daemon.c:368-372). *)
FloodEnds == []<> Quiet

-----------------------------------------------------------------------------
(* The next hop of r towards network k, over the routes in force: the networks at
   hand come first. *)
NeighboursOf(r) == UNION {nbr[r][k] : k \in NetsOf(r)}

NextHop(r, k) ==
    IF k \in NetsOf(r) THEN r ELSE update_rtable_by_db(r, db[r], NeighboursOf(r), k)

(* A packet for network k comes from r to a router on it. *)
Arrives(r, k) ==
    k \in NetsOf(FoldLeft(LAMBDA at, i : IF at = NoHop THEN NoHop ELSE NextHop(at, k),
                          r, [i \in 1 .. Cardinality(Routers) |-> i]))

(* All neighbours know of each other, and all routers what the others advertise. *)
Converged ==
    \A r, o \in Routers :
        /\ up[r]
        /\ \A k \in NetsOf(r) : nbr[r][k] = IF k \in cut.now THEN {} ELSE Members[k] \ {r}
        /\ r # o => \E i \in Indices(r, o) : db[r][i].adv = AdvOf(o, nbr[o])

(* Once the databases agree, the routes of all routers together lead to every
   network of hosts (mospf_database.c:161, 241). *)
HostsReached ==
    Converged => \A r \in Routers : \A k \in Nets :
        Cardinality(Members[k]) = 1 => Arrives(r, k)

(* The shortest paths are made into routes (lab-11-mospf/readme.md:418, 439): once
   the databases agree, they lead to every network. *)
NetsReached == Converged => \A r \in Routers : \A k \in Nets : Arrives(r, k)
=============================================================================
