-------------------------------- MODULE Lan --------------------------------
(* Switches with their forwarding tables (mac.c, main.c and broadcast.c of lab-05,
   and of lab-06, where the spanning tree blocks ports), hubs (lab-04) and hosts,
   joined by wires that keep the order of the frames.

   A switch has two threads: "main" handles one frame after the other, and takes
   the lock of the table once to insert the source and once to look up the
   destination; the sweeping thread runs before, between and after. Hosts stay
   where they are.

   The code compares addresses with strcmp, and copies them with strcpy: what is
   stored and compared is an address's bytes up to the first zero byte. Of an
   address without a zero byte the string runs on into what follows in the frame:
   the type of the frame behind the source, the source behind the destination. No
   source is taken to begin with the bytes of a type. *)
EXTENDS Integers, Sequences, FiniteSets

CONSTANTS
    Switches, Hubs, Hosts,
    Wire,       \* port -> port at the other end; a port is a pair <<node, number>>
    Blocked,    \* the ports that are neither root nor designated ports (lab-06)
    hash8,      \* host -> the hash of its address
    chars,      \* host -> the bytes of its address before the first zero byte
    ended,      \* host -> its address has a zero byte
    Types,      \* types of frames
    Timeout,    \* MAC_PORT_TIMEOUT, in seconds
    Frames,     \* bound: the frames that may be sent, numbered
    Flows       \* who sends to whom: pairs of hosts

Ports == DOMAIN Wire

Nodes == Switches \cup Hubs

PortsOf(n) == {p \in Ports : p[1] = n}

(* Hosts are told apart by the strings; only a switch blocks ports. *)
ASSUME LanAssumption ==
    /\ \A p \in Ports : Wire[p] \in Ports /\ Wire[Wire[p]] = p
    /\ Hosts \cap Nodes = {} /\ Switches \cap Hubs = {}
    /\ \A p \in Blocked : p[1] \in Switches
    /\ Flows \subseteq Hosts \X Hosts
    /\ \A h, g \in Hosts : <<hash8[h], chars[h]>> = <<hash8[g], chars[g]>> => h = g
    /\ Timeout \in Nat

VARIABLES
    mac_port_map,   \* switch -> its entries [hash, str, iface, age]
    cur,            \* switch -> the frame whose source has been inserted, or NoFrame
    inq,            \* port -> the frames that have come there
    got,            \* frame -> how often its destination has got it (counted to 2)
    echoed          \* a frame has been sent back by the port it came by (of the model only)

vars == <<mac_port_map, cur, inq, got, echoed>>

NoFrame == [iface |-> <<>>]

NotSent == -1

StoredString(f) == IF ended[f.src] THEN <<chars[f.src]>> ELSE <<chars[f.src], f.type>>

SoughtString(f) == IF ended[f.dst] THEN <<chars[f.dst]>> ELSE <<chars[f.dst], f.src>>

(* Frame f leaves by these ports; a host takes what is for it. *)
Emit(f, queues, out) ==
    LET far == {Wire[p] : p \in out} IN
    /\ inq' = [p \in Ports |-> IF p \in far /\ p[1] \in Nodes
                               THEN Append(queues[p], f) ELSE queues[p]]
    /\ got' = [got EXCEPT ![f.id] = IF \E p \in far : p[1] = f.dst /\ @ < 2
                                    THEN @ + 1 ELSE @]

(* A host sends a frame, each frame once. *)
HostSends(id, src, dst, type) ==
    /\ got[id] = NotSent
    /\ \A i \in Frames : i < id => got[i] # NotSent
    /\ \E p \in PortsOf(src) :
           inq' = [inq EXCEPT ![Wire[p]] =
                      Append(@, [id |-> id, src |-> src, dst |-> dst, type |-> type])]
    /\ got' = [got EXCEPT ![id] = 0]
    /\ UNCHANGED <<mac_port_map, cur, echoed>>

(* broadcast_packet of the hub. *)
HubHandles(p) ==
    /\ p[1] \in Hubs /\ inq[p] # <<>>
    /\ Emit(Head(inq[p]), [inq EXCEPT ![p] = Tail(@)], PortsOf(p[1]) \ {p})
    /\ UNCHANGED <<mac_port_map, cur, echoed>>

Entry(f, p) == [hash |-> hash8[f.src], str |-> StoredString(f), iface |-> p, age |-> 0]

(* An entry that is found keeps its port. *)
insert_mac_port(entries, f, p) ==
    LET known == {e \in entries : e.hash = hash8[f.src] /\ e.str = StoredString(f)} IN
    IF known = {} THEN entries \cup {Entry(f, p)}
    ELSE (entries \ known) \cup {[e EXCEPT !.age = 0] : e \in known}

\* Mutant: frames are taken from blocked ports, too.
LearnAll(p) ==
    LET s == p[1]  f == Head(inq[p]) IN
    /\ s \in Switches /\ inq[p] # <<>> /\ cur[s] = NoFrame
    /\ inq' = [inq EXCEPT ![p] = Tail(@)]
    /\ mac_port_map' = [mac_port_map EXCEPT ![s] = insert_mac_port(@, f, p)]
    /\ cur' = [cur EXCEPT ![s] = [iface |-> p, frame |-> f]]
    /\ UNCHANGED <<got, echoed>>

(* The main thread takes a frame and inserts its source. A frame that comes by a
   blocked port is not looked at. *)
Learn(p) ==
    LET s == p[1]  f == Head(inq[p]) IN
    /\ s \in Switches /\ inq[p] # <<>> /\ cur[s] = NoFrame
    /\ inq' = [inq EXCEPT ![p] = Tail(@)]
    /\ IF p \in Blocked
       THEN UNCHANGED <<mac_port_map, cur>>
       ELSE /\ mac_port_map' = [mac_port_map EXCEPT ![s] = insert_mac_port(@, f, p)]
            /\ cur' = [cur EXCEPT ![s] = [iface |-> p, frame |-> f]]
    /\ UNCHANGED <<got, echoed>>

lookup_port(s, f) ==
    {e.iface : e \in {e \in mac_port_map[s] : e.hash = hash8[f.dst] /\ e.str = SoughtString(f)}}

\* Mutant: the port that the frame came by is not left out.
BroadcastBack(s, iface) == PortsOf(s) \ Blocked

\* Mutant: the frame leaves by the first port only.
BroadcastFirst(s, iface) ==
    {p \in PortsOf(s) \ ({iface} \cup Blocked) :
        \A q \in PortsOf(s) \ ({iface} \cup Blocked) : p[2] <= q[2]}

broadcast_packet(s, iface) == PortsOf(s) \ ({iface} \cup Blocked)

(* A known destination may lie behind the port the frame came by: it is sent back. *)
Forward(s) ==
    LET f == cur[s].frame  dest == lookup_port(s, f) IN
    /\ cur[s] # NoFrame
    /\ Emit(f, inq, IF dest = {} THEN broadcast_packet(s, cur[s].iface) ELSE dest \ Blocked)
    /\ cur' = [cur EXCEPT ![s] = NoFrame]
    /\ echoed' = (echoed \/ cur[s].iface \in dest)
    /\ UNCHANGED mac_port_map

sweep_aged_mac_port_entry(s) ==
    /\ \E e \in mac_port_map[s] : e.age > Timeout
    /\ mac_port_map' = [mac_port_map EXCEPT ![s] = {e \in @ : e.age <= Timeout}]
    /\ UNCHANGED <<cur, inq, got, echoed>>

(* A second passes. *)
Tick ==
    /\ mac_port_map' = [s \in Switches |->
           {[e EXCEPT !.age = IF @ > Timeout THEN @ ELSE @ + 1] : e \in mac_port_map[s]}]
    /\ UNCHANGED <<cur, inq, got, echoed>>

Init ==
    /\ mac_port_map = [s \in Switches |-> {}]
    /\ cur = [s \in Switches |-> NoFrame]
    /\ inq = [p \in Ports |-> <<>>]
    /\ got = [id \in Frames |-> NotSent]
    /\ echoed = FALSE

Next ==
    \/ \E id \in Frames, w \in Flows, type \in Types : HostSends(id, w[1], w[2], type)
    \/ \E p \in Ports : HubHandles(p) \/ Learn(p)
    \/ \E s \in Switches : Forward(s) \/ sweep_aged_mac_port_entry(s)
    \/ Tick

(* The main threads of the switches and the hubs go on with what has come. *)
Fairness ==
    /\ \A s \in Switches : WF_vars(Forward(s) \/ \E p \in PortsOf(s) : Learn(p))
    /\ \A u \in Hubs : WF_vars(\E p \in PortsOf(u) : HubHandles(p))

Spec == Init /\ [][Next]_vars /\ Fairness

-----------------------------------------------------------------------------
(* The ports by which frames go on that have left by one of ps. *)
Onward(ps) ==
    {q \in Ports \ Blocked : \E r \in ps : /\ q[1] = Wire[r][1] /\ q # Wire[r]
                                          /\ Wire[r] \notin Blocked}

(* The ports that frames which leave by p may go out by, p itself included: no set of
   ports that p is in, and such a port is not, keeps the frames in. *)
Far(p) ==
    {q \in Ports : \A ps \in SUBSET Ports :
        p \in ps /\ q \notin ps => \E r \in Onward(ps) : r \notin ps}

(* The nodes and hosts that these frames may come to. *)
Behind == [p \in Ports |-> {Wire[q][1] : q \in Far(p)}]

(* The ports that are not blocked lead to each host one way, as the spanning tree
   leaves them. *)
LoopFree ==
    \A n \in Nodes : \A p, q \in PortsOf(n) \ Blocked :
        p # q => Behind[p] \cap Behind[q] \cap Hosts = {}

(* As long as no frame has been sent back, an entry leads towards the host it was
   made for, whatever the order of frames, floods and sweeps (mac.c:72-82). *)
Towards ==
    ~ echoed => \A s \in Switches : \A e \in mac_port_map[s] : \A h \in Hosts :
        e.hash = hash8[h] /\ Head(e.str) = chars[h] => h \in Behind[e.iface]

(* So far a frame comes to its destination once, also over wires in a ring
   (lab-06-stp/prj-06/main.c:35, broadcast.c:27). *)
OnceEach == ~ echoed => \A id \in Frames : got[id] <= 1

(* A frame that is sent comes to its destination, whether the switches know it, have
   forgotten it, or forget it between the insertion and the lookup. *)
Delivered == \A id \in Frames : (got[id] = 0) ~> (got[id] > 0 \/ echoed)
=============================================================================
