----------------------------- MODULE Lan_proofs -----------------------------
(* For all switches, hubs, hosts and wires, and whatever ports are blocked: as long as
   no frame has been sent back, an entry of a switch's table leads towards its host,
   and where no ports are left that make a loop a frame comes to its host once.

   A frame's source lies behind the port by which the frame has come (From), because
   a frame that goes on by another port than that leaves behind itself all that the
   first port leads to. Of the copies of a frame one at most can still come to its
   destination, and none when it has been there (Once). *)
EXTENDS Lan, SequenceTheorems, TLAPS

FrameRecs == [id : Frames, src : Hosts, dst : Hosts, type : Types]

Strings == {<<chars[h]>> : h \in Hosts} \cup {<<chars[h], t>> : h \in Hosts, t \in Types}

Entries(s) ==
    [hash : {hash8[h] : h \in Hosts}, str : Strings, iface : PortsOf(s) \ Blocked, age : Nat]

Currents(s) == [iface : PortsOf(s) \ Blocked, frame : FrameRecs]

LanType ==
    /\ DOMAIN mac_port_map = Switches
    /\ \A s \in Switches : mac_port_map[s] \subseteq Entries(s)
    /\ DOMAIN cur = Switches
    /\ \A s \in Switches : cur[s] # NoFrame => cur[s] \in Currents(s)
    /\ inq \in [Ports -> Seq(FrameRecs)]
    /\ got \in [Frames -> -1 .. 2]
    /\ echoed \in BOOLEAN

(* What may wait at the port p, or have come by it. *)
From(p) == {f \in FrameRecs : f.src \in Behind[p]}

(* The entry e was made for the host h, and leads there. *)
LeadsTo(e, h) == e.hash = hash8[h] /\ Head(e.str) = chars[h] /\ h \in Behind[e.iface]

FromBehind ==
    /\ \A p \in Ports : inq[p] \in Seq(From(p))
    /\ \A s \in Switches : cur[s] # NoFrame => cur[s].frame \in From(cur[s].iface)
    /\ \A s \in Switches : \A e \in mac_port_map[s] : \E h \in Hosts : LeadsTo(e, h)

LanInv == LanType /\ (~ echoed => FromBehind)

-----------------------------------------------------------------------------
(* What lies behind a port *)

LEMMA PortIs ==
    ASSUME NEW p \in Ports
    PROVE  Wire[p] \in Ports /\ Wire[Wire[p]] = p
BY LanAssumption

LEMMA FarIs ==
    ASSUME NEW p \in Ports
    PROVE  p \in Far(p) /\ Far(p) \subseteq Ports /\ Onward(Far(p)) \subseteq Far(p)
<1>1. p \in Far(p) /\ Far(p) \subseteq Ports
    BY DEF Far
<1>2. ASSUME NEW q \in Onward(Far(p)), NEW ps \in SUBSET Ports, p \in ps, q \notin ps
      PROVE  \E r \in Onward(ps) : r \notin ps
    <2>1. CASE Far(p) \subseteq ps
        <3>1. q \in Onward(ps)
            BY <2>1 DEF Onward
        <3> QED
            BY <1>2, <3>1
    <2>2. CASE ~ (Far(p) \subseteq ps)
        BY <1>2, <2>2 DEF Far
    <2> QED
        BY <2>1, <2>2
<1>3. Onward(Far(p)) \subseteq Ports
    BY DEF Onward
<1> QED
    BY <1>1, <1>2, <1>3 DEF Far

(* A frame that comes by q, and goes on by p, has left behind itself all that p
   leads to, and so has one that left by the other end of q's wire. *)
LEMMA BehindGrows ==
    ASSUME NEW p \in Ports \ Blocked, NEW q \in Ports \ Blocked, p[1] = q[1], p # q
    PROVE  Behind[p] \subseteq Behind[Wire[q]]
<1> DEFINE w == Wire[q]
<1>1. w \in Ports /\ Wire[w] = q
    BY PortIs
<1>2. w \in Far(w) /\ Far(w) \in SUBSET Ports /\ Onward(Far(w)) \subseteq Far(w)
    BY <1>1, FarIs
<1>3. p \in Onward(Far(w))
    BY <1>1, <1>2 DEF Onward
<1>4. Far(p) \subseteq Far(w)
    <2> HIDE DEF w
    <2>1. ASSUME NEW r \in Far(p)  PROVE r \in Far(w)
        BY <1>2, <1>3, <2>1 DEF Far
    <2> QED
        BY <2>1
<1> QED
    BY <1>1, <1>4 DEF Behind

LEMMA EndBehind ==
    ASSUME NEW p \in Ports
    PROVE  Wire[p][1] \in Behind[p]
BY FarIs DEF Behind

-----------------------------------------------------------------------------
(* Sequences *)

LEMMA TailIs ==
    ASSUME NEW S, NEW s \in Seq(S), s # <<>>
    PROVE  /\ Tail(s) \in Seq(S) /\ Head(s) \in S /\ Head(s) = s[1] /\ 1 \in DOMAIN s
           /\ \A i \in DOMAIN Tail(s) : i + 1 \in DOMAIN s /\ Tail(s)[i] = s[i + 1]
OBVIOUS

LEMMA AppendIs ==
    ASSUME NEW S, NEW s \in Seq(S), NEW x \in S
    PROVE  /\ Append(s, x) \in Seq(S)
           /\ \A i \in DOMAIN Append(s, x) :
                  \/ i \in DOMAIN s /\ Append(s, x)[i] = s[i]
                  \/ i = Len(s) + 1 /\ Append(s, x)[i] = x
OBVIOUS

-----------------------------------------------------------------------------
(* Types, and where frames and entries come from *)

LEMMA EmitType ==
    ASSUME NEW f \in FrameRecs, NEW queues \in [Ports -> Seq(FrameRecs)],
           NEW out \in SUBSET Ports, got \in [Frames -> -1 .. 2], Emit(f, queues, out)
    PROVE  inq' \in [Ports -> Seq(FrameRecs)] /\ got' \in [Frames -> -1 .. 2]
<1> DEFINE far == {Wire[p] : p \in out}
<1>1. /\ inq' = [p \in Ports |-> IF p \in far /\ p[1] \in Nodes
                                 THEN Append(queues[p], f) ELSE queues[p]]
      /\ got' = [got EXCEPT ![f.id] = IF \E p \in far : p[1] = f.dst /\ @ < 2
                                      THEN @ + 1 ELSE @]
    BY DEF Emit
<1>2. \A p \in Ports : Append(queues[p], f) \in Seq(FrameRecs) /\ queues[p] \in Seq(FrameRecs)
    BY AppendIs
<1>3. got[f.id] \in -1 .. 2 /\ f.id \in Frames
    BY DEF FrameRecs
<1> HIDE DEF far
<1> QED
    BY <1>1, <1>2, <1>3

(* A frame that came by i goes on by other ports of the node. *)
LEMMA EmitFrom ==
    ASSUME NEW i \in Ports \ Blocked, NEW f \in From(i),
           NEW queues, \A q \in Ports : queues[q] \in Seq(From(q)),
           NEW out \in SUBSET Ports, \A o \in out : o \notin Blocked /\ o[1] = i[1] /\ o # i,
           Emit(f, queues, out), NEW q \in Ports
    PROVE  inq'[q] \in Seq(From(q))
<1> DEFINE far == {Wire[p] : p \in out}
<1>1. inq' = [p \in Ports |-> IF p \in far /\ p[1] \in Nodes
                              THEN Append(queues[p], f) ELSE queues[p]]
    BY DEF Emit
<1>2. CASE q \in far /\ q[1] \in Nodes
    <2>1. PICK o \in out : q = Wire[o]
        BY <1>2
    <2>2. Behind[i] \subseteq Behind[q]
        BY <2>1, BehindGrows
    <2>3. f \in From(q)
        BY <2>2 DEF From
    <2>4. Append(queues[q], f) \in Seq(From(q))
        BY <2>3, AppendIs
    <2> QED
        BY <1>1, <1>2, <2>4
<1>3. CASE ~ (q \in far /\ q[1] \in Nodes)
    BY <1>1, <1>3
<1> QED
    BY <1>2, <1>3

LEMMA SendsInv ==
    ASSUME LanInv, NEW id \in Frames, NEW w \in Flows, NEW type \in Types,
           HostSends(id, w[1], w[2], type)
    PROVE  LanInv'
<1> DEFINE f == [id |-> id, src |-> w[1], dst |-> w[2], type |-> type]
<1>1. w[1] \in Hosts /\ w[2] \in Hosts
    BY LanAssumption
<1>2. f \in FrameRecs
    BY <1>1 DEF FrameRecs
<1>3. PICK p \in PortsOf(w[1]) : inq' = [inq EXCEPT ![Wire[p]] = Append(@, f)]
    BY DEF HostSends
<1>4. p \in Ports /\ Wire[p] \in Ports /\ Wire[Wire[p]] = p /\ p[1] = w[1]
    BY <1>3, PortIs DEF PortsOf
<1> HIDE DEF f
<1>5. inq' \in [Ports -> Seq(FrameRecs)]
    BY <1>2, <1>3, <1>4, AppendIs DEF LanInv, LanType
<1>6. got' \in [Frames -> -1 .. 2] /\ UNCHANGED <<mac_port_map, cur, echoed>>
    BY DEF HostSends, LanInv, LanType
<1>7. LanType'
    BY <1>5, <1>6 DEF LanInv, LanType
<1>8. ASSUME ~ echoed, NEW q \in Ports  PROVE inq'[q] \in Seq(From(q))
    <2>1. inq[q] \in Seq(From(q))
        BY <1>8 DEF LanInv, FromBehind
    <2>2. CASE q = Wire[p]
        <3>1. f \in From(q)
            BY <1>2, <1>4, <2>2, EndBehind DEF From, f
        <3>2. Append(inq[q], f) \in Seq(From(q))
            BY <2>1, <3>1, AppendIs
        <3> QED
            BY <1>3, <1>4, <2>2, <3>2 DEF LanInv, LanType
    <2>3. CASE q # Wire[p]
        BY <1>3, <2>1, <2>3 DEF LanInv, LanType
    <2> QED
        BY <2>2, <2>3
<1> QED
    BY <1>6, <1>7, <1>8 DEF LanInv, FromBehind

(* What remains when the first frame has been taken from the queue of p. *)
LEMMA TakenIs ==
    ASSUME LanInv, NEW p \in Ports, inq[p] # <<>>
    PROVE  /\ [inq EXCEPT ![p] = Tail(@)] \in [Ports -> Seq(FrameRecs)]
           /\ Head(inq[p]) \in FrameRecs
           /\ ~ echoed => /\ Head(inq[p]) \in From(p)
                          /\ \A q \in Ports : [inq EXCEPT ![p] = Tail(@)][q] \in Seq(From(q))
<1>1. inq \in [Ports -> Seq(FrameRecs)]
    BY DEF LanInv, LanType
<1>2. Tail(inq[p]) \in Seq(FrameRecs) /\ Head(inq[p]) \in FrameRecs
    BY <1>1, TailIs
<1>3. ASSUME ~ echoed
      PROVE  /\ Head(inq[p]) \in From(p) /\ Tail(inq[p]) \in Seq(From(p))
             /\ \A q \in Ports : inq[q] \in Seq(From(q))
    <2>1. \A q \in Ports : inq[q] \in Seq(From(q))
        BY <1>3 DEF LanInv, FromBehind
    <2> QED
        BY <2>1, TailIs
<1> QED
    BY <1>1, <1>2, <1>3

LEMMA HubInv ==
    ASSUME LanInv, NEW p \in Ports, HubHandles(p)
    PROVE  LanInv'
<1> DEFINE f == Head(inq[p])
           queues == [inq EXCEPT ![p] = Tail(@)]
           out == PortsOf(p[1]) \ {p}
<1>1. /\ p[1] \in Hubs /\ inq[p] # <<>> /\ Emit(f, queues, out)
      /\ UNCHANGED <<mac_port_map, cur, echoed>>
    BY DEF HubHandles
<1>2. /\ f \in FrameRecs /\ queues \in [Ports -> Seq(FrameRecs)] /\ out \in SUBSET Ports
      /\ ~ echoed => f \in From(p) /\ \A q \in Ports : queues[q] \in Seq(From(q))
    BY <1>1, TakenIs DEF PortsOf
<1>3. p \in Ports \ Blocked /\ \A o \in out : o \notin Blocked /\ o[1] = p[1] /\ o # p
    BY <1>1, LanAssumption DEF PortsOf
<1>4. got \in [Frames -> -1 .. 2]
    BY DEF LanInv, LanType
<1> HIDE DEF f, queues, out
<1>5. inq' \in [Ports -> Seq(FrameRecs)] /\ got' \in [Frames -> -1 .. 2]
    BY <1>1, <1>2, <1>4, EmitType
<1>6. ~ echoed => \A q \in Ports : inq'[q] \in Seq(From(q))
    BY <1>1, <1>2, <1>3, EmitFrom
<1> QED
    BY <1>1, <1>5, <1>6 DEF LanInv, LanType, FromBehind

(* The entry that is made, or found, is one for the source of the frame. *)
LEMMA InsertIs ==
    ASSUME NEW s \in Switches, NEW p \in PortsOf(s) \ Blocked, NEW f \in FrameRecs,
           NEW E \in SUBSET Entries(s)
    PROVE  /\ insert_mac_port(E, f, p) \subseteq Entries(s)
           /\ (f \in From(p) /\ \A e \in E : \E h \in Hosts : LeadsTo(e, h))
              => \A e \in insert_mac_port(E, f, p) : \E h \in Hosts : LeadsTo(e, h)
<1> DEFINE new == Entry(f, p)
           again(e) == [e EXCEPT !.age = 0]
<1>1. \A e \in insert_mac_port(E, f, p) :
          e \in E \/ e = new \/ \E d \in E : e = again(d)
    BY DEF insert_mac_port
<1>2. f.src \in Hosts /\ f.type \in Types
    BY DEF FrameRecs
<1>3. StoredString(f) \in Strings /\ Head(StoredString(f)) = chars[f.src]
    BY <1>2 DEF StoredString, Strings
<1>4. new \in Entries(s) /\ new.hash = hash8[f.src] /\ new.str = StoredString(f) /\ new.iface = p
    BY <1>2, <1>3 DEF Entry, Entries
<1>5. ASSUME NEW d \in E
      PROVE  /\ again(d) \in Entries(s) /\ again(d).hash = d.hash
             /\ again(d).str = d.str /\ again(d).iface = d.iface
    BY DEF Entries
<1> HIDE DEF new, again
<1>6. insert_mac_port(E, f, p) \subseteq Entries(s)
    BY <1>1, <1>4, <1>5
<1>7. ASSUME f \in From(p), \A e \in E : \E h \in Hosts : LeadsTo(e, h),
             NEW e \in insert_mac_port(E, f, p)
      PROVE  \E h \in Hosts : LeadsTo(e, h)
    <2>1. CASE e \in E
        BY <1>7, <2>1
    <2>2. CASE e = new
        <3>1. LeadsTo(e, f.src)
            BY <1>3, <1>4, <1>7, <2>2 DEF LeadsTo, From
        <3> QED
            BY <1>2, <3>1
    <2>3. CASE \E d \in E : e = again(d)
        BY <1>5, <1>7, <2>3 DEF LeadsTo
    <2> QED
        BY <1>1, <2>1, <2>2, <2>3
<1> QED
    BY <1>6, <1>7

LEMMA LearnInv ==
    ASSUME LanInv, NEW p \in Ports, Learn(p)
    PROVE  LanInv'
<1> DEFINE s == p[1]
           f == Head(inq[p])
<1>1. /\ s \in Switches /\ inq[p] # <<>> /\ cur[s] = NoFrame
      /\ inq' = [inq EXCEPT ![p] = Tail(@)] /\ UNCHANGED <<got, echoed>>
    BY DEF Learn
<1>2. /\ inq' \in [Ports -> Seq(FrameRecs)] /\ f \in FrameRecs
      /\ ~ echoed => f \in From(p) /\ \A q \in Ports : inq'[q] \in Seq(From(q))
    BY <1>1, TakenIs
<1>3. CASE p \in Blocked
    <2>1. UNCHANGED <<mac_port_map, cur>>
        BY <1>3 DEF Learn
    <2> QED
        BY <1>1, <1>2, <2>1 DEF LanInv, LanType, FromBehind
<1>4. CASE p \notin Blocked
    <2>1. /\ mac_port_map' = [mac_port_map EXCEPT ![s] = insert_mac_port(@, f, p)]
          /\ cur' = [cur EXCEPT ![s] = [iface |-> p, frame |-> f]]
        BY <1>4 DEF Learn
    <2> HIDE DEF f
    <2>2. /\ DOMAIN mac_port_map' = Switches /\ DOMAIN cur' = Switches
          /\ mac_port_map'[s] = insert_mac_port(mac_port_map[s], f, p)
          /\ cur'[s] = [iface |-> p, frame |-> f]
          /\ \A t \in Switches : t # s => /\ mac_port_map'[t] = mac_port_map[t]
                                          /\ cur'[t] = cur[t]
        BY <1>1, <2>1 DEF LanInv, LanType
    <2>3. p \in PortsOf(s) \ Blocked /\ mac_port_map[s] \in SUBSET Entries(s)
        BY <1>1, <1>4 DEF PortsOf, LanInv, LanType
    <2>4. mac_port_map'[s] \subseteq Entries(s) /\ cur'[s] \in Currents(s)
        BY <1>1, <1>2, <2>2, <2>3, InsertIs DEF Currents
    <2>5. ASSUME ~ echoed
          PROVE  /\ \A e \in mac_port_map'[s] : \E h \in Hosts : LeadsTo(e, h)
                 /\ cur'[s].frame \in From(cur'[s].iface)
        <3>1. \A e \in mac_port_map[s] : \E h \in Hosts : LeadsTo(e, h)
            BY <1>1, <2>5 DEF LanInv, FromBehind
        <3> QED
            BY <1>1, <1>2, <2>2, <2>3, <2>5, <3>1, InsertIs
    <2>6. LanType'
        BY <1>1, <1>2, <2>2, <2>4 DEF LanInv, LanType
    <2>7. ~ echoed' => FromBehind'
        BY <1>1, <1>2, <2>2, <2>5 DEF LanInv, FromBehind
    <2> QED
        BY <2>6, <2>7 DEF LanInv
<1> QED
    BY <1>3, <1>4

(* Where a switch sends a frame: by ports of its own that are not blocked, and not
   back, unless the step marks it. *)
LEMMA OutIs ==
    ASSUME LanInv, NEW s \in Switches, Forward(s)
    PROVE  \E out \in SUBSET (PortsOf(s) \ Blocked) :
               /\ Emit(cur[s].frame, inq, out)
               /\ ~ echoed' => ~ echoed /\ cur[s].iface \notin out
<1> DEFINE f == cur[s].frame
           dest == lookup_port(s, f)
           out == IF dest = {} THEN broadcast_packet(s, cur[s].iface) ELSE dest \ Blocked
<1>1. Emit(f, inq, out) /\ echoed' = (echoed \/ cur[s].iface \in dest)
    BY DEF Forward
<1>2. dest \subseteq PortsOf(s) \ Blocked
    BY DEF lookup_port, LanInv, LanType, Entries
<1>3. out \in SUBSET (PortsOf(s) \ Blocked)
    BY <1>2 DEF broadcast_packet
<1>4. cur[s].iface \in out => cur[s].iface \in dest
    BY DEF broadcast_packet
<1> HIDE DEF out, dest
<1> QED
    BY <1>1, <1>3, <1>4

LEMMA ForwardInv ==
    ASSUME LanInv, NEW s \in Switches, Forward(s)
    PROVE  LanInv'
<1> DEFINE f == cur[s].frame
           i == cur[s].iface
<1>1. /\ cur[s] # NoFrame /\ cur' = [cur EXCEPT ![s] = NoFrame] /\ UNCHANGED mac_port_map
      /\ echoed' \in BOOLEAN
    BY DEF Forward, LanInv, LanType
<1>2. f \in FrameRecs /\ i \in PortsOf(s) \ Blocked
    BY <1>1 DEF LanInv, LanType, Currents
<1>3. PICK out \in SUBSET (PortsOf(s) \ Blocked) :
          Emit(f, inq, out) /\ (~ echoed' => ~ echoed /\ i \notin out)
    BY OutIs
<1>4. /\ i \in Ports \ Blocked /\ out \in SUBSET Ports
      /\ \A o \in out : o \notin Blocked /\ o[1] = i[1]
      /\ inq \in [Ports -> Seq(FrameRecs)] /\ got \in [Frames -> -1 .. 2]
    BY <1>2 DEF PortsOf, LanInv, LanType
<1>5. ~ echoed => f \in From(i) /\ \A q \in Ports : inq[q] \in Seq(From(q))
    BY <1>1 DEF LanInv, FromBehind
<1> HIDE DEF f, i
<1>6. inq' \in [Ports -> Seq(FrameRecs)] /\ got' \in [Frames -> -1 .. 2]
    BY <1>2, <1>3, <1>4, EmitType
<1>7. ASSUME ~ echoed'  PROVE \A q \in Ports : inq'[q] \in Seq(From(q))
    <2>1. \A o \in out : o \notin Blocked /\ o[1] = i[1] /\ o # i
        BY <1>3, <1>4, <1>7
    <2> QED
        BY <1>2, <1>3, <1>4, <1>5, <1>7, <2>1, EmitFrom
<1>8. DOMAIN cur' = Switches /\ \A t \in Switches : cur'[t] = NoFrame \/ cur'[t] = cur[t]
    BY <1>1 DEF LanInv, LanType
<1>9. LanType'
    BY <1>1, <1>6, <1>8 DEF LanInv, LanType
<1>10. ~ echoed' => FromBehind'
    BY <1>1, <1>3, <1>7, <1>8 DEF LanInv, FromBehind
<1> QED
    BY <1>9, <1>10 DEF LanInv

(* Sweeping and ageing leave the entries they keep as they are, but for the age. *)
LEMMA AgesInv ==
    ASSUME LanInv,
           DOMAIN mac_port_map' = Switches,
           \A s \in Switches : \A e \in mac_port_map'[s] : \E d \in mac_port_map[s], n \in Nat :
               e = [d EXCEPT !.age = n],
           UNCHANGED <<cur, inq, got, echoed>>
    PROVE  LanInv'
<1>1. ASSUME NEW s \in Switches, NEW e \in mac_port_map'[s]
      PROVE  \E d \in mac_port_map[s] :
                 /\ e \in Entries(s) /\ e.hash = d.hash /\ e.str = d.str /\ e.iface = d.iface
    <2>1. PICK d \in mac_port_map[s], n \in Nat : e = [d EXCEPT !.age = n]
        OBVIOUS
    <2>2. d \in Entries(s)
        BY DEF LanInv, LanType
    <2>3. e \in Entries(s) /\ e.hash = d.hash /\ e.str = d.str /\ e.iface = d.iface
        BY <2>1, <2>2 DEF Entries
    <2> QED
        BY <2>3
<1>2. LanType'
    BY <1>1 DEF LanInv, LanType
<1>3. ASSUME ~ echoed, NEW s \in Switches, NEW e \in mac_port_map'[s]
      PROVE  \E h \in Hosts : LeadsTo(e, h)
    <2>1. PICK d \in mac_port_map[s] : e.hash = d.hash /\ e.str = d.str /\ e.iface = d.iface
        BY <1>1
    <2>2. PICK h \in Hosts : LeadsTo(d, h)
        BY <1>3 DEF LanInv, FromBehind
    <2> QED
        BY <2>1, <2>2 DEF LeadsTo
<1>4. ~ echoed' => FromBehind'
    BY <1>3 DEF LanInv, FromBehind
<1> QED
    BY <1>2, <1>4 DEF LanInv

LEMMA InitInv == Init => LanInv
<1> SUFFICES ASSUME Init  PROVE LanInv
    OBVIOUS
<1>1. \A S : <<>> \in Seq(S)
    OBVIOUS
<1>2. inq \in [Ports -> Seq(FrameRecs)]
    BY <1>1 DEF Init
<1>3. got \in [Frames -> -1 .. 2]
    BY DEF Init, NotSent
<1>4. LanType
    BY <1>2, <1>3 DEF Init, LanType
<1>5. FromBehind
    BY <1>1 DEF Init, FromBehind
<1> QED
    BY <1>4, <1>5 DEF LanInv

LEMMA NextInv == LanInv /\ [Next]_vars => LanInv'
<1> SUFFICES ASSUME LanInv, [Next]_vars  PROVE LanInv'
    OBVIOUS
<1>1. CASE \E id \in Frames, w \in Flows, type \in Types : HostSends(id, w[1], w[2], type)
    BY <1>1, SendsInv
<1>2. CASE \E p \in Ports : HubHandles(p) \/ Learn(p)
    BY <1>2, HubInv, LearnInv
<1>3. CASE \E s \in Switches : Forward(s)
    BY <1>3, ForwardInv
<1>4. ASSUME NEW s \in Switches, sweep_aged_mac_port_entry(s)  PROVE LanInv'
    <2>1. /\ mac_port_map' = [mac_port_map EXCEPT ![s] = {e \in @ : e.age <= Timeout}]
          /\ UNCHANGED <<cur, inq, got, echoed>>
        BY <1>4 DEF sweep_aged_mac_port_entry
    <2>2. /\ DOMAIN mac_port_map' = Switches
          /\ \A t \in Switches : mac_port_map'[t] \subseteq mac_port_map[t]
        BY <2>1 DEF LanInv, LanType
    <2>3. ASSUME NEW t \in Switches, NEW e \in mac_port_map'[t]
          PROVE  \E d \in mac_port_map[t], n \in Nat : e = [d EXCEPT !.age = n]
        <3>1. e \in mac_port_map[t] /\ e \in Entries(t)
            BY <2>2 DEF LanInv, LanType
        <3>2. e = [e EXCEPT !.age = e.age] /\ e.age \in Nat
            BY <3>1 DEF Entries
        <3> QED
            BY <3>1, <3>2
    <2> QED
        BY <2>1, <2>2, <2>3, AgesInv
<1>5. CASE Tick
    <2>1. /\ DOMAIN mac_port_map' = Switches
          /\ UNCHANGED <<cur, inq, got, echoed>>
        BY <1>5 DEF Tick
    <2>2. ASSUME NEW t \in Switches, NEW e \in mac_port_map'[t]
          PROVE  \E d \in mac_port_map[t], n \in Nat : e = [d EXCEPT !.age = n]
        <3>1. PICK d \in mac_port_map[t] :
                  e = [d EXCEPT !.age = IF @ > Timeout THEN @ ELSE @ + 1]
            BY <1>5 DEF Tick
        <3>2. d \in Entries(t)
            BY DEF LanInv, LanType
        <3> DEFINE n == IF d.age > Timeout THEN d.age ELSE d.age + 1
        <3>3. n \in Nat /\ e = [d EXCEPT !.age = n]
            BY <3>1, <3>2 DEF Entries
        <3> QED
            BY <3>3
    <2> QED
        BY <2>1, <2>2, AgesInv
<1>6. CASE UNCHANGED vars
    BY <1>6 DEF vars, LanInv, LanType, FromBehind
<1> QED
    BY <1>1, <1>2, <1>3, <1>4, <1>5, <1>6 DEF Next

LEMMA TowardsIs == LanInv => Towards
<1> SUFFICES ASSUME LanInv, ~ echoed, NEW s \in Switches, NEW e \in mac_port_map[s],
                    NEW h \in Hosts, e.hash = hash8[h], Head(e.str) = chars[h]
             PROVE  h \in Behind[e.iface]
    BY DEF Towards
<1>1. PICK g \in Hosts : LeadsTo(e, g)
    BY DEF LanInv, FromBehind
<1>2. <<hash8[h], chars[h]>> = <<hash8[g], chars[g]>>
    BY <1>1 DEF LeadsTo
<1>3. h = g
    BY <1>2, LanAssumption
<1> QED
    BY <1>1, <1>3 DEF LeadsTo

(* As long as no frame has been sent back, an entry leads towards the host it was made
   for, whatever the topology and in whatever order the two threads of a switch, the
   floods and the sweeps come (mac.c, main.c and broadcast.c). *)
THEOREM EntriesLead == Spec => []Towards
<1>1. LanInv => Towards
    BY TowardsIs
<1> QED
    BY <1>1, InitInv, NextInv, PTL DEF Spec

-----------------------------------------------------------------------------
(* The copies of a frame *)

(* The copy f that comes by p may still come to its destination. *)
Leads(p, f) ==
    p \notin Blocked /\ \E o \in PortsOf(p[1]) \ ({p} \cup Blocked) : f.dst \in Behind[o]

(* Such a copy of the frame id waits at p, in the place m. *)
InQueue(queues, id, p, m) ==
    m \in DOMAIN queues[p] /\ queues[p][m].id = id /\ Leads(p, queues[p][m])

(* The switch s is about to forward one. *)
InHand(current, id, s) ==
    /\ current[s] # NoFrame /\ current[s].frame.id = id
    /\ Leads(current[s].iface, current[s].frame)

(* There is one at most, and none of a frame that has come to its destination. *)
Single(queues, current, count) ==
    \A id \in Frames :
        /\ \A p, q \in Ports : \A m, n \in Nat :
               InQueue(queues, id, p, m) /\ InQueue(queues, id, q, n) => p = q /\ m = n
        /\ \A s, t \in Switches : InHand(current, id, s) /\ InHand(current, id, t) => s = t
        /\ \A p \in Ports, m \in Nat, s \in Switches :
               ~ (InQueue(queues, id, p, m) /\ InHand(current, id, s))
        /\ \A p \in Ports, m \in Nat : InQueue(queues, id, p, m) => count[id] = 0
        /\ \A s \in Switches : InHand(current, id, s) => count[id] = 0

(* There is none but the copy f that has come by i. *)
Alone(queues, current, count, i, f) ==
    Leads(i, f) => /\ count[f.id] = 0
                   /\ \A p \in Ports, m \in Nat : ~ InQueue(queues, f.id, p, m)
                   /\ \A s \in Switches : ~ InHand(current, f.id, s)

Once == Single(inq, cur, got) /\ \A id \in Frames : got[id] <= 1

LEMMA TakeSingle ==
    ASSUME NEW queues \in [Ports -> Seq(FrameRecs)], NEW current, NEW count,
           Single(queues, current, count), NEW p \in Ports, queues[p] # <<>>
    PROVE  LET rest == [queues EXCEPT ![p] = Tail(@)] IN
           /\ Single(rest, current, count)
           /\ Alone(rest, current, count, p, Head(queues[p]))
<1> DEFINE rest == [queues EXCEPT ![p] = Tail(@)]
           f == Head(queues[p])
<1>1. /\ f = queues[p][1] /\ 1 \in DOMAIN queues[p] /\ f.id \in Frames
      /\ \A m \in DOMAIN rest[p] : m + 1 \in DOMAIN queues[p] /\ rest[p][m] = queues[p][m + 1]
      /\ \A m \in DOMAIN rest[p] : m \in Nat \ {0}
      /\ \A q \in Ports : q # p => rest[q] = queues[q]
    <2>1. queues[p] \in Seq(FrameRecs) /\ rest[p] = Tail(queues[p])
        OBVIOUS
    <2>2. f \in FrameRecs
        BY <2>1, TailIs
    <2>3. \A m \in DOMAIN Tail(queues[p]) : m \in Nat \ {0}
        BY <2>1
    <2> QED
        BY <2>1, <2>2, <2>3, TailIs DEF FrameRecs
<1> HIDE DEF rest, f
<1>2. ASSUME NEW id \in Frames, NEW q \in Ports, NEW m \in Nat, InQueue(rest, id, q, m)
      PROVE  q # p => InQueue(queues, id, q, m)
    BY <1>1, <1>2 DEF InQueue
<1>3. ASSUME NEW id \in Frames, NEW m \in Nat, InQueue(rest, id, p, m)
      PROVE  m # 0 /\ m + 1 \in Nat /\ InQueue(queues, id, p, m + 1)
    BY <1>1, <1>3 DEF InQueue
<1>4. Single(rest, current, count)
    BY <1>2, <1>3 DEF Single
<1>5. Alone(rest, current, count, p, f)
    <2> SUFFICES ASSUME Leads(p, f)
                 PROVE  /\ count[f.id] = 0
                        /\ \A q \in Ports, m \in Nat : ~ InQueue(rest, f.id, q, m)
                        /\ \A s \in Switches : ~ InHand(current, f.id, s)
        BY DEF Alone
    <2>1. InQueue(queues, f.id, p, 1)
        BY <1>1 DEF InQueue
    <2>2. ASSUME NEW q \in Ports, NEW m \in Nat, InQueue(rest, f.id, q, m)  PROVE FALSE
        <3>1. CASE q = p
            BY <1>1, <1>3, <2>1, <2>2, <3>1 DEF Single
        <3>2. CASE q # p
            BY <1>1, <1>2, <2>1, <2>2, <3>2 DEF Single
        <3> QED
            BY <3>1, <3>2
    <2> QED
        BY <1>1, <2>1, <2>2 DEF Single
<1> QED
    BY <1>4, <1>5 DEF rest, f

LEMMA PutSingle ==
    ASSUME NEW queues, NEW current, DOMAIN current = Switches, NEW count,
           Single(queues, current, count), NEW p, NEW f \in FrameRecs,
           Alone(queues, current, count, p, f),
           NEW s \in Switches, current[s] = NoFrame,
           NEW current2, current2 = [current EXCEPT ![s] = [iface |-> p, frame |-> f]]
    PROVE  Single(queues, current2, count)
<1>1. /\ \A t \in Switches : t # s => current2[t] = current[t]
      /\ current2[s].iface = p /\ current2[s].frame = f
    OBVIOUS
<1>2. ASSUME NEW id \in Frames, NEW t \in Switches, InHand(current2, id, t)
      PROVE  \/ t # s /\ InHand(current, id, t)
             \/ t = s /\ id = f.id /\ Leads(p, f)
    BY <1>1, <1>2 DEF InHand
<1>3. ASSUME NEW id \in Frames
      PROVE  /\ \A t, u \in Switches :
                    InHand(current2, id, t) /\ InHand(current2, id, u) => t = u
             /\ \A q \in Ports, m \in Nat, t \in Switches :
                    ~ (InQueue(queues, id, q, m) /\ InHand(current2, id, t))
             /\ \A t \in Switches : InHand(current2, id, t) => count[id] = 0
    <2>1. CASE id = f.id /\ Leads(p, f)
        <3>1. /\ count[id] = 0
              /\ \A q \in Ports, m \in Nat : ~ InQueue(queues, id, q, m)
              /\ \A t \in Switches : ~ InHand(current, id, t)
            BY <2>1 DEF Alone
        <3> QED
            BY <1>2, <3>1
    <2>2. CASE ~ (id = f.id /\ Leads(p, f))
        <3>1. \A t \in Switches : InHand(current2, id, t) => InHand(current, id, t)
            BY <1>2, <2>2
        <3> QED
            BY <3>1 DEF Single
    <2> QED
        BY <2>1, <2>2
<1> QED
    BY <1>3 DEF Single

LEMMA DropSingle ==
    ASSUME NEW queues, NEW current, DOMAIN current = Switches, NEW count,
           Single(queues, current, count),
           NEW s \in Switches, current[s] # NoFrame, current[s].frame \in FrameRecs,
           NEW current2, current2 = [current EXCEPT ![s] = NoFrame]
    PROVE  /\ Single(queues, current2, count)
           /\ Alone(queues, current2, count, current[s].iface, current[s].frame)
<1> DEFINE f == current[s].frame
<1>1. f.id \in Frames
    BY DEF FrameRecs
<1>2. /\ \A t \in Switches : t # s => current2[t] = current[t]
      /\ current2[s] = NoFrame
    OBVIOUS
<1>3. ASSUME NEW id \in Frames, NEW t \in Switches, InHand(current2, id, t)
      PROVE  t # s /\ InHand(current, id, t)
    BY <1>2, <1>3 DEF InHand
<1>4. Leads(current[s].iface, f) => InHand(current, f.id, s)
    BY DEF InHand
<1>5. Single(queues, current2, count)
    BY <1>3 DEF Single
<1>6. Alone(queues, current2, count, current[s].iface, f)
    BY <1>1, <1>3, <1>4 DEF Single, Alone
<1> QED
    BY <1>5, <1>6

(* Of the ports by which a frame goes on, one at most leads to its destination. *)
LEMMA EmitSingle ==
    ASSUME LoopFree, NEW queues \in [Ports -> Seq(FrameRecs)], NEW current,
           got \in [Frames -> -1 .. 2], Single(queues, current, got),
           \A id \in Frames : got[id] <= 1,
           NEW i \in Ports \ Blocked, i[1] \in Nodes, NEW f \in FrameRecs,
           Alone(queues, current, got, i, f),
           NEW out, out \subseteq PortsOf(i[1]) \ ({i} \cup Blocked), Emit(f, queues, out)
    PROVE  Single(inq', current, got') /\ \A id \in Frames : got'[id] <= 1
<1> DEFINE far == {Wire[p] : p \in out}
           leads(o) == o \in out /\ f.dst \in Behind[o]
<1>1. /\ inq' = [p \in Ports |-> IF p \in far /\ p[1] \in Nodes
                                 THEN Append(queues[p], f) ELSE queues[p]]
      /\ got' = [got EXCEPT ![f.id] = IF \E p \in far : p[1] = f.dst /\ @ < 2
                                      THEN @ + 1 ELSE @]
    BY DEF Emit
<1>2. f.id \in Frames /\ f.dst \in Hosts
    BY DEF FrameRecs
<1>3. \A o \in out : o \in Ports /\ Wire[o] \in Ports /\ Wire[Wire[o]] = o /\ o \notin Blocked
    BY PortIs DEF PortsOf
<1>4. \A o : leads(o) => Leads(i, f)
    BY DEF Leads
<1>5. \A o, r : leads(o) /\ leads(r) => o = r
    BY <1>2 DEF LoopFree, PortsOf
<1>6. ASSUME NEW o \in out, Leads(Wire[o], f)  PROVE leads(o)
    <2>1. PICK p \in PortsOf(Wire[o][1]) \ ({Wire[o]} \cup Blocked) : f.dst \in Behind[p]
        BY <1>6 DEF Leads
    <2>2. Wire[o] \in Ports \ Blocked /\ p \in Ports \ Blocked /\ p[1] = Wire[o][1] /\ p # Wire[o]
        BY <1>3, <1>6, <2>1 DEF Leads, PortsOf
    <2>3. Behind[p] \subseteq Behind[Wire[Wire[o]]]
        BY <2>2, BehindGrows
    <2> QED
        BY <1>3, <2>1, <2>3
<1>7. ASSUME NEW id \in Frames, NEW q \in Ports, NEW m \in Nat, InQueue(inq', id, q, m)
      PROVE  \/ InQueue(queues, id, q, m)
             \/ /\ id = f.id /\ m = Len(queues[q]) + 1 /\ q[1] \in Nodes
                /\ leads(Wire[q])
    <2>1. queues[q] \in Seq(FrameRecs)
        OBVIOUS
    <2>2. CASE q \in far /\ q[1] \in Nodes
        <3>1. PICK o \in out : q = Wire[o]
            BY <2>2
        <3>2. inq'[q] = Append(queues[q], f)
            BY <1>1, <2>2
        <3>3. \/ m \in DOMAIN queues[q] /\ inq'[q][m] = queues[q][m]
              \/ m = Len(queues[q]) + 1 /\ inq'[q][m] = f
            BY <1>7, <2>1, <3>2, AppendIs DEF InQueue
        <3>4. CASE m \in DOMAIN queues[q] /\ inq'[q][m] = queues[q][m]
            BY <1>7, <3>4 DEF InQueue
        <3>5. CASE m = Len(queues[q]) + 1 /\ inq'[q][m] = f
            <4>1. id = f.id /\ Leads(q, f)
                BY <1>7, <3>5 DEF InQueue
            <4>2. leads(o) /\ Wire[q] = o
                BY <1>3, <1>6, <3>1, <4>1
            <4> QED
                BY <2>2, <3>5, <4>1, <4>2
        <3> QED
            BY <3>3, <3>4, <3>5
    <2>3. CASE ~ (q \in far /\ q[1] \in Nodes)
        <3>1. inq'[q] = queues[q]
            BY <1>1, <2>3
        <3> QED
            BY <1>7, <3>1 DEF InQueue
    <2> QED
        BY <2>2, <2>3
<1>8. /\ \A id \in Frames : id # f.id => got'[id] = got[id]
      /\ got'[f.id] # got[f.id] =>
             /\ got'[f.id] = got[f.id] + 1
             /\ \E o : leads(o) /\ Wire[o][1] = f.dst
    <2>1. \A id \in Frames : id # f.id => got'[id] = got[id]
        BY <1>1, <1>2
    <2>2. got'[f.id] = IF \E p \in far : p[1] = f.dst /\ got[f.id] < 2
                       THEN got[f.id] + 1 ELSE got[f.id]
        BY <1>1, <1>2
    <2>3. ASSUME NEW p \in far, p[1] = f.dst  PROVE \E o : leads(o) /\ Wire[o][1] = f.dst
        <3>1. PICK o \in out : p = Wire[o]
            OBVIOUS
        <3> QED
            BY <1>3, <2>3, <3>1, EndBehind
    <2> HIDE DEF far, leads
    <2> QED
        BY <2>1, <2>2, <2>3
<1>9. ASSUME NEW o, leads(o), Wire[o][1] = f.dst, NEW q \in Ports, q[1] \in Nodes, leads(Wire[q])
      PROVE  FALSE
    <2>1. Wire[q] = o /\ Wire[o] = q
        BY <1>5, <1>9, PortIs
    <2> QED
        BY <1>2, <1>9, <2>1, LanAssumption
<1> HIDE DEF leads, far
<1>10. ASSUME NEW id \in Frames, NEW p \in Ports, NEW q \in Ports, NEW m \in Nat, NEW n \in Nat,
              InQueue(inq', id, p, m), InQueue(inq', id, q, n)
       PROVE  p = q /\ m = n
    <2>1. CASE InQueue(queues, id, p, m) /\ InQueue(queues, id, q, n)
        BY <2>1 DEF Single
    <2>2. CASE ~ InQueue(queues, id, p, m) /\ ~ InQueue(queues, id, q, n)
        <3>1. leads(Wire[p]) /\ leads(Wire[q]) /\ m = Len(queues[p]) + 1 /\ n = Len(queues[q]) + 1
            BY <1>7, <1>10, <2>2
        <3>2. Wire[p] = Wire[q]
            BY <1>5, <3>1
        <3> QED
            BY <3>1, <3>2, PortIs
    <2>3. CASE ~ (InQueue(queues, id, p, m) <=> InQueue(queues, id, q, n))
        <3>1. id = f.id /\ \E o : leads(o)
            BY <1>7, <1>10, <2>3
        <3> QED
            BY <1>4, <2>3, <3>1 DEF Alone
    <2> QED
        BY <2>1, <2>2, <2>3
<1>11. ASSUME NEW id \in Frames, NEW p \in Ports, NEW m \in Nat, InQueue(inq', id, p, m)
       PROVE  got'[id] = 0 /\ \A s \in Switches : ~ InHand(current, id, s)
    <2>1. CASE InQueue(queues, id, p, m)
        <3>1. got[id] = 0 /\ \A s \in Switches : ~ InHand(current, id, s)
            BY <2>1 DEF Single
        <3>2. id = f.id => ~ \E o : leads(o)
            BY <1>4, <2>1 DEF Alone
        <3> QED
            BY <1>8, <3>1, <3>2
    <2>2. CASE ~ InQueue(queues, id, p, m)
        <3>1. id = f.id /\ p[1] \in Nodes /\ leads(Wire[p])
            BY <1>7, <1>11, <2>2
        <3>2. got[id] = 0 /\ \A s \in Switches : ~ InHand(current, id, s)
            BY <1>4, <3>1 DEF Alone
        <3> QED
            BY <1>8, <1>9, <3>1, <3>2
    <2> QED
        BY <2>1, <2>2
<1>12. ASSUME NEW id \in Frames, NEW s \in Switches, InHand(current, id, s)
       PROVE  got'[id] = 0
    <2>1. got[id] = 0
        BY <1>12 DEF Single
    <2>2. id = f.id => ~ \E o : leads(o)
        BY <1>4, <1>12 DEF Alone
    <2> QED
        BY <1>8, <2>1, <2>2
<1>13. Single(inq', current, got')
    <2>1. \A id \in Frames : \A s, t \in Switches :
              InHand(current, id, s) /\ InHand(current, id, t) => s = t
        BY DEF Single
    <2> QED
        BY <1>10, <1>11, <1>12, <2>1 DEF Single
<1>14. ASSUME NEW id \in Frames  PROVE got'[id] <= 1
    <2>1. CASE got'[id] = got[id]
        BY <2>1
    <2>2. CASE got'[id] # got[id]
        <3>1. id = f.id /\ got'[id] = got[id] + 1 /\ \E o : leads(o)
            BY <1>8, <2>2
        <3>2. got[id] = 0
            BY <1>4, <3>1 DEF Alone
        <3> QED
            BY <3>1, <3>2
    <2> QED
        BY <2>1, <2>2
<1> QED
    BY <1>13, <1>14

-----------------------------------------------------------------------------
(* The steps *)

LEMMA SendsOnce ==
    ASSUME LanInv, Once, NEW id \in Frames, NEW w \in Flows, NEW type \in Types,
           HostSends(id, w[1], w[2], type)
    PROVE  Once'
<1> DEFINE f == [id |-> id, src |-> w[1], dst |-> w[2], type |-> type]
<1>1. /\ got[id] = NotSent /\ got' = [got EXCEPT ![id] = 0] /\ UNCHANGED cur
    BY DEF HostSends
<1>2. PICK p \in PortsOf(w[1]) : inq' = [inq EXCEPT ![Wire[p]] = Append(@, f)]
    BY DEF HostSends
<1>3. /\ inq \in [Ports -> Seq(FrameRecs)] /\ got \in [Frames -> -1 .. 2]
      /\ Wire[p] \in Ports /\ f.id = id
    BY <1>2, PortIs DEF PortsOf, LanInv, LanType
<1>4. w[1] \in Hosts /\ w[2] \in Hosts
    BY LanAssumption
<1>5. f \in FrameRecs
    BY <1>4 DEF FrameRecs
<1> HIDE DEF f
<1>6. \A j \in Frames : got'[j] = IF j = id THEN 0 ELSE got[j]
    BY <1>1, <1>3
<1>7. ASSUME NEW j \in Frames, NEW q \in Ports, NEW m \in Nat, InQueue(inq', j, q, m)
      PROVE  InQueue(inq, j, q, m) \/ (j = id /\ q = Wire[p] /\ m = Len(inq[q]) + 1)
    <2>1. inq[q] \in Seq(FrameRecs)
        BY <1>3
    <2>2. inq'[q] = IF q = Wire[p] THEN Append(inq[q], f) ELSE inq[q]
        BY <1>2, <1>3
    <2>3. CASE q = Wire[p]
        <3>1. \/ m \in DOMAIN inq[q] /\ inq'[q][m] = inq[q][m]
              \/ m = Len(inq[q]) + 1 /\ inq'[q][m] = f
            BY <1>5, <1>7, <2>1, <2>2, <2>3, AppendIs DEF InQueue
        <3> QED
            BY <1>3, <1>7, <2>3, <3>1 DEF InQueue
    <2>4. CASE q # Wire[p]
        BY <1>7, <2>2, <2>4 DEF InQueue
    <2> QED
        BY <2>3, <2>4
<1>8. /\ \A q \in Ports, m \in Nat : ~ InQueue(inq, id, q, m)
      /\ \A s \in Switches : ~ InHand(cur, id, s)
    BY <1>1 DEF Once, Single, NotSent
<1>9. Single(inq', cur, got')
    BY <1>6, <1>7, <1>8 DEF Once, Single
<1> QED
    BY <1>1, <1>6, <1>9 DEF Once

LEMMA HubOnce ==
    ASSUME LoopFree, LanInv, Once, NEW p \in Ports, HubHandles(p)
    PROVE  Once'
<1> DEFINE f == Head(inq[p])
           queues == [inq EXCEPT ![p] = Tail(@)]
           out == PortsOf(p[1]) \ {p}
<1>1. p[1] \in Hubs /\ inq[p] # <<>> /\ Emit(f, queues, out) /\ UNCHANGED cur
    BY DEF HubHandles
<1>2. f \in FrameRecs /\ queues \in [Ports -> Seq(FrameRecs)]
    BY <1>1, TakenIs
<1>3. /\ p \in Ports \ Blocked /\ p[1] \in Nodes
      /\ out \subseteq PortsOf(p[1]) \ ({p} \cup Blocked)
    BY <1>1, LanAssumption DEF PortsOf, Nodes
<1>4. /\ inq \in [Ports -> Seq(FrameRecs)] /\ got \in [Frames -> -1 .. 2]
      /\ Single(inq, cur, got) /\ \A id \in Frames : got[id] <= 1
    BY DEF LanInv, LanType, Once
<1>5. Single(queues, cur, got) /\ Alone(queues, cur, got, p, f)
    BY <1>1, <1>4, TakeSingle
<1> HIDE DEF f, queues, out
<1>6. Single(inq', cur, got') /\ \A id \in Frames : got'[id] <= 1
    BY <1>1, <1>2, <1>3, <1>4, <1>5, EmitSingle
<1> QED
    BY <1>1, <1>6 DEF Once

LEMMA LearnOnce ==
    ASSUME LanInv, Once, NEW p \in Ports, Learn(p)
    PROVE  Once'
<1> DEFINE f == Head(inq[p])
<1>1. /\ p[1] \in Switches /\ inq[p] # <<>> /\ cur[p[1]] = NoFrame
      /\ inq' = [inq EXCEPT ![p] = Tail(@)] /\ UNCHANGED got
      /\ UNCHANGED cur \/ cur' = [cur EXCEPT ![p[1]] = [iface |-> p, frame |-> f]]
    BY DEF Learn
<1>2. /\ inq \in [Ports -> Seq(FrameRecs)] /\ Single(inq, cur, got)
      /\ f \in FrameRecs /\ DOMAIN cur = Switches
    BY <1>1, TakenIs DEF LanInv, LanType, Once
<1>3. Single(inq', cur, got) /\ Alone(inq', cur, got, p, f)
    BY <1>1, <1>2, TakeSingle
<1> HIDE DEF f
<1>4. Single(inq', cur', got)
    <2>1. CASE UNCHANGED cur
        BY <1>3, <2>1
    <2>2. CASE cur' = [cur EXCEPT ![p[1]] = [iface |-> p, frame |-> f]]
        BY <1>1, <1>2, <1>3, <2>2, PutSingle
    <2> QED
        BY <1>1, <2>1, <2>2
<1> QED
    BY <1>1, <1>4 DEF Once

LEMMA ForwardOnce ==
    ASSUME LoopFree, LanInv, Once, NEW s \in Switches, Forward(s), ~ echoed'
    PROVE  Once'
<1> DEFINE f == cur[s].frame
           i == cur[s].iface
<1>1. cur[s] # NoFrame /\ cur' = [cur EXCEPT ![s] = NoFrame]
    BY DEF Forward
<1>2. f \in FrameRecs /\ i \in PortsOf(s) \ Blocked
    BY <1>1 DEF LanInv, LanType, Currents
<1>3. PICK out \in SUBSET (PortsOf(s) \ Blocked) : Emit(f, inq, out) /\ i \notin out
    BY OutIs
<1>4. /\ inq \in [Ports -> Seq(FrameRecs)] /\ got \in [Frames -> -1 .. 2]
      /\ Single(inq, cur, got) /\ (\A id \in Frames : got[id] <= 1)
      /\ DOMAIN cur = Switches
    BY DEF LanInv, LanType, Once
<1>5. Single(inq, cur', got) /\ Alone(inq, cur', got, i, f)
    BY <1>1, <1>2, <1>4, DropSingle
<1>6. /\ i \in Ports \ Blocked /\ i[1] \in Nodes
      /\ out \subseteq PortsOf(i[1]) \ ({i} \cup Blocked)
    BY <1>2, <1>3 DEF PortsOf, Nodes
<1> HIDE DEF f, i
<1>7. Single(inq', cur', got') /\ \A id \in Frames : got'[id] <= 1
    BY <1>2, <1>3, <1>4, <1>5, <1>6, EmitSingle
<1> QED
    BY <1>7 DEF Once

LEMMA InitOnce == Init => Once
<1> SUFFICES ASSUME Init  PROVE Once
    OBVIOUS
<1>1. \A id \in Frames, p \in Ports, m \in Nat : ~ InQueue(inq, id, p, m)
    BY DEF Init, InQueue
<1>2. \A id \in Frames, s \in Switches : ~ InHand(cur, id, s)
    BY DEF Init, InHand
<1> QED
    BY <1>1, <1>2 DEF Init, Once, Single, NotSent

LEMMA NextOnce ==
    LoopFree /\ LanInv /\ (~ echoed => Once) /\ [Next]_vars => (~ echoed' => Once')
<1> SUFFICES ASSUME LoopFree, LanInv, ~ echoed => Once, [Next]_vars, ~ echoed'
             PROVE  Once'
    OBVIOUS
<1>1. CASE \E id \in Frames, w \in Flows, type \in Types : HostSends(id, w[1], w[2], type)
    <2>1. ~ echoed
        BY <1>1 DEF HostSends
    <2> QED
        BY <1>1, <2>1, SendsOnce
<1>2. CASE \E p \in Ports : HubHandles(p) \/ Learn(p)
    <2>1. ~ echoed
        BY <1>2 DEF HubHandles, Learn
    <2> QED
        BY <1>2, <2>1, HubOnce, LearnOnce
<1>3. CASE \E s \in Switches : Forward(s)
    <2>1. ~ echoed
        BY <1>3 DEF Forward
    <2> QED
        BY <1>3, <2>1, ForwardOnce
<1>4. CASE (\E s \in Switches : sweep_aged_mac_port_entry(s)) \/ Tick \/ UNCHANGED vars
    <2>1. UNCHANGED <<cur, inq, got, echoed>>
        BY <1>4 DEF sweep_aged_mac_port_entry, Tick, vars
    <2> QED
        BY <2>1 DEF Once
<1> QED
    BY <1>1, <1>2, <1>3, <1>4 DEF Next

(* Where the ports that are not blocked make no loop, a frame comes to its destination
   once, as long as none has been sent back, whether the switches flood it or know the
   way, and whatever they learn and forget meanwhile (main.c and broadcast.c). *)
THEOREM ComesOnce == LoopFree /\ Spec => []OnceEach
<1> SUFFICES ASSUME LoopFree  PROVE Spec => []OnceEach
    OBVIOUS
<1>1. Init => LanInv /\ (~ echoed => Once)
    BY InitInv, InitOnce
<1>2. LanInv /\ (~ echoed => Once) /\ [Next]_vars => LanInv' /\ (~ echoed => Once)'
    BY NextInv, NextOnce
<1>3. (~ echoed => Once) => OnceEach
    BY DEF Once, OnceEach
<1> QED
    BY <1>1, <1>2, <1>3, PTL DEF Spec
=============================================================================
