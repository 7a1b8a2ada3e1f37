------------------------------- MODULE NatTable -------------------------------
(***************************************************************************)
(* Address translation in lab-12 (prj-12/nat.c): the mappings the packets  *)
(* of a flow make and find, the pool of external ports, and the thread     *)
(* that removes the flows that are finished or idle.  nat.lock makes each  *)
(* packet and each sweep one step.                                         *)
(*                                                                         *)
(* Sequence numbers and acknowledgements are not kept: the code compares   *)
(* numbers in host and in network byte order, and one that malloc left     *)
(* undefined (an existing mapping's external_ack is never assigned), so    *)
(* that either answer is possible.  Nor are the checksums, and the         *)
(* refusals sent by ICMP.                                                  *)
(***************************************************************************)
EXTENDS Integers, Sequences, FiniteSets, SequencesExt, Lists

CONSTANTS Internal, Remote,   \* endpoints on either side: address and port
          MinPort, MaxPort,   \* the pool the external ports are taken from
          Rules,              \* dnat rules: external port -> internal endpoint
          Timeout             \* ticks a flow may be idle (60 s)

Pool == MinPort .. MaxPort

ASSUME NatAssumption == /\ MinPort \in Nat /\ MaxPort \in Nat /\ Timeout \in Nat
                        /\ DOMAIN Rules \subseteq Nat \ Pool
                        /\ \A p \in DOMAIN Rules : Rules[p] \in Internal
                        /\ \A p, q \in DOMAIN Rules : Rules[p] = Rules[q] => p = q

\* The endpoints inside that a rule leads to: servers, which open no flow.  A
\* server's SYN|ACK finds the mapping of the SYN it answers: one that came after
\* that mapping's timeout would be taken for the opening of a flow.
Servers == {Rules[p] : p \in DOMAIN Rules}

VARIABLES
  mappings,                   \* those of each remote endpoint, in list order
  assigned_ports              \* the ports marked as assigned

vars == <<mappings, assigned_ports>>

\* What the flags of a packet say.
Kinds == {"SYN", "FIN", "OTHER"}
Fin(kind) == kind = "FIN"

Init == /\ mappings = [r \in Remote |-> <<>>]
        /\ assigned_ports = {}

-----------------------------------------------------------------------------
\* Which of the mappings ms the packet belongs to: the first that fits.
First(ms, fits(_)) ==
  LET found == {k \in DOMAIN ms : fits(ms[k])}
  IN  IF found = {} THEN 0 ELSE Min(found)

\* Mutant: any mapping of the remote endpoint fits.
OutgoingAny(r, i) == LET fits(m) == TRUE IN First(mappings[r], fits)

Outgoing(r, i) == LET fits(m) == m.internal = i IN First(mappings[r], fits)

Incoming(r, p) == LET fits(m) == m.external = p IN First(mappings[r], fits)

\* An existing mapping: its FIN flag is that of the latest packet.
TranslateOut(r, k, kind) ==
  /\ mappings' = [mappings EXCEPT ![r][k].internal_fin = Fin(kind), ![r][k].idle = 0]
  /\ UNCHANGED assigned_ports

TranslateIn(r, k, kind) ==
  /\ mappings' = [mappings EXCEPT ![r][k].external_fin = Fin(kind), ![r][k].idle = 0]
  /\ UNCHANGED assigned_ports

Mapping(i, p, ifin, efin) ==
  [internal |-> i, external |-> p, internal_fin |-> ifin, external_fin |-> efin, idle |-> 0]

\* Mutant: the port after the last is tried as well.
FreePortsPast == (MinPort .. MaxPort + 1) \ assigned_ports

FreePorts == Pool \ assigned_ports

\* A new flow from inside gets the lowest free port, if there is one.  What is
\* not assigned has the value malloc left there.
NewOut(r, i) ==
  /\ FreePorts # {}
  /\ LET p == Min(FreePorts)
     IN  /\ assigned_ports' = assigned_ports \cup {p}
         /\ \E efin \in BOOLEAN :
              mappings' = [mappings EXCEPT ![r] = Append(@, Mapping(i, p, FALSE, efin))]

\* One from outside needs a rule; its port is not marked.
NewIn(r, p) ==
  /\ p \in DOMAIN Rules
  /\ \E ifin \in BOOLEAN :
       mappings' = [mappings EXCEPT ![r] = Append(@, Mapping(Rules[p], p, ifin, FALSE))]
  /\ UNCHANGED assigned_ports

\* do_translation of a packet from i to r.
PacketOut(i, r, kind) ==
  LET k == Outgoing(r, i)
  IN  \/ k # 0 /\ TranslateOut(r, k, kind)
      \/ k = 0 /\ kind = "SYN" /\ NewOut(r, i)

\* do_translation of a packet from r to the external port p.
PacketIn(r, p, kind) ==
  LET k == Incoming(r, p)
  IN  \/ k # 0 /\ TranslateIn(r, k, kind)
      \/ k = 0 /\ kind = "SYN" /\ NewIn(r, p)

-----------------------------------------------------------------------------
\* Mutant: flows do not time out.
ExpiredNever(m) == FALSE

Expired(m) == m.idle > Timeout

\* Both FIN flags are set, which is all of is_flow_finished that is kept.
BothFins(m) == m.internal_fin /\ m.external_fin

\* Mutant: the ports stay assigned.
FreedNone(gone) == {}

\* The ports of the mappings that are removed.
Freed(gone) == {m.external : m \in gone}

\* One sweep of nat_timeout; a flow with both flags set may be finished or not.
\* (Flows that differ in the remote endpoint alone finish together.)
Sweep ==
  \E finished \in SUBSET UNION {{m \in ToSet(mappings[r]) : BothFins(m)} : r \in Remote} :
    LET goes(m) == Expired(m) \/ m \in finished
        kept(r) == {k \in DOMAIN mappings[r] : ~goes(mappings[r][k])}
        gone == UNION {{m \in ToSet(mappings[r]) : goes(m)} : r \in Remote}
    IN  /\ mappings' = [r \in Remote |-> Sublist(mappings[r], kept(r))]
        /\ assigned_ports' = assigned_ports \ Freed(gone)

\* A second passes.  A bound: what is idle for longer than Timeout counts no more.
Tick ==
  /\ mappings' = [r \in Remote |->
       [k \in DOMAIN mappings[r] |->
          [mappings[r][k] EXCEPT !.idle = IF @ > Timeout THEN @ ELSE @ + 1]]]
  /\ UNCHANGED assigned_ports

\* What the hosts on both sides send.
Sent(i, kind) == kind = "SYN" => i \notin Servers

Next == \/ \E i \in Internal, r \in Remote, kind \in Kinds : Sent(i, kind) /\ PacketOut(i, r, kind)
        \/ \E r \in Remote, p \in Pool \cup DOMAIN Rules, kind \in Kinds : PacketIn(r, p, kind)
        \/ Sweep \/ Tick

Spec == Init /\ [][Next]_vars

\* Time passes and the sweeping thread runs again and again; packets may stop.
FairSpec == Spec /\ WF_vars(Tick) /\ WF_vars(Sweep)

-----------------------------------------------------------------------------
(* Properties *)

MappingType ==
  [internal : Internal, external : Pool \cup DOMAIN Rules,
   internal_fin : BOOLEAN, external_fin : BOOLEAN, idle : 0 .. Timeout + 1]

TypeOK == /\ mappings \in [Remote -> Seq(MappingType)]
          /\ assigned_ports \subseteq Pool

\* The packets of a flow find its own mapping in both directions: a reply goes
\* to the host that asked, and an answer leaves through the port that was asked.
RoundTrip ==
  \A r \in Remote : \A k \in DOMAIN mappings[r] :
    LET m == mappings[r][k]
    IN  Outgoing(r, m.internal) = k /\ Incoming(r, m.external) = k

\* A port of the pool is marked as assigned while exactly one mapping uses it:
\* none is lost and none is given to two flows.
PoolExact ==
  \A p \in Pool :
    LET users == UNION {{<<r, k>> : k \in {k \in DOMAIN mappings[r] :
                                              mappings[r][k].external = p}} : r \in Remote}
    IN  Cardinality(users) = (IF p \in assigned_ports THEN 1 ELSE 0)

\* A port is given back in the end, unless its flow goes on using it.
InUse(p) == \E r \in Remote : \E k \in DOMAIN mappings[r] :
              mappings[r][k].external = p /\ mappings[r][k].idle = 0
PortsReturn == \A p \in Pool : []<>(p \notin assigned_ports \/ InUse(p))
=============================================================================
