---------------------------------- MODULE Stp ----------------------------------
(***************************************************************************)
(* The spanning tree program of lab-06 (prj-06/stp.c): every switch keeps  *)
(* for each of its ports the best configuration it has seen there, picks   *)
(* its root port among them, and tells the others on the ports for which   *)
(* it is the designated switch.  A switch's lock makes each handler and    *)
(* each run of its hello timer one step; switches interleave, and the      *)
(* configurations in flight on a wire stay in order.                       *)
(*                                                                         *)
(* Configurations are never aged and ports go from blocked to forwarding   *)
(* at once: the program has neither timer.                                 *)
(***************************************************************************)
EXTENDS Integers, Sequences, FiniteSets

CONSTANTS Switch,           \* switch ids, ordered as numbers
          Port,             \* ports: <<switch, port id>>
          Wire              \* Wire[p] is the port at the other end of p's wire

ASSUME StpAssumption ==
  /\ Switch \subseteq Nat /\ IsFiniteSet(Switch) /\ Port \subseteq Switch \X (Nat \ {0})
  /\ Wire \in [Port -> Port]
  /\ \A p \in Port : Wire[Wire[p]] = p /\ Wire[p][1] # p[1]

VARIABLES
  designated,               \* the configuration each port keeps
  designated_root, root_path_cost, root_port,
  active,                   \* the switches whose hello timer runs
  wire                      \* configurations on their way to a port

stpVars == <<designated, designated_root, root_path_cost, root_port>>
vars == <<stpVars, active, wire>>

PortsOf(s) == {p \in Port : p[1] = s}
NoPort == <<>>

Config(root, cost, switch, port) ==
  [root |-> root, cost |-> cost, switch |-> switch, port |-> port]

Init ==
  /\ designated = [p \in Port |-> Config(p[1], 0, p[1], p[2])]
  /\ designated_root = [s \in Switch |-> s]
  /\ root_path_cost = [s \in Switch |-> 0]
  /\ root_port = [s \in Switch |-> NoPort]
  /\ active = Switch
  /\ wire = [p \in Port |-> <<>>]

-----------------------------------------------------------------------------
\* port_cmp: d is at least as good as c, where the smaller is the better.
port_cmp(c, d) ==
  IF c.root # d.root THEN c.root > d.root
  ELSE IF c.cost # d.cost THEN c.cost > d.cost
  ELSE IF c.switch # d.switch THEN c.switch > d.switch
  ELSE c.port >= d.port

IsRoot(s, root) == root[s] = s
IsDesignated(p, des) == des[p].switch = p[1] /\ des[p].port = p[2]

\* The best of the ports ps, each better than all others.
Best(ps, des) == CHOOSE p \in ps : \A q \in ps : port_cmp(des[q], des[p])

\* What s sends on the ports ps, its own values being those of root, cost and rp.
\* A bound: a configuration like the last one on the same wire is not kept twice.
Send(w, s, ps, root, cost, rp) ==
  [q \in Port |->
     IF Wire[q] \in ps /\ (IsRoot(s, root) \/ rp[s] # NoPort)
     THEN LET c == Config(root[s], cost[s], s, Wire[q][2])
          IN  IF w[q] # <<>> /\ w[q][Len(w[q])] = c THEN w[q] ELSE Append(w[q], c)
     ELSE w[q]]

\* The packet that waits at p is received.
Received(p) == [wire EXCEPT ![p] = Tail(@)]

\* What p keeps is as good as what it receives: it says so, whatever its role.
Answer(p) ==
  /\ wire[p] # <<>> /\ port_cmp(Head(wire[p]), designated[p])
  /\ wire' = Send(Received(p), p[1], {p}, designated_root, root_path_cost, root_port)
  /\ UNCHANGED <<stpVars, active>>

\* Mutant: the cost of the root port is added twice.
PathCostTwice(p, des) == des[p].cost + 2

\* The cost of the root through the port p.
PathCost(p, des) == des[p].cost + 1

\* port_config_wrt
WriteConfig(p, c) == [designated EXCEPT ![p] = c]

\* Mutant: the timer of a switch that is not root goes on.
StopHelloNever(s) == active

\* The hello timer of a root that is root no more.
StopHello(s) == IF IsRoot(s, designated_root) /\ designated_root'[s] # s
                THEN active \ {s} ELSE active

\* What is received is better: it replaces what the port keeps, a new root port
\* is chosen among the ports that are not designated, the designated ports get
\* the switch's new values, and send them.
Update(p) ==
  LET s     == p[1]
      des1  == WriteConfig(p, Head(wire[p]))
      rest  == {q \in PortsOf(s) : ~IsDesignated(q, des1)}
      rp    == IF rest = {} THEN NoPort ELSE Best(rest, des1)
      prior == Best(PortsOf(s), des1)
      \* the best of all ports, if not designated, would be the root port
      des2  == IF ~IsDesignated(prior, des1) /\ prior # rp
               THEN [des1 EXCEPT ![prior].switch = s, ![prior].port = prior[2]]
               ELSE des1
      own   == {q \in PortsOf(s) : IsDesignated(q, des2)}
  IN  /\ wire[p] # <<>> /\ ~port_cmp(Head(wire[p]), designated[p])
      /\ root_port' = [root_port EXCEPT ![s] = rp]
      /\ designated_root' =
           [designated_root EXCEPT ![s] = IF rp = NoPort THEN s ELSE des1[rp].root]
      /\ root_path_cost' =
           [root_path_cost EXCEPT ![s] = IF rp = NoPort THEN 0 ELSE PathCost(rp, des1)]
      /\ designated' = [q \in Port |->
           IF q \in own THEN [des2[q] EXCEPT !.root = designated_root'[s],
                                             !.cost = root_path_cost'[s]]
           ELSE des2[q]]
      /\ active' = StopHello(s)
      /\ wire' = Send(Received(p), s, own, designated_root', root_path_cost', root_port')

\* stp_handle_hello_timeout; the timer is started again.
Hello(s) ==
  /\ s \in active
  /\ wire' = Send(wire, s, {q \in PortsOf(s) : IsDesignated(q, designated)},
                  designated_root, root_path_cost, root_port)
  /\ UNCHANGED <<stpVars, active>>

Handle(p) == Answer(p) \/ Update(p)

Next == \/ \E p \in Port : Handle(p)
        \/ \E s \in Switch : Hello(s)

Spec == Init /\ [][Next]_vars

\* A packet on a wire is received in the end, and a running timer expires.
Fairness == /\ \A p \in Port : WF_vars(Handle(p))
            /\ \A s \in Switch : WF_vars(Hello(s))

FairSpec == Spec /\ Fairness

-----------------------------------------------------------------------------
(* Roles and distances *)

\* Mutant: frames are received and sent on every port.
AlternateNever(p) == FALSE

Alternate(p) == ~IsDesignated(p, designated) /\ root_port[p[1]] # p

\* stp_port_not_alt at both ends: frames pass in both directions.
Forwarding == {p \in Port : ~Alternate(p) /\ ~Alternate(Wire[p])}

\* The switches within n wires of s, over the ports ps.
Within(ps, s, n) ==
  LET near[k \in 0 .. n] ==
        IF k = 0 THEN {s}
        ELSE near[k - 1] \cup {Wire[p][1] : p \in {q \in ps : q[1] \in near[k - 1]}}
  IN  near[n]

Reached(ps, s) == Within(ps, s, Cardinality(Switch))

Lowest == CHOOSE s \in Switch : \A t \in Switch : s <= t

-----------------------------------------------------------------------------
(* Properties *)

ConfigType == [root : Switch, cost : 0 .. Cardinality(Switch), switch : Switch,
               port : {p[2] : p \in Port}]

TypeOK ==
  /\ designated \in [Port -> ConfigType]
  /\ designated_root \in [Switch -> Switch]
  /\ root_path_cost \in [Switch -> 0 .. Cardinality(Switch)]
  /\ root_port \in [Switch -> Port \cup {NoPort}]
  /\ active \subseteq Switch
  /\ wire \in [Port -> Seq(ConfigType)]

\* The hello timer runs on the switches that take themselves for the root, and
\* on no other: a timer stopped too soon is never started again.
HelloIffRoot == \A s \in Switch : s \in active <=> IsRoot(s, designated_root)

\* In the end the forwarding ports connect all switches, without a cycle.
SpanningTree ==
  <>[](/\ Reached(Forwarding, Lowest) = Switch
       /\ Cardinality(Forwarding) = 2 * (Cardinality(Switch) - 1))

=============================================================================
