----------------------------- MODULE Stp_proofs -----------------------------
(***************************************************************************)
(* For every set of switches and every wiring of their ports: exactly the  *)
(* switches that take themselves for the root run their hello timer.       *)
(*                                                                         *)
(* A switch that is told of a better root must not take itself for the     *)
(* root again, since its timer is gone.  It does not because each of its   *)
(* ports either keeps the switch's own first configuration, or knows of a  *)
(* lower root (NoneOwn); and a port that has received something is not a   *)
(* designated port, so that there is a root port to take the root from.    *)
(*                                                                         *)
(* And no path costs more than there are switches: for a cost of k, more   *)
(* than k switches have that root for k at most, or a lower one (CostInv), *)
(* since no switch ever exchanges what it has for something worse.         *)
(***************************************************************************)
EXTENDS Stp, TLAPS, NaturalsInduction, WellFoundedInduction, FiniteSetTheorems

Configs == [root : Switch, cost : Nat, switch : Switch, port : Nat \ {0}]

\* What may be on its way to the port p: only the root sends a cost of 0.
Sendable(p) ==
  {c \in Configs : c.switch = Wire[p][1] /\ (c.cost = 0 => c.root = c.switch)}

Wires == {w \in [Port -> Seq(Configs)] : \A p \in Port : w[p] \in Seq(Sendable(p))}

StpType ==
  /\ designated \in [Port -> Configs]
  /\ designated_root \in [Switch -> Switch]
  /\ root_path_cost \in [Switch -> Nat]
  /\ active \subseteq Switch
  /\ wire \in Wires

\* What p keeps is of a lower root than its own switch, or as it was at first.
Lower(p, des) == \/ des[p].root < p[1]
                 \/ des[p].root = p[1] /\ des[p].cost = 0 /\ IsDesignated(p, des)

NoneOwn == \A p \in Port : Lower(p, designated)

CostOfRoot == \A s \in Switch : root_path_cost[s] = 0 => designated_root[s] = s

StpInv == StpType /\ NoneOwn /\ CostOfRoot /\ HelloIffRoot

-----------------------------------------------------------------------------
LEMMA LeastExists ==
  ASSUME NEW S \in SUBSET Nat, S # {}
  PROVE  \E x \in S : \A y \in S : x <= y
<1>1. PICK x \in S : \A y \in S : <<y, x>> \notin OpToRel(<, Nat)
  BY NatLessThanWellFounded, WFMin
<1>2. ASSUME NEW y \in S  PROVE x <= y
  <2>1. CASE y < x
    <3>1. <<y, x>> \in Nat \X Nat /\ <<y, x>>[1] < <<y, x>>[2]
      BY <2>1
    <3>2. <<y, x>> \in OpToRel(<, Nat)
      BY <3>1 DEF OpToRel
    <3> QED
      BY <1>1, <3>2
  <2> QED
    BY <2>1
<1> QED
  BY <1>2

\* Of some ports, one has the least value.
LEMMA LeastOf ==
  ASSUME NEW ps, ps # {}, NEW f, \A q \in ps : f[q] \in Nat
  PROVE  \E p \in ps : \A q \in ps : f[p] <= f[q]
<1> DEFINE S == {f[q] : q \in ps}
<1>1. S \in SUBSET Nat /\ S # {}
  OBVIOUS
<1>2. PICK x \in S : \A y \in S : x <= y
  <2> HIDE DEF S
  <2> QED
    BY <1>1, LeastExists
<1>3. PICK p \in ps : f[p] = x
  BY <1>2
<1> QED
  BY <1>2, <1>3

\* Among any ports there is a best one: they are compared by four numbers in turn.
LEMMA BestIs ==
  ASSUME NEW des \in [Port -> Configs], NEW ps \in SUBSET Port, ps # {}
  PROVE  /\ Best(ps, des) \in ps
         /\ \A q \in ps : port_cmp(des[q], des[Best(ps, des)])
<1> DEFINE roots    == [q \in ps |-> des[q].root]
           costs    == [q \in ps |-> des[q].cost]
           switches == [q \in ps |-> des[q].switch]
           ports    == [q \in ps |-> des[q].port]
<1>0. \A q \in ps : /\ roots[q] \in Nat /\ costs[q] \in Nat
                    /\ switches[q] \in Nat /\ ports[q] \in Nat
  BY StpAssumption DEF Configs
<1> HIDE DEF roots, costs, switches, ports
<1>1. PICK r \in ps : \A q \in ps : roots[r] <= roots[q]
  BY <1>0, LeastOf
<1> DEFINE P1 == {q \in ps : roots[q] = roots[r]}
<1>2. PICK c \in P1 : \A q \in P1 : costs[c] <= costs[q]
  <2>1. P1 # {} /\ \A q \in P1 : costs[q] \in Nat
    BY <1>0, <1>1
  <2> HIDE DEF P1
  <2> QED
    BY <2>1, LeastOf
<1> DEFINE P2 == {q \in P1 : costs[q] = costs[c]}
<1>3. PICK s \in P2 : \A q \in P2 : switches[s] <= switches[q]
  <2>1. P2 # {} /\ \A q \in P2 : switches[q] \in Nat
    BY <1>0, <1>2
  <2> HIDE DEF P2
  <2> QED
    BY <2>1, LeastOf
<1> DEFINE P3 == {q \in P2 : switches[q] = switches[s]}
<1>4. PICK p \in P3 : \A q \in P3 : ports[p] <= ports[q]
  <2>1. P3 # {} /\ \A q \in P3 : ports[q] \in Nat
    BY <1>0, <1>3
  <2> HIDE DEF P3
  <2> QED
    BY <2>1, LeastOf
<1>5. /\ p \in ps /\ roots[p] = roots[r] /\ costs[p] = costs[c]
      /\ switches[p] = switches[s]
  BY <1>4
<1>6. ASSUME NEW q \in ps  PROVE port_cmp(des[q], des[p])
  <2>1. /\ roots[p] <= roots[q]
        /\ roots[p] = roots[q] => costs[p] <= costs[q]
        /\ roots[p] = roots[q] /\ costs[p] = costs[q] => switches[p] <= switches[q]
        /\ roots[p] = roots[q] /\ costs[p] = costs[q] /\ switches[p] = switches[q]
             => ports[p] <= ports[q]
    BY <1>1, <1>2, <1>3, <1>4, <1>5
  <2> QED
    BY <2>1, <1>5, <1>0 DEF port_cmp, roots, costs, switches, ports
<1> QED
  BY <1>5, <1>6 DEF Best

-----------------------------------------------------------------------------
(* What is sent and received *)

LEMMA PortParts ==
  ASSUME NEW p \in Port
  PROVE  /\ p[1] \in Switch /\ p[1] \in Nat /\ p[2] \in Nat \ {0}
         /\ Wire[p] \in Port /\ Wire[p][1] # p[1] /\ p # NoPort
<1>1. p \in Switch \X (Nat \ {0})
  BY StpAssumption
<1>2. PICK s \in Switch, n \in Nat \ {0} : p = <<s, n>>
  BY <1>1
<1>3. p # NoPort
  BY <1>2 DEF NoPort
<1> QED
  BY <1>3, StpAssumption

LEMMA SendIs ==
  ASSUME NEW w \in Wires, NEW s \in Switch, NEW ps \in SUBSET PortsOf(s), NEW rp,
         NEW root \in [Switch -> Switch], NEW cost \in [Switch -> Nat],
         cost[s] = 0 => root[s] = s
  PROVE  Send(w, s, ps, root, cost, rp) \in Wires
<1> DEFINE v == Send(w, s, ps, root, cost, rp)
<1>1. ASSUME NEW q \in Port  PROVE v[q] \in Seq(Sendable(q))
  <2>1. w[q] \in Seq(Sendable(q))
    BY DEF Wires
  <2>2. CASE Wire[q] \in ps
    <3>1. Wire[q][1] = s /\ Wire[q][2] \in Nat \ {0}
      BY <2>2, PortParts DEF PortsOf
    <3>2. Config(root[s], cost[s], s, Wire[q][2]) \in Sendable(q)
      BY <3>1 DEF Sendable, Configs, Config
    <3> QED
      BY <2>1, <3>2 DEF Send
  <2>3. CASE Wire[q] \notin ps
    BY <2>1, <2>3 DEF Send
  <2> QED
    BY <2>2, <2>3
<1>2. \A q \in Port : Sendable(q) \subseteq Configs
  BY DEF Sendable
<1>3. ASSUME NEW q \in Port  PROVE v[q] \in Seq(Configs)
  BY <1>1, <1>2
<1>4. v = [q \in Port |-> v[q]]
  BY DEF Send
<1> QED
  BY <1>1, <1>3, <1>4 DEF Wires

LEMMA ReceivedIs ==
  ASSUME StpType, NEW p \in Port, wire[p] # <<>>
  PROVE  Received(p) \in Wires /\ Head(wire[p]) \in Sendable(p)
<1>1. wire \in [Port -> Seq(Configs)] /\ wire[p] \in Seq(Sendable(p))
  BY DEF StpType, Wires
<1>2. Tail(wire[p]) \in Seq(Sendable(p)) /\ Head(wire[p]) \in Sendable(p)
  BY <1>1
<1>3. Tail(wire[p]) \in Seq(Configs)
  BY <1>1
<1>4. Received(p) \in [Port -> Seq(Configs)]
  BY <1>1, <1>3 DEF Received
<1>5. ASSUME NEW q \in Port  PROVE Received(p)[q] \in Seq(Sendable(q))
  BY <1>1, <1>2 DEF Received, StpType, Wires
<1> QED
  BY <1>2, <1>4, <1>5 DEF Wires

-----------------------------------------------------------------------------
(* The steps *)

LEMMA InitStep == Init => StpInv
<1> SUFFICES ASSUME Init  PROVE StpInv
  OBVIOUS
<1>1. \A p \in Port : /\ Config(p[1], 0, p[1], p[2]) \in Configs
                      /\ designated[p] = Config(p[1], 0, p[1], p[2])
  BY PortParts DEF Configs, Config, Init
<1>2. designated \in [Port -> Configs]
  BY <1>1 DEF Init
<1>3. wire \in Wires
  <2>1. wire \in [Port -> Seq(Configs)]
    <3>1. <<>> \in Seq(Configs)
      OBVIOUS
    <3> QED
      BY <3>1 DEF Init
  <2>2. ASSUME NEW p \in Port  PROVE wire[p] \in Seq(Sendable(p))
    <3>1. wire[p] = <<>>
      BY DEF Init
    <3> QED
      BY <3>1
  <2> QED
    BY <2>1, <2>2 DEF Wires
<1>4. StpType
  BY <1>2, <1>3 DEF Init, StpType
<1>5. ASSUME NEW p \in Port  PROVE Lower(p, designated)
  <2>1. designated[p] = [root |-> p[1], cost |-> 0, switch |-> p[1], port |-> p[2]]
    BY <1>1 DEF Config
  <2>2. /\ designated[p].root = p[1] /\ designated[p].cost = 0
        /\ designated[p].switch = p[1] /\ designated[p].port = p[2]
    BY <2>1
  <2> QED
    BY <2>2 DEF Lower, IsDesignated
<1> QED
  BY <1>4, <1>5 DEF Init, StpInv, NoneOwn, CostOfRoot, HelloIffRoot, IsRoot

\* A switch sends: nothing but its wires changes.
LEMMA SendKeeps ==
  ASSUME StpInv, NEW w \in Wires, NEW s \in Switch, NEW ps \in SUBSET PortsOf(s),
         wire' = Send(w, s, ps, designated_root, root_path_cost, root_port),
         UNCHANGED <<stpVars, active>>
  PROVE  StpInv'
<1>1. wire' \in Wires
  <2>1. root_path_cost[s] = 0 => designated_root[s] = s
    BY DEF StpInv, CostOfRoot
  <2> QED
    BY <2>1, SendIs DEF StpInv, StpType
<1>2. StpType'
  BY <1>1 DEF StpInv, StpType, stpVars
<1>3. (NoneOwn /\ CostOfRoot /\ HelloIffRoot)'
  BY DEF StpInv, stpVars, NoneOwn, Lower, IsDesignated, CostOfRoot, HelloIffRoot, IsRoot
<1> QED
  BY <1>2, <1>3 DEF StpInv

LEMMA HelloStep ==
  ASSUME StpInv, NEW s \in Switch, Hello(s)
  PROVE  StpInv'
<1>1. wire \in Wires
  BY DEF StpInv, StpType
<1> QED
  BY <1>1, SendKeeps DEF Hello

LEMMA AnswerStep ==
  ASSUME StpInv, NEW p \in Port, Answer(p)
  PROVE  StpInv'
<1>1. Received(p) \in Wires
  BY ReceivedIs DEF Answer, StpInv
<1>2. p[1] \in Switch /\ {p} \in SUBSET PortsOf(p[1])
  BY PortParts DEF PortsOf
<1> QED
  BY <1>1, <1>2, SendKeeps DEF Answer

\* A configuration better than what the port keeps is of a lower root than the
\* switch's own id, since only a root sends a cost of 0.
LEMMA BetterIsLower ==
  ASSUME StpInv, NEW p \in Port, wire[p] # <<>>,
         ~port_cmp(Head(wire[p]), designated[p])
  PROVE  Head(wire[p]).root < p[1] /\ Head(wire[p]).switch # p[1]
<1> DEFINE c == Head(wire[p])
           d == designated[p]
<1>1. c \in Sendable(p)
  BY ReceivedIs DEF StpInv
<1>2. /\ c.root \in Nat /\ c.cost \in Nat /\ c.switch = Wire[p][1]
      /\ c.cost = 0 => c.root = c.switch
  BY <1>1, StpAssumption DEF Sendable, Configs
<1>3. d.root \in Nat /\ d.cost \in Nat /\ p[1] \in Nat /\ Wire[p][1] # p[1]
  BY PortParts, StpAssumption DEF StpInv, StpType, Configs
<1>4. Lower(p, designated)
  BY DEF StpInv, NoneOwn
<1>5. c.root <= d.root /\ (c.root = d.root => c.cost <= d.cost)
  BY <1>2, <1>3 DEF port_cmp
<1>6. CASE d.root < p[1]
  BY <1>2, <1>3, <1>5, <1>6
<1>7. CASE d.root = p[1] /\ d.cost = 0
  BY <1>2, <1>3, <1>5, <1>7
<1> QED
  BY <1>2, <1>3, <1>4, <1>6, <1>7 DEF Lower

\* A configuration with the root and the cost of the switch.
WithRoot(d, root, cost) == [d EXCEPT !.root = root, !.cost = cost]

LEMMA WithRootIs ==
  ASSUME NEW d \in Configs, NEW root \in Switch, NEW cost \in Nat
  PROVE  /\ WithRoot(d, root, cost) \in Configs
         /\ WithRoot(d, root, cost).root = root
BY DEF Configs, WithRoot

\* The switch takes the configuration of its best port that is not designated,
\* and there is one: the port that has just received.
LEMMA UpdateStep ==
  ASSUME StpInv, NEW p \in Port, Update(p)
  PROVE  StpInv'
<1> DEFINE c     == Head(wire[p])
           s     == p[1]
           des1  == WriteConfig(p, c)
           rest  == {q \in PortsOf(s) : ~IsDesignated(q, des1)}
           rp    == IF rest = {} THEN NoPort ELSE Best(rest, des1)
           prior == Best(PortsOf(s), des1)
           des2  == IF ~IsDesignated(prior, des1) /\ prior # rp
                    THEN [des1 EXCEPT ![prior].switch = s, ![prior].port = prior[2]]
                    ELSE des1
           own   == {q \in PortsOf(s) : IsDesignated(q, des2)}
<1>1. /\ wire[p] # <<>> /\ ~port_cmp(c, designated[p])
      /\ designated_root' =
           [designated_root EXCEPT ![s] = IF rp = NoPort THEN s ELSE des1[rp].root]
      /\ root_path_cost' =
           [root_path_cost EXCEPT ![s] = IF rp = NoPort THEN 0 ELSE PathCost(rp, des1)]
      /\ designated' = [q \in Port |->
           IF q \in own THEN [des2[q] EXCEPT !.root = designated_root'[s],
                                             !.cost = root_path_cost'[s]]
           ELSE des2[q]]
      /\ active' = StopHello(s)
      /\ wire' = Send(Received(p), s, own, designated_root', root_path_cost', root_port')
  BY DEF Update
<1>2. /\ c \in Configs /\ c.root < s /\ c.switch # s
      /\ s \in Switch /\ s \in Nat /\ Received(p) \in Wires
  BY <1>1, ReceivedIs, BetterIsLower, PortParts DEF StpInv, Sendable
<1>3. /\ des1 \in [Port -> Configs] /\ des1[p] = c
      /\ \A q \in Port : q # p => des1[q] = designated[q]
  BY <1>2 DEF WriteConfig, StpInv, StpType
<1> HIDE DEF des1, c
<1>4. \A q \in Port : Lower(q, des1)
  BY <1>2, <1>3 DEF StpInv, NoneOwn, Lower, IsDesignated
<1>5. p \in rest /\ rest \in SUBSET Port /\ p \in PortsOf(s) /\ PortsOf(s) \in SUBSET Port
  BY <1>2, <1>3 DEF PortsOf, IsDesignated
<1>6. rp \in rest
  <2>1. Best(rest, des1) \in rest
    <3> HIDE DEF rest
    <3> QED
      BY <1>3, <1>5, BestIs
  <2> QED
    BY <1>5, <2>1
<1>7. prior \in PortsOf(s)
  BY <1>3, <1>5, BestIs
<1>8. rp \in Port /\ rp # NoPort /\ rp[1] = s /\ ~IsDesignated(rp, des1)
  BY <1>6, PortParts DEF PortsOf
<1> HIDE DEF rp, rest, prior
<1>9. des1[rp].root \in Switch /\ des1[rp].cost \in Nat /\ des1[rp].root < s
  BY <1>3, <1>4, <1>8 DEF Configs, Lower
<1>10. /\ designated_root' \in [Switch -> Switch] /\ designated_root'[s] < s
       /\ root_path_cost' \in [Switch -> Nat] /\ root_path_cost'[s] # 0
       /\ root_path_cost'[s] \in Nat /\ designated_root'[s] \in Switch
  <2>1. PathCost(rp, des1) \in Nat /\ PathCost(rp, des1) # 0
    BY <1>9 DEF PathCost
  <2> QED
    BY <1>1, <1>2, <1>8, <1>9, <2>1 DEF StpInv, StpType
<1>11. \A t \in Switch : t # s => /\ designated_root'[t] = designated_root[t]
                                 /\ root_path_cost'[t] = root_path_cost[t]
  BY <1>1 DEF StpInv, StpType
<1>12. des2 \in [Port -> Configs] /\ \A q \in Port : Lower(q, des2)
  <2>1. CASE ~IsDesignated(prior, des1) /\ prior # rp
    <3>1. prior \in Port /\ prior[1] = s /\ prior[2] \in Nat \ {0}
      BY <1>7, PortParts DEF PortsOf
    <3>2. des1[prior].root < s
      BY <1>4, <2>1, <3>1 DEF Lower
    <3>3. des2 = [des1 EXCEPT ![prior].switch = s, ![prior].port = prior[2]]
      BY <2>1
    <3>4. des2 \in [Port -> Configs]
      BY <1>2, <1>3, <3>1, <3>3 DEF Configs
    <3>5. des2[prior].root = des1[prior].root
      BY <1>3, <3>1, <3>3 DEF Configs
    <3>6. \A q \in Port : q # prior => des2[q] = des1[q]
      BY <1>3, <3>3
    <3> QED
      BY <1>4, <3>1, <3>2, <3>4, <3>5, <3>6 DEF Lower, IsDesignated
  <2>2. CASE ~(~IsDesignated(prior, des1) /\ prior # rp)
    BY <1>3, <1>4, <2>2
  <2> QED
    BY <2>1, <2>2
<1> HIDE DEF des2
<1>13. ASSUME NEW q \in Port  PROVE designated'[q] \in Configs /\ Lower(q, designated')
  <2>1. CASE q \in own
    <3>1. designated'[q] = WithRoot(des2[q], designated_root'[s], root_path_cost'[s])
      BY <1>1, <2>1, Zenon DEF WithRoot
    <3>2. designated'[q] \in Configs /\ designated'[q].root = designated_root'[s]
      <4>1. /\ des2[q] \in Configs /\ designated_root'[s] \in Switch
            /\ root_path_cost'[s] \in Nat
        BY <1>10, <1>12
      <4> HIDE DEF own
      <4> QED
        BY <3>1, <4>1, WithRootIs
    <3>3. q[1] = s
      BY <2>1 DEF PortsOf
    <3> QED
      BY <1>10, <3>2, <3>3 DEF Lower
  <2>2. CASE q \notin own
    <3>1. designated'[q] = des2[q]
      BY <1>1, <2>2
    <3> QED
      BY <1>12, <3>1 DEF Lower, IsDesignated
  <2> QED
    BY <2>1, <2>2
<1>14. designated' \in [Port -> Configs]
  BY <1>1, <1>13
<1>15. wire' \in Wires
  <2>1. own \in SUBSET PortsOf(s)
    OBVIOUS
  <2> HIDE DEF own
  <2> QED
    BY <1>1, <1>2, <1>10, <2>1, SendIs
<1>16. active' = active \ {s}
  <2>1. s \in active <=> designated_root[s] = s
    BY <1>2 DEF StpInv, HelloIffRoot, IsRoot
  <2>2. designated_root'[s] # s
    BY <1>2, <1>10
  <2> QED
    BY <1>1, <2>1, <2>2 DEF StopHello, IsRoot
<1>17. StpType'
  BY <1>10, <1>14, <1>15, <1>16 DEF StpType, StpInv
<1>18. HelloIffRoot'
  <2>1. designated_root'[s] # s
    BY <1>2, <1>10
  <2> QED
    BY <1>11, <1>16, <2>1 DEF HelloIffRoot, IsRoot, StpInv
<1>19. CostOfRoot'
  BY <1>10, <1>11 DEF CostOfRoot, StpInv
<1>20. NoneOwn'
  BY <1>13 DEF NoneOwn
<1> QED
  BY <1>17, <1>18, <1>19, <1>20 DEF StpInv

-----------------------------------------------------------------------------
(* What a root costs.  A switch takes a cost of k + 1 for a root only if it has *)
(* nothing better, and from a switch that has the root for k: that many are as  *)
(* good, and one more now.                                                      *)

PortIds == {p[2] : p \in Port}

\* The switches that have a lower root than r, or r for k at most.
AsGood(root, cost, r, k) ==
  {s \in Switch : root[s] < r \/ (root[s] = r /\ cost[s] <= k)}

\* There is a switch more than r costs.
Paid(root, cost, r, k) == k < Cardinality(AsGood(root, cost, r, k))

PaidConfigs(root, cost) ==
  {c \in Configs : c.port \in PortIds /\ Paid(root, cost, c.root, c.cost)}

\* A switch has its root and its cost from its root port, which is not designated.
FromRootPort(s) ==
  IF root_port[s] = NoPort THEN designated_root[s] = s
  ELSE LET d == designated[root_port[s]]
       IN  /\ root_port[s] \in PortsOf(s) /\ ~IsDesignated(root_port[s], designated)
           /\ designated_root[s] = d.root /\ root_path_cost[s] = d.cost + 1

CostInv ==
  /\ root_port \in [Switch -> Port \cup {NoPort}]
  /\ \A s \in Switch : FromRootPort(s)
  /\ \A s \in Switch :
       Paid(designated_root, root_path_cost, designated_root[s], root_path_cost[s])
  /\ designated \in [Port -> PaidConfigs(designated_root, root_path_cost)]
  /\ wire \in [Port -> Seq(PaidConfigs(designated_root, root_path_cost))]

\* No switch exchanges its root and its cost for worse ones.
NoWorse(root, cost, root2, cost2) ==
  \A s \in Switch : root2[s] < root[s] \/ (root2[s] = root[s] /\ cost2[s] <= cost[s])

LEMMA AsGoodIs ==
  ASSUME NEW root, NEW cost, NEW r, NEW k
  PROVE  /\ IsFiniteSet(AsGood(root, cost, r, k))
         /\ Cardinality(AsGood(root, cost, r, k)) \in Nat
         /\ Cardinality(AsGood(root, cost, r, k)) <= Cardinality(Switch)
         /\ Cardinality(Switch) \in Nat
<1>1. AsGood(root, cost, r, k) \subseteq Switch /\ IsFiniteSet(Switch)
  BY StpAssumption DEF AsGood
<1> QED
  BY <1>1, FS_Subset, FS_CardinalityType

LEMMA StillPaid ==
  ASSUME NEW root \in [Switch -> Switch], NEW cost \in [Switch -> Nat],
         NEW root2 \in [Switch -> Switch], NEW cost2 \in [Switch -> Nat],
         NoWorse(root, cost, root2, cost2),
         NEW r \in Switch, NEW k \in Nat, Paid(root, cost, r, k)
  PROVE  Paid(root2, cost2, r, k)
<1> DEFINE A == AsGood(root, cost, r, k)
           B == AsGood(root2, cost2, r, k)
<1>1. \A s \in Switch : /\ root[s] \in Nat /\ root2[s] \in Nat
                        /\ cost[s] \in Nat /\ cost2[s] \in Nat /\ r \in Nat
  BY StpAssumption
<1>2. A \subseteq B
  BY <1>1 DEF AsGood, NoWorse
<1>3. /\ IsFiniteSet(A) /\ IsFiniteSet(B)
      /\ Cardinality(A) \in Nat /\ Cardinality(B) \in Nat
  BY AsGoodIs
<1>4. Cardinality(A) <= Cardinality(B)
  <2> HIDE DEF A, B
  <2> QED
    BY <1>2, <1>3, FS_Subset
<1>5. k < Cardinality(A)
  BY DEF Paid
<1>6. k < Cardinality(B)
  <2> HIDE DEF A, B
  <2> QED
    BY <1>3, <1>4, <1>5
<1> QED
  BY <1>6 DEF Paid

LEMMA ConfigsStillPaid ==
  ASSUME NEW root \in [Switch -> Switch], NEW cost \in [Switch -> Nat],
         NEW root2 \in [Switch -> Switch], NEW cost2 \in [Switch -> Nat],
         NoWorse(root, cost, root2, cost2)
  PROVE  PaidConfigs(root, cost) \subseteq PaidConfigs(root2, cost2)
BY StillPaid DEF PaidConfigs, Configs

\* A switch that takes a root for k + 1 has not had it for k.
LEMMA OneMore ==
  ASSUME NEW root \in [Switch -> Switch], NEW cost \in [Switch -> Nat],
         NEW root2 \in [Switch -> Switch], NEW cost2 \in [Switch -> Nat],
         NoWorse(root, cost, root2, cost2),
         NEW s \in Switch, NEW k \in Nat, Paid(root, cost, root2[s], k), cost2[s] = k + 1
  PROVE  Paid(root2, cost2, root2[s], cost2[s])
<1> DEFINE r == root2[s]
           A == AsGood(root, cost, r, k)
           B == AsGood(root2, cost2, r, k + 1)
<1>1. \A t \in Switch : /\ root[t] \in Nat /\ root2[t] \in Nat
                        /\ cost[t] \in Nat /\ cost2[t] \in Nat
  BY StpAssumption
<1>2. s \notin A
  BY <1>1 DEF AsGood, NoWorse
<1>3. A \cup {s} \subseteq B
  BY <1>1 DEF AsGood, NoWorse
<1>4. /\ IsFiniteSet(A) /\ IsFiniteSet(B)
      /\ Cardinality(A) \in Nat /\ Cardinality(B) \in Nat
  BY AsGoodIs
<1>5. Cardinality(A) + 1 <= Cardinality(B)
  <2> HIDE DEF A, B
  <2>1. IsFiniteSet(A \cup {s}) /\ Cardinality(A \cup {s}) = Cardinality(A) + 1
    BY <1>2, <1>4, FS_AddElement
  <2> QED
    BY <1>3, <1>4, <2>1, FS_Subset
<1>6. k < Cardinality(A)
  BY DEF Paid
<1>7. k + 1 < Cardinality(B)
  <2> HIDE DEF A, B
  <2> QED
    BY <1>4, <1>5, <1>6
<1> QED
  BY <1>7 DEF Paid

LEMMA SendPaid ==
  ASSUME NEW root \in [Switch -> Switch], NEW cost \in [Switch -> Nat], NEW rp,
         NEW w \in [Port -> Seq(PaidConfigs(root, cost))],
         NEW s \in Switch, NEW ps \in SUBSET PortsOf(s), Paid(root, cost, root[s], cost[s])
  PROVE  Send(w, s, ps, root, cost, rp) \in [Port -> Seq(PaidConfigs(root, cost))]
<1> DEFINE v == Send(w, s, ps, root, cost, rp)
           P == PaidConfigs(root, cost)
<1>1. ASSUME NEW q \in Port  PROVE v[q] \in Seq(P)
  <2>1. CASE Wire[q] \in ps
    <3> DEFINE c == Config(root[s], cost[s], s, Wire[q][2])
    <3>1. Wire[q] \in Port /\ Wire[q][2] \in Nat \ {0}
      BY <2>1, PortParts DEF PortsOf
    <3>2. /\ c \in Configs /\ c.port \in PortIds
          /\ c.root = root[s] /\ c.cost = cost[s]
      BY <3>1 DEF Configs, Config, PortIds
    <3>3. c \in P
      BY <3>2 DEF PaidConfigs
    <3>4. v[q] = w[q] \/ v[q] = Append(w[q], c)
      BY DEF Send
    <3> HIDE DEF v, P, c
    <3>5. w[q] \in Seq(P)
      BY DEF P
    <3>6. Append(w[q], c) \in Seq(P)
      BY <3>3, <3>5
    <3> QED
      BY <3>4, <3>5, <3>6
  <2>2. CASE Wire[q] \notin ps
    BY <2>2 DEF Send
  <2> QED
    BY <2>1, <2>2
<1>2. v = [q \in Port |-> v[q]]
  BY DEF Send
<1> QED
  BY <1>1, <1>2

LEMMA ReceivedPaid ==
  ASSUME CostInv, NEW p \in Port, wire[p] # <<>>
  PROVE  /\ Received(p) \in [Port -> Seq(PaidConfigs(designated_root, root_path_cost))]
         /\ Head(wire[p]) \in PaidConfigs(designated_root, root_path_cost)
<1> DEFINE P == PaidConfigs(designated_root, root_path_cost)
<1>1. wire \in [Port -> Seq(P)]
  BY DEF CostInv
<1> HIDE DEF P
<1>2. Tail(wire[p]) \in Seq(P) /\ Head(wire[p]) \in P
  BY <1>1
<1>3. Received(p) \in [Port -> Seq(P)]
  BY <1>1, <1>2 DEF Received
<1> QED
  BY <1>2, <1>3 DEF P

LEMMA InitCosts == Init => CostInv
<1> SUFFICES ASSUME Init  PROVE CostInv
  OBVIOUS
<1>1. ASSUME NEW s \in Switch  PROVE Paid(designated_root, root_path_cost, s, 0)
  <2> DEFINE A == AsGood(designated_root, root_path_cost, s, 0)
  <2>1. s \in A
    BY DEF Init, AsGood
  <2>2. IsFiniteSet(A) /\ Cardinality(A) \in Nat
    BY AsGoodIs
  <2>3. Cardinality(A) # 0
    <3> HIDE DEF A
    <3> QED
      BY <2>1, <2>2, FS_EmptySet
  <2> QED
    BY <2>2, <2>3 DEF Paid
<1>2. ASSUME NEW p \in Port
      PROVE  Config(p[1], 0, p[1], p[2]) \in PaidConfigs(designated_root, root_path_cost)
  BY <1>1, PortParts DEF PaidConfigs, Configs, Config, PortIds
<1>3. designated \in [Port -> PaidConfigs(designated_root, root_path_cost)]
  BY <1>2 DEF Init
<1>4. wire \in [Port -> Seq(PaidConfigs(designated_root, root_path_cost))]
  <2> DEFINE P == PaidConfigs(designated_root, root_path_cost)
  <2> HIDE DEF P
  <2>1. wire \in [Port -> Seq(P)]
    <3>1. <<>> \in Seq(P)
      OBVIOUS
    <3> QED
      BY <3>1 DEF Init
  <2> QED
    BY <2>1 DEF P
<1> QED
  BY <1>1, <1>3, <1>4 DEF Init, CostInv, FromRootPort

LEMMA SendCosts ==
  ASSUME StpInv, CostInv, NEW s \in Switch, NEW ps \in SUBSET PortsOf(s),
         NEW w \in [Port -> Seq(PaidConfigs(designated_root, root_path_cost))],
         wire' = Send(w, s, ps, designated_root, root_path_cost, root_port),
         UNCHANGED <<stpVars, active>>
  PROVE  CostInv'
<1>1. wire' \in [Port -> Seq(PaidConfigs(designated_root, root_path_cost))]
  BY SendPaid DEF StpInv, StpType, CostInv
<1> QED
  BY <1>1 DEF CostInv, FromRootPort, IsDesignated, stpVars

\* What an update does to the ports of the switch, to its root and to its wires.
LEMMA UpdateIs ==
  ASSUME StpInv, NEW p \in Port, Update(p)
  PROVE  LET s   == p[1]
             des == WriteConfig(p, Head(wire[p]))
         IN  /\ \E rp \in PortsOf(s) :
                  /\ root_port' = [root_port EXCEPT ![s] = rp]
                  /\ designated_root' = [designated_root EXCEPT ![s] = des[rp].root]
                  /\ root_path_cost' = [root_path_cost EXCEPT ![s] = des[rp].cost + 1]
                  /\ ~IsDesignated(rp, des) /\ designated'[rp] = des[rp]
                  /\ \A q \in PortsOf(s) :
                       ~IsDesignated(q, des) => port_cmp(des[q], des[rp])
             /\ \A q \in Port :
                  /\ q \notin PortsOf(s) => designated'[q] = des[q]
                  /\ designated'[q].port \in {des[q].port, q[2]}
                  /\ \/ /\ designated'[q].root = des[q].root
                        /\ designated'[q].cost = des[q].cost
                     \/ /\ designated'[q].root = designated_root'[s]
                        /\ designated'[q].cost = root_path_cost'[s]
             /\ \E own \in SUBSET PortsOf(s) :
                  wire' = Send(Received(p), s, own,
                               designated_root', root_path_cost', root_port')
<1> DEFINE s     == p[1]
           des   == WriteConfig(p, Head(wire[p]))
           rest  == {q \in PortsOf(s) : ~IsDesignated(q, des)}
           rp    == IF rest = {} THEN NoPort ELSE Best(rest, des)
           prior == Best(PortsOf(s), des)
           des2  == IF ~IsDesignated(prior, des) /\ prior # rp
                    THEN [des EXCEPT ![prior].switch = s, ![prior].port = prior[2]]
                    ELSE des
           own   == {q \in PortsOf(s) : IsDesignated(q, des2)}
<1>1. /\ wire[p] # <<>> /\ ~port_cmp(Head(wire[p]), designated[p])
      /\ root_port' = [root_port EXCEPT ![s] = rp]
      /\ designated_root' =
           [designated_root EXCEPT ![s] = IF rp = NoPort THEN s ELSE des[rp].root]
      /\ root_path_cost' =
           [root_path_cost EXCEPT ![s] = IF rp = NoPort THEN 0 ELSE PathCost(rp, des)]
      /\ designated' = [q \in Port |->
           IF q \in own THEN [des2[q] EXCEPT !.root = designated_root'[s],
                                             !.cost = root_path_cost'[s]]
           ELSE des2[q]]
      /\ wire' = Send(Received(p), s, own, designated_root', root_path_cost', root_port')
  BY DEF Update
<1>2. /\ des \in [Port -> Configs] /\ des[p] = Head(wire[p]) /\ Head(wire[p]).switch # s
      /\ s \in Switch
  BY <1>1, ReceivedIs, BetterIsLower, PortParts DEF StpInv, StpType, Sendable, WriteConfig
<1> HIDE DEF des
<1>3. rest \in SUBSET Port /\ p \in rest /\ PortsOf(s) \in SUBSET Port /\ p \in PortsOf(s)
  BY <1>2 DEF PortsOf, IsDesignated
<1>4. rp \in rest /\ \A q \in rest : port_cmp(des[q], des[rp])
  <2>1. rp = Best(rest, des)
    BY <1>3
  <2> HIDE DEF rest, rp
  <2> QED
    BY <1>2, <1>3, <2>1, BestIs
<1>5. prior \in PortsOf(s)
  BY <1>2, <1>3, BestIs
<1>6. rp \in PortsOf(s) /\ rp \in Port /\ rp # NoPort /\ ~IsDesignated(rp, des)
  BY <1>3, <1>4, PortParts
<1>7. \A q \in PortsOf(s) : ~IsDesignated(q, des) => port_cmp(des[q], des[rp])
  BY <1>4
<1> HIDE DEF rp, rest, prior
<1>8. /\ des2 \in [Port -> [root : Switch, cost : Nat, switch : Switch, port : Nat \ {0}]]
      /\ des2[rp] = des[rp]
      /\ \A q \in Port : /\ q \notin PortsOf(s) => des2[q] = des[q]
                         /\ des2[q].root = des[q].root /\ des2[q].cost = des[q].cost
                         /\ des2[q].port \in {des[q].port, q[2]}
                         /\ des2[q] = des[q] \/ IsDesignated(q, des2)
  <2>1. CASE ~IsDesignated(prior, des) /\ prior # rp
    <3>1. prior \in Port /\ prior[2] \in Nat \ {0} /\ prior[1] = s
      BY <1>3, <1>5, PortParts DEF PortsOf
    <3>2. des2 = [des EXCEPT ![prior].switch = s, ![prior].port = prior[2]]
      BY <2>1
    <3>3. /\ des2 \in [Port -> Configs]
          /\ des2[prior].switch = s /\ des2[prior].port = prior[2]
          /\ des2[prior].root = des[prior].root /\ des2[prior].cost = des[prior].cost
      BY <1>2, <3>1, <3>2 DEF Configs
    <3>4. \A q \in Port : q # prior => des2[q] = des[q]
      BY <1>2, <3>2
    <3> HIDE DEF des2
    <3> QED
      BY <1>5, <1>6, <2>1, <3>1, <3>3, <3>4 DEF Configs, IsDesignated
  <2>2. CASE ~(~IsDesignated(prior, des) /\ prior # rp)
    BY <1>2, <2>2 DEF Configs
  <2> QED
    BY <2>1, <2>2
<1>9. ASSUME NEW q \in Port
      PROVE  /\ q \in own => /\ designated'[q].root = designated_root'[s]
                             /\ designated'[q].cost = root_path_cost'[s]
                             /\ designated'[q].port = des2[q].port
             /\ q \notin own => designated'[q] = des2[q]
  <2>1. CASE q \in own
    <3>1. designated'[q] = [des2[q] EXCEPT !.root = designated_root'[s],
                                           !.cost = root_path_cost'[s]]
      BY <1>1, <2>1
    <3>2. des2[q] \in [root : Switch, cost : Nat, switch : Switch, port : Nat \ {0}]
      BY <1>8
    <3> HIDE DEF des2, own
    <3> QED
      BY <2>1, <3>1, <3>2
  <2>2. CASE q \notin own
    BY <1>1, <2>2
  <2> QED
    BY <2>1, <2>2
<1>10. rp \notin own
  BY <1>6, <1>8 DEF IsDesignated
<1>11. \A q \in Port :
         /\ q \notin PortsOf(s) => designated'[q] = des[q]
         /\ designated'[q].port \in {des[q].port, q[2]}
         /\ \/ /\ designated'[q].root = des[q].root
               /\ designated'[q].cost = des[q].cost
            \/ /\ designated'[q].root = designated_root'[s]
               /\ designated'[q].cost = root_path_cost'[s]
  <2>1. own \subseteq PortsOf(s)
    OBVIOUS
  <2> HIDE DEF own, des2
  <2> QED
    BY <1>8, <1>9, <2>1
<1>12. designated'[rp] = des[rp]
  <2> HIDE DEF own, des2
  <2> QED
    BY <1>6, <1>8, <1>9, <1>10
<1>13. own \in SUBSET PortsOf(s)
  OBVIOUS
<1> HIDE DEF own, des2
<1>14. /\ root_port' = [root_port EXCEPT ![s] = rp]
       /\ designated_root' = [designated_root EXCEPT ![s] = des[rp].root]
       /\ root_path_cost' = [root_path_cost EXCEPT ![s] = des[rp].cost + 1]
  BY <1>1, <1>6 DEF PathCost
<1>15. \E x \in PortsOf(s) :
         /\ root_port' = [root_port EXCEPT ![s] = x]
         /\ designated_root' = [designated_root EXCEPT ![s] = des[x].root]
         /\ root_path_cost' = [root_path_cost EXCEPT ![s] = des[x].cost + 1]
         /\ ~IsDesignated(x, des) /\ designated'[x] = des[x]
         /\ \A q \in PortsOf(s) : ~IsDesignated(q, des) => port_cmp(des[q], des[x])
  BY <1>6, <1>7, <1>12, <1>14
<1>16. \E x \in SUBSET PortsOf(s) :
         wire' = Send(Received(p), s, x, designated_root', root_path_cost', root_port')
  BY <1>1, <1>13
<1> QED
  BY <1>11, <1>15, <1>16, Zenon DEF des

\* An update takes the best of what the ports have been told, the old root port among
\* them: the switch is no worse off, and can pay what its new root costs.
LEMMA UpdateCosts ==
  ASSUME StpInv, StpInv', CostInv, NEW p \in Port, Update(p)
  PROVE  CostInv'
<1> DEFINE s   == p[1]
           des == WriteConfig(p, Head(wire[p]))
           P   == PaidConfigs(designated_root, root_path_cost)
           P2  == PaidConfigs(designated_root', root_path_cost')
<1>1. /\ wire[p] # <<>> /\ ~port_cmp(Head(wire[p]), designated[p])
      /\ s \in Switch /\ s \in Nat
  BY PortParts DEF Update
<1>2. PICK rp \in PortsOf(s) :
        /\ root_port' = [root_port EXCEPT ![s] = rp]
        /\ designated_root' = [designated_root EXCEPT ![s] = des[rp].root]
        /\ root_path_cost' = [root_path_cost EXCEPT ![s] = des[rp].cost + 1]
        /\ ~IsDesignated(rp, des) /\ designated'[rp] = des[rp]
        /\ \A q \in PortsOf(s) : ~IsDesignated(q, des) => port_cmp(des[q], des[rp])
  BY UpdateIs
<1>3. \A q \in Port :
        /\ q \notin PortsOf(s) => designated'[q] = des[q]
        /\ designated'[q].port \in {des[q].port, q[2]}
        /\ \/ /\ designated'[q].root = des[q].root
              /\ designated'[q].cost = des[q].cost
           \/ /\ designated'[q].root = designated_root'[s]
              /\ designated'[q].cost = root_path_cost'[s]
  BY UpdateIs
<1>4. PICK own \in SUBSET PortsOf(s) :
        wire' = Send(Received(p), s, own, designated_root', root_path_cost', root_port')
  BY UpdateIs
<1>5. Received(p) \in [Port -> Seq(P)] /\ Head(wire[p]) \in P
  BY <1>1, ReceivedPaid
<1>6. /\ des \in [Port -> P] /\ des[p] = Head(wire[p])
      /\ \A q \in Port : q # p => des[q] = designated[q]
  BY <1>5 DEF CostInv, WriteConfig
<1>7. Head(wire[p]).root < s /\ Head(wire[p]).switch # s
  BY <1>1, BetterIsLower
<1>8. /\ designated_root \in [Switch -> Switch] /\ designated_root' \in [Switch -> Switch]
      /\ root_path_cost \in [Switch -> Nat] /\ root_path_cost' \in [Switch -> Nat]
      /\ designated \in [Port -> Configs] /\ designated' \in [Port -> Configs]
  BY DEF StpInv, StpType
<1>9. PortsOf(s) \subseteq Port /\ rp \in Port /\ p \in PortsOf(s) /\ rp[1] = s
  BY DEF PortsOf
<1> HIDE DEF des, P, P2
<1>10. /\ designated_root'[s] = des[rp].root /\ root_path_cost'[s] = des[rp].cost + 1
       /\ \A t \in Switch : t # s => /\ designated_root'[t] = designated_root[t]
                                     /\ root_path_cost'[t] = root_path_cost[t]
  BY <1>1, <1>2, <1>8
<1>11. \A q \in Port : des[q].root \in Nat /\ des[q].cost \in Nat
  <2>1. P \subseteq Configs
    BY DEF P, PaidConfigs
  <2>2. \A q \in Port : des[q] \in Configs
    BY <1>6, <2>1
  <2> QED
    BY <2>2, StpAssumption DEF Configs
<1>12. \A q \in PortsOf(s) : ~IsDesignated(q, des) =>
         des[rp].root < des[q].root \/ (des[rp].root = des[q].root /\ des[rp].cost <= des[q].cost)
  BY <1>2, <1>9, <1>11 DEF port_cmp
<1>13. ~IsDesignated(p, des)
  BY <1>6, <1>7 DEF IsDesignated
<1>14. NoWorse(designated_root, root_path_cost, designated_root', root_path_cost')
  <2>1. /\ designated_root[s] \in Nat /\ root_path_cost[s] \in Nat
        /\ des[rp].root \in Nat /\ des[rp].cost \in Nat
    BY <1>1, <1>8, <1>9, <1>11, StpAssumption
  <2>2. \/ des[rp].root < designated_root[s]
        \/ des[rp].root = designated_root[s] /\ des[rp].cost + 1 <= root_path_cost[s]
    <3>1. FromRootPort(s)
      BY <1>1 DEF CostInv
    <3>2. CASE root_port[s] = NoPort
      <4>1. des[rp].root <= des[p].root
        BY <1>9, <1>11, <1>12, <1>13
      <4> QED
        BY <1>1, <1>6, <1>7, <1>9, <1>11, <2>1, <3>1, <3>2, <4>1 DEF FromRootPort
    <3>3. CASE root_port[s] # NoPort
      <4> DEFINE o == root_port[s]
      <4>1. /\ o \in PortsOf(s) /\ o \in Port /\ ~IsDesignated(o, designated)
            /\ designated_root[s] = designated[o].root
            /\ root_path_cost[s] = designated[o].cost + 1
        BY <1>9, <3>1, <3>3 DEF FromRootPort
      <4>2. CASE o = p
        <5>1. /\ designated[p].root \in Nat /\ designated[p].cost \in Nat
              /\ Head(wire[p]).root \in Nat /\ Head(wire[p]).cost \in Nat
          BY <1>6, <1>8, <1>11, StpAssumption DEF Configs
        <5>2. \/ des[p].root < designated[p].root
              \/ des[p].root = designated[p].root /\ des[p].cost <= designated[p].cost
          BY <1>1, <1>6, <5>1 DEF port_cmp
        <5> QED
          BY <1>9, <1>11, <1>12, <1>13, <2>1, <4>1, <4>2, <5>1, <5>2
      <4>3. CASE o # p
        <5>1. des[o] = designated[o] /\ ~IsDesignated(o, des)
          BY <1>6, <4>1, <4>3 DEF IsDesignated
        <5> QED
          BY <1>11, <1>12, <2>1, <4>1, <5>1
      <4> QED
        BY <4>2, <4>3
    <3> QED
      BY <3>2, <3>3
  <2> QED
    BY <1>8, <1>10, <2>1, <2>2, StpAssumption DEF NoWorse
<1>15. P \subseteq P2
  BY <1>8, <1>14, ConfigsStillPaid DEF P, P2
<1>16. ASSUME NEW t \in Switch
       PROVE  Paid(designated_root', root_path_cost', designated_root'[t], root_path_cost'[t])
  <2>1. CASE t = s
    <3>1. des[rp] \in P
      BY <1>6, <1>9
    <3>2. /\ des[rp].cost \in Nat
          /\ Paid(designated_root, root_path_cost, des[rp].root, des[rp].cost)
      BY <3>1 DEF P, PaidConfigs, Configs
    <3>3. Paid(designated_root, root_path_cost, designated_root'[s], des[rp].cost)
      BY <1>10, <3>2
    <3>4. Paid(designated_root', root_path_cost', designated_root'[s], root_path_cost'[s])
      BY <1>1, <1>8, <1>10, <1>14, <3>2, <3>3, OneMore
    <3> QED
      BY <2>1, <3>4
  <2>2. CASE t # s
    <3>1. Paid(designated_root, root_path_cost, designated_root[t], root_path_cost[t])
      BY DEF CostInv
    <3>2. designated_root[t] \in Switch /\ root_path_cost[t] \in Nat
      BY <1>8
    <3> QED
      BY <1>8, <1>10, <1>14, <2>2, <3>1, <3>2, StillPaid
  <2> QED
    BY <2>1, <2>2
<1>17. ASSUME NEW q \in Port  PROVE designated'[q] \in P2
  <2>1. designated'[q] \in Configs /\ q[2] \in PortIds
    BY <1>8 DEF PortIds
  <2>2. /\ des[q].port \in PortIds
        /\ Paid(designated_root', root_path_cost', des[q].root, des[q].cost)
    BY <1>6, <1>15 DEF P2, PaidConfigs
  <2>3. Paid(designated_root', root_path_cost', designated_root'[s], root_path_cost'[s])
    BY <1>1, <1>16
  <2> QED
    BY <1>3, <2>1, <2>2, <2>3 DEF P2, PaidConfigs
<1>18. designated' \in [Port -> P2]
  BY <1>8, <1>17
<1>19. wire' \in [Port -> Seq(P2)]
  <2>1. Received(p) \in [Port -> Seq(P2)]
    BY <1>5, <1>15
  <2> QED
    BY <1>1, <1>4, <1>8, <1>16, <2>1, SendPaid DEF P2
<1>20. root_port' \in [Switch -> Port \cup {NoPort}]
  BY <1>1, <1>2, <1>9 DEF CostInv
<1>21. ASSUME NEW t \in Switch  PROVE FromRootPort(t)'
  <2>1. FromRootPort(t) /\ root_port \in [Switch -> Port \cup {NoPort}]
    BY DEF CostInv
  <2>2. CASE t = s
    <3>1. root_port'[t] = rp /\ rp # NoPort
      BY <1>2, <1>9, <2>1, <2>2, PortParts
    <3> QED
      BY <1>2, <1>10, <2>2, <3>1 DEF FromRootPort, IsDesignated
  <2>3. CASE t # s
    <3>1. root_port'[t] = root_port[t]
      BY <1>2, <2>1, <2>3
    <3>2. CASE root_port[t] = NoPort
      BY <1>10, <2>1, <2>3, <3>1, <3>2 DEF FromRootPort
    <3>3. CASE root_port[t] # NoPort
      <4>1. root_port[t] \in PortsOf(t)
        BY <2>1, <3>3 DEF FromRootPort
      <4>2. designated'[root_port[t]] = designated[root_port[t]]
        BY <1>3, <1>6, <1>9, <2>3, <4>1 DEF PortsOf
      <4> QED
        BY <1>10, <2>1, <2>3, <3>1, <3>3, <4>1, <4>2 DEF FromRootPort, IsDesignated
    <3> QED
      BY <3>2, <3>3
  <2> QED
    BY <2>2, <2>3
<1> QED
  BY <1>16, <1>18, <1>19, <1>20, <1>21 DEF CostInv, P2

LEMMA CostStep == StpInv /\ StpInv' /\ CostInv /\ [Next]_vars => CostInv'
<1> SUFFICES ASSUME StpInv, StpInv', CostInv, [Next]_vars  PROVE CostInv'
  OBVIOUS
<1>1. ASSUME NEW p \in Port, Answer(p)  PROVE CostInv'
  <2>1. Received(p) \in [Port -> Seq(PaidConfigs(designated_root, root_path_cost))]
    BY <1>1, ReceivedPaid DEF Answer
  <2>2. p[1] \in Switch /\ {p} \in SUBSET PortsOf(p[1])
    BY PortParts DEF PortsOf
  <2> QED
    BY <1>1, <2>1, <2>2, SendCosts DEF Answer
<1>2. ASSUME NEW p \in Port, Update(p)  PROVE CostInv'
  BY <1>2, UpdateCosts
<1>3. ASSUME NEW s \in Switch, Hello(s)  PROVE CostInv'
  <2>1. {q \in PortsOf(s) : IsDesignated(q, designated)} \in SUBSET PortsOf(s)
    OBVIOUS
  <2>2. wire \in [Port -> Seq(PaidConfigs(designated_root, root_path_cost))]
    BY DEF CostInv
  <2> QED
    BY <1>3, <2>1, <2>2, SendCosts DEF Hello
<1>4. CASE UNCHANGED vars
  BY <1>4 DEF vars, stpVars, CostInv, FromRootPort, IsDesignated
<1> QED
  BY <1>1, <1>2, <1>3, <1>4 DEF Next, Handle

LEMMA TypeIs == StpInv /\ CostInv => TypeOK
<1> SUFFICES ASSUME StpInv, CostInv  PROVE TypeOK
  OBVIOUS
<1> DEFINE P == PaidConfigs(designated_root, root_path_cost)
<1>1. \A r, k : k \in Nat /\ Paid(designated_root, root_path_cost, r, k)
                  => k \in 0 .. Cardinality(Switch)
  BY AsGoodIs DEF Paid
<1>2. P \subseteq ConfigType
  BY <1>1 DEF PaidConfigs, Configs, ConfigType, PortIds
<1>3. designated \in [Port -> P] /\ wire \in [Port -> Seq(P)]
  BY DEF CostInv
<1> HIDE DEF P
<1>4. designated \in [Port -> ConfigType] /\ wire \in [Port -> Seq(ConfigType)]
  BY <1>2, <1>3
<1>5. root_path_cost \in [Switch -> 0 .. Cardinality(Switch)]
  BY <1>1 DEF StpInv, StpType, CostInv
<1> QED
  BY <1>4, <1>5 DEF TypeOK, StpInv, StpType, CostInv

-----------------------------------------------------------------------------
\* The inductive invariant: types, and what keeps a switch from being root again.
THEOREM InvHolds == Spec => []StpInv
<1>1. ASSUME StpInv, [Next]_vars  PROVE StpInv'
  <2>1. CASE \E p \in Port : Handle(p)
    BY <1>1, <2>1, AnswerStep, UpdateStep DEF Handle
  <2>2. CASE \E s \in Switch : Hello(s)
    BY <1>1, <2>2, HelloStep
  <2>3. CASE UNCHANGED vars
    BY <1>1, <2>3 DEF vars, stpVars, StpInv, StpType, NoneOwn, Lower, IsDesignated,
                      CostOfRoot, HelloIffRoot, IsRoot
  <2> QED
    BY <1>1, <2>1, <2>2, <2>3 DEF Next
<1> QED
  BY <1>1, InitStep, PTL DEF Spec

\* Whatever the wiring, the hello timer of stp.c runs on the switches that take
\* themselves for the root, and on no other.
THEOREM RootsSayHello == Spec => []HelloIffRoot
<1>1. StpInv => HelloIffRoot
  BY DEF StpInv
<1> QED
  BY <1>1, InvHolds, PTL

\* Whatever the wiring, everything keeps its type; above all, no path costs more than
\* there are switches, in whatever order they tell each other of theirs (stp.c).
THEOREM TypesHold == Spec => []TypeOK
<1>1. Init => StpInv /\ CostInv
  BY InitStep, InitCosts
<1>2. StpInv /\ CostInv => TypeOK
  BY TypeIs
<1> QED
  BY <1>1, <1>2, InvHolds, CostStep, PTL DEF Spec

=============================================================================
