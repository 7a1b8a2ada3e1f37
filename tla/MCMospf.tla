------------------------------ MODULE MCMospf ------------------------------
EXTENDS Mospf

(* Three routers in a ring; behind the third there are hosts. *)
Three == 1 .. 3

RingNets == {"12", "23", "13", "hosts"}

RingMembers == [k \in RingNets |->
    CASE k = "12" -> {1, 2} [] k = "23" -> {2, 3} [] k = "13" -> {1, 3} [] OTHER -> {3}]

RingCuts == {"12", "23", "13"}

(* These routers run, each has said all there is to say, and all know it: one LSU for
   each of its two neighbours, and one more when another has gone. *)
SettledWith(on) ==
    LET nbrs == [r \in Routers |-> [k \in NetsOf(r) |->
                    IF r \in on THEN (Members[k] \ {r}) \cap on ELSE {}]]
        all(r) == \A k \in NetsOf(r) : Members[k] \subseteq on
        last(r) == IF all(r) THEN 1 ELSE 2
        lsu == [r \in Routers |->
                   [rid |-> r, seq |-> last(r), life |-> 0, adv |-> AdvOf(r, nbrs[r])]]
    IN  /\ up = [r \in Routers |-> r \in on]
        /\ cut = [now |-> {}, count |-> 0]
        /\ nbr = nbrs
        /\ seq = [r \in Routers |-> last(r) + 1]
        /\ db = [r \in Routers |->
                    LET others == SetToSortSeq(on \ {r}, LAMBDA a, b : a < b) IN
                    IF r \in on THEN [i \in DOMAIN others |-> lsu[others[i]]] ELSE <<>>]
        /\ flood = [r \in Routers |-> NoLsu]
        /\ msgs = {}
        /\ life = [r \in Routers |-> 0]
        /\ sent = lsu
        /\ fresh = on

SettledSpec == SettledWith(Routers) /\ [][Next]_vars /\ Fairness

(* The second router has stopped, and its entries have expired. *)
AwaySpec == SettledWith(Routers \ {2}) /\ [][Next]_vars

(* Two of them send periodically, once. *)
TwoSend == [r \in Routers |-> IF r = 2 THEN 1 ELSE 2]

(* The third one does, once, and one that has just started again. *)
ThirdSends == [r \in Routers |-> IF r = 3 THEN 2 ELSE 0]

SecondRouter == {2}

NoNet == {}

(* The topology of lab-11 (topo.py): four routers in a square, hosts at two. *)
Square == 1 .. 4

SquareNets == {"12", "13", "24", "34", "h1", "h2"}

SquareMembers == [k \in SquareNets |->
    CASE k = "12" -> {1, 2} [] k = "13" -> {1, 3} [] k = "24" -> {2, 4}
      [] k = "34" -> {3, 4} [] k = "h1" -> {1} [] OTHER -> {4}]
=============================================================================
