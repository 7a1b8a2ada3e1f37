----------------------------- MODULE PacketFate -----------------------------
(* What a router promises of each packet it is given: that packet, or the answer
   it makes of it, leaves at most once; until then the router holds it in exactly
   one place; what has left does not come back. *)
CONSTANT Packets

VARIABLE fate

Init == fate = [p \in Packets |-> "new"]

Arrive(p) ==
    /\ fate[p] = "new"
    /\ \E f \in {"held", "sent", "dropped"} : fate' = [fate EXCEPT ![p] = f]

Leave(p) ==
    /\ fate[p] = "held"
    /\ \E f \in {"sent", "dropped"} : fate' = [fate EXCEPT ![p] = f]

(* An ARP answer sends all packets that waited for it. *)
LeaveTogether(s) ==
    /\ \A p \in s : fate[p] = "held"
    /\ fate' = [p \in Packets |-> IF p \in s THEN "sent" ELSE fate[p]]

Next == \/ \E p \in Packets : Arrive(p) \/ Leave(p)
        \/ \E s \in SUBSET Packets : LeaveTogether(s)

Spec == Init /\ [][Next]_fate
=============================================================================
