------------------------------- MODULE MCLan -------------------------------
EXTENDS Lan

(* The hosts a at one switch, b and c at a second one, b behind a hub; the switches
   are joined by two wires, one of them blocked, as the spanning tree leaves them.
   b and c have the same hash; the address of c has no zero byte. *)

MCSwitches == {"s1", "s2"}

MCHubs == {"u"}

MCHosts == {"a", "b", "c"}

MCWires == { <<<<"a", 1>>, <<"s1", 1>>>>, <<<<"s1", 2>>, <<"s2", 1>>>>,
             <<<<"s1", 3>>, <<"s2", 2>>>>, <<<<"s2", 3>>, <<"u", 1>>>>,
             <<<<"u", 2>>, <<"b", 1>>>>, <<<<"s2", 4>>, <<"c", 1>>>> }

MCWire ==
    [p \in {w[1] : w \in MCWires} \cup {w[2] : w \in MCWires} |->
        LET w == CHOOSE w \in MCWires : p \in {w[1], w[2]} IN
        IF w[1] = p THEN w[2] ELSE w[1]]

MCBlocked == {<<"s2", 2>>}

MChash8 == [h \in MCHosts |-> IF h = "a" THEN 1 ELSE 2]

MCchars == [h \in MCHosts |-> IF h = "c" THEN "long" ELSE ""]

MCended == [h \in MCHosts |-> h # "c"]

MCFlows == {<<"a", "b">>, <<"b", "a">>, <<"c", "b">>, <<"a", "c">>}

MCTypes == {"ip", "arp"}

ASSUME OneWay == LoopFree
=============================================================================
