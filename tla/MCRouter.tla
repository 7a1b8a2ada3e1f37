------------------------------ MODULE MCRouter ------------------------------
(* A router between two networks, 0 to 3 at the interface a and 4 to 5 at b, with
   a further router at 5 behind which address 6 lies; there is no route to 7. *)
EXTENDS Router

CONSTANTS p1, p2

MCWidth == 3

MCIfaces == {"a", "b"}

MCIfaceIp == [i \in MCIfaces |-> IF i = "a" THEN 1 ELSE 4]

MCrtable ==
    << [dest |-> 0, len |-> 1, gw |-> 0, iface |-> "a"],
       [dest |-> 4, len |-> 2, gw |-> 0, iface |-> "b"],
       [dest |-> 6, len |-> 3, gw |-> 5, iface |-> "b"] >>

Packet(at, src, dst, echo, ttl) ==
    [at |-> at, src |-> src, dst |-> dst, echo |-> echo, ttl |-> ttl]

(* Through the router, both ways, near and far; with the time over; to no
   network; to the router's two addresses; from a source without a route. *)
MCArrivals ==
    { Packet("a", 2, 6, FALSE, 2), Packet("b", 6, 3, FALSE, 1),
      Packet("a", 2, 7, FALSE, 2), Packet("a", 2, 1, TRUE, 2),
      Packet("b", 7, 4, TRUE, 2),
      Packet("b", 7, 4, FALSE, 2), Packet("b", 7, 3, FALSE, 1) }

MCHosts == {2, 3, 5}

MCPackets == {p1, p2}
=============================================================================
