----------------------------- MODULE RouteTable -----------------------------
(* rtable.c and the lookup of ip_base.c (lab-12, the same in labs 11 to 17):
   the routes are a list in the order of their insertion.

   An address has Width bits. A route [dest, len, gw, iface] matches the
   addresses that agree with dest in their first len bits; its mask is the word
   whose first len bits are set, so masks compare as their lengths do. *)
EXTENDS Integers, Sequences, FiniteSets, SequencesExt

CONSTANTS
    Width,   \* bits of an address, 32 in the code
    Ifaces   \* the interfaces of the router

ASSUME WidthAssumption == Width \in Nat \ {0}

Addr == 0 .. 2^Width - 1

NoGateway == 0

Routes == [dest : Addr, len : 0 .. Width, gw : Addr, iface : Ifaces]

(* dst & mask, as the number its first len bits make. *)
Prefix(a, len) == a \div 2^(Width - len)

Matches(r, dst) == Prefix(dst, r.len) = Prefix(r.dest, r.len)

NoRoute == [none |-> TRUE]

(* The list is walked once; of equally long prefixes the first one stays. *)
Longer(selected, r, dst) ==
    Matches(r, dst) /\ (selected = NoRoute \/ selected.len < r.len)

longest_prefix_match(rtable, dst) ==
    LET walk[n \in 0 .. Len(rtable)] ==
            IF n = 0 THEN NoRoute
            ELSE LET selected == walk[n - 1]
                 IN  IF Longer(selected, rtable[n], dst) THEN rtable[n] ELSE selected
    IN  walk[Len(rtable)]

get_next_hop(r, dst) == IF r.gw # NoGateway THEN r.gw ELSE dst

=============================================================================
