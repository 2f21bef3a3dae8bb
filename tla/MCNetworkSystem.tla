--------------------------- MODULE MCNetworkSystem ---------------------------
(* A router with two interfaces, and a host on the link of each: a is the default
   router, b the gateway to address 4. *)
EXTENDS NetworkSystem

MCIp == [ i \in {"r0", "r1", "a", "b"} |->
            CASE i = "r0" -> 1 [] i = "a" -> 2 [] i = "r1" -> 5 [] i = "b" -> 6 ]
MCNextHop == [ h \in {"a", "b"} |-> IF h = "a" THEN 1 ELSE 5 ]
MCRouterIfcs == <<"r0", "r1">>
MCLinks == { {"r0", "a"}, {"r1", "b"} }

R(p, l, hop, i) == [ prefix |-> p, length |-> l, next_hop |-> hop, interface |-> i ]
MCTable == << R(0, 0, {2}, "r0"), R(4, 1, {}, "r1"), R(4, 3, {6}, "r1") >>
MCCandidates == ToSet(MCTable) \cup { R(5, 2, {}, "r0"), R(7, 3, {}, "r1"), R(4, 1, {}, "r0") }

Dgram(id, from, dst, ttl) == [ id |-> id, from |-> from, dst |-> dst, ttl |-> ttl ]
MCTraffic ==
    { Dgram(1, "a", 6, 2), Dgram(2, "b", 3, 2), Dgram(3, "b", 4, 2), Dgram(4, "a", 6, 1) }

\* Datagrams arrive only where they are to in a network wired like this one.
ASSUME MCNetworkAssumption == WellWired

=============================================================================
