------------------------------- MODULE Router -------------------------------
(***************************************************************************)
(* class Router (libsponge/router): longest-prefix-match routing between   *)
(* the interfaces of a machine.  A route is [prefix, length, next_hop,     *)
(* interface]; next_hop is a set with the address, empty on a directly     *)
(* attached network.  A datagram has at least the fields dst and ttl.      *)
(***************************************************************************)
EXTENDS NetworkInterface, SequencesExt

CONSTANT AddressBits    \* 32 in the program

ASSUME RouterAssumption == AddressBits \in Nat \ {0}

add_route(routes, route) == Append(routes, route)

\* 2 ^ k, as the recursion that defines it.
Pow2[k \in 0..AddressBits] == IF k = 0 THEN 1 ELSE 2 * Pow2[k - 1]

\* (mask & dst) == (mask & route_prefix), for a mask of the length high bits: the mask 0
\* of a default route is not computed by a shift, of which 32 places are too many.
Matches(route, dst) ==
    LET low == Pow2[AddressBits - route.length]
    IN  route.length = 0 \/ dst \div low = route.prefix \div low

\* Mutant: among routes of the same length the last one wins.
Better_last(best, route) == best.length <= route.length

Better(best, route) == best.length < route.length

\* The index of the first of the longest matching routes, 0 if there is none.
find_longest_prefix(routes, dst) ==
    FoldLeftDomain(LAMBDA best, k :
        IF Matches(routes[k], dst) /\ Better(best, routes[k])
          THEN [ length |-> routes[k].length, idx |-> k ] ELSE best,
        [ length |-> -1, idx |-> 0 ], routes).idx

\* Mutant: the time to live is not reduced.
Forwarded_ttl(dgram) == dgram

Forwarded(dgram) == [ dgram EXCEPT !.ttl = @ - 1 ]

\* ifcs: the interfaces by number.  A datagram whose time to live is used up, or
\* that matches no route, is dropped.
route_one_datagram(ifcs, routes, dgram) ==
    LET idx == find_longest_prefix(routes, dgram.dst)
        hop == routes[idx].next_hop
    IN  IF dgram.ttl <= 1 \/ idx = 0 THEN ifcs
        ELSE [ ifcs EXCEPT ![routes[idx].interface] =
                 send_datagram(@, Forwarded(dgram),
                               IF hop = {} THEN dgram.dst ELSE CHOOSE h \in hop : TRUE) ]

\* Go through the interfaces in order and route every datagram received.
route(ifcs, order, routes) ==
    LET received == FlattenSeq([ k \in DOMAIN order |-> ifcs[order[k]].datagrams_out ])
        emptied  == [ i \in DOMAIN ifcs |->
                        IF i \in ToSet(order) THEN [ ifcs[i] EXCEPT !.datagrams_out = <<>> ]
                        ELSE ifcs[i] ]
    IN  FoldLeft(LAMBDA acc, dgram : route_one_datagram(acc, routes, dgram), emptied, received)

=============================================================================
