---------------------------- MODULE NetworkSystem ----------------------------
(***************************************************************************)
(* A router and the hosts attached to it (apps/network_simulator; the      *)
(* network thread of apps/lab7 has the same parts).  Frames travel one at  *)
(* a time to every other interface of their link; the batches of           *)
(* exchange_frames are one of the orders this allows.  Either the router   *)
(* routes when it is asked to (network_simulator) or with every frame it   *)
(* receives (lab7).                                                        *)
(***************************************************************************)
EXTENDS Router, FiniteSets

CONSTANTS
    RouterIfcs,     \* the router's interfaces, in order
    Hosts,          \* each host has one interface, with its name
    Ip,             \* the address of every interface
    NextHop,        \* the router's address each host sends to
    Links,          \* the sets of interfaces that share a medium
    Candidates,     \* routes that may be added ...
    Table,          \* ... and the sequence of routes with which traffic starts
    Traffic,        \* the datagrams: [id, from, dst, ttl]
    MaxSent,        \* bound: datagrams sent
    MaxLoss         \* bound: frames lost

Ifc == ToSet(RouterIfcs) \cup Hosts

Address == 0..(Pow2[AddressBits] - 1)

ASSUME NetworkAssumption ==
    /\ UNION Links = Ifc /\ Hosts \cap ToSet(RouterIfcs) = {}
    /\ RouterIfcs \in Seq(ToSet(RouterIfcs))
    /\ \A i \in Ifc : Ip[i] \in Address
    /\ \A h \in Hosts : NextHop[h] \in Address
    /\ Candidates \subseteq [ prefix : Address, length : 0..AddressBits,
                              next_hop : SUBSET Address, interface : ToSet(RouterIfcs) ]
    /\ Table \in Seq(Candidates)
    /\ Traffic \subseteq [ id : Nat \ {0}, from : Hosts, dst : Address, ttl : Nat ]

VARIABLES
    ifcs,       \* the interfaces
    routes,     \* the router's table
    sent,       \* the datagrams hosts have sent
    arrived,    \* [at, dgram]: those a host has taken from its interface
    lost        \* the frames lost

vars == <<ifcs, routes, sent, arrived, lost>>

\* An exception ends the program.
Running == \A i \in Ifc : ifcs[i].failure = "none"

Init ==
    /\ ifcs = [ i \in Ifc |-> NewNetworkInterface(i, Ip[i]) ]
    /\ routes = <<>>
    /\ sent = {}
    /\ arrived = {}
    /\ lost = <<>>

AddRoute(r) ==
    /\ sent = {} /\ Len(routes) < Len(Table)
    /\ routes' = add_route(routes, r)
    /\ UNCHANGED <<ifcs, sent, arrived, lost>>

\* Host::send_to
HostSends(t) ==
    /\ Running /\ routes = Table
    /\ t \notin sent /\ Cardinality(sent) < MaxSent
    /\ sent' = sent \cup {t}
    /\ ifcs' = [ ifcs EXCEPT ![t.from] =
                   send_datagram(@, [ id |-> t.id, dst |-> t.dst, ttl |-> t.ttl ], NextHop[t.from]) ]
    /\ UNCHANGED <<routes, arrived, lost>>

LinkOf(i) == CHOOSE l \in Links : i \in l

\* deliver: one frame of interface i to the others on its link.
Delivered(i) ==
    [ j \in Ifc |->
        IF j = i THEN [ ifcs[i] EXCEPT !.frames_out = Tail(@) ]
        ELSE IF j \in LinkOf(i) THEN recv_frame(ifcs[j], Head(ifcs[i].frames_out))
        ELSE ifcs[j] ]

Transfer(i) ==
    /\ Running /\ ifcs[i].frames_out # <<>>
    /\ ifcs' = Delivered(i)
    /\ UNCHANGED <<routes, sent, arrived, lost>>

\* The network thread of lab7 gives a frame to the router and routes at once.
TransferAndRoute(h) ==
    LET heard == Delivered(h)
    IN  /\ Running /\ ifcs[h].frames_out # <<>>
        /\ \A i \in Ifc : heard[i].failure = "none"
        /\ ifcs' = route(heard, RouterIfcs, routes)
        /\ UNCHANGED <<routes, sent, arrived, lost>>

Lose(i) ==
    /\ Running /\ ifcs[i].frames_out # <<>> /\ Len(lost) < MaxLoss
    /\ lost' = Append(lost, Head(ifcs[i].frames_out))
    /\ ifcs' = [ ifcs EXCEPT ![i].frames_out = Tail(@) ]
    /\ UNCHANGED <<routes, sent, arrived>>

Route ==
    /\ Running /\ \E i \in ToSet(RouterIfcs) : ifcs[i].datagrams_out # <<>>
    /\ ifcs' = route(ifcs, RouterIfcs, routes)
    /\ UNCHANGED <<routes, sent, arrived, lost>>

\* Host::check
HostChecks(h) ==
    /\ Running /\ ifcs[h].datagrams_out # <<>>
    /\ arrived' = arrived \cup
         { [ at |-> h, dgram |-> ifcs[h].datagrams_out[k] ] : k \in DOMAIN ifcs[h].datagrams_out }
    /\ ifcs' = [ ifcs EXCEPT ![h].datagrams_out = <<>> ]
    /\ UNCHANGED <<routes, sent, lost>>

\* Time passes for one interface.
Tick(i) ==
    /\ Running /\ routes = Table
    /\ \E n \in tick(ifcs[i], 1) : ifcs' = [ ifcs EXCEPT ![i] = n ]
    /\ UNCHANGED <<routes, sent, arrived, lost>>

Next ==
    \/ \E r \in Candidates : AddRoute(r)
    \/ \E t \in Traffic : HostSends(t)
    \/ \E i \in Ifc : Transfer(i) \/ Lose(i) \/ Tick(i)
    \/ Route
    \/ \E h \in Hosts : HostChecks(h) \/ TransferAndRoute(h)

\* Links, hosts and router keep going; nothing has to wait for the clock.
Spec ==
    /\ Init /\ [][Next]_vars
    /\ WF_vars(Route)
    /\ \A i \in Ifc : WF_vars(Transfer(i))
    /\ \A h \in Hosts : WF_vars(HostChecks(h))

-----------------------------------------------------------------------------
\* A route applies when its first length bits are those of the destination.
Bit(x, k) == (x \div Pow2[AddressBits - k]) % 2
Applies(r, dst) == \A k \in 1..r.length : Bit(r.prefix, k) = Bit(dst, k)

\* The route taken applies, no longer one does, and no earlier one of the same
\* length; there is none only if no route applies (find_longest_prefix).
LongestPrefix ==
    \A dst \in Address :
        LET idx == find_longest_prefix(routes, dst)
        IN  IF idx = 0 THEN \A k \in DOMAIN routes : ~Applies(routes[k], dst)
            ELSE /\ Applies(routes[idx], dst)
                 /\ \A k \in DOMAIN routes : Applies(routes[k], dst) =>
                       \/ routes[k].length < routes[idx].length
                       \/ routes[k].length = routes[idx].length /\ idx <= k

\* An interface knows an address exactly as long as it has not expired, and
\* what it knows is the Ethernet address of the owner (recv_frame, tick).
MappingsTrue ==
    \A i \in Ifc :
        LET n == ifcs[i]
        IN  /\ DOMAIN n.addr_map = { a \in DOMAIN n.map_status : n.map_status[a] >= 0 }
            /\ \A a \in DOMAIN n.addr_map : Ip[n.addr_map[a]] = a

\* Where the datagram with this id is: staged, in a frame, waiting in a queue,
\* arrived or lost.
CountIn(seq, id, Get(_)) ==
    Cardinality({ k \in DOMAIN seq : Get(seq[k]) = id })
FrameId(f) == IF f.type = "ip" THEN f.body.id ELSE 0
Copies(id) ==
    LET at(i) == CountIn(ifcs[i].dgram_stage, id, LAMBDA s : s.dgram.id)
                   + CountIn(ifcs[i].frames_out, id, FrameId)
                   + CountIn(ifcs[i].datagrams_out, id, LAMBDA d : d.id)
    IN  SumFunction([ i \in Ifc |-> at(i) ])
          + Cardinality({ a \in arrived : a.dgram.id = id }) + CountIn(lost, id, FrameId)

\* The router forwards it: it has time to live, and a route.
Routable(t) == t.ttl > 1 /\ \E k \in DOMAIN Table : Applies(Table[k], t.dst)

\* No datagram is sent twice or forgotten: a datagram the router does not drop
\* is in exactly one place, and a dropped one in none.
Conserved ==
    \A t \in sent :
        IF Running /\ Routable(t) THEN Copies(t.id) = 1 ELSE Copies(t.id) <= 1

\* The address the longest route sends a destination to.
HopFor(dst) ==
    LET applicable == { k \in DOMAIN Table : Applies(Table[k], dst) }
        best == CHOOSE k \in applicable : \A j \in applicable :
                  Table[j].length < Table[k].length \/ (Table[j].length = Table[k].length /\ k <= j)
    IN  IF Table[best].next_hop = {} THEN dst ELSE CHOOSE h \in Table[best].next_hop : TRUE

\* The next hop of a host is not a host, and the router has at most one
\* interface on each link (the topology that class Network sets up).
WellWired ==
    /\ \A h \in Hosts, i \in Ifc : Ip[i] = NextHop[h] => i \notin Hosts
    /\ \A i, j \in ToSet(RouterIfcs) : j \in LinkOf(i) => j = i

\* What a host receives was sent to it or is to be forwarded by it, and the
\* router has reduced the time to live once ("received unexpected Internet
\* datagram", Host::check).
ArrivesRight ==
    \A a \in arrived : \E t \in sent :
        /\ a.dgram = [ id |-> t.id, dst |-> t.dst, ttl |-> t.ttl - 1 ]
        /\ Routable(t) /\ Ip[a.at] = HopFor(t.dst)

\* Every datagram with a route to a host arrives, unless frames are lost or the
\* program fails.
EventuallyArrives ==
    []<>( \/ ~Running \/ lost # <<>>
          \/ \A t \in sent : Routable(t) => \E a \in arrived : a.dgram.id = t.id )

\* "IPv4Datagram::serialize: payload is wrong size" (ipv4_datagram.cc) is an
\* error of the caller that never happens.
PayloadsWhole == \A i \in Ifc : ifcs[i].failure # "wrong size"

=============================================================================
