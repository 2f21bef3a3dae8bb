-------------------------- MODULE NetworkInterface --------------------------
(***************************************************************************)
(* class NetworkInterface (libsponge/network_interface): sends datagrams   *)
(* as Ethernet frames, resolving next hops with ARP, and the queue that    *)
(* AsyncNetworkInterface (router.hh) adds for received datagrams.          *)
(*                                                                         *)
(* A frame is [type, dst, body]; the body is a datagram or an ARP message  *)
(* [opcode, sender_eth, sender_ip, target_ip].  Serialisation is modelled  *)
(* only where it fails: a datagram without its payload is not serialised,  *)
(* IPv4Datagram::serialize throws.                                         *)
(***************************************************************************)
EXTENDS Integers, Sequences, Functions

CONSTANTS
    MAPPING_TTL,    \* 30000 ms in the program
    REQUEST_TTL     \* 5000 ms in the program

ASSUME InterfaceAssumption == MAPPING_TTL \in Nat /\ REQUEST_TTL \in Nat

BROADCAST == "broadcast"

\* map_status: the age of a mapping, or -1 - the age of a request without reply.
NewNetworkInterface(eth, ip) ==
    [ ethernet_address |-> eth, ip_address |-> ip,
      addr_map |-> <<>>, map_status |-> <<>>, dgram_stage |-> <<>>,
      frames_out |-> <<>>, datagrams_out |-> <<>>, failure |-> "none" ]

Put(f, key, value) == [ k \in DOMAIN f \cup {key} |-> IF k = key THEN value ELSE f[k] ]
Erase(f, keys) == [ k \in DOMAIN f \ keys |-> f[k] ]

PushFrame(n, type, dst, body) ==
    [ n EXCEPT !.frames_out = Append(@, [ type |-> type, dst |-> dst, body |-> body ]) ]

-----------------------------------------------------------------------------
Stage(n, dgram, next_hop) ==
    [ n EXCEPT !.dgram_stage = Append(@, [ hop |-> next_hop, dgram |-> dgram ]) ]

\* Mutant: the datagram that causes the request is not kept.
RequestFor_drop(n, dgram, next_hop) ==
    PushFrame([ n EXCEPT !.map_status = Put(@, next_hop, -1) ], "arp", BROADCAST,
              [ opcode |-> "request", sender_eth |-> n.ethernet_address,
                sender_ip |-> n.ip_address, target_ip |-> next_hop ])

\* An unknown next hop: broadcast a request, keep the datagram.
RequestFor(n, dgram, next_hop) ==
    PushFrame([ Stage(n, dgram, next_hop) EXCEPT !.map_status = Put(@, next_hop, -1) ],
              "arp", BROADCAST,
              [ opcode |-> "request", sender_eth |-> n.ethernet_address,
                sender_ip |-> n.ip_address, target_ip |-> next_hop ])

send_datagram(n, dgram, next_hop) ==
    IF next_hop \in DOMAIN n.addr_map
      THEN PushFrame(n, "ip", n.addr_map[next_hop], dgram)
    ELSE IF next_hop \notin DOMAIN n.map_status
      THEN RequestFor(n, dgram, next_hop)
    ELSE IF n.map_status[next_hop] < 0
      THEN Stage(n, dgram, next_hop)
    ELSE PushFrame(n, "none", "none", <<>>)

Resolved(n, hop) == hop \in DOMAIN n.map_status /\ n.map_status[hop] >= 0

\* Mutant: the datagram sent stays staged.
StageVisit_kept(pass, k) ==
    LET n == pass.n
    IN  IF k > Len(n.dgram_stage) \/ ~Resolved(n, n.dgram_stage[k].hop) THEN pass
        ELSE [ pass EXCEPT !.n = send_datagram(n, n.dgram_stage[k].dgram, n.dgram_stage[k].hop) ]

\* The loop of send_stage_datagram visits the cells the vector had when it began
\* and erases the datagrams it sends, so the one behind an erased one is not
\* visited, and the last cells are visited after they were destroyed: they
\* still hold their next hop (hops), but the payload is gone, and serialize
\* throws.
StageVisit(pass, k) ==
    LET n == pass.n
        size == Len(n.dgram_stage)
    IN  IF n.failure # "none" THEN pass
        ELSE IF k > size THEN
          [ pass EXCEPT !.n.failure = IF Resolved(n, pass.hops[k]) THEN "wrong size" ELSE @ ]
        ELSE IF ~Resolved(n, n.dgram_stage[k].hop) THEN pass
        ELSE [ n |-> [ send_datagram(n, n.dgram_stage[k].dgram, n.dgram_stage[k].hop)
                         EXCEPT !.dgram_stage = SubSeq(@, 1, k - 1) \o SubSeq(@, k + 1, size) ],
               hops |-> [ j \in DOMAIN pass.hops |->
                            pass.hops[IF j \in k..(size - 1) THEN j + 1 ELSE j] ] ]

send_stage_datagram(n) ==
    LET cells == Len(n.dgram_stage)
        after[k \in 0..cells] ==
            IF k = 0 THEN [ n |-> n, hops |-> [ j \in 1..cells |-> n.dgram_stage[j].hop ] ]
            ELSE StageVisit(after[k - 1], k)
    IN  after[cells].n

-----------------------------------------------------------------------------
\* Mutant: the mapping is learned from the target fields.
Learn_target(n, msg) ==
    [ n EXCEPT !.addr_map = Put(@, msg.target_ip, msg.sender_eth),
               !.map_status = Put(@, msg.target_ip, 0) ]

\* Every ARP message teaches the mapping of its sender, its age starts at 0.
Learn(n, msg) ==
    [ n EXCEPT !.addr_map = Put(@, msg.sender_ip, msg.sender_eth),
               !.map_status = Put(@, msg.sender_ip, 0) ]

Answer(n, msg) ==
    IF msg.opcode = "request" /\ msg.target_ip = n.ip_address
      THEN PushFrame(n, "arp", msg.sender_eth,
                     [ opcode |-> "reply", sender_eth |-> n.ethernet_address,
                       sender_ip |-> n.ip_address, target_ip |-> msg.sender_ip ])
      ELSE n

\* AsyncNetworkInterface::recv_frame keeps the datagram for the owner.
HandUp(n, dgram) == [ n EXCEPT !.datagrams_out = Append(@, dgram) ]

\* A datagram for this interface is handed up; after any other frame the staged
\* datagrams are tried.
recv_frame(n, frame) ==
    IF frame.type = "ip" /\ frame.dst = n.ethernet_address
      THEN HandUp(n, frame.body)
    ELSE IF frame.type = "arp"
      THEN send_stage_datagram(Answer(Learn(n, frame.body), frame.body))
    ELSE send_stage_datagram(n)

-----------------------------------------------------------------------------
Aged(status, ms) == IF status >= 0 THEN status + ms ELSE status - ms

\* An expired mapping is forgotten, of an expired request only its status.
Expire(n, keys) ==
    [ n EXCEPT !.map_status = Erase(@, keys),
               !.addr_map = Erase(@, { k \in keys : n.map_status[k] >= 0 }) ]

\* The loop of tick erases the element it stands on, and its next step reads the
\* freed node: undefined.  It goes on with the next key, or ends (the check of
\* empty() does this on purpose), or the program crashes.
tick(n, ms) ==
    LET aged    == [ k \in DOMAIN n.map_status |-> Aged(n.map_status[k], ms) ]
        expired == { k \in DOMAIN aged : aged[k] >= MAPPING_TTL \/ aged[k] <= -(REQUEST_TTL + 1) }
        upto(last) == [ Expire(n, { k \in expired : k <= last }) EXCEPT
                          !.map_status = [ k \in DOMAIN @ |-> IF k <= last THEN aged[k] ELSE @[k] ] ]
        all     == [ Expire(n, expired) EXCEPT !.map_status = [ k \in DOMAIN @ |-> aged[k] ] ]
        crash   == [ n EXCEPT !.failure = "crash" ]
    IN  { send_stage_datagram(m) : m \in { upto(k) : k \in expired } \cup {all} }
          \cup (IF expired = {} THEN {} ELSE {crash})

=============================================================================
