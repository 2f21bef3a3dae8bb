--------------------------- MODULE AdapterSystem ---------------------------
(***************************************************************************)
(* The datagram adapters (libsponge/tcp_helpers/fd_adapter, tcp_over_ip,   *)
(* tuntap_adapter, lossy_fd_adapter): a client, a listening server and a   *)
(* stranger exchange segments in UDP payloads, in IPv4 datagrams on a TUN  *)
(* device, or in Ethernet frames on a TAP device.  On the way a packet may *)
(* be damaged in one word or cut short, and any host may read it.          *)
(*                                                                         *)
(* The next hop of the TAP adapter is known: NetworkSystem models how it   *)
(* is resolved; here an ARP message is only written and parsed.  The       *)
(* source address of a UDP datagram is what recvfrom reports (external).   *)
(***************************************************************************)
EXTENDS WireFormats

CONSTANTS
    Addr,           \* the address of every host: a function to [ip, port]
    Eth,            \* their Ethernet addresses
    Segments,       \* what TCP writes: [header, payload], the ports not set
    Damages         \* the values a damaged word may get

Host == {"client", "server", "stranger"}

ASSUME AdapterAssumption ==
    /\ Addr \in [ Host -> [ ip : Word, port : Word ] ]
    /\ Eth \in [ Host -> Word \ {ETHERNET_BROADCAST} ]
    /\ Damages \subseteq Word

Nobody == [ ip |-> 0, port |-> 0 ]
None == [ none |-> TRUE ]

VARIABLES
    medium,     \* "udp", "tun" or "tap"
    adapter,    \* of each host: _cfg and _listen
    packet,     \* on the wire, with what was written; or None
    got,        \* what the read just made returned, with what was written
    callers     \* history: the hosts that wrote a SYN to the server

vars == <<medium, adapter, packet, got, callers>>

NewAdapter == [ source |-> Nobody, destination |-> Nobody, listening |-> FALSE ]

\* What connect() and listen_and_accept() are called with; the server is bound
\* to address 0.
Calling(h) == [ NewAdapter EXCEPT !.source = Addr[h], !.destination = Addr["server"] ]
Listening(h) ==
    [ NewAdapter EXCEPT !.source = [ ip |-> 0, port |-> Addr[h].port ], !.listening = TRUE ]

Init ==
    /\ medium \in {"udp", "tun", "tap"}
    /\ adapter = [ h \in Host |-> IF h = "server" THEN Listening(h) ELSE Calling(h) ]
    /\ packet = None /\ got = None
    /\ callers = {}

-----------------------------------------------------------------------------
\* The ports are those of the adapter.
WithPorts(a, seg) ==
    [ seg EXCEPT !.header.sport = a.source.port, !.header.dport = a.destination.port ]

wrap_tcp_in_ip(a, seg) ==
    LET h == [ NewIPv4Header EXCEPT !.src = a.source.ip, !.dst = a.destination.ip,
                                    !.len = IPv4_LENGTH + seg.header.doff + Len(seg.payload) ]
    IN  [ header |-> h, payload |-> SerializeSegment(seg, pseudo_cksum(h)) ]

HostAt(ip) == { h \in Host : Addr[h].ip = ip }
EthOf(ip) == IF HostAt(ip) = {} THEN ETHERNET_BROADCAST ELSE Eth[CHOOSE h \in HostAt(ip) : TRUE]

\* The frame that the interface of h makes of its datagram.
InFrame(h, d) ==
    [ dst |-> EthOf(adapter[h].destination.ip), src |-> Eth[h], type |-> TYPE_IPv4,
      payload |-> SerializeDatagram(d) ]

OnWire(h, seg) ==
    CASE medium = "udp" -> SerializeSegment(seg, 0)
      [] medium = "tun" -> SerializeDatagram(wrap_tcp_in_ip(adapter[h], seg))
      [] medium = "tap" -> SerializeFrame(InFrame(h, wrap_tcp_in_ip(adapter[h], seg)))

\* sendto, or a write to the device: one packet.
Sent(h, destination, wrote, list) ==
    [ by |-> h, to |-> destination, wrote |-> wrote, words |-> concatenate(list), damaged |-> FALSE ]

\* write(); the lossy adapter may drop the segment instead (nothing happens).
Write(h, seg) ==
    LET out == WithPorts(adapter[h], seg)
    IN  /\ packet = None /\ ~adapter[h].listening
        /\ packet' = Sent(h, adapter[h].destination, out, OnWire(h, out))
        /\ callers' = IF seg.header.syn /\ ~seg.header.rst THEN callers \cup {h} ELSE callers
        /\ got' = None
        /\ UNCHANGED <<medium, adapter>>

\* A host asks for the Ethernet address of the server (NetworkInterface).
WriteARP(h) ==
    LET msg   == [ NewARPMessage EXCEPT !.opcode = OPCODE_REQUEST, !.sender_eth = Eth[h],
                                        !.sender_ip = Addr[h].ip, !.target_ip = Addr["server"].ip ]
        frame == [ dst |-> ETHERNET_BROADCAST, src |-> Eth[h], type |-> TYPE_ARP,
                   payload |-> << SerializeARP(msg) >> ]
    IN  /\ packet = None /\ medium = "tap" /\ h # "server"
        /\ packet' = Sent(h, Addr["server"], msg, SerializeFrame(frame))
        /\ got' = None
        /\ UNCHANGED <<medium, adapter, callers>>

-----------------------------------------------------------------------------
\* A difference of W - 1 (0 and all ones) is invisible to the checksum.
Visible(old, new) == (old - new) % (W - 1) # 0

Damage(k, v) ==
    /\ packet # None /\ ~packet.damaged
    /\ k \in DOMAIN packet.words /\ Visible(packet.words[k], v)
    /\ packet' = [ packet EXCEPT !.words[k] = v, !.damaged = TRUE ]
    /\ UNCHANGED <<medium, adapter, got, callers>>

Cut(n) ==
    /\ packet # None /\ ~packet.damaged
    /\ n < Len(packet.words)
    /\ packet' = [ packet EXCEPT !.words = SubSeq(@, 1, n), !.damaged = TRUE ]
    /\ UNCHANGED <<medium, adapter, got, callers>>

-----------------------------------------------------------------------------
\* What a read does: the adapter after it, and the segment or None.
Refused(a) == [ adapter |-> a, seg |-> None ]
Returns(a, p) == [ adapter |-> a, seg |-> [ header |-> p.header, payload |-> p.payload ] ]

Opens(p) == p.header.syn /\ ~p.header.rst

\* The first SYN decides who the peer is.
Latch(a, source, destination) ==
    [ a EXCEPT !.source = source, !.destination = destination, !.listening = FALSE ]

unwrap_tcp_in_ip(a, d) ==
    LET p    == ParseSegment(AsBuffer(d.payload), pseudo_cksum(d.header))
        next == IF a.listening
                  THEN Latch(a, [ a.source EXCEPT !.ip = d.header.dst ],
                             [ ip |-> d.header.src, port |-> p.header.sport ])
                  ELSE a
    IN  IF \/ ~a.listening /\ (d.header.dst # a.source.ip \/ d.header.src # a.destination.ip)
           \/ d.header.proto # PROTO_TCP
           \/ p.result # "NoError"
           \/ p.header.dport # a.source.port
           \/ a.listening /\ ~Opens(p)
           \/ p.header.sport # next.destination.port
          THEN Refused(a) ELSE Returns(next, p)

ReadDatagram(a, buf) ==
    LET d == ParseDatagram(buf) IN IF d.result # "NoError" THEN Refused(a) ELSE unwrap_tcp_in_ip(a, d)

\* UDPSocket::recv
recv(pkt) == [ source_address |-> Addr[pkt.by], payload |-> pkt.words ]

ReadUDP(a, datagram) ==
    LET p == ParseSegment(datagram.payload, 0)
    IN  IF \/ ~a.listening /\ datagram.source_address # a.destination
           \/ p.result # "NoError"
           \/ a.listening /\ ~Opens(p)
          THEN Refused(a)
        ELSE Returns(IF a.listening THEN Latch(a, a.source, datagram.source_address) ELSE a, p)

\* NetworkInterface::recv_frame: a datagram is handed up, an ARP message used.
ReadFrame(h, a, buf) ==
    LET f == ParseFrame(buf)
        m == ParseARP(f.payload)
    IN  IF f.type = TYPE_IPv4 /\ f.dst = Eth[h] THEN ReadDatagram(a, f.payload)
        ELSE IF f.type = TYPE_ARP /\ m.result = "NoError" THEN [ adapter |-> a, seg |-> m.msg ]
        ELSE Refused(a)

ReadBy(h) ==
    LET a == adapter[h]
    IN  CASE medium = "udp" -> ReadUDP(a, recv(packet))
          [] medium = "tun" -> ReadDatagram(a, packet.words)
          [] medium = "tap" -> ReadFrame(h, a, packet.words)

\* read(); the lossy adapter may drop what was read, after it was read.
Deliver(h, dropped) ==
    LET r == ReadBy(h)
    IN  /\ packet # None /\ h # packet.by
        /\ adapter' = [ adapter EXCEPT ![h] = r.adapter ]
        /\ got' = [ at |-> h, by |-> packet.by, wrote |-> packet.wrote, damaged |-> packet.damaged,
                    dropped |-> dropped, seg |-> IF dropped THEN None ELSE r.seg ]
        /\ packet' = None
        /\ UNCHANGED <<medium, callers>>

Next ==
    \/ \E h \in Host : \E seg \in Segments : Write(h, seg)
    \/ \E h \in Host : WriteARP(h)
    \/ \E k \in 1..(W - 1), v \in Damages : Damage(k, v)
    \/ \E n \in 0..(W - 1) : Cut(n)
    \/ \E h \in Host, dropped \in BOOLEAN : Deliver(h, dropped)

Spec == Init /\ [][Next]_vars

-----------------------------------------------------------------------------
IsSegment(x) == "header" \in DOMAIN x

\* A read never returns anything but the segment that was written, damaged or
\* not on the way, and only what the host's peer wrote: the headers that
\* IPv4Datagram::parse and TCPSegment::parse fail to check are covered by the
\* checksum of the segment and its pseudo header.
Unforged ==
    got # None /\ IsSegment(got.seg) =>
        got.seg = got.wrote /\ adapter[got.at].destination = Addr[got.by]

\* A listening adapter stops listening for a host that wrote it a SYN, and then
\* writes to that host from the address that host had called.
PeerIsCaller ==
    LET a == adapter["server"]
    IN  ~a.listening => \E h \in callers :
            /\ a.destination = Addr[h]
            /\ medium # "udp" => a.source = Addr["server"]

\* What a host writes to its peer arrives as it was written, if nothing happens
\* to it on the way, and so does an ARP message.
NothingRefused ==
    [][ got' # None /\ ~got'.damaged /\ ~got'.dropped =>
          LET a == adapter[got'.at]
          IN  /\ ~IsSegment(got'.wrote) => got'.seg = got'.wrote
              /\ IsSegment(got'.wrote) /\ packet.to = Addr[got'.at]
                 /\ ~a.listening /\ a.destination = Addr[got'.by]
                   => got'.seg = got'.wrote ]_vars

=============================================================================
