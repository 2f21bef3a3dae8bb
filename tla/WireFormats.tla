---------------------------- MODULE WireFormats ----------------------------
(***************************************************************************)
(* The formats on the wire: Buffer and BufferList, NetParser and           *)
(* NetUnparser, InternetChecksum (libsponge/util), IPv4Header,             *)
(* IPv4Datagram, TCPHeader, TCPSegment, EthernetHeader, EthernetFrame and  *)
(* ARPMessage (libsponge/tcp_helpers).                                     *)
(*                                                                         *)
(* A buffer is a sequence of words, numbers below W (2^16 in the program); *)
(* a serializer returns a list of buffers, which one writev writes.        *)
(* Every field has a word of its own, and lengths, hlen and doff count     *)
(* words.  Fields that nothing reads (tos, id, ttl, uptr, ...) are left    *)
(* out.  A parser returns [result, header, rest]: the result is            *)
(* "NoError" or the ParseResult, the rest what it left unread.             *)
(***************************************************************************)
EXTENDS Integers, Sequences, SequencesExt

CONSTANT W

ASSUME WireAssumption == W \in Nat /\ W > 24

Word == 0..(W - 1)

\* Buffer::remove_prefix
Drop(buf, n) == SubSeq(buf, n + 1, Len(buf))

\* BufferList; its conversion to a Buffer throws for more than one buffer.
append(list, other) == list \o other
concatenate(list) == FlattenSeq(list)
AsBuffer(list) == CASE Len(list) = 0 -> <<>> [] Len(list) = 1 -> list[1]

\* NetParser reads 0 past the end of the buffer and remembers the error.
Read(buf, k) == IF k <= Len(buf) THEN buf[k] ELSE 0
ReadError(buf, n) == IF n <= Len(buf) THEN "NoError" ELSE "PacketTooShort"

\* InternetChecksum: the complement of the sum with the carries added back.
Folded[sum \in Nat] == IF sum < W THEN sum ELSE Folded[(sum \div W) + (sum % W)]
Checksum(initial, words) == W - 1 - Folded[FoldLeft(LAMBDA a, b : a + b, initial, words)]

-----------------------------------------------------------------------------
IPv4_LENGTH == 7
PROTO_TCP == 6

NewIPv4Header ==
    [ ver |-> 4, hlen |-> IPv4_LENGTH, len |-> 0, proto |-> PROTO_TCP,
      cksum |-> 0, src |-> 0, dst |-> 0 ]

IPv4Words(h) == <<h.ver, h.hlen, h.len, h.proto, h.cksum, h.src, h.dst>>

payload_length(h) == (h.len - h.hlen) % W

\* Mutant: the addresses are left out.
pseudo_cksum_short(h) == h.proto + payload_length(h)

pseudo_cksum(h) == h.src + h.dst + h.proto + payload_length(h)

\* The rest begins after the options only when the checks before them passed.
ParseIPv4Header(buf) ==
    LET fits == Len(buf) >= IPv4_LENGTH
        h    == IF ~fits THEN NewIPv4Header
                ELSE [ ver |-> buf[1], hlen |-> buf[2], len |-> buf[3], proto |-> buf[4],
                       cksum |-> buf[5], src |-> buf[6], dst |-> buf[7] ]
        early == CASE ~fits \/ Len(buf) < h.hlen -> "PacketTooShort"
                   [] h.ver # 4                  -> "WrongIPVersion"
                   [] h.hlen < IPv4_LENGTH       -> "HeaderTooShort"
                   [] Len(buf) # h.len           -> "TruncatedPacket"
                   [] OTHER                      -> "NoError"
    IN  IF early # "NoError"
          THEN [ result |-> early, header |-> h, rest |-> IF fits THEN Drop(buf, IPv4_LENGTH) ELSE buf ]
        ELSE [ result |-> IF Checksum(0, SubSeq(buf, 1, h.hlen)) = 0 THEN "NoError" ELSE "BadChecksum",
               header |-> h, rest |-> Drop(buf, h.hlen) ]

\* The result of the header's parser is not looked at.
ParseDatagram(buf) ==
    LET p == ParseIPv4Header(buf)
    IN  [ result |-> IF Len(p.rest) = payload_length(p.header) THEN "NoError" ELSE "PacketTooShort",
          header |-> p.header, payload |-> <<p.rest>> ]

\* Every datagram in the program has the version, the header length and, when
\* it is serialised, the payload that serialize() asks for.
SerializeDatagram(d) ==
    LET cksum == Checksum(0, IPv4Words([ d.header EXCEPT !.cksum = 0 ]))
    IN  append(<< IPv4Words([ d.header EXCEPT !.cksum = cksum ]) >>, d.payload)

-----------------------------------------------------------------------------
TCP_LENGTH == 8

NewTCPHeader ==
    [ sport |-> 0, dport |-> 0, seqno |-> 0, ackno |-> 0, doff |-> TCP_LENGTH, win |-> 0,
      ack |-> FALSE, rst |-> FALSE, syn |-> FALSE, fin |-> FALSE ]

FlagWord(h) ==
    (IF h.fin THEN 1 ELSE 0) + (IF h.syn THEN 2 ELSE 0) + (IF h.rst THEN 4 ELSE 0) + (IF h.ack THEN 8 ELSE 0)
Flag(word, bit) == (word \div bit) % 2 = 1

TCPWords(h, cksum) ==
    <<h.sport, h.dport, h.seqno, h.ackno, h.doff, FlagWord(h), h.win, cksum>>

\* A doff below the minimum ends TCPHeader::parse early, and its result is not
\* looked at either: the rest is then what follows the fixed header.
ParseTCPHeader(buf) ==
    [ header |-> [ sport |-> Read(buf, 1), dport |-> Read(buf, 2), seqno |-> Read(buf, 3),
                   ackno |-> Read(buf, 4), doff |-> Read(buf, 5), win |-> Read(buf, 7),
                   fin |-> Flag(Read(buf, 6), 1), syn |-> Flag(Read(buf, 6), 2),
                   rst |-> Flag(Read(buf, 6), 4), ack |-> Flag(Read(buf, 6), 8) ],
      read   |-> IF Read(buf, 5) < TCP_LENGTH THEN TCP_LENGTH ELSE Read(buf, 5) ]

\* Mutant: the checksum is not verified.
ParseSegment_trusting(buf, pseudo) ==
    LET p == ParseTCPHeader(buf)
    IN  [ result |-> ReadError(buf, p.read), header |-> p.header, payload |-> Drop(buf, p.read) ]

ParseSegment(buf, pseudo) ==
    LET p == ParseTCPHeader(buf)
    IN  [ result |-> IF Checksum(pseudo, buf) # 0 THEN "BadChecksum" ELSE ReadError(buf, p.read),
          header |-> p.header, payload |-> Drop(buf, p.read) ]

SerializeSegment(seg, pseudo) ==
    append(<< TCPWords(seg.header, Checksum(pseudo, TCPWords(seg.header, 0) \o seg.payload)) >>,
           <<seg.payload>>)

-----------------------------------------------------------------------------
Ethernet_LENGTH == 3
TYPE_IPv4 == 8
TYPE_ARP == 9
ETHERNET_BROADCAST == W - 1

\* A frame that is too short leaves the header as it was constructed, and is
\* accepted.
ParseFrame(buf) ==
    IF Len(buf) < Ethernet_LENGTH THEN [ dst |-> 0, src |-> 0, type |-> 0, payload |-> buf ]
    ELSE [ dst |-> buf[1], src |-> buf[2], type |-> buf[3], payload |-> Drop(buf, Ethernet_LENGTH) ]

SerializeFrame(f) == append(<< <<f.dst, f.src, f.type>> >>, f.payload)

ARP_LENGTH == 9
TYPE_ETHERNET == 1
ETH_SIZE == 6
IP_SIZE == 4
OPCODE_REQUEST == 1
OPCODE_REPLY == 2

NewARPMessage ==
    [ opcode |-> 0, sender_eth |-> 0, sender_ip |-> 0, target_eth |-> 0, target_ip |-> 0 ]

supported(buf) ==
    /\ buf[1] = TYPE_ETHERNET /\ buf[2] = TYPE_IPv4 /\ buf[3] = ETH_SIZE /\ buf[4] = IP_SIZE
    /\ buf[5] \in {OPCODE_REQUEST, OPCODE_REPLY}

ParseARP(buf) ==
    IF Len(buf) < ARP_LENGTH THEN [ result |-> "PacketTooShort" ]
    ELSE IF ~supported(buf) THEN [ result |-> "Unsupported" ]
    ELSE [ result |-> "NoError",
           msg |-> [ opcode |-> buf[5], sender_eth |-> buf[6], sender_ip |-> buf[7],
                     target_eth |-> buf[8], target_ip |-> buf[9] ] ]

\* Mutant: target before sender.
SerializeARP_swapped(m) ==
    <<TYPE_ETHERNET, TYPE_IPv4, ETH_SIZE, IP_SIZE, m.opcode,
      m.target_eth, m.target_ip, m.sender_eth, m.sender_ip>>

SerializeARP(m) ==
    <<TYPE_ETHERNET, TYPE_IPv4, ETH_SIZE, IP_SIZE, m.opcode,
      m.sender_eth, m.sender_ip, m.target_eth, m.target_ip>>

=============================================================================
