--------------------------- MODULE ReceiverSystem ---------------------------
(***************************************************************************)
(* A TCPReceiver between the network and the application that reads its    *)
(* stream.  The remote peer's segments cover pieces of one stream; the     *)
(* network delivers any of them, any number of times and in any order,     *)
(* which covers loss, duplication and reordering.                          *)
(***************************************************************************)
EXTENDS TCPReceiver, ReassemblerInvariant, PeerSends

CONSTANTS
    Capacity,   \* bytes the receiver may hold
    Isn,        \* the peer's initial sequence number
    Pieces      \* the [begin, len] pieces into which the peer cuts its stream

ASSUME SystemAssumption ==
    /\ Capacity \in Nat
    /\ Isn \in U32
    /\ Pieces \subseteq [ begin : Nat, len : Nat ]
    /\ StreamLen + M32 + Capacity < M64

VARIABLE receiver

Written == stream_out(receiver).written
WindowEdge == stream_out(receiver).readden + Capacity

\* No segment is older, or farther ahead, than half the sequence space.
Near(i, written) == i + 1 - written < HALF /\ written - (i + 1) <= HALF

Init == receiver = NewTCPReceiver

\* The segment of the peer for n bytes at index i.  A SYN takes the sequence
\* number before the first byte.
PeerSegment(i, n, syn_flag, fin_flag) ==
    [ seqno |-> wrap(IF syn_flag THEN i ELSE i + 1, Isn),
      syn |-> syn_flag, fin |-> fin_flag, payload |-> Substring(i, n) ]

SegmentReceived(p, syn_flag, fin_flag) ==
    /\ MaySend(p.begin, p.len, fin_flag, Written, WindowEdge)
    /\ Near(p.begin, Written)
    /\ syn_flag => p.begin = 0
    /\ receiver' = segment_received(receiver, Capacity,
                       PeerSegment(p.begin, p.len, syn_flag, fin_flag))

\* The peer's pure acknowledgments and keep-alives: no payload, no flag, any
\* sequence number it has used; -1 is the number of the SYN.
EmptySegmentReceived(i) ==
    /\ Near(i, Written)
    /\ WindowRespected => i <= WindowEdge
    /\ receiver' = segment_received(receiver, Capacity, PeerSegment(i, 0, FALSE, FALSE))

ReadOutput(n) ==
    /\ n <= Len(stream_out(receiver).buffer)
    /\ receiver' = [ receiver EXCEPT !.reassembler = PopOutput(@, n) ]

Next ==
    \/ \E p \in Pieces, s, f \in BOOLEAN : SegmentReceived(p, s, f)
    \/ \E i \in -1..StreamLen : EmptySegmentReceived(i)
    \/ \E n \in 1..Capacity : ReadOutput(n)

Spec == Init /\ [][Next]_receiver

-----------------------------------------------------------------------------
\* What the peer retransmits: the piece at its last acknowledgment (piece 0
\* with the SYN until the SYN is acknowledged), the FIN with the last piece.
Unacknowledged(p, syn_flag, fin_flag) ==
    /\ syn_flag <=> ~receiver.syn
    /\ fin_flag <=> p.begin + p.len = StreamLen
    /\ IF syn_flag THEN p.begin = 0 ELSE wrap(p.begin + 1, Isn) = receiver.ackno
    /\ MaySend(p.begin, p.len, fin_flag, Written, WindowEdge)

Retransmit ==
    \E p \in Pieces, s, f \in BOOLEAN :
        Unacknowledged(p, s, f) /\ SegmentReceived(p, s, f)

\* A retransmission is due that would change the receiver.
CanRetransmit ==
    \E p \in Pieces, s, f \in BOOLEAN :
        /\ Unacknowledged(p, s, f)
        /\ Near(p.begin, Written)
        /\ receiver # segment_received(receiver, Capacity, PeerSegment(p.begin, p.len, s, f))

CanRead == stream_out(receiver).buffer # <<>>

\* The peer's retransmission timer fires as long as something it may send is
\* unacknowledged and the network does not lose every copy; the application
\* reads what there is.  The two formulas are weak fairness with the enabling
\* conditions written out.
FairSpec ==
    /\ Spec
    /\ <>[]CanRetransmit => []<><<Retransmit>>_receiver
    /\ <>[]CanRead => []<><<\E n \in 1..Capacity : ReadOutput(n)>>_receiver

-----------------------------------------------------------------------------
ReceiverType ==
    [ ackno : U32, isn : U32, syn : BOOLEAN, fin : BOOLEAN,
      fin_not_count : BOOLEAN, reassembler : ReassemblerType ]

TypeOK == receiver \in ReceiverType

\* The inductive invariant behind OutputIsPrefix: the initial sequence number
\* is known as soon as a SYN was accepted, and the reassembler is sound.
ReceiverOK(rcv) ==
    /\ rcv.syn => rcv.isn = Isn
    /\ ReassemblerOK(rcv.reassembler, Capacity)

Inv == TypeOK /\ ReceiverOK(receiver)

\* Across wrap-around of the sequence numbers, loss, duplication, reordering
\* and overlap, the application reads the peer's stream in order and without
\* a gap (segment_received, unwrap, push_substring).
OutputIsPrefix ==
    LET o == stream_out(receiver)
    IN  /\ o.readden + Len(o.buffer) = o.written
        /\ o.written <= StreamLen
        /\ o.buffer = Substring(o.readden, Len(o.buffer))

\* What the ackno stands for: SYN, the bytes up to the first missing one and,
\* once all bytes are there and the FIN arrived, the FIN.
NextNeeded == Written + 1 + (IF receiver.fin_not_count THEN 0 ELSE 1)

\* "the sequence number of the first byte in the stream that the receiver
\* hasn't received" (tcp_receiver.hh): the ackno is that of the first byte
\* not yet written to the output, the FIN counting for one.
AckIsFirstMissing ==
    receiver.syn => receiver.ackno = wrap(NextNeeded, Isn)

\* The ackno never covers a byte, or the FIN, that the receiver does not
\* have: the peer would drop it and never send it again.
AckNeverAhead ==
    receiver.syn =>
        unwrap(receiver.ackno, Isn, Written)
            <= Written + 1 + (IF Written = StreamLen /\ receiver.fin THEN 1 ELSE 0)

\* The application sees the end of the stream only after its last byte.
EofOnlyAtEnd == stream_out(receiver).input_end => Written = StreamLen

\* The first sequence number beyond the advertised window.
AdvertisedEdge ==
    unwrap(receiver.ackno, Isn, Written) + window_size(receiver, Capacity)

\* The advertised window never shrinks from the right: what the peer was
\* once allowed to send stays allowed (ackno, window_size).
EdgeNeverShrinks ==
    [][ receiver.syn => AdvertisedEdge' >= AdvertisedEdge ]_receiver

\* The ackno never moves backwards.
AckNeverRetreats ==
    [][ receiver.syn => unwrap(receiver.ackno, Isn, Written)
                          <= unwrap(receiver'.ackno, Isn, Written') ]_receiver

\* With a peer that retransmits what is not acknowledged and a reader that
\* reads, the application reaches the end of the stream.
EventuallyEof == <>eof(stream_out(receiver))

=============================================================================
