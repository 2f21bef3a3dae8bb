---------------------------- MODULE SenderSystem ----------------------------
(***************************************************************************)
(* A TCPSender driven the way TCPConnection drives it: the application     *)
(* writes and ends its stream, acknowledgments arrive, time passes; after  *)
(* each of these calls the connection calls fill_window and takes the      *)
(* segments the sender queued (TCPConnection::segment_sends).              *)
(***************************************************************************)
EXTENDS TCPSender, StreamSource

CONSTANTS
    Capacity,       \* of the outgoing stream
    Isn,
    MaxWindow,      \* bound: the largest window the peer advertises
    MaxRetx,        \* TCPConfig::MAX_RETX_ATTEMPTS
    TickSize,       \* milliseconds between two calls of tick
    MaxIdle         \* bound: on the clock while nothing is in flight

ASSUME SenderSystemAssumption ==
    /\ Capacity \in Nat /\ MaxWindow \in Nat /\ MaxRetx \in Nat /\ MaxIdle \in Nat
    /\ Isn \in U32
    /\ TickSize \in Nat \ {0}
    /\ StreamLen + 2 + M32 + MaxWindow <= M64

VARIABLES
    sender,
    peer,       \* the last acknowledgment of the peer that arrived, the right
                \* edge of the largest window it has advertised, and how far its
                \* acknowledgments can be trusted so far (Trust)
    waited      \* the time since the oldest segment in flight was last sent, or
                \* since the last acknowledgment of new data, if that is later

vars == <<sender, peer, waited>>

Outstanding(s) == s.segments_in_flight # <<>>

\* segment_sends: nothing before connect(), then fill the window; the queue was
\* drained by the call before.
Sends(s) == IF s.syn THEN fill_window(s) ELSE s

\* The connection has not been given up after too many retransmissions.
Active(s) == s.consecutive_retrans <= MaxRetx

Drained == [ sender EXCEPT !.segments_out = <<>> ]

\* The time the oldest segment in flight has waited after a call that turned
\* the sender into s.
Waiting(s) == IF Outstanding(sender) /\ Outstanding(s) THEN waited ELSE 0

Init ==
    /\ sender = NewTCPSender(Isn)
    /\ peer = [ ack |-> 0, edge |-> 0, acks |-> "in order" ]
    /\ waited = 0

Connect ==
    /\ ~sender.syn
    /\ sender' = fill_window(sender)
    /\ waited' = 0
    /\ UNCHANGED peer

\* TCPConnection::write; the bytes beyond the capacity are written later.
Write(n) ==
    LET data == Substring(sender.stream.written, n)
    IN  /\ sender.stream.written + n <= StreamLen
        /\ ~sender.stream.input_end
        /\ n <= remaining_capacity(sender.stream, Capacity)
        /\ sender' = Sends([ Drained EXCEPT !.stream = write(@, Capacity, data) ])
        /\ waited' = Waiting(sender')
        /\ UNCHANGED peer

EndInputStream ==
    /\ sender.stream.written = StreamLen
    /\ ~sender.stream.input_end
    /\ sender' = Sends([ Drained EXCEPT !.stream = end_input(@) ])
    /\ waited' = Waiting(sender')
    /\ UNCHANGED peer

\* A peer acknowledges what it has, and never takes back window it advertised.
\* Its acknowledgment (absolute number a, window w) is the latest one, or one
\* overtaken by a later one; or anything at all, even a number never sent.
Latest(a, w) == MaxOf(peer.ack, 1) <= a /\ a <= sender.next_seqno /\ peer.edge <= a + w
Overtaken(a, w) == 1 <= a /\ a <= peer.ack /\ a + w <= peer.edge

Trust(a, w) ==
    IF Latest(a, w) THEN peer.acks
    ELSE IF Overtaken(a, w) /\ peer.acks # "any" THEN "reordered"
    ELSE "any"

\* TCPConnection::segment_received for a segment with an acknowledgment; one
\* that occupies sequence numbers gets an empty segment in reply when the
\* sender has nothing else queued.
AckReceived(a, w, occupies) ==
    /\ Active(sender)
    /\ sender.syn
    /\ sender' = LET acked == ack_received(Drained, wrap(a, Isn), w)
                 IN  Sends(IF occupies /\ acked.segments_out = <<>>
                             THEN send_empty_segment(acked) ELSE acked)
    /\ peer' = IF a > sender.next_seqno THEN [ peer EXCEPT !.acks = "any" ]
               ELSE [ ack |-> MaxOf(peer.ack, a), edge |-> MaxOf(peer.edge, a + w),
                      acks |-> Trust(a, w) ]
    /\ waited' = IF sender'.receive_ack > sender.receive_ack THEN 0 ELSE Waiting(sender')

\* TCPConnection::tick.  After too many retransmissions unclean_shutdown puts
\* the stream into its error state; its call of segment_sends leaves nothing
\* for the one that follows.
Tick ==
    LET ticked == tick(Drained, TickSize)
        resent == ticked.segments_out # <<>>
    IN  /\ Active(sender)
        /\ Outstanding(sender) \/ sender.clock <= MaxIdle
        /\ sender' = Sends(IF Active(ticked) THEN ticked
                           ELSE [ ticked EXCEPT !.stream = set_error(@) ])
        /\ waited' = IF resent \/ ~Outstanding(sender) THEN 0 ELSE waited + TickSize
        /\ UNCHANGED peer

Next ==
    \/ Connect
    \/ \E n \in 1..StreamLen : Write(n)
    \/ EndInputStream
    \/ \E a \in 0..(StreamLen + 3), w \in 0..MaxWindow, b \in BOOLEAN :
           AckReceived(a, w, b)
    \/ Tick

Spec == Init /\ [][Next]_vars

-----------------------------------------------------------------------------
\* The absolute number at which the k-th segment in flight begins.
BeginOf(k) ==
    sender.next_seqno - sender.bytes_in_flight + SpaceOf(sender.segments_in_flight, k - 1)

\* A segment that begins at the absolute number x says what the stream says.
Carries(seg, x) ==
    LET first == IF seg.syn THEN x ELSE x - 1
    IN  /\ seg.seqno = wrap(x, Isn)
        /\ seg.syn <=> x = 0
        /\ seg.payload = Substring(first, Len(seg.payload))
        /\ seg.fin => first + Len(seg.payload) = StreamLen

\* The segments in flight are exactly what is sent and not acknowledged: they
\* lie end to end, the first one holds the first unacknowledged number, the
\* last one ends at next_seqno, they carry the bytes of the stream, and
\* bytes_in_flight is their total (send_segment, ack_received).
InFlightTiles ==
    LET q == sender.segments_in_flight
    IN  /\ sender.bytes_in_flight = SpaceOf(q, Len(q))
        /\ \A k \in 1..Len(q) : Carries(q[k], BeginOf(k))
        /\ IF q = <<>> THEN sender.receive_ack = sender.next_seqno
           ELSE /\ BeginOf(1) <= sender.receive_ack
                /\ sender.receive_ack < BeginOf(1) + length_in_sequence_space(q[1])

\* No byte the application wrote is lost or numbered twice between stream and
\* segments: next_seqno counts the SYN, the bytes taken off the stream, and
\* the FIN, which is sent only after the last of them.
NumbersMatchStream ==
    /\ sender.next_seqno = (IF sender.syn THEN 1 ELSE 0) + sender.stream.readden
                             + (IF sender.fin THEN 1 ELSE 0)
    /\ sender.fin => eof(sender.stream)
    /\ sender.stream.buffer = Substring(sender.stream.readden, Len(sender.stream.buffer))

DataFits ==
    sender.next_seqno - (IF sender.fin THEN 1 ELSE 0)
        <= MaxOf(peer.edge, sender.receive_ack + 1)

\* The data sent lies within the window the peer has advertised, but for the
\* byte with which the sender probes a window of zero (fill_window): "a full
\* window of nonzero size should be respected" (tests/send_extra.cc), as long
\* as the acknowledgments arrive in order.
DataWithinWindow == peer.acks = "in order" => DataFits

\* "Repeated ACKs and outdated ACKs are harmless" (tests/send_extra.cc): the
\* data also fits when an acknowledgment was overtaken by a later one.
StaleAcksHarmless == peer.acks # "any" => DataFits

\* The oldest segment in flight is retransmitted when it has waited for the
\* timeout, not later (tick, send_segment).
RetransmitsInTime == Outstanding(sender) => waited < sender.retrans_timeout

\* What the peer has acknowledged is never sent again, and an acknowledgment
\* older than one already processed takes nothing back.
AckedStaysAcked ==
    [][ /\ sender'.receive_ack >= sender.receive_ack
        /\ sender'.next_seqno >= sender.next_seqno
        /\ \A k \in 1..Len(sender'.segments_out) :
               LET seg == sender'.segments_out[k]
                   len == length_in_sequence_space(seg)
               IN  len > 0 => unwrap(seg.seqno, Isn, sender.next_seqno) + len
                                > sender.receive_ack ]_vars

=============================================================================
