------------------------------ MODULE TCPSender ------------------------------
(***************************************************************************)
(* class TCPSender (libsponge/tcp_sender): cuts the outgoing stream into   *)
(* segments, keeps copies of those in flight and retransmits the oldest    *)
(* one when the timer expires.                                             *)
(*                                                                         *)
(* As in the other class modules an object is a record and a method an     *)
(* operator on it.  Absolute sequence numbers and lengths are uint64_t and *)
(* stay below M64 by the bounds of the systems that use this module,       *)
(* except in the one difference that can be negative (Remaining).          *)
(***************************************************************************)
EXTENDS TCPSegment, ByteStream

CONSTANTS
    MAX_PAYLOAD_SIZE,   \* TCPConfig::MAX_PAYLOAD_SIZE
    RTO                 \* the initial retransmission timeout

ASSUME SenderAssumption ==
    /\ MAX_PAYLOAD_SIZE \in Nat \ {0}
    /\ RTO \in Nat \ {0}

NewTCPSender(isn) ==
    [ isn |-> isn, syn |-> FALSE, fin |-> FALSE, stream |-> NewByteStream,
      next_seqno |-> 0, receive_ack |-> 0, checkpoint |-> 0,
      window_size |-> 0, window_is_zero |-> FALSE,
      bytes_in_flight |-> 0, segments_in_flight |-> <<>>, segments_out |-> <<>>,
      clock |-> 0, clock_is_counting |-> FALSE,
      retrans_timeout |-> RTO, consecutive_retrans |-> 0 ]

-----------------------------------------------------------------------------
\* Mutant: every new segment restarts the timer.
StartClock_always(s) == [ s EXCEPT !.clock = 0, !.clock_is_counting = TRUE ]

\* The clock starts with a segment sent while it is not counting.
StartClock(s) ==
    IF s.clock_is_counting THEN s
    ELSE [ s EXCEPT !.clock = 0, !.clock_is_counting = TRUE ]

send_segment(s, syn_flag, fin_flag, data) ==
    LET seg == [ seqno |-> wrap(s.next_seqno, s.isn), syn |-> syn_flag,
                 fin |-> fin_flag, payload |-> data ]
        len == length_in_sequence_space(seg)
    IN  StartClock([ s EXCEPT !.next_seqno = @ + len,
                              !.bytes_in_flight = @ + len,
                              !.segments_in_flight = Append(@, seg),
                              !.segments_out = Append(@, seg) ])

send_empty_segment(s) ==
    [ s EXCEPT !.segments_out =
        Append(@, [ seqno |-> wrap(s.next_seqno, s.isn), syn |-> FALSE,
                    fin |-> FALSE, payload |-> <<>> ]) ]

\* Mutant: what is in flight does not reduce the window.
Remaining_all(s, win) == win

\* What is left of the window, a size_t difference.
Remaining(s, win) == (win - (s.next_seqno - s.receive_ack)) % M64

\* Mutant: the FIN goes out with bytes still queued.
CarriesFin_ended(rest, data, win) == rest.input_end /\ Len(data) < win

\* The loop of fill_window ends at the end of the window or of the stream; the
\* segment that empties the ended stream carries the FIN, unless its payload
\* is as long as the window.
FillEnds(s, win) == Remaining(s, win) = 0 \/ s.fin
CarriesFin(rest, data, win) == eof(rest) /\ Len(data) < win

\* One pass through the loop of fill_window, which leaves the sender alone
\* when the loop ends.
FillOnce(s, win) ==
    LET len  == MinOf(Remaining(s, win), MAX_PAYLOAD_SIZE)
        data == peek_output(s.stream, len)
        rest == pop_output(s.stream, len)
        fin  == CarriesFin(rest, data, win)
    IN  IF FillEnds(s, win) \/ (data = <<>> /\ ~fin) THEN s
        ELSE send_segment([ s EXCEPT !.stream = rest, !.fin = fin ], FALSE, fin, data)

\* Every pass but the last takes a byte off the stream or sends the FIN.
fill_window(s) ==
    IF ~s.syn THEN [ send_segment(s, TRUE, FALSE, <<>>) EXCEPT !.syn = TRUE ]
    ELSE LET win    == IF s.window_size > 0 THEN s.window_size ELSE 1
             passes == Len(s.stream.buffer) + 1
             after[k \in 0..passes] ==
                 IF k = 0 THEN [ s EXCEPT !.window_is_zero = (s.window_size = 0) ]
                 ELSE FillOnce(after[k - 1], win)
         IN  after[passes]

-----------------------------------------------------------------------------
\* Mutant: a segment acknowledged in part is dropped.
Acked_begun(s, seg, abs_ackno) ==
    unwrap(seg.seqno, s.isn, s.next_seqno) < abs_ackno

\* Mutant: the segment that ends at the ackno is kept.
Acked_beyond(s, seg, abs_ackno) ==
    unwrap(seg.seqno, s.isn, s.next_seqno) + length_in_sequence_space(seg) < abs_ackno

\* Is this segment in flight acknowledged as a whole?
Acked(s, seg, abs_ackno) ==
    unwrap(seg.seqno, s.isn, s.next_seqno) + length_in_sequence_space(seg) <= abs_ackno

\* The sequence numbers the first k segments of a queue occupy.
SpaceOf(queue, k) ==
    LET upto[j \in 0..k] ==
            IF j = 0 THEN 0 ELSE upto[j - 1] + length_in_sequence_space(queue[j])
    IN  upto[k]

\* Pop acknowledged segments off the front of the queue.
DropAcked(s, abs_ackno) ==
    LET queue == s.segments_in_flight
        stays == { k \in 1..Len(queue) : ~Acked(s, queue[k], abs_ackno) }
        gone  == IF stays = {} THEN Len(queue)
                 ELSE (CHOOSE k \in stays : \A j \in stays : k <= j) - 1
    IN  [ s EXCEPT !.segments_in_flight = SubSeq(@, gone + 1, Len(@)),
                   !.bytes_in_flight = @ - SpaceOf(queue, gone) ]

RestartTimer(s) ==
    LET outstanding == s.segments_in_flight # <<>>
    IN  [ s EXCEPT !.retrans_timeout = RTO,
                   !.consecutive_retrans = 0,
                   !.clock_is_counting = @ \/ outstanding,
                   !.clock = IF outstanding THEN 0 ELSE @ ]

ack_received(s, ackno, window) ==
    LET abs_ackno == unwrap(ackno, s.isn, s.checkpoint)
        synced    == [ s EXCEPT !.window_size = window ]
    IN  IF abs_ackno > s.next_seqno THEN s
        ELSE IF abs_ackno <= s.receive_ack THEN synced
        ELSE RestartTimer(fill_window(DropAcked(
               [ synced EXCEPT !.receive_ack = abs_ackno, !.checkpoint = abs_ackno ],
               abs_ackno)))

-----------------------------------------------------------------------------
tick(s, ms_since_last_tick) ==
    LET outstanding == s.segments_in_flight # <<>>
        now         == s.clock + ms_since_last_tick
    IN  IF now >= s.retrans_timeout /\ outstanding
          THEN [ s EXCEPT !.segments_out = Append(@, Head(s.segments_in_flight)),
                          !.consecutive_retrans = @ + 1,
                          !.clock_is_counting = TRUE,
                          !.clock = 0,
                          !.retrans_timeout = IF s.window_is_zero THEN @ ELSE 2 * @ ]
          ELSE [ s EXCEPT !.clock = now, !.clock_is_counting = @ /\ outstanding ]

=============================================================================
