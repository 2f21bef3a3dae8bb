---------------------------- MODULE TCPConnection ----------------------------
(***************************************************************************)
(* class TCPConnection (libsponge/tcp_connection): one endpoint, a sender  *)
(* and a receiver that share one connection.  A segment it sends or        *)
(* receives has the fields of TCPSegment and rst, ack, ackno and win.      *)
(*                                                                         *)
(* The methods have the names they have in the class, with a prefix where  *)
(* the sender, the receiver or the byte stream has a method of that name.  *)
(***************************************************************************)
EXTENDS TCPState

CONSTANTS
    MAX_RETX_ATTEMPTS,
    RecvCapacity, SendCapacity  \* of the inbound and the outbound stream

ASSUME TCPConfigAssumption ==
    MAX_RETX_ATTEMPTS \in Nat /\ RecvCapacity \in Nat /\ SendCapacity \in Nat

NewTCPConnection(isn) ==
    [ sender |-> NewTCPSender(isn), receiver |-> NewTCPReceiver,
      active |-> TRUE, linger_after_streams_finish |-> TRUE,
      syn_sended |-> FALSE, need_send_rst |-> FALSE,
      time_since_last_segment_received |-> 0, segments_out |-> <<>> ]

inbound_stream(c) == stream_out(c.receiver)
remaining_outbound_capacity(c) == remaining_capacity(c.sender.stream, SendCapacity)

state(c) == StateOf(c.sender, c.receiver, c.active, c.linger_after_streams_finish)

InSynSent(c) == SenderSummary(c.sender) = "SYN_SENT"

-----------------------------------------------------------------------------
\* Mutant: nobody lingers.
clean_shutdown_nolinger(c) ==
    IF inbound_stream(c).input_end /\ eof(c.sender.stream) /\ c.sender.bytes_in_flight = 0
      THEN [ c EXCEPT !.active = FALSE ] ELSE c

\* Mutant: what is in flight does not keep the connection open.
clean_shutdown_flight(c) ==
    LET ended == inbound_stream(c).input_end
        finished == eof(c.sender.stream)
    IN  [ c EXCEPT !.linger_after_streams_finish = @ /\ ~(ended /\ ~finished),
                   !.active = @ /\ ~(ended /\ finished) ]

\* An endpoint whose inbound stream ends first does not linger; one that
\* lingers stays for 10 * rt_timeout after the last segment.
clean_shutdown(c) ==
    LET ended    == inbound_stream(c).input_end
        finished == eof(c.sender.stream)
        linger   == c.linger_after_streams_finish /\ ~(ended /\ ~finished)
        done     == /\ ended /\ finished
                    /\ c.sender.bytes_in_flight = 0
                    /\ ~linger \/ c.time_since_last_segment_received >= 10 * RTO
    IN  [ c EXCEPT !.linger_after_streams_finish = linger, !.active = @ /\ ~done ]

\* What segment_sends adds to a segment of the sender; the field win has 16 bits.
Stamped(c, seg) ==
    LET acks == ackno(c.receiver)
    IN  [ seqno |-> seg.seqno, syn |-> seg.syn, fin |-> seg.fin, payload |-> seg.payload,
          rst |-> c.need_send_rst,
          ack |-> acks # {},
          ackno |-> IF acks = {} THEN 0 ELSE CHOOSE a \in acks : TRUE,
          win |-> IF acks = {} THEN 0 ELSE window_size(c.receiver, RecvCapacity) % 65536 ]

\* Nothing is sent in LISTEN, before connect() was called.
segment_sends(c, send_syn) ==
    IF ~send_syn /\ ~c.syn_sended THEN c
    ELSE LET filled == fill_window(c.sender)
             queue  == filled.segments_out
         IN  clean_shutdown(
               [ c EXCEPT !.syn_sended = TRUE,
                          !.sender = [ filled EXCEPT !.segments_out = <<>> ],
                          !.segments_out = @ \o [ k \in 1..Len(queue) |-> Stamped(c, queue[k]) ] ])

\* Mutant: an empty segment is queued although there is one to carry the RST.
unclean_shutdown_always(c, send_rst) ==
    LET failed == [ c EXCEPT !.receiver.reassembler.output = set_error(@),
                             !.sender.stream = set_error(@),
                             !.linger_after_streams_finish = FALSE,
                             !.active = FALSE,
                             !.need_send_rst = @ \/ send_rst ]
    IN  IF ~send_rst THEN failed
        ELSE segment_sends([ failed EXCEPT !.sender = send_empty_segment(@) ], FALSE)

unclean_shutdown(c, send_rst) ==
    LET failed == [ c EXCEPT !.receiver.reassembler.output = set_error(@),
                             !.sender.stream = set_error(@),
                             !.linger_after_streams_finish = FALSE,
                             !.active = FALSE,
                             !.need_send_rst = @ \/ send_rst ]
    IN  IF ~send_rst THEN failed
        ELSE IF c.sender.segments_out # <<>> THEN segment_sends(failed, FALSE)
        ELSE segment_sends([ failed EXCEPT !.sender = send_empty_segment(@) ], FALSE)

-----------------------------------------------------------------------------
connect(c) == segment_sends(c, TRUE)

conn_write(c, data) ==
    segment_sends([ c EXCEPT !.sender.stream = write(@, SendCapacity, data) ], FALSE)

end_input_stream(c) ==
    segment_sends([ c EXCEPT !.sender.stream = end_input(@) ], FALSE)

\* Mutant: an acknowledgment is taken for the whole of what was sent.
TakeAck_all(c, seg) ==
    [ c EXCEPT !.time_since_last_segment_received = 0,
               !.sender = IF seg.ack /\ @.next_seqno > 0
                            THEN ack_received(@, wrap(@.next_seqno, @.isn), seg.win) ELSE @ ]

TakeAck(c, seg) ==
    [ c EXCEPT !.time_since_last_segment_received = 0,
               !.sender = IF seg.ack /\ @.next_seqno > 0
                            THEN ack_received(@, seg.ackno, seg.win) ELSE @ ]

\* Mutant: a segment that needs a reply gets none.
Reply_none(c, seg) == segment_sends(c, FALSE)

\* A segment that occupies sequence numbers is answered, if nothing else is sent.
Reply(c, seg) ==
    segment_sends(
      IF /\ length_in_sequence_space(seg) > 0
         /\ ackno(c.receiver) # {}
         /\ c.sender.segments_out = <<>>
        THEN [ c EXCEPT !.sender = send_empty_segment(@) ] ELSE c, FALSE)

conn_segment_received(c, seg) ==
    IF ~c.active THEN c
    ELSE IF InSynSent(c) /\ seg.ack /\ seg.payload # <<>>
      THEN [ c EXCEPT !.time_since_last_segment_received = 0 ]
    ELSE LET acked == TakeAck(c, seg)
             now   == [ acked EXCEPT !.receiver = segment_received(@, RecvCapacity, seg) ]
         IN  IF seg.syn /\ now.sender.next_seqno = 0 THEN connect(now)
             ELSE IF ~seg.rst THEN Reply(now, seg)
             ELSE IF InSynSent(now) /\ ~seg.ack THEN now
             ELSE unclean_shutdown(now, FALSE)

conn_tick(c, ms) ==
    IF ~c.active THEN c
    ELSE LET ticked == [ c EXCEPT !.time_since_last_segment_received = @ + ms,
                                  !.sender = tick(@, ms) ]
         IN  segment_sends(
               IF ticked.sender.consecutive_retrans > MAX_RETX_ATTEMPTS
                 THEN unclean_shutdown(ticked, TRUE) ELSE ticked, FALSE)

\* The destructor resets an active connection; the queue that receives the
\* segment is destroyed with the connection.
destruct(c) ==
    [ (IF c.active THEN unclean_shutdown(c, TRUE) ELSE c) EXCEPT !.segments_out = <<>> ]

=============================================================================
