----------------------------- MODULE TCPReceiver -----------------------------
(***************************************************************************)
(* class TCPReceiver (libsponge/tcp_receiver): turns segments into pushes  *)
(* on the reassembler and computes the acknowledgment number and window.   *)
(*                                                                         *)
(* The reassembler is that of ReassemblerSpec, which StreamReassembler is  *)
(* checked to implement.                                                   *)
(***************************************************************************)
EXTENDS TCPSegment, ReassemblerSpec

NewTCPReceiver ==
    [ ackno |-> 0, isn |-> 0, syn |-> FALSE, fin |-> FALSE,
      fin_not_count |-> TRUE, reassembler |-> NewReassembler ]

stream_out(rcv) == rcv.reassembler.output

-----------------------------------------------------------------------------
\* segment_received, first part: an initial SYN starts the connection.
AcceptSyn(rcv, seg) ==
    IF seg.syn
      THEN [ rcv EXCEPT !.syn = TRUE, !.ackno = Plus32(seg.seqno, 1), !.isn = seg.seqno ]
      ELSE rcv

\* Mutant: the number of the SYN is not subtracted.
StreamIndex_syn(rcv, seg) ==
    IF seg.syn THEN 0 ELSE unwrap(seg.seqno, rcv.isn, stream_out(rcv).written)

\* Mutant: every segment is taken for the next one in order.
StreamIndex_inorder(rcv, seg) == stream_out(rcv).written

\* The stream index of the first payload byte: uint64_t arithmetic, except
\* that the payload of the SYN segment is at index 0.
StreamIndex(rcv, seg) ==
    IF seg.syn THEN 0
    ELSE (unwrap(seg.seqno, rcv.isn, stream_out(rcv).written) - 1) % M64

\* Mutant: nothing is accepted once a FIN was seen.
Closed_fin(rcv) == ~rcv.syn \/ rcv.fin

\* Before the SYN, and after the last byte, no payload is accepted.
Closed(rcv) == ~rcv.syn \/ (rcv.fin /\ empty(rcv.reassembler))

\* Mutant: the ackno advances by the length of the payload.
PushPayload_len(rcv, capacity, seg) ==
    IF Closed(rcv) THEN rcv
    ELSE LET pushed == push_substring(rcv.reassembler, capacity, seg.payload,
                                      StreamIndex(rcv, seg), seg.fin)
         IN  [ rcv EXCEPT !.reassembler = pushed,
                          !.ackno = IF seg.syn \/ @ = seg.seqno
                                      THEN Plus32(@, Len(seg.payload)) ELSE @ ]

\* Second part: push the payload; the ackno advances by the bytes written,
\* but only when the segment begins at the ackno.
PushPayload(rcv, capacity, seg) ==
    IF Closed(rcv) THEN rcv
    ELSE LET pushed == push_substring(rcv.reassembler, capacity, seg.payload,
                                      StreamIndex(rcv, seg), seg.fin)
             newly  == pushed.output.written - stream_out(rcv).written
         IN  [ rcv EXCEPT !.reassembler = pushed,
                          !.ackno = IF seg.syn \/ @ = seg.seqno
                                      THEN Plus32(@, newly) ELSE @ ]

\* Mutant: the FIN is counted before the bytes in front of it.
CountFin_early(rcv, seg) ==
    IF rcv.fin \/ (seg.fin /\ rcv.syn)
      THEN [ rcv EXCEPT !.fin = TRUE,
                        !.ackno = IF rcv.fin_not_count THEN Plus32(@, 1) ELSE @,
                        !.fin_not_count = FALSE,
                        !.reassembler = EndOutput(@) ]
      ELSE rcv

\* Last part: the FIN is counted once, when nothing is waiting any more.
CountFin(rcv, seg) ==
    LET fin == rcv.fin \/ (seg.fin /\ rcv.syn)
    IN  IF fin /\ empty(rcv.reassembler)
          THEN [ rcv EXCEPT !.fin = TRUE,
                            !.ackno = IF rcv.fin_not_count THEN Plus32(@, 1) ELSE @,
                            !.fin_not_count = FALSE,
                            !.reassembler = EndOutput(@) ]
          ELSE [ rcv EXCEPT !.fin = fin ]

\* Mutant: a duplicate SYN is not refused.
segment_received_resyn(rcv, capacity, seg) ==
    CountFin(PushPayload(AcceptSyn(rcv, seg), capacity, seg), seg)

segment_received(rcv, capacity, seg) ==
    IF seg.syn /\ rcv.syn THEN rcv
    ELSE CountFin(PushPayload(AcceptSyn(rcv, seg), capacity, seg), seg)

\* The optional<WrappingInt32> of ackno(): a set with the value, or empty.
ackno(rcv) == IF rcv.ackno = 0 \/ ~rcv.syn THEN {} ELSE { rcv.ackno }

\* Mutant: bytes that wait for a gap to close reduce the window.
window_size_stored(rcv, capacity) ==
    capacity - Len(stream_out(rcv).buffer) - rcv.reassembler.unassembled

window_size(rcv, capacity) == capacity - Len(stream_out(rcv).buffer)

=============================================================================
