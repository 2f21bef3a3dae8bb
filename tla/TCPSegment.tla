----------------------------- MODULE TCPSegment -----------------------------
(***************************************************************************)
(* A TCP segment (tcp_helpers/tcp_segment, tcp_header) as sender and       *)
(* receiver see it: [seqno, syn, fin, payload].  The ackno, window and rst *)
(* fields are filled in by TCPConnection.                                  *)
(***************************************************************************)
EXTENDS WrappingIntegers, Sequences

Segment(Byte) ==
    [ seqno : U32, syn : BOOLEAN, fin : BOOLEAN, payload : Seq(Byte) ]

length_in_sequence_space(seg) ==
    Len(seg.payload) + (IF seg.syn THEN 1 ELSE 0) + (IF seg.fin THEN 1 ELSE 0)

=============================================================================
