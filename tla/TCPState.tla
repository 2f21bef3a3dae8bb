------------------------------ MODULE TCPState ------------------------------
(***************************************************************************)
(* class TCPState (libsponge/tcp_helpers/tcp_state): summarizes a sender   *)
(* and a receiver, and names the states of RFC 793 in these terms.         *)
(***************************************************************************)
EXTENDS TCPSender, TCPReceiver

ReceiverSummary(r) ==
    IF stream_out(r).error THEN "ERROR"
    ELSE IF ackno(r) = {} THEN "LISTEN"
    ELSE IF stream_out(r).input_end THEN "FIN_RECV"
    ELSE "SYN_RECV"

SenderSummary(s) ==
    IF s.stream.error THEN "ERROR"
    ELSE IF s.next_seqno = 0 THEN "CLOSED"
    ELSE IF s.next_seqno = s.bytes_in_flight THEN "SYN_SENT"
    ELSE IF ~eof(s.stream) \/ s.next_seqno < s.stream.written + 2 THEN "SYN_ACKED"
    ELSE IF s.bytes_in_flight > 0 THEN "FIN_SENT"
    ELSE "FIN_ACKED"

StateOf(s, r, active, linger) ==
    [ sender |-> SenderSummary(s), receiver |-> ReceiverSummary(r),
      active |-> active, linger |-> active /\ linger ]

Named(sender, receiver, active, linger) ==
    [ sender |-> sender, receiver |-> receiver, active |-> active, linger |-> linger ]

State ==
    [ LISTEN      |-> Named("CLOSED", "LISTEN", TRUE, TRUE),
      SYN_RCVD    |-> Named("SYN_SENT", "SYN_RECV", TRUE, TRUE),
      SYN_SENT    |-> Named("SYN_SENT", "LISTEN", TRUE, TRUE),
      ESTABLISHED |-> Named("SYN_ACKED", "SYN_RECV", TRUE, TRUE),
      CLOSE_WAIT  |-> Named("SYN_ACKED", "FIN_RECV", TRUE, FALSE),
      LAST_ACK    |-> Named("FIN_SENT", "FIN_RECV", TRUE, FALSE),
      CLOSING     |-> Named("FIN_SENT", "FIN_RECV", TRUE, TRUE),
      FIN_WAIT_1  |-> Named("FIN_SENT", "SYN_RECV", TRUE, TRUE),
      FIN_WAIT_2  |-> Named("FIN_ACKED", "SYN_RECV", TRUE, TRUE),
      TIME_WAIT   |-> Named("FIN_ACKED", "FIN_RECV", TRUE, TRUE),
      RESET       |-> Named("ERROR", "ERROR", FALSE, FALSE),
      CLOSED      |-> Named("FIN_ACKED", "FIN_RECV", FALSE, FALSE) ]

=============================================================================
