----------------------------- MODULE PeerSends -----------------------------
(***************************************************************************)
(* What the remote peer of a reassembler or a receiver may send: pieces of *)
(* one stream, the last of them with the end mark.                         *)
(***************************************************************************)
EXTENDS StreamSource

CONSTANTS
    WindowRespected,\* TRUE: the peer never sends beyond the advertised window
    BareFin         \* TRUE: the end mark can overtake the bytes before it

ASSUME PeerAssumption == WindowRespected \in BOOLEAN /\ BareFin \in BOOLEAN

\* The substrings of n bytes at index i a peer may send, with or without the
\* end mark, to a reassembler whose output has the given counters.
MaySend(i, n, eof_bit, written, window_edge) ==
    /\ i + n <= StreamLen
    /\ eof_bit => i + n = StreamLen
    /\ WindowRespected => i + n <= window_edge
    /\ ~BareFin /\ eof_bit => n > 0 \/ i <= written

=============================================================================
