------------------------ MODULE MCStreamReassembler ------------------------
(* StreamReassembler on a stream of StreamLength bytes that all differ. *)
EXTENDS StreamReassembler

CONSTANT StreamLength

MCByte == 0..(StreamLength - 1)
MCStream == [ k \in 1..StreamLength |-> k - 1 ]

=============================================================================
