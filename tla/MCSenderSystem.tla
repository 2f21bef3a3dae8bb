--------------------------- MODULE MCSenderSystem ---------------------------
(* SenderSystem on a stream of StreamLength bytes that all differ. *)
EXTENDS SenderSystem

CONSTANT StreamLength

MCByte == 0..(StreamLength - 1)
MCStream == [ k \in 1..StreamLength |-> k - 1 ]

=============================================================================
