-------------------------- MODULE MCReceiverSystem --------------------------
(* ReceiverSystem on a stream of StreamLength bytes that all differ. *)
EXTENDS ReceiverSystem

CONSTANT StreamLength

MCByte == 0..(StreamLength - 1)
MCStream == [ k \in 1..StreamLength |-> k - 1 ]

\* A peer that keeps its segments: two bytes each, the last one shorter, and
\* the FIN on the last one or by itself.
PairPieces ==
    { [ begin |-> i, len |-> n ] : i \in {2 * k : k \in 0..StreamLength}, n \in {0, 1, 2} }
FixedPieces ==
    { p \in PairPieces : p.len = MinOf(2, StreamLength - p.begin) } 
        \cup { [ begin |-> StreamLength, len |-> 0 ], [ begin |-> 0, len |-> 0 ] }

\* A peer that cuts its stream anew for every transmission.
AnyPieces == [ begin : 0..StreamLength, len : 0..StreamLength ]

=============================================================================
