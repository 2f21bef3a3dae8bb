-------------------------- MODULE SequenceNumbers --------------------------
(***************************************************************************)
(* How sender and receiver use wrap and unwrap: one side numbers what it   *)
(* says with 32 bits, the other recovers the 64-bit number with the last   *)
(* recovered number as checkpoint (ack_received and its _checkpoint;       *)
(* segment_received and the count of bytes written).                       *)
(*                                                                         *)
(* Its specification is NumbersSpec, so that the proofs about the receiver *)
(* can extend this module and their own system.                            *)
(***************************************************************************)
EXTENDS WrappingIntegers

VARIABLES
    isn,        \* the initial sequence number, drawn at random
    absolute,   \* the number the speaker is at
    checkpoint  \* the number the listener last recovered

numbers == <<isn, absolute, checkpoint>>

\* The numbers that leave room for one more turn of the sequence space.
Usable == 0..(M64 - M32)

NumbersInit ==
    /\ isn \in U32
    /\ absolute = 0
    /\ checkpoint = 0

\* The speaker moves by less than half the sequence space, in either
\* direction, and the listener recovers its number.
Hear(x) ==
    /\ x - checkpoint < HALF /\ checkpoint - x <= HALF
    /\ absolute' = x
    /\ checkpoint' = unwrap(wrap(x, isn), isn, checkpoint)
    /\ UNCHANGED isn

NumbersNext == \E x \in Usable : Hear(x)

NumbersSpec == NumbersInit /\ [][NumbersNext]_numbers

-----------------------------------------------------------------------------
\* However often the 32-bit numbers wrap around, the listener's idea of the
\* speaker's number never drifts (wrap, unwrap).
ListenerAgrees == checkpoint = absolute

Distance(x, y) == IF x >= y THEN x - y ELSE y - x

\* "the 64-bit sequence number that wraps to `n` and is closest to
\* `checkpoint`" (wrapping_integers.cc), for every n, with the numbers found
\* by search instead of by arithmetic.
UnwrapClosest ==
    \A n \in U32 :
        LET res == unwrap(n, isn, checkpoint)
        IN  /\ res \in U64 /\ wrap(res, isn) = n
            /\ \A x \in U64 : wrap(x, isn) = n =>
                   Distance(res, checkpoint) <= Distance(x, checkpoint)

=============================================================================
