----------------------------- MODULE Reassembly -----------------------------
(***************************************************************************)
(* The reassembler of ReassemblerSpec between a caller that pushes         *)
(* substrings of one stream, in any order and any number of times, and a   *)
(* reader of the output stream.                                            *)
(***************************************************************************)
EXTENDS ReassemblerSpec, PeerSends

CONSTANT Capacity

VARIABLE asm

Init == asm = NewReassembler

PushSubstring(i, n, eof_bit) ==
    /\ MaySend(i, n, eof_bit, asm.output.written, asm.output.readden + Capacity)
    /\ asm' = push_substring(asm, Capacity, Substring(i, n), i, eof_bit)

ReadOutput(n) ==
    /\ n <= Len(asm.output.buffer)
    /\ asm' = PopOutput(asm, n)

Next ==
    \/ \E i, n \in 0..StreamLen, b \in BOOLEAN : PushSubstring(i, n, b)
    \/ \E n \in 1..Capacity : ReadOutput(n)

Spec == Init /\ [][Next]_asm

=============================================================================
