------------------------ MODULE ReassemblerInvariant ------------------------
(***************************************************************************)
(* What holds of the reassembler of ReassemblerSpec between any two calls, *)
(* as long as what is pushed are substrings of Stream.                     *)
(***************************************************************************)
EXTENDS ReassemblerSpec, StreamSource

\* The bytes of the stream at some of its indices.
PartialStream == { [ i \in S |-> ByteAt(i) ] : S \in SUBSET (0..(StreamLen - 1)) }

ReassemblerType ==
    [ stored : PartialStream, unassembled : Nat, head_index : 0..StreamLen,
      eof_flag : BOOLEAN, output : ByteStreamType(Byte) ]

\* The output holds the bytes that follow those already read, up to the head,
\* and no more of them than fit.
OutputOK(r, capacity) ==
    LET o == r.output
    IN  /\ o.written = r.head_index
        /\ o.readden + Len(o.buffer) = o.written
        /\ o.buffer = Substring(o.readden, Len(o.buffer))
        /\ Len(o.buffer) <= capacity

\* What is stored lies at or above the head, and _unassembled_byte is large
\* enough never to run below zero when the stored bytes are written.
StoreOK(r) ==
    /\ \A i \in DOMAIN r.stored : r.head_index <= i
    /\ Cardinality(DOMAIN r.stored) <= r.unassembled

ReassemblerOK(r, capacity) == OutputOK(r, capacity) /\ StoreOK(r)

=============================================================================
