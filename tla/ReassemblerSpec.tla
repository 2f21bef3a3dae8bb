-------------------------- MODULE ReassemblerSpec --------------------------
(***************************************************************************)
(* What class StreamReassembler does, without its block list: the bytes    *)
(* waiting to be assembled are a function from stream index to byte.       *)
(* StreamReassembler.tla models the block list and its merge loops, and    *)
(* is checked to implement this description step by step; TCPReceiver is   *)
(* built on this one.                                                      *)
(*                                                                         *)
(* It keeps the accounting of the code: a run of bytes that reaches the    *)
(* head is handed to the output stream, the bytes the output stream had    *)
(* no room for are dropped with the block, and _unassembled_byte is        *)
(* reduced only by the bytes written.                                      *)
(***************************************************************************)
EXTENDS ByteStream, FiniteSets

NewReassembler ==
    [ stored |-> <<>>, unassembled |-> 0, head_index |-> 0,
      eof_flag |-> FALSE, output |-> NewByteStream ]

empty(r) == r.unassembled = 0

\* Keep the part of data at or above the head; bytes already stored are
\* counted once.
Store(r, data, index) ==
    LET old == DOMAIN r.stored
        new == MaxOf(index, r.head_index)..(index + Len(data) - 1)
    IN  [ r EXCEPT
            !.stored = [ i \in old \cup new |->
                           IF i \in old THEN r.stored[i] ELSE data[i - index + 1] ],
            !.unassembled = @ + Cardinality(new \ old) ]

\* The end of the run of stored bytes that begins at h.
RunEnd(S, h) ==
    CHOOSE e \in {h} \cup {i + 1 : i \in S} :
        e >= h /\ e \notin S /\ \A i \in h..(e - 1) : i \in S

\* Mutant: the bytes written to the output are not erased.
Assemble_kept(r, capacity) ==
    IF r.head_index \notin DOMAIN r.stored THEN r
    ELSE LET e    == RunEnd(DOMAIN r.stored, r.head_index)
             run  == [ k \in 1..(e - r.head_index) |-> r.stored[r.head_index + k - 1] ]
             len  == accepted(r.output, capacity, run)
         IN  [ r EXCEPT !.output = write(@, capacity, run),
                        !.head_index = @ + len,
                        !.unassembled = @ - len ]

\* "write to ByteStream": the run at the head leaves the store as a whole.
Assemble(r, capacity) ==
    IF r.head_index \notin DOMAIN r.stored THEN r
    ELSE LET e    == RunEnd(DOMAIN r.stored, r.head_index)
             run  == [ k \in 1..(e - r.head_index) |-> r.stored[r.head_index + k - 1] ]
             len  == accepted(r.output, capacity, run)
         IN  [ r EXCEPT
                 !.output = write(@, capacity, run),
                 !.head_index = @ + len,
                 !.unassembled = @ - len,
                 !.stored = [ i \in { j \in DOMAIN @ : j >= e } |-> @[i] ] ]

\* The JUDGE_EOF label.
JudgeEof(r, eof_bit) ==
    LET flag == r.eof_flag \/ eof_bit
    IN  [ r EXCEPT !.eof_flag = flag,
                   !.output = IF flag /\ empty(r) THEN end_input(@) ELSE @ ]

\* What the owner of the reassembler does to stream_out().
EndOutput(r) == [ r EXCEPT !.output = end_input(@) ]
PopOutput(r, len) == [ r EXCEPT !.output = pop_output(@, len) ]

push_substring(r, capacity, data, index, eof_bit) ==
    IF index >= r.head_index + capacity THEN r
    ELSE IF index + Len(data) <= r.head_index THEN JudgeEof(r, eof_bit)
    ELSE JudgeEof(Assemble(Store(r, data, index), capacity), eof_bit)

=============================================================================
