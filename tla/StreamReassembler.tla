-------------------------- MODULE StreamReassembler --------------------------
(***************************************************************************)
(* class StreamReassembler (libsponge/stream_reassembler) as it is coded:  *)
(* an ordered set of blocks keyed by their first index, merged with each   *)
(* arriving substring by two loops, first towards higher indices and then  *)
(* towards lower ones.                                                     *)
(*                                                                         *)
(* A block_node is [begin, data]; its length field always equals the       *)
(* length of its data.  The loops are functions of the iteration count:    *)
(* iteration k applies the loop body to the state after k - 1 iterations,  *)
(* or leaves it alone once the loop condition is false.                    *)
(***************************************************************************)
EXTENDS ByteStream, FiniteSets, PeerSends

CONSTANTS
    Capacity,
    MaxUnassembled  \* bound: on _unassembled_byte, which can grow without limit

ASSUME CapacityAssumption == Capacity \in Nat /\ MaxUnassembled \in Nat

VARIABLES
    reassembler,
    behaved     \* history: the peer kept to the window, and no end mark without
                \* data overtook the bytes before it

vars == <<reassembler, behaved>>

EndOf(b) == b.begin + Len(b.data)

\* Mutants: blocks that only touch are not merged; an overlap counts as the
\* whole of the second block.
Apart_touching(x, y) == EndOf(x) <= y.begin
Shared_whole(x, y) == Len(y.data)

\* For a block x that does not begin after y: is there a gap between the two,
\* and how many bytes do they share?
Apart(x, y) == EndOf(x) < y.begin
Shared(x, y) == IF EndOf(x) >= EndOf(y) THEN Len(y.data) ELSE EndOf(x) - y.begin

\* merge_block(elm1, elm2): the new elm1 and the number of bytes the two
\* blocks shared, -1 when they neither overlap nor touch.
merge_block(elm1, elm2) ==
    LET x == IF elm1.begin > elm2.begin THEN elm2 ELSE elm1
        y == IF elm1.begin > elm2.begin THEN elm1 ELSE elm2
    IN  IF Apart(x, y) THEN [ merged |-> -1, elm |-> elm1 ]
        ELSE [ merged |-> Shared(x, y),
               elm |-> IF EndOf(x) >= EndOf(y) THEN x
                       ELSE [ begin |-> x.begin,
                              data |-> x.data \o SubSeq(y.data, EndOf(x) - y.begin + 1,
                                                        Len(y.data)) ] ]

\* The order of std::set<block_node>: lower_bound(elm) and its predecessor.
NotBelow(blocks, elm) == { b \in blocks : b.begin >= elm.begin }
Below(blocks, elm) == { b \in blocks : b.begin < elm.begin }
First(bs) == CHOOSE b \in bs : \A c \in bs : b.begin <= c.begin
Last(bs) == CHOOSE b \in bs : \A c \in bs : b.begin >= c.begin

\* One pass through a merge loop, st being <<elm, _blocks, _unassembled_byte>>
\* and iter the block the iterator points at.
MergeWith(st, iter) ==
    LET m == merge_block(st.elm, iter)
    IN  IF m.merged < 0 THEN st
        ELSE [ elm |-> m.elm, blocks |-> st.blocks \ {iter},
               unassembled |-> st.unassembled - m.merged ]

\* Mutant: "if" in place of "while".
MergeNext_once(st) ==
    LET above == NotBelow(st.blocks, st.elm)
    IN  IF above = {} THEN st ELSE MergeWith(st, First(above))

MergeNext(st) ==
    LET bound == Cardinality(st.blocks)
        after[k \in 0..bound] ==
            IF k = 0 THEN st
            ELSE LET s == after[k - 1]
                     above == NotBelow(s.blocks, s.elm)
                 IN  IF above = {} THEN s ELSE MergeWith(s, First(above))
    IN  after[bound]

MergePrev(st) ==
    LET bound == Cardinality(st.blocks)
        after[k \in 0..bound] ==
            IF k = 0 THEN st
            ELSE LET s == after[k - 1]
                     below == Below(s.blocks, s.elm)
                 IN  IF below = {} THEN s ELSE MergeWith(s, Last(below))
    IN  after[bound]

\* std::set::insert does nothing when a block with that key is present.
InsertBlock(blocks, elm) ==
    IF \E b \in blocks : b.begin = elm.begin THEN blocks ELSE blocks \cup {elm}

\* Mutant: the bytes below the head are not cut off.
NewBlock_uncut(r, data, index) ==
    [ begin |-> IF index < r.head_index THEN r.head_index ELSE index, data |-> data ]

\* The part of the substring at or above the head.
NewBlock(r, data, index) ==
    IF index < r.head_index
      THEN LET offset == r.head_index - index
           IN  [ begin |-> index + offset, data |-> SubSeq(data, offset + 1, Len(data)) ]
      ELSE [ begin |-> index, data |-> data ]

\* Mutant: the block written to the output is not erased.
WriteHead_kept(r) ==
    IF r.blocks = {} \/ First(r.blocks).begin # r.head_index THEN r
    ELSE LET head_block  == First(r.blocks)
             write_bytes == accepted(r.output, Capacity, head_block.data)
         IN  [ r EXCEPT !.output = write(@, Capacity, head_block.data),
                        !.head_index = @ + write_bytes,
                        !.unassembled = @ - write_bytes ]

\* "write to ByteStream".
WriteHead(r) ==
    IF r.blocks = {} \/ First(r.blocks).begin # r.head_index THEN r
    ELSE LET head_block  == First(r.blocks)
             write_bytes == accepted(r.output, Capacity, head_block.data)
         IN  [ r EXCEPT !.output = write(@, Capacity, head_block.data),
                        !.head_index = @ + write_bytes,
                        !.unassembled = @ - write_bytes,
                        !.blocks = @ \ {head_block} ]

\* Mutant: the output ends as soon as the end is known.
JudgeEof_early(r, eof_bit) ==
    LET flag == r.eof_flag \/ eof_bit
    IN  [ r EXCEPT !.eof_flag = flag,
                   !.output = IF flag THEN end_input(@) ELSE @ ]

JudgeEof(r, eof_bit) ==
    LET flag == r.eof_flag \/ eof_bit
    IN  [ r EXCEPT !.eof_flag = flag,
                   !.output = IF flag /\ r.unassembled = 0 THEN end_input(@) ELSE @ ]

push_substring(r, data, index, eof_bit) ==
    IF index >= r.head_index + Capacity THEN r
    ELSE IF index + Len(data) <= r.head_index THEN JudgeEof(r, eof_bit)
    ELSE LET elm == NewBlock(r, data, index)
             st  == MergePrev(MergeNext(
                      [ elm |-> elm, blocks |-> r.blocks,
                        unassembled |-> r.unassembled + Len(elm.data) ]))
         IN  JudgeEof(WriteHead([ r EXCEPT !.blocks = InsertBlock(st.blocks, st.elm),
                                           !.unassembled = st.unassembled ]), eof_bit)

-----------------------------------------------------------------------------
\* The reassembler between a caller and a reader, as in Reassembly.
Init ==
    /\ reassembler = [ blocks |-> {}, unassembled |-> 0, head_index |-> 0,
                       eof_flag |-> FALSE, output |-> NewByteStream ]
    /\ behaved = TRUE

PushSubstring(i, n, eof_bit) ==
    /\ reassembler.unassembled + n <= MaxUnassembled
    /\ MaySend(i, n, eof_bit, reassembler.output.written,
               reassembler.output.readden + Capacity)
    /\ reassembler' = push_substring(reassembler, Substring(i, n), i, eof_bit)
    /\ behaved' = (/\ behaved
                   /\ i + n <= reassembler.output.readden + Capacity
                   /\ eof_bit => n > 0 \/ i <= reassembler.output.written)

ReadOutput(n) ==
    /\ n <= Len(reassembler.output.buffer)
    /\ reassembler' = [ reassembler EXCEPT !.output = pop_output(@, n) ]
    /\ UNCHANGED behaved

Next ==
    \/ \E i, n \in 0..StreamLen, b \in BOOLEAN : PushSubstring(i, n, b)
    \/ \E n \in 1..Capacity : ReadOutput(n)

Spec == Init /\ [][Next]_vars

-----------------------------------------------------------------------------
Stored == UNION { b.begin..(EndOf(b) - 1) : b \in reassembler.blocks }

\* The reader sees the stream, in order and without a gap: whatever the order
\* and the overlaps of the pushed substrings, the bytes in the output buffer
\* are those that follow the bytes already read (push_substring, write).
OutputIsPrefix ==
    LET o == reassembler.output
    IN  /\ o.readden + Len(o.buffer) = o.written
        /\ o.written = reassembler.head_index
        /\ o.buffer = Substring(o.readden, Len(o.buffer))

\* The block set after every call: blocks lie strictly above the head, hold
\* the bytes of the stream at their place, and no two of them touch, so that
\* a key is never inserted twice and a byte never stored twice (merge_block
\* and the two merge loops).
BlocksSeparated ==
    \A b \in reassembler.blocks :
        /\ b.begin > reassembler.head_index
        /\ b.data = Substring(b.begin, Len(b.data))
        /\ \A c \in reassembler.blocks : b # c => EndOf(b) < c.begin \/ EndOf(c) < b.begin

\* unassembled_bytes() is the number of bytes stored and not yet reassembled,
\* each counted once (the note of stream_reassembler.hh), if the peer keeps to
\* the window.
UnassembledExact == behaved => reassembler.unassembled = Cardinality(Stored)

\* The capacity limits the bytes reassembled but unread together with those
\* not yet reassembled (the note on the constructor), if the peer keeps to the
\* window.
WithinCapacity ==
    behaved => Cardinality(Stored) + Len(reassembler.output.buffer) <= Capacity

\* The output stream ends only after the last byte of the stream was written
\* to it (the JUDGE_EOF label; "the last byte of `data` will be the last byte
\* in the entire stream"), unless the end mark comes without data and too early.
EofOnlyAtEnd ==
    behaved /\ reassembler.output.input_end => reassembler.output.written = StreamLen

\* The reassembler described without its blocks.
AbsState ==
    [ stored |-> [ i \in Stored |->
                     LET b == CHOOSE b \in reassembler.blocks : i \in b.begin..(EndOf(b) - 1)
                     IN  b.data[i - b.begin + 1] ],
      unassembled |-> reassembler.unassembled,
      head_index |-> reassembler.head_index,
      eof_flag |-> reassembler.eof_flag,
      output |-> reassembler.output ]

Abs == INSTANCE Reassembly WITH asm <- AbsState

\* The block list and its merge loops implement the description by indices
\* on which the receiver is built: every call changes the stored bytes, the
\* counters and the output stream exactly as ReassemblerSpec says.
ImplementsSpec == Abs!Spec

=============================================================================
