----------------------------- MODULE ByteStream -----------------------------
(***************************************************************************)
(* class ByteStream (libsponge/byte_stream): a flow-controlled in-memory   *)
(* byte stream.  An object is a record, a method that changes the object   *)
(* an operator from the old record to the new one; the capacity is passed  *)
(* in because each owner constructs its stream with its own.               *)
(*                                                                         *)
(* The BufferList holding the bytes is flattened to the sequence of bytes  *)
(* it concatenates to.                                                     *)
(***************************************************************************)
EXTENDS Integers, Sequences

NewByteStream ==
    [ buffer |-> <<>>, written |-> 0, readden |-> 0,
      input_end |-> FALSE, error |-> FALSE ]

ByteStreamType(Byte) ==
    [ buffer : Seq(Byte), written : Nat, readden : Nat,
      input_end : BOOLEAN, error : BOOLEAN ]

MinOf(a, b) == IF a <= b THEN a ELSE b
MaxOf(a, b) == IF a >= b THEN a ELSE b

-----------------------------------------------------------------------------
remaining_capacity(s, capacity) == capacity - Len(s.buffer)

\* The number of bytes write() accepts: as many as fit.  Nothing in write()
\* looks at _input_end.
accepted(s, capacity, data) == MinOf(Len(data), remaining_capacity(s, capacity))

write(s, capacity, data) ==
    LET len == accepted(s, capacity, data)
    IN  [ s EXCEPT !.written = @ + len,
                   !.buffer  = @ \o SubSeq(data, 1, len) ]

peek_output(s, len) == SubSeq(s.buffer, 1, MinOf(len, Len(s.buffer)))

pop_output(s, len) ==
    LET length == MinOf(len, Len(s.buffer))
    IN  [ s EXCEPT !.readden = @ + length,
                   !.buffer  = SubSeq(@, length + 1, Len(@)) ]

end_input(s) == [ s EXCEPT !.input_end = TRUE ]

set_error(s) == [ s EXCEPT !.error = TRUE ]

eof(s) == s.buffer = <<>> /\ s.input_end

=============================================================================
