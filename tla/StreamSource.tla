---------------------------- MODULE StreamSource ----------------------------
(***************************************************************************)
(* The byte stream one side of the connection sends, and its substrings.   *)
(***************************************************************************)
EXTENDS Integers, Sequences

CONSTANTS
    Byte,   \* the values a byte can have
    Stream  \* the bytes of the stream, first byte first

ASSUME StreamAssumption == Stream \in Seq(Byte)

StreamLen == Len(Stream)

\* The byte at 0-based index i, and the substring of n bytes that begins there.
ByteAt(i) == Stream[i + 1]
Substring(i, n) == SubSeq(Stream, i + 1, i + n)

=============================================================================
