---------------------- MODULE ConnectionSystem_proofs ----------------------
(***************************************************************************)
(* What arrives at either end of a connection is a prefix of what the      *)
(* other end sent, for streams shorter than half the sequence space and    *)
(* any initial sequence numbers.                                           *)
(*                                                                         *)
(* The invariant says of a segment, wherever it is on its way, that it is  *)
(* a piece of its sender's stream under the right number, and that its     *)
(* ackno is one its sender's receiver had reached.                         *)
(*                                                                         *)
(* An endpoint that gives up sends one RST, in its last segment.  For this *)
(* a second invariant says what a connection looks like between two calls. *)
(*                                                                         *)
(* What TCPState reports of an endpoint goes back only where an ackno has  *)
(* the value 0, and an endpoint that closes has delivered its stream.  A   *)
(* third invariant says that the segments in flight lie end to end, and    *)
(* why a connection stopped.                                               *)
(*                                                                         *)
(* It has also received the stream of its peer, and what a sender takes    *)
(* for acknowledged was received, unless a FIN came too early.  A fourth   *)
(* invariant says of a receiver that has seen the FIN that it has the end  *)
(* of the stream or keeps it, or has lost bytes it still counts and will   *)
(* never end.                                                              *)
(***************************************************************************)
EXTENDS ConnectionSystem, FiniteSetTheorems, CommonLemmas

-----------------------------------------------------------------------------
\* An object with the given fields.
Has(r, F) == r = [ f \in F |-> r[f] ]

Bit(b) == IF b THEN 1 ELSE 0

\* The n bytes that x sends from index i.
Part(x, i, n) == SubSeq(Data[x], i + 1, i + n)

StreamFields == { "buffer", "written", "readden", "input_end", "error" }

\* A stream that passes the bytes of x on, in order.
Passes(x, s) ==
    /\ Has(s, StreamFields)
    /\ s.buffer \in Seq(Byte) /\ s.written \in Nat /\ s.readden \in Nat
    /\ s.input_end \in BOOLEAN /\ s.error \in BOOLEAN
    /\ s.readden + Len(s.buffer) = s.written
    /\ s.written <= Len(Data[x])
    /\ s.buffer = Part(x, s.readden, Len(s.buffer))

\* The application of x ends its stream after the last byte.
EndsWhole(x, s) == s.input_end => s.written = Len(Data[x])

\* The segment has the number of the piece of the stream of x that it carries: 0 is
\* that of the SYN, i + 1 that of the byte at i; the FIN comes with the last piece.
CutFrom(x, seg) ==
    \E n \in 0..(Len(Data[x]) + 2) :
        /\ seg.seqno = wrap(n, Isn[x])
        /\ seg.syn => n = 0 /\ seg.payload = <<>>
        /\ seg.fin => n > 0 /\ n - 1 + Len(seg.payload) = Len(Data[x])
        /\ seg.payload # <<>> =>
              /\ n > 0 /\ n - 1 + Len(seg.payload) <= Len(Data[x])
              /\ seg.payload = Part(x, n - 1, Len(seg.payload))

\* What the other side looks at in a segment.
PieceOf(x, seg) ==
    /\ seg.syn \in BOOLEAN /\ seg.fin \in BOOLEAN /\ seg.payload \in Seq(Byte)
    /\ CutFrom(x, seg)

Pieces(x) == { seg \in Segment(Byte) : CutFrom(x, seg) }

SenderFields ==
    { "isn", "syn", "fin", "stream", "next_seqno", "receive_ack", "checkpoint", "window_size",
      "window_is_zero", "bytes_in_flight", "segments_in_flight", "segments_out", "clock",
      "clock_is_counting", "retrans_timeout", "consecutive_retrans" }

SenderTyped(x, s) ==
    /\ Has(s, SenderFields)
    /\ s.isn = Isn[x] /\ s.window_size \in 0..RecvCapacity
    /\ s.segments_in_flight \in Seq(Pieces(x)) /\ s.segments_out \in Seq(Pieces(x))

\* A sender of x: the next number counts the SYN, the bytes taken off the stream and
\* the FIN.
SenderOK(x, s) ==
    /\ SenderTyped(x, s)
    /\ s.syn \in BOOLEAN /\ s.fin \in BOOLEAN
    /\ Passes(x, s.stream) /\ EndsWhole(x, s.stream)
    /\ s.next_seqno = Bit(s.syn) + s.stream.readden + Bit(s.fin)
    /\ ~s.syn => s.stream.readden = 0 /\ ~s.fin
    /\ s.receive_ack = s.checkpoint /\ s.checkpoint \in 0..s.next_seqno

ReassemblerFields == { "stored", "unassembled", "head_index", "eof_flag", "output" }

\* The bytes of x that wait, each at its index.
Keeps(x, stored) ==
    /\ stored = [ i \in DOMAIN stored |-> stored[i] ]
    /\ DOMAIN stored \subseteq 0..(Len(Data[x]) - 1)
    /\ \A i \in DOMAIN stored : stored[i] = Data[x][i + 1]

Assembles(x, p) ==
    /\ Has(p, ReassemblerFields)
    /\ Passes(x, p.output) /\ Len(p.output.buffer) <= RecvCapacity
    /\ p.head_index = p.output.written
    /\ Keeps(x, p.stored)
    /\ p.eof_flag \in BOOLEAN /\ p.unassembled \in Int

ReceiverFields == { "ackno", "isn", "syn", "fin", "fin_not_count", "reassembler" }

\* The numbers a receiver has: the SYN, the bytes written and the FIN.
Reached(r) == Bit(r.syn) + stream_out(r).written + Bit(stream_out(r).input_end)

\* A receiver of the stream of x: its ackno is that of a number it has reached.
ReceiverOK(x, r) ==
    /\ Has(r, ReceiverFields)
    /\ Assembles(x, r.reassembler)
    /\ r.syn \in BOOLEAN /\ r.fin \in BOOLEAN /\ r.fin_not_count \in BOOLEAN
    /\ stream_out(r).input_end <=> ~r.fin_not_count
    /\ r.reassembler.eof_flag => r.fin
    /\ r.syn => r.isn = Isn[x] /\ \E a \in 1..Reached(r) : r.ackno = wrap(a, Isn[x])
    /\ ~r.syn => /\ ~r.fin /\ r.fin_not_count /\ stream_out(r).written = 0
                 /\ DOMAIN r.reassembler.stored = {}

\* What connections send each other.
Message ==
    [ seqno : U32, syn : BOOLEAN, fin : BOOLEAN, payload : Seq(Byte),
      rst : BOOLEAN, ack : BOOLEAN, ackno : U32, win : 0..RecvCapacity ]

\* The segments that may be under way from x: of the stream of x, and about that of the
\* other side, of which the first m numbers were reached.
Truthful(x, m) ==
    { seg \in Message :
        CutFrom(x, seg) /\ (seg.ack => \E a \in 1..m : seg.ackno = wrap(a, Isn[Other(x)])) }

ConnectionFields ==
    { "sender", "receiver", "active", "linger_after_streams_finish", "syn_sended",
      "need_send_rst", "time_since_last_segment_received", "segments_out" }

ConnectionOK(x, c) ==
    /\ Has(c, ConnectionFields)
    /\ SenderOK(x, c.sender)
    /\ ReceiverOK(Other(x), c.receiver)
    /\ c.need_send_rst \in BOOLEAN
    /\ c.segments_out \in Seq(Truthful(x, Reached(c.receiver)))

\* Of connections f whose applications have read got.
InvOf(f, got) ==
    /\ f = [ x \in Side |-> f[x] ] /\ got = [ x \in Side |-> got[x] ]
    /\ \A x \in Side :
          /\ ConnectionOK(x, f[x])
          /\ got[x] = Part(Other(x), 0, inbound_stream(f[x]).readden)
          /\ f[x].sender.receive_ack <= Reached(f[Other(x)].receiver)

Inv == InvOf(conn, received)

-----------------------------------------------------------------------------
\* Every stream is shorter than half the sequence space, and 64-bit numbers have room
\* for a turn of it.
ShortStreams ==
    /\ 2 * M32 <= M64
    /\ \A x \in Side : Len(Data[x]) + 2 < HALF

\* There are two sides, each the other of the other.
LEMMA SideFacts ==
  ASSUME NEW x \in Side
  PROVE  /\ Other(x) \in Side /\ Other(x) # x /\ Other(Other(x)) = x
         /\ \A z \in Side : z = x \/ z = Other(x)
<1>1. PICK p, q \in Side : p # q /\ Side = {p, q} BY ConnectionAssumption
<1>2. Other(p) = q /\ Other(q) = p BY <1>1 DEF Other
<1> QED BY <1>1, <1>2

\* The stream of a side, and the number it begins with.
LEMMA DataFacts ==
  ASSUME NEW x \in Side
  PROVE  /\ Data[x] \in Seq(Byte) /\ Len(Data[x]) \in Nat
         /\ Isn[x] \in U32 /\ Isn[x] \in Nat
<1>1. Data[x] \in Seq(Byte) BY ConnectionAssumption
<1>2. Len(Data[x]) \in Nat BY <1>1, LenProperties
<1>3. Isn[x] \in U32 BY ConnectionAssumption
<1> QED BY <1>1, <1>2, <1>3 DEF U32

\* The widths of the numbers.
LEMMA WidthFacts == HALF \in Nat /\ M32 \in Nat /\ M32 = 2 * HALF /\ M32 > 0 /\ M64 \in Nat
BY WidthAssumption DEF M32

\* wrap(n, i) is the 32-bit number congruent to n + i.
LEMMA WrapCongruent ==
  ASSUME NEW n \in Int, NEW i \in Int
  PROVE  /\ wrap(n, i) \in 0..(M32 - 1) /\ wrap(n, i) \in U32
         /\ \E q \in Int : n + i = q * M32 + wrap(n, i)
<1>1. M32 \in Nat \ {0} BY WidthFacts
<1>2. wrap(n, i) = WrapMod(n, i, M32) BY DEF wrap, WrapMod
<1>3. /\ WrapMod(n, i, M32) \in 0..(M32 - 1)
      /\ \E q \in Int : n + i = q * M32 + WrapMod(n, i, M32)
  BY <1>1, WrapModCongruent
<1> QED BY <1>2, <1>3 DEF U32

\* The number m places after a wrapped one, wherever the 32-bit numbers end.
LEMMA WrapPlus ==
  ASSUME NEW n \in Int, NEW m \in Int, NEW i \in Int
  PROVE  Plus32(wrap(n, i), m) = wrap(n + m, i)
<1> DEFINE w == wrap(n, i)
           v == wrap(n + m, i)
<1>1. M32 \in Nat \ {0} BY WidthFacts
<1>2. w \in 0..(M32 - 1) /\ \E q \in Int : n + i = q * M32 + w BY WrapCongruent
<1>3. v \in 0..(M32 - 1) /\ \E q \in Int : (n + m) + i = q * M32 + v
  <2>1. n + m \in Int OBVIOUS
  <2> QED BY <2>1, WrapCongruent
<1> HIDE DEF w, v
<1>4. PICK p \in Int : n + i = p * M32 + w BY <1>2
<1>5. PICK q \in Int : (n + m) + i = q * M32 + v BY <1>3
<1>6. (q - p) * M32 = q * M32 - p * M32 /\ q * M32 \in Int /\ p * M32 \in Int BY <1>1
<1>7. w + m = (q - p) * M32 + v /\ w + m \in Int /\ q - p \in Int
  BY <1>1, <1>2, <1>3, <1>4, <1>5, <1>6
<1>8. (w + m) % M32 = v BY <1>1, <1>3, <1>7, ModUnique
<1> QED BY <1>8 DEF Plus32, w, v

\* Numbers below half the sequence space are recovered from their 32 bits, wherever the
\* 32-bit numbers end in between.
LEMMA UnwrapShort ==
  ASSUME NEW n \in Nat, NEW i \in Nat, NEW c \in Nat, n < HALF, c < HALF, 2 * M32 <= M64
  PROVE  unwrap(wrap(n, i), i, c) = n
<1>1. HALF \in Nat \ {0} /\ M32 = 2 * HALF /\ M64 \in Nat BY WidthFacts, WidthAssumption
<1>2. /\ n \in 0..(M64 - 1) /\ c \in 0..(M64 - 1) /\ i \in Int
      /\ n - c < HALF /\ c - n <= HALF /\ c + M32 <= M64
  BY <1>1
<1>3. UnwrapMod(WrapMod(n, i, M32), i, c, HALF, M32, M64) = n BY <1>1, <1>2, UnwrapModNearest
<1>4. unwrap(wrap(n, i), i, c) = UnwrapMod(WrapMod(n, i, M32), i, c, HALF, M32, M64)
  BY DEF unwrap, wrap, UnwrapMod, WrapMod
<1> QED BY <1>3, <1>4

-----------------------------------------------------------------------------
\* Parts of a stream, and streams that pass them on.
LEMMA PartFacts ==
  ASSUME NEW x \in Side, NEW i \in Nat, NEW n \in Nat, i + n <= Len(Data[x])
  PROVE  /\ Part(x, i, n) \in Seq(Byte) /\ Len(Part(x, i, n)) = n
         /\ \A k \in 1..n : Part(x, i, n)[k] = Data[x][i + k]
BY DataFacts, PieceFacts DEF Part

\* A piece of a part is a part.
LEMMA PartOfPart ==
  ASSUME NEW x \in Side, NEW i \in Nat, NEW n \in Nat, i + n <= Len(Data[x]),
         NEW a \in 0..n, NEW b \in a..n
  PROVE  SubSeq(Part(x, i, n), a + 1, b) = Part(x, i + a, b - a)
<1>1. SubSeq(SubSeq(Data[x], i + 1, i + n), a + 1, b) = SubSeq(Data[x], i + a + 1, i + b)
  BY DataFacts, PieceOfPiece
<1>2. i + b = i + a + (b - a) OBVIOUS
<1> QED BY <1>1, <1>2 DEF Part

\* So is its beginning.
LEMMA PartPrefix ==
  ASSUME NEW x \in Side, NEW i \in Nat, NEW n \in Nat, i + n <= Len(Data[x]), NEW b \in 0..n
  PROVE  SubSeq(Part(x, i, n), 1, b) = Part(x, i, b)
<1>1. 0 \in 0..n /\ b \in 0..n /\ 0 + 1 = 1 /\ i + 0 = i /\ b - 0 = b OBVIOUS
<1>2. SubSeq(Part(x, i, n), 0 + 1, b) = Part(x, i + 0, b - 0) BY <1>1, PartOfPart, ZenonT(30)
<1> QED BY <1>1, <1>2

\* A part and the part that follows make one part.
LEMMA PartsJoin ==
  ASSUME NEW x \in Side, NEW i \in Nat, NEW m \in Nat, NEW n \in Nat, i + m + n <= Len(Data[x])
  PROVE  Part(x, i, m) \o Part(x, i + m, n) = Part(x, i, m + n)
<1>1. Data[x] \in Seq(Byte) /\ Len(Data[x]) \in Nat BY DataFacts
<1>2. /\ i + 1 \in 1..(Len(Data[x]) + 1)
      /\ i + m \in (i + 1) - 1..Len(Data[x])
      /\ i + m + n \in (i + m)..Len(Data[x])
  BY <1>1
<1>3. SubSeq(Data[x], i + 1, i + m) \o SubSeq(Data[x], (i + m) + 1, i + m + n)
        = SubSeq(Data[x], i + 1, i + m + n)
  BY <1>1, <1>2, ConcatAdjacentSubSeq
<1>4. i + m + n = i + (m + n) /\ (i + m) + n = i + m + n BY <1>1
<1> QED BY <1>3, <1>4 DEF Part

\* What a call of ByteStream leaves alone.
SameFlags(s, t) == t.input_end = s.input_end /\ t.error = s.error

\* A new stream has passed nothing.
LEMMA NewPasses ==
  ASSUME NEW x \in Side
  PROVE  LET s == NewByteStream
         IN  /\ Passes(x, s) /\ s.written = 0 /\ s.readden = 0 /\ s.buffer = <<>>
             /\ s.input_end = FALSE
<1> DEFINE s == NewByteStream
           none == <<>>
<1>1. none \in Seq(Byte) /\ Len(none) = 0 BY EmptySeq
<1>2. /\ s.written = 0 /\ s.readden = 0 /\ s.buffer = none /\ s.input_end = FALSE
      /\ s.error = FALSE /\ Has(s, StreamFields)
  BY DEF NewByteStream, Has, StreamFields
<1>3. Len(Data[x]) \in Nat BY DataFacts
<1>4. none = Part(x, 0, 0)
  <2>1. 0 + 0 <= Len(Data[x]) BY <1>3
  <2>2. Part(x, 0, 0) \in Seq(Byte) /\ Len(Part(x, 0, 0)) = 0 BY <2>1, PartFacts
  <2> HIDE DEF none
  <2> QED BY <1>1, <2>2, SeqEqual
<1> HIDE DEF none, s
<1>5. /\ s.buffer = Part(x, s.readden, Len(s.buffer)) /\ s.buffer \in Seq(Byte)
      /\ s.written \in Nat /\ s.readden \in Nat /\ s.readden + Len(s.buffer) = s.written
      /\ s.input_end \in BOOLEAN /\ s.error \in BOOLEAN /\ s.written <= Len(Data[x])
  <2>1. s.buffer \in Seq(Byte) /\ Len(s.buffer) = 0 BY <1>1, <1>2
  <2>2. s.buffer = Part(x, s.readden, Len(s.buffer)) BY <1>2, <1>4, <2>1
  <2>3. s.input_end \in BOOLEAN /\ s.error \in BOOLEAN BY <1>2
  <2> QED BY <1>2, <1>3, <2>1, <2>2, <2>3
<1>6. Passes(x, s) BY <1>2, <1>5 DEF Passes
<1> QED BY <1>2, <1>6 DEF none, s

\* What the fields of such a stream are.
LEMMA PassesFacts ==
  ASSUME NEW x \in Side, NEW s, Passes(x, s)
  PROVE  /\ s.readden \in Nat /\ s.written \in Nat /\ s.buffer \in Seq(Byte)
         /\ Len(s.buffer) \in Nat /\ s.readden + Len(s.buffer) = s.written
         /\ s.written <= Len(Data[x]) /\ s.buffer = Part(x, s.readden, Len(s.buffer))
         /\ s.input_end \in BOOLEAN /\ s.error \in BOOLEAN
<1>1. s.buffer \in Seq(Byte) BY DEF Passes
<1>2. Len(s.buffer) \in Nat BY <1>1, LenProperties
<1> QED BY <1>2 DEF Passes

\* ByteStream::write of what follows in the stream of x: what is accepted is added.
LEMMA WritePasses ==
  ASSUME NEW x \in Side, NEW s, Passes(x, s), NEW cap \in Nat, Len(s.buffer) <= cap,
         NEW n \in Nat, s.written + n <= Len(Data[x]), NEW data, data = Part(x, s.written, n)
  PROVE  LET t == write(s, cap, data)
             len == accepted(s, cap, data)
         IN  /\ len \in 0..n
             /\ Passes(x, t) /\ SameFlags(s, t) /\ t.readden = s.readden
             /\ t.written = s.written + len /\ Len(t.buffer) = Len(s.buffer) + len
             /\ Len(t.buffer) <= cap
<1> DEFINE t == write(s, cap, data)
           len == accepted(s, cap, data)
           l == Len(s.buffer)
           rd == s.readden
           w == s.written
           more == SubSeq(data, 1, len)
           b == s.buffer \o more
<1>1. /\ rd \in Nat /\ l \in Nat /\ w \in Nat /\ rd + l = w /\ l <= cap
      /\ s.buffer = Part(x, rd, l)
  BY PassesFacts
<1>2. Len(Data[x]) \in Nat /\ w + n <= Len(Data[x]) BY DataFacts
<1>3. Len(data) = n BY <1>1, PartFacts
<1>4. len = MinOf(Len(data), cap - l) BY DEF accepted, remaining_capacity
<1>5. t = [ s EXCEPT !.written = w + len, !.buffer = b ] BY DEF write
<1> HIDE DEF len, l, rd, w
<1>6. len \in 0..n /\ l + len <= cap BY <1>1, <1>3, <1>4 DEF MinOf
<1>7. more = Part(x, w, len)
  <2>1. SubSeq(Part(x, w, n), 1, len) = Part(x, w, len) BY <1>1, <1>2, <1>6, PartPrefix
  <2>2. data = Part(x, w, n) BY DEF w
  <2> QED BY <2>1, <2>2
<1> HIDE DEF more
<1>8. b = Part(x, rd, l + len)
  <2>1. rd + l + len <= Len(Data[x]) /\ len \in Nat BY <1>1, <1>2, <1>6
  <2>2. Part(x, rd, l) \o Part(x, rd + l, len) = Part(x, rd, l + len)
    BY <1>1, <2>1, PartsJoin
  <2> QED BY <1>1, <1>7, <2>2
<1> HIDE DEF b
<1>9. b \in Seq(Byte) /\ Len(b) = l + len
  <2> DEFINE m == l + len
  <2>1. rd + m <= Len(Data[x]) /\ m \in Nat BY <1>1, <1>2, <1>6
  <2> HIDE DEF m
  <2>2. Part(x, rd, m) \in Seq(Byte) /\ Len(Part(x, rd, m)) = m BY <1>1, <2>1, PartFacts
  <2> QED BY <1>8, <2>2 DEF m
<1> HIDE DEF t
<1>10. /\ Has(t, StreamFields) /\ t.written = w + len /\ t.buffer = b
       /\ t.readden = rd /\ SameFlags(s, t)
  BY <1>5 DEF Passes, Has, StreamFields, SameFlags, rd
<1>11. /\ w + len \in Nat /\ w + len <= Len(Data[x]) /\ rd + (l + len) = w + len
  BY <1>1, <1>2, <1>6
<1>12. Passes(x, t) BY <1>1, <1>8, <1>9, <1>10, <1>11 DEF Passes, SameFlags
<1> QED BY <1>6, <1>9, <1>10, <1>12 DEF t, len, l, rd, w

\* ByteStream::pop_output, and what peek_output showed before it.
LEMMA PopPasses ==
  ASSUME NEW x \in Side, NEW s, Passes(x, s), NEW n \in Nat
  PROVE  LET t == pop_output(s, n)
             len == MinOf(n, Len(s.buffer))
         IN  /\ len \in 0..n /\ len <= Len(s.buffer)
             /\ Passes(x, t) /\ SameFlags(s, t) /\ t.written = s.written
             /\ t.readden = s.readden + len /\ Len(t.buffer) = Len(s.buffer) - len
             /\ peek_output(s, n) = Part(x, s.readden, len)
<1> DEFINE t == pop_output(s, n)
           l == Len(s.buffer)
           rd == s.readden
           len == MinOf(n, l)
           b == SubSeq(s.buffer, len + 1, l)
           p == SubSeq(s.buffer, 1, len)
<1>1. /\ rd \in Nat /\ l \in Nat /\ s.written \in Nat /\ rd + l = s.written
      /\ s.buffer = Part(x, rd, l) /\ s.written <= Len(Data[x])
  BY PassesFacts
<1>2. Len(Data[x]) \in Nat BY DataFacts
<1>3. len \in 0..n /\ len <= l BY <1>1 DEF MinOf
<1>4. t = [ s EXCEPT !.readden = rd + len, !.buffer = b ] BY DEF pop_output
<1>5. peek_output(s, n) = p BY DEF peek_output
<1> HIDE DEF len, l, rd
<1>6. rd + l <= Len(Data[x]) BY <1>1
<1>7. b = Part(x, rd + len, l - len)
  <2>1. len \in 0..l /\ l \in len..l BY <1>1, <1>3
  <2>2. SubSeq(Part(x, rd, l), len + 1, l) = Part(x, rd + len, l - len)
    BY <1>1, <1>6, <2>1, PartOfPart
  <2> QED BY <1>1, <2>2
<1> HIDE DEF b
<1>8. b \in Seq(Byte) /\ Len(b) = l - len
  <2> DEFINE i == rd + len
             m == l - len
  <2>1. i \in Nat /\ m \in Nat /\ i + m <= Len(Data[x]) BY <1>1, <1>2, <1>3, <1>6
  <2> HIDE DEF i, m
  <2>2. Part(x, i, m) \in Seq(Byte) /\ Len(Part(x, i, m)) = m BY <2>1, PartFacts
  <2> QED BY <1>7, <2>2 DEF i, m
<1>9. p = Part(x, rd, len)
  <2>1. len \in 0..l BY <1>1, <1>3
  <2>2. SubSeq(Part(x, rd, l), 1, len) = Part(x, rd, len) BY <1>1, <1>6, <2>1, PartPrefix
  <2> QED BY <1>1, <2>2
<1> HIDE DEF t, p
<1>10. /\ Has(t, StreamFields) /\ t.readden = rd + len /\ t.buffer = b
       /\ t.written = s.written /\ SameFlags(s, t)
  BY <1>4 DEF Passes, Has, StreamFields, SameFlags
<1>11. rd + len \in Nat /\ (rd + len) + (l - len) = s.written BY <1>1, <1>3
<1>12. Passes(x, t) BY <1>1, <1>7, <1>8, <1>10, <1>11 DEF Passes, SameFlags
<1> QED BY <1>3, <1>5, <1>8, <1>9, <1>10, <1>12 DEF t, len, l, rd

-----------------------------------------------------------------------------
\* The reassembler: bytes of x at their indices go in, and come out in order.
Fits(x, data, i) ==
    /\ data \in Seq(Byte) /\ i \in Nat
    /\ data # <<>> => i + Len(data) <= Len(Data[x]) /\ data = Part(x, i, Len(data))

\* The output goes on from that of p.
Continues(p, t) ==
    /\ t.output.readden = p.output.readden /\ t.output.error = p.output.error
    /\ p.output.written <= t.output.written

\* Where the head of a reassembler and what it keeps lie.
LEMMA AssemblesFacts ==
  ASSUME NEW x \in Side, NEW p, Assembles(x, p)
  PROVE  /\ p.head_index = p.output.written /\ p.head_index \in 0..Len(Data[x])
         /\ DOMAIN p.stored \in SUBSET (0..(Len(Data[x]) - 1))
         /\ \A i \in DOMAIN p.stored : p.stored[i] = Data[x][i + 1]
<1>1. p.head_index = p.output.written /\ Passes(x, p.output) BY DEF Assembles
<1>2. p.output.written \in Nat /\ p.output.written <= Len(Data[x]) BY <1>1, PassesFacts
<1>3. Len(Data[x]) \in Nat BY DataFacts
<1> QED BY <1>1, <1>2, <1>3 DEF Assembles, Keeps

\* Storing a substring at its index.
LEMMA StoreAssembles ==
  ASSUME NEW x \in Side, NEW p, Assembles(x, p), NEW data, NEW i, Fits(x, data, i)
  PROVE  LET t == Store(p, data, i)
         IN  Assembles(x, t) /\ t.output = p.output /\ t.eof_flag = p.eof_flag
<1> DEFINE old == DOMAIN p.stored
           h == p.head_index
           n == Len(data)
           new == MaxOf(i, h)..(i + n - 1)
           keep == [ j \in old \cup new |->
                       IF j \in old THEN p.stored[j] ELSE data[j - i + 1] ]
           u == p.unassembled + Cardinality(new \ old)
           t == Store(p, data, i)
<1>1. /\ h \in Nat /\ old \in SUBSET (0..(Len(Data[x]) - 1))
      /\ \A j \in old : p.stored[j] = Data[x][j + 1]
  BY AssemblesFacts
<1>2. Len(Data[x]) \in Nat /\ data \in Seq(Byte) /\ n \in Nat /\ i \in Nat
  BY DataFacts, LenProperties DEF Fits
<1>3. ASSUME NEW j \in new PROVE j \in 0..(Len(Data[x]) - 1) /\ data[j - i + 1] = Data[x][j + 1]
  <2>1. j \in Int /\ i <= j /\ j <= i + n - 1 BY <1>1, <1>2 DEF MaxOf
  <2>2. n > 0 BY <1>2, <2>1
  <2>3. data # <<>> BY <1>2, <2>2, EmptySeq
  <2>4. i + n <= Len(Data[x]) /\ data = Part(x, i, n) BY <2>3 DEF Fits
  <2>5. \A k \in 1..n : Part(x, i, n)[k] = Data[x][i + k] BY <1>2, <2>4, PartFacts
  <2>6. j - i + 1 \in 1..n /\ i + (j - i + 1) = j + 1 BY <1>2, <2>1
  <2> QED BY <1>2, <2>1, <2>4, <2>5, <2>6
<1> HIDE DEF new, old
<1>4. Keeps(x, keep)
  <2>1. \A j \in old \cup new : keep[j] = Data[x][j + 1] BY <1>1, <1>3
  <2>2. old \cup new \subseteq 0..(Len(Data[x]) - 1) BY <1>1, <1>3
  <2> QED BY <2>1, <2>2 DEF Keeps
<1>5. t = [ p EXCEPT !.stored = keep, !.unassembled = u ] BY DEF Store, new, old
<1> HIDE DEF t, keep
<1>6. u \in Int
  <2>1. IsFiniteSet(0..(Len(Data[x]) - 1))
    <3>1. 0 \in Int /\ Len(Data[x]) - 1 \in Int BY <1>2
    <3> QED BY <3>1, FS_Interval
  <2>2. new \ old \subseteq 0..(Len(Data[x]) - 1) BY <1>3
  <2>3. Cardinality(new \ old) \in Nat BY <2>1, <2>2, FS_Subset, FS_CardinalityType
  <2> QED BY <2>3 DEF Assembles
<1> HIDE DEF u
<1>7. /\ Has(t, ReassemblerFields) /\ t.stored = keep /\ t.unassembled = u
      /\ t.head_index = p.head_index /\ t.eof_flag = p.eof_flag /\ t.output = p.output
  BY <1>5 DEF Assembles, Has, ReassemblerFields
<1> QED BY <1>4, <1>6, <1>7 DEF Assembles, t

\* The run of bytes at the head is a part of the stream.
LEMMA RunIsPart ==
  ASSUME NEW x \in Side, NEW stored, Keeps(x, stored), NEW h \in DOMAIN stored
  PROVE  LET e   == RunEnd(DOMAIN stored, h)
             run == [ k \in 1..(e - h) |-> stored[h + k - 1] ]
         IN  /\ h \in Nat /\ e \in Nat /\ h < e /\ e <= Len(Data[x])
             /\ run = Part(x, h, e - h)
<1> DEFINE S == DOMAIN stored
           e == RunEnd(S, h)
           n == Len(Data[x])
           run == [ k \in 1..(e - h) |-> stored[h + k - 1] ]
           q == Part(x, h, e - h)
<1>1. /\ n \in Nat /\ S \in SUBSET (0..(n - 1)) /\ h \in S
      /\ \A i \in S : stored[i] = Data[x][i + 1]
  BY DataFacts DEF Keeps
<1> HIDE DEF S, e, n
<1>2. RunEnd(S, h) = FirstGap(S, h) BY DEF RunEnd, FirstGap
<1>3. e \in Nat /\ h < e /\ e <= n /\ \A i \in h..(e - 1) : i \in S
  BY <1>1, <1>2, FirstGapFacts DEF e
<1>4. h \in Nat BY <1>1
<1>5. q \in Seq(Byte) /\ Len(q) = e - h /\ \A k \in 1..(e - h) : q[k] = Data[x][h + k]
  <2> DEFINE m == e - h
  <2>1. m \in Nat /\ h + m <= n BY <1>1, <1>3, <1>4
  <2> HIDE DEF m
  <2>2. /\ Part(x, h, m) \in Seq(Byte) /\ Len(Part(x, h, m)) = m
        /\ \A k \in 1..m : Part(x, h, m)[k] = Data[x][h + k]
    BY <1>4, <2>1, PartFacts DEF n
  <2> QED BY <2>2 DEF m
<1> HIDE DEF q
<1>6. \A k \in 1..(e - h) : stored[h + k - 1] = q[k]
  <2> TAKE k \in 1..(e - h)
  <2>1. h + k - 1 \in h..(e - 1) /\ (h + k - 1) + 1 = h + k BY <1>3, <1>4
  <2> QED BY <1>1, <1>3, <1>5, <2>1
<1>7. q = [ k \in 1..(e - h) |-> q[k] ] BY <1>5
<1>8. run = q BY <1>6, <1>7
<1> QED BY <1>1, <1>3, <1>4, <1>8 DEF q, n, e, S

\* Writing the bytes that wait at the head.
LEMMA AssembleAssembles ==
  ASSUME NEW x \in Side, NEW p, Assembles(x, p)
  PROVE  LET t == Assemble(p, RecvCapacity)
         IN  /\ Assembles(x, t) /\ Continues(p, t) /\ t.eof_flag = p.eof_flag
             /\ t.output.input_end = p.output.input_end
<1> DEFINE S == DOMAIN p.stored
           h == p.head_index
           cap == RecvCapacity
           e == RunEnd(S, h)
           run == [ k \in 1..(e - h) |-> p.stored[h + k - 1] ]
           len == accepted(p.output, cap, run)
           o == write(p.output, cap, run)
           rest == { j \in S : j >= e }
           keep == [ i \in rest |-> p.stored[i] ]
           u == p.unassembled - len
           t == Assemble(p, cap)
<1>1. CASE h \notin S
  <2>1. t = p BY <1>1 DEF Assemble
  <2>2. p.output.written \in Nat BY PassesFacts DEF Assembles
  <2> QED BY <2>1, <2>2 DEF Continues
<1>2. CASE h \in S
  <2>1. t = [ p EXCEPT !.output = o, !.head_index = h + len, !.unassembled = u, !.stored = keep ]
    BY <1>2 DEF Assemble
  <2>2. /\ h = p.output.written /\ Passes(x, p.output) /\ Len(p.output.buffer) <= cap
        /\ Keeps(x, p.stored) /\ p.unassembled \in Int /\ p.eof_flag \in BOOLEAN
        /\ Has(p, ReassemblerFields)
    BY DEF Assembles
  <2>3. h \in Nat /\ e \in Nat /\ h < e /\ e <= Len(Data[x]) /\ run = Part(x, h, e - h)
    BY <1>2, <2>2, RunIsPart
  <2>4. cap \in Nat BY TCPConfigAssumption
  <2> DEFINE m == e - h
  <2>5. m \in Nat /\ h + m <= Len(Data[x]) BY <2>3, DataFacts
  <2>6. run = Part(x, h, m) BY <2>3
  <2> HIDE DEF t, o, len, run, e, h, m, cap, keep, rest, u
  <2>7. /\ len \in 0..m
        /\ Passes(x, o) /\ SameFlags(p.output, o) /\ o.readden = p.output.readden
        /\ o.written = p.output.written + len
        /\ Len(o.buffer) <= cap
    BY <2>2, <2>4, <2>5, <2>6, WritePasses DEF o, len
  <2>8. Keeps(x, keep)
    <3>1. DOMAIN keep = rest /\ rest \subseteq S /\ keep = [ i \in rest |-> keep[i] ]
          /\ \A i \in rest : keep[i] = p.stored[i]
      BY DEF keep, rest
    <3> HIDE DEF keep, rest
    <3> QED BY <2>2, <3>1 DEF Keeps
  <2>9. /\ Has(t, ReassemblerFields) /\ t.stored = keep /\ t.unassembled = u
        /\ t.head_index = h + len /\ t.eof_flag = p.eof_flag /\ t.output = o
    BY <2>1, <2>2 DEF Has, ReassemblerFields
  <2>10. u \in Int /\ h + len = o.written BY <2>2, <2>7 DEF u
  <2>11. Assembles(x, t) BY <2>2, <2>7, <2>8, <2>9, <2>10 DEF Assembles, cap
  <2>12. p.output.written <= o.written BY <2>2, <2>3, <2>7
  <2> QED BY <2>7, <2>9, <2>11, <2>12 DEF Continues, SameFlags, t, cap
<1> QED BY <1>1, <1>2

\* The output is ended when the last byte is known and nothing waits.
LEMMA JudgeEofAssembles ==
  ASSUME NEW x \in Side, NEW p, Assembles(x, p), NEW b \in BOOLEAN
  PROVE  LET t == JudgeEof(p, b)
         IN  /\ Assembles(x, t) /\ Continues(p, t) /\ t.eof_flag = (p.eof_flag \/ b)
             /\ t.unassembled = p.unassembled
             /\ t.output.input_end = (p.output.input_end \/ (t.eof_flag /\ empty(t)))
<1> DEFINE flag == p.eof_flag \/ b
           o == IF flag /\ empty(p) THEN end_input(p.output) ELSE p.output
           t == JudgeEof(p, b)
<1>1. t = [ p EXCEPT !.eof_flag = flag, !.output = o ] BY DEF JudgeEof
<1>2. p.eof_flag \in BOOLEAN /\ Passes(x, p.output) /\ Has(p, ReassemblerFields) BY DEF Assembles
<1>3. p.output.input_end \in BOOLEAN /\ p.output.written \in Nat BY <1>2, PassesFacts
<1>4. /\ Passes(x, o) /\ o.written = p.output.written /\ o.readden = p.output.readden
      /\ o.buffer = p.output.buffer /\ o.error = p.output.error
      /\ o.input_end = (p.output.input_end \/ (flag /\ empty(p)))
  <2>1. CASE flag /\ empty(p)
    <3>1. o = [ p.output EXCEPT !.input_end = TRUE ] BY <2>1 DEF end_input
    <3> HIDE DEF o, flag
    <3>2. /\ Passes(x, o) /\ o.written = p.output.written /\ o.readden = p.output.readden
          /\ o.buffer = p.output.buffer
      BY <1>2, <3>1 DEF Passes, Has, StreamFields
    <3>3. o.input_end = TRUE /\ o.error = p.output.error
      BY <1>2, <3>1 DEF Passes, Has, StreamFields
    <3> QED BY <2>1, <3>2, <3>3
  <2>2. CASE ~(flag /\ empty(p))
    <3>1. o = p.output BY <2>2
    <3> HIDE DEF o, flag
    <3> QED BY <1>2, <1>3, <2>2, <3>1
  <2> QED BY <2>1, <2>2
<1> HIDE DEF t, o, flag
<1>5. /\ Has(t, ReassemblerFields) /\ t.stored = p.stored /\ t.unassembled = p.unassembled
      /\ t.head_index = p.head_index /\ t.eof_flag = flag /\ t.output = o
  BY <1>1, <1>2 DEF Has, ReassemblerFields
<1>6. flag \in BOOLEAN BY <1>2 DEF flag
<1>7. Assembles(x, t) BY <1>4, <1>5, <1>6 DEF Assembles
<1>8. Continues(p, t) BY <1>3, <1>4, <1>5 DEF Continues
<1>9. empty(t) <=> empty(p) BY <1>5 DEF empty
<1> QED BY <1>4, <1>5, <1>7, <1>8, <1>9 DEF t, flag

\* push_substring: the output goes on, and ends only when the last byte is known.
LEMMA PushAssembles ==
  ASSUME NEW x \in Side, NEW p, Assembles(x, p), NEW data, NEW i, Fits(x, data, i),
         NEW b \in BOOLEAN
  PROVE  LET t == push_substring(p, RecvCapacity, data, i, b)
         IN  /\ Assembles(x, t) /\ Continues(p, t)
             /\ t.eof_flag => p.eof_flag \/ b
             /\ p.output.input_end => t.output.input_end
             /\ t.output.input_end => \/ p.output.input_end
                                      \/ (p.eof_flag \/ b) /\ empty(t)
<1> DEFINE s == Store(p, data, i)
           a == Assemble(s, RecvCapacity)
           t == push_substring(p, RecvCapacity, data, i, b)
<1>1. Assembles(x, s) /\ s.output = p.output /\ s.eof_flag = p.eof_flag BY StoreAssembles
<1> HIDE DEF s
<1>2. /\ Assembles(x, a) /\ Continues(s, a) /\ a.eof_flag = s.eof_flag
      /\ a.output.input_end = s.output.input_end
  BY <1>1, AssembleAssembles
<1> HIDE DEF a
<1>3. t \in {p, JudgeEof(p, b), JudgeEof(a, b)} BY DEF push_substring, a, s
<1> HIDE DEF t
<1>4. p.output.written \in Nat /\ p.eof_flag \in BOOLEAN /\ p.output.input_end \in BOOLEAN
  BY PassesFacts DEF Assembles
<1>5. CASE t = p BY <1>4, <1>5 DEF Continues, t
<1>6. CASE t = JudgeEof(p, b)
  <2>1. /\ Assembles(x, t) /\ Continues(p, t) /\ t.eof_flag = (p.eof_flag \/ b)
        /\ t.output.input_end = (p.output.input_end \/ (t.eof_flag /\ empty(t)))
    BY <1>6, JudgeEofAssembles
  <2> QED BY <2>1 DEF t
<1>7. CASE t = JudgeEof(a, b)
  <2>1. /\ Assembles(x, t) /\ Continues(a, t) /\ t.eof_flag = (a.eof_flag \/ b)
        /\ t.output.input_end = (a.output.input_end \/ (t.eof_flag /\ empty(t)))
    BY <1>2, <1>7, JudgeEofAssembles
  <2>2. /\ a.output.written \in Nat /\ t.output.written \in Nat
    BY <1>2, <2>1, PassesFacts DEF Assembles
  <2>3. Continues(p, t) BY <1>1, <1>2, <1>4, <2>1, <2>2 DEF Continues
  <2> QED BY <1>1, <1>2, <2>1, <2>3 DEF t
<1> QED BY <1>3, <1>5, <1>6, <1>7

-----------------------------------------------------------------------------
\* The receiver.
LEMMA ReceiverFacts ==
  ASSUME NEW x \in Side, NEW r, ReceiverOK(x, r)
  PROVE  /\ Assembles(x, r.reassembler) /\ Passes(x, stream_out(r))
         /\ stream_out(r).written \in Nat /\ stream_out(r).written <= Len(Data[x])
         /\ stream_out(r).readden \in Nat /\ stream_out(r).input_end \in BOOLEAN
         /\ Reached(r) \in 0..(Len(Data[x]) + 2)
<1>1. Assembles(x, r.reassembler) /\ r.syn \in BOOLEAN BY DEF ReceiverOK
<1>2. Passes(x, stream_out(r)) BY <1>1 DEF Assembles, stream_out
<1>3. /\ stream_out(r).written \in Nat /\ stream_out(r).written <= Len(Data[x])
      /\ stream_out(r).readden \in Nat /\ stream_out(r).input_end \in BOOLEAN
  BY <1>2, PassesFacts
<1>4. Bit(r.syn) \in 0..1 /\ Bit(stream_out(r).input_end) \in 0..1 BY DEF Bit
<1>5. Reached(r) \in 0..(Len(Data[x]) + 2) BY <1>3, <1>4, DataFacts DEF Reached
<1> QED BY <1>1, <1>2, <1>3, <1>5

\* The first part of segment_received: the SYN.
LEMMA AcceptSynOK ==
  ASSUME NEW x \in Side, NEW r, ReceiverOK(x, r), NEW seg, PieceOf(x, seg),
         ~(seg.syn /\ r.syn)
  PROVE  LET t == AcceptSyn(r, seg)
         IN  /\ ReceiverOK(x, t) /\ t.reassembler = r.reassembler /\ Reached(r) <= Reached(t)
             /\ seg.syn => t.syn
<1> DEFINE t == AcceptSyn(r, seg)
<1>1. Reached(r) \in Nat BY ReceiverFacts, DataFacts
<1>2. CASE ~seg.syn
  <2>1. t = r BY <1>2 DEF AcceptSyn
  <2> QED BY <1>1, <1>2, <2>1
<1>3. CASE seg.syn
  <2> DEFINE a == Plus32(seg.seqno, 1)
  <2>1. t = [ r EXCEPT !.syn = TRUE, !.ackno = a, !.isn = seg.seqno ] BY <1>3 DEF AcceptSyn
  <2>2. /\ ~r.syn /\ ~r.fin /\ r.fin_not_count /\ stream_out(r).written = 0
        /\ Has(r, ReceiverFields)
    BY <1>3 DEF ReceiverOK
  <2>3. PICK n \in 0..(Len(Data[x]) + 2) : seg.seqno = wrap(n, Isn[x]) /\ (seg.syn => n = 0)
    BY DEF PieceOf, CutFrom
  <2>4. seg.seqno = wrap(0, Isn[x]) BY <1>3, <2>3
  <2>5. seg.seqno = Isn[x]
    <3>1. M32 \in Nat \ {0} /\ Isn[x] \in 0..(M32 - 1) /\ Isn[x] \in Int
      BY DataFacts, WidthFacts DEF U32
    <3>2. 0 % M32 = 0
      <4>1. 0 \in Int /\ 0 \in 0..(M32 - 1) /\ 0 = 0 * M32 + 0 BY <3>1
      <4> QED BY <3>1, <4>1, ModUnique
    <3>3. Isn[x] % M32 = Isn[x]
      <4>1. Isn[x] = 0 * M32 + Isn[x] BY <3>1
      <4> QED BY <3>1, <4>1, ModUnique
    <3>4. 0 + Isn[x] = Isn[x] BY <3>1
    <3> QED BY <2>4, <3>2, <3>3, <3>4 DEF wrap
  <2>6. a = wrap(1, Isn[x])
    <3>1. 0 \in Int /\ 1 \in Int /\ Isn[x] \in Int /\ 0 + 1 = 1 BY DataFacts
    <3>2. Plus32(wrap(0, Isn[x]), 1) = wrap(0 + 1, Isn[x]) BY <3>1, WrapPlus
    <3> QED BY <2>4, <3>1, <3>2
  <2> HIDE DEF a, t
  <2>7. /\ Has(t, ReceiverFields) /\ t.syn = TRUE /\ t.ackno = a /\ t.isn = seg.seqno
        /\ t.fin = r.fin /\ t.fin_not_count = r.fin_not_count /\ t.reassembler = r.reassembler
    BY <2>1, <2>2 DEF Has, ReceiverFields
  <2>8. stream_out(t) = stream_out(r) BY <2>7 DEF stream_out
  <2>9. Reached(t) = Reached(r) + 1 /\ 1 \in 1..Reached(t)
    <3>1. Bit(t.syn) = 1 /\ Bit(r.syn) = 0 BY <2>2, <2>7 DEF Bit
    <3>2. /\ stream_out(r).written \in Nat /\ Bit(stream_out(r).input_end) \in Nat
      BY ReceiverFacts DEF Bit
    <3> QED BY <2>8, <3>1, <3>2 DEF Reached
  <2>10. ReceiverOK(x, t) BY <2>5, <2>6, <2>7, <2>8, <2>9 DEF ReceiverOK
  <2> QED BY <1>1, <2>7, <2>9, <2>10 DEF t
<1> QED BY <1>2, <1>3 DEF PieceOf

\* Between the push of the payload and the count of the FIN.
Pushed(x, r, seg, t) ==
    /\ Has(t, ReceiverFields)
    /\ Assembles(x, t.reassembler) /\ Continues(r.reassembler, t.reassembler)
    /\ t.isn = r.isn /\ t.syn = r.syn /\ t.fin = r.fin /\ t.fin_not_count = r.fin_not_count
    /\ t.reassembler.eof_flag => r.fin \/ (seg.fin /\ r.syn)
    /\ ~r.fin_not_count => stream_out(t).input_end
    /\ stream_out(t).input_end =>
          ~r.fin_not_count \/ ((r.fin \/ (seg.fin /\ r.syn)) /\ empty(t.reassembler))
    /\ r.syn => \E a \in 1..(1 + stream_out(t).written + Bit(~r.fin_not_count)) :
                   t.ackno = wrap(a, Isn[x])
    /\ ~r.syn => t = r

\* The index a receiver computes for a segment is that of its payload.
LEMMA StreamIndexFits ==
  ASSUME ShortStreams, NEW x \in Side, NEW r, ReceiverOK(x, r), r.syn,
         NEW seg, PieceOf(x, seg)
  PROVE  /\ Fits(x, seg.payload, StreamIndex(r, seg))
         /\ seg.fin => StreamIndex(r, seg) + Len(seg.payload) = Len(Data[x])
<1> DEFINE w == stream_out(r).written
<1>1. PICK n \in 0..(Len(Data[x]) + 2) :
         /\ seg.seqno = wrap(n, Isn[x])
         /\ seg.syn => n = 0 /\ seg.payload = <<>>
         /\ seg.fin => n > 0 /\ n - 1 + Len(seg.payload) = Len(Data[x])
         /\ seg.payload # <<>> =>
               /\ n > 0 /\ n - 1 + Len(seg.payload) <= Len(Data[x])
               /\ seg.payload = Part(x, n - 1, Len(seg.payload))
  BY DEF PieceOf, CutFrom
<1>2. seg.payload \in Seq(Byte) BY DEF PieceOf
<1>3. CASE seg.syn
  <2>1. StreamIndex(r, seg) = 0 /\ seg.payload = <<>> BY <1>1, <1>3 DEF StreamIndex
  <2>2. ~seg.fin BY <1>1, <1>3
  <2> QED BY <1>2, <2>1, <2>2 DEF Fits
<1>4. CASE ~seg.syn
  <2>1. r.isn = Isn[x] BY DEF ReceiverOK
  <2>2. w \in Nat /\ w <= Len(Data[x]) BY ReceiverFacts
  <2> HIDE DEF w
  <2>3. /\ Len(Data[x]) \in Nat /\ Isn[x] \in Nat /\ HALF \in Nat /\ M32 = 2 * HALF
        /\ M64 \in Nat /\ Len(Data[x]) + 2 < HALF /\ 2 * M32 <= M64
    BY DataFacts, WidthFacts DEF ShortStreams
  <2>4. n \in Nat /\ n < HALF /\ w < HALF /\ n < M64 /\ M64 > 0 BY <2>2, <2>3
  <2>5. unwrap(wrap(n, Isn[x]), Isn[x], w) = n BY <2>2, <2>3, <2>4, UnwrapShort
  <2>6. unwrap(seg.seqno, r.isn, w) = n BY <1>1, <2>1, <2>5
  <2>7. StreamIndex(r, seg) = (n - 1) % M64 BY <1>4, <2>6 DEF StreamIndex, w
  <2>8. M64 \in Nat \ {0} BY <2>3, <2>4
  <2>9. (n - 1) % M64 \in Nat
    <3>1. n - 1 \in Int OBVIOUS
    <3>2. (n - 1) % M64 \in 0..(M64 - 1) BY <2>8, <3>1, ModDef
    <3> QED BY <2>8, <3>2
  <2>10. n > 0 => (n - 1) % M64 = n - 1
    <3> SUFFICES ASSUME n > 0 PROVE (n - 1) % M64 = n - 1 OBVIOUS
    <3>1. n - 1 \in Int /\ n - 1 \in 0..(M64 - 1) /\ n - 1 = 0 * M64 + (n - 1)
      BY <2>4, <2>8
    <3> QED BY <2>8, <3>1, ModUnique
  <2> QED BY <1>1, <1>2, <2>7, <2>9, <2>10 DEF Fits
<1> QED BY <1>3, <1>4 DEF PieceOf

\* The second part of segment_received: the payload and the ackno for it.
LEMMA PushPayloadOK ==
  ASSUME ShortStreams, NEW x \in Side, NEW r, ReceiverOK(x, r), NEW seg, PieceOf(x, seg)
  PROVE  Pushed(x, r, seg, PushPayload(r, RecvCapacity, seg))
<1> DEFINE cap == RecvCapacity
           t == PushPayload(r, cap, seg)
           w == stream_out(r).written
<1>1. /\ Has(r, ReceiverFields) /\ Assembles(x, r.reassembler)
      /\ r.syn \in BOOLEAN /\ r.fin \in BOOLEAN /\ r.fin_not_count \in BOOLEAN
      /\ (stream_out(r).input_end <=> ~r.fin_not_count)
      /\ r.reassembler.eof_flag => r.fin
      /\ r.syn => r.isn = Isn[x] /\ \E a \in 1..Reached(r) : r.ackno = wrap(a, Isn[x])
  BY DEF ReceiverOK
<1>2. /\ w \in Nat /\ w <= Len(Data[x]) /\ stream_out(r).input_end \in BOOLEAN
  BY ReceiverFacts
<1>3. r.syn => Reached(r) = 1 + w + Bit(~r.fin_not_count)
  BY <1>1, <1>2 DEF Reached, Bit
<1>4. CASE Closed(r)
  <2>1. t = r BY <1>4 DEF PushPayload
  <2>2. r.syn => r.fin /\ empty(r.reassembler) BY <1>1, <1>4 DEF Closed
  <2>3. Continues(r.reassembler, r.reassembler) BY <1>2 DEF Continues, stream_out
  <2> QED BY <1>1, <1>2, <1>3, <2>1, <2>2, <2>3 DEF Pushed
<1>5. CASE ~Closed(r)
  <2> DEFINE p == push_substring(r.reassembler, cap, seg.payload, StreamIndex(r, seg), seg.fin)
             newly == p.output.written - w
             ack == IF seg.syn \/ r.ackno = seg.seqno THEN Plus32(r.ackno, newly) ELSE r.ackno
  <2>1. t = [ r EXCEPT !.reassembler = p, !.ackno = ack ] BY <1>5 DEF PushPayload
  <2>2. r.syn /\ ~(r.fin /\ empty(r.reassembler)) BY <1>1, <1>5 DEF Closed
  <2>3. /\ Assembles(x, p) /\ Continues(r.reassembler, p)
        /\ p.eof_flag => r.reassembler.eof_flag \/ seg.fin
        /\ r.reassembler.output.input_end => p.output.input_end
        /\ p.output.input_end => \/ r.reassembler.output.input_end
                                 \/ (r.reassembler.eof_flag \/ seg.fin) /\ empty(p)
    <3>1. Fits(x, seg.payload, StreamIndex(r, seg)) BY <2>2, StreamIndexFits
    <3>2. seg.fin \in BOOLEAN BY DEF PieceOf
    <3> QED BY <1>1, <3>1, <3>2, PushAssembles
  <2>4. p.output.written \in Nat /\ p.output.written <= Len(Data[x]) /\ newly \in Nat
    <3>1. p.output.written \in Nat /\ p.output.written <= Len(Data[x])
      BY <2>3, PassesFacts DEF Assembles
    <3>2. w <= p.output.written BY <2>3 DEF Continues, stream_out
    <3> HIDE DEF p, w
    <3> QED BY <1>2, <3>1, <3>2
  <2>5. \E a \in 1..(1 + p.output.written + Bit(~r.fin_not_count)) : ack = wrap(a, Isn[x])
    <3> DEFINE b == Bit(~r.fin_not_count)
               v == p.output.written
    <3>1. b \in 0..1 BY DEF Bit
    <3>2. PICK a \in 1..(1 + w + b) : r.ackno = wrap(a, Isn[x])
      BY <1>1, <1>3, <2>2
    <3>3. v = w + newly /\ newly \in Nat /\ v \in Nat /\ v <= Len(Data[x]) BY <1>2, <2>4
    <3> HIDE DEF b, w, v, newly, p
    <3>5. CASE seg.syn \/ r.ackno = seg.seqno
      <4>1. a \in Nat /\ a + newly \in 1..(1 + v + b) BY <1>2, <3>1, <3>3
      <4>2. a \in Int /\ newly \in Int /\ Isn[x] \in Int BY <3>3, <4>1, DataFacts
      <4>3. Plus32(wrap(a, Isn[x]), newly) = wrap(a + newly, Isn[x]) BY <4>2, WrapPlus
      <4>4. ack = wrap(a + newly, Isn[x]) BY <3>2, <3>5, <4>3
      <4> QED BY <4>1, <4>4 DEF b, v
    <3>6. CASE ~(seg.syn \/ r.ackno = seg.seqno)
      <4>1. a \in 1..(1 + v + b) BY <1>2, <3>1, <3>3
      <4> QED BY <3>2, <3>6, <4>1 DEF b, v
    <3> QED BY <3>5, <3>6
  <2> HIDE DEF p, ack, t
  <2>6. /\ Has(t, ReceiverFields) /\ t.reassembler = p /\ t.ackno = ack /\ t.isn = r.isn
        /\ t.syn = r.syn /\ t.fin = r.fin /\ t.fin_not_count = r.fin_not_count
    BY <1>1, <2>1 DEF Has, ReceiverFields
  <2>7. stream_out(t) = p.output /\ stream_out(r) = r.reassembler.output
    BY <2>6 DEF stream_out
  <2>8. t.reassembler.eof_flag => r.fin \/ (seg.fin /\ r.syn) BY <1>1, <2>2, <2>3, <2>6
  <2>9. ~r.fin_not_count => stream_out(t).input_end BY <1>1, <2>3, <2>7
  <2>10. stream_out(t).input_end =>
           ~r.fin_not_count \/ ((r.fin \/ (seg.fin /\ r.syn)) /\ empty(t.reassembler))
    BY <1>1, <2>2, <2>3, <2>6, <2>7
  <2>11. \E a \in 1..(1 + stream_out(t).written + Bit(~r.fin_not_count)) :
            t.ackno = wrap(a, Isn[x])
    BY <2>5, <2>6, <2>7
  <2> QED BY <2>2, <2>3, <2>6, <2>8, <2>9, <2>10, <2>11 DEF Pushed, t, cap
<1> QED BY <1>4, <1>5

\* The third part of segment_received: the FIN.
LEMMA CountFinOK ==
  ASSUME NEW x \in Side, NEW r, ReceiverOK(x, r), NEW seg, PieceOf(x, seg),
         NEW t, Pushed(x, r, seg, t)
  PROVE  LET u == CountFin(t, seg)
         IN  /\ ReceiverOK(x, u) /\ Reached(r) <= Reached(u)
             /\ stream_out(u).readden = stream_out(r).readden
<1> DEFINE fin == t.fin \/ (seg.fin /\ t.syn)
           u == CountFin(t, seg)
           w == stream_out(t).written
<1>1. /\ Has(r, ReceiverFields)
      /\ r.syn \in BOOLEAN /\ r.fin \in BOOLEAN /\ r.fin_not_count \in BOOLEAN
      /\ (stream_out(r).input_end <=> ~r.fin_not_count)
      /\ r.syn => r.isn = Isn[x]
      /\ ~r.syn => /\ ~r.fin /\ r.fin_not_count /\ stream_out(r).written = 0
                   /\ DOMAIN r.reassembler.stored = {}
  BY DEF ReceiverOK
<1>2. /\ Has(t, ReceiverFields)
      /\ Assembles(x, t.reassembler) /\ Continues(r.reassembler, t.reassembler)
      /\ t.isn = r.isn /\ t.syn = r.syn /\ t.fin = r.fin /\ t.fin_not_count = r.fin_not_count
      /\ t.reassembler.eof_flag => r.fin \/ (seg.fin /\ r.syn)
      /\ ~r.fin_not_count => stream_out(t).input_end
      /\ stream_out(t).input_end =>
            ~r.fin_not_count \/ ((r.fin \/ (seg.fin /\ r.syn)) /\ empty(t.reassembler))
      /\ r.syn => \E a \in 1..(1 + w + Bit(~r.fin_not_count)) : t.ackno = wrap(a, Isn[x])
      /\ ~r.syn => t = r
  BY DEF Pushed
<1>3. Passes(x, t.reassembler.output) /\ t.reassembler.output = stream_out(t)
  BY <1>2 DEF Assembles, stream_out
<1>4. w \in Nat /\ w <= Len(Data[x]) /\ stream_out(t).input_end \in BOOLEAN
  BY <1>3, PassesFacts
<1>5. stream_out(r).written \in Nat /\ stream_out(r).input_end \in BOOLEAN BY ReceiverFacts
<1>6. stream_out(r).written <= w /\ stream_out(r).readden = stream_out(t).readden
  BY <1>2 DEF Continues, stream_out
<1>7. seg.fin \in BOOLEAN BY DEF PieceOf
<1> HIDE DEF w
<1>8. CASE ~(fin /\ empty(t.reassembler))
  <2>1. u = [ t EXCEPT !.fin = fin ] BY <1>8 DEF CountFin
  <2> HIDE DEF u, fin
  <2>2. /\ Has(u, ReceiverFields) /\ u.fin = fin /\ u.reassembler = t.reassembler
        /\ u.isn = t.isn /\ u.syn = t.syn /\ u.ackno = t.ackno
        /\ u.fin_not_count = t.fin_not_count
    BY <1>2, <2>1 DEF Has, ReceiverFields
  <2>3. stream_out(u) = stream_out(t) BY <2>2 DEF stream_out
  <2>4. fin = (r.fin \/ (seg.fin /\ r.syn)) BY <1>2 DEF fin
  <2>5. stream_out(u).input_end <=> ~u.fin_not_count
    BY <1>1, <1>2, <1>8, <2>2, <2>3, <2>4
  <2>6. u.syn => Reached(u) = 1 + w + Bit(~u.fin_not_count)
    BY <1>1, <1>2, <1>4, <2>2, <2>3, <2>5 DEF Reached, Bit, w
  <2>7. u.syn => \E a \in 1..Reached(u) : u.ackno = wrap(a, Isn[x])
    BY <1>2, <2>2, <2>6
  <2>8. ~u.syn => /\ ~u.fin /\ u.fin_not_count /\ stream_out(u).written = 0
                  /\ DOMAIN u.reassembler.stored = {}
    BY <1>1, <1>2, <2>2, <2>3, <2>4
  <2>9. u.fin \in BOOLEAN /\ (u.reassembler.eof_flag => u.fin) BY <1>1, <1>2, <1>7, <2>2, <2>4
  <2>10. ReceiverOK(x, u)
    BY <1>1, <1>2, <2>2, <2>5, <2>7, <2>8, <2>9 DEF ReceiverOK
  <2>11. Reached(r) <= Reached(u)
    BY <1>1, <1>2, <1>4, <1>5, <1>6, <2>2, <2>3 DEF Reached, Bit, w
  <2> QED BY <1>6, <2>3, <2>10, <2>11 DEF u
<1>9. CASE fin /\ empty(t.reassembler)
  <2> DEFINE p == EndOutput(t.reassembler)
             ack == IF t.fin_not_count THEN Plus32(t.ackno, 1) ELSE t.ackno
  <2>1. u = [ t EXCEPT !.fin = TRUE, !.ackno = ack, !.fin_not_count = FALSE,
                       !.reassembler = p ]
    BY <1>9 DEF CountFin
  <2>2. r.syn /\ t.syn BY <1>1, <1>2, <1>9
  <2> DEFINE o == end_input(t.reassembler.output)
  <2>3. /\ Passes(x, o) /\ o.written = w /\ o.readden = stream_out(t).readden
        /\ o.buffer = stream_out(t).buffer /\ o.input_end = TRUE
    <3>1. o = [ stream_out(t) EXCEPT !.input_end = TRUE ] BY <1>3 DEF end_input
    <3>2. Passes(x, stream_out(t)) BY <1>3
    <3> HIDE DEF o
    <3> QED BY <3>1, <3>2 DEF Passes, Has, StreamFields, w
  <2>4. p = [ t.reassembler EXCEPT !.output = o ] BY DEF EndOutput
  <2> HIDE DEF o, p, u
  <2>5. /\ Assembles(x, p) /\ p.output = o /\ p.eof_flag = t.reassembler.eof_flag
    <3>1. /\ Has(p, ReassemblerFields) /\ p.output = o /\ p.eof_flag = t.reassembler.eof_flag
          /\ p.head_index = t.reassembler.head_index /\ p.stored = t.reassembler.stored
          /\ p.unassembled = t.reassembler.unassembled
      BY <1>2, <2>4 DEF Assembles, Has, ReassemblerFields
    <3> QED BY <1>2, <1>3, <2>3, <3>1 DEF Assembles, w
  <2> HIDE DEF ack
  <2>6. /\ Has(u, ReceiverFields) /\ u.fin = TRUE /\ u.reassembler = p
        /\ u.isn = t.isn /\ u.syn = t.syn /\ u.ackno = ack /\ u.fin_not_count = FALSE
    BY <1>2, <2>1 DEF Has, ReceiverFields
  <2>7. stream_out(u) = o BY <2>5, <2>6 DEF stream_out
  <2>8. Reached(u) = 1 + w + 1
    BY <1>4, <2>2, <2>3, <2>6, <2>7 DEF Reached, Bit
  <2>9. \E a \in 1..(1 + w + 1) : ack = wrap(a, Isn[x])
    <3> DEFINE b == Bit(~r.fin_not_count)
    <3>1. PICK a \in 1..(1 + w + b) : t.ackno = wrap(a, Isn[x]) BY <1>2, <2>2
    <3>2. b = IF r.fin_not_count THEN 0 ELSE 1 BY DEF Bit
    <3> HIDE DEF b
    <3>3. CASE r.fin_not_count
      <4>1. a \in Int /\ a + 1 \in 1..(1 + w + 1) BY <1>4, <3>2, <3>3
      <4>2. 1 \in Int /\ Isn[x] \in Int BY DataFacts
      <4>3. Plus32(wrap(a, Isn[x]), 1) = wrap(a + 1, Isn[x]) BY <4>1, <4>2, WrapPlus
      <4>4. ack = wrap(a + 1, Isn[x]) BY <1>2, <3>1, <3>3, <4>3 DEF ack
      <4> QED BY <4>1, <4>4
    <3>4. CASE ~r.fin_not_count
      <4>1. a \in 1..(1 + w + 1) BY <1>4, <3>2, <3>4
      <4>2. ack = t.ackno BY <1>2, <3>4 DEF ack
      <4> QED BY <3>1, <4>1, <4>2
    <3> QED BY <3>3, <3>4
  <2>10. ReceiverOK(x, u)
    BY <1>1, <1>2, <2>2, <2>3, <2>5, <2>6, <2>7, <2>8, <2>9 DEF ReceiverOK
  <2>11. Reached(r) <= Reached(u) BY <1>1, <1>4, <1>5, <1>6, <2>8 DEF Reached, Bit
  <2> QED BY <1>6, <2>3, <2>7, <2>10, <2>11 DEF u
<1> QED BY <1>8, <1>9

\* TCPReceiver::segment_received on a segment of x, in whatever order they come.
LEMMA SegmentReceivedOK ==
  ASSUME ShortStreams, NEW x \in Side, NEW r, ReceiverOK(x, r), NEW seg, PieceOf(x, seg)
  PROVE  LET u == segment_received(r, RecvCapacity, seg)
         IN  /\ ReceiverOK(x, u) /\ Reached(r) <= Reached(u)
             /\ stream_out(u).readden = stream_out(r).readden
<1> DEFINE u == segment_received(r, RecvCapacity, seg)
           a == AcceptSyn(r, seg)
           t == PushPayload(a, RecvCapacity, seg)
<1>1. Reached(r) \in Int BY ReceiverFacts
<1>2. CASE seg.syn /\ r.syn
  <2>1. u = r BY <1>2 DEF segment_received
  <2> QED BY <1>1, <2>1
<1>3. CASE ~(seg.syn /\ r.syn)
  <2>1. u = CountFin(t, seg) BY <1>3 DEF segment_received
  <2>2. ReceiverOK(x, a) /\ a.reassembler = r.reassembler /\ Reached(r) <= Reached(a)
    BY <1>3, AcceptSynOK
  <2> HIDE DEF a
  <2>3. Pushed(x, a, seg, t) BY <2>2, PushPayloadOK
  <2> HIDE DEF t, u
  <2>4. /\ ReceiverOK(x, u) /\ Reached(a) <= Reached(u)
        /\ stream_out(u).readden = stream_out(a).readden
    BY <2>1, <2>2, <2>3, CountFinOK
  <2>5. stream_out(a) = stream_out(r) BY <2>2 DEF stream_out
  <2>6. Reached(a) \in Int /\ Reached(u) \in Int BY <2>2, <2>4, ReceiverFacts
  <2> QED BY <1>1, <2>2, <2>4, <2>5, <2>6 DEF u
<1> QED BY <1>2, <1>3

-----------------------------------------------------------------------------
\* The sender.
LEMMA SenderFacts ==
  ASSUME NEW x \in Side, NEW s, SenderOK(x, s)
  PROVE  /\ s.next_seqno \in 0..(Len(Data[x]) + 2) /\ s.next_seqno \in Nat
         /\ s.receive_ack \in Nat /\ s.receive_ack <= s.next_seqno
         /\ s.stream.readden \in Nat /\ s.stream.readden <= Len(Data[x])
<1>1. s.stream.readden \in Nat /\ s.stream.readden <= Len(Data[x])
  <2>1. /\ s.stream.readden \in Nat /\ Len(s.stream.buffer) \in Nat /\ s.stream.written \in Nat
        /\ s.stream.readden + Len(s.stream.buffer) = s.stream.written
        /\ s.stream.written <= Len(Data[x])
    BY PassesFacts DEF SenderOK
  <2> QED BY <2>1, DataFacts
<1>2. Bit(s.syn) \in 0..1 /\ Bit(s.fin) \in 0..1 BY DEF Bit
<1>3. s.next_seqno = Bit(s.syn) + s.stream.readden + Bit(s.fin) BY DEF SenderOK
<1>4. Len(Data[x]) \in Nat BY DataFacts
<1>5. s.next_seqno \in 0..(Len(Data[x]) + 2) /\ s.next_seqno \in Nat BY <1>1, <1>2, <1>3, <1>4
<1>6. s.receive_ack \in 0..s.next_seqno BY DEF SenderOK
<1> QED BY <1>1, <1>5, <1>6

\* A segment with the next number and the bytes of the stream that belong there is a piece.
LEMMA NextPiece ==
  ASSUME NEW x \in Side, NEW n \in 0..(Len(Data[x]) + 2),
         NEW syn_flag \in BOOLEAN, NEW fin_flag \in BOOLEAN, NEW data \in Seq(Byte),
         syn_flag => n = 0 /\ data = <<>>,
         fin_flag => n > 0 /\ n - 1 + Len(data) = Len(Data[x]),
         data # <<>> => n > 0 /\ n - 1 + Len(data) <= Len(Data[x]) /\ data = Part(x, n - 1, Len(data))
  PROVE  [ seqno |-> wrap(n, Isn[x]), syn |-> syn_flag, fin |-> fin_flag, payload |-> data ]
           \in Pieces(x)
<1> DEFINE seg == [ seqno |-> wrap(n, Isn[x]), syn |-> syn_flag, fin |-> fin_flag,
                    payload |-> data ]
<1>1. n \in Int /\ Isn[x] \in Int BY DataFacts
<1>2. wrap(n, Isn[x]) \in U32 BY <1>1, WrapCongruent
<1>3. seg \in Segment(Byte) BY <1>2 DEF Segment
<1>4. CutFrom(x, seg) BY DEF CutFrom
<1> QED BY <1>3, <1>4 DEF Pieces

\* The sender is another one only in what it has in flight and queued, and its timer.
SameStream(s, t) ==
    /\ t.syn = s.syn /\ t.fin = s.fin /\ t.stream = s.stream
    /\ t.receive_ack = s.receive_ack /\ t.checkpoint = s.checkpoint

\* What sending leaves alone as well.
SameWindow(s, t) ==
    t.window_size = s.window_size /\ t.consecutive_retrans = s.consecutive_retrans

\* send_segment numbers what it sends.
LEMMA SendSegmentTyped ==
  ASSUME NEW x \in Side, NEW s, SenderTyped(x, s), s.next_seqno \in 0..(Len(Data[x]) + 2),
         NEW syn_flag \in BOOLEAN, NEW fin_flag \in BOOLEAN, NEW data \in Seq(Byte),
         syn_flag => s.next_seqno = 0 /\ data = <<>>,
         fin_flag => s.next_seqno > 0 /\ s.next_seqno - 1 + Len(data) = Len(Data[x]),
         data # <<>> => /\ s.next_seqno > 0 /\ s.next_seqno - 1 + Len(data) <= Len(Data[x])
                        /\ data = Part(x, s.next_seqno - 1, Len(data))
  PROVE  LET t == send_segment(s, syn_flag, fin_flag, data)
         IN  /\ SenderTyped(x, t) /\ SameStream(s, t) /\ SameWindow(s, t)
             /\ t.next_seqno = s.next_seqno + (Len(data) + Bit(syn_flag) + Bit(fin_flag))
<1> DEFINE seg == [ seqno |-> wrap(s.next_seqno, s.isn), syn |-> syn_flag, fin |-> fin_flag,
                    payload |-> data ]
           len == length_in_sequence_space(seg)
           u == [ s EXCEPT !.next_seqno = @ + len, !.bytes_in_flight = @ + len,
                           !.segments_in_flight = Append(@, seg),
                           !.segments_out = Append(@, seg) ]
           t == send_segment(s, syn_flag, fin_flag, data)
<1>1. seg \in Pieces(x)
  <2>1. s.isn = Isn[x] BY DEF SenderTyped
  <2> QED BY <2>1, NextPiece
<1>2. len = Len(data) + Bit(syn_flag) + Bit(fin_flag) BY DEF length_in_sequence_space, Bit
<1>3. t = StartClock(u) BY DEF send_segment
<1> HIDE DEF seg, len, t
<1>4. /\ Has(s, SenderFields) /\ s.isn = Isn[x] /\ s.window_size \in 0..RecvCapacity
      /\ s.segments_in_flight \in Seq(Pieces(x)) /\ s.segments_out \in Seq(Pieces(x))
  BY DEF SenderTyped
<1>5. /\ Append(s.segments_in_flight, seg) \in Seq(Pieces(x))
      /\ Append(s.segments_out, seg) \in Seq(Pieces(x))
  BY <1>1, <1>4, AppendProperties
<1>6. /\ Has(u, SenderFields) /\ u.next_seqno = s.next_seqno + len /\ u.isn = s.isn
      /\ SameWindow(s, u) /\ SameStream(s, u)
      /\ u.segments_in_flight = Append(s.segments_in_flight, seg)
      /\ u.segments_out = Append(s.segments_out, seg)
  BY <1>4 DEF Has, SenderFields, SameStream, SameWindow
<1> HIDE DEF u
<1>7. /\ Has(t, SenderFields) /\ t.next_seqno = u.next_seqno /\ t.isn = u.isn
      /\ SameWindow(u, t) /\ SameStream(u, t)
      /\ t.segments_in_flight = u.segments_in_flight /\ t.segments_out = u.segments_out
  BY <1>3, <1>6 DEF Has, SenderFields, SameStream, SameWindow, StartClock
<1>8. SenderTyped(x, t) BY <1>4, <1>5, <1>6, <1>7 DEF SenderTyped, SameWindow
<1>9. SameStream(s, t) /\ SameWindow(s, t) BY <1>6, <1>7 DEF SameStream, SameWindow
<1> QED BY <1>2, <1>6, <1>7, <1>8, <1>9 DEF t

\* send_empty_segment takes no number.
LEMMA SendEmptyOK ==
  ASSUME NEW x \in Side, NEW s, SenderOK(x, s)
  PROVE  LET t == send_empty_segment(s)
         IN  SenderOK(x, t) /\ SameStream(s, t) /\ SameWindow(s, t) /\ t.segments_out # <<>>
<1> DEFINE none == <<>>
           seg == [ seqno |-> wrap(s.next_seqno, s.isn), syn |-> FALSE, fin |-> FALSE,
                    payload |-> none ]
           q == Append(s.segments_out, seg)
           t == send_empty_segment(s)
<1>1. none \in Seq(Byte) BY EmptySeq
<1>2. s.next_seqno \in 0..(Len(Data[x]) + 2) BY SenderFacts
<1>3. SenderTyped(x, s) /\ Has(s, SenderFields) /\ s.isn = Isn[x] BY DEF SenderOK, SenderTyped
<1>4. seg \in Pieces(x)
  <2>1. none # <<>> => /\ s.next_seqno > 0 /\ s.next_seqno - 1 + Len(none) <= Len(Data[x])
                       /\ none = Part(x, s.next_seqno - 1, Len(none))
    OBVIOUS
  <2> HIDE DEF none
  <2> QED BY <1>1, <1>2, <1>3, <2>1, NextPiece
<1>5. t = [ s EXCEPT !.segments_out = q ] BY DEF send_empty_segment
<1> HIDE DEF seg, none
<1>6. q \in Seq(Pieces(x)) /\ q # <<>>
  <2>1. s.segments_out \in Seq(Pieces(x)) BY <1>3 DEF SenderTyped
  <2>2. q \in Seq(Pieces(x)) /\ Len(q) = Len(s.segments_out) + 1
    BY <1>4, <2>1, AppendProperties
  <2>3. Len(q) # 0 BY <2>1, <2>2, LenProperties
  <2> QED BY <2>2, <2>3, EmptySeq
<1> HIDE DEF q, t
<1>7. /\ Has(t, SenderFields) /\ t.next_seqno = s.next_seqno /\ t.isn = s.isn
      /\ SameWindow(s, t) /\ SameStream(s, t)
      /\ t.segments_in_flight = s.segments_in_flight /\ t.segments_out = q
  BY <1>3, <1>5 DEF Has, SenderFields, SameStream, SameWindow
<1>8. SenderTyped(x, t) BY <1>3, <1>6, <1>7 DEF SenderTyped, SameWindow
<1>9. SenderOK(x, t) BY <1>7, <1>8 DEF SenderOK, SameStream
<1> QED BY <1>6, <1>7, <1>9 DEF t

\* What filling the window leaves alone.
SameAcks(s, t) == t.receive_ack = s.receive_ack /\ t.checkpoint = s.checkpoint

\* The loop of fill_window ends with this sender.
Stops(s, win) ==
    LET len  == MinOf(Remaining(s, win), MAX_PAYLOAD_SIZE)
        data == peek_output(s.stream, len)
        rest == pop_output(s.stream, len)
    IN  FillEnds(s, win) \/ (data = <<>> /\ ~CarriesFin(rest, data, win))

\* The passes that may still find something to send.
Left(s) == IF s.fin THEN 0 ELSE Len(s.stream.buffer) + 1

\* One pass of the loop of fill_window.
LEMMA FillOnceOK ==
  ASSUME NEW x \in Side, NEW s, SenderOK(x, s), s.syn, NEW win \in Nat
  PROVE  LET t == FillOnce(s, win)
         IN  /\ SenderOK(x, t) /\ t.syn /\ SameAcks(s, t) /\ SameWindow(s, t)
             /\ Stops(s, win) => t = s
             /\ ~Stops(s, win) => Left(t) < Left(s)
<1> DEFINE len == MinOf(Remaining(s, win), MAX_PAYLOAD_SIZE)
           data == peek_output(s.stream, len)
           rest == pop_output(s.stream, len)
           fin == CarriesFin(rest, data, win)
           u == [ s EXCEPT !.stream = rest, !.fin = fin ]
           t == FillOnce(s, win)
<1>1. Stops(s, win) <=> FillEnds(s, win) \/ (data = <<>> /\ ~fin) BY DEF Stops
<1>2. CASE FillEnds(s, win) \/ (data = <<>> /\ ~fin)
  <2>1. t = s BY <1>2 DEF FillOnce
  <2> QED BY <1>1, <1>2, <2>1 DEF SameAcks, SameWindow
<1>3. CASE ~(FillEnds(s, win) \/ (data = <<>> /\ ~fin))
  <2>1. t = send_segment(u, FALSE, fin, data) BY <1>3 DEF FillOnce
  <2>2. /\ SenderTyped(x, s) /\ s.fin \in BOOLEAN /\ Passes(x, s.stream)
        /\ s.next_seqno = Bit(s.syn) + s.stream.readden + Bit(s.fin)
        /\ s.receive_ack = s.checkpoint /\ s.checkpoint \in 0..s.next_seqno
        /\ Has(s, SenderFields) /\ EndsWhole(x, s.stream)
    BY DEF SenderOK, SenderTyped
  <2>3. ~s.fin BY <1>3 DEF FillEnds
  <2>4. s.stream.readden \in Nat /\ s.next_seqno = 1 + s.stream.readden
    BY <2>2, <2>3, PassesFacts DEF Bit
  <2>5. len \in Nat /\ len > 0
    <3>1. M64 \in Nat \ {0} BY WidthAssumption
    <3>2. win - (s.next_seqno - s.receive_ack) \in Int BY SenderFacts
    <3>3. Remaining(s, win) \in 0..(M64 - 1) BY <3>1, <3>2, ModDef DEF Remaining
    <3>4. Remaining(s, win) # 0 BY <1>3 DEF FillEnds
    <3> QED BY <3>1, <3>3, <3>4, SenderAssumption DEF MinOf
  <2> DEFINE n == MinOf(len, Len(s.stream.buffer))
  <2>6. /\ n \in 0..len /\ n <= Len(s.stream.buffer)
        /\ Passes(x, rest) /\ SameFlags(s.stream, rest) /\ rest.written = s.stream.written
        /\ rest.readden = s.stream.readden + n
        /\ data = Part(x, s.stream.readden, n)
    <3> HIDE DEF len
    <3> QED BY <2>2, <2>5, PopPasses
  <2> HIDE DEF n, len
  <2>7. /\ n \in Nat /\ s.stream.readden + n <= Len(Data[x]) /\ Len(Data[x]) \in Nat
    <3>1. rest.readden \in Nat /\ Len(rest.buffer) \in Nat /\ rest.written \in Nat
          /\ rest.readden + Len(rest.buffer) = rest.written /\ rest.written <= Len(Data[x])
      BY <2>6, PassesFacts
    <3> HIDE DEF rest
    <3> QED BY <2>5, <2>6, <3>1, DataFacts
  <2>8. data \in Seq(Byte) /\ Len(data) = n BY <2>4, <2>6, <2>7, PartFacts
  <2>9. fin \in BOOLEAN BY DEF CarriesFin
  <2> HIDE DEF data, rest, fin
  <2>10. /\ Has(u, SenderFields) /\ u.stream = rest /\ u.fin = fin /\ u.syn = s.syn
         /\ u.next_seqno = s.next_seqno /\ SameAcks(s, u) /\ u.isn = s.isn
         /\ SameWindow(s, u)
         /\ u.segments_in_flight = s.segments_in_flight /\ u.segments_out = s.segments_out
    BY <2>2 DEF Has, SenderFields, SameAcks, SameWindow
  <2> HIDE DEF u, t
  <2>11. SenderTyped(x, u) BY <2>2, <2>10 DEF SenderTyped, SameWindow
  <2>12. /\ u.next_seqno \in 0..(Len(Data[x]) + 2) /\ u.next_seqno > 0
         /\ u.next_seqno - 1 = s.stream.readden
    <3>1. u.next_seqno = s.next_seqno BY <2>10
    <3> QED BY <2>4, <2>7, <3>1
  <2>13. /\ SenderTyped(x, t) /\ SameStream(u, t) /\ SameWindow(u, t)
         /\ t.next_seqno = u.next_seqno + (Len(data) + Bit(FALSE) + Bit(fin))
    <3>1. fin => u.next_seqno - 1 + Len(data) = Len(Data[x])
      <4>1. SUFFICES ASSUME fin PROVE u.next_seqno - 1 + Len(data) = Len(Data[x]) OBVIOUS
      <4>2. eof(rest) BY <4>1 DEF fin, CarriesFin
      <4>3. rest.written = Len(Data[x]) /\ Len(rest.buffer) = 0
        BY <2>2, <2>6, <4>2, EmptySeq DEF eof, EndsWhole, SameFlags
      <4>4. rest.readden \in Nat /\ rest.readden + Len(rest.buffer) = rest.written
        BY <2>6, PassesFacts
      <4> DEFINE rd == rest.readden
      <4>5. rd \in Nat /\ rd + 0 = Len(Data[x]) /\ rd = s.stream.readden + n
        BY <2>6, <4>3, <4>4
      <4> HIDE DEF rd
      <4>6. s.stream.readden + n = Len(Data[x]) BY <4>5
      <4> QED BY <2>8, <2>12, <4>6
    <3> QED
      BY <2>1, <2>6, <2>7, <2>8, <2>9, <2>11, <2>12, <3>1, SendSegmentTyped, ZenonT(40)
  <2>14. t.next_seqno = 1 + rest.readden + Bit(fin) /\ Bit(fin) \in Nat /\ rest.readden \in Nat
    <3> DEFINE a == s.stream.readden
               b == Bit(fin)
               r == rest.readden
               c == t.next_seqno
    <3>1. b \in Nat /\ Bit(FALSE) = 0 BY <2>9 DEF Bit
    <3>2. a \in Nat /\ u.next_seqno = 1 + a BY <2>4, <2>10
    <3>3. r = a + n /\ n \in Nat BY <2>6, <2>7
    <3>4. c = (1 + a) + (n + 0 + b) BY <2>8, <2>13, <3>1, <3>2
    <3> HIDE DEF a, b, r, c
    <3>5. c = 1 + r + b /\ r \in Nat BY <3>1, <3>2, <3>3, <3>4
    <3> QED BY <3>1, <3>5 DEF b, c, r
  <2>15. t.syn /\ t.fin = fin /\ t.stream = rest /\ SameAcks(s, t)
    BY <2>10, <2>13 DEF SameStream, SameAcks
  <2>16. t.next_seqno = Bit(t.syn) + t.stream.readden + Bit(t.fin)
    BY <2>14, <2>15 DEF Bit
  <2>17. t.checkpoint \in 0..t.next_seqno
    <3> DEFINE a == s.stream.readden
               b == Bit(fin)
    <3>1. a \in Nat /\ b \in Nat /\ n \in Nat /\ s.next_seqno = 1 + a BY <2>4, <2>7, <2>14
    <3>2. t.next_seqno = 1 + (a + n) + b BY <2>6, <2>14
    <3>3. t.checkpoint = s.checkpoint /\ s.checkpoint \in 0..s.next_seqno
      BY <2>2, <2>15 DEF SameAcks
    <3> HIDE DEF a, b
    <3> QED BY <3>1, <3>2, <3>3
  <2>18. t.syn \in BOOLEAN BY <2>10, <2>13 DEF SameStream, SenderOK
  <2>19. SenderOK(x, t)
    BY <2>2, <2>6, <2>9, <2>13, <2>15, <2>16, <2>17, <2>18
    DEF SenderOK, SameAcks, EndsWhole, SameFlags
  <2>20. SameWindow(s, t) BY <2>10, <2>13 DEF SameWindow
  <2>21. Left(t) < Left(s)
    <3>1. /\ Len(s.stream.buffer) \in Nat /\ s.stream.written \in Nat
          /\ s.stream.readden + Len(s.stream.buffer) = s.stream.written
      BY <2>2, PassesFacts
    <3>2. Len(rest.buffer) \in Nat /\ rest.readden + Len(rest.buffer) = rest.written
      BY <2>6, PassesFacts
    <3>3. fin \/ n > 0
      <4>1. fin \/ data # <<>> BY <1>3 DEF fin, data, len
      <4>2. data # <<>> => n > 0 BY <2>7, <2>8, EmptySeq
      <4> QED BY <4>1, <4>2
    <3>4. Left(s) = Len(s.stream.buffer) + 1 BY <2>3 DEF Left
    <3>5. Left(t) = IF fin THEN 0 ELSE Len(rest.buffer) + 1 BY <2>15 DEF Left
    <3>6. Len(rest.buffer) + n = Len(s.stream.buffer)
      <4> DEFINE a == s.stream.readden
                 l == Len(s.stream.buffer)
                 m == Len(rest.buffer)
      <4>1. rest.written = s.stream.written /\ rest.readden = a + n BY <2>6
      <4>2. a \in Nat /\ l \in Nat /\ m \in Nat /\ n \in Nat BY <2>4, <2>7, <3>1, <3>2
      <4>3. (a + n) + m = a + l BY <3>1, <3>2, <4>1
      <4> HIDE DEF a, l, m
      <4>4. m + n = l BY <4>2, <4>3
      <4> QED BY <4>4 DEF l, m
    <3> QED BY <2>7, <3>1, <3>2, <3>3, <3>4, <3>5, <3>6
  <2> QED BY <1>1, <1>3, <2>15, <2>19, <2>20, <2>21 DEF t, fin, data, len
<1> QED BY <1>2, <1>3

\* No pass is left once the FIN is sent.
LEMMA LeftFacts ==
  ASSUME NEW x \in Side, NEW s, SenderOK(x, s)
  PROVE  Left(s) \in Nat /\ (Left(s) = 0 => s.fin)
<1>1. Len(s.stream.buffer) \in Nat BY PassesFacts DEF SenderOK
<1> QED BY <1>1 DEF Left

\* f holds the values of the first n passes of the loop of fill_window.
FillValues(f, n, base, win) ==
    f = [ k \in 0..n |-> IF k = 0 THEN base ELSE FillOnce(f[k - 1], win) ]

\* There are such values.
LEMMA FillLoop ==
  ASSUME NEW base, NEW win, NEW n \in Nat
  PROVE  \E f : FillValues(f, n, base, win)
<1> DEFINE S == { m \in 0..n : \E f : f = [ k \in 0..m |-> IF k = 0 THEN base
                                                          ELSE FillOnce(f[k - 1], win) ] }
<1>1. 0 \in S
  <2> DEFINE f == [ k \in 0..0 |-> base ]
  <2>1. f = [ k \in 0..0 |-> IF k = 0 THEN base ELSE FillOnce(f[k - 1], win) ] OBVIOUS
  <2> HIDE DEF f
  <2> QED BY <2>1
<1>2. ASSUME NEW m \in 0..(n - 1), m \in S PROVE m + 1 \in S
  <2>1. PICK f : f = [ k \in 0..m |-> IF k = 0 THEN base ELSE FillOnce(f[k - 1], win) ]
    BY <1>2
  <2> DEFINE g == [ k \in 0..(m + 1) |-> IF k = m + 1 THEN FillOnce(f[m], win) ELSE f[k] ]
  <2>2. ASSUME NEW k \in 0..(m + 1)
        PROVE  g[k] = IF k = 0 THEN base ELSE FillOnce(g[k - 1], win)
    <3>1. CASE k = m + 1
      <4>1. k # 0 /\ k - 1 = m /\ m # m + 1 /\ m \in 0..(m + 1) BY <3>1
      <4>2. g[k - 1] = f[m] BY <4>1
      <4> QED BY <3>1, <4>1, <4>2
    <3>2. CASE k # m + 1 /\ k # 0
      <4>1. k \in 0..m /\ k - 1 \in 0..(m + 1) /\ k - 1 # m + 1 BY <3>2
      <4>2. f[k] = FillOnce(f[k - 1], win) BY <2>1, <3>2, <4>1
      <4>3. g[k] = f[k] /\ g[k - 1] = f[k - 1] BY <3>2, <4>1
      <4> QED BY <3>2, <4>2, <4>3
    <3>3. CASE k = 0 /\ k # m + 1
      <4>1. 0 \in 0..m OBVIOUS
      <4>2. f[0] = base BY <2>1, <4>1
      <4> QED BY <3>3, <4>2
    <3> QED BY <3>1, <3>2, <3>3
  <2>3. g = [ k \in 0..(m + 1) |-> g[k] ] OBVIOUS
  <2> HIDE DEF g
  <2>4. g = [ k \in 0..(m + 1) |-> IF k = 0 THEN base ELSE FillOnce(g[k - 1], win) ]
    BY <2>2, <2>3
  <2>5. m + 1 \in 0..n OBVIOUS
  <2> QED BY <2>4, <2>5
<1> HIDE DEF S
<1>3. \A m \in 0..n : m \in S BY <1>1, <1>2, UpToInduction
<1>4. n \in S BY <1>3
<1> QED BY <1>4 DEF S, FillValues

\* Nothing more fits into the window, or nothing is left to send.
Filled(s) == Stops(s, IF s.window_size > 0 THEN s.window_size ELSE 1)

\* fill_window keeps a sender a sender, queues the SYN first, and leaves nothing to send
\* (the window of 0 before the first acknowledgment counts as 1).
LEMMA FillWindowOK ==
  ASSUME NEW x \in Side, NEW s, SenderOK(x, s)
  PROVE  LET t == fill_window(s)
         IN  /\ SenderOK(x, t) /\ t.syn /\ SameAcks(s, t) /\ SameWindow(s, t)
             /\ s.syn \/ s.window_size = 0 => Filled(t)
<1> DEFINE t == fill_window(s)
<1>1. /\ SenderTyped(x, s) /\ s.syn \in BOOLEAN /\ s.fin \in BOOLEAN /\ Passes(x, s.stream)
      /\ s.next_seqno = Bit(s.syn) + s.stream.readden + Bit(s.fin)
      /\ ~s.syn => s.stream.readden = 0 /\ ~s.fin
      /\ s.receive_ack = s.checkpoint /\ s.checkpoint \in 0..s.next_seqno
      /\ Has(s, SenderFields) /\ s.window_size \in Nat
  BY TCPConfigAssumption DEF SenderOK, SenderTyped
<1>2. CASE ~s.syn
  <2> DEFINE none == <<>>
             u == send_segment(s, TRUE, FALSE, none)
  <2>1. t = [ u EXCEPT !.syn = TRUE ] BY <1>2 DEF fill_window
  <2>2. none \in Seq(Byte) /\ Len(none) = 0 BY EmptySeq
  <2>3. s.next_seqno = 0 /\ s.fin = FALSE BY <1>1, <1>2 DEF Bit
  <2>4. none # <<>> => /\ s.next_seqno > 0 /\ s.next_seqno - 1 + Len(none) <= Len(Data[x])
                       /\ none = Part(x, s.next_seqno - 1, Len(none))
    OBVIOUS
  <2>5. none = <<>> OBVIOUS
  <2> HIDE DEF none
  <2>6. /\ SenderTyped(x, u) /\ SameStream(s, u) /\ SameWindow(s, u)
        /\ u.next_seqno = s.next_seqno + (Len(none) + Bit(TRUE) + Bit(FALSE))
    <3>1. s.next_seqno \in 0..(Len(Data[x]) + 2) BY SenderFacts
    <3> HIDE DEF u
    <3> QED BY <1>1, <2>2, <2>3, <2>4, <2>5, <3>1, SendSegmentTyped, ZenonT(40) DEF u
  <2> HIDE DEF t, u
  <2>7. u.next_seqno = 1 BY <2>2, <2>3, <2>6 DEF Bit
  <2>8. Has(u, SenderFields) BY <2>6 DEF SenderTyped
  <2>9. /\ Has(t, SenderFields) /\ t.syn = TRUE /\ t.next_seqno = u.next_seqno
        /\ t.fin = u.fin /\ t.stream = u.stream /\ SameAcks(u, t) /\ t.isn = u.isn
        /\ t.window_size = u.window_size
        /\ t.segments_in_flight = u.segments_in_flight /\ t.segments_out = u.segments_out
        /\ t.consecutive_retrans = u.consecutive_retrans
    BY <2>1, <2>8 DEF Has, SenderFields, SameAcks
  <2>10. SenderTyped(x, t) BY <2>6, <2>9 DEF SenderTyped
  <2>11. SameAcks(s, t) BY <2>6, <2>9 DEF SameStream, SameAcks
  <2>12. t.stream = s.stream /\ t.fin = FALSE /\ s.stream.readden = 0
    BY <1>1, <1>2, <2>3, <2>6, <2>9 DEF SameStream
  <2>13. t.next_seqno = Bit(t.syn) + t.stream.readden + Bit(t.fin)
    BY <2>7, <2>9, <2>12 DEF Bit
  <2>14. t.checkpoint \in 0..t.next_seqno BY <1>1, <2>3, <2>7, <2>9, <2>11 DEF SameAcks
  <2>15. SenderOK(x, t)
    BY <1>1, <2>9, <2>10, <2>11, <2>12, <2>13, <2>14 DEF SenderOK, SameAcks
  <2>16. SameWindow(s, t) BY <2>6, <2>9 DEF SameWindow
  <2>17. s.window_size = 0 => Filled(t)
    <3> SUFFICES ASSUME s.window_size = 0 PROVE Filled(t) OBVIOUS
    <3>1. t.window_size = 0 BY <2>16 DEF SameWindow
    <3>2. t.next_seqno = 1 /\ t.receive_ack = 0
      BY <1>1, <2>3, <2>7, <2>9, <2>11 DEF SameAcks
    <3>3. 0 % M64 = 0
      <4>1. M64 \in Nat \ {0} BY WidthAssumption
      <4> QED BY <4>1
    <3>4. Remaining(t, 1) = 0 BY <3>2, <3>3 DEF Remaining
    <3> QED BY <3>1, <3>4 DEF Filled, Stops, FillEnds
  <2> QED BY <1>2, <2>9, <2>11, <2>15, <2>16, <2>17 DEF t
<1>3. CASE s.syn
  <2> DEFINE win == IF s.window_size > 0 THEN s.window_size ELSE 1
             base == [ s EXCEPT !.window_is_zero = (s.window_size = 0) ]
             passes == Len(s.stream.buffer) + 1
             after[k \in 0..passes] ==
                 IF k = 0 THEN base ELSE FillOnce(after[k - 1], win)
  <2>1. t = after[passes] BY <1>3, ZenonT(30) DEF fill_window
  <2>2. passes \in Nat BY <1>1, PassesFacts
  <2>3. win \in Nat BY <1>1
  <2>4. SenderOK(x, base) /\ base.syn /\ SameAcks(s, base) /\ SameWindow(s, base)
        /\ Left(base) <= passes
    <3> DEFINE z == s.window_size = 0
    <3>1. base = [ s EXCEPT !.window_is_zero = z ] OBVIOUS
    <3> HIDE DEF base, z
    <3>2. /\ Has(base, SenderFields) /\ base.syn = s.syn /\ base.next_seqno = s.next_seqno
          /\ base.fin = s.fin /\ base.stream = s.stream /\ SameAcks(s, base)
          /\ base.isn = s.isn /\ base.window_size = s.window_size
          /\ base.segments_in_flight = s.segments_in_flight
          /\ base.segments_out = s.segments_out /\ SameWindow(s, base)
      BY <1>1, <3>1 DEF Has, SenderFields, SameAcks, SameWindow
    <3>3. SenderTyped(x, base) BY <1>1, <3>2 DEF SenderTyped
    <3>4. Left(base) <= passes BY <2>2, <3>2 DEF Left
    <3> QED BY <1>1, <1>3, <3>2, <3>3, <3>4 DEF SenderOK, SameAcks
  <2> HIDE DEF base, passes, win
  <2>5. PICK f : FillValues(f, passes, base, win) BY <2>2, FillLoop
  <2>6. after = [ k \in 0..passes |-> IF k = 0 THEN base ELSE FillOnce(after[k - 1], win) ]
    BY <2>5, ZenonT(30) DEF FillValues
  <2> HIDE DEF after
  <2> DEFINE Ends(v, k) == Stops(v, win) \/ Left(v) + k <= passes
             S == { k \in 0..passes : /\ SenderOK(x, after[k]) /\ after[k].syn
                                      /\ SameAcks(s, after[k]) /\ SameWindow(s, after[k])
                                      /\ Ends(after[k], k) }
  <2>7. 0 \in S
    <3>1. 0 \in 0..passes BY <2>2
    <3>2. after[0] = base BY <2>6, <3>1
    <3>3. Left(base) \in Nat BY <2>4, LeftFacts
    <3> QED BY <2>4, <3>1, <3>2, <3>3
  <2>8. ASSUME NEW k \in 0..(passes - 1), k \in S PROVE k + 1 \in S
    <3>1. k + 1 \in 0..passes /\ k + 1 # 0 /\ (k + 1) - 1 = k BY <2>2
    <3>2. after[k + 1] = FillOnce(after[k], win) BY <2>6, <3>1
    <3>3. /\ SenderOK(x, after[k]) /\ after[k].syn /\ SameAcks(s, after[k])
          /\ SameWindow(s, after[k]) /\ Ends(after[k], k)
      BY <2>8
    <3> DEFINE v == after[k]
               w == FillOnce(v, win)
    <3> HIDE DEF v
    <3>4. /\ SenderOK(x, w) /\ w.syn /\ SameAcks(v, w) /\ SameWindow(v, w)
          /\ Stops(v, win) => w = v
          /\ ~Stops(v, win) => Left(w) < Left(v)
      BY <2>3, <3>3, FillOnceOK DEF v
    <3> HIDE DEF w
    <3>5. SameAcks(s, w) /\ SameWindow(s, w) BY <3>3, <3>4 DEF SameAcks, SameWindow, v
    <3>6. Ends(w, k + 1)
      <4>1. Left(v) \in Nat /\ Left(w) \in Nat BY <3>3, <3>4, LeftFacts DEF v
      <4>2. Ends(v, k) BY <3>3 DEF v
      <4> QED BY <2>2, <3>4, <4>1, <4>2
    <3> QED BY <3>1, <3>2, <3>4, <3>5, <3>6 DEF w, v
  <2> HIDE DEF S
  <2>9. \A k \in 0..passes : k \in S BY <2>2, <2>7, <2>8, UpToInduction
  <2>10. /\ SenderOK(x, t) /\ t.syn /\ SameAcks(s, t) /\ SameWindow(s, t)
         /\ Ends(t, passes)
    <3>1. passes \in S BY <2>2, <2>9
    <3> QED BY <2>1, <3>1 DEF S
  <2> HIDE DEF t
  <2>11. Stops(t, win)
    <3>1. Left(t) \in Nat /\ (Left(t) = 0 => t.fin) BY <2>10, LeftFacts
    <3>2. t.fin => Stops(t, win) BY DEF Stops, FillEnds
    <3>3. CASE Left(t) + passes <= passes
      <4>1. Left(t) = 0 BY <2>2, <3>1, <3>3
      <4> QED BY <3>1, <3>2, <4>1
    <3> QED BY <2>10, <3>3
  <2>12. Filled(t) BY <2>10, <2>11 DEF Filled, SameWindow, win
  <2> QED BY <2>10, <2>12 DEF t
<1> QED BY <1>1, <1>2, <1>3

\* Dropping what is acknowledged touches only what is in flight.
LEMMA DropAckedOK ==
  ASSUME NEW x \in Side, NEW s, SenderOK(x, s), NEW a \in Nat
  PROVE  LET t == DropAcked(s, a)
         IN  SenderOK(x, t) /\ SameStream(s, t)
<1> DEFINE queue == s.segments_in_flight
           stays == { k \in 1..Len(queue) : ~Acked(s, queue[k], a) }
           gone == IF stays = {} THEN Len(queue)
                   ELSE (CHOOSE k \in stays : \A j \in stays : k <= j) - 1
           rest == SubSeq(queue, gone + 1, Len(queue))
           b == s.bytes_in_flight - SpaceOf(queue, gone)
           t == DropAcked(s, a)
<1>1. SenderTyped(x, s) /\ Has(s, SenderFields) /\ queue \in Seq(Pieces(x))
  BY DEF SenderOK, SenderTyped
<1>2. Len(queue) \in Nat BY <1>1, LenProperties
<1>3. gone \in 0..Len(queue)
  <2>1. CASE stays = {} BY <1>2, <2>1
  <2>2. CASE stays # {}
    <3>1. stays \in SUBSET Nat OBVIOUS
    <3> DEFINE m == CHOOSE k \in stays : \A j \in stays : k <= j
    <3>2. \E k \in stays : \A j \in stays : k <= j
      <4> HIDE DEF stays
      <4> QED BY <2>2, <3>1, LeastElement
    <3>3. m \in stays BY <3>2
    <3>4. gone = m - 1 BY <2>2
    <3> HIDE DEF m, gone
    <3>5. m \in 1..Len(queue) BY <3>3
    <3> QED BY <1>2, <3>4, <3>5
  <2> QED BY <2>1, <2>2
<1> HIDE DEF stays, gone
<1>4. rest \in Seq(Pieces(x))
  <2>1. \A k \in (gone + 1)..Len(queue) : queue[k] \in Pieces(x)
    BY <1>1, <1>2, <1>3, ElementOfSeq
  <2> HIDE DEF queue
  <2>2. gone + 1 \in Int /\ Len(queue) \in Int BY <1>2, <1>3
  <2> QED BY <2>1, <2>2, SubSeqProperties
<1>5. t = [ s EXCEPT !.segments_in_flight = rest, !.bytes_in_flight = b ]
  BY DEF DropAcked, gone, stays
<1> HIDE DEF rest, b, t
<1>6. /\ Has(t, SenderFields) /\ t.next_seqno = s.next_seqno /\ t.isn = s.isn
      /\ t.window_size = s.window_size /\ SameStream(s, t)
      /\ t.segments_in_flight = rest /\ t.segments_out = s.segments_out
  BY <1>1, <1>5 DEF Has, SenderFields, SameStream
<1>7. SenderTyped(x, t) BY <1>1, <1>4, <1>6 DEF SenderTyped
<1> QED BY <1>6, <1>7 DEF SenderOK, SameStream, t

\* The last part of ack_received, the timer.
LEMMA RestartTimerOK ==
  ASSUME NEW x \in Side, NEW s, SenderOK(x, s)
  PROVE  LET t == RestartTimer(s)
         IN  SenderOK(x, t) /\ SameStream(s, t) /\ t.consecutive_retrans = 0
<1> DEFINE t == RestartTimer(s)
           on == s.clock_is_counting \/ s.segments_in_flight # <<>>
           c == IF s.segments_in_flight # <<>> THEN 0 ELSE s.clock
<1>1. SenderTyped(x, s) /\ Has(s, SenderFields) BY DEF SenderOK, SenderTyped
<1>2. t = [ s EXCEPT !.retrans_timeout = RTO, !.consecutive_retrans = 0,
                     !.clock_is_counting = on, !.clock = c ]
  BY DEF RestartTimer
<1> HIDE DEF t, on, c
<1>3. /\ Has(t, SenderFields) /\ t.next_seqno = s.next_seqno /\ t.isn = s.isn
      /\ t.consecutive_retrans = 0
      /\ t.window_size = s.window_size /\ SameStream(s, t)
      /\ t.segments_in_flight = s.segments_in_flight /\ t.segments_out = s.segments_out
  BY <1>1, <1>2 DEF Has, SenderFields, SameStream
<1>4. SenderTyped(x, t) BY <1>1, <1>3 DEF SenderTyped
<1> QED BY <1>3, <1>4 DEF SenderOK, SameStream, t

\* What an acknowledgment does not undo.
GoesOn(s, t) ==
    (s.syn => t.syn) /\ t.consecutive_retrans \in { 0, s.consecutive_retrans }

\* An acknowledgment of one of the first m numbers.
LEMMA AckReceivedOK ==
  ASSUME ShortStreams, NEW x \in Side, NEW s, SenderOK(x, s),
         NEW m \in 0..(Len(Data[x]) + 2), NEW a \in 1..m, NEW n, n = wrap(a, Isn[x]),
         NEW w \in 0..RecvCapacity, s.receive_ack <= m
  PROVE  LET t == ack_received(s, n, w)
         IN  SenderOK(x, t) /\ t.receive_ack <= m /\ GoesOn(s, t)
<1> DEFINE t == ack_received(s, n, w)
           synced == [ s EXCEPT !.window_size = w ]
           u == [ synced EXCEPT !.receive_ack = a, !.checkpoint = a ]
<1>1. /\ SenderTyped(x, s) /\ Has(s, SenderFields) /\ s.isn = Isn[x]
      /\ s.receive_ack = s.checkpoint /\ s.checkpoint \in 0..s.next_seqno
  BY DEF SenderOK, SenderTyped
<1>2. s.next_seqno \in 0..(Len(Data[x]) + 2) /\ s.receive_ack \in Nat BY SenderFacts
<1>3. unwrap(n, s.isn, s.checkpoint) = a
  <2> DEFINE c == s.checkpoint
  <2>1. /\ Len(Data[x]) \in Nat /\ Isn[x] \in Nat /\ HALF \in Nat
        /\ Len(Data[x]) + 2 < HALF /\ 2 * M32 <= M64
    BY DataFacts, WidthFacts DEF ShortStreams
  <2>2. c \in Nat /\ c <= Len(Data[x]) + 2 BY <1>1, <1>2, <2>1
  <2> HIDE DEF c
  <2>3. a \in Nat /\ a <= Len(Data[x]) + 2 BY <2>1
  <2>4. a < HALF /\ c < HALF BY <2>1, <2>2, <2>3
  <2>5. unwrap(wrap(a, Isn[x]), Isn[x], c) = a BY <2>1, <2>2, <2>3, <2>4, UnwrapShort
  <2> QED BY <1>1, <2>5 DEF c
<1>4. /\ Has(synced, SenderFields) /\ synced.window_size = w /\ SameStream(s, synced)
      /\ synced.next_seqno = s.next_seqno /\ synced.isn = s.isn
      /\ synced.segments_in_flight = s.segments_in_flight
      /\ synced.segments_out = s.segments_out
      /\ synced.consecutive_retrans = s.consecutive_retrans
  BY <1>1 DEF Has, SenderFields, SameStream
<1>5. t = IF a > s.next_seqno THEN s
          ELSE IF a <= s.receive_ack THEN synced
          ELSE RestartTimer(fill_window(DropAcked(u, a)))
  BY <1>3 DEF ack_received
<1> HIDE DEF t, synced
<1>6. SenderTyped(x, synced) BY <1>1, <1>4 DEF SenderTyped
<1>7. CASE a > s.next_seqno BY <1>5, <1>7 DEF t, GoesOn
<1>8. CASE ~(a > s.next_seqno) /\ a <= s.receive_ack
  <2>1. t = synced BY <1>5, <1>8
  <2>2. SenderOK(x, synced) BY <1>4, <1>6 DEF SenderOK, SameStream
  <2> QED BY <1>4, <2>1, <2>2 DEF t, SameStream, GoesOn
<1>9. CASE ~(a > s.next_seqno) /\ ~(a <= s.receive_ack)
  <2> DEFINE d == DropAcked(u, a)
             v == fill_window(d)
             z == RestartTimer(v)
  <2>1. t = z BY <1>5, <1>9
  <2>2. /\ Has(u, SenderFields) /\ u.receive_ack = a /\ u.checkpoint = a
        /\ u.syn = s.syn /\ u.fin = s.fin /\ u.stream = s.stream /\ u.window_size = w
        /\ u.next_seqno = s.next_seqno /\ u.isn = s.isn
        /\ u.segments_in_flight = s.segments_in_flight /\ u.segments_out = s.segments_out
    BY <1>4 DEF Has, SenderFields, SameStream
  <2> HIDE DEF u
  <2>3. SenderTyped(x, u) BY <1>1, <2>2 DEF SenderTyped
  <2>4. a \in Nat /\ a \in 0..s.next_seqno BY <1>2, <1>9
  <2>5. SenderOK(x, u) BY <2>2, <2>3, <2>4 DEF SenderOK
  <2>6. SenderOK(x, d) /\ SameStream(u, d) BY <2>4, <2>5, DropAckedOK
  <2> HIDE DEF d
  <2>7. SenderOK(x, v) /\ v.syn /\ SameAcks(d, v) BY <2>6, FillWindowOK
  <2> HIDE DEF v
  <2>8. SenderOK(x, z) /\ SameStream(v, z) /\ z.consecutive_retrans = 0 BY <2>7, RestartTimerOK
  <2> HIDE DEF z
  <2>9. z.receive_ack = a BY <2>2, <2>6, <2>7, <2>8 DEF SameStream, SameAcks
  <2>10. GoesOn(s, z) BY <2>7, <2>8 DEF GoesOn, SameStream
  <2> QED BY <2>1, <2>8, <2>9, <2>10 DEF t
<1> QED BY <1>2, <1>7, <1>8, <1>9

\* TCPSender::tick sends the oldest segment again, or none.
LEMMA TickOK ==
  ASSUME NEW x \in Side, NEW s, SenderOK(x, s), NEW ms
  PROVE  LET t == tick(s, ms)
         IN  SenderOK(x, t) /\ SameStream(s, t)
<1> DEFINE t == tick(s, ms)
           now == s.clock + ms
           queue == s.segments_in_flight
           again == now >= s.retrans_timeout /\ queue # <<>>
           q == Append(s.segments_out, Head(queue))
           n == s.consecutive_retrans + 1
           r == IF s.window_is_zero THEN s.retrans_timeout ELSE 2 * s.retrans_timeout
           on == s.clock_is_counting /\ queue # <<>>
<1>1. SenderTyped(x, s) /\ Has(s, SenderFields) BY DEF SenderOK, SenderTyped
<1>2. s.segments_out \in Seq(Pieces(x)) /\ queue \in Seq(Pieces(x)) BY <1>1 DEF SenderTyped
<1>3. again => q \in Seq(Pieces(x))
  <2> SUFFICES ASSUME queue # <<>> PROVE q \in Seq(Pieces(x)) OBVIOUS
  <2>1. Head(queue) \in Pieces(x) BY <1>2, HeadTailProperties
  <2> QED BY <1>2, <2>1, AppendProperties
<1>4. \/ again /\ t = [ s EXCEPT !.segments_out = q, !.consecutive_retrans = n,
                                 !.clock_is_counting = TRUE, !.clock = 0,
                                 !.retrans_timeout = r ]
      \/ t = [ s EXCEPT !.clock = now, !.clock_is_counting = on ]
  BY DEF tick
<1> HIDE DEF t, now, q, n, r, on, again
<1>5. /\ Has(t, SenderFields) /\ t.next_seqno = s.next_seqno /\ t.isn = s.isn
      /\ t.window_size = s.window_size /\ SameStream(s, t)
      /\ t.segments_in_flight = queue
      /\ (again /\ t.segments_out = q) \/ t.segments_out = s.segments_out
  BY <1>1, <1>4, ZenonT(40) DEF Has, SenderFields, SameStream
<1>6. SenderTyped(x, t) BY <1>1, <1>2, <1>3, <1>5 DEF SenderTyped
<1> QED BY <1>5, <1>6 DEF SenderOK, SameStream, t

-----------------------------------------------------------------------------
\* The connection.
LEMMA TruthfulGrows ==
  ASSUME NEW x \in Side, NEW m \in Nat, NEW n \in Nat, m <= n
  PROVE  Truthful(x, m) \subseteq Truthful(x, n)
<1>1. 1..m \subseteq 1..n OBVIOUS
<1> QED BY <1>1 DEF Truthful

\* A sequence over a set is one over every larger set.
LEMMA SeqOfSubset ==
  ASSUME NEW S, NEW T, S \subseteq T, NEW s \in Seq(S)
  PROVE  s \in Seq(T)
<1>1. s = [ k \in 1..Len(s) |-> s[k] ] /\ Len(s) \in Nat BY SeqDef, LenProperties
<1>2. \A k \in 1..Len(s) : s[k] \in T BY ElementOfSeq
<1>3. s \in [ 1..Len(s) -> T ]
  <2>1. s \in [ 1..Len(s) -> S ] BY LenProperties
  <2> QED BY <1>2, <2>1
<1> QED BY <1>1, <1>3, IsASeq

\* What a connection stamps on a segment of its sender is what its receiver has reached.
LEMMA StampedOK ==
  ASSUME NEW x \in Side, NEW c, ConnectionOK(x, c), NEW seg \in Pieces(x)
  PROVE  Stamped(c, seg) \in Truthful(x, Reached(c.receiver))
<1> DEFINE y == Other(x)
           r == c.receiver
           acks == ackno(r)
           t == Stamped(c, seg)
           n == IF acks = {} THEN 0 ELSE CHOOSE a \in acks : TRUE
           w == IF acks = {} THEN 0 ELSE window_size(r, RecvCapacity) % 65536
<1>1. y \in Side /\ ReceiverOK(y, r) /\ c.need_send_rst \in BOOLEAN
  BY SideFacts DEF ConnectionOK
<1>2. t = [ seqno |-> seg.seqno, syn |-> seg.syn, fin |-> seg.fin, payload |-> seg.payload,
            rst |-> c.need_send_rst, ack |-> acks # {}, ackno |-> n, win |-> w ]
  BY DEF Stamped
<1>3. seg \in Segment(Byte) /\ CutFrom(x, seg) BY DEF Pieces
<1> HIDE DEF y, r
<1>4. acks # {} => r.syn /\ acks = { r.ackno } BY DEF ackno
<1>5. Reached(r) \in 0..(Len(Data[y]) + 2) BY <1>1, ReceiverFacts
<1>6. acks # {} => n \in U32 /\ \E a \in 1..Reached(r) : n = wrap(a, Isn[y])
  <2> SUFFICES ASSUME acks # {}
               PROVE  n \in U32 /\ \E a \in 1..Reached(r) : n = wrap(a, Isn[y])
    OBVIOUS
  <2>1. n = r.ackno BY <1>4
  <2>2. PICK a \in 1..Reached(r) : r.ackno = wrap(a, Isn[y]) BY <1>1, <1>4 DEF ReceiverOK
  <2>3. a \in Int /\ Isn[y] \in Int BY <1>1, DataFacts
  <2>4. wrap(a, Isn[y]) \in U32 BY <2>3, WrapCongruent
  <2> HIDE DEF n
  <2> QED BY <2>1, <2>2, <2>4
<1>7. n \in U32
  <2>1. 0 \in U32 BY WidthFacts DEF U32
  <2> QED BY <1>6, <2>1
<1>8. w \in 0..RecvCapacity
  <2>1. Len(stream_out(r).buffer) <= RecvCapacity /\ Passes(y, stream_out(r))
    BY <1>1 DEF ReceiverOK, Assembles, stream_out
  <2>2. Len(stream_out(r).buffer) \in Nat BY <1>1, <2>1, PassesFacts
  <2>3. RecvCapacity \in Nat BY TCPConfigAssumption
  <2> DEFINE v == window_size(r, RecvCapacity)
  <2>4. v \in 0..RecvCapacity BY <2>1, <2>2, <2>3 DEF window_size
  <2> HIDE DEF v
  <2>5. v % 65536 \in 0..RecvCapacity BY <2>3, <2>4
  <2> QED BY <2>3, <2>5 DEF v
<1>9. t.ack = (acks # {}) /\ t.ackno = n /\ t \in Message
  <2>1. (acks # {}) \in BOOLEAN OBVIOUS
  <2> HIDE DEF acks, n, w, t
  <2> QED BY <1>1, <1>2, <1>3, <1>7, <1>8 DEF Message, Segment
<1>10. CutFrom(x, t)
  <2>1. /\ t.seqno = seg.seqno /\ t.syn = seg.syn /\ t.payload = seg.payload
        /\ t.fin = seg.fin
    BY <1>2
  <2> HIDE DEF t
  <2> QED BY <1>3, <2>1 DEF CutFrom
<1> HIDE DEF t, n, acks
<1> QED BY <1>6, <1>9, <1>10 DEF Truthful, t, y, r

\* Nothing has arrived at a receiver.
SameStore(r, u) ==
    LET p == r.reassembler
        q == u.reassembler
    IN  /\ u.fin = r.fin /\ q.stored = p.stored /\ q.unassembled = p.unassembled
        /\ q.output.written = p.output.written /\ q.output.input_end = p.output.input_end

\* What most of what a connection does leaves alone, or only moves forward.
Follows(x, c, t) ==
    /\ ConnectionOK(x, t)
    /\ t.sender.receive_ack = c.sender.receive_ack
    /\ Reached(c.receiver) <= Reached(t.receiver)
    /\ inbound_stream(t).readden = inbound_stream(c).readden
    /\ SameStore(c.receiver, t.receiver)

\* The parts of a connection.
LEMMA ConnectionFacts ==
  ASSUME NEW x \in Side, NEW c, ConnectionOK(x, c)
  PROVE  /\ Other(x) \in Side /\ SenderOK(x, c.sender) /\ ReceiverOK(Other(x), c.receiver)
         /\ Reached(c.receiver) \in 0..(Len(Data[Other(x)]) + 2) /\ Reached(c.receiver) \in Nat
         /\ c.sender.receive_ack \in Nat
<1>1. Other(x) \in Side /\ SenderOK(x, c.sender) /\ ReceiverOK(Other(x), c.receiver)
  BY SideFacts DEF ConnectionOK
<1>2. Reached(c.receiver) \in 0..(Len(Data[Other(x)]) + 2) BY <1>1, ReceiverFacts
<1>3. c.sender.receive_ack \in Nat BY <1>1, SenderFacts
<1> QED BY <1>1, <1>2, <1>3

\* Nothing happens.
LEMMA FollowsItself ==
  ASSUME NEW x \in Side, NEW c, ConnectionOK(x, c)
  PROVE  Follows(x, c, c)
BY ConnectionFacts DEF Follows, SameStore

\* One thing happens after the other.
LEMMA FollowsTwice ==
  ASSUME NEW x \in Side, NEW c, NEW d, NEW e, ConnectionOK(x, c), Follows(x, c, d), Follows(x, d, e)
  PROVE  Follows(x, c, e)
<1>1. ConnectionOK(x, d) /\ ConnectionOK(x, e) BY DEF Follows
<1>2. /\ Reached(c.receiver) \in Nat /\ Reached(d.receiver) \in Nat
      /\ Reached(e.receiver) \in Nat
  BY <1>1, ConnectionFacts
<1>3. SameStore(c.receiver, e.receiver) BY DEF Follows, SameStore
<1> QED BY <1>1, <1>2, <1>3 DEF Follows

\* A connection that has not received anything.
LEMMA SameReceiver ==
  ASSUME NEW x \in Side, NEW c, ConnectionOK(x, c), NEW t, ConnectionOK(x, t),
         t.receiver = c.receiver, t.sender.receive_ack = c.sender.receive_ack
  PROVE  Follows(x, c, t)
<1>1. Reached(c.receiver) \in Nat BY ConnectionFacts
<1>2. Reached(c.receiver) <= Reached(c.receiver) BY <1>1
<1>3. Reached(c.receiver) <= Reached(t.receiver) BY <1>2
<1>4. inbound_stream(t).readden = inbound_stream(c).readden BY DEF inbound_stream
<1>5. SameStore(c.receiver, t.receiver) BY DEF SameStore
<1> QED BY <1>3, <1>4, <1>5 DEF Follows

\* A connection that differs in its flags and its timer only.
LEMMA SameParts ==
  ASSUME NEW x \in Side, NEW c, ConnectionOK(x, c), NEW t, Has(t, ConnectionFields),
         t.sender = c.sender, t.receiver = c.receiver, t.segments_out = c.segments_out,
         t.need_send_rst \in BOOLEAN
  PROVE  Follows(x, c, t)
<1>1. ConnectionOK(x, t) BY DEF ConnectionOK
<1> QED BY <1>1, SameReceiver

\* A connection with another sender.
LEMMA OtherSender ==
  ASSUME NEW x \in Side, NEW c, ConnectionOK(x, c), NEW s, SenderOK(x, s),
         s.receive_ack = c.sender.receive_ack
  PROVE  Follows(x, c, [ c EXCEPT !.sender = s ])
<1> DEFINE t == [ c EXCEPT !.sender = s ]
<1>1. /\ Has(t, ConnectionFields) /\ t.sender = s /\ t.receiver = c.receiver
      /\ t.segments_out = c.segments_out /\ t.need_send_rst = c.need_send_rst
  BY DEF ConnectionOK, Has, ConnectionFields
<1> HIDE DEF t
<1>2. ConnectionOK(x, t) BY <1>1 DEF ConnectionOK
<1>3. Follows(x, c, t) BY <1>1, <1>2, SameReceiver
<1> QED BY <1>3 DEF t

\* clean_shutdown changes flags.
LEMMA CleanShutdownOK ==
  ASSUME NEW x \in Side, NEW c, ConnectionOK(x, c)
  PROVE  Follows(x, c, clean_shutdown(c))
<1> DEFINE t == clean_shutdown(c)
           ended == inbound_stream(c).input_end
           finished == eof(c.sender.stream)
           linger == c.linger_after_streams_finish /\ ~(ended /\ ~finished)
           done == /\ ended /\ finished
                   /\ c.sender.bytes_in_flight = 0
                   /\ ~linger \/ c.time_since_last_segment_received >= 10 * RTO
           active == c.active /\ ~done
<1>1. t = [ c EXCEPT !.linger_after_streams_finish = linger, !.active = active ]
  BY DEF clean_shutdown
<1> HIDE DEF t, linger, active
<1>2. /\ Has(t, ConnectionFields) /\ t.sender = c.sender /\ t.receiver = c.receiver
      /\ t.segments_out = c.segments_out /\ t.need_send_rst = c.need_send_rst
  BY <1>1 DEF ConnectionOK, Has, ConnectionFields
<1>3. t.need_send_rst \in BOOLEAN BY <1>2 DEF ConnectionOK
<1> QED BY <1>2, <1>3, SameParts DEF t

\* segment_sends stamps what the sender has queued and puts it under way.
LEMMA SegmentSendsOK ==
  ASSUME NEW x \in Side, NEW c, ConnectionOK(x, c), NEW send_syn
  PROVE  Follows(x, c, segment_sends(c, send_syn))
<1> DEFINE t == segment_sends(c, send_syn)
           filled == fill_window(c.sender)
           queue == filled.segments_out
           none == <<>>
           s == [ filled EXCEPT !.segments_out = none ]
           more == [ k \in 1..Len(queue) |-> Stamped(c, queue[k]) ]
           out == c.segments_out \o more
           d == [ c EXCEPT !.syn_sended = TRUE, !.sender = s, !.segments_out = out ]
<1>1. CASE ~send_syn /\ ~c.syn_sended
  <2>1. t = c BY <1>1 DEF segment_sends
  <2> QED BY <2>1, FollowsItself
<1>2. CASE ~(~send_syn /\ ~c.syn_sended)
  <2>1. t = clean_shutdown(d) BY <1>2 DEF segment_sends
  <2>2. /\ Has(c, ConnectionFields) /\ SenderOK(x, c.sender) /\ ReceiverOK(Other(x), c.receiver)
        /\ c.need_send_rst \in BOOLEAN
        /\ c.segments_out \in Seq(Truthful(x, Reached(c.receiver)))
    BY DEF ConnectionOK
  <2>3. none \in Seq(Pieces(x)) BY EmptySeq
  <2>4. SenderOK(x, filled) /\ SameAcks(c.sender, filled) BY <2>2, FillWindowOK
  <2> HIDE DEF none, filled
  <2>5. SenderTyped(x, filled) /\ Has(filled, SenderFields) /\ queue \in Seq(Pieces(x))
    BY <2>4 DEF SenderOK, SenderTyped
  <2>6. SenderOK(x, s) /\ s.receive_ack = c.sender.receive_ack
    <3>1. /\ Has(s, SenderFields) /\ s.next_seqno = filled.next_seqno /\ s.isn = filled.isn
          /\ s.window_size = filled.window_size /\ SameStream(filled, s)
          /\ s.segments_in_flight = filled.segments_in_flight /\ s.segments_out = none
      BY <2>5 DEF Has, SenderFields, SameStream
    <3> HIDE DEF s
    <3>2. SenderTyped(x, s) BY <2>3, <2>5, <3>1 DEF SenderTyped
    <3> QED BY <2>4, <3>1, <3>2 DEF SenderOK, SameStream, SameAcks
  <2>7. more \in Seq(Truthful(x, Reached(c.receiver)))
    <3> DEFINE T == Truthful(x, Reached(c.receiver))
               n == Len(queue)
    <3>1. n \in Nat BY <2>5, LenProperties
    <3>2. \A k \in 1..n : Stamped(c, queue[k]) \in T
      <4> TAKE k \in 1..n
      <4> HIDE DEF queue
      <4>1. queue[k] \in Pieces(x) BY <2>5, ElementOfSeq
      <4> QED BY <4>1, StampedOK
    <3> HIDE DEF T, n
    <3>3. more \in [1..n -> T] BY <3>2 DEF n
    <3> HIDE DEF more
    <3>4. more \in Seq(T) BY <3>1, <3>3, SeqDef
    <3> QED BY <3>4 DEF T
  <2> HIDE DEF s, more, queue
  <2>8. out \in Seq(Truthful(x, Reached(c.receiver)))
    <3> DEFINE T == Truthful(x, Reached(c.receiver))
    <3>1. c.segments_out \in Seq(T) /\ more \in Seq(T) BY <2>2, <2>7
    <3> HIDE DEF T
    <3>2. out \in Seq(T) BY <3>1, ConcatProperties
    <3> QED BY <3>2 DEF T
  <2> HIDE DEF out
  <2>9. /\ Has(d, ConnectionFields) /\ d.sender = s /\ d.receiver = c.receiver
        /\ d.segments_out = out /\ d.need_send_rst = c.need_send_rst
    BY <2>2 DEF Has, ConnectionFields
  <2> HIDE DEF d
  <2>10. ConnectionOK(x, d) BY <2>2, <2>6, <2>8, <2>9 DEF ConnectionOK
  <2>11. Follows(x, c, d)
    BY <2>6, <2>9, <2>10, SameReceiver
  <2>12. Follows(x, d, clean_shutdown(d)) BY <2>10, CleanShutdownOK
  <2> QED BY <2>1, <2>11, <2>12, FollowsTwice
<1> QED BY <1>1, <1>2

\* Whether the window is filled depends on little of a sender.
SameLoop(s, t) ==
    /\ t.next_seqno = s.next_seqno /\ t.receive_ack = s.receive_ack /\ t.fin = s.fin
    /\ t.window_size = s.window_size
    /\ t.stream.buffer = s.stream.buffer /\ t.stream.input_end = s.stream.input_end

\* What clean_shutdown leaves alone.
LEMMA CleanShutdownLeaves ==
  ASSUME NEW x \in Side, NEW c, ConnectionOK(x, c)
  PROVE  LET t == clean_shutdown(c)
         IN  /\ t.sender = c.sender /\ t.receiver = c.receiver /\ t.syn_sended = c.syn_sended
             /\ t.segments_out = c.segments_out /\ t.need_send_rst = c.need_send_rst
             /\ t.active => c.active
BY DEF ConnectionOK, Has, ConnectionFields, clean_shutdown

\* What segment_sends sends.
LEMMA Sends ==
  ASSUME NEW x \in Side, NEW c, ConnectionOK(x, c), NEW send_syn, send_syn \/ c.syn_sended
  PROVE  LET t == segment_sends(c, send_syn)
             s == fill_window(c.sender)
         IN  /\ t.syn_sended /\ t.need_send_rst = c.need_send_rst /\ t.receiver = c.receiver
             /\ t.active => c.active
             /\ SameLoop(s, t.sender) /\ SameWindow(s, t.sender) /\ t.sender.syn = s.syn
             /\ t.sender.segments_out = <<>>
             /\ t.segments_out =
                  c.segments_out \o [ k \in 1..Len(s.segments_out) |-> Stamped(c, s.segments_out[k]) ]
<1> DEFINE t == segment_sends(c, send_syn)
           filled == fill_window(c.sender)
           queue == filled.segments_out
           none == <<>>
           s == [ filled EXCEPT !.segments_out = none ]
           more == [ k \in 1..Len(queue) |-> Stamped(c, queue[k]) ]
           out == c.segments_out \o more
           d == [ c EXCEPT !.syn_sended = TRUE, !.sender = s, !.segments_out = out ]
<1>1. t = clean_shutdown(d) BY DEF segment_sends
<1>2. Has(c, ConnectionFields) /\ SenderOK(x, c.sender) BY DEF ConnectionOK
<1>3. SenderOK(x, filled) BY <1>2, FillWindowOK
<1> HIDE DEF filled
<1>4. /\ s.segments_out = none /\ SameLoop(filled, s) /\ SameWindow(filled, s)
      /\ s.syn = filled.syn
  BY <1>3 DEF SenderOK, SenderTyped, Has, SenderFields, SameLoop, SameWindow
<1> HIDE DEF s, out, none
<1>5. /\ d.sender = s /\ d.segments_out = out /\ d.syn_sended = TRUE /\ d.receiver = c.receiver
      /\ d.need_send_rst = c.need_send_rst /\ d.active = c.active /\ Has(d, ConnectionFields)
  BY <1>2 DEF Has, ConnectionFields
<1> HIDE DEF d
<1>6. /\ t.sender = d.sender /\ t.receiver = d.receiver /\ t.syn_sended = d.syn_sended
      /\ t.segments_out = d.segments_out /\ t.need_send_rst = d.need_send_rst
      /\ t.active => d.active
  BY <1>1, <1>5 DEF Has, ConnectionFields, clean_shutdown
<1> HIDE DEF t
<1> QED BY <1>4, <1>5, <1>6 DEF t, none, out, filled

\* An endpoint that has stopped does not start again.
LEMMA StaysInactive ==
  ASSUME NEW x \in Side, NEW c, ConnectionOK(x, c), NEW send_syn, ~c.active
  PROVE  ~segment_sends(c, send_syn).active
<1>1. CASE send_syn \/ c.syn_sended
  <2>1. segment_sends(c, send_syn).active => c.active BY <1>1, Sends
  <2> QED BY <2>1
<1>2. CASE ~(send_syn \/ c.syn_sended) BY <1>2 DEF segment_sends
<1> QED BY <1>1, <1>2

\* A stream with an error.
LEMMA SetErrorPasses ==
  ASSUME NEW x \in Side, NEW s, Passes(x, s)
  PROVE  LET t == set_error(s)
         IN  /\ Passes(x, t) /\ t.written = s.written /\ t.readden = s.readden
             /\ t.buffer = s.buffer /\ t.input_end = s.input_end
<1> DEFINE t == set_error(s)
<1>1. t = [ s EXCEPT !.error = TRUE ] BY DEF set_error
<1> HIDE DEF t
<1>2. /\ Has(t, StreamFields) /\ t.written = s.written /\ t.readden = s.readden
      /\ t.buffer = s.buffer /\ t.input_end = s.input_end /\ t.error = TRUE
  BY <1>1 DEF Passes, Has, StreamFields
<1> QED BY <1>2 DEF Passes, t

\* Only the stream of the sender is another one.
OtherStream(s, b, t) ==
    /\ t.stream = b /\ t.next_seqno = s.next_seqno /\ t.receive_ack = s.receive_ack
    /\ t.syn = s.syn /\ t.fin = s.fin /\ SameWindow(s, t)
    /\ t.segments_in_flight = s.segments_in_flight /\ t.segments_out = s.segments_out

\* What a sender keeps when only the flags of its stream change.
LEMMA StreamReplaced ==
  ASSUME NEW x \in Side, NEW s, SenderOK(x, s), NEW b, Passes(x, b), EndsWhole(x, b),
         b.readden = s.stream.readden
  PROVE  LET t == [ s EXCEPT !.stream = b ]
         IN  SenderOK(x, t) /\ OtherStream(s, b, t)
<1> DEFINE t == [ s EXCEPT !.stream = b ]
<1>1. SenderTyped(x, s) /\ Has(s, SenderFields) BY DEF SenderOK, SenderTyped
<1>2. /\ Has(t, SenderFields) /\ OtherStream(s, b, t)
      /\ t.isn = s.isn /\ t.checkpoint = s.checkpoint
  BY <1>1 DEF Has, SenderFields, OtherStream, SameWindow
<1> HIDE DEF t
<1>3. SenderTyped(x, t) BY <1>1, <1>2 DEF SenderTyped, OtherStream, SameWindow
<1>4. SenderOK(x, t) BY <1>2, <1>3 DEF SenderOK, OtherStream
<1> QED BY <1>2, <1>4 DEF t

\* A receiver whose output stream is replaced by one as long.
LEMMA OutputReplaced ==
  ASSUME NEW x \in Side, NEW r, ReceiverOK(x, r), NEW o, Passes(x, o),
         o.written = stream_out(r).written, o.input_end = stream_out(r).input_end,
         Len(o.buffer) <= RecvCapacity,
         NEW p, p = [ r.reassembler EXCEPT !.output = o ]
  PROVE  LET t == [ r EXCEPT !.reassembler = p ]
         IN  /\ ReceiverOK(x, t) /\ Reached(t) = Reached(r) /\ stream_out(t) = o
             /\ SameStore(r, t)
<1> DEFINE t == [ r EXCEPT !.reassembler = p ]
<1>1. Assembles(x, r.reassembler) /\ Has(r, ReceiverFields) BY DEF ReceiverOK
<1>2. /\ Has(p, ReassemblerFields) /\ p.output = o /\ p.eof_flag = r.reassembler.eof_flag
      /\ p.head_index = r.reassembler.head_index /\ p.stored = r.reassembler.stored
      /\ p.unassembled = r.reassembler.unassembled
  BY <1>1 DEF Assembles, Has, ReassemblerFields
<1>3. Assembles(x, p) BY <1>1, <1>2 DEF Assembles, stream_out
<1>4. /\ Has(t, ReceiverFields) /\ t.reassembler = p /\ t.ackno = r.ackno /\ t.isn = r.isn
      /\ t.syn = r.syn /\ t.fin = r.fin /\ t.fin_not_count = r.fin_not_count
  BY <1>1 DEF Has, ReceiverFields
<1> HIDE DEF t
<1>5. stream_out(t) = o BY <1>2, <1>4 DEF stream_out
<1>6. Reached(t) = Reached(r) BY <1>4, <1>5 DEF Reached
<1>7. ReceiverOK(x, t) BY <1>2, <1>3, <1>4, <1>5, <1>6 DEF ReceiverOK
<1>8. SameStore(r, t) BY <1>2, <1>4 DEF SameStore, stream_out
<1> QED BY <1>5, <1>6, <1>7, <1>8 DEF t

\* A connection given up with a RST to send.
GivenUp(c, d) ==
    /\ ~d.active /\ d.need_send_rst /\ d.syn_sended = c.syn_sended
    /\ SameLoop(c.sender, d.sender) /\ d.sender.syn = c.sender.syn
    /\ d.sender.segments_out = c.sender.segments_out /\ d.segments_out = c.segments_out

\* unclean_shutdown: the error of both streams, and the segment with the RST.
LEMMA UncleanShutdownOK ==
  ASSUME NEW x \in Side, NEW c, ConnectionOK(x, c), NEW send_rst \in BOOLEAN
  PROVE  LET t == unclean_shutdown(c, send_rst)
         IN  /\ Follows(x, c, t) /\ ~t.active
             /\ ~send_rst => t.need_send_rst = c.need_send_rst
             /\ send_rst /\ c.sender.segments_out # <<>> =>
                  \E d : ConnectionOK(x, d) /\ GivenUp(c, d) /\ t = segment_sends(d, FALSE)
<1> DEFINE o == set_error(c.receiver.reassembler.output)
           p == [ c.receiver.reassembler EXCEPT !.output = o ]
           r == [ c.receiver EXCEPT !.reassembler = p ]
           b == set_error(c.sender.stream)
           s == [ c.sender EXCEPT !.stream = b ]
           rst == c.need_send_rst \/ send_rst
           failed == [ c EXCEPT !.receiver.reassembler.output = set_error(@),
                                !.sender.stream = set_error(@),
                                !.linger_after_streams_finish = FALSE,
                                !.active = FALSE,
                                !.need_send_rst = @ \/ send_rst ]
           t == unclean_shutdown(c, send_rst)
<1>1. /\ Has(c, ConnectionFields) /\ SenderOK(x, c.sender) /\ ReceiverOK(Other(x), c.receiver)
      /\ c.need_send_rst \in BOOLEAN
      /\ c.segments_out \in Seq(Truthful(x, Reached(c.receiver)))
      /\ Other(x) \in Side
  BY SideFacts DEF ConnectionOK
<1>2. failed = [ c EXCEPT !.receiver = r, !.sender = s, !.linger_after_streams_finish = FALSE,
                          !.active = FALSE, !.need_send_rst = rst ]
  OBVIOUS
<1>3. /\ ReceiverOK(Other(x), r) /\ Reached(r) = Reached(c.receiver) /\ stream_out(r) = o
      /\ o.readden = stream_out(c.receiver).readden
      /\ SameStore(c.receiver, r)
  <2>1. Passes(Other(x), stream_out(c.receiver)) BY <1>1, ReceiverFacts
  <2>2. stream_out(c.receiver) = c.receiver.reassembler.output BY DEF stream_out
  <2>3. /\ Passes(Other(x), o) /\ o.written = stream_out(c.receiver).written
        /\ o.readden = stream_out(c.receiver).readden
        /\ o.buffer = stream_out(c.receiver).buffer
        /\ o.input_end = stream_out(c.receiver).input_end
    BY <1>1, <2>1, <2>2, SetErrorPasses
  <2>4. Len(o.buffer) <= RecvCapacity
    BY <1>1, <2>2, <2>3 DEF ReceiverOK, Assembles
  <2>5. p = [ c.receiver.reassembler EXCEPT !.output = o ] OBVIOUS
  <2> HIDE DEF o, p
  <2>6. /\ ReceiverOK(Other(x), [ c.receiver EXCEPT !.reassembler = p ])
        /\ Reached([ c.receiver EXCEPT !.reassembler = p ]) = Reached(c.receiver)
        /\ SameStore(c.receiver, [ c.receiver EXCEPT !.reassembler = p ])
        /\ stream_out([ c.receiver EXCEPT !.reassembler = p ]) = o
    BY <1>1, <2>3, <2>4, <2>5, OutputReplaced
  <2> QED BY <2>3, <2>6
<1>4. /\ SenderOK(x, s) /\ s.receive_ack = c.sender.receive_ack /\ SameLoop(c.sender, s)
      /\ s.syn = c.sender.syn /\ s.segments_out = c.sender.segments_out
  <2>1. Passes(x, c.sender.stream) BY <1>1 DEF SenderOK
  <2>2. /\ Passes(x, b) /\ b.readden = c.sender.stream.readden
        /\ b.written = c.sender.stream.written
        /\ b.buffer = c.sender.stream.buffer /\ b.input_end = c.sender.stream.input_end
    BY <2>1, SetErrorPasses
  <2> HIDE DEF b
  <2>4. EndsWhole(x, b) BY <1>1, <2>2 DEF SenderOK, EndsWhole
  <2>3. SenderOK(x, s) /\ OtherStream(c.sender, b, s) BY <1>1, <2>2, <2>4, StreamReplaced
  <2> HIDE DEF s
  <2> QED BY <2>2, <2>3 DEF OtherStream, SameWindow, SameLoop
<1> HIDE DEF r, s, failed, rst, o
<1>5. /\ Has(failed, ConnectionFields) /\ failed.sender = s /\ failed.receiver = r
      /\ failed.segments_out = c.segments_out /\ failed.need_send_rst = rst
      /\ failed.active = FALSE /\ failed.syn_sended = c.syn_sended
  BY <1>1, <1>2 DEF Has, ConnectionFields
<1>6. rst \in BOOLEAN BY <1>1 DEF rst
<1>7. ConnectionOK(x, failed) BY <1>1, <1>3, <1>4, <1>5, <1>6 DEF ConnectionOK
<1>8. Follows(x, c, failed)
  <2>1. Reached(c.receiver) \in Nat BY ConnectionFacts
  <2>2. Reached(c.receiver) <= Reached(r) BY <1>3, <2>1
  <2>3. inbound_stream(failed).readden = inbound_stream(c).readden
    BY <1>3, <1>5 DEF inbound_stream
  <2>4. SameStore(c.receiver, failed.receiver) BY <1>3, <1>5
  <2> QED BY <1>4, <1>5, <1>7, <2>2, <2>3, <2>4 DEF Follows
<1> DEFINE e == send_empty_segment(failed.sender)
           g == [ failed EXCEPT !.sender = e ]
<1>9. Follows(x, failed, g)
  <2>1. SenderOK(x, failed.sender) BY <1>7 DEF ConnectionOK
  <2>2. SenderOK(x, e) /\ SameStream(failed.sender, e) BY <2>1, SendEmptyOK
  <2> HIDE DEF e
  <2> QED BY <1>7, <2>2, OtherSender DEF SameStream
<1>10. t \in { failed, segment_sends(failed, FALSE), segment_sends(g, FALSE) }
  BY DEF unclean_shutdown, failed, g, e, set_error
<1>11. ~send_rst => t = failed BY DEF unclean_shutdown, failed
<1>12. send_rst /\ c.sender.segments_out # <<>> => t = segment_sends(failed, FALSE)
  BY DEF unclean_shutdown, failed
<1>13. ~g.active BY <1>5 DEF Has, ConnectionFields
<1> HIDE DEF g, t
<1>14. ConnectionOK(x, g) BY <1>9 DEF Follows
<1>15. Follows(x, failed, segment_sends(failed, FALSE)) BY <1>7, SegmentSendsOK
<1>16. Follows(x, failed, segment_sends(g, FALSE))
  <2>1. Follows(x, g, segment_sends(g, FALSE)) BY <1>14, SegmentSendsOK
  <2> QED BY <1>7, <1>9, <2>1, FollowsTwice
<1>17. Follows(x, failed, t) BY <1>7, <1>10, <1>15, <1>16, FollowsItself
<1>18. ~t.active BY <1>5, <1>7, <1>10, <1>14, <1>13, StaysInactive
<1>19. ~send_rst => t.need_send_rst = c.need_send_rst BY <1>1, <1>5, <1>11 DEF rst
<1>20. send_rst => GivenUp(c, failed) BY <1>4, <1>5 DEF GivenUp, rst
<1>21. Follows(x, c, t) BY <1>8, <1>17, FollowsTwice
<1> QED BY <1>7, <1>12, <1>18, <1>19, <1>20, <1>21 DEF t

-----------------------------------------------------------------------------
\* The call changes the stream of the sender, then sends.
SendsAfter(x, c, t) ==
    \E s, b : SenderOK(x, s) /\ OtherStream(c.sender, b, s)
              /\ t = segment_sends([ c EXCEPT !.sender = s ], FALSE)

\* What the application calls.
LEMMA WriteOK ==
  ASSUME NEW x \in Side, NEW c, ConnectionOK(x, c), ~c.sender.stream.input_end, NEW n \in Nat,
         c.sender.stream.written + n <= Len(Data[x]), n <= remaining_outbound_capacity(c)
  PROVE  LET t == conn_write(c, Part(x, c.sender.stream.written, n))
         IN  Follows(x, c, t) /\ SendsAfter(x, c, t)
<1> DEFINE f == c.sender.stream
           data == Part(x, f.written, n)
           b == write(f, SendCapacity, data)
           s == [ c.sender EXCEPT !.stream = b ]
           d == [ c EXCEPT !.sender = s ]
<1>1. SenderOK(x, c.sender) BY DEF ConnectionOK
<1>2. Passes(x, f) BY <1>1 DEF SenderOK
<1>3. SendCapacity \in Nat /\ Len(f.buffer) \in Nat /\ Len(f.buffer) <= SendCapacity
  <2>1. SendCapacity \in Nat BY TCPConfigAssumption
  <2>2. Len(f.buffer) \in Nat BY <1>2, PassesFacts
  <2> QED BY <2>1, <2>2 DEF remaining_outbound_capacity, remaining_capacity
<1>4. Passes(x, b) /\ b.readden = f.readden /\ SameFlags(f, b)
  <2> HIDE DEF data
  <2>1. data = Part(x, f.written, n) BY DEF data
  <2> HIDE DEF f
  <2>2. f.written + n <= Len(Data[x]) BY DEF f
  <2> QED BY <1>2, <1>3, <2>1, <2>2, WritePasses
<1>5. conn_write(c, data) = segment_sends(d, FALSE)
  <2>1. d = [ c EXCEPT !.sender.stream = write(@, SendCapacity, data) ] OBVIOUS
  <2> QED BY <2>1 DEF conn_write
<1> HIDE DEF b, data
<1>12. EndsWhole(x, b) BY <1>4 DEF SameFlags, EndsWhole
<1>6. SenderOK(x, s) /\ OtherStream(c.sender, b, s) BY <1>1, <1>4, <1>12, StreamReplaced
<1> HIDE DEF s
<1>7. Follows(x, c, d) BY <1>6, OtherSender DEF OtherStream
<1>8. SendsAfter(x, c, segment_sends(d, FALSE)) BY <1>6 DEF SendsAfter
<1> HIDE DEF d
<1>9. ConnectionOK(x, d) BY <1>7 DEF Follows
<1>10. Follows(x, d, segment_sends(d, FALSE)) BY <1>9, SegmentSendsOK
<1>11. Follows(x, c, segment_sends(d, FALSE)) BY <1>7, <1>10, FollowsTwice
<1> QED BY <1>5, <1>11, <1>8 DEF data, f

\* end_input_stream.
LEMMA EndInputOK ==
  ASSUME NEW x \in Side, NEW c, ConnectionOK(x, c), c.sender.stream.written = Len(Data[x])
  PROVE  LET t == end_input_stream(c)
         IN  Follows(x, c, t) /\ SendsAfter(x, c, t)
<1> DEFINE f == c.sender.stream
           b == end_input(f)
           s == [ c.sender EXCEPT !.stream = b ]
           d == [ c EXCEPT !.sender = s ]
<1>1. SenderOK(x, c.sender) BY DEF ConnectionOK
<1>2. Passes(x, f) BY <1>1 DEF SenderOK
<1>3. Passes(x, b) /\ b.readden = f.readden /\ b.written = f.written
  <2>1. b = [ f EXCEPT !.input_end = TRUE ] BY DEF end_input
  <2> HIDE DEF b
  <2>2. /\ Has(b, StreamFields) /\ b.written = f.written /\ b.readden = f.readden
        /\ b.buffer = f.buffer /\ b.input_end = TRUE /\ b.error = f.error
    BY <1>2, <2>1 DEF Passes, Has, StreamFields
  <2> QED BY <1>2, <2>2 DEF Passes
<1>4. end_input_stream(c) = segment_sends(d, FALSE)
  <2>1. d = [ c EXCEPT !.sender.stream = end_input(@) ] OBVIOUS
  <2> QED BY <2>1 DEF end_input_stream
<1> HIDE DEF b
<1>11. EndsWhole(x, b) BY <1>3 DEF EndsWhole
<1>5. SenderOK(x, s) /\ OtherStream(c.sender, b, s) BY <1>1, <1>3, <1>11, StreamReplaced
<1> HIDE DEF s
<1>6. Follows(x, c, d) BY <1>5, OtherSender DEF OtherStream
<1>7. SendsAfter(x, c, segment_sends(d, FALSE)) BY <1>5 DEF SendsAfter
<1> HIDE DEF d
<1>8. ConnectionOK(x, d) BY <1>6 DEF Follows
<1>9. Follows(x, d, segment_sends(d, FALSE)) BY <1>8, SegmentSendsOK
<1>10. Follows(x, c, segment_sends(d, FALSE)) BY <1>6, <1>9, FollowsTwice
<1> QED BY <1>4, <1>7, <1>10

\* The application takes what has arrived.
LEMMA ReadOK ==
  ASSUME NEW x \in Side, NEW c, ConnectionOK(x, c), NEW n, n = Len(inbound_stream(c).buffer)
  PROVE  LET t == [ c EXCEPT !.receiver.reassembler = PopOutput(@, n) ]
         IN  /\ ConnectionOK(x, t) /\ t.sender = c.sender
             /\ Reached(t.receiver) = Reached(c.receiver)
             /\ inbound_stream(t).readden = inbound_stream(c).readden + n
             /\ SameStore(c.receiver, t.receiver)
<1> DEFINE f == stream_out(c.receiver)
           o == pop_output(f, n)
           p == [ c.receiver.reassembler EXCEPT !.output = o ]
           r == [ c.receiver EXCEPT !.reassembler = p ]
           t == [ c EXCEPT !.receiver = r ]
<1>1. /\ Has(c, ConnectionFields) /\ SenderOK(x, c.sender) /\ ReceiverOK(Other(x), c.receiver)
      /\ c.need_send_rst \in BOOLEAN
      /\ c.segments_out \in Seq(Truthful(x, Reached(c.receiver)))
      /\ Other(x) \in Side
  BY SideFacts DEF ConnectionOK
<1>2. Passes(Other(x), f) /\ Len(f.buffer) <= RecvCapacity
  BY <1>1 DEF ReceiverOK, Assembles, stream_out
<1>3. n = Len(f.buffer) /\ n \in Nat BY <1>1, <1>2, PassesFacts DEF inbound_stream
<1>4. MinOf(n, Len(f.buffer)) = n BY <1>3 DEF MinOf
<1>5. /\ Passes(Other(x), o) /\ SameFlags(f, o) /\ o.written = f.written
      /\ o.readden = f.readden + n /\ Len(o.buffer) = Len(f.buffer) - n
  BY <1>1, <1>2, <1>3, <1>4, PopPasses
<1>6. Len(o.buffer) <= RecvCapacity
  <2>1. RecvCapacity \in Nat BY TCPConfigAssumption
  <2> QED BY <1>3, <1>5, <2>1
<1>7. [ c EXCEPT !.receiver.reassembler = PopOutput(@, n) ] = t BY DEF PopOutput, stream_out
<1>8. p = [ c.receiver.reassembler EXCEPT !.output = o ] OBVIOUS
<1> HIDE DEF o, p, f
<1>9. /\ ReceiverOK(Other(x), r) /\ Reached(r) = Reached(c.receiver) /\ stream_out(r) = o
      /\ SameStore(c.receiver, r)
  <2>1. o.written = stream_out(c.receiver).written /\ o.input_end = stream_out(c.receiver).input_end
    BY <1>5 DEF SameFlags, f
  <2>2. Passes(Other(x), o) BY <1>5
  <2> QED BY <1>1, <1>6, <1>8, <2>1, <2>2, OutputReplaced
<1> HIDE DEF r
<1>10. /\ Has(t, ConnectionFields) /\ t.sender = c.sender /\ t.receiver = r
       /\ t.segments_out = c.segments_out /\ t.need_send_rst = c.need_send_rst
  BY <1>1 DEF Has, ConnectionFields
<1> HIDE DEF t
<1>11. ConnectionOK(x, t) BY <1>1, <1>9, <1>10 DEF ConnectionOK
<1>12. inbound_stream(t).readden = inbound_stream(c).readden + n
  BY <1>5, <1>9, <1>10 DEF inbound_stream, f
<1> QED BY <1>7, <1>9, <1>10, <1>11, <1>12

-----------------------------------------------------------------------------
\* What the arrival of a segment that acknowledges up to m moves forward.
Advances(x, c, t, m) ==
    /\ ConnectionOK(x, t)
    /\ t.sender.receive_ack <= m
    /\ Reached(c.receiver) <= Reached(t.receiver)
    /\ inbound_stream(t).readden = inbound_stream(c).readden

\* What follows an arrival.
LEMMA AdvancesThenFollows ==
  ASSUME NEW x \in Side, NEW c, ConnectionOK(x, c), NEW m, NEW d, Advances(x, c, d, m),
         NEW e, Follows(x, d, e)
  PROVE  Advances(x, c, e, m)
<1>1. ConnectionOK(x, d) /\ ConnectionOK(x, e) BY DEF Follows, Advances
<1>2. /\ Reached(c.receiver) \in Nat /\ Reached(d.receiver) \in Nat
      /\ Reached(e.receiver) \in Nat
  BY <1>1, ConnectionFacts
<1> QED BY <1>1, <1>2 DEF Follows, Advances

\* An arrival that acknowledges nothing.
LEMMA FollowsAdvances ==
  ASSUME NEW x \in Side, NEW c, ConnectionOK(x, c), NEW m, c.sender.receive_ack <= m,
         NEW d, Follows(x, c, d)
  PROVE  Advances(x, c, d, m)
BY DEF Follows, Advances

\* What the arrival of a segment leaves alone before anything is sent.
SameQueue(c, t) ==
    /\ t.segments_out = c.segments_out /\ t.need_send_rst = c.need_send_rst
    /\ t.syn_sended = c.syn_sended

\* The acknowledgment in a segment goes to the sender.
LEMMA TakeAckOK ==
  ASSUME ShortStreams, NEW x \in Side, NEW c, ConnectionOK(x, c),
         NEW m \in 0..(Len(Data[x]) + 2), NEW seg \in Truthful(Other(x), m),
         c.sender.receive_ack <= m
  PROVE  LET t == TakeAck(c, seg)
         IN  /\ Advances(x, c, t, m) /\ GoesOn(c.sender, t.sender) /\ t.receiver = c.receiver
             /\ SameQueue(c, t)
             /\ ~seg.ack \/ c.sender.next_seqno = 0 => t.sender = c.sender
<1> DEFINE t == TakeAck(c, seg)
           u == ack_received(c.sender, seg.ackno, seg.win)
           s == IF seg.ack /\ c.sender.next_seqno > 0 THEN u ELSE c.sender
<1>1. /\ Has(c, ConnectionFields) /\ SenderOK(x, c.sender) /\ ReceiverOK(Other(x), c.receiver)
      /\ c.need_send_rst \in BOOLEAN
      /\ c.segments_out \in Seq(Truthful(x, Reached(c.receiver)))
  BY DEF ConnectionOK
<1>2. /\ seg \in Message
      /\ seg.ack => \E a \in 1..m : seg.ackno = wrap(a, Isn[Other(Other(x))])
  BY DEF Truthful
<1>3. t = [ c EXCEPT !.time_since_last_segment_received = 0, !.sender = s ] BY DEF TakeAck
<1>4. SenderOK(x, s) /\ s.receive_ack <= m /\ GoesOn(c.sender, s)
  <2>1. CASE seg.ack
    <3>1. Other(Other(x)) = x BY SideFacts
    <3>2. PICK a \in 1..m : seg.ackno = wrap(a, Isn[x]) BY <1>2, <2>1, <3>1
    <3>3. seg.win \in 0..RecvCapacity BY <1>2 DEF Message
    <3> DEFINE n == seg.ackno
    <3>4. n = wrap(a, Isn[x]) BY <3>2
    <3> HIDE DEF n
    <3>5. /\ SenderOK(x, ack_received(c.sender, n, seg.win))
          /\ ack_received(c.sender, n, seg.win).receive_ack <= m
          /\ GoesOn(c.sender, ack_received(c.sender, n, seg.win))
      BY <1>1, <3>3, <3>4, AckReceivedOK
    <3>6. SenderOK(x, u) /\ u.receive_ack <= m /\ GoesOn(c.sender, u) BY <3>5 DEF n
    <3> HIDE DEF u
    <3> QED BY <1>1, <3>6 DEF GoesOn
  <2>2. CASE ~seg.ack BY <1>1, <2>2 DEF GoesOn
  <2> QED BY <2>1, <2>2
<1>5. ~seg.ack \/ c.sender.next_seqno = 0 => s = c.sender
  <2>1. c.sender.next_seqno = 0 => ~(c.sender.next_seqno > 0) OBVIOUS
  <2> HIDE DEF u
  <2> QED BY <2>1
<1> HIDE DEF t, s
<1>6. /\ Has(t, ConnectionFields) /\ t.sender = s /\ t.receiver = c.receiver
      /\ SameQueue(c, t)
  BY <1>1, <1>3 DEF Has, ConnectionFields, SameQueue
<1>7. ConnectionOK(x, t) BY <1>1, <1>4, <1>6 DEF ConnectionOK, SameQueue
<1>8. Reached(c.receiver) <= Reached(t.receiver)
  <2>1. Reached(c.receiver) \in Nat BY ConnectionFacts
  <2>2. Reached(c.receiver) <= Reached(c.receiver) BY <2>1
  <2> QED BY <1>6, <2>2
<1>9. inbound_stream(t).readden = inbound_stream(c).readden BY <1>6 DEF inbound_stream
<1> QED BY <1>4, <1>6, <1>7, <1>8, <1>9, <1>5 DEF Advances, t

\* The answer to a segment that occupies sequence numbers.
LEMMA ReplyOK ==
  ASSUME NEW x \in Side, NEW c, ConnectionOK(x, c), NEW seg
  PROVE  Follows(x, c, Reply(c, seg))
<1> DEFINE e == send_empty_segment(c.sender)
           g == [ c EXCEPT !.sender = e ]
           t == Reply(c, seg)
<1>1. Follows(x, c, g)
  <2>1. SenderOK(x, c.sender) BY DEF ConnectionOK
  <2>2. SenderOK(x, e) /\ SameStream(c.sender, e) BY <2>1, SendEmptyOK
  <2> HIDE DEF e
  <2> QED BY <2>2, OtherSender DEF SameStream
<1>2. t \in { segment_sends(c, FALSE), segment_sends(g, FALSE) } BY DEF Reply
<1> HIDE DEF g, t
<1>3. ConnectionOK(x, g) BY <1>1 DEF Follows
<1>4. Follows(x, c, segment_sends(c, FALSE)) BY SegmentSendsOK
<1>5. Follows(x, c, segment_sends(g, FALSE))
  <2>1. Follows(x, g, segment_sends(g, FALSE)) BY <1>3, SegmentSendsOK
  <2> QED BY <1>1, <2>1, FollowsTwice
<1>6. Follows(x, c, t) BY <1>2, <1>4, <1>5
<1> QED BY <1>6 DEF t

\* The acknowledgment to the sender, then the segment to the receiver.
Heard(c, seg) == [ TakeAck(c, seg) EXCEPT !.receiver = segment_received(@, RecvCapacity, seg) ]

\* It acknowledges what was sent, and the receiver takes the rest of the segment.
LEMMA HeardOK ==
  ASSUME ShortStreams, NEW x \in Side, NEW c, ConnectionOK(x, c),
         NEW m \in 0..(Len(Data[x]) + 2), NEW seg \in Truthful(Other(x), m),
         c.sender.receive_ack <= m
  PROVE  LET t == Heard(c, seg)
         IN  /\ Advances(x, c, t, m) /\ GoesOn(c.sender, t.sender) /\ SameQueue(c, t)
             /\ t.receiver = segment_received(c.receiver, RecvCapacity, seg)
             /\ ~seg.ack \/ c.sender.next_seqno = 0 => t.sender = c.sender
<1> DEFINE acked == TakeAck(c, seg)
           r == segment_received(acked.receiver, RecvCapacity, seg)
           now == [ acked EXCEPT !.receiver = r ]
<1>1. Heard(c, seg) = now BY DEF Heard
<1>2. r = segment_received(c.receiver, RecvCapacity, seg) BY TakeAckOK
<1>3. /\ GoesOn(c.sender, acked.sender) /\ SameQueue(c, acked)
      /\ ~seg.ack \/ c.sender.next_seqno = 0 => acked.sender = c.sender
  BY TakeAckOK
<1>4. Advances(x, c, acked, m) /\ acked.receiver = c.receiver BY TakeAckOK
<1> HIDE DEF acked
<1>5. /\ ConnectionOK(x, acked) /\ acked.sender.receive_ack <= m
      /\ Reached(c.receiver) <= Reached(acked.receiver)
      /\ inbound_stream(acked).readden = inbound_stream(c).readden
  BY <1>4 DEF Advances
<1>6. /\ Has(acked, ConnectionFields) /\ SenderOK(x, acked.sender)
      /\ ReceiverOK(Other(x), acked.receiver) /\ acked.need_send_rst \in BOOLEAN
      /\ acked.segments_out \in Seq(Truthful(x, Reached(acked.receiver)))
      /\ Other(x) \in Side
  BY <1>5, SideFacts DEF ConnectionOK
<1>7. PieceOf(Other(x), seg) BY DEF Truthful, Message, PieceOf
<1>8. /\ ReceiverOK(Other(x), r) /\ Reached(acked.receiver) <= Reached(r)
      /\ stream_out(r).readden = stream_out(acked.receiver).readden
  BY <1>6, <1>7, SegmentReceivedOK
<1> HIDE DEF r
<1>9. /\ Has(now, ConnectionFields) /\ now.sender = acked.sender /\ now.receiver = r
       /\ SameQueue(acked, now)
  BY <1>6 DEF Has, ConnectionFields, SameQueue
<1> HIDE DEF now
<1>10. Advances(x, c, now, m)
  <2>1. /\ now.segments_out = acked.segments_out /\ now.need_send_rst = acked.need_send_rst
    BY <1>9 DEF SameQueue
  <2>2. Reached(acked.receiver) \in Nat /\ Reached(r) \in Nat
    <3>1. Reached(acked.receiver) \in Nat BY <1>5, ConnectionFacts
    <3>2. Reached(r) \in 0..(Len(Data[Other(x)]) + 2) BY <1>6, <1>8, ReceiverFacts
    <3> QED BY <3>1, <3>2
  <2>3. Truthful(x, Reached(acked.receiver)) \subseteq Truthful(x, Reached(r))
    BY <1>8, <2>2, TruthfulGrows
  <2>4. acked.segments_out \in Seq(Truthful(x, Reached(r))) BY <1>6, <2>3, SeqOfSubset
  <2>5. ConnectionOK(x, now) BY <1>6, <1>8, <1>9, <2>1, <2>4 DEF ConnectionOK
  <2>6. inbound_stream(now).readden = inbound_stream(c).readden
    BY <1>5, <1>8, <1>9 DEF inbound_stream
  <2>7. Reached(c.receiver) \in Nat BY ConnectionFacts
  <2> QED BY <1>5, <1>8, <1>9, <2>2, <2>5, <2>6, <2>7 DEF Advances
<1>11. SameQueue(c, now) BY <1>3, <1>9 DEF SameQueue
<1> QED BY <1>1, <1>2, <1>3, <1>10, <1>9, <1>11

\* TCPConnection::segment_received on a segment of the other side.
LEMMA ConnReceivedOK ==
  ASSUME ShortStreams, NEW x \in Side, NEW c, ConnectionOK(x, c),
         NEW m \in 0..(Len(Data[x]) + 2), NEW seg \in Truthful(Other(x), m),
         c.sender.receive_ack <= m
  PROVE  Advances(x, c, conn_segment_received(c, seg), m)
<1> DEFINE t == conn_segment_received(c, seg)
           idle == [ c EXCEPT !.time_since_last_segment_received = 0 ]
           now == Heard(c, seg)
<1>1. t \in { c, idle, connect(now), Reply(now, seg), now, unclean_shutdown(now, FALSE) }
  BY DEF conn_segment_received, Heard
<1>2. Advances(x, c, c, m) BY FollowsItself, FollowsAdvances
<1>3. Advances(x, c, idle, m)
  <2>1. /\ Has(idle, ConnectionFields) /\ idle.sender = c.sender /\ idle.receiver = c.receiver
        /\ idle.segments_out = c.segments_out /\ idle.need_send_rst = c.need_send_rst
    BY DEF ConnectionOK, Has, ConnectionFields
  <2>2. c.need_send_rst \in BOOLEAN BY DEF ConnectionOK
  <2> HIDE DEF idle
  <2>3. Follows(x, c, idle) BY <2>1, <2>2, SameParts
  <2> QED BY <2>3, FollowsAdvances
<1>4. Advances(x, c, now, m) BY HeardOK
<1> HIDE DEF now, idle, t
<1>5. ConnectionOK(x, now) BY <1>4 DEF Advances
<1>6. Follows(x, now, connect(now)) BY <1>5, SegmentSendsOK DEF connect
<1>7. Follows(x, now, Reply(now, seg)) BY <1>5, ReplyOK
<1>8. Follows(x, now, unclean_shutdown(now, FALSE)) BY <1>5, UncleanShutdownOK
<1>9. /\ Advances(x, c, connect(now), m) /\ Advances(x, c, Reply(now, seg), m)
       /\ Advances(x, c, unclean_shutdown(now, FALSE), m)
  BY <1>4, <1>6, <1>7, <1>8, AdvancesThenFollows
<1>10. Advances(x, c, t, m) BY <1>1, <1>2, <1>3, <1>4, <1>9
<1> QED BY <1>10 DEF t

-----------------------------------------------------------------------------
\* Time, and the end of a connection.  What time does before anything is sent.
LEMMA TickedOK ==
  ASSUME NEW x \in Side, NEW c, ConnectionOK(x, c), NEW ms
  PROVE  LET t == [ c EXCEPT !.time_since_last_segment_received = @ + ms,
                             !.sender = tick(@, ms) ]
         IN  /\ Follows(x, c, t) /\ t.sender = tick(c.sender, ms) /\ t.receiver = c.receiver
             /\ t.need_send_rst = c.need_send_rst /\ t.segments_out = c.segments_out
             /\ t.syn_sended = c.syn_sended
<1> DEFINE time == c.time_since_last_segment_received + ms
           s == tick(c.sender, ms)
           d == [ c EXCEPT !.sender = s ]
           t == [ c EXCEPT !.time_since_last_segment_received = time, !.sender = s ]
<1>1. t = [ c EXCEPT !.time_since_last_segment_received = @ + ms, !.sender = tick(@, ms) ]
  OBVIOUS
<1>2. SenderOK(x, s) /\ s.receive_ack = c.sender.receive_ack
  <2>1. SenderOK(x, c.sender) BY DEF ConnectionOK
  <2>2. SenderOK(x, s) /\ SameStream(c.sender, s) BY <2>1, TickOK
  <2> QED BY <2>2 DEF SameStream
<1> HIDE DEF s, time
<1>3. Follows(x, c, d) BY <1>2, OtherSender
<1>4. ConnectionOK(x, d) BY <1>3 DEF Follows
<1>5. /\ Has(t, ConnectionFields) /\ t.sender = s /\ d.sender = s
      /\ t.receiver = c.receiver /\ d.receiver = c.receiver
      /\ t.segments_out = c.segments_out /\ d.segments_out = c.segments_out
      /\ t.need_send_rst = c.need_send_rst /\ t.syn_sended = c.syn_sended
  BY DEF ConnectionOK, Has, ConnectionFields
<1>6. c.need_send_rst \in BOOLEAN BY DEF ConnectionOK
<1> HIDE DEF t, d
<1>7. Follows(x, d, t) BY <1>4, <1>5, <1>6, SameParts
<1>8. Follows(x, c, t) BY <1>3, <1>7, FollowsTwice
<1> QED BY <1>1, <1>5, <1>8 DEF s

\* TCPConnection::tick.
LEMMA ConnTickOK ==
  ASSUME NEW x \in Side, NEW c, ConnectionOK(x, c), NEW ms
  PROVE  Follows(x, c, conn_tick(c, ms))
<1> DEFINE t == conn_tick(c, ms)
           ticked == [ c EXCEPT !.time_since_last_segment_received = @ + ms,
                                !.sender = tick(@, ms) ]
           u == unclean_shutdown(ticked, TRUE)
<1>1. \/ t = c \/ t = segment_sends(ticked, FALSE) \/ t = segment_sends(u, FALSE)
  BY DEF conn_tick
<1>2. Follows(x, c, ticked) BY TickedOK
<1> HIDE DEF t, u, ticked
<1>3. ConnectionOK(x, ticked) BY <1>2 DEF Follows
<1>4. Follows(x, c, segment_sends(ticked, FALSE))
  <2>1. Follows(x, ticked, segment_sends(ticked, FALSE)) BY <1>3, SegmentSendsOK
  <2> QED BY <1>2, <2>1, FollowsTwice
<1>5. Follows(x, c, u)
  <2>1. Follows(x, ticked, u) BY <1>3, UncleanShutdownOK DEF u
  <2> QED BY <1>2, <2>1, FollowsTwice
<1>6. ConnectionOK(x, u) BY <1>5 DEF Follows
<1>7. Follows(x, c, segment_sends(u, FALSE))
  <2>1. Follows(x, u, segment_sends(u, FALSE)) BY <1>6, SegmentSendsOK
  <2> QED BY <1>5, <2>1, FollowsTwice
<1>8. Follows(x, c, t) BY <1>1, <1>4, <1>7, FollowsItself
<1> QED BY <1>8 DEF t

\* Segments leave the channel.
LEMMA OtherQueue ==
  ASSUME NEW x \in Side, NEW c, ConnectionOK(x, c),
         NEW q \in Seq(Truthful(x, Reached(c.receiver)))
  PROVE  LET t == [ c EXCEPT !.segments_out = q ]
         IN  Follows(x, c, t) /\ t.sender = c.sender /\ t.receiver = c.receiver
<1> DEFINE t == [ c EXCEPT !.segments_out = q ]
<1>1. /\ Has(t, ConnectionFields) /\ t.sender = c.sender /\ t.receiver = c.receiver
      /\ t.segments_out = q /\ t.need_send_rst = c.need_send_rst
  BY DEF ConnectionOK, Has, ConnectionFields
<1> HIDE DEF t
<1>2. ConnectionOK(x, t) BY <1>1 DEF ConnectionOK
<1>3. Follows(x, c, t) BY <1>1, <1>2, SameReceiver
<1> QED BY <1>1, <1>3 DEF t

\* A queue without one of its elements.
LEMMA OneTaken ==
  ASSUME NEW S, NEW q \in Seq(S), NEW k \in 1..Len(q)
  PROVE  SubSeq(q, 1, k - 1) \o SubSeq(q, k + 1, Len(q)) \in Seq(S)
<1>1. Len(q) \in Nat /\ k \in Nat BY LenProperties
<1>2. SubSeq(q, 1, k - 1) \in Seq(S) BY <1>1, SubSeqProperties
<1>3. SubSeq(q, k + 1, Len(q)) \in Seq(S) BY <1>1, SubSeqProperties
<1> QED BY <1>2, <1>3, ConcatProperties

\* The destructor.
LEMMA DestructOK ==
  ASSUME NEW x \in Side, NEW c, ConnectionOK(x, c)
  PROVE  Follows(x, c, destruct(c))
<1> DEFINE u == IF c.active THEN unclean_shutdown(c, TRUE) ELSE c
           none == <<>>
<1>1. Follows(x, c, u)
  <2>1. Follows(x, c, unclean_shutdown(c, TRUE)) BY UncleanShutdownOK
  <2>2. Follows(x, c, c) BY FollowsItself
  <2> QED BY <2>1, <2>2
<1>2. destruct(c) = [ u EXCEPT !.segments_out = none ] BY DEF destruct
<1>3. none \in Seq(Truthful(x, Reached(u.receiver))) BY EmptySeq
<1> HIDE DEF u, none
<1>4. ConnectionOK(x, u) BY <1>1 DEF Follows
<1>5. Follows(x, u, [ u EXCEPT !.segments_out = none ]) BY <1>3, <1>4, OtherQueue
<1> QED BY <1>1, <1>2, <1>5, FollowsTwice

-----------------------------------------------------------------------------
\* The connection that begins.
LEMMA NewConnectionOK ==
  ASSUME NEW x \in Side
  PROVE  LET c == NewTCPConnection(Isn[x])
         IN  /\ ConnectionOK(x, c) /\ inbound_stream(c).readden = 0
             /\ c.sender.receive_ack = 0 /\ Reached(c.receiver) = 0
<1> DEFINE c == NewTCPConnection(Isn[x])
           s == NewTCPSender(Isn[x])
           r == NewTCPReceiver
           p == NewReassembler
           b == NewByteStream
           none == <<>>
<1>1. /\ Passes(x, b) /\ Passes(Other(x), b) /\ b.written = 0 /\ b.readden = 0
      /\ b.buffer = none /\ b.input_end = FALSE /\ Other(x) \in Side
  BY NewPasses, SideFacts
<1>2. none \in Seq(Pieces(x)) /\ none \in Seq(Truthful(x, 0)) /\ Len(none) = 0
  BY EmptySeq
<1>3. /\ Has(p, ReassemblerFields) /\ p.stored = none /\ p.unassembled = 0 /\ p.head_index = 0
      /\ p.eof_flag = FALSE /\ p.output = b
  BY DEF NewReassembler, Has, ReassemblerFields
<1>4. /\ Has(r, ReceiverFields) /\ r.ackno = 0 /\ r.isn = 0 /\ r.syn = FALSE /\ r.fin = FALSE
      /\ r.fin_not_count = TRUE /\ r.reassembler = p
  BY DEF NewTCPReceiver, Has, ReceiverFields
<1>5. /\ Has(s, SenderFields) /\ s.isn = Isn[x] /\ s.syn = FALSE /\ s.fin = FALSE
      /\ s.stream = b /\ s.next_seqno = 0 /\ s.receive_ack = 0 /\ s.checkpoint = 0
      /\ s.window_size = 0 /\ s.segments_in_flight = none /\ s.segments_out = none
  BY DEF NewTCPSender, Has, SenderFields
<1>6. /\ Has(c, ConnectionFields) /\ c.sender = s /\ c.receiver = r
      /\ c.need_send_rst = FALSE /\ c.segments_out = none
  BY DEF NewTCPConnection, Has, ConnectionFields
<1>7. DOMAIN none = {} /\ Keeps(Other(x), none)
  <2>1. DOMAIN none = {} OBVIOUS
  <2>2. none = [ i \in DOMAIN none |-> none[i] ] OBVIOUS
  <2> QED BY <2>1, <2>2 DEF Keeps
<1> HIDE DEF c, s, r, p, b, none
<1>8. stream_out(r) = b BY <1>3, <1>4 DEF stream_out
<1>9. Reached(r) = 0 BY <1>1, <1>4, <1>8 DEF Reached, Bit
<1>10. Assembles(Other(x), p)
  <2>1. RecvCapacity \in Nat BY TCPConfigAssumption
  <2>2. Passes(Other(x), p.output) /\ Keeps(Other(x), p.stored) BY <1>1, <1>3, <1>7
  <2>3. p.output.buffer = none /\ p.head_index = p.output.written BY <1>1, <1>3
  <2>4. Len(p.output.buffer) <= RecvCapacity BY <1>2, <2>1, <2>3
  <2>5. p.eof_flag \in BOOLEAN
    <3>1. p.eof_flag = FALSE BY <1>3
    <3> QED BY <3>1
  <2>6. p.unassembled \in Int
    <3>1. p.unassembled = 0 BY <1>3
    <3> QED BY <3>1
  <2> QED BY <1>3, <2>2, <2>3, <2>4, <2>5, <2>6 DEF Assembles
<1>11. ReceiverOK(Other(x), r)
  BY <1>1, <1>3, <1>4, <1>7, <1>8, <1>10 DEF ReceiverOK
<1>12. SenderOK(x, s)
  <2>1. SenderTyped(x, s)
    <3>1. s.window_size \in 0..RecvCapacity BY <1>5, TCPConfigAssumption
    <3> QED BY <1>2, <1>5, <3>1 DEF SenderTyped
  <2>2. s.syn \in BOOLEAN /\ s.fin \in BOOLEAN /\ Passes(x, s.stream) BY <1>1, <1>5
  <2>3. s.stream.readden = 0 BY <1>1, <1>5
  <2>4. s.next_seqno = Bit(s.syn) + s.stream.readden + Bit(s.fin)
    BY <1>5, <2>3 DEF Bit
  <2>5. s.receive_ack = s.checkpoint /\ s.checkpoint \in 0..s.next_seqno BY <1>5
  <2>6. ~s.fin BY <1>5
  <2>7. EndsWhole(x, s.stream) BY <1>1, <1>5 DEF EndsWhole
  <2> QED BY <2>1, <2>2, <2>3, <2>4, <2>5, <2>6, <2>7 DEF SenderOK
<1>13. ConnectionOK(x, c) BY <1>2, <1>6, <1>9, <1>11, <1>12 DEF ConnectionOK
<1>14. inbound_stream(c).readden = 0 BY <1>1, <1>6, <1>8 DEF inbound_stream
<1> QED BY <1>5, <1>6, <1>9, <1>13, <1>14 DEF c

-----------------------------------------------------------------------------
\* The two sides.
LEMMA BothFollow ==
  ASSUME NEW f, NEW got, InvOf(f, got), NEW g, g = [ x \in Side |-> g[x] ],
         \A x \in Side : Follows(x, f[x], g[x])
  PROVE  InvOf(g, got)
<1>1. ASSUME NEW x \in Side
      PROVE  /\ ConnectionOK(x, g[x])
             /\ got[x] = Part(Other(x), 0, inbound_stream(g[x]).readden)
             /\ g[x].sender.receive_ack <= Reached(g[Other(x)].receiver)
  <2> DEFINE y == Other(x)
  <2>1. y \in Side BY SideFacts
  <2> HIDE DEF y
  <2>2. ConnectionOK(x, f[x]) /\ ConnectionOK(y, f[y]) BY <2>1 DEF InvOf
  <2>3. Follows(x, f[x], g[x]) /\ Follows(y, f[y], g[y]) BY <2>1
  <2>4. ConnectionOK(x, g[x]) /\ ConnectionOK(y, g[y]) BY <2>3 DEF Follows
  <2>5. got[x] = Part(Other(x), 0, inbound_stream(g[x]).readden) BY <2>3 DEF InvOf, Follows
  <2>6. /\ Reached(f[y].receiver) \in Nat /\ Reached(g[y].receiver) \in Nat
        /\ f[x].sender.receive_ack \in Nat
    BY <2>1, <2>2, <2>4, ConnectionFacts
  <2>7. f[x].sender.receive_ack <= Reached(f[y].receiver) BY DEF InvOf, y
  <2>8. /\ g[x].sender.receive_ack = f[x].sender.receive_ack
        /\ Reached(f[y].receiver) <= Reached(g[y].receiver)
    BY <2>3 DEF Follows
  <2>9. g[x].sender.receive_ack <= Reached(g[y].receiver) BY <2>6, <2>7, <2>8
  <2> QED BY <2>4, <2>5, <2>9 DEF y
<1>2. got = [ x \in Side |-> got[x] ] BY DEF InvOf
<1> QED BY <1>1, <1>2 DEF InvOf

\* One side does something, the other nothing.
LEMMA OneFollows ==
  ASSUME NEW f, NEW got, InvOf(f, got), NEW x \in Side, NEW c, Follows(x, f[x], c)
  PROVE  InvOf([ f EXCEPT ![x] = c ], got)
<1> DEFINE g == [ f EXCEPT ![x] = c ]
<1>1. f = [ z \in Side |-> f[z] ] BY DEF InvOf
<1>2. DOMAIN f = Side BY <1>1
<1>3. g = [ z \in Side |-> g[z] ] /\ g[x] = c /\ \A z \in Side : z # x => g[z] = f[z]
  BY <1>2
<1> HIDE DEF g
<1>4. ASSUME NEW z \in Side PROVE Follows(z, f[z], g[z])
  <2>1. ConnectionOK(z, f[z]) BY DEF InvOf
  <2>2. CASE z = x BY <1>3, <2>2
  <2>3. CASE z # x
    <3>1. g[z] = f[z] BY <1>3, <2>3
    <3>2. Follows(z, f[z], f[z]) BY <2>1, FollowsItself
    <3> QED BY <3>1, <3>2
  <2> QED BY <2>2, <2>3
<1>5. InvOf(g, got) BY <1>3, <1>4, BothFollow
<1> QED BY <1>5 DEF g

\* A segment arrives at y.
LEMMA OneArrives ==
  ASSUME ShortStreams, NEW f, NEW got, InvOf(f, got), NEW y \in Side,
         NEW seg \in Truthful(Other(y), Reached(f[Other(y)].receiver))
  PROVE  InvOf([ f EXCEPT ![y] = conn_segment_received(f[y], seg) ], got)
<1> DEFINE x == Other(y)
           m == Reached(f[x].receiver)
           c == conn_segment_received(f[y], seg)
           g == [ f EXCEPT ![y] = c ]
<1>1. x \in Side /\ x # y /\ Other(x) = y /\ \A z \in Side : z = x \/ z = y BY SideFacts
<1>2. f = [ z \in Side |-> f[z] ] /\ got = [ z \in Side |-> got[z] ] BY DEF InvOf
<1>3. /\ ConnectionOK(x, f[x]) /\ ConnectionOK(y, f[y])
      /\ f[y].sender.receive_ack <= m /\ f[x].sender.receive_ack <= Reached(f[y].receiver)
      /\ got[y] = Part(x, 0, inbound_stream(f[y]).readden)
      /\ got[x] = Part(y, 0, inbound_stream(f[x]).readden)
  BY <1>1 DEF InvOf
<1>4. seg \in Truthful(Other(y), m) OBVIOUS
<1> HIDE DEF x, m, c, g
<1>5. m \in 0..(Len(Data[y]) + 2)
  <2>1. Reached(f[x].receiver) \in 0..(Len(Data[Other(x)]) + 2) BY <1>1, <1>3, ConnectionFacts
  <2> QED BY <1>1, <2>1 DEF m
<1>6. Advances(y, f[y], c, m) BY <1>3, <1>4, <1>5, ConnReceivedOK DEF c
<1>7. DOMAIN f = Side BY <1>2
<1>8. g = [ z \in Side |-> g[z] ] /\ g[y] = c /\ g[x] = f[x] BY <1>1, <1>7 DEF g
<1>9. /\ ConnectionOK(y, c) /\ c.sender.receive_ack <= m
      /\ Reached(f[y].receiver) <= Reached(c.receiver)
      /\ inbound_stream(c).readden = inbound_stream(f[y]).readden
  BY <1>6 DEF Advances
<1>10. /\ ConnectionOK(y, g[y]) /\ got[y] = Part(Other(y), 0, inbound_stream(g[y]).readden)
       /\ g[y].sender.receive_ack <= Reached(g[Other(y)].receiver)
  BY <1>3, <1>8, <1>9 DEF m, x
<1>11. /\ ConnectionOK(x, g[x]) /\ got[x] = Part(Other(x), 0, inbound_stream(g[x]).readden)
       /\ g[x].sender.receive_ack <= Reached(g[Other(x)].receiver)
  <2>1. /\ f[x].sender.receive_ack \in Nat /\ Reached(f[y].receiver) \in Nat
        /\ Reached(c.receiver) \in Nat
    BY <1>1, <1>3, <1>9, ConnectionFacts
  <2>2. f[x].sender.receive_ack <= Reached(c.receiver) BY <1>3, <1>9, <2>1
  <2> QED BY <1>1, <1>3, <1>8, <2>2
<1>12. InvOf(g, got) BY <1>1, <1>2, <1>8, <1>10, <1>11 DEF InvOf
<1> QED BY <1>12 DEF g, c

-----------------------------------------------------------------------------
\* The steps.
LEMMA InitInv == Init => Inv
<1> SUFFICES ASSUME Init PROVE Inv OBVIOUS
<1>1. conn = [ x \in Side |-> NewTCPConnection(Isn[x]) ] BY DEF Init
<1> DEFINE none == <<>>
<1>2. received = [ x \in Side |-> none ] BY DEF Init
<1> HIDE DEF none
<1>3. conn = [ x \in Side |-> conn[x] ] /\ received = [ x \in Side |-> received[x] ]
  BY <1>1, <1>2
<1>4. ASSUME NEW x \in Side
      PROVE  /\ ConnectionOK(x, conn[x])
             /\ received[x] = Part(Other(x), 0, inbound_stream(conn[x]).readden)
             /\ conn[x].sender.receive_ack <= Reached(conn[Other(x)].receiver)
  <2> DEFINE y == Other(x)
  <2>1. y \in Side BY SideFacts
  <2> HIDE DEF y
  <2>2. conn[x] = NewTCPConnection(Isn[x]) /\ conn[y] = NewTCPConnection(Isn[y])
    BY <1>1, <2>1
  <2>3. /\ ConnectionOK(x, conn[x]) /\ inbound_stream(conn[x]).readden = 0
        /\ conn[x].sender.receive_ack = 0 /\ Reached(conn[y].receiver) = 0
    BY <2>1, <2>2, NewConnectionOK
  <2>4. none = Part(y, 0, 0)
    <3>1. Len(Data[y]) \in Nat BY <2>1, DataFacts
    <3>2. Part(y, 0, 0) \in Seq(Byte) /\ Len(Part(y, 0, 0)) = 0 BY <2>1, <3>1, PartFacts
    <3>3. none \in Seq(Byte) /\ Len(none) = 0 BY EmptySeq DEF none
    <3> QED BY <3>2, <3>3, SeqEqual
  <2>5. received[x] = Part(y, 0, inbound_stream(conn[x]).readden) BY <1>2, <2>3, <2>4
  <2>6. conn[x].sender.receive_ack <= Reached(conn[y].receiver) BY <2>3
  <2> QED BY <2>3, <2>5, <2>6 DEF y
<1> QED BY <1>3, <1>4 DEF Inv, InvOf

\* A step that is a call on one side.
LEMMA OneCall ==
  ASSUME Inv, NEW x \in Side, NEW c, Follows(x, conn[x], c), conn' = [ conn EXCEPT ![x] = c ],
         received' = received
  PROVE  Inv'
<1>1. InvOf([ conn EXCEPT ![x] = c ], received) BY OneFollows DEF Inv
<1> QED BY <1>1 DEF Inv

\* One lemma for each action.  The application opens the connection.
LEMMA ConnectInv ==
  ASSUME Inv, NEW x \in Side, Connect(x)
  PROVE  Inv'
<1>1. ConnectionOK(x, conn[x]) BY DEF Inv, InvOf
<1>2. Follows(x, conn[x], connect(conn[x])) BY <1>1, SegmentSendsOK DEF connect
<1>3. conn' = [ conn EXCEPT ![x] = connect(conn[x]) ] /\ received' = received
  BY DEF Connect
<1> QED BY <1>2, <1>3, OneCall

\* The application writes.
LEMMA WriteInv ==
  ASSUME Inv, NEW x \in Side, NEW n \in 1..Len(Data[x]), Write(x, n)
  PROVE  Inv'
<1> DEFINE data == Part(x, conn[x].sender.stream.written, n)
           c == conn_write(conn[x], data)
<1>1. ConnectionOK(x, conn[x]) BY DEF Inv, InvOf
<1>2. /\ conn[x].sender.stream.written + n <= Len(Data[x])
      /\ n <= remaining_outbound_capacity(conn[x]) /\ n \in Nat
      /\ ~conn[x].sender.stream.input_end
  BY DataFacts DEF Write, MayWrite
<1>3. Follows(x, conn[x], c) BY <1>1, <1>2, WriteOK
<1>4. conn' = [ conn EXCEPT ![x] = c ] /\ received' = received BY DEF Write, Part
<1> HIDE DEF c
<1> QED BY <1>3, <1>4, OneCall

\* The application ends its stream.
LEMMA EndInputStreamInv ==
  ASSUME Inv, NEW x \in Side, EndInputStream(x)
  PROVE  Inv'
<1>1. /\ ConnectionOK(x, conn[x]) /\ conn[x].sender.stream.written = Len(Data[x])
  BY DEF Inv, InvOf, EndInputStream, MayEnd
<1>2. Follows(x, conn[x], end_input_stream(conn[x])) BY <1>1, EndInputOK
<1>3. conn' = [ conn EXCEPT ![x] = end_input_stream(conn[x]) ] /\ received' = received
  BY DEF EndInputStream
<1> QED BY <1>2, <1>3, OneCall

\* The application reads what has arrived.
LEMMA ReadInv ==
  ASSUME Inv, NEW x \in Side, Read(x)
  PROVE  Inv'
<1> DEFINE y == Other(x)
           b == inbound_stream(conn[x]).buffer
           i == inbound_stream(conn[x]).readden
           n == Len(b)
           c == [ conn[x] EXCEPT !.receiver.reassembler = PopOutput(@, n) ]
           all == received[x] \o b
<1>1. y \in Side /\ y # x /\ Other(y) = x /\ \A z \in Side : z = x \/ z = y BY SideFacts
<1>2. conn = [ z \in Side |-> conn[z] ] /\ received = [ z \in Side |-> received[z] ]
  BY DEF Inv, InvOf
<1>3. /\ ConnectionOK(x, conn[x]) /\ ConnectionOK(y, conn[y])
      /\ conn[x].sender.receive_ack <= Reached(conn[y].receiver)
      /\ conn[y].sender.receive_ack <= Reached(conn[x].receiver)
      /\ received[x] = Part(y, 0, i)
      /\ received[y] = Part(x, 0, inbound_stream(conn[y]).readden)
  BY <1>1 DEF Inv, InvOf
<1>4. conn' = [ conn EXCEPT ![x] = c ]
  BY DEF Read
<1>5. received' = [ received EXCEPT ![x] = all ] BY DEF Read
<1>6. /\ ConnectionOK(x, c) /\ c.sender = conn[x].sender
      /\ Reached(c.receiver) = Reached(conn[x].receiver)
      /\ inbound_stream(c).readden = i + n
  BY <1>3, ReadOK
<1> HIDE DEF c
<1>7. all = Part(y, 0, i + n)
  <2>1. Passes(y, inbound_stream(conn[x]))
    <3>1. ReceiverOK(y, conn[x].receiver) BY <1>3, ConnectionFacts
    <3> QED BY <1>1, <3>1, ReceiverFacts DEF inbound_stream
  <2>2. /\ i \in Nat /\ n \in Nat /\ b = Part(y, i, n) /\ 0 + i + n <= Len(Data[y])
    BY <1>1, <2>1, PassesFacts
  <2>3. 0 \in Nat /\ 0 + i = i BY <2>2
  <2> HIDE DEF b, i, n
  <2>4. Part(y, 0, i) \o Part(y, 0 + i, n) = Part(y, 0, i + n)
    BY <1>1, <2>2, <2>3, PartsJoin
  <2> QED BY <1>3, <2>2, <2>3, <2>4
<1> HIDE DEF all, i, n, y
<1>8. DOMAIN conn = Side /\ DOMAIN received = Side BY <1>2
<1>9. /\ conn' = [ z \in Side |-> conn'[z] ] /\ conn'[x] = c /\ conn'[y] = conn[y]
      /\ received' = [ z \in Side |-> received'[z] ] /\ received'[x] = all
      /\ received'[y] = received[y]
  BY <1>1, <1>4, <1>5, <1>8
<1>10. Other(x) = y BY DEF y
<1>11. /\ ConnectionOK(x, conn'[x])
       /\ received'[x] = Part(Other(x), 0, inbound_stream(conn'[x]).readden)
       /\ conn'[x].sender.receive_ack <= Reached(conn'[Other(x)].receiver)
  BY <1>3, <1>6, <1>7, <1>9, <1>10
<1>12. /\ ConnectionOK(y, conn'[y])
       /\ received'[y] = Part(Other(y), 0, inbound_stream(conn'[y]).readden)
       /\ conn'[y].sender.receive_ack <= Reached(conn'[Other(y)].receiver)
  BY <1>1, <1>3, <1>6, <1>9
<1>13. InvOf(conn', received') BY <1>1, <1>9, <1>11, <1>12 DEF InvOf
<1> QED BY <1>13 DEF Inv

\* A segment arrives, in order or not, and leaves the channel unless it is duplicated.
LEMMA ArrivesInv ==
  ASSUME ShortStreams, Inv, NEW x \in Side, NEW k \in 1..Len(conn[x].segments_out),
         NEW copied \in BOOLEAN, Arrives(x, k, copied)
  PROVE  Inv'
<1> DEFINE q == conn[x].segments_out
           seg == q[k]
           rest == SubSeq(q, 1, k - 1) \o SubSeq(q, k + 1, Len(q))
           less == [ conn[x] EXCEPT !.segments_out = rest ]
           left == IF copied THEN conn ELSE [ conn EXCEPT ![x] = less ]
           y == Other(x)
           T == Truthful(x, Reached(conn[x].receiver))
<1>1. y \in Side /\ y # x /\ Other(y) = x BY SideFacts
<1>2. InvOf(conn, received) /\ ConnectionOK(x, conn[x]) BY DEF Inv, InvOf
<1>3. conn' = IF y \in aborted THEN left
              ELSE [ left EXCEPT ![y] = conn_segment_received(left[y], seg) ]
  BY DEF Arrives
<1>4. received' = received BY DEF Arrives
<1>5. q \in Seq(T) BY <1>2 DEF ConnectionOK
<1> HIDE DEF q, T
<1>6. seg \in T
  <2>1. k \in 1..Len(q) BY DEF q
  <2> QED BY <1>5, <2>1, ElementOfSeq
<1>7. rest \in Seq(T)
  <2>1. k \in 1..Len(q) BY DEF q
  <2> QED BY <1>5, <2>1, OneTaken
<1> HIDE DEF seg, rest
<1>8. Follows(x, conn[x], less) /\ less.receiver = conn[x].receiver
  BY <1>2, <1>7, OtherQueue, ZenonT(40) DEF T
<1> HIDE DEF less
<1>9. InvOf(left, received)
  <2>1. InvOf([ conn EXCEPT ![x] = less ], received) BY <1>2, <1>8, OneFollows
  <2> QED BY <1>2, <2>1
<1>10. left[x].receiver = conn[x].receiver
  <2>1. conn = [ z \in Side |-> conn[z] ] BY <1>2 DEF InvOf
  <2>2. DOMAIN conn = Side BY <2>1
  <2> QED BY <1>8, <2>2
<1> HIDE DEF left
<1>11. seg \in Truthful(Other(y), Reached(left[Other(y)].receiver))
  BY <1>1, <1>6, <1>10 DEF T
<1> HIDE DEF y
<1>12. InvOf([ left EXCEPT ![y] = conn_segment_received(left[y], seg) ], received)
  BY <1>1, <1>9, <1>11, OneArrives
<1>13. InvOf(conn', received') BY <1>3, <1>4, <1>9, <1>12
<1> QED BY <1>13 DEF Inv

\* A segment is lost.
LEMMA LoseInv ==
  ASSUME Inv, NEW x \in Side, Lose(x)
  PROVE  Inv'
<1> DEFINE q == conn[x].segments_out
           T == Truthful(x, Reached(conn[x].receiver))
           t == Tail(q)
           c == [ conn[x] EXCEPT !.segments_out = t ]
<1>1. ConnectionOK(x, conn[x]) BY DEF Inv, InvOf
<1>2. q \in Seq(T) /\ q # <<>> BY <1>1 DEF ConnectionOK, Lose, UnderWay
<1>3. conn' = [ conn EXCEPT ![x] = c ] /\ received' = received BY DEF Lose
<1>4. t \in Seq(T)
  <2> HIDE DEF q, T
  <2> QED BY <1>2, HeadTailProperties
<1> HIDE DEF t
<1>5. Follows(x, conn[x], c) BY <1>1, <1>4, OtherQueue
<1> HIDE DEF c
<1> QED BY <1>3, <1>5, OneCall

\* Time passes.
LEMMA TickInv ==
  ASSUME Inv, Tick
  PROVE  Inv'
<1> DEFINE g == [ x \in Side |-> IF x \in aborted THEN conn[x] ELSE conn_tick(conn[x], TickSize) ]
<1>1. conn' = g /\ received' = received BY DEF Tick
<1>2. ASSUME NEW x \in Side PROVE Follows(x, conn[x], g[x])
  <2>1. ConnectionOK(x, conn[x]) BY DEF Inv, InvOf
  <2>2. Follows(x, conn[x], conn_tick(conn[x], TickSize)) BY <2>1, ConnTickOK
  <2>3. Follows(x, conn[x], conn[x]) BY <2>1, FollowsItself
  <2> QED BY <2>2, <2>3
<1>3. g = [ x \in Side |-> g[x] ] OBVIOUS
<1> HIDE DEF g
<1>4. InvOf(g, received) BY <1>2, <1>3, BothFollow DEF Inv
<1> QED BY <1>1, <1>4 DEF Inv

\* An owner drops its connection.
LEMMA AbortInv ==
  ASSUME Inv, NEW x \in Side, Abort(x)
  PROVE  Inv'
<1>1. ConnectionOK(x, conn[x]) BY DEF Inv, InvOf
<1>2. Follows(x, conn[x], destruct(conn[x])) BY <1>1, DestructOK
<1>3. conn' = [ conn EXCEPT ![x] = destruct(conn[x]) ] /\ received' = received
  BY DEF Abort
<1> QED BY <1>2, <1>3, OneCall

\* Every step preserves the invariant.
LEMMA StepInv == ShortStreams /\ Inv /\ [Next]_vars => Inv'
<1> SUFFICES ASSUME ShortStreams, Inv, [Next]_vars PROVE Inv' OBVIOUS
<1>1. CASE Tick BY <1>1, TickInv
<1>2. ASSUME NEW x \in Side, Connect(x) PROVE Inv' BY <1>2, ConnectInv
<1>3. ASSUME NEW x \in Side, NEW n \in 1..Len(Data[x]), Write(x, n) PROVE Inv'
  BY <1>3, WriteInv
<1>4. ASSUME NEW x \in Side, EndInputStream(x) PROVE Inv' BY <1>4, EndInputStreamInv
<1>5. ASSUME NEW x \in Side, Read(x) PROVE Inv' BY <1>5, ReadInv
<1>6. ASSUME NEW x \in Side PROVE UnderWay(x) => 1 \in 1..Len(conn[x].segments_out)
  <2> DEFINE q == conn[x].segments_out
  <2>1. q \in Seq(Truthful(x, Reached(conn[x].receiver))) BY DEF Inv, InvOf, ConnectionOK
  <2> HIDE DEF q
  <2>2. q # <<>> => 1 \in 1..Len(q) BY <2>1, EmptySeq, LenProperties
  <2> QED BY <2>2 DEF UnderWay, q
<1>7. ASSUME NEW x \in Side, Deliver(x) PROVE Inv' BY <1>6, <1>7, ArrivesInv DEF Deliver
<1>8. ASSUME NEW x \in Side, NEW k \in 2..Len(conn[x].segments_out), Overtake(x, k) PROVE Inv'
  <2>1. k \in 1..Len(conn[x].segments_out) OBVIOUS
  <2> QED BY <1>8, <2>1, ArrivesInv DEF Overtake
<1>9. ASSUME NEW x \in Side, Duplicate(x) PROVE Inv' BY <1>6, <1>9, ArrivesInv DEF Duplicate
<1>10. ASSUME NEW x \in Side, Lose(x) PROVE Inv' BY <1>10, LoseInv
<1>11. ASSUME NEW x \in Side, Abort(x) PROVE Inv' BY <1>11, AbortInv
<1>12. CASE UNCHANGED vars BY <1>12 DEF vars, Inv
<1> QED BY <1>1, <1>2, <1>3, <1>4, <1>5, <1>7, <1>8, <1>9, <1>10, <1>11, <1>12 DEF Next

\* Whatever the channel does, segments are pieces of the stream they come from, with
\* acknos that were reached, and both ends keep what belongs to the stream.
THEOREM AlwaysTruthful ==
  ASSUME ShortStreams
  PROVE  Spec => []Inv
<1>1. ShortStreams OBVIOUS
<1>2. Inv /\ [Next]_vars => Inv' BY <1>1, StepInv
<1> QED BY InitInv, <1>2, PTL DEF Spec

\* What was read and what can be read are the bytes written so far.
LEMMA GotIsPart ==
  ASSUME Inv, NEW x \in Side
  PROVE  /\ Got(x) = Part(Other(x), 0, inbound_stream(conn[x]).written)
         /\ inbound_stream(conn[x]).written \in 0..Len(Data[Other(x)])
<1> DEFINE y == Other(x)
           f == inbound_stream(conn[x])
           i == f.readden
           n == Len(f.buffer)
<1>1. ConnectionOK(x, conn[x]) /\ received[x] = Part(y, 0, i) BY DEF Inv, InvOf
<1>2. y \in Side BY SideFacts
<1>3. Passes(y, f)
  <2>1. ReceiverOK(y, conn[x].receiver) BY <1>1, ConnectionFacts
  <2> QED BY <1>2, <2>1, ReceiverFacts DEF inbound_stream
<1>4. Got(x) = received[x] \o f.buffer BY DEF Got
<1> HIDE DEF y, f
<1>5. i \in Nat /\ n \in Nat /\ f.buffer = Part(y, i, n) /\ 0 + i + n <= Len(Data[y])
  BY <1>2, <1>3, PassesFacts
<1>6. Got(x) = Part(y, 0, i + n)
  <2>1. 0 \in Nat /\ 0 + i = i BY <1>5
  <2> HIDE DEF i, n
  <2>2. Part(y, 0, i) \o Part(y, 0 + i, n) = Part(y, 0, i + n)
    BY <1>2, <1>5, <2>1, PartsJoin
  <2> QED BY <1>1, <1>4, <1>5, <2>1, <2>2
<1>7. i + n = f.written /\ f.written \in 0..Len(Data[y]) BY <1>2, <1>3, <1>5, PassesFacts
<1> QED BY <1>6, <1>7 DEF y, f

\* They are a prefix.
LEMMA PrefixFromInv == Inv => DeliveredIsPrefix
<1> SUFFICES ASSUME Inv, NEW x \in Side
             PROVE  /\ Len(Got(x)) <= Len(Data[Other(x)])
                    /\ Got(x) = SubSeq(Data[Other(x)], 1, Len(Got(x)))
  BY DEF DeliveredIsPrefix
<1> DEFINE y == Other(x)
           m == inbound_stream(conn[x]).written
<1>1. Got(x) = Part(y, 0, m) /\ m \in 0..Len(Data[y]) BY GotIsPart
<1>2. y \in Side BY SideFacts
<1> HIDE DEF m, y
<1>3. m \in Nat /\ 0 + m <= Len(Data[y]) /\ 0 + m = m /\ 0 + 1 = 1 BY <1>1
<1>4. Len(Got(x)) = m BY <1>1, <1>2, <1>3, PartFacts
<1>5. Part(y, 0, m) = SubSeq(Data[y], 1, m) BY <1>3 DEF Part
<1> QED BY <1>1, <1>3, <1>4, <1>5 DEF y

\* Whatever the channel does, what arrives at either side is a prefix of what the other sent.
THEOREM AlwaysDeliveredIsPrefix ==
  ASSUME ShortStreams
  PROVE  Spec => []DeliveredIsPrefix
BY AlwaysTruthful, PrefixFromInv, PTL

-----------------------------------------------------------------------------
\* Two senders that agree on stream, window and what is out stop alike.
LEMMA StopsAlike ==
  ASSUME NEW x \in Side, NEW s, SenderOK(x, s), NEW t, SenderOK(x, t), SameLoop(s, t),
         NEW win, Stops(s, win)
  PROVE  Stops(t, win)
<1> DEFINE len == MinOf(Remaining(s, win), MAX_PAYLOAD_SIZE)
           n == MinOf(len, Len(s.stream.buffer))
<1>1. Remaining(t, win) = Remaining(s, win) BY DEF Remaining, SameLoop
<1>2. peek_output(t.stream, len) = peek_output(s.stream, len) BY DEF peek_output, SameLoop
<1>3. ASSUME NEW y, NEW f, Passes(y, f)
      PROVE  /\ pop_output(f, len).input_end = f.input_end
             /\ pop_output(f, len).buffer =
                  SubSeq(f.buffer, MinOf(len, Len(f.buffer)) + 1, Len(f.buffer))
  BY <1>3 DEF pop_output, Passes, Has, StreamFields
<1>4. Passes(x, s.stream) /\ Passes(x, t.stream) BY DEF SenderOK
<1>5. /\ pop_output(t.stream, len).input_end = pop_output(s.stream, len).input_end
      /\ pop_output(t.stream, len).buffer = pop_output(s.stream, len).buffer
  BY <1>3, <1>4 DEF SameLoop
<1> HIDE DEF len
<1>6. ASSUME NEW data PROVE CarriesFin(pop_output(t.stream, len), data, win)
                            <=> CarriesFin(pop_output(s.stream, len), data, win)
  BY <1>5 DEF CarriesFin, eof
<1>7. FillEnds(t, win) <=> FillEnds(s, win) BY <1>1 DEF FillEnds, SameLoop
<1> QED BY <1>1, <1>2, <1>6, <1>7 DEF Stops, len

\* And one has filled its window if the other has.
LEMMA FilledAlike ==
  ASSUME NEW x \in Side, NEW s, SenderOK(x, s), NEW t, SenderOK(x, t), SameLoop(s, t), Filled(s)
  PROVE  Filled(t)
<1> DEFINE win == IF s.window_size > 0 THEN s.window_size ELSE 1
<1>1. Stops(s, win) BY DEF Filled
<1>2. win = IF t.window_size > 0 THEN t.window_size ELSE 1 BY DEF SameLoop
<1> HIDE DEF win
<1>3. Stops(t, win) BY <1>1, StopsAlike
<1> QED BY <1>2, <1>3 DEF Filled

\* A window that is filled gives nothing to send.
LEMMA FilledSendsNothing ==
  ASSUME NEW x \in Side, NEW s, SenderOK(x, s), s.syn, Filled(s)
  PROVE  LET t == fill_window(s)
         IN  /\ t.segments_out = s.segments_out /\ SameLoop(s, t)
<1> DEFINE t == fill_window(s)
           win == IF s.window_size > 0 THEN s.window_size ELSE 1
           zero == s.window_size = 0
           base == [ s EXCEPT !.window_is_zero = zero ]
           passes == Len(s.stream.buffer) + 1
           after[k \in 0..passes] ==
               IF k = 0 THEN base ELSE FillOnce(after[k - 1], win)
<1>1. SenderTyped(x, s) /\ Has(s, SenderFields) /\ Passes(x, s.stream) /\ s.window_size \in Nat
  BY DEF SenderOK, SenderTyped
<1>2. t = after[passes] BY ZenonT(30) DEF fill_window
<1>3. passes \in Nat BY <1>1, PassesFacts
<1>4. win \in Nat BY <1>1
<1>5. Stops(s, win) BY DEF Filled
<1> HIDE DEF passes, win, zero
<1>6. /\ Has(base, SenderFields) /\ base.syn = s.syn /\ base.stream = s.stream
      /\ SameLoop(s, base) /\ base.segments_out = s.segments_out
      /\ base.isn = s.isn /\ base.segments_in_flight = s.segments_in_flight
      /\ base.checkpoint = s.checkpoint
  BY <1>1 DEF Has, SenderFields, SameLoop
<1> HIDE DEF base
<1>7. SenderOK(x, base) BY <1>1, <1>6 DEF SenderOK, SenderTyped, SameLoop
<1>8. Stops(base, win) BY <1>5, <1>6, <1>7, StopsAlike
<1>9. FillOnce(base, win) = base BY <1>4, <1>6, <1>7, <1>8, FillOnceOK
<1>10. PICK f : FillValues(f, passes, base, win) BY <1>3, FillLoop
<1>11. after = [ k \in 0..passes |-> IF k = 0 THEN base ELSE FillOnce(after[k - 1], win) ]
  BY <1>10, ZenonT(30) DEF FillValues
<1> HIDE DEF after
<1> DEFINE S == { k \in 0..passes : after[k] = base }
<1>12. 0 \in S
  <2>1. 0 \in 0..passes BY <1>3
  <2>2. after[0] = base BY <1>11, <2>1
  <2> QED BY <2>1, <2>2
<1>13. ASSUME NEW k \in 0..(passes - 1), k \in S PROVE k + 1 \in S
  <2>1. k + 1 \in 0..passes /\ k + 1 # 0 /\ (k + 1) - 1 = k BY <1>3
  <2>2. after[k + 1] = FillOnce(after[k], win) BY <1>11, <2>1
  <2>3. after[k] = base BY <1>13
  <2> QED BY <1>9, <2>1, <2>2, <2>3
<1> HIDE DEF S
<1>14. \A k \in 0..passes : k \in S BY <1>3, <1>12, <1>13, UpToInduction
<1>15. passes \in S BY <1>3, <1>14
<1>16. t = base BY <1>2, <1>15 DEF S
<1> QED BY <1>6, <1>16

-----------------------------------------------------------------------------
\* A segment without the RST.
Plain == { seg \in Message : ~seg.rst }

\* A connection that has not sent its SYN, and one that has sent what it can.
Unsent(c) ==
    /\ ~c.syn_sended /\ ~c.sender.syn /\ ~c.receiver.syn
    /\ c.sender.segments_in_flight = <<>> /\ c.sender.window_size = 0

UpToDate(c) == c.syn_sended /\ c.sender.syn /\ Filled(c.sender)

\* A connection that no RST has been sent on.
Whole(c) ==
    /\ ~c.need_send_rst /\ c.segments_out \in Seq(Plain)
    /\ c.sender.consecutive_retrans \in 0..MAX_RETX_ATTEMPTS

\* What holds of an active connection between two calls.
Ready(c) ==
    c.active => /\ Whole(c) /\ c.sender.segments_out = <<>>
                /\ Unsent(c) \/ UpToDate(c)

\* What an endpoint that gives up sends.
OnceAtTheEnd(out) ==
    Cardinality({ k \in 1..Len(out) : out[k].rst }) = 1 /\ out[Len(out)].rst

\* A call keeps a connection ready, or gives it up as it should.
Calm(c, t) == Ready(t) /\ (c.active /\ t.need_send_rst => OnceAtTheEnd(t.segments_out))

\* Without the flag, segments go out without the RST, and everything that can go.
LEMMA SendsWhole ==
  ASSUME NEW x \in Side, NEW c, ConnectionOK(x, c), NEW send_syn, send_syn \/ c.syn_sended,
         Whole(c), c.sender.syn \/ c.sender.window_size = 0
  PROVE  LET t == segment_sends(c, send_syn)
         IN  Whole(t) /\ UpToDate(t) /\ t.sender.segments_out = <<>>
<1> DEFINE t == segment_sends(c, send_syn)
           s == fill_window(c.sender)
           queue == s.segments_out
           more == [ k \in 1..Len(queue) |-> Stamped(c, queue[k]) ]
<1>1. SenderOK(x, c.sender) BY DEF ConnectionOK
<1>2. /\ SenderOK(x, s) /\ s.syn /\ SameWindow(c.sender, s) /\ Filled(s)
  BY <1>1, FillWindowOK
<1>3. /\ t.syn_sended /\ t.need_send_rst = c.need_send_rst
      /\ SameLoop(s, t.sender) /\ SameWindow(s, t.sender) /\ t.sender.syn = s.syn
      /\ t.sender.segments_out = <<>> /\ t.segments_out = c.segments_out \o more
  BY Sends
<1>4. SenderOK(x, t.sender)
  <2>1. Follows(x, c, t) BY SegmentSendsOK
  <2> QED BY <2>1 DEF Follows, ConnectionOK
<1> HIDE DEF s, t
<1>5. Filled(t.sender) BY <1>2, <1>3, <1>4, FilledAlike
<1>6. more \in Seq(Plain)
  <2>1. queue \in Seq(Pieces(x)) BY <1>2 DEF SenderOK, SenderTyped
  <2> HIDE DEF queue
  <2> DEFINE n == Len(queue)
  <2>2. n \in Nat BY <2>1, LenProperties
  <2>3. \A k \in 1..n : Stamped(c, queue[k]) \in Plain
    <3> TAKE k \in 1..n
    <3>1. queue[k] \in Pieces(x) BY <2>1, ElementOfSeq
    <3>2. Stamped(c, queue[k]) \in Message BY <3>1, StampedOK DEF Truthful
    <3>3. ~Stamped(c, queue[k]).rst BY DEF Stamped, Whole
    <3> QED BY <3>2, <3>3 DEF Plain
  <2>4. more \in [ 1..n -> Plain ] BY <2>3
  <2> HIDE DEF more, n
  <2> QED BY <2>2, <2>4, SeqDef
<1> HIDE DEF more
<1>7. t.segments_out \in Seq(Plain)
  <2>1. c.segments_out \in Seq(Plain) BY DEF Whole
  <2> QED BY <1>3, <1>6, <2>1, ConcatProperties
<1>8. Whole(t) BY <1>2, <1>3, <1>7 DEF Whole, SameWindow
<1>9. UpToDate(t) BY <1>2, <1>3, <1>5 DEF UpToDate
<1> QED BY <1>3, <1>8, <1>9 DEF t

\* A call that ends in segment_sends leaves a connection ready.
LEMMA SendsReady ==
  ASSUME NEW x \in Side, NEW c, NEW d, ConnectionOK(x, d), NEW send_syn, Whole(d),
         \/ ~send_syn /\ Unsent(d) /\ d.sender.segments_out = <<>>
         \/ (send_syn \/ d.syn_sended) /\ (d.sender.syn \/ d.sender.window_size = 0)
  PROVE  Calm(c, segment_sends(d, send_syn))
<1> DEFINE t == segment_sends(d, send_syn)
<1>1. CASE ~send_syn /\ Unsent(d) /\ d.sender.segments_out = <<>>
  <2>1. t = d BY <1>1 DEF segment_sends, Unsent
  <2> HIDE DEF t
  <2> QED BY <1>1, <2>1 DEF Calm, Ready, Whole, t
<1>2. CASE (send_syn \/ d.syn_sended) /\ (d.sender.syn \/ d.sender.window_size = 0)
  <2>1. Whole(t) /\ UpToDate(t) /\ t.sender.segments_out = <<>> BY <1>2, SendsWhole
  <2> HIDE DEF t
  <2> QED BY <2>1 DEF Calm, Ready, Whole, t
<1> QED BY <1>1, <1>2

\* connect, write and end_input_stream.
LEMMA ConnectCalm ==
  ASSUME NEW x \in Side, NEW c, ConnectionOK(x, c), c.active, Ready(c)
  PROVE  Calm(c, connect(c))
<1>1. Whole(c) /\ (Unsent(c) \/ UpToDate(c)) BY DEF Ready
<1>2. c.sender.syn \/ c.sender.window_size = 0 BY <1>1 DEF Unsent, UpToDate
<1> QED BY <1>1, <1>2, SendsReady DEF connect

\* What the application does to an active connection leaves it ready.
LEMMA CallCalm ==
  ASSUME NEW x \in Side, NEW c, ConnectionOK(x, c), c.active, Ready(c), NEW t, SendsAfter(x, c, t)
  PROVE  Calm(c, t)
<1>1. Whole(c) /\ c.sender.segments_out = <<>> /\ (Unsent(c) \/ UpToDate(c)) BY DEF Ready
<1>2. PICK s, b : /\ SenderOK(x, s) /\ OtherStream(c.sender, b, s)
                  /\ t = segment_sends([ c EXCEPT !.sender = s ], FALSE)
  BY DEF SendsAfter
<1> DEFINE d == [ c EXCEPT !.sender = s ]
<1>3. /\ d.sender = s /\ d.receiver = c.receiver /\ d.syn_sended = c.syn_sended
      /\ d.need_send_rst = c.need_send_rst /\ d.segments_out = c.segments_out
  BY DEF ConnectionOK, Has, ConnectionFields
<1>4. ConnectionOK(x, d)
  <2>1. Follows(x, c, d) BY <1>2, OtherSender DEF OtherStream
  <2> QED BY <2>1 DEF Follows
<1> HIDE DEF d
<1>5. Whole(d) /\ d.sender.segments_out = <<>>
  BY <1>1, <1>2, <1>3 DEF Whole, OtherStream, SameWindow
<1>6. Unsent(c) => Unsent(d) BY <1>2, <1>3 DEF Unsent, OtherStream, SameWindow
<1>7. UpToDate(c) => d.syn_sended /\ d.sender.syn BY <1>2, <1>3 DEF UpToDate, OtherStream
<1>8. Calm(c, segment_sends(d, FALSE)) BY <1>1, <1>4, <1>5, <1>6, <1>7, SendsReady
<1> QED BY <1>2, <1>8 DEF d

\* What a tick changes of a sender.
LEMMA TickLeaves ==
  ASSUME NEW x \in Side, NEW s, SenderOK(x, s), NEW ms
  PROVE  LET t == tick(s, ms)
         IN  /\ SameLoop(s, t) /\ t.syn = s.syn /\ t.segments_in_flight = s.segments_in_flight
             /\ \/ SameWindow(s, t) /\ t.segments_out = s.segments_out
                \/ /\ s.segments_in_flight # <<>>
                   /\ t.consecutive_retrans = s.consecutive_retrans + 1
                   /\ t.segments_out = Append(s.segments_out, Head(s.segments_in_flight))
<1> DEFINE t == tick(s, ms)
           now == s.clock + ms
           queue == s.segments_in_flight
           again == now >= s.retrans_timeout /\ queue # <<>>
           q == Append(s.segments_out, Head(queue))
           n == s.consecutive_retrans + 1
           r == IF s.window_is_zero THEN s.retrans_timeout ELSE 2 * s.retrans_timeout
           on == s.clock_is_counting /\ queue # <<>>
<1>1. Has(s, SenderFields) BY DEF SenderOK, SenderTyped
<1>2. again => t = [ s EXCEPT !.segments_out = q, !.consecutive_retrans = n,
                              !.clock_is_counting = TRUE, !.clock = 0,
                              !.retrans_timeout = r ]
  BY DEF tick
<1>3. ~again => t = [ s EXCEPT !.clock = now, !.clock_is_counting = on ] BY DEF tick
<1>4. again => queue # <<>> OBVIOUS
<1> HIDE DEF t, now, q, n, r, on, again
<1>5. CASE again
  <2>1. /\ SameLoop(s, t) /\ t.syn = s.syn /\ t.segments_in_flight = s.segments_in_flight
        /\ t.consecutive_retrans = n /\ t.segments_out = q
    BY <1>1, <1>2, <1>5, ZenonT(40) DEF Has, SenderFields, SameLoop
  <2> QED BY <1>4, <1>5, <2>1 DEF n, q, t
<1>6. CASE ~again
  <2>1. /\ SameLoop(s, t) /\ t.syn = s.syn /\ t.segments_in_flight = s.segments_in_flight
        /\ SameWindow(s, t) /\ t.segments_out = s.segments_out
    BY <1>1, <1>3, <1>6 DEF Has, SenderFields, SameLoop, SameWindow
  <2> QED BY <2>1 DEF t
<1> QED BY <1>5, <1>6

\* A RST after segments without.
LEMMA LastIsRst ==
  ASSUME NEW q \in Seq(Plain), NEW r \in Message, r.rst, NEW more, more = [ k \in 1..1 |-> r ]
  PROVE  OnceAtTheEnd(q \o more) /\ q \o more \in Seq(Message)
<1> DEFINE out == q \o more
           n == Len(q)
           S == { k \in 1..Len(out) : out[k].rst }
<1>1. q \in Seq(Message)
  <2>1. Plain \subseteq Message BY DEF Plain
  <2> QED BY <2>1, SeqOfSubset
<1>2. more \in Seq(Message) /\ Len(more) = 1 /\ more[1] = r
  <2>1. more \in [ 1..1 -> Message ] OBVIOUS
  <2>2. more \in Seq(Message) BY <2>1, SeqDef
  <2> QED BY <2>1, <2>2, LenProperties
<1>3. /\ out \in Seq(Message) /\ Len(out) = n + 1 /\ n \in Nat
      /\ \A k \in 1..n : out[k] = q[k]
      /\ out[n + 1] = r
  BY <1>1, <1>2, ConcatProperties, LenProperties
<1>4. \A k \in 1..n : ~out[k].rst
  <2>1. \A k \in 1..n : q[k] \in Plain BY ElementOfSeq
  <2> QED BY <1>3, <2>1 DEF Plain
<1> HIDE DEF out, n
<1>5. S = { n + 1 } BY <1>3, <1>4
<1>6. Cardinality(S) = 1 BY <1>5, FS_Singleton
<1> QED BY <1>3, <1>6 DEF OnceAtTheEnd, out

\* The last retransmission goes out with the RST, and nothing after it.
LEMMA GivesUp ==
  ASSUME NEW x \in Side, NEW d, ConnectionOK(x, d), d.need_send_rst, d.syn_sended,
         d.sender.syn, Filled(d.sender), d.segments_out \in Seq(Plain),
         NEW piece \in Pieces(x), d.sender.segments_out = << piece >>, ~d.active
  PROVE  LET t == segment_sends(segment_sends(d, FALSE), FALSE)
         IN  ~t.active /\ OnceAtTheEnd(t.segments_out)
<1> DEFINE u == segment_sends(d, FALSE)
           t == segment_sends(u, FALSE)
           s == fill_window(d.sender)
           r == Stamped(d, piece)
           more == [ k \in 1..1 |-> r ]
           v == fill_window(u.sender)
           none == <<>>
           rest == [ k \in 1..Len(none) |-> Stamped(u, none[k]) ]
<1>1. SenderOK(x, d.sender) BY DEF ConnectionOK
<1>2. s.segments_out = << piece >> /\ SameLoop(d.sender, s) BY <1>1, FilledSendsNothing
<1>3. SenderOK(x, s) /\ s.syn BY <1>1, FillWindowOK
<1>4. Filled(s) BY <1>1, <1>2, <1>3, FilledAlike
<1>5. /\ u.syn_sended /\ (u.active => d.active)
      /\ SameLoop(s, u.sender) /\ u.sender.syn = s.syn /\ u.sender.segments_out = none
      /\ u.segments_out =
           d.segments_out \o [ k \in 1..Len(s.segments_out) |-> Stamped(d, s.segments_out[k]) ]
  BY Sends
<1>6. u.segments_out = d.segments_out \o more
  <2>1. Len(<< piece >>) = 1 /\ << piece >>[1] = piece OBVIOUS
  <2>2. [ k \in 1..1 |-> Stamped(d, << piece >>[k]) ] = more BY <2>1
  <2> QED BY <1>2, <1>5, <2>1, <2>2
<1>7. ConnectionOK(x, u)
  <2>1. Follows(x, d, u) BY SegmentSendsOK
  <2> QED BY <2>1 DEF Follows
<1>8. SenderOK(x, u.sender) BY <1>7 DEF ConnectionOK
<1>9. ~u.active BY <1>5
<1> HIDE DEF u, s
<1>10. Filled(u.sender) BY <1>3, <1>4, <1>5, <1>8, FilledAlike
<1>11. v.segments_out = none BY <1>3, <1>5, <1>8, <1>10, FilledSendsNothing
<1>12. t.segments_out = u.segments_out \o rest /\ (t.active => u.active)
  <2>1. /\ t.active => u.active
        /\ t.segments_out =
             u.segments_out \o [ k \in 1..Len(v.segments_out) |-> Stamped(u, v.segments_out[k]) ]
    BY <1>5, <1>7, Sends, ZenonT(40)
  <2> HIDE DEF v, t, none
  <2> QED BY <1>11, <2>1
<1>13. r \in Message /\ r.rst
  <2>1. r \in Message BY StampedOK DEF Truthful
  <2>2. r.rst BY DEF Stamped
  <2> QED BY <2>1, <2>2
<1> HIDE DEF r, t, v
<1>14. OnceAtTheEnd(u.segments_out) /\ u.segments_out \in Seq(Message)
  BY <1>6, <1>13, LastIsRst
<1>15. u.segments_out \o rest = u.segments_out
  <2>1. rest \in Seq(Message) /\ Len(rest) = 0
    <3>1. Len(none) = 0 BY EmptySeq
    <3>2. rest \in [ 1..0 -> Message ] BY <3>1
    <3>3. rest \in Seq(Message) BY <3>2, SeqDef
    <3> QED BY <3>2, <3>3, LenProperties
  <2> HIDE DEF rest
  <2>2. rest = <<>> BY <2>1, EmptySeq
  <2> QED BY <1>14, <2>2, ConcatEmptySeq
<1> QED BY <1>9, <1>12, <1>14, <1>15 DEF t, u

\* TCPConnection::tick.
LEMMA ConnTickCalm ==
  ASSUME NEW x \in Side, NEW c, ConnectionOK(x, c), Ready(c), NEW ms
  PROVE  Calm(c, conn_tick(c, ms))
<1> DEFINE t == conn_tick(c, ms)
           d == [ c EXCEPT !.time_since_last_segment_received = @ + ms,
                           !.sender = tick(@, ms) ]
           u == unclean_shutdown(d, TRUE)
           late == d.sender.consecutive_retrans > MAX_RETX_ATTEMPTS
<1>1. CASE ~c.active
  <2>1. t = c BY <1>1 DEF conn_tick
  <2> QED BY <1>1, <2>1 DEF Calm
<1>2. CASE c.active
  <2>1. t = IF late THEN segment_sends(u, FALSE) ELSE segment_sends(d, FALSE)
    BY <1>2 DEF conn_tick
  <2>2. Whole(c) /\ c.sender.segments_out = <<>> /\ (Unsent(c) \/ UpToDate(c))
    BY <1>2 DEF Ready
  <2>3. /\ Follows(x, c, d) /\ d.sender = tick(c.sender, ms) /\ d.receiver = c.receiver
        /\ d.need_send_rst = c.need_send_rst /\ d.segments_out = c.segments_out
        /\ d.syn_sended = c.syn_sended
    BY TickedOK
  <2> HIDE DEF d
  <2>4. SenderOK(x, c.sender) /\ ConnectionOK(x, d) /\ SenderOK(x, d.sender)
    BY <2>3 DEF Follows, ConnectionOK
  <2>5. /\ SameLoop(c.sender, d.sender) /\ d.sender.syn = c.sender.syn
        /\ d.sender.segments_in_flight = c.sender.segments_in_flight
    BY <2>3, <2>4, TickLeaves
  <2> DEFINE queue == c.sender.segments_in_flight
             piece == Head(queue)
  <2>6. \/ SameWindow(c.sender, d.sender) /\ d.sender.segments_out = <<>>
        \/ /\ queue # <<>>
           /\ d.sender.consecutive_retrans = c.sender.consecutive_retrans + 1
           /\ d.sender.segments_out = << piece >>
    <3>1. \/ SameWindow(c.sender, d.sender) /\ d.sender.segments_out = c.sender.segments_out
          \/ /\ queue # <<>>
             /\ d.sender.consecutive_retrans = c.sender.consecutive_retrans + 1
             /\ d.sender.segments_out = Append(c.sender.segments_out, piece)
      BY <2>3, <2>4, TickLeaves
    <3>2. Append(<<>>, piece) = << piece >> OBVIOUS
    <3> QED BY <2>2, <3>1, <3>2
  <2>7. c.sender.consecutive_retrans \in Nat /\ MAX_RETX_ATTEMPTS \in Nat
        /\ c.sender.consecutive_retrans <= MAX_RETX_ATTEMPTS
    BY <2>2, TCPConfigAssumption DEF Whole
  <2>8. queue \in Seq(Pieces(x)) BY <2>4 DEF SenderOK, SenderTyped
  <2> HIDE DEF t
  <2>9. CASE ~late
    <3>1. Whole(d) BY <2>2, <2>3, <2>6, <2>7, <2>9 DEF Whole, SameWindow
    <3>2. Unsent(c) => Unsent(d) /\ d.sender.segments_out = <<>>
      BY <2>3, <2>5, <2>6 DEF Unsent, SameLoop
    <3>3. UpToDate(c) => d.syn_sended /\ d.sender.syn BY <2>3, <2>5 DEF UpToDate
    <3>4. Calm(c, segment_sends(d, FALSE)) BY <2>2, <2>4, <3>1, <3>2, <3>3, SendsReady
    <3> QED BY <2>1, <2>9, <3>4 DEF t
  <2>10. CASE late
    <3>1. queue # <<>> /\ d.sender.segments_out = << piece >>
      BY <2>6, <2>7, <2>10 DEF SameWindow
    <3>2. UpToDate(c) BY <2>2, <3>1 DEF Unsent
    <3>3. piece \in Pieces(x) BY <2>8, <3>1, HeadTailProperties
    <3> HIDE DEF queue, piece, late
    <3>4. d.sender.segments_out # <<>> BY <3>1
    <3>5. PICK e : ConnectionOK(x, e) /\ GivenUp(d, e) /\ u = segment_sends(e, FALSE)
      <4> HIDE DEF u
      <4> QED BY <2>4, <3>4, UncleanShutdownOK DEF u
    <3>6. /\ ~e.active /\ e.need_send_rst /\ e.syn_sended /\ e.sender.syn
          /\ e.sender.segments_out = << piece >> /\ e.segments_out \in Seq(Plain)
          /\ SameLoop(d.sender, e.sender)
      BY <2>2, <2>3, <2>5, <3>1, <3>2, <3>5 DEF GivenUp, UpToDate, Whole
    <3>7. Filled(e.sender)
      <4>1. Filled(d.sender) BY <2>4, <2>5, <3>2, FilledAlike DEF UpToDate
      <4>2. SenderOK(x, e.sender) BY <3>5 DEF ConnectionOK
      <4> QED BY <2>4, <3>6, <4>1, <4>2, FilledAlike
    <3>8. t = segment_sends(segment_sends(e, FALSE), FALSE) BY <2>1, <2>10, <3>5
    <3>9. ~t.active /\ OnceAtTheEnd(t.segments_out) BY <3>3, <3>5, <3>6, <3>7, <3>8, GivesUp
    <3> QED BY <3>9 DEF Calm, Ready, t
  <2> QED BY <2>9, <2>10
<1> QED BY <1>1, <1>2

\* Only a SYN opens a receiver.
LEMMA SynKept ==
  ASSUME NEW x \in Side, NEW r, ReceiverOK(x, r), NEW seg, ~seg.syn, ~r.syn
  PROVE  ~segment_received(r, RecvCapacity, seg).syn
<1>1. Has(r, ReceiverFields) BY DEF ReceiverOK
<1>2. AcceptSyn(r, seg) = r BY DEF AcceptSyn
<1>3. PushPayload(r, RecvCapacity, seg) = r BY DEF PushPayload, Closed
<1>4. segment_received(r, RecvCapacity, seg) = CountFin(r, seg)
  BY <1>2, <1>3 DEF segment_received
<1>5. CountFin(r, seg).syn = r.syn BY <1>1, ZenonT(30) DEF CountFin, Has, ReceiverFields
<1> QED BY <1>4, <1>5

\* The answer to a segment.
LEMMA ReplyCalm ==
  ASSUME NEW x \in Side, NEW c, NEW d, ConnectionOK(x, d), Whole(d), NEW seg,
         \/ Unsent(d) /\ d.sender.segments_out = <<>>
         \/ d.syn_sended /\ d.sender.syn
  PROVE  Calm(c, Reply(d, seg))
<1> DEFINE e == send_empty_segment(d.sender)
           g == [ d EXCEPT !.sender = e ]
           need == /\ length_in_sequence_space(seg) > 0
                   /\ ackno(d.receiver) # {}
                   /\ d.sender.segments_out = <<>>
           t == Reply(d, seg)
<1>1. t = IF need THEN segment_sends(g, FALSE) ELSE segment_sends(d, FALSE) BY DEF Reply
<1>2. Calm(c, segment_sends(d, FALSE)) BY SendsReady
<1>3. Unsent(d) => ~need BY DEF Unsent, ackno
<1> HIDE DEF t, need
<1>4. ASSUME d.syn_sended, d.sender.syn PROVE Calm(c, segment_sends(g, FALSE))
  <2>1. SenderOK(x, d.sender) BY DEF ConnectionOK
  <2>2. SenderOK(x, e) /\ SameStream(d.sender, e) /\ SameWindow(d.sender, e)
    BY <2>1, SendEmptyOK
  <2> HIDE DEF e
  <2>3. Follows(x, d, g) BY <2>2, OtherSender DEF SameStream
  <2>4. ConnectionOK(x, g) BY <2>3 DEF Follows
  <2>5. g.sender = e /\ SameQueue(d, g) BY DEF ConnectionOK, Has, ConnectionFields, SameQueue
  <2> HIDE DEF g
  <2>6. Whole(g) BY <2>2, <2>5 DEF Whole, SameWindow, SameQueue
  <2>7. g.syn_sended /\ g.sender.syn BY <1>4, <2>2, <2>5 DEF SameStream, SameQueue
  <2> QED BY <2>4, <2>6, <2>7, SendsReady
<1> HIDE DEF g
<1>5. Calm(c, t) BY <1>1, <1>2, <1>3, <1>4
<1> QED BY <1>5 DEF t

\* TCPConnection::segment_received.
LEMMA ConnReceivedCalm ==
  ASSUME ShortStreams, NEW x \in Side, NEW c, ConnectionOK(x, c), Ready(c),
         NEW m \in 0..(Len(Data[x]) + 2), NEW seg \in Truthful(Other(x), m),
         c.sender.receive_ack <= m
  PROVE  Calm(c, conn_segment_received(c, seg))
<1> DEFINE t == conn_segment_received(c, seg)
           idle == [ c EXCEPT !.time_since_last_segment_received = 0 ]
           now == Heard(c, seg)
<1>1. CASE ~c.active
  <2>1. t = c BY <1>1 DEF conn_segment_received
  <2> QED BY <1>1, <2>1 DEF Calm
<1>2. CASE c.active
  <2>1. Whole(c) /\ c.sender.segments_out = <<>> /\ (Unsent(c) \/ UpToDate(c))
    BY <1>2 DEF Ready
  <2>2. /\ Advances(x, c, now, m) /\ GoesOn(c.sender, now.sender) /\ SameQueue(c, now)
        /\ now.receiver = segment_received(c.receiver, RecvCapacity, seg)
        /\ ~seg.ack \/ c.sender.next_seqno = 0 => now.sender = c.sender
    BY HeardOK
  <2>3. \/ t = idle
        \/ seg.syn /\ now.sender.next_seqno = 0 /\ t = connect(now)
        \/ ~(seg.syn /\ now.sender.next_seqno = 0) /\ t = Reply(now, seg)
        \/ ~(seg.syn /\ now.sender.next_seqno = 0) /\ ~seg.ack /\ t = now
        \/ t = unclean_shutdown(now, FALSE)
    BY <1>2 DEF conn_segment_received, Heard
  <2> HIDE DEF now, t
  <2>4. ConnectionOK(x, now) BY <2>2 DEF Advances
  <2>5. 0 \in 0..MAX_RETX_ATTEMPTS BY TCPConfigAssumption
  <2>6. Whole(now) BY <2>1, <2>2, <2>5 DEF Whole, GoesOn, SameQueue
  <2>7. UpToDate(c) => now.syn_sended /\ now.sender.syn
    BY <2>2 DEF UpToDate, GoesOn, SameQueue
  <2>8. Unsent(c) => now.sender = c.sender /\ now.sender.next_seqno = 0
    <3>1. SenderOK(x, c.sender) BY DEF ConnectionOK
    <3>2. ~c.sender.syn => c.sender.next_seqno = 0 BY <3>1 DEF SenderOK, Bit
    <3> QED BY <2>2, <3>2 DEF Unsent
  <2>9. Unsent(c) /\ ~seg.syn => Unsent(now)
    <3>1. ReceiverOK(Other(x), c.receiver) /\ Other(x) \in Side BY ConnectionFacts
    <3>2. ~seg.syn /\ ~c.receiver.syn => ~now.receiver.syn BY <2>2, <3>1, SynKept
    <3> QED BY <2>2, <2>8, <3>2 DEF Unsent, SameQueue
  <2>10. CASE t = idle
    <3>1. /\ idle.sender = c.sender /\ idle.receiver = c.receiver /\ SameQueue(c, idle)
      BY DEF ConnectionOK, Has, ConnectionFields, SameQueue
    <3> HIDE DEF idle
    <3>2. Whole(idle) /\ (Unsent(idle) \/ UpToDate(idle))
      BY <2>1, <3>1 DEF Whole, Unsent, UpToDate, SameQueue
    <3>3. Ready(idle) /\ ~idle.need_send_rst BY <2>1, <3>1, <3>2 DEF Ready, Whole
    <3> QED BY <2>10, <3>3 DEF Calm, t
  <2>11. CASE seg.syn /\ now.sender.next_seqno = 0 /\ t = connect(now)
    <3>1. now.sender.syn \/ now.sender.window_size = 0
      BY <2>1, <2>7, <2>8 DEF Unsent
    <3>2. Calm(c, segment_sends(now, TRUE)) BY <2>4, <2>6, <3>1, SendsReady
    <3> QED BY <2>11, <3>2 DEF connect, t
  <2>12. CASE ~(seg.syn /\ now.sender.next_seqno = 0) /\ t = Reply(now, seg)
    <3>1. Unsent(c) => Unsent(now) /\ now.sender.segments_out = <<>>
      BY <2>1, <2>8, <2>9, <2>12
    <3>2. Calm(c, Reply(now, seg)) BY <2>1, <2>4, <2>6, <2>7, <3>1, ReplyCalm
    <3> QED BY <2>12, <3>2 DEF t
  <2>13. CASE ~(seg.syn /\ now.sender.next_seqno = 0) /\ ~seg.ack /\ t = now
    <3>1. now.sender = c.sender BY <2>2, <2>13
    <3>2. Unsent(c) => Unsent(now) BY <2>8, <2>9, <2>13
    <3>3. UpToDate(c) => UpToDate(now) BY <2>7, <3>1 DEF UpToDate
    <3>4. Ready(now) /\ ~now.need_send_rst BY <2>1, <2>6, <3>1, <3>2, <3>3 DEF Ready, Whole
    <3> QED BY <2>13, <3>4 DEF Calm, t
  <2>14. CASE t = unclean_shutdown(now, FALSE)
    <3>1. ~t.active /\ t.need_send_rst = now.need_send_rst BY <2>4, <2>14, UncleanShutdownOK
    <3> QED BY <2>6, <3>1 DEF Calm, Ready, Whole, t
  <2> QED BY <2>3, <2>10, <2>11, <2>12, <2>13, <2>14
<1> QED BY <1>1, <1>2

-----------------------------------------------------------------------------
\* Every step keeps every connection ready, or gives it up as it should.
AllReady == \A x \in Side : Ready(conn[x])

Steady(x) == \/ Calm(conn[x], conn'[x])
             \/ x \in aborted' /\ Ready(conn'[x])

\* Nothing happens to the connection.
LEMMA CalmItself ==
  ASSUME NEW c, Ready(c)
  PROVE  Calm(c, c)
BY DEF Calm, Ready, Whole

\* Segments leave the channel.
LEMMA OtherQueueCalm ==
  ASSUME NEW x \in Side, NEW c, ConnectionOK(x, c), Ready(c), NEW q,
         c.segments_out \in Seq(Plain) => q \in Seq(Plain)
  PROVE  Calm(c, [ c EXCEPT !.segments_out = q ])
<1> DEFINE t == [ c EXCEPT !.segments_out = q ]
<1>1. /\ t.sender = c.sender /\ t.receiver = c.receiver /\ t.need_send_rst = c.need_send_rst
      /\ t.syn_sended = c.syn_sended /\ t.active = c.active /\ t.segments_out = q
  BY DEF ConnectionOK, Has, ConnectionFields
<1> HIDE DEF t
<1>2. Calm(c, t) BY <1>1 DEF Calm, Ready, Whole, Unsent, UpToDate
<1> QED BY <1>2 DEF t

\* A call on one side, the other side does nothing.
LEMMA OneCalm ==
  ASSUME Inv, AllReady, NEW x \in Side, NEW c, Calm(conn[x], c) \/ (x \in aborted' /\ Ready(c)),
         conn' = [ conn EXCEPT ![x] = c ]
  PROVE  \A z \in Side : Steady(z)
<1>1. conn = [ z \in Side |-> conn[z] ] BY DEF Inv, InvOf
<1>2. DOMAIN conn = Side BY <1>1
<1>3. conn'[x] = c BY <1>2
<1>4. ASSUME NEW z \in Side, z # x PROVE Steady(z)
  <2>1. conn'[z] = conn[z] BY <1>2, <1>4
  <2>2. Ready(conn[z]) BY DEF AllReady
  <2> QED BY <2>1, <2>2, CalmItself DEF Steady
<1> QED BY <1>3, <1>4 DEF Steady

\* The application connects.
LEMMA ConnectSteady ==
  ASSUME Inv, AllReady, NEW x \in Side, Connect(x)
  PROVE  \A z \in Side : Steady(z)
<1>1. ConnectionOK(x, conn[x]) /\ Ready(conn[x]) BY DEF Inv, InvOf, AllReady
<1>2. conn[x].active BY DEF Connect, MayConnect
<1>3. Calm(conn[x], connect(conn[x])) BY <1>1, <1>2, ConnectCalm
<1>4. conn' = [ conn EXCEPT ![x] = connect(conn[x]) ] BY DEF Connect
<1> QED BY <1>3, <1>4, OneCalm

\* A write.
LEMMA WriteSteady ==
  ASSUME Inv, AllReady, NEW x \in Side, NEW n \in 1..Len(Data[x]), Write(x, n)
  PROVE  \A z \in Side : Steady(z)
<1> DEFINE data == Part(x, conn[x].sender.stream.written, n)
           c == conn_write(conn[x], data)
<1>1. ConnectionOK(x, conn[x]) /\ Ready(conn[x]) BY DEF Inv, InvOf, AllReady
<1>2. /\ conn[x].sender.stream.written + n <= Len(Data[x])
      /\ n <= remaining_outbound_capacity(conn[x]) /\ n \in Nat /\ conn[x].active
      /\ ~conn[x].sender.stream.input_end
  BY DataFacts DEF Write, MayWrite
<1>3. SendsAfter(x, conn[x], c) BY <1>1, <1>2, WriteOK
<1>4. conn' = [ conn EXCEPT ![x] = c ] BY DEF Write, Part
<1> HIDE DEF c
<1>5. Calm(conn[x], c) BY <1>1, <1>2, <1>3, CallCalm
<1> QED BY <1>4, <1>5, OneCalm

\* The end of the outbound stream.
LEMMA EndInputStreamSteady ==
  ASSUME Inv, AllReady, NEW x \in Side, EndInputStream(x)
  PROVE  \A z \in Side : Steady(z)
<1>1. ConnectionOK(x, conn[x]) /\ Ready(conn[x]) BY DEF Inv, InvOf, AllReady
<1>2. conn[x].active /\ conn[x].sender.stream.written = Len(Data[x])
  BY DEF EndInputStream, MayEnd
<1>3. SendsAfter(x, conn[x], end_input_stream(conn[x])) BY <1>1, <1>2, EndInputOK
<1>4. Calm(conn[x], end_input_stream(conn[x])) BY <1>1, <1>2, <1>3, CallCalm
<1>5. conn' = [ conn EXCEPT ![x] = end_input_stream(conn[x]) ] BY DEF EndInputStream
<1> QED BY <1>4, <1>5, OneCalm

\* A read takes bytes off the inbound stream only.
LEMMA ReadSteady ==
  ASSUME Inv, AllReady, NEW x \in Side, Read(x)
  PROVE  \A z \in Side : Steady(z)
<1> DEFINE p == PopOutput(conn[x].receiver.reassembler, Len(inbound_stream(conn[x]).buffer))
           r == [ conn[x].receiver EXCEPT !.reassembler = p ]
           c == [ conn[x] EXCEPT !.receiver = r ]
<1>1. ConnectionOK(x, conn[x]) /\ Ready(conn[x]) BY DEF Inv, InvOf, AllReady
<1>2. conn' = [ conn EXCEPT ![x] = c ] BY DEF Read
<1>3. r.syn = conn[x].receiver.syn
  BY <1>1 DEF ConnectionOK, ReceiverOK, Has, ReceiverFields
<1> HIDE DEF r
<1>4. c.sender = conn[x].sender /\ c.receiver = r /\ c.active = conn[x].active
      /\ SameQueue(conn[x], c)
  BY <1>1 DEF ConnectionOK, Has, ConnectionFields, SameQueue
<1> HIDE DEF c
<1>5. Calm(conn[x], c)
  BY <1>1, <1>3, <1>4 DEF Calm, Ready, Whole, Unsent, UpToDate, SameQueue
<1> QED BY <1>2, <1>5, OneCalm

\* The receiver of the segment may answer, its sender has one less on its way.
LEMMA ArrivesSteady ==
  ASSUME ShortStreams, Inv, AllReady, NEW x \in Side,
         NEW k \in 1..Len(conn[x].segments_out), NEW copied \in BOOLEAN, Arrives(x, k, copied)
  PROVE  \A z \in Side : Steady(z)
<1> DEFINE q == conn[x].segments_out
           seg == q[k]
           rest == SubSeq(q, 1, k - 1) \o SubSeq(q, k + 1, Len(q))
           less == [ conn[x] EXCEPT !.segments_out = rest ]
           left == IF copied THEN conn ELSE [ conn EXCEPT ![x] = less ]
           y == Other(x)
           m == Reached(conn[x].receiver)
           c == conn_segment_received(conn[y], seg)
<1>1. y \in Side /\ y # x /\ Other(y) = x /\ \A z \in Side : z = x \/ z = y BY SideFacts
<1>2. /\ conn = [ z \in Side |-> conn[z] ]
      /\ ConnectionOK(x, conn[x]) /\ ConnectionOK(y, conn[y])
      /\ conn[y].sender.receive_ack <= m
  BY <1>1 DEF Inv, InvOf
<1>3. Ready(conn[x]) /\ Ready(conn[y]) BY <1>1 DEF AllReady
<1>4. conn' = IF y \in aborted THEN left
              ELSE [ left EXCEPT ![y] = conn_segment_received(left[y], seg) ]
  BY DEF Arrives
<1>5. DOMAIN conn = Side BY <1>2
<1>6. seg \in Truthful(Other(y), m)
  <2>1. q \in Seq(Truthful(x, m)) BY <1>2 DEF ConnectionOK
  <2>2. k \in 1..Len(q) OBVIOUS
  <2> HIDE DEF q, m
  <2>3. seg \in Truthful(x, m) BY <2>1, <2>2, ElementOfSeq
  <2> QED BY <1>1, <2>3
<1>7. q \in Seq(Plain) => rest \in Seq(Plain)
  <2>1. k \in 1..Len(q) OBVIOUS
  <2> HIDE DEF q
  <2> QED BY <2>1, OneTaken
<1> HIDE DEF rest
<1>8. Calm(conn[x], less) BY <1>2, <1>3, <1>7, OtherQueueCalm
<1>9. Calm(conn[x], conn[x]) /\ Calm(conn[y], conn[y]) BY <1>3, CalmItself
<1>10. m \in 0..(Len(Data[y]) + 2) BY <1>2, ConnectionFacts
<1> HIDE DEF m, seg, less
<1>11. Calm(conn[y], c) BY <1>1, <1>2, <1>3, <1>6, <1>10, ConnReceivedCalm
<1> HIDE DEF y
<1>12. left[y] = conn[y] /\ left[x] \in { conn[x], less } /\ DOMAIN left = Side
  BY <1>1, <1>5
<1> HIDE DEF left
<1>13. conn'[x] = left[x] /\ conn'[y] \in { conn[y], c } BY <1>1, <1>4, <1>12
<1> HIDE DEF c
<1>14. Steady(x) BY <1>8, <1>9, <1>12, <1>13 DEF Steady
<1>15. Steady(y) BY <1>9, <1>11, <1>13 DEF Steady
<1> QED BY <1>1, <1>14, <1>15

\* The channel loses a segment.
LEMMA LoseSteady ==
  ASSUME Inv, AllReady, NEW x \in Side, Lose(x)
  PROVE  \A z \in Side : Steady(z)
<1> DEFINE q == conn[x].segments_out
           t == Tail(q)
           c == [ conn[x] EXCEPT !.segments_out = t ]
<1>1. ConnectionOK(x, conn[x]) /\ Ready(conn[x]) BY DEF Inv, InvOf, AllReady
<1>2. q # <<>> BY DEF Lose, UnderWay
<1>3. conn' = [ conn EXCEPT ![x] = c ] BY DEF Lose
<1>4. q \in Seq(Plain) => t \in Seq(Plain)
  <2> HIDE DEF q
  <2> QED BY <1>2, HeadTailProperties
<1> HIDE DEF t
<1>5. Calm(conn[x], c) BY <1>1, <1>4, OtherQueueCalm
<1> HIDE DEF c
<1> QED BY <1>3, <1>5, OneCalm

\* Time passes at both ends.
LEMMA TickSteady ==
  ASSUME Inv, AllReady, Tick
  PROVE  \A z \in Side : Steady(z)
<1> TAKE z \in Side
<1>1. ConnectionOK(z, conn[z]) /\ Ready(conn[z]) BY DEF Inv, InvOf, AllReady
<1>2. conn'[z] = IF z \in aborted THEN conn[z] ELSE conn_tick(conn[z], TickSize)
  BY DEF Tick
<1>3. Calm(conn[z], conn[z]) BY <1>1, CalmItself
<1>4. Calm(conn[z], conn_tick(conn[z], TickSize)) BY <1>1, ConnTickCalm
<1> QED BY <1>2, <1>3, <1>4 DEF Steady

\* An aborted connection says nothing more.
LEMMA AbortSteady ==
  ASSUME Inv, AllReady, NEW x \in Side, Abort(x)
  PROVE  \A z \in Side : Steady(z)
<1> DEFINE u == unclean_shutdown(conn[x], TRUE)
           c == destruct(conn[x])
<1>1. ConnectionOK(x, conn[x]) BY DEF Inv, InvOf
<1>2. conn' = [ conn EXCEPT ![x] = c ] /\ x \in aborted' /\ conn[x].active
  BY DEF Abort
<1>3. Follows(x, conn[x], u) /\ ~u.active
  <2> HIDE DEF u
  <2> QED BY <1>1, UncleanShutdownOK DEF u
<1>4. c = [ u EXCEPT !.segments_out = <<>> ] BY <1>2 DEF destruct
<1> HIDE DEF u, c
<1>5. ~c.active BY <1>3, <1>4 DEF Follows, ConnectionOK, Has, ConnectionFields
<1>6. Ready(c) BY <1>5 DEF Ready
<1> QED BY <1>2, <1>6, OneCalm

\* In what a step does, everything is calm.
AllSteady == \A z \in Side : Steady(z)

\* Every step.
LEMMA StepSteady ==
  ASSUME ShortStreams, Inv, AllReady, Next
  PROVE  AllSteady
<1>1. ASSUME Tick PROVE AllSteady BY <1>1, TickSteady DEF AllSteady
<1>2. ASSUME NEW x \in Side, Connect(x) PROVE AllSteady BY <1>2, ConnectSteady DEF AllSteady
<1>3. ASSUME NEW x \in Side, NEW n \in 1..Len(Data[x]), Write(x, n) PROVE AllSteady
  BY <1>3, WriteSteady DEF AllSteady
<1>4. ASSUME NEW x \in Side, EndInputStream(x) PROVE AllSteady BY <1>4, EndInputStreamSteady DEF AllSteady
<1>5. ASSUME NEW x \in Side, Read(x) PROVE AllSteady BY <1>5, ReadSteady DEF AllSteady
<1>6. ASSUME NEW x \in Side PROVE UnderWay(x) => 1 \in 1..Len(conn[x].segments_out)
  <2> DEFINE q == conn[x].segments_out
  <2>1. q \in Seq(Truthful(x, Reached(conn[x].receiver))) BY DEF Inv, InvOf, ConnectionOK
  <2> HIDE DEF q
  <2>2. q # <<>> => 1 \in 1..Len(q) BY <2>1, EmptySeq, LenProperties
  <2> QED BY <2>2 DEF UnderWay, q
<1>7. ASSUME NEW x \in Side, Deliver(x) PROVE AllSteady BY <1>6, <1>7, ArrivesSteady DEF AllSteady, Deliver
<1>8. ASSUME NEW x \in Side, NEW k \in 2..Len(conn[x].segments_out), Overtake(x, k) PROVE AllSteady
  <2>1. k \in 1..Len(conn[x].segments_out) OBVIOUS
  <2> QED BY <1>8, <2>1, ArrivesSteady DEF AllSteady, Overtake
<1>9. ASSUME NEW x \in Side, Duplicate(x) PROVE AllSteady BY <1>6, <1>9, ArrivesSteady DEF AllSteady, Duplicate
<1>10. ASSUME NEW x \in Side, Lose(x) PROVE AllSteady BY <1>10, LoseSteady DEF AllSteady
<1>11. ASSUME NEW x \in Side, Abort(x) PROVE AllSteady BY <1>11, AbortSteady DEF AllSteady
<1> QED BY <1>1, <1>2, <1>3, <1>4, <1>5, <1>7, <1>8, <1>9, <1>10, <1>11 DEF Next

\* A connection that begins is ready.
LEMMA InitReady == Init => AllReady
<1> SUFFICES ASSUME Init, NEW x \in Side PROVE Ready(conn[x]) BY DEF AllReady
<1> DEFINE c == NewTCPConnection(Isn[x])
           none == <<>>
<1>1. conn[x] = c BY DEF Init
<1>2. /\ c.need_send_rst = FALSE /\ c.segments_out = none /\ c.syn_sended = FALSE
      /\ c.sender.segments_out = none /\ c.sender.segments_in_flight = none
      /\ c.sender.consecutive_retrans = 0 /\ c.sender.syn = FALSE /\ c.sender.window_size = 0
      /\ c.receiver.syn = FALSE
  BY DEF NewTCPConnection, NewTCPSender, NewTCPReceiver
<1>3. none \in Seq(Plain) BY EmptySeq
<1>4. 0 \in 0..MAX_RETX_ATTEMPTS BY TCPConfigAssumption
<1> HIDE DEF c
<1> QED BY <1>1, <1>2, <1>3, <1>4 DEF Ready, Whole, Unsent, none

\* An endpoint that gives up sends one segment with the RST, and nothing after it.
THEOREM AlwaysResetOnce ==
  ASSUME ShortStreams
  PROVE  Spec => ResetOnce
<1> DEFINE Gone == \A x \in Side :
               LET out == conn'[x].segments_out
               IN  conn[x].active /\ conn'[x].need_send_rst /\ x \notin aborted' =>
                     Cardinality({ k \in 1..Len(out) : out[k].rst }) = 1 /\ out[Len(out)].rst
<1>1. ShortStreams OBVIOUS
<1>2. Inv /\ AllReady /\ Next => AllReady' /\ Gone
  <2> SUFFICES ASSUME Inv, AllReady, Next PROVE AllReady' /\ Gone OBVIOUS
  <2>1. \A x \in Side : Steady(x) BY <1>1, StepSteady DEF AllSteady
  <2>2. AllReady' BY <2>1 DEF AllReady, Steady, Calm
  <2>3. Gone BY <2>1 DEF Steady, Calm, OnceAtTheEnd
  <2> QED BY <2>2, <2>3
<1>3. Inv /\ AllReady /\ [Next]_vars => AllReady'
  <2>1. UNCHANGED vars /\ AllReady => AllReady' BY DEF vars, AllReady
  <2> QED BY <1>2, <2>1
<1>4. Inv /\ AllReady /\ [Next]_vars => [Gone]_vars BY <1>2
<1>5. Inv /\ [Next]_vars => Inv' BY <1>1, StepInv
<1>6. ResetOnce <=> [][Gone]_vars BY DEF ResetOnce
<1> HIDE DEF Gone
<1> QED BY InitInv, InitReady, <1>3, <1>4, <1>5, <1>6, PTL DEF Spec

-----------------------------------------------------------------------------
\* How far the two halves of a connection have got.
\* The length of a segment.
LEMMA LengthType ==
  ASSUME NEW seg \in Segment(Byte)
  PROVE  length_in_sequence_space(seg) \in Nat
<1> DEFINE y == IF seg.syn THEN 1 ELSE 0
           f == IF seg.fin THEN 1 ELSE 0
<1>1. Len(seg.payload) \in Nat BY LenProperties DEF Segment
<1>2. y \in Nat /\ f \in Nat OBVIOUS
<1>3. length_in_sequence_space(seg) = Len(seg.payload) + y + f BY DEF length_in_sequence_space
<1> HIDE DEF y, f
<1> QED BY <1>1, <1>2, <1>3

\* SpaceOf adds up the lengths of the segments, one after the other.
LEMMA SpaceFacts ==
  ASSUME NEW q \in Seq(Segment(Byte))
  PROVE  /\ SpaceOf(q, 0) = 0
         /\ \A k \in 1..Len(q) : SpaceOf(q, k) = SpaceOf(q, k - 1) + length_in_sequence_space(q[k])
         /\ \A k \in 0..Len(q) : SpaceOf(q, k) \in Nat
<1> DEFINE n    == Len(q)
           len  == [ k \in 1..n |-> length_in_sequence_space(q[k]) ]
           step == [ k \in 1..n |-> [ x \in Nat |-> x + len[k] ] ]
<1>1. n \in Nat /\ len \in [1..n -> Nat] BY LenProperties, ElementOfSeq, LengthType
<1>2. \A k \in 1..n : len[k] = length_in_sequence_space(q[k]) OBVIOUS
<1> HIDE DEF len, n
<1>3. PICK g \in [0..n -> Nat] : Iterates(g, n, 0, step)
  <2>1. step \in [1..n -> [Nat -> Nat]] BY <1>1
  <2> HIDE DEF step
  <2> QED BY <1>1, <2>1, IterationExists
<1>4. g[0] = 0 /\ \A k \in 1..n : g[k] = g[k - 1] + len[k]
  <2>1. g[0] = 0 BY <1>1, <1>3 DEF Iterates
  <2>2. ASSUME NEW k \in 1..n PROVE g[k] = g[k - 1] + len[k]
    <3>1. k \in 0..n /\ k - 1 \in 0..n /\ k # 0 BY <1>1
    <3>2. g[k] = step[k][g[k - 1]]
      <4> HIDE DEF step
      <4> QED BY <1>3, <3>1 DEF Iterates
    <3>3. g[k - 1] \in Nat BY <3>1
    <3> QED BY <3>2, <3>3
  <2> QED BY <2>1, <2>2
<1> HIDE DEF step
<1>5. ASSUME NEW k \in 0..n PROVE SpaceOf(q, k) = g[k]
  <2> DEFINE upto[j \in 0..k] ==
                 IF j = 0 THEN 0 ELSE upto[j - 1] + length_in_sequence_space(q[j])
             h == [ j \in 0..k |-> g[j] ]
  <2>1. SpaceOf(q, k) = upto[k] BY ZenonT(30) DEF SpaceOf
  <2>2. h = [ j \in 0..k |-> IF j = 0 THEN 0 ELSE h[j - 1] + length_in_sequence_space(q[j]) ]
    <3>1. ASSUME NEW j \in 0..k
          PROVE  h[j] = IF j = 0 THEN 0 ELSE h[j - 1] + length_in_sequence_space(q[j])
      <4>1. CASE j = 0 BY <1>1, <1>4, <4>1
      <4>2. CASE j # 0
        <5>1. j \in 1..n /\ j - 1 \in 0..k BY <1>1, <4>2
        <5> QED BY <1>2, <1>4, <4>2, <5>1
      <4> QED BY <4>1, <4>2
    <3> HIDE DEF h
    <3>2. h = [ j \in 0..k |-> h[j] ] BY DEF h
    <3> QED BY <3>1, <3>2
  <2>3. upto = [ j \in 0..k |->
                   IF j = 0 THEN 0 ELSE upto[j - 1] + length_in_sequence_space(q[j]) ]
    <3> HIDE DEF h
    <3> QED BY <2>2, ZenonT(30)
  <2> HIDE DEF upto
  <2> DEFINE S == { j \in 0..k : upto[j] = g[j] }
  <2>4. 0 \in S BY <1>1, <1>4, <2>3
  <2>5. ASSUME NEW j \in 0..(k - 1), j \in S PROVE j + 1 \in S
    <3>1. j + 1 \in 0..k /\ j + 1 # 0 /\ (j + 1) - 1 = j /\ j + 1 \in 1..n BY <1>1
    <3>2. upto[j + 1] = upto[j] + length_in_sequence_space(q[j + 1]) BY <2>3, <3>1
    <3>3. g[j + 1] = g[j] + len[j + 1] BY <1>4, <3>1
    <3> QED BY <1>2, <2>5, <3>1, <3>2, <3>3
  <2> HIDE DEF S
  <2>6. k \in Nat BY <1>1
  <2>7. \A j \in 0..k : j \in S BY <2>4, <2>5, <2>6, UpToInduction
  <2>8. k \in S BY <2>6, <2>7
  <2> QED BY <2>1, <2>8 DEF S
<1>6. SpaceOf(q, 0) = 0 BY <1>1, <1>4, <1>5
<1>7. ASSUME NEW k \in 1..n
      PROVE  SpaceOf(q, k) = SpaceOf(q, k - 1) + length_in_sequence_space(q[k])
  <2>1. k \in 0..n /\ k - 1 \in 0..n BY <1>1
  <2> QED BY <1>2, <1>4, <1>5, <2>1
<1>8. \A k \in 0..n : SpaceOf(q, k) \in Nat BY <1>5
<1> QED BY <1>6, <1>7, <1>8 DEF n

\* The segments popped leave a suffix of the queue.
LEMMA SuffixFacts ==
  ASSUME NEW q \in Seq(Segment(Byte)), NEW g \in 0..Len(q)
  PROVE  LET r == SubSeq(q, g + 1, Len(q))
         IN  /\ r \in Seq(Segment(Byte)) /\ Len(r) = Len(q) - g
             /\ \A k \in 1..(Len(q) - g) : r[k] = q[g + k]
             /\ \A k \in 0..(Len(q) - g) : SpaceOf(r, k) = SpaceOf(q, g + k) - SpaceOf(q, g)
<1> DEFINE r == SubSeq(q, g + 1, Len(q))
           m == Len(q) - g
<1>1. Len(q) \in Nat /\ m \in Nat /\ g + m = Len(q) /\ g \in Nat BY LenProperties
<1> HIDE DEF m
<1>2. r \in Seq(Segment(Byte)) /\ Len(r) = m /\ \A k \in 1..m : r[k] = q[g + k]
  BY <1>1, PieceFacts
<1> HIDE DEF r
<1> DEFINE S == { k \in 0..m : SpaceOf(r, k) = SpaceOf(q, g + k) - SpaceOf(q, g) }
<1>3. 0 \in S
  <2>1. SpaceOf(r, 0) = 0 /\ SpaceOf(q, g) \in Nat /\ g + 0 = g BY <1>1, <1>2, SpaceFacts
  <2> QED BY <1>1, <2>1
<1>4. ASSUME NEW k \in 0..(m - 1), k \in S PROVE k + 1 \in S
  <2>1. /\ k + 1 \in 0..m /\ k + 1 \in 1..Len(r) /\ (k + 1) - 1 = k
        /\ g + (k + 1) \in 1..Len(q) /\ (g + (k + 1)) - 1 = g + k /\ g + k \in 0..Len(q)
        /\ k \in 0..m
    BY <1>1, <1>2
  <2>2. SpaceOf(r, k + 1) = SpaceOf(r, k) + length_in_sequence_space(r[k + 1])
    BY <1>2, <2>1, SpaceFacts
  <2>3. SpaceOf(q, g + (k + 1)) = SpaceOf(q, g + k) + length_in_sequence_space(q[g + (k + 1)])
    BY <2>1, SpaceFacts
  <2>4. r[k + 1] = q[g + (k + 1)] BY <1>2, <2>1
  <2>5. SpaceOf(q, g + k) \in Nat /\ SpaceOf(q, g) \in Nat BY <2>1, SpaceFacts
  <2>6. length_in_sequence_space(q[g + (k + 1)]) \in Nat BY <2>1, ElementOfSeq, LengthType
  <2> DEFINE l == length_in_sequence_space(q[g + (k + 1)])
             a == SpaceOf(q, g + k)
             b == SpaceOf(q, g)
  <2>7. SpaceOf(r, k) = a - b BY <1>4
  <2>8. SpaceOf(r, k + 1) = (a - b) + l /\ SpaceOf(q, g + (k + 1)) = a + l
    BY <2>2, <2>3, <2>4, <2>7
  <2>9. a \in Int /\ b \in Int /\ l \in Int BY <2>5, <2>6
  <2> HIDE DEF a, b, l
  <2>10. (a - b) + l = (a + l) - b BY <2>9
  <2> QED BY <2>1, <2>8, <2>10 DEF b
<1> HIDE DEF S
<1>5. \A k \in 0..m : k \in S BY <1>1, <1>3, <1>4, UpToInduction
<1> QED BY <1>2, <1>5 DEF S, r, m

\* What a queue with one more segment holds.
LEMMA AppendFacts ==
  ASSUME NEW q \in Seq(Segment(Byte)), NEW seg \in Segment(Byte)
  PROVE  LET r == Append(q, seg)
         IN  /\ r \in Seq(Segment(Byte)) /\ r # <<>> /\ Len(r) = Len(q) + 1
             /\ \A k \in 1..Len(q) : r[k] = q[k]
             /\ r[Len(q) + 1] = seg
             /\ \A k \in 0..Len(q) : SpaceOf(r, k) = SpaceOf(q, k)
             /\ SpaceOf(r, Len(q) + 1) = SpaceOf(q, Len(q)) + length_in_sequence_space(seg)
<1> DEFINE r == Append(q, seg)
           m == Len(q)
<1>1. m \in Nat BY LenProperties
<1>2. /\ r \in Seq(Segment(Byte)) /\ r # <<>> /\ Len(r) = m + 1
      /\ \A k \in 1..m : r[k] = q[k]
      /\ r[m + 1] = seg
  BY AppendProperties
<1> HIDE DEF r
<1> DEFINE S == { k \in 0..m : SpaceOf(r, k) = SpaceOf(q, k) }
<1>3. 0 \in S BY <1>1, <1>2, SpaceFacts
<1>4. ASSUME NEW k \in 0..(m - 1), k \in S PROVE k + 1 \in S
  <2>1. /\ k + 1 \in 0..m /\ k + 1 \in 1..Len(r) /\ (k + 1) - 1 = k /\ k + 1 \in 1..Len(q)
    BY <1>1, <1>2
  <2>2. SpaceOf(r, k + 1) = SpaceOf(r, k) + length_in_sequence_space(r[k + 1])
    BY <1>2, <2>1, SpaceFacts
  <2>3. SpaceOf(q, k + 1) = SpaceOf(q, k) + length_in_sequence_space(q[k + 1])
    BY <2>1, SpaceFacts
  <2>4. r[k + 1] = q[k + 1] BY <1>2, <2>1
  <2> QED BY <1>4, <2>1, <2>2, <2>3, <2>4
<1> HIDE DEF S
<1>5. \A k \in 0..m : k \in S BY <1>1, <1>3, <1>4, UpToInduction
<1>6. SpaceOf(r, m) = SpaceOf(q, m) BY <1>1, <1>5 DEF S
<1>7. SpaceOf(r, m + 1) = SpaceOf(r, m) + length_in_sequence_space(seg)
  <2>1. m + 1 \in 1..Len(r) /\ (m + 1) - 1 = m BY <1>1, <1>2
  <2> QED BY <1>2, <2>1, SpaceFacts
<1> QED BY <1>2, <1>5, <1>6, <1>7 DEF S, r, m

-----------------------------------------------------------------------------
\* The number at which the segments in flight begin.
Base(s) == s.next_seqno - s.bytes_in_flight

\* The segments in flight lie end to end from there to next_seqno, and nothing before
\* them is unacknowledged.
Tiled(s) ==
    LET q == s.segments_in_flight
    IN  /\ s.bytes_in_flight = SpaceOf(q, Len(q))
        /\ Base(s) \in 0..s.receive_ack
        /\ \A k \in 1..Len(q) : q[k].seqno = wrap(Base(s) + SpaceOf(q, k - 1), s.isn)

\* The FIN is the last that is sent, and the stream ends with the last byte.
Tracks(x, s) ==
    /\ Tiled(s)
    /\ s.fin => eof(s.stream)
    /\ s.stream.input_end => s.stream.written = Len(Data[x])

\* What of a sender only moves forward.
Forward(s, t) ==
    /\ s.syn => t.syn
    /\ s.fin => t.fin /\ t.next_seqno = s.next_seqno
    /\ Base(s) <= Base(t)

\* What a sender does.
Moves(x, s, t) == Tracks(x, t) /\ Forward(s, t) /\ t.stream.error = s.stream.error

\* What of a sender the tiles depend on is the same.
SameTiles(s, t) ==
    /\ t.isn = s.isn /\ t.syn = s.syn /\ t.fin = s.fin
    /\ t.next_seqno = s.next_seqno /\ t.receive_ack = s.receive_ack
    /\ t.bytes_in_flight = s.bytes_in_flight /\ t.segments_in_flight = s.segments_in_flight
    /\ t.stream.buffer = s.stream.buffer /\ t.stream.input_end = s.stream.input_end
    /\ t.stream.written = s.stream.written

\* The types of what the tiles are made of.
LEMMA TiledFacts ==
  ASSUME NEW x \in Side, NEW s, SenderOK(x, s), Tiled(s)
  PROVE  /\ s.segments_in_flight \in Seq(Segment(Byte)) /\ Len(s.segments_in_flight) \in Nat
         /\ s.isn = Isn[x] /\ s.next_seqno \in Nat /\ s.receive_ack \in Nat
         /\ s.bytes_in_flight \in Nat /\ Base(s) \in Nat
         /\ Base(s) + s.bytes_in_flight = s.next_seqno /\ Base(s) <= s.receive_ack
         /\ s.receive_ack <= s.next_seqno
<1> DEFINE q == s.segments_in_flight
<1>1. q \in Seq(Pieces(x)) /\ s.isn = Isn[x] BY DEF SenderOK, SenderTyped
<1>2. Pieces(x) \subseteq Segment(Byte) BY DEF Pieces
<1> HIDE DEF q
<1>3. q \in Seq(Segment(Byte)) BY <1>1, <1>2, SeqOfSubset
<1>4. Len(q) \in Nat BY <1>3, LenProperties
<1>5. s.next_seqno \in Nat /\ s.receive_ack \in Nat /\ s.receive_ack <= s.next_seqno
  BY SenderFacts
<1>6. s.bytes_in_flight = SpaceOf(q, Len(q)) /\ Base(s) \in 0..s.receive_ack BY DEF Tiled, q
<1>7. s.bytes_in_flight \in Nat
  <2>1. Len(q) \in 0..Len(q) BY <1>4
  <2> QED BY <1>3, <1>6, <2>1, SpaceFacts
<1>8. Base(s) + s.bytes_in_flight = s.next_seqno BY <1>5, <1>7 DEF Base
<1> QED BY <1>1, <1>3, <1>4, <1>5, <1>6, <1>7, <1>8 DEF q

\* What does not touch the tiles.
LEMMA TracksSame ==
  ASSUME NEW x, NEW s, Tracks(x, s), NEW t, SameTiles(s, t)
  PROVE  Tracks(x, t) /\ Forward(s, t)
<1>1. Base(t) = Base(s) BY DEF Base, SameTiles
<1>2. Base(s) <= Base(s)
  <2>1. Base(s) \in 0..s.receive_ack BY DEF Tracks, Tiled
  <2> QED BY <2>1
<1>3. Tiled(t) BY <1>1 DEF Tracks, Tiled, SameTiles
<1>4. /\ t.fin => eof(t.stream)
      /\ t.stream.input_end => t.stream.written = Len(Data[x])
  BY DEF Tracks, SameTiles, eof
<1>5. Forward(s, t) BY <1>1, <1>2 DEF Forward, SameTiles
<1> QED BY <1>3, <1>4, <1>5 DEF Tracks

\* A sender that keeps its tiles has not gone back.
LEMMA MovesSame ==
  ASSUME NEW x, NEW s, Tracks(x, s), NEW t, SameTiles(s, t), t.stream.error = s.stream.error
  PROVE  Moves(x, s, t)
BY TracksSame DEF Moves

\* Nothing happens.
LEMMA MovesItself ==
  ASSUME NEW x, NEW s, Tracks(x, s)
  PROVE  Moves(x, s, s)
BY MovesSame DEF SameTiles

\* One thing after the other.
LEMMA MovesTwice ==
  ASSUME NEW x, NEW s, NEW t, NEW u, Tracks(x, s), Moves(x, s, t), Moves(x, t, u)
  PROVE  Moves(x, s, u)
<1>1. Base(s) \in Int /\ Base(t) \in Int /\ Base(u) \in Int BY DEF Moves, Tracks, Tiled
<1>2. Base(s) <= Base(t) /\ Base(t) <= Base(u) BY DEF Moves, Forward
<1>3. Base(s) <= Base(u) BY <1>1, <1>2
<1> QED BY <1>3 DEF Moves, Forward

\* A new segment adds a tile at next_seqno.
LEMMA TiledAppend ==
  ASSUME NEW s, Tiled(s), s.segments_in_flight \in Seq(Segment(Byte)),
         s.next_seqno \in Nat, s.bytes_in_flight \in Nat,
         NEW seg \in Segment(Byte), seg.seqno = wrap(s.next_seqno, s.isn),
         NEW t, t.isn = s.isn, t.receive_ack = s.receive_ack,
         t.next_seqno = s.next_seqno + length_in_sequence_space(seg),
         t.bytes_in_flight = s.bytes_in_flight + length_in_sequence_space(seg),
         t.segments_in_flight = Append(s.segments_in_flight, seg)
  PROVE  Tiled(t) /\ Base(t) = Base(s)
<1> DEFINE q == s.segments_in_flight
           r == t.segments_in_flight
           m == Len(q)
           l == length_in_sequence_space(seg)
<1>1. m \in Nat /\ l \in Nat BY LenProperties, LengthType
<1>2. /\ r \in Seq(Segment(Byte)) /\ Len(r) = m + 1
      /\ \A k \in 1..m : r[k] = q[k]
      /\ r[m + 1] = seg
      /\ \A k \in 0..m : SpaceOf(r, k) = SpaceOf(q, k)
      /\ SpaceOf(r, m + 1) = SpaceOf(q, m) + l
  BY AppendFacts, SMTT(30)
<1>3. /\ s.bytes_in_flight = SpaceOf(q, m) /\ Base(s) \in 0..s.receive_ack
      /\ \A k \in 1..m : q[k].seqno = wrap(Base(s) + SpaceOf(q, k - 1), s.isn)
  BY DEF Tiled
<1> HIDE DEF l, m, r, q
<1>4. Base(t) = Base(s)
  <2>1. t.next_seqno = s.next_seqno + l /\ t.bytes_in_flight = s.bytes_in_flight + l BY DEF l
  <2> QED BY <1>1, <2>1 DEF Base
<1>5. t.bytes_in_flight = SpaceOf(r, Len(r)) BY <1>2, <1>3 DEF l
<1>6. ASSUME NEW k \in 1..Len(r)
      PROVE  r[k].seqno = wrap(Base(t) + SpaceOf(r, k - 1), t.isn)
  <2>1. k - 1 \in 0..m /\ SpaceOf(r, k - 1) = SpaceOf(q, k - 1) BY <1>1, <1>2
  <2>2. CASE k = m + 1
    <3>1. k - 1 = m BY <1>1, <2>2
    <3>2. Base(s) + SpaceOf(q, m) = s.next_seqno BY <1>3 DEF Base
    <3> QED BY <1>2, <1>4, <2>1, <2>2, <3>1, <3>2
  <2>3. CASE k # m + 1
    <3>1. k \in 1..m BY <1>1, <1>2, <2>3
    <3> QED BY <1>2, <1>3, <1>4, <2>1, <3>1
  <2> QED BY <2>2, <2>3
<1> QED BY <1>3, <1>4, <1>5, <1>6 DEF Tiled, r

\* What send_segment sends lies at the end of the tiles.
LEMMA SendSegmentTiles ==
  ASSUME NEW s, Has(s, SenderFields), Tiled(s), s.segments_in_flight \in Seq(Segment(Byte)),
         s.next_seqno \in Nat, s.bytes_in_flight \in Nat, s.isn \in Nat,
         NEW syn_flag \in BOOLEAN, NEW fin_flag \in BOOLEAN, NEW data \in Seq(Byte)
  PROVE  LET t == send_segment(s, syn_flag, fin_flag, data)
         IN  /\ Tiled(t) /\ Base(t) = Base(s)
             /\ t.syn = s.syn /\ t.fin = s.fin /\ t.stream = s.stream /\ Has(t, SenderFields)
<1> DEFINE seg == [ seqno |-> wrap(s.next_seqno, s.isn), syn |-> syn_flag, fin |-> fin_flag,
                    payload |-> data ]
           len == length_in_sequence_space(seg)
           u == [ s EXCEPT !.next_seqno = @ + len, !.bytes_in_flight = @ + len,
                           !.segments_in_flight = Append(@, seg),
                           !.segments_out = Append(@, seg) ]
           t == send_segment(s, syn_flag, fin_flag, data)
<1>1. t = StartClock(u) BY DEF send_segment
<1>2. seg \in Segment(Byte) /\ seg.seqno = wrap(s.next_seqno, s.isn)
  <2>1. wrap(s.next_seqno, s.isn) \in U32
    <3>1. s.next_seqno \in Int /\ s.isn \in Int OBVIOUS
    <3> QED BY <3>1, WrapCongruent
  <2> QED BY <2>1 DEF Segment
<1> HIDE DEF seg, t
<1>3. /\ Has(u, SenderFields) /\ u.next_seqno = s.next_seqno + len /\ u.isn = s.isn
      /\ u.bytes_in_flight = s.bytes_in_flight + len /\ u.receive_ack = s.receive_ack
      /\ u.segments_in_flight = Append(s.segments_in_flight, seg)
      /\ u.syn = s.syn /\ u.fin = s.fin /\ u.stream = s.stream
  BY DEF Has, SenderFields
<1> HIDE DEF u
<1>4. /\ Has(t, SenderFields) /\ t.next_seqno = u.next_seqno /\ t.isn = u.isn
      /\ t.bytes_in_flight = u.bytes_in_flight /\ t.receive_ack = u.receive_ack
      /\ t.segments_in_flight = u.segments_in_flight
      /\ t.syn = u.syn /\ t.fin = u.fin /\ t.stream = u.stream
  BY <1>1, <1>3 DEF Has, SenderFields, StartClock
<1>5. Tiled(t) /\ Base(t) = Base(s)
  BY <1>2, <1>3, <1>4, TiledAppend
<1> QED BY <1>3, <1>4, <1>5 DEF t

\* A pass of the loop of fill_window.
LEMMA FillOnceMoves ==
  ASSUME NEW x \in Side, NEW s, SenderOK(x, s), s.syn, Tracks(x, s), NEW win \in Nat
  PROVE  Moves(x, s, FillOnce(s, win))
<1> DEFINE len == MinOf(Remaining(s, win), MAX_PAYLOAD_SIZE)
           data == peek_output(s.stream, len)
           rest == pop_output(s.stream, len)
           fin == CarriesFin(rest, data, win)
           u == [ s EXCEPT !.stream = rest, !.fin = fin ]
           t == FillOnce(s, win)
<1>1. CASE FillEnds(s, win) \/ (data = <<>> /\ ~fin)
  <2>1. t = s BY <1>1 DEF FillOnce
  <2> QED BY <2>1, MovesItself
<1>2. CASE ~(FillEnds(s, win) \/ (data = <<>> /\ ~fin))
  <2>1. t = send_segment(u, FALSE, fin, data) BY <1>2 DEF FillOnce
  <2>2. Has(s, SenderFields) /\ Passes(x, s.stream) BY DEF SenderOK, SenderTyped
  <2>3. ~s.fin BY <1>2 DEF FillEnds
  <2>4. len \in Nat
    <3>1. M64 \in Nat \ {0} BY WidthAssumption
    <3>2. win - (s.next_seqno - s.receive_ack) \in Int BY SenderFacts
    <3>3. Remaining(s, win) \in 0..(M64 - 1) BY <3>1, <3>2, ModDef DEF Remaining
    <3> QED BY <3>1, <3>3, SenderAssumption DEF MinOf
  <2>5. data \in Seq(Byte) /\ SameFlags(s.stream, rest) /\ rest.written = s.stream.written
    <3> DEFINE n == MinOf(len, Len(s.stream.buffer))
    <3> HIDE DEF len
    <3>1. /\ n \in 0..len /\ n <= Len(s.stream.buffer) /\ SameFlags(s.stream, rest)
          /\ rest.written = s.stream.written
          /\ data = Part(x, s.stream.readden, n)
      BY <2>2, <2>4, PopPasses
    <3>2. s.stream.readden \in Nat /\ s.stream.readden + n <= Len(Data[x]) /\ n \in Nat
      <4>1. /\ s.stream.readden \in Nat /\ Len(s.stream.buffer) \in Nat
            /\ s.stream.readden + Len(s.stream.buffer) = s.stream.written
            /\ s.stream.written <= Len(Data[x]) /\ Len(Data[x]) \in Nat
        BY <2>2, PassesFacts, DataFacts
      <4> HIDE DEF n
      <4> QED BY <2>4, <3>1, <4>1
    <3> HIDE DEF n, data, rest
    <3>3. data \in Seq(Byte) BY <3>1, <3>2, PartFacts
    <3> QED BY <3>1, <3>3
  <2>6. fin \in BOOLEAN /\ (fin => eof(rest)) BY DEF CarriesFin
  <2>7. Tiled(s) BY DEF Tracks
  <2>8. /\ s.segments_in_flight \in Seq(Segment(Byte)) /\ s.next_seqno \in Nat
        /\ s.bytes_in_flight \in Nat /\ Base(s) \in Nat /\ s.isn \in Nat
    BY <2>7, TiledFacts, DataFacts
  <2> HIDE DEF rest, data, fin, len
  <2>9. /\ Has(u, SenderFields) /\ u.stream = rest /\ u.fin = fin /\ u.syn = s.syn
        /\ u.next_seqno = s.next_seqno /\ u.bytes_in_flight = s.bytes_in_flight
        /\ u.segments_in_flight = s.segments_in_flight /\ u.isn = s.isn
        /\ u.receive_ack = s.receive_ack
    BY <2>2 DEF Has, SenderFields
  <2> HIDE DEF u, t
  <2>10. Tiled(u) /\ Base(u) = Base(s) BY <2>7, <2>9 DEF Tiled, Base
  <2>11. /\ Tiled(t) /\ Base(t) = Base(u)
         /\ t.syn = u.syn /\ t.fin = u.fin /\ t.stream = u.stream
    <3>1. /\ u.segments_in_flight \in Seq(Segment(Byte)) /\ u.next_seqno \in Nat
          /\ u.bytes_in_flight \in Nat /\ u.isn \in Nat
      BY <2>8, <2>9
    <3>2. FALSE \in BOOLEAN /\ fin \in BOOLEAN /\ data \in Seq(Byte) BY <2>5, <2>6
    <3> DEFINE v == send_segment(u, FALSE, fin, data)
    <3>3. /\ Tiled(v) /\ Base(v) = Base(u)
          /\ v.syn = u.syn /\ v.fin = u.fin /\ v.stream = u.stream
      BY <2>9, <2>10, <3>1, <3>2, SendSegmentTiles, ZenonT(30)
    <3> QED BY <2>1, <3>3
  <2>12. Forward(s, t)
    <3>1. Base(s) <= Base(t) BY <2>8, <2>10, <2>11
    <3> QED BY <2>3, <2>5, <2>9, <2>11, <3>1 DEF Forward, SameFlags
  <2>13. t.stream.input_end => t.stream.written = Len(Data[x])
    BY <2>5, <2>9, <2>11 DEF Tracks, SameFlags
  <2> QED BY <2>5, <2>6, <2>9, <2>11, <2>12, <2>13 DEF Moves, Tracks, SameFlags, t
<1> QED BY <1>1, <1>2

\* fill_window.
LEMMA FillWindowMoves ==
  ASSUME NEW x \in Side, NEW s, SenderOK(x, s), Tracks(x, s)
  PROVE  Moves(x, s, fill_window(s))
<1> DEFINE t == fill_window(s)
<1>1. /\ SenderTyped(x, s) /\ Has(s, SenderFields) /\ Passes(x, s.stream)
      /\ s.syn \in BOOLEAN /\ (~s.syn => ~s.fin) /\ s.window_size \in Nat
  BY TCPConfigAssumption DEF SenderOK, SenderTyped
<1>2. Tiled(s) BY DEF Tracks
<1>3. /\ s.segments_in_flight \in Seq(Segment(Byte)) /\ s.next_seqno \in Nat
      /\ s.bytes_in_flight \in Nat /\ Base(s) \in Nat /\ s.isn \in Nat
  BY <1>2, TiledFacts, DataFacts
<1>4. CASE ~s.syn
  <2> DEFINE none == <<>>
             u == send_segment(s, TRUE, FALSE, none)
  <2>1. t = [ u EXCEPT !.syn = TRUE ] BY <1>4 DEF fill_window
  <2>2. none \in Seq(Byte) BY EmptySeq
  <2> HIDE DEF none
  <2>3. TRUE \in BOOLEAN /\ FALSE \in BOOLEAN OBVIOUS
  <2>4. /\ Tiled(u) /\ Base(u) = Base(s) /\ u.fin = s.fin /\ u.stream = s.stream
        /\ Has(u, SenderFields)
    BY <1>1, <1>2, <1>3, <2>2, <2>3, SendSegmentTiles, ZenonT(30)
  <2> HIDE DEF u, t
  <2>5. /\ t.next_seqno = u.next_seqno /\ t.bytes_in_flight = u.bytes_in_flight
        /\ t.segments_in_flight = u.segments_in_flight /\ t.isn = u.isn
        /\ t.receive_ack = u.receive_ack /\ t.fin = u.fin /\ t.stream = u.stream
        /\ t.syn = TRUE
    BY <2>1, <2>4 DEF Has, SenderFields
  <2>6. Tiled(t) /\ Base(t) = Base(s) BY <2>4, <2>5 DEF Tiled, Base
  <2>7. Base(s) <= Base(t) BY <1>3, <2>6
  <2> QED BY <1>1, <1>4, <2>4, <2>5, <2>6, <2>7 DEF Moves, Tracks, Forward, t
<1>5. CASE s.syn
  <2> DEFINE win == IF s.window_size > 0 THEN s.window_size ELSE 1
             base == [ s EXCEPT !.window_is_zero = (s.window_size = 0) ]
             passes == Len(s.stream.buffer) + 1
             after[k \in 0..passes] ==
                 IF k = 0 THEN base ELSE FillOnce(after[k - 1], win)
  <2>1. t = after[passes] BY <1>5, ZenonT(30) DEF fill_window
  <2>2. passes \in Nat BY <1>1, PassesFacts
  <2>3. win \in Nat BY <1>1
  <2>4. SenderOK(x, base) /\ base.syn /\ Moves(x, s, base)
    <3> DEFINE z == s.window_size = 0
    <3>1. base = [ s EXCEPT !.window_is_zero = z ] OBVIOUS
    <3> HIDE DEF base, z
    <3>2. /\ Has(base, SenderFields) /\ SameTiles(s, base)
          /\ base.stream = s.stream /\ base.checkpoint = s.checkpoint
          /\ base.window_size = s.window_size /\ base.segments_out = s.segments_out
      BY <1>1, <3>1 DEF Has, SenderFields, SameTiles
    <3>3. SenderTyped(x, base) BY <1>1, <3>2 DEF SenderTyped, SameTiles
    <3>4. Moves(x, s, base) BY <3>2, MovesSame
    <3> QED BY <1>5, <3>2, <3>3, <3>4 DEF SenderOK, SameTiles
  <2> HIDE DEF base, passes, win
  <2>5. PICK f : FillValues(f, passes, base, win) BY <2>2, FillLoop
  <2>6. after = [ k \in 0..passes |-> IF k = 0 THEN base ELSE FillOnce(after[k - 1], win) ]
    BY <2>5, ZenonT(30) DEF FillValues
  <2> HIDE DEF after
  <2> DEFINE S == { k \in 0..passes : /\ SenderOK(x, after[k]) /\ after[k].syn
                                      /\ Moves(x, s, after[k]) }
  <2>7. 0 \in S
    <3>1. 0 \in 0..passes BY <2>2
    <3>2. after[0] = base BY <2>6, <3>1
    <3> QED BY <2>4, <3>1, <3>2
  <2>8. ASSUME NEW k \in 0..(passes - 1), k \in S PROVE k + 1 \in S
    <3>1. k + 1 \in 0..passes /\ k + 1 # 0 /\ (k + 1) - 1 = k BY <2>2
    <3>2. after[k + 1] = FillOnce(after[k], win) BY <2>6, <3>1
    <3>3. SenderOK(x, after[k]) /\ after[k].syn /\ Moves(x, s, after[k]) BY <2>8
    <3> DEFINE v == after[k]
               w == FillOnce(v, win)
    <3> HIDE DEF v
    <3>4. SenderOK(x, w) /\ w.syn BY <2>3, <3>3, FillOnceOK DEF v
    <3>5. Moves(x, v, w) BY <2>3, <3>3, FillOnceMoves DEF v, Moves
    <3> HIDE DEF w
    <3>6. Moves(x, s, w) BY <3>3, <3>5, MovesTwice DEF v
    <3> QED BY <3>1, <3>2, <3>4, <3>6 DEF w, v
  <2> HIDE DEF S
  <2>9. \A k \in 0..passes : k \in S BY <2>2, <2>7, <2>8, UpToInduction
  <2>10. passes \in S BY <2>2, <2>9
  <2> QED BY <2>1, <2>10 DEF S
<1> QED BY <1>1, <1>4, <1>5

\* What only queues a segment again, or an empty one, or sets the timer.
LEMMA SendEmptyTiles ==
  ASSUME NEW s, Has(s, SenderFields)
  PROVE  SameTiles(s, send_empty_segment(s)) /\ send_empty_segment(s).stream = s.stream
<1> DEFINE seg == [ seqno |-> wrap(s.next_seqno, s.isn), syn |-> FALSE, fin |-> FALSE,
                    payload |-> <<>> ]
           q == Append(s.segments_out, seg)
           t == send_empty_segment(s)
<1>1. t = [ s EXCEPT !.segments_out = q ] BY DEF send_empty_segment
<1> HIDE DEF q, t
<1>2. SameTiles(s, t) /\ t.stream = s.stream BY <1>1 DEF Has, SenderFields, SameTiles
<1> QED BY <1>2 DEF t

\* Time sets the timer, and queues the oldest segment again.
LEMMA TickTiles ==
  ASSUME NEW s, Has(s, SenderFields), NEW ms
  PROVE  SameTiles(s, tick(s, ms)) /\ tick(s, ms).stream = s.stream
<1> DEFINE t == tick(s, ms)
           now == s.clock + ms
           q == Append(s.segments_out, Head(s.segments_in_flight))
           n == s.consecutive_retrans + 1
           r == IF s.window_is_zero THEN s.retrans_timeout ELSE 2 * s.retrans_timeout
           on == s.clock_is_counting /\ s.segments_in_flight # <<>>
<1>1. \/ t = [ s EXCEPT !.segments_out = q, !.consecutive_retrans = n,
                        !.clock_is_counting = TRUE, !.clock = 0, !.retrans_timeout = r ]
      \/ t = [ s EXCEPT !.clock = now, !.clock_is_counting = on ]
  BY DEF tick
<1> HIDE DEF t, now, q, n, r, on
<1>2. SameTiles(s, t) /\ t.stream = s.stream BY <1>1 DEF Has, SenderFields, SameTiles
<1> QED BY <1>2 DEF t

\* An acknowledgment restarts the timer.
LEMMA RestartTimerTiles ==
  ASSUME NEW s, Has(s, SenderFields)
  PROVE  SameTiles(s, RestartTimer(s)) /\ RestartTimer(s).stream = s.stream
<1> DEFINE t == RestartTimer(s)
           on == s.clock_is_counting \/ s.segments_in_flight # <<>>
           c == IF s.segments_in_flight # <<>> THEN 0 ELSE s.clock
<1>1. t = [ s EXCEPT !.retrans_timeout = RTO, !.consecutive_retrans = 0,
                     !.clock_is_counting = on, !.clock = c ]
  BY DEF RestartTimer
<1> HIDE DEF t, on, c
<1>2. SameTiles(s, t) /\ t.stream = s.stream BY <1>1 DEF Has, SenderFields, SameTiles
<1> QED BY <1>2 DEF t

\* The space a queue takes grows with the queue.
LEMMA SpaceGrows ==
  ASSUME NEW q \in Seq(Segment(Byte)), NEW k \in 0..Len(q)
  PROVE  SpaceOf(q, k) \in Nat /\ SpaceOf(q, Len(q)) \in Nat /\ SpaceOf(q, k) <= SpaceOf(q, Len(q))
<1> DEFINE r == SubSeq(q, k + 1, Len(q))
           m == Len(q) - k
<1>1. Len(q) \in Nat /\ m \in 0..m /\ k + m = Len(q) BY LenProperties
<1>2. /\ r \in Seq(Segment(Byte)) /\ Len(r) = m
      /\ \A j \in 0..m : SpaceOf(r, j) = SpaceOf(q, k + j) - SpaceOf(q, k)
  BY SuffixFacts
<1> HIDE DEF r
<1>3. SpaceOf(r, m) = SpaceOf(q, Len(q)) - SpaceOf(q, k) BY <1>1, <1>2
<1>4. SpaceOf(r, m) \in Nat BY <1>1, <1>2, SpaceFacts
<1>5. SpaceOf(q, k) \in Nat /\ SpaceOf(q, Len(q)) \in Nat
  <2>1. Len(q) \in 0..Len(q) BY <1>1
  <2> QED BY <2>1, SpaceFacts
<1> HIDE DEF m
<1> QED BY <1>3, <1>4, <1>5

\* A segment in flight that is taken for acknowledged ends where the ackno says or before.
LEMMA AckedMeans ==
  ASSUME ShortStreams, NEW x \in Side, NEW s, SenderOK(x, s), Tiled(s),
         NEW k \in 1..Len(s.segments_in_flight), NEW a, Acked(s, s.segments_in_flight[k], a)
  PROVE  Base(s) + SpaceOf(s.segments_in_flight, k) <= a
<1> DEFINE q == s.segments_in_flight
           b == Base(s) + SpaceOf(q, k - 1)
           n == s.next_seqno
<1>1. /\ q \in Seq(Segment(Byte)) /\ Len(q) \in Nat /\ s.isn = Isn[x] /\ Base(s) \in Nat
      /\ Base(s) + s.bytes_in_flight = n /\ s.bytes_in_flight \in Nat
  BY TiledFacts
<1>2. n \in Nat /\ n <= Len(Data[x]) + 2
  <2>1. n \in 0..(Len(Data[x]) + 2) /\ Len(Data[x]) \in Nat BY SenderFacts, DataFacts
  <2> HIDE DEF n
  <2> QED BY <2>1
<1>3. s.bytes_in_flight = SpaceOf(q, Len(q)) /\ q[k].seqno = wrap(b, s.isn) BY DEF Tiled
<1>4. b \in Nat /\ b <= n
  <2>1. k - 1 \in 0..Len(q) BY <1>1
  <2>2. /\ SpaceOf(q, k - 1) \in Nat /\ SpaceOf(q, Len(q)) \in Nat
        /\ SpaceOf(q, k - 1) <= SpaceOf(q, Len(q))
    BY <1>1, <2>1, SpaceGrows
  <2> HIDE DEF n, q
  <2> QED BY <1>1, <1>3, <2>2
<1> HIDE DEF b, n
<1>5. unwrap(wrap(b, Isn[x]), Isn[x], n) = b
  <2>1. /\ Len(Data[x]) \in Nat /\ Isn[x] \in Nat /\ HALF \in Nat
        /\ Len(Data[x]) + 2 < HALF /\ 2 * M32 <= M64
    BY DataFacts, WidthFacts DEF ShortStreams
  <2>2. b < HALF /\ n < HALF BY <1>2, <1>4, <2>1
  <2> QED BY <1>2, <1>4, <2>1, <2>2, UnwrapShort
<1>6. b + length_in_sequence_space(q[k]) <= a BY <1>1, <1>3, <1>5 DEF Acked, n
<1>7. SpaceOf(q, k) = SpaceOf(q, k - 1) + length_in_sequence_space(q[k])
  BY <1>1, SpaceFacts
<1>8. SpaceOf(q, k - 1) \in Nat /\ length_in_sequence_space(q[k]) \in Nat
  <2>1. k - 1 \in 0..Len(q) BY <1>1
  <2>2. q[k] \in Segment(Byte) BY <1>1, ElementOfSeq
  <2> QED BY <1>1, <2>1, <2>2, SpaceGrows, LengthType
<1>9. Base(s) + SpaceOf(q, k) = b + length_in_sequence_space(q[k]) BY <1>1, <1>7, <1>8 DEF b
<1> QED BY <1>6, <1>9

\* What is left when the first g segments are gone begins where the last of them ended.
LEMMA TilesPop ==
  ASSUME NEW x \in Side, NEW s, SenderOK(x, s), Tiled(s), NEW g \in 0..Len(s.segments_in_flight),
         Base(s) + SpaceOf(s.segments_in_flight, g) <= s.receive_ack,
         NEW t, t.isn = s.isn, t.next_seqno = s.next_seqno, t.receive_ack = s.receive_ack,
         t.segments_in_flight =
           SubSeq(s.segments_in_flight, g + 1, Len(s.segments_in_flight)),
         t.bytes_in_flight = s.bytes_in_flight - SpaceOf(s.segments_in_flight, g)
  PROVE  Tiled(t) /\ Base(s) <= Base(t)
<1> DEFINE q == s.segments_in_flight
           r == t.segments_in_flight
           m == Len(q)
           b == Base(s)
           e == SpaceOf(q, g)
<1>1. /\ q \in Seq(Segment(Byte)) /\ m \in Nat /\ s.next_seqno \in Nat /\ s.receive_ack \in Nat
      /\ s.bytes_in_flight \in Nat /\ b \in Nat
  BY TiledFacts
<1>2. /\ s.bytes_in_flight = SpaceOf(q, m)
      /\ \A k \in 1..m : q[k].seqno = wrap(b + SpaceOf(q, k - 1), s.isn)
  BY DEF Tiled
<1>3. /\ r \in Seq(Segment(Byte)) /\ Len(r) = m - g
      /\ \A k \in 1..(m - g) : r[k] = q[g + k]
      /\ \A k \in 0..(m - g) : SpaceOf(r, k) = SpaceOf(q, g + k) - e
  <2>1. g \in 0..Len(q) /\ r = SubSeq(q, g + 1, Len(q)) OBVIOUS
  <2> HIDE DEF r, q
  <2>2. LET z == SubSeq(q, g + 1, Len(q))
        IN  /\ z \in Seq(Segment(Byte)) /\ Len(z) = Len(q) - g
            /\ \A k \in 1..(Len(q) - g) : z[k] = q[g + k]
            /\ \A k \in 0..(Len(q) - g) : SpaceOf(z, k) = SpaceOf(q, g + k) - SpaceOf(q, g)
    BY <1>1, <2>1, SuffixFacts
  <2> QED BY <2>1, <2>2
<1>4. e \in Nat /\ g \in Nat /\ g <= m BY <1>1, SpaceFacts
<1>5. Base(t) = b + e /\ b + e <= s.receive_ack
  <2>1. b = s.next_seqno - s.bytes_in_flight BY DEF Base
  <2>2. Base(t) = s.next_seqno - (s.bytes_in_flight - e) BY DEF Base
  <2>3. b + e <= s.receive_ack OBVIOUS
  <2> HIDE DEF e, b
  <2> QED BY <1>1, <1>4, <2>1, <2>2, <2>3
<1>6. t.bytes_in_flight = SpaceOf(r, Len(r))
  <2>1. t.bytes_in_flight = SpaceOf(q, m) - e BY <1>2
  <2>2. m - g \in 0..(m - g) /\ g + (m - g) = m BY <1>1, <1>4
  <2> HIDE DEF e, m, r
  <2> QED BY <1>3, <2>1, <2>2
<1>7. ASSUME NEW k \in 1..Len(r)
      PROVE  r[k].seqno = wrap(Base(t) + SpaceOf(r, k - 1), t.isn)
  <2>1. /\ k \in 1..(m - g) /\ k - 1 \in 0..(m - g) /\ g + k \in 1..m
        /\ (g + k) - 1 = g + (k - 1) /\ g + (k - 1) \in 0..m
    BY <1>1, <1>3, <1>4
  <2>2. r[k].seqno = wrap(b + SpaceOf(q, g + (k - 1)), s.isn) BY <1>2, <1>3, <2>1
  <2>3. SpaceOf(r, k - 1) = SpaceOf(q, g + (k - 1)) - e BY <1>3, <2>1
  <2>4. SpaceOf(q, g + (k - 1)) \in Nat BY <1>1, <2>1, SpaceFacts
  <2> DEFINE p == SpaceOf(q, g + (k - 1))
  <2>5. p \in Nat /\ SpaceOf(r, k - 1) = p - e /\ r[k].seqno = wrap(b + p, s.isn)
    BY <2>2, <2>3, <2>4
  <2> HIDE DEF p, e, b, r
  <2>6. Base(t) + SpaceOf(r, k - 1) = b + p BY <1>1, <1>4, <1>5, <2>5
  <2> QED BY <2>5, <2>6
<1> HIDE DEF r, e, b
<1>8. Base(t) \in 0..t.receive_ack BY <1>1, <1>4, <1>5
<1> QED BY <1>1, <1>4, <1>5, <1>6, <1>7, <1>8 DEF Tiled, r, b

\* The segments taken for acknowledged leave.
LEMMA DropAckedMoves ==
  ASSUME ShortStreams, NEW x \in Side, NEW s, SenderOK(x, s), Tracks(x, s)
  PROVE  Moves(x, s, DropAcked(s, s.receive_ack))
<1> DEFINE queue == s.segments_in_flight
           a == s.receive_ack
           stays == { k \in 1..Len(queue) : ~Acked(s, queue[k], a) }
           gone == IF stays = {} THEN Len(queue)
                   ELSE (CHOOSE k \in stays : \A j \in stays : k <= j) - 1
           rest == SubSeq(queue, gone + 1, Len(queue))
           b == s.bytes_in_flight - SpaceOf(queue, gone)
           t == DropAcked(s, a)
<1>1. Has(s, SenderFields) /\ Tiled(s) BY DEF SenderOK, SenderTyped, Tracks
<1>2. queue \in Seq(Segment(Byte)) /\ Len(queue) \in Nat /\ Base(s) \in Nat /\ a \in Nat
      /\ Base(s) <= a
  BY <1>1, TiledFacts
<1>3. gone \in 0..Len(queue) /\ (gone # 0 => Acked(s, queue[gone], a))
  <2>1. CASE stays = {}
    <3>1. gone = Len(queue) BY <2>1
    <3>2. \A k \in 1..Len(queue) : Acked(s, queue[k], a) BY <2>1
    <3> HIDE DEF gone, stays, a, queue
    <3> QED BY <1>2, <3>1, <3>2
  <2>2. CASE stays # {}
    <3>1. stays \in SUBSET Nat OBVIOUS
    <3> DEFINE m == CHOOSE k \in stays : \A j \in stays : k <= j
    <3>2. \E k \in stays : \A j \in stays : k <= j
      <4> HIDE DEF stays
      <4> QED BY <2>2, <3>1, LeastElement
    <3>3. m \in stays /\ \A j \in stays : m <= j BY <3>2
    <3>4. gone = m - 1 BY <2>2
    <3> HIDE DEF m, gone
    <3>5. m \in 1..Len(queue) BY <3>3
    <3>6. \A k \in 1..Len(queue) : k < m => Acked(s, queue[k], a)
      <4> SUFFICES ASSUME NEW k \in 1..Len(queue), k < m PROVE Acked(s, queue[k], a) OBVIOUS
      <4>1. ~(m <= k) BY <3>5
      <4>2. k \notin stays
        <5> HIDE DEF stays
        <5> QED BY <3>3, <4>1
      <4> QED BY <4>2
    <3> HIDE DEF queue, stays, a
    <3>7. gone \in 0..Len(queue) /\ (gone # 0 => gone \in 1..Len(queue) /\ gone < m)
      BY <1>2, <3>4, <3>5
    <3> QED BY <3>6, <3>7
  <2> QED BY <2>1, <2>2
<1>4. t = [ s EXCEPT !.segments_in_flight = rest, !.bytes_in_flight = b ]
  BY DEF DropAcked, gone, stays
<1> HIDE DEF stays, gone
<1>5. Base(s) + SpaceOf(queue, gone) <= a
  <2>1. CASE gone = 0
    <3>1. SpaceOf(queue, 0) = 0 BY <1>2, SpaceFacts
    <3> HIDE DEF queue, a
    <3> QED BY <1>2, <2>1, <3>1
  <2>2. CASE gone # 0
    <3>1. gone \in 1..Len(s.segments_in_flight) BY <1>2, <1>3, <2>2
    <3> QED BY <1>1, <1>3, <2>2, <3>1, AckedMeans
  <2> QED BY <2>1, <2>2
<1> HIDE DEF t
<1>6. /\ t.segments_in_flight = rest /\ t.bytes_in_flight = b /\ t.isn = s.isn
      /\ t.next_seqno = s.next_seqno /\ t.receive_ack = s.receive_ack
      /\ t.syn = s.syn /\ t.fin = s.fin /\ t.stream = s.stream
  <2> HIDE DEF rest, b
  <2> QED BY <1>1, <1>4 DEF Has, SenderFields
<1>7. Tiled(t) /\ Base(s) <= Base(t) BY <1>1, <1>3, <1>5, <1>6, TilesPop
<1> QED BY <1>6, <1>7 DEF Moves, Tracks, Forward, t

\* unwrap returns a number.
LEMMA UnwrapType ==
  ASSUME NEW n \in Nat, NEW i \in Nat, NEW c \in Nat
  PROVE  unwrap(n, i, c) \in Nat
<1> DEFINE w == wrap(c, i)
           diff == (n - w) % M32
           res == (diff + c) % M64
<1>1. M32 \in Nat \ {0} /\ M64 \in Nat \ {0} BY WidthFacts, WidthAssumption
<1>2. w \in Nat BY WrapCongruent DEF U32
<1>3. unwrap(n, i, c) = IF diff >= HALF /\ res >= M32 THEN res - M32 ELSE res BY DEF unwrap
<1> HIDE DEF w
<1>4. n - w \in Int BY <1>2
<1>5. diff \in 0..(M32 - 1) BY <1>1, <1>4, ModDef
<1> HIDE DEF diff
<1>6. diff + c \in Int BY <1>1, <1>5
<1>7. res \in 0..(M64 - 1) BY <1>1, <1>6, ModDef
<1> HIDE DEF res
<1> QED BY <1>1, <1>3, <1>7

\* An acknowledgment moves the sender on.
LEMMA AckReceivedMoves ==
  ASSUME ShortStreams, NEW x \in Side, NEW s, SenderOK(x, s), Tracks(x, s), NEW n \in Nat,
         NEW w \in 0..RecvCapacity
  PROVE  Moves(x, s, ack_received(s, n, w))
<1> DEFINE t == ack_received(s, n, w)
           a == unwrap(n, s.isn, s.checkpoint)
           synced == [ s EXCEPT !.window_size = w ]
           u == [ synced EXCEPT !.receive_ack = a, !.checkpoint = a ]
           d == DropAcked(u, a)
           v == fill_window(d)
           z == RestartTimer(v)
<1>1. SenderTyped(x, s) /\ Has(s, SenderFields) /\ s.isn = Isn[x] /\ s.checkpoint = s.receive_ack
  BY DEF SenderOK, SenderTyped
<1>2. s.next_seqno \in Nat /\ s.receive_ack \in Nat BY SenderFacts
<1>3. a \in Nat
  <2>1. Isn[x] \in Nat BY DataFacts
  <2> QED BY <1>1, <1>2, <2>1, UnwrapType
<1>4. t = IF a > s.next_seqno THEN s ELSE IF a <= s.receive_ack THEN synced ELSE z
  BY DEF ack_received
<1> HIDE DEF a
<1>5. /\ Has(synced, SenderFields) /\ SameTiles(s, synced) /\ synced.stream = s.stream
      /\ synced.segments_out = s.segments_out /\ synced.window_size = w
  BY <1>1 DEF Has, SenderFields, SameTiles
<1> HIDE DEF synced
<1>6. Moves(x, s, s) /\ Moves(x, s, synced) BY <1>5, MovesItself, MovesSame
<1>7. ASSUME ~(a > s.next_seqno), ~(a <= s.receive_ack) PROVE Moves(x, s, z)
  <2>1. /\ Has(u, SenderFields) /\ u.receive_ack = a /\ u.checkpoint = a
        /\ u.syn = s.syn /\ u.fin = s.fin /\ u.stream = s.stream /\ u.window_size = w
        /\ u.next_seqno = s.next_seqno /\ u.isn = s.isn
        /\ u.bytes_in_flight = s.bytes_in_flight
        /\ u.segments_in_flight = s.segments_in_flight /\ u.segments_out = s.segments_out
    BY <1>5 DEF Has, SenderFields, SameTiles
  <2> HIDE DEF u
  <2>2. SenderTyped(x, u) BY <1>1, <2>1 DEF SenderTyped
  <2>3. a \in 0..s.next_seqno BY <1>2, <1>3, <1>7
  <2>4. SenderOK(x, u) BY <2>1, <2>2, <2>3 DEF SenderOK
  <2>5. Base(u) = Base(s) /\ Base(s) \in 0..s.receive_ack BY <2>1 DEF Base, Tracks, Tiled
  <2>6. Base(s) <= Base(u) /\ Base(u) \in 0..u.receive_ack BY <1>2, <1>3, <1>7, <2>1, <2>5
  <2>7. Tiled(u) BY <2>1, <2>5, <2>6 DEF Tracks, Tiled
  <2>8. Moves(x, s, u) BY <2>1, <2>6, <2>7 DEF Moves, Tracks, Forward
  <2>9. Tracks(x, u) BY <2>8 DEF Moves
  <2>10. Moves(x, u, d) BY <2>1, <2>4, <2>9, DropAckedMoves
  <2>11. SenderOK(x, d) BY <1>3, <2>4, DropAckedOK
  <2>12. Moves(x, s, d) BY <2>8, <2>10, MovesTwice
  <2> HIDE DEF d
  <2>13. Tracks(x, d) BY <2>12 DEF Moves
  <2>14. Moves(x, d, v) /\ SenderOK(x, v) BY <2>11, <2>13, FillWindowMoves, FillWindowOK
  <2>15. Moves(x, s, v) BY <2>12, <2>14, MovesTwice
  <2> HIDE DEF v
  <2>16. Tracks(x, v) /\ Has(v, SenderFields) BY <2>14, <2>15 DEF Moves, SenderOK, SenderTyped
  <2>17. SameTiles(v, z) /\ z.stream = v.stream BY <2>16, RestartTimerTiles
  <2> HIDE DEF z
  <2>18. Moves(x, v, z) BY <2>16, <2>17, MovesSame
  <2> QED BY <2>15, <2>18, MovesTwice
<1> HIDE DEF z, t
<1>8. Moves(x, s, t) BY <1>4, <1>6, <1>7
<1> QED BY <1>8 DEF t

-----------------------------------------------------------------------------
\* What of a receiver does not go back.
Gains(r, u) ==
    /\ r.syn => u.syn
    /\ stream_out(r).input_end => stream_out(u).input_end

\* TCPReceiver::segment_received.
LEMMA ReceivedGains ==
  ASSUME ShortStreams, NEW x \in Side, NEW r, ReceiverOK(x, r), NEW seg, PieceOf(x, seg)
  PROVE  LET u == segment_received(r, RecvCapacity, seg)
         IN  Gains(r, u) /\ stream_out(u).error = stream_out(r).error
<1> DEFINE u == segment_received(r, RecvCapacity, seg)
           a == AcceptSyn(r, seg)
           t == PushPayload(a, RecvCapacity, seg)
<1>1. CASE seg.syn /\ r.syn
  <2>1. u = r BY <1>1 DEF segment_received
  <2> QED BY <2>1 DEF Gains
<1>2. CASE ~(seg.syn /\ r.syn)
  <2>1. u = CountFin(t, seg) BY <1>2 DEF segment_received
  <2>2. ReceiverOK(x, a) /\ a.reassembler = r.reassembler BY <1>2, AcceptSynOK
  <2>3. r.syn => a.syn
    <3>1. Has(r, ReceiverFields) BY DEF ReceiverOK
    <3> QED BY <3>1 DEF AcceptSyn, Has, ReceiverFields
  <2> HIDE DEF a
  <2>4. Pushed(x, a, seg, t) BY <2>2, PushPayloadOK
  <2>5. stream_out(a) = stream_out(r) BY <2>2 DEF stream_out
  <2>6. stream_out(a).input_end => ~a.fin_not_count BY <2>2 DEF ReceiverOK
  <2> HIDE DEF t, u
  <2>7. /\ Has(t, ReceiverFields) /\ Assembles(x, t.reassembler) /\ t.syn = a.syn
        /\ stream_out(a).input_end => stream_out(t).input_end
        /\ stream_out(t).error = stream_out(a).error
    BY <2>4, <2>6 DEF Pushed, Continues, stream_out
  <2>8. /\ u.syn = t.syn /\ stream_out(u).error = stream_out(t).error
        /\ stream_out(t).input_end => stream_out(u).input_end
    <3> DEFINE fin == t.fin \/ (seg.fin /\ t.syn)
               p == EndOutput(t.reassembler)
               ack == IF t.fin_not_count THEN Plus32(t.ackno, 1) ELSE t.ackno
    <3>1. \/ u = [ t EXCEPT !.fin = fin ]
          \/ u = [ t EXCEPT !.fin = TRUE, !.ackno = ack, !.fin_not_count = FALSE,
                            !.reassembler = p ]
      BY <2>1 DEF CountFin
    <3>2. p.output.input_end = TRUE /\ p.output.error = t.reassembler.output.error
      BY <2>7 DEF EndOutput, end_input, Assembles, Passes, Has, ReassemblerFields, StreamFields
    <3> HIDE DEF fin, p, ack
    <3>3. u.syn = t.syn /\ u.reassembler \in { t.reassembler, p }
      BY <2>7, <3>1 DEF Has, ReceiverFields
    <3> QED BY <3>2, <3>3 DEF stream_out
  <2> QED BY <2>3, <2>5, <2>7, <2>8 DEF Gains, u
<1> QED BY <1>1, <1>2

\* The receiver has come to the ackno 0, which ackno() takes for none (AcknoZero).
Unnumbered(r) == r.syn /\ r.ackno = 0

\* The state of a receiver only moves forward, unless its ackno is 0.
LEMMA ReceiverAdvances ==
  ASSUME NEW x \in Side, NEW r, ReceiverOK(x, r), NEW u, ReceiverOK(x, u), Gains(r, u),
         stream_out(r).error => stream_out(u).error
  PROVE  \/ ReceiverStage[ReceiverSummary(r)] <= ReceiverStage[ReceiverSummary(u)]
         \/ Unnumbered(u) /\ ReceiverSummary(u) = "LISTEN"
<1> DEFINE At(v) == IF stream_out(v).error THEN 3
                    ELSE IF ~v.syn THEN 0
                    ELSE IF stream_out(v).input_end THEN 2
                    ELSE 1
<1>1. ASSUME NEW v
      PROVE  /\ ReceiverStage[ReceiverSummary(v)] <= At(v)
             /\ ~Unnumbered(v) \/ stream_out(v).error => ReceiverStage[ReceiverSummary(v)] = At(v)
             /\ Unnumbered(v) /\ ~stream_out(v).error => ReceiverSummary(v) = "LISTEN"
  <2>1. ackno(v) = {} <=> ~v.syn \/ v.ackno = 0 BY DEF ackno
  <2>2. /\ ReceiverStage["LISTEN"] = 0 /\ ReceiverStage["SYN_RECV"] = 1
        /\ ReceiverStage["FIN_RECV"] = 2 /\ ReceiverStage["ERROR"] = 3
    BY DEF ReceiverStage
  <2> QED BY <2>1, <2>2 DEF ReceiverSummary, Unnumbered
<1>2. stream_out(r).input_end => r.syn
  BY DEF ReceiverOK
<1>3. At(r) <= At(u) BY <1>2 DEF Gains
<1>4. /\ ReceiverStage[ReceiverSummary(r)] <= At(r)
      /\ \/ ReceiverStage[ReceiverSummary(u)] = At(u)
         \/ Unnumbered(u) /\ ReceiverSummary(u) = "LISTEN"
  BY <1>1
<1>5. ReceiverStage[ReceiverSummary(r)] \in 0..3
  BY DEF ReceiverStage, ReceiverSummary
<1>6. At(r) \in 0..3 /\ At(u) \in 0..3 OBVIOUS
<1> HIDE DEF At
<1> QED BY <1>3, <1>4, <1>5, <1>6

\* The state of a sender, in terms of how far it has got.
Stage(s) ==
    IF s.stream.error THEN 5
    ELSE IF ~s.syn THEN 0
    ELSE IF Base(s) = 0 THEN 1
    ELSE IF ~s.fin THEN 2
    ELSE IF s.bytes_in_flight > 0 THEN 3
    ELSE 4

\* What TCPState::state_summary makes of it.
LEMMA StageMeans ==
  ASSUME NEW x \in Side, NEW s, SenderOK(x, s), Tracks(x, s)
  PROVE  /\ SenderStage[SenderSummary(s)] = Stage(s)
         /\ s.fin /\ s.bytes_in_flight = 0 /\ ~s.stream.error => SenderSummary(s) = "FIN_ACKED"
<1> DEFINE n == s.next_seqno
           f == s.stream
           l == Len(f.buffer)
<1>1. /\ n = Bit(s.syn) + f.readden + Bit(s.fin) /\ Passes(x, f)
      /\ s.syn \in BOOLEAN /\ s.fin \in BOOLEAN
      /\ ~s.syn => f.readden = 0 /\ ~s.fin
  BY DEF SenderOK
<1>2. f.readden \in Nat /\ f.written \in Nat /\ f.buffer \in Seq(Byte) /\ l \in Nat
      /\ f.readden + l = f.written
  BY <1>1, PassesFacts
<1>3. n \in Nat /\ s.bytes_in_flight \in Nat /\ Base(s) \in Nat /\ Base(s) + s.bytes_in_flight = n
  BY TiledFacts DEF Tracks
<1>4. s.fin => eof(f) BY DEF Tracks
<1>5. eof(f) => f.readden = f.written
  <2> SUFFICES ASSUME eof(f) PROVE f.readden = f.written OBVIOUS
  <2>1. l = 0 BY EmptySeq DEF eof
  <2> HIDE DEF l
  <2> QED BY <1>2, <2>1
<1>6. n = 0 <=> ~s.syn
  <2>1. Bit(s.syn) = (IF s.syn THEN 1 ELSE 0) /\ Bit(s.fin) \in {0, 1} BY DEF Bit
  <2> HIDE DEF n, f, l
  <2> QED BY <1>1, <1>2, <2>1 DEF Bit
<1>7. n = s.bytes_in_flight <=> Base(s) = 0
  <2> HIDE DEF n, f, l
  <2> QED BY <1>3
<1>8. s.syn => ((~eof(f) \/ n < f.written + 2) <=> ~s.fin)
  <2> HIDE DEF n, f, l
  <2> QED BY <1>1, <1>2, <1>4, <1>5 DEF Bit
<1>9. SenderSummary(s) = IF f.error THEN "ERROR"
                         ELSE IF n = 0 THEN "CLOSED"
                         ELSE IF n = s.bytes_in_flight THEN "SYN_SENT"
                         ELSE IF ~eof(f) \/ n < f.written + 2 THEN "SYN_ACKED"
                         ELSE IF s.bytes_in_flight > 0 THEN "FIN_SENT"
                         ELSE "FIN_ACKED"
  BY DEF SenderSummary
<1>10. /\ SenderStage["CLOSED"] = 0 /\ SenderStage["SYN_SENT"] = 1
       /\ SenderStage["SYN_ACKED"] = 2 /\ SenderStage["FIN_SENT"] = 3
       /\ SenderStage["FIN_ACKED"] = 4 /\ SenderStage["ERROR"] = 5
  BY DEF SenderStage
<1>11. SenderStage[SenderSummary(s)] = Stage(s)
  <2>1. Stage(s) = IF f.error THEN 5
                   ELSE IF ~s.syn THEN 0
                   ELSE IF Base(s) = 0 THEN 1
                   ELSE IF ~s.fin THEN 2
                   ELSE IF s.bytes_in_flight > 0 THEN 3
                   ELSE 4
    BY DEF Stage
  <2> HIDE DEF n, f
  <2> QED BY <1>6, <1>7, <1>8, <1>9, <1>10, <2>1
<1>12. ASSUME s.fin, s.bytes_in_flight = 0, ~f.error PROVE SenderSummary(s) = "FIN_ACKED"
  <2>1. s.syn BY <1>1, <1>12
  <2>2. n # 0 /\ n # s.bytes_in_flight BY <1>6, <1>12, <2>1
  <2>3. ~(s.bytes_in_flight > 0) BY <1>12
  <2> HIDE DEF n, f
  <2> QED BY <1>8, <1>9, <1>12, <2>1, <2>2, <2>3
<1> QED BY <1>11, <1>12

\* The state of a sender only moves forward.
LEMMA SenderAdvances ==
  ASSUME NEW x \in Side, NEW s, SenderOK(x, s), Tracks(x, s),
         NEW t, SenderOK(x, t), Tracks(x, t), Forward(s, t), s.stream.error => t.stream.error
  PROVE  SenderStage[SenderSummary(s)] <= SenderStage[SenderSummary(t)]
<1>1. SenderStage[SenderSummary(s)] = Stage(s) /\ SenderStage[SenderSummary(t)] = Stage(t)
  BY StageMeans
<1>2. /\ s.bytes_in_flight \in Nat /\ Base(s) \in Nat
      /\ Base(s) + s.bytes_in_flight = s.next_seqno
      /\ t.bytes_in_flight \in Nat /\ Base(t) \in Nat
      /\ Base(t) + t.bytes_in_flight = t.next_seqno
      /\ s.next_seqno \in Nat /\ t.next_seqno \in Nat
  BY TiledFacts DEF Tracks
<1>3. /\ s.syn => t.syn
      /\ s.fin => t.fin /\ t.next_seqno = s.next_seqno
      /\ Base(s) <= Base(t)
  BY DEF Forward
<1>4. Base(s) # 0 => Base(t) # 0 BY <1>2, <1>3
<1>5. s.fin /\ s.bytes_in_flight = 0 => t.bytes_in_flight = 0 BY <1>2, <1>3
<1>6. s.fin => t.fin BY <1>3
<1>7. s.bytes_in_flight > 0 \/ s.bytes_in_flight = 0 BY <1>2
<1>8. Stage(s) <= Stage(t) BY <1>2, <1>3, <1>4, <1>5, <1>6, <1>7 DEF Stage
<1> QED BY <1>1, <1>8

-----------------------------------------------------------------------------
\* The streams of a connection fail together, and it stops because of that, or when both
\* are over.
StoppedOver(c) ==
    /\ c.active \in BOOLEAN
    /\ c.sender.stream.error = inbound_stream(c).error
    /\ ~c.active => \/ inbound_stream(c).error
                    \/ /\ c.sender.fin /\ c.sender.bytes_in_flight = 0
                       /\ inbound_stream(c).input_end

Live(x, c) == Tracks(x, c.sender) /\ StoppedOver(c)

\* Neither half goes back.
Onward(x, c, d) ==
    /\ Live(x, d)
    /\ Forward(c.sender, d.sender) /\ Gains(c.receiver, d.receiver)
    /\ inbound_stream(c).error => inbound_stream(d).error

\* One thing happens to a connection after the other.
LEMMA OnwardTwice ==
  ASSUME NEW x, NEW c, NEW d, NEW e, Live(x, c), Onward(x, c, d), Onward(x, d, e)
  PROVE  Onward(x, c, e)
<1>1. /\ Base(c.sender) \in Int /\ Base(d.sender) \in Int /\ Base(e.sender) \in Int
  BY DEF Onward, Live, Tracks, Tiled
<1>2. Base(c.sender) <= Base(d.sender) /\ Base(d.sender) <= Base(e.sender)
  BY DEF Onward, Forward
<1>3. Base(c.sender) <= Base(e.sender) BY <1>1, <1>2
<1>4. Forward(c.sender, e.sender) BY <1>3 DEF Onward, Forward
<1>5. Gains(c.receiver, e.receiver) BY DEF Onward, Gains
<1> QED BY <1>4, <1>5 DEF Onward

\* Only the rest of the connection changes.
LEMMA SameHalves ==
  ASSUME NEW x, NEW c, Live(x, c), NEW d, StoppedOver(d), SameTiles(c.sender, d.sender),
         d.receiver = c.receiver
  PROVE  Onward(x, c, d)
<1>1. Tracks(x, d.sender) /\ Forward(c.sender, d.sender) BY TracksSame DEF Live
<1> QED BY <1>1 DEF Onward, Live, Gains, inbound_stream

\* Nothing happens to it.
LEMMA OnwardItself ==
  ASSUME NEW x, NEW c, Live(x, c)
  PROVE  Onward(x, c, c)
BY SameHalves DEF Live, SameTiles

\* When everything sent is acknowledged, the window is not filled before the FIN is sent.
LEMMA FinSent ==
  ASSUME RecvCapacity < M64, NEW x \in Side, NEW s, SenderOK(x, s), Tracks(x, s), Filled(s),
         eof(s.stream), s.bytes_in_flight = 0
  PROVE  s.fin
<1> SUFFICES ASSUME ~s.fin PROVE FALSE OBVIOUS
<1> DEFINE win == IF s.window_size > 0 THEN s.window_size ELSE 1
           len == MinOf(Remaining(s, win), MAX_PAYLOAD_SIZE)
           data == peek_output(s.stream, len)
           rest == pop_output(s.stream, len)
<1>1. RecvCapacity \in Nat /\ M64 \in Nat \ {0, 1} /\ s.window_size \in 0..RecvCapacity
  BY TCPConfigAssumption, WidthAssumption, WidthFacts DEF SenderOK, SenderTyped
<1>2. win \in 1..(M64 - 1) BY <1>1
<1>3. /\ Base(s) \in Nat /\ Base(s) = s.next_seqno /\ s.receive_ack = s.next_seqno
      /\ s.next_seqno \in Nat
  <2>1. /\ s.next_seqno \in Nat /\ s.receive_ack \in Nat /\ Base(s) \in Nat
        /\ Base(s) + s.bytes_in_flight = s.next_seqno /\ Base(s) <= s.receive_ack
        /\ s.receive_ack <= s.next_seqno
    BY TiledFacts DEF Tracks
  <2> QED BY <2>1
<1>4. Stops(s, win) BY DEF Filled
<1> HIDE DEF win
<1>5. Remaining(s, win) = win
  <2>1. win - (s.next_seqno - s.receive_ack) = win BY <1>2, <1>3
  <2>2. win \in Int /\ win \in 0..(M64 - 1) /\ win = 0 * M64 + win /\ M64 \in Nat \ {0}
    BY <1>1, <1>2
  <2>3. win % M64 = win BY <2>2, ModUnique
  <2> QED BY <2>1, <2>3 DEF Remaining
<1>6. ~FillEnds(s, win) BY <1>2, <1>5 DEF FillEnds
<1>7. data = <<>> /\ ~CarriesFin(rest, data, win) BY <1>4, <1>6 DEF Stops
<1>8. len \in Nat BY <1>2, <1>5, SenderAssumption DEF MinOf
<1> HIDE DEF len
<1>9. SameFlags(s.stream, rest) /\ rest.buffer = <<>>
  <2>1. Passes(x, s.stream) BY DEF SenderOK
  <2>2. /\ Passes(x, rest) /\ SameFlags(s.stream, rest)
        /\ Len(rest.buffer) = Len(s.stream.buffer) - MinOf(len, Len(s.stream.buffer))
    BY <1>8, <2>1, PopPasses
  <2>3. Len(s.stream.buffer) = 0 BY EmptySeq DEF eof
  <2> HIDE DEF rest
  <2>4. rest.buffer \in Seq(Byte) BY <2>2, PassesFacts
  <2>5. MinOf(len, 0) = 0 BY <1>8 DEF MinOf
  <2>6. Len(rest.buffer) = 0 - MinOf(len, 0) BY <2>2, <2>3
  <2>7. Len(rest.buffer) = 0 BY <2>5, <2>6
  <2> QED BY <2>2, <2>4, <2>7, EmptySeq
<1>10. eof(rest) BY <1>9 DEF eof, SameFlags
<1>11. Len(data) < win BY <1>2, <1>7, EmptySeq
<1> QED BY <1>7, <1>10, <1>11 DEF CarriesFin

\* When everything a sender has sent after it filled its window is acknowledged, and its
\* stream is over, so is the FIN.
LEMMA FilledFin ==
  ASSUME RecvCapacity < M64, NEW x \in Side, NEW s, SenderOK(x, s), Tracks(x, s),
         eof(fill_window(s).stream), fill_window(s).bytes_in_flight = 0
  PROVE  fill_window(s).fin
<1> DEFINE t == fill_window(s)
<1>1. /\ SenderOK(x, t) /\ t.syn /\ SameAcks(s, t)
      /\ s.syn \/ s.window_size = 0 => Filled(t)
  BY FillWindowOK
<1>2. Tracks(x, t) BY FillWindowMoves DEF Moves
<1>3. eof(t.stream) /\ t.bytes_in_flight = 0 OBVIOUS
<1> HIDE DEF t
<1>4. s.syn
  <2>1. /\ t.next_seqno \in Nat /\ t.receive_ack \in Nat /\ Base(t) \in Nat
        /\ Base(t) + t.bytes_in_flight = t.next_seqno /\ Base(t) <= t.receive_ack
    BY <1>1, <1>2, TiledFacts DEF Tracks
  <2>2. t.next_seqno = Bit(t.syn) + t.stream.readden + Bit(t.fin) /\ t.stream.readden \in Nat
    BY <1>1, SenderFacts DEF SenderOK
  <2>3. t.next_seqno > 0 BY <1>1, <2>2 DEF Bit
  <2>4. s.receive_ack > 0 BY <1>1, <1>3, <2>1, <2>3 DEF SameAcks
  <2>5. s.next_seqno > 0
    <3>1. s.receive_ack \in Nat /\ s.receive_ack <= s.next_seqno /\ s.next_seqno \in Nat
      BY SenderFacts
    <3> QED BY <2>4, <3>1
  <2>6. s.next_seqno = Bit(s.syn) + s.stream.readden + Bit(s.fin)
        /\ (~s.syn => s.stream.readden = 0 /\ ~s.fin) /\ s.syn \in BOOLEAN
    BY DEF SenderOK
  <2> QED BY <2>5, <2>6 DEF Bit
<1>5. t.fin BY <1>1, <1>2, <1>3, <1>4, FinSent
<1> QED BY <1>5 DEF t

\* When clean_shutdown ends the connection.
LEMMA CleanShutdownEnds ==
  ASSUME NEW c, Has(c, ConnectionFields)
  PROVE  LET t == clean_shutdown(c)
         IN  /\ t.sender = c.sender /\ t.receiver = c.receiver /\ t.active \in BOOLEAN
             /\ ~t.active => \/ ~c.active
                             \/ /\ inbound_stream(c).input_end /\ eof(c.sender.stream)
                                /\ c.sender.bytes_in_flight = 0
<1> DEFINE ended == inbound_stream(c).input_end
           finished == eof(c.sender.stream)
           linger == c.linger_after_streams_finish /\ ~(ended /\ ~finished)
           done == /\ ended /\ finished
                   /\ c.sender.bytes_in_flight = 0
                   /\ ~linger \/ c.time_since_last_segment_received >= 10 * RTO
           active == c.active /\ ~done
           t == clean_shutdown(c)
<1>1. t = [ c EXCEPT !.linger_after_streams_finish = linger, !.active = active ]
  BY DEF clean_shutdown
<1>2. /\ active \in BOOLEAN
      /\ ~active => ~c.active \/ (ended /\ finished /\ c.sender.bytes_in_flight = 0)
  OBVIOUS
<1> HIDE DEF active, linger, ended, finished, done, t
<1>3. t.sender = c.sender /\ t.receiver = c.receiver /\ t.active = active
  BY <1>1 DEF Has, ConnectionFields
<1> QED BY <1>2, <1>3 DEF ended, finished, t

\* segment_sends.
LEMMA SegmentSendsOnward ==
  ASSUME RecvCapacity < M64, NEW x \in Side, NEW c, ConnectionOK(x, c), Live(x, c),
         c.active \/ inbound_stream(c).error, NEW send_syn
  PROVE  Onward(x, c, segment_sends(c, send_syn))
<1> DEFINE t == segment_sends(c, send_syn)
           filled == fill_window(c.sender)
           queue == filled.segments_out
           none == <<>>
           s == [ filled EXCEPT !.segments_out = none ]
           more == [ k \in 1..Len(queue) |-> Stamped(c, queue[k]) ]
           out == c.segments_out \o more
           d == [ c EXCEPT !.syn_sended = TRUE, !.sender = s, !.segments_out = out ]
<1>1. CASE ~send_syn /\ ~c.syn_sended
  <2>1. t = c BY <1>1 DEF segment_sends
  <2> QED BY <2>1, OnwardItself
<1>2. CASE ~(~send_syn /\ ~c.syn_sended)
  <2>1. t = clean_shutdown(d) BY <1>2 DEF segment_sends
  <2>2. Has(c, ConnectionFields) /\ SenderOK(x, c.sender) BY DEF ConnectionOK
  <2>3. Tracks(x, c.sender) BY DEF Live
  <2>4. SenderOK(x, filled) /\ Moves(x, c.sender, filled)
    BY <2>2, <2>3, FillWindowOK, FillWindowMoves
  <2>5. eof(filled.stream) /\ filled.bytes_in_flight = 0 => filled.fin
    BY <2>2, <2>3, FilledFin
  <2> HIDE DEF filled
  <2>6. SameTiles(filled, s) /\ s.stream = filled.stream
    <3>1. Has(filled, SenderFields) BY <2>4 DEF SenderOK, SenderTyped
    <3> HIDE DEF none
    <3> QED BY <3>1 DEF Has, SenderFields, SameTiles
  <2>7. Moves(x, c.sender, s)
    <3>1. Tracks(x, filled) BY <2>4 DEF Moves
    <3> HIDE DEF s
    <3>2. Moves(x, filled, s) BY <2>6, <3>1, MovesSame
    <3> QED BY <2>3, <2>4, <3>2, MovesTwice
  <2> HIDE DEF s, out
  <2>8. /\ Has(d, ConnectionFields) /\ d.sender = s /\ d.receiver = c.receiver
        /\ d.active = c.active
    BY <2>2 DEF Has, ConnectionFields
  <2> HIDE DEF d
  <2>9. /\ t.sender = s /\ t.receiver = c.receiver /\ t.active \in BOOLEAN
        /\ ~t.active => \/ ~c.active
                        \/ /\ inbound_stream(d).input_end /\ eof(s.stream)
                           /\ s.bytes_in_flight = 0
    BY <2>1, <2>8, CleanShutdownEnds
  <2> HIDE DEF t
  <2>10. inbound_stream(t) = inbound_stream(c) /\ inbound_stream(d) = inbound_stream(c)
    BY <2>8, <2>9 DEF inbound_stream
  <2>11. eof(s.stream) /\ s.bytes_in_flight = 0 => s.fin BY <2>5, <2>6 DEF SameTiles
  <2>12. StoppedOver(t) BY <2>7, <2>9, <2>10, <2>11 DEF StoppedOver, Live, Moves
  <2>13. Gains(c.receiver, t.receiver) BY <2>9 DEF Gains
  <2> QED BY <2>7, <2>9, <2>10, <2>12, <2>13 DEF Onward, Live, Moves, t
<1> QED BY <1>1, <1>2

\* The sender is replaced by one that has moved on.
LEMMA OtherSenderOnward ==
  ASSUME NEW x \in Side, NEW c, ConnectionOK(x, c), Live(x, c), c.active \/ inbound_stream(c).error,
         NEW s, Moves(x, c.sender, s)
  PROVE  LET t == [ c EXCEPT !.sender = s ]
         IN  /\ Onward(x, c, t) /\ t.active = c.active /\ inbound_stream(t) = inbound_stream(c)
             /\ t.sender = s /\ t.receiver = c.receiver
<1> DEFINE t == [ c EXCEPT !.sender = s ]
<1>1. t.sender = s /\ t.receiver = c.receiver /\ t.active = c.active
  BY DEF ConnectionOK, Has, ConnectionFields
<1> HIDE DEF t
<1>2. inbound_stream(t) = inbound_stream(c) BY <1>1 DEF inbound_stream
<1>3. StoppedOver(t) BY <1>1, <1>2 DEF StoppedOver, Live, Moves
<1>4. Gains(c.receiver, t.receiver) BY <1>1 DEF Gains
<1>5. Onward(x, c, t) BY <1>1, <1>2, <1>3, <1>4 DEF Onward, Live, Moves
<1> QED BY <1>1, <1>2, <1>5 DEF t

\* A new sender, then segment_sends.
LEMMA SendsOnward ==
  ASSUME RecvCapacity < M64, NEW x \in Side, NEW c, ConnectionOK(x, c), Live(x, c),
         c.active \/ inbound_stream(c).error, NEW s, SenderOK(x, s), Moves(x, c.sender, s),
         s.receive_ack = c.sender.receive_ack, NEW send_syn
  PROVE  Onward(x, c, segment_sends([ c EXCEPT !.sender = s ], send_syn))
<1> DEFINE d == [ c EXCEPT !.sender = s ]
<1>1. Onward(x, c, d) /\ d.active = c.active /\ inbound_stream(d) = inbound_stream(c)
  BY OtherSenderOnward
<1>2. ConnectionOK(x, d)
  <2>1. Follows(x, c, d) BY OtherSender
  <2> QED BY <2>1 DEF Follows
<1> HIDE DEF d
<1>3. Live(x, d) BY <1>1 DEF Onward
<1>4. Onward(x, d, segment_sends(d, send_syn)) BY <1>1, <1>2, <1>3, SegmentSendsOnward
<1>5. Onward(x, c, segment_sends(d, send_syn)) BY <1>1, <1>4, OnwardTwice
<1> QED BY <1>5 DEF d

\* The stream of the sender gets longer, or ends where it should.
LEMMA NewStreamMoves ==
  ASSUME NEW x \in Side, NEW s, SenderOK(x, s), Tracks(x, s), ~s.stream.input_end,
         NEW b, b.error = s.stream.error, b.input_end => b.written = Len(Data[x])
  PROVE  Moves(x, s, [ s EXCEPT !.stream = b ])
<1> DEFINE t == [ s EXCEPT !.stream = b ]
<1>1. Has(s, SenderFields) BY DEF SenderOK, SenderTyped
<1>2. /\ t.stream = b /\ t.isn = s.isn /\ t.syn = s.syn /\ t.fin = s.fin
      /\ t.next_seqno = s.next_seqno /\ t.receive_ack = s.receive_ack
      /\ t.bytes_in_flight = s.bytes_in_flight
      /\ t.segments_in_flight = s.segments_in_flight
  BY <1>1 DEF Has, SenderFields
<1> HIDE DEF t
<1>3. Base(t) = Base(s) BY <1>2 DEF Base
<1>4. Base(s) <= Base(s)
  <2>1. Base(s) \in 0..s.receive_ack BY DEF Tracks, Tiled
  <2> QED BY <2>1
<1>5. Tiled(t) BY <1>2, <1>3 DEF Tracks, Tiled
<1>6. ~s.fin BY DEF Tracks, eof
<1>7. Tracks(x, t) BY <1>2, <1>5, <1>6 DEF Tracks
<1>8. Forward(s, t) BY <1>2, <1>3, <1>4 DEF Forward
<1>9. Moves(x, s, t) BY <1>2, <1>7, <1>8 DEF Moves
<1> QED BY <1>9 DEF t

\* The application connects.
LEMMA ConnectOnward ==
  ASSUME RecvCapacity < M64, NEW x \in Side, NEW c, ConnectionOK(x, c), Live(x, c), c.active
  PROVE  Onward(x, c, connect(c))
BY SegmentSendsOnward DEF connect

\* A write.
LEMMA WriteOnward ==
  ASSUME RecvCapacity < M64, NEW x \in Side, NEW c, ConnectionOK(x, c), Live(x, c), c.active,
         ~c.sender.stream.input_end, NEW n \in Nat,
         c.sender.stream.written + n <= Len(Data[x]), n <= remaining_outbound_capacity(c)
  PROVE  Onward(x, c, conn_write(c, Part(x, c.sender.stream.written, n)))
<1> DEFINE f == c.sender.stream
           data == Part(x, f.written, n)
           b == write(f, SendCapacity, data)
           s == [ c.sender EXCEPT !.stream = b ]
           d == [ c EXCEPT !.sender = s ]
<1>1. SenderOK(x, c.sender) /\ Tracks(x, c.sender) BY DEF ConnectionOK, Live
<1>2. Passes(x, f) BY <1>1 DEF SenderOK
<1>3. SendCapacity \in Nat /\ Len(f.buffer) \in Nat /\ Len(f.buffer) <= SendCapacity
  <2>1. SendCapacity \in Nat BY TCPConfigAssumption
  <2>2. Len(f.buffer) \in Nat BY <1>2, PassesFacts
  <2> QED BY <2>1, <2>2 DEF remaining_outbound_capacity, remaining_capacity
<1>4. Passes(x, b) /\ b.readden = f.readden /\ SameFlags(f, b)
  <2> HIDE DEF data
  <2>1. data = Part(x, f.written, n) BY DEF data
  <2> HIDE DEF f
  <2>2. f.written + n <= Len(Data[x]) BY DEF f
  <2> QED BY <1>2, <1>3, <2>1, <2>2, WritePasses
<1>5. conn_write(c, data) = segment_sends(d, FALSE)
  <2>1. d = [ c EXCEPT !.sender.stream = write(@, SendCapacity, data) ] OBVIOUS
  <2> QED BY <2>1 DEF conn_write
<1> HIDE DEF b, data
<1>12. EndsWhole(x, b) BY <1>4 DEF SameFlags, EndsWhole
<1>6. SenderOK(x, s) /\ OtherStream(c.sender, b, s) BY <1>1, <1>4, <1>12, StreamReplaced
<1>7. Moves(x, c.sender, s) BY <1>1, <1>4, NewStreamMoves DEF SameFlags
<1>8. s.receive_ack = c.sender.receive_ack BY <1>6 DEF OtherStream
<1> HIDE DEF s
<1>9. Onward(x, c, segment_sends(d, FALSE)) BY <1>6, <1>7, <1>8, SendsOnward
<1> QED BY <1>5, <1>9 DEF data

\* The end of the outbound stream.
LEMMA EndInputOnward ==
  ASSUME RecvCapacity < M64, NEW x \in Side, NEW c, ConnectionOK(x, c), Live(x, c), c.active,
         ~c.sender.stream.input_end, c.sender.stream.written = Len(Data[x])
  PROVE  Onward(x, c, end_input_stream(c))
<1> DEFINE f == c.sender.stream
           b == end_input(f)
           s == [ c.sender EXCEPT !.stream = b ]
           d == [ c EXCEPT !.sender = s ]
<1>1. SenderOK(x, c.sender) /\ Tracks(x, c.sender) BY DEF ConnectionOK, Live
<1>2. Passes(x, f) BY <1>1 DEF SenderOK
<1>3. /\ Passes(x, b) /\ b.readden = f.readden /\ b.written = f.written /\ b.error = f.error
  <2>1. b = [ f EXCEPT !.input_end = TRUE ] BY DEF end_input
  <2> HIDE DEF b
  <2>2. /\ Has(b, StreamFields) /\ b.written = f.written /\ b.readden = f.readden
        /\ b.buffer = f.buffer /\ b.input_end = TRUE /\ b.error = f.error
    BY <1>2, <2>1 DEF Passes, Has, StreamFields
  <2> QED BY <1>2, <2>2 DEF Passes
<1>4. end_input_stream(c) = segment_sends(d, FALSE)
  <2>1. d = [ c EXCEPT !.sender.stream = end_input(@) ] OBVIOUS
  <2> QED BY <2>1 DEF end_input_stream
<1> HIDE DEF b
<1>11. EndsWhole(x, b) BY <1>3 DEF EndsWhole
<1>5. SenderOK(x, s) /\ OtherStream(c.sender, b, s) BY <1>1, <1>3, <1>11, StreamReplaced
<1>6. Moves(x, c.sender, s) BY <1>1, <1>3, NewStreamMoves
<1>7. s.receive_ack = c.sender.receive_ack BY <1>5 DEF OtherStream
<1> HIDE DEF s
<1>8. Onward(x, c, segment_sends(d, FALSE)) BY <1>5, <1>6, <1>7, SendsOnward
<1> QED BY <1>4, <1>8

\* send_empty_segment, then segment_sends.
LEMMA EmptyOnward ==
  ASSUME RecvCapacity < M64, NEW x \in Side, NEW c, ConnectionOK(x, c), Live(x, c),
         c.active \/ inbound_stream(c).error
  PROVE  Onward(x, c, segment_sends([ c EXCEPT !.sender = send_empty_segment(@) ], FALSE))
<1> DEFINE e == send_empty_segment(c.sender)
<1>1. SenderOK(x, c.sender) /\ Tracks(x, c.sender) BY DEF ConnectionOK, Live
<1>2. SenderOK(x, e) /\ e.receive_ack = c.sender.receive_ack
  BY <1>1, SendEmptyOK DEF SameStream
<1>3. SameTiles(c.sender, e) /\ e.stream = c.sender.stream
  BY <1>1, SendEmptyTiles DEF SenderOK, SenderTyped
<1> HIDE DEF e
<1>4. Moves(x, c.sender, e) BY <1>1, <1>3, MovesSame
<1>5. Onward(x, c, segment_sends([ c EXCEPT !.sender = e ], FALSE))
  BY <1>2, <1>4, SendsOnward
<1> QED BY <1>5 DEF e

\* unclean_shutdown.
LEMMA UncleanShutdownOnward ==
  ASSUME RecvCapacity < M64, NEW x \in Side, NEW c, ConnectionOK(x, c), Live(x, c),
         NEW send_rst \in BOOLEAN
  PROVE  LET t == unclean_shutdown(c, send_rst)
         IN  Onward(x, c, t) /\ inbound_stream(t).error
<1> DEFINE o == set_error(c.receiver.reassembler.output)
           p == [ c.receiver.reassembler EXCEPT !.output = o ]
           r == [ c.receiver EXCEPT !.reassembler = p ]
           b == set_error(c.sender.stream)
           s == [ c.sender EXCEPT !.stream = b ]
           rst == c.need_send_rst \/ send_rst
           failed == [ c EXCEPT !.receiver.reassembler.output = set_error(@),
                                !.sender.stream = set_error(@),
                                !.linger_after_streams_finish = FALSE,
                                !.active = FALSE,
                                !.need_send_rst = @ \/ send_rst ]
           t == unclean_shutdown(c, send_rst)
<1>1. /\ Has(c, ConnectionFields) /\ SenderOK(x, c.sender) /\ ReceiverOK(Other(x), c.receiver)
      /\ c.need_send_rst \in BOOLEAN
      /\ c.segments_out \in Seq(Truthful(x, Reached(c.receiver)))
      /\ Other(x) \in Side
  BY SideFacts DEF ConnectionOK
<1>2. failed = [ c EXCEPT !.receiver = r, !.sender = s, !.linger_after_streams_finish = FALSE,
                          !.active = FALSE, !.need_send_rst = rst ]
  OBVIOUS
<1>3. /\ ReceiverOK(Other(x), r) /\ Reached(r) = Reached(c.receiver) /\ stream_out(r).error = TRUE
      /\ r.syn = c.receiver.syn /\ stream_out(r).input_end = stream_out(c.receiver).input_end
  <2>1. Passes(Other(x), stream_out(c.receiver)) BY <1>1, ReceiverFacts
  <2>2. stream_out(c.receiver) = c.receiver.reassembler.output BY DEF stream_out
  <2>3. /\ Passes(Other(x), o) /\ o.written = stream_out(c.receiver).written
        /\ o.buffer = stream_out(c.receiver).buffer
        /\ o.input_end = stream_out(c.receiver).input_end
    BY <1>1, <2>1, <2>2, SetErrorPasses
  <2>4. Len(o.buffer) <= RecvCapacity
    BY <1>1, <2>2, <2>3 DEF ReceiverOK, Assembles
  <2>5. o.error = TRUE
    BY <2>1, <2>2 DEF set_error, Passes, Has, StreamFields
  <2>6. p = [ c.receiver.reassembler EXCEPT !.output = o ] OBVIOUS
  <2> HIDE DEF o, p
  <2>7. /\ ReceiverOK(Other(x), [ c.receiver EXCEPT !.reassembler = p ])
        /\ Reached([ c.receiver EXCEPT !.reassembler = p ]) = Reached(c.receiver)
        /\ stream_out([ c.receiver EXCEPT !.reassembler = p ]) = o
    BY <1>1, <2>3, <2>4, <2>6, OutputReplaced
  <2>8. r.syn = c.receiver.syn BY <1>1 DEF ReceiverOK, Has, ReceiverFields
  <2> QED BY <2>3, <2>5, <2>7, <2>8
<1>4. /\ SenderOK(x, s) /\ SameTiles(c.sender, s) /\ s.stream.error = TRUE
  <2>1. Passes(x, c.sender.stream) BY <1>1 DEF SenderOK
  <2>2. /\ Passes(x, b) /\ b.readden = c.sender.stream.readden
        /\ b.written = c.sender.stream.written
        /\ b.buffer = c.sender.stream.buffer /\ b.input_end = c.sender.stream.input_end
    BY <2>1, SetErrorPasses
  <2>3. b.error = TRUE BY <2>1 DEF set_error, Passes, Has, StreamFields
  <2> HIDE DEF b
  <2>7. EndsWhole(x, b) BY <1>1, <2>2 DEF SenderOK, EndsWhole
  <2>4. SenderOK(x, s) BY <1>1, <2>2, <2>7, StreamReplaced
  <2>5. Has(c.sender, SenderFields) BY <1>1 DEF SenderOK, SenderTyped
  <2>6. SameTiles(c.sender, s) /\ s.stream = b
    BY <2>2, <2>5 DEF Has, SenderFields, SameTiles
  <2> QED BY <2>3, <2>4, <2>6
<1> HIDE DEF r, s, failed, rst, o
<1>5. /\ Has(failed, ConnectionFields) /\ failed.sender = s /\ failed.receiver = r
      /\ failed.segments_out = c.segments_out /\ failed.need_send_rst = rst
      /\ failed.active = FALSE
  BY <1>1, <1>2 DEF Has, ConnectionFields
<1>6. rst \in BOOLEAN BY <1>1 DEF rst
<1>7. ConnectionOK(x, failed) BY <1>1, <1>3, <1>4, <1>5, <1>6 DEF ConnectionOK
<1>8. Onward(x, c, failed) /\ inbound_stream(failed).error
  <2>1. inbound_stream(failed) = stream_out(r) BY <1>5 DEF inbound_stream
  <2>2. StoppedOver(failed) BY <1>3, <1>4, <1>5, <2>1 DEF StoppedOver
  <2>3. Tracks(x, failed.sender) /\ Forward(c.sender, failed.sender)
    BY <1>4, <1>5, TracksSame DEF Live
  <2>4. Gains(c.receiver, failed.receiver) BY <1>3, <1>5 DEF Gains
  <2> QED BY <1>3, <2>1, <2>2, <2>3, <2>4 DEF Onward, Live
<1>9. Live(x, failed) BY <1>8 DEF Onward
<1> DEFINE g == [ failed EXCEPT !.sender = send_empty_segment(@) ]
<1>10. t \in { failed, segment_sends(failed, FALSE), segment_sends(g, FALSE) }
  BY DEF unclean_shutdown, failed, g
<1>11. Onward(x, failed, segment_sends(g, FALSE)) BY <1>7, <1>8, <1>9, EmptyOnward
<1> HIDE DEF g, t
<1>12. Onward(x, failed, segment_sends(failed, FALSE))
  BY <1>7, <1>8, <1>9, SegmentSendsOnward
<1>13. Onward(x, failed, failed) BY <1>9, OnwardItself
<1>14. Onward(x, failed, t) BY <1>10, <1>11, <1>12, <1>13
<1>15. Onward(x, c, t) BY <1>8, <1>14, OnwardTwice
<1>16. inbound_stream(t).error BY <1>8, <1>14 DEF Onward
<1> QED BY <1>15, <1>16 DEF t

\* The answer to a segment that occupies sequence numbers.
LEMMA ReplyOnward ==
  ASSUME RecvCapacity < M64, NEW x \in Side, NEW c, ConnectionOK(x, c), Live(x, c), c.active,
         NEW seg
  PROVE  Onward(x, c, Reply(c, seg))
<1> DEFINE g == [ c EXCEPT !.sender = send_empty_segment(@) ]
           t == Reply(c, seg)
<1>1. t \in { segment_sends(c, FALSE), segment_sends(g, FALSE) } BY DEF Reply
<1>2. Onward(x, c, segment_sends(g, FALSE)) BY EmptyOnward
<1> HIDE DEF g, t
<1>3. Onward(x, c, segment_sends(c, FALSE)) BY SegmentSendsOnward
<1> QED BY <1>1, <1>2, <1>3 DEF t

\* The acknowledgment of a segment to the sender, the rest to the receiver.
LEMMA HeardOnward ==
  ASSUME ShortStreams, NEW x \in Side, NEW c, ConnectionOK(x, c), Live(x, c), c.active,
         NEW m \in 0..(Len(Data[x]) + 2), NEW seg \in Truthful(Other(x), m)
  PROVE  Onward(x, c, Heard(c, seg)) /\ Heard(c, seg).active
<1> DEFINE u == ack_received(c.sender, seg.ackno, seg.win)
           s == IF seg.ack /\ c.sender.next_seqno > 0 THEN u ELSE c.sender
           r == segment_received(c.receiver, RecvCapacity, seg)
           acked == [ c EXCEPT !.time_since_last_segment_received = 0, !.sender = s ]
           now == [ acked EXCEPT !.receiver = segment_received(@, RecvCapacity, seg) ]
<1>1. /\ Has(c, ConnectionFields) /\ SenderOK(x, c.sender) /\ ReceiverOK(Other(x), c.receiver)
      /\ Other(x) \in Side /\ Tracks(x, c.sender)
  BY SideFacts DEF ConnectionOK, Live
<1>2. Heard(c, seg) = now BY DEF Heard, TakeAck
<1>3. Moves(x, c.sender, s)
  <2>1. seg.ackno \in Nat /\ seg.win \in 0..RecvCapacity
    <3>1. seg \in Message BY DEF Truthful
    <3>2. seg.ackno \in U32 /\ seg.win \in 0..RecvCapacity BY <3>1 DEF Message
    <3> QED BY <3>2 DEF U32
  <2>2. Moves(x, c.sender, u) BY <1>1, <2>1, AckReceivedMoves
  <2>3. Moves(x, c.sender, c.sender) BY <1>1, MovesItself
  <2> HIDE DEF u
  <2> QED BY <2>2, <2>3
<1>4. Gains(c.receiver, r) /\ stream_out(r).error = stream_out(c.receiver).error
  <2>1. PieceOf(Other(x), seg) BY DEF Truthful, Message, PieceOf
  <2> QED BY <1>1, <2>1, ReceivedGains
<1> HIDE DEF s
<1>5. /\ acked.sender = s /\ acked.receiver = c.receiver /\ acked.active = c.active
      /\ Has(acked, ConnectionFields)
  BY <1>1 DEF Has, ConnectionFields
<1> HIDE DEF acked
<1>6. now.sender = s /\ now.receiver = r /\ now.active = c.active
  BY <1>5 DEF Has, ConnectionFields
<1> HIDE DEF now, r
<1>7. StoppedOver(now) BY <1>3, <1>4, <1>6 DEF StoppedOver, Live, Moves, inbound_stream
<1>8. Onward(x, c, now)
  BY <1>3, <1>4, <1>6, <1>7 DEF Onward, Live, Moves, inbound_stream
<1> QED BY <1>2, <1>6, <1>8

\* TCPConnection::segment_received.
LEMMA ConnReceivedOnward ==
  ASSUME ShortStreams, RecvCapacity < M64, NEW x \in Side, NEW c, ConnectionOK(x, c), Live(x, c),
         NEW m \in 0..(Len(Data[x]) + 2), NEW seg \in Truthful(Other(x), m),
         c.sender.receive_ack <= m
  PROVE  Onward(x, c, conn_segment_received(c, seg))
<1> DEFINE t == conn_segment_received(c, seg)
           idle == [ c EXCEPT !.time_since_last_segment_received = 0 ]
           now == Heard(c, seg)
<1>1. CASE ~c.active
  <2>1. t = c BY <1>1 DEF conn_segment_received
  <2> QED BY <2>1, OnwardItself
<1>2. CASE c.active
  <2>1. t \in { idle, connect(now), Reply(now, seg), now, unclean_shutdown(now, FALSE) }
    BY <1>2 DEF conn_segment_received, Heard
  <2>2. ConnectionOK(x, now) BY HeardOK DEF Advances
  <2>3. Onward(x, c, now) /\ now.active BY <1>2, HeardOnward
  <2>4. Onward(x, c, idle)
    <3>1. /\ idle.sender = c.sender /\ idle.receiver = c.receiver /\ idle.active = c.active
      BY DEF ConnectionOK, Has, ConnectionFields
    <3> HIDE DEF idle
    <3>2. StoppedOver(idle) BY <3>1 DEF Live, StoppedOver, inbound_stream
    <3>3. SameTiles(c.sender, idle.sender) BY <3>1 DEF SameTiles
    <3> QED BY <3>1, <3>2, <3>3, SameHalves
  <2> HIDE DEF now, idle, t
  <2>5. Live(x, now) BY <2>3 DEF Onward
  <2>6. Onward(x, now, connect(now)) BY <2>2, <2>3, <2>5, ConnectOnward
  <2>7. Onward(x, now, Reply(now, seg)) BY <2>2, <2>3, <2>5, ReplyOnward
  <2>8. Onward(x, now, unclean_shutdown(now, FALSE)) BY <2>2, <2>5, UncleanShutdownOnward
  <2>9. /\ Onward(x, c, connect(now)) /\ Onward(x, c, Reply(now, seg))
        /\ Onward(x, c, unclean_shutdown(now, FALSE))
    BY <2>3, <2>6, <2>7, <2>8, OnwardTwice
  <2> QED BY <2>1, <2>3, <2>4, <2>9 DEF t
<1> QED BY <1>1, <1>2

\* TCPConnection::tick.
LEMMA ConnTickOnward ==
  ASSUME RecvCapacity < M64, NEW x \in Side, NEW c, ConnectionOK(x, c), Live(x, c), NEW ms
  PROVE  Onward(x, c, conn_tick(c, ms))
<1> DEFINE t == conn_tick(c, ms)
           ticked == [ c EXCEPT !.time_since_last_segment_received = @ + ms,
                                !.sender = tick(@, ms) ]
           u == unclean_shutdown(ticked, TRUE)
<1>1. CASE ~c.active
  <2>1. t = c BY <1>1 DEF conn_tick
  <2> QED BY <2>1, OnwardItself
<1>2. CASE c.active
  <2>1. t \in { segment_sends(ticked, FALSE), segment_sends(u, FALSE) }
    BY <1>2 DEF conn_tick
  <2>2. /\ Follows(x, c, ticked) /\ ticked.sender = tick(c.sender, ms)
        /\ ticked.receiver = c.receiver
    <3> HIDE DEF t, u
    <3>1. Follows(x, c, ticked) BY TickedOK
    <3> QED BY <3>1 DEF ConnectionOK, Has, ConnectionFields
  <2>3. ticked.active = c.active BY DEF ConnectionOK, Has, ConnectionFields
  <2> HIDE DEF t, u, ticked
  <2>4. SameTiles(c.sender, ticked.sender) /\ ticked.sender.stream = c.sender.stream
    <3>1. Has(c.sender, SenderFields) BY DEF ConnectionOK, SenderOK, SenderTyped
    <3> QED BY <2>2, <3>1, TickTiles
  <2>5. StoppedOver(ticked) BY <1>2, <2>2, <2>3, <2>4 DEF Live, StoppedOver, inbound_stream
  <2>6. Onward(x, c, ticked) BY <2>2, <2>4, <2>5, SameHalves
  <2>7. ConnectionOK(x, ticked) /\ Live(x, ticked) BY <2>2, <2>6 DEF Follows, Onward
  <2>8. Onward(x, ticked, u) /\ inbound_stream(u).error BY <2>7, UncleanShutdownOnward DEF u
  <2>9. ConnectionOK(x, u) /\ Live(x, u)
    <3>1. Follows(x, ticked, u) BY <2>7, UncleanShutdownOK DEF u
    <3> QED BY <2>8, <3>1 DEF Follows, Onward
  <2>10. Onward(x, u, segment_sends(u, FALSE)) BY <2>8, <2>9, SegmentSendsOnward
  <2>11. Onward(x, ticked, segment_sends(ticked, FALSE))
    BY <1>2, <2>3, <2>7, SegmentSendsOnward
  <2>12. Onward(x, ticked, segment_sends(u, FALSE)) BY <2>7, <2>8, <2>10, OnwardTwice
  <2>13. Onward(x, ticked, t) BY <2>1, <2>11, <2>12
  <2> QED BY <2>6, <2>13, OnwardTwice DEF t
<1> QED BY <1>1, <1>2

\* Segments leave the channel.
LEMMA OtherQueueOnward ==
  ASSUME NEW x \in Side, NEW c, ConnectionOK(x, c), Live(x, c), NEW q
  PROVE  Onward(x, c, [ c EXCEPT !.segments_out = q ])
<1> DEFINE t == [ c EXCEPT !.segments_out = q ]
<1>1. t.sender = c.sender /\ t.receiver = c.receiver /\ t.active = c.active
  BY DEF ConnectionOK, Has, ConnectionFields
<1> HIDE DEF t
<1>2. StoppedOver(t) BY <1>1 DEF Live, StoppedOver, inbound_stream
<1>3. SameTiles(c.sender, t.sender) BY <1>1 DEF SameTiles
<1>4. Onward(x, c, t) BY <1>1, <1>2, <1>3, SameHalves
<1> QED BY <1>4 DEF t

\* The destructor.
LEMMA DestructOnward ==
  ASSUME RecvCapacity < M64, NEW x \in Side, NEW c, ConnectionOK(x, c), Live(x, c)
  PROVE  Onward(x, c, destruct(c))
<1> DEFINE u == IF c.active THEN unclean_shutdown(c, TRUE) ELSE c
           none == <<>>
<1>1. Onward(x, c, u) /\ ConnectionOK(x, u)
  <2>1. Onward(x, c, unclean_shutdown(c, TRUE)) BY UncleanShutdownOnward
  <2>2. Onward(x, c, c) BY OnwardItself
  <2>3. Follows(x, c, unclean_shutdown(c, TRUE)) BY UncleanShutdownOK
  <2> QED BY <2>1, <2>2, <2>3 DEF Follows
<1>2. destruct(c) = [ u EXCEPT !.segments_out = none ] BY DEF destruct
<1> HIDE DEF u, none
<1>3. Live(x, u) BY <1>1 DEF Onward
<1>4. Onward(x, u, [ u EXCEPT !.segments_out = none ]) BY <1>1, <1>3, OtherQueueOnward
<1> QED BY <1>1, <1>2, <1>4, OnwardTwice

\* The application takes what has arrived.
LEMMA ReadOnward ==
  ASSUME NEW x \in Side, NEW c, ConnectionOK(x, c), Live(x, c),
         NEW n, n = Len(inbound_stream(c).buffer)
  PROVE  Onward(x, c, [ c EXCEPT !.receiver.reassembler = PopOutput(@, n) ])
<1> DEFINE f == stream_out(c.receiver)
           o == pop_output(f, n)
           p == [ c.receiver.reassembler EXCEPT !.output = o ]
           r == [ c.receiver EXCEPT !.reassembler = p ]
           t == [ c EXCEPT !.receiver = r ]
<1>1. Has(c, ConnectionFields) /\ ReceiverOK(Other(x), c.receiver) /\ Other(x) \in Side
  BY SideFacts DEF ConnectionOK
<1>2. Passes(Other(x), f) BY <1>1 DEF ReceiverOK, Assembles, stream_out
<1>3. n \in Nat BY <1>1, <1>2, PassesFacts DEF inbound_stream
<1>4. SameFlags(f, o) BY <1>1, <1>2, <1>3, PopPasses
<1>5. [ c EXCEPT !.receiver.reassembler = PopOutput(@, n) ] = t BY DEF PopOutput, stream_out
<1> HIDE DEF o
<1>6. p.output = o
  BY <1>1 DEF ReceiverOK, Assembles, Has, ReassemblerFields
<1> HIDE DEF p
<1>7. r.syn = c.receiver.syn /\ r.reassembler = p
  BY <1>1 DEF ReceiverOK, Has, ReceiverFields
<1> HIDE DEF r
<1>8. t.sender = c.sender /\ t.receiver = r /\ t.active = c.active
  BY <1>1 DEF Has, ConnectionFields
<1> HIDE DEF t
<1>9. inbound_stream(t) = o /\ stream_out(t.receiver) = o
  BY <1>6, <1>7, <1>8 DEF inbound_stream, stream_out
<1>10. o.input_end = f.input_end /\ o.error = f.error /\ f = inbound_stream(c)
  BY <1>4 DEF SameFlags, inbound_stream
<1> HIDE DEF f
<1>11. StoppedOver(t) BY <1>8, <1>9, <1>10 DEF Live, StoppedOver
<1>12. SameTiles(c.sender, t.sender) BY <1>8 DEF SameTiles
<1>13. Tracks(x, t.sender) /\ Forward(c.sender, t.sender) BY <1>12, TracksSame DEF Live
<1>14. Gains(c.receiver, t.receiver)
  BY <1>7, <1>8, <1>9, <1>10 DEF Gains, inbound_stream
<1>15. Onward(x, c, t) BY <1>9, <1>10, <1>11, <1>13, <1>14 DEF Onward, Live
<1> QED BY <1>5, <1>15

-----------------------------------------------------------------------------
\* Every step moves every connection on, or leaves it alone.
AllLive == \A x \in Side : Live(x, conn[x])

AllOnward == \A z \in Side : Onward(z, conn[z], conn'[z])

\* A call on one side, the other side does nothing.
LEMMA OneOnward ==
  ASSUME Inv, AllLive, NEW x \in Side, NEW c, Onward(x, conn[x], c),
         conn' = [ conn EXCEPT ![x] = c ]
  PROVE  AllOnward
<1>1. conn = [ z \in Side |-> conn[z] ] BY DEF Inv, InvOf
<1>2. DOMAIN conn = Side BY <1>1
<1>3. conn'[x] = c BY <1>2
<1>4. ASSUME NEW z \in Side, z # x PROVE Onward(z, conn[z], conn'[z])
  <2>1. conn'[z] = conn[z] BY <1>2, <1>4
  <2>2. Live(z, conn[z]) BY DEF AllLive
  <2> QED BY <2>1, <2>2, OnwardItself
<1> QED BY <1>3, <1>4 DEF AllOnward

\* The application connects.
LEMMA ConnectGoesOn ==
  ASSUME RecvCapacity < M64, Inv, AllLive, NEW x \in Side, Connect(x)
  PROVE  AllOnward
<1>1. ConnectionOK(x, conn[x]) /\ Live(x, conn[x]) BY DEF Inv, InvOf, AllLive
<1>2. conn[x].active BY DEF Connect, MayConnect
<1>3. Onward(x, conn[x], connect(conn[x])) BY <1>1, <1>2, ConnectOnward
<1>4. conn' = [ conn EXCEPT ![x] = connect(conn[x]) ] BY DEF Connect
<1> QED BY <1>3, <1>4, OneOnward

\* A write.
LEMMA WriteGoesOn ==
  ASSUME RecvCapacity < M64, Inv, AllLive, NEW x \in Side, NEW n \in 1..Len(Data[x]), Write(x, n)
  PROVE  AllOnward
<1> DEFINE data == Part(x, conn[x].sender.stream.written, n)
           c == conn_write(conn[x], data)
<1>1. ConnectionOK(x, conn[x]) /\ Live(x, conn[x]) BY DEF Inv, InvOf, AllLive
<1>2. /\ conn[x].sender.stream.written + n <= Len(Data[x])
      /\ n <= remaining_outbound_capacity(conn[x]) /\ n \in Nat /\ conn[x].active
      /\ ~conn[x].sender.stream.input_end
  BY DataFacts DEF Write, MayWrite
<1>3. Onward(x, conn[x], c) BY <1>1, <1>2, WriteOnward
<1>4. conn' = [ conn EXCEPT ![x] = c ] BY DEF Write, Part
<1> HIDE DEF c
<1> QED BY <1>3, <1>4, OneOnward

\* The end of the outbound stream.
LEMMA EndInputStreamGoesOn ==
  ASSUME RecvCapacity < M64, Inv, AllLive, NEW x \in Side, EndInputStream(x)
  PROVE  AllOnward
<1>1. ConnectionOK(x, conn[x]) /\ Live(x, conn[x]) BY DEF Inv, InvOf, AllLive
<1>2. /\ conn[x].active /\ ~conn[x].sender.stream.input_end
      /\ conn[x].sender.stream.written = Len(Data[x])
  BY DEF EndInputStream, MayEnd
<1>3. Onward(x, conn[x], end_input_stream(conn[x])) BY <1>1, <1>2, EndInputOnward
<1>4. conn' = [ conn EXCEPT ![x] = end_input_stream(conn[x]) ] BY DEF EndInputStream
<1> QED BY <1>3, <1>4, OneOnward

\* A read.
LEMMA ReadGoesOn ==
  ASSUME Inv, AllLive, NEW x \in Side, Read(x)
  PROVE  AllOnward
<1> DEFINE n == Len(inbound_stream(conn[x]).buffer)
           c == [ conn[x] EXCEPT !.receiver.reassembler = PopOutput(@, n) ]
<1>1. ConnectionOK(x, conn[x]) /\ Live(x, conn[x]) BY DEF Inv, InvOf, AllLive
<1>2. conn' = [ conn EXCEPT ![x] = c ] BY DEF Read
<1>3. n = Len(inbound_stream(conn[x]).buffer) OBVIOUS
<1> HIDE DEF n
<1>4. Onward(x, conn[x], c) BY <1>1, <1>3, ReadOnward
<1> HIDE DEF c
<1> QED BY <1>2, <1>4, OneOnward

\* A segment arrives.
LEMMA ArrivesGoesOn ==
  ASSUME ShortStreams, RecvCapacity < M64, Inv, AllLive, NEW x \in Side,
         NEW k \in 1..Len(conn[x].segments_out), NEW copied \in BOOLEAN, Arrives(x, k, copied)
  PROVE  AllOnward
<1> DEFINE q == conn[x].segments_out
           seg == q[k]
           rest == SubSeq(q, 1, k - 1) \o SubSeq(q, k + 1, Len(q))
           less == [ conn[x] EXCEPT !.segments_out = rest ]
           left == IF copied THEN conn ELSE [ conn EXCEPT ![x] = less ]
           y == Other(x)
           m == Reached(conn[x].receiver)
           c == conn_segment_received(conn[y], seg)
<1>1. y \in Side /\ y # x /\ Other(y) = x /\ \A z \in Side : z = x \/ z = y BY SideFacts
<1>2. /\ conn = [ z \in Side |-> conn[z] ]
      /\ ConnectionOK(x, conn[x]) /\ ConnectionOK(y, conn[y])
      /\ conn[y].sender.receive_ack <= m
  BY <1>1 DEF Inv, InvOf
<1>3. Live(x, conn[x]) /\ Live(y, conn[y]) BY <1>1 DEF AllLive
<1>4. conn' = IF y \in aborted THEN left
              ELSE [ left EXCEPT ![y] = conn_segment_received(left[y], seg) ]
  BY DEF Arrives
<1>5. DOMAIN conn = Side BY <1>2
<1>6. seg \in Truthful(Other(y), m)
  <2>1. q \in Seq(Truthful(x, m)) BY <1>2 DEF ConnectionOK
  <2>2. k \in 1..Len(q) OBVIOUS
  <2> HIDE DEF q, m
  <2>3. seg \in Truthful(x, m) BY <2>1, <2>2, ElementOfSeq
  <2> QED BY <1>1, <2>3
<1> HIDE DEF rest
<1>7. Onward(x, conn[x], less) BY <1>2, <1>3, OtherQueueOnward
<1>8. Onward(x, conn[x], conn[x]) /\ Onward(y, conn[y], conn[y]) BY <1>3, OnwardItself
<1>9. m \in 0..(Len(Data[y]) + 2) BY <1>2, ConnectionFacts
<1> HIDE DEF m, seg, less
<1>10. Onward(y, conn[y], c) BY <1>1, <1>2, <1>3, <1>6, <1>9, ConnReceivedOnward
<1> HIDE DEF y
<1>11. left[y] = conn[y] /\ left[x] \in { conn[x], less } /\ DOMAIN left = Side
  BY <1>1, <1>5
<1> HIDE DEF left
<1>12. conn'[x] = left[x] /\ conn'[y] \in { conn[y], c } BY <1>1, <1>4, <1>11
<1> HIDE DEF c
<1>13. Onward(x, conn[x], conn'[x]) BY <1>7, <1>8, <1>11, <1>12
<1>14. Onward(y, conn[y], conn'[y]) BY <1>8, <1>10, <1>12
<1> QED BY <1>1, <1>13, <1>14 DEF AllOnward

\* The channel loses a segment.
LEMMA LoseGoesOn ==
  ASSUME Inv, AllLive, NEW x \in Side, Lose(x)
  PROVE  AllOnward
<1> DEFINE t == Tail(conn[x].segments_out)
           c == [ conn[x] EXCEPT !.segments_out = t ]
<1>1. ConnectionOK(x, conn[x]) /\ Live(x, conn[x]) BY DEF Inv, InvOf, AllLive
<1>2. conn' = [ conn EXCEPT ![x] = c ] BY DEF Lose
<1> HIDE DEF t
<1>3. Onward(x, conn[x], c) BY <1>1, OtherQueueOnward
<1> HIDE DEF c
<1> QED BY <1>2, <1>3, OneOnward

\* Time passes at both ends.
LEMMA TickGoesOn ==
  ASSUME RecvCapacity < M64, Inv, AllLive, Tick
  PROVE  AllOnward
<1> SUFFICES ASSUME NEW z \in Side PROVE Onward(z, conn[z], conn'[z]) BY DEF AllOnward
<1>1. ConnectionOK(z, conn[z]) /\ Live(z, conn[z]) BY DEF Inv, InvOf, AllLive
<1>2. conn'[z] = IF z \in aborted THEN conn[z] ELSE conn_tick(conn[z], TickSize)
  BY DEF Tick
<1>3. Onward(z, conn[z], conn[z]) BY <1>1, OnwardItself
<1>4. Onward(z, conn[z], conn_tick(conn[z], TickSize)) BY <1>1, ConnTickOnward
<1> QED BY <1>2, <1>3, <1>4

\* An owner drops its connection.
LEMMA AbortGoesOn ==
  ASSUME RecvCapacity < M64, Inv, AllLive, NEW x \in Side, Abort(x)
  PROVE  AllOnward
<1>1. ConnectionOK(x, conn[x]) /\ Live(x, conn[x]) BY DEF Inv, InvOf, AllLive
<1>2. conn' = [ conn EXCEPT ![x] = destruct(conn[x]) ] BY DEF Abort
<1>3. Onward(x, conn[x], destruct(conn[x])) BY <1>1, DestructOnward
<1> QED BY <1>2, <1>3, OneOnward

\* Every step.
LEMMA StepOnward ==
  ASSUME ShortStreams, RecvCapacity < M64, Inv, AllLive, Next
  PROVE  AllOnward
<1>1. ASSUME Tick PROVE AllOnward BY <1>1, TickGoesOn
<1>2. ASSUME NEW x \in Side, Connect(x) PROVE AllOnward BY <1>2, ConnectGoesOn
<1>3. ASSUME NEW x \in Side, NEW n \in 1..Len(Data[x]), Write(x, n) PROVE AllOnward
  BY <1>3, WriteGoesOn
<1>4. ASSUME NEW x \in Side, EndInputStream(x) PROVE AllOnward BY <1>4, EndInputStreamGoesOn
<1>5. ASSUME NEW x \in Side, Read(x) PROVE AllOnward BY <1>5, ReadGoesOn
<1>6. ASSUME NEW x \in Side PROVE UnderWay(x) => 1 \in 1..Len(conn[x].segments_out)
  <2> DEFINE q == conn[x].segments_out
  <2>1. q \in Seq(Truthful(x, Reached(conn[x].receiver))) BY DEF Inv, InvOf, ConnectionOK
  <2> HIDE DEF q
  <2>2. q # <<>> => 1 \in 1..Len(q) BY <2>1, EmptySeq, LenProperties
  <2> QED BY <2>2 DEF UnderWay, q
<1>7. ASSUME NEW x \in Side, Deliver(x) PROVE AllOnward BY <1>6, <1>7, ArrivesGoesOn DEF Deliver
<1>8. ASSUME NEW x \in Side, NEW k \in 2..Len(conn[x].segments_out), Overtake(x, k) PROVE AllOnward
  <2>1. k \in 1..Len(conn[x].segments_out) OBVIOUS
  <2> QED BY <1>8, <2>1, ArrivesGoesOn DEF Overtake
<1>9. ASSUME NEW x \in Side, Duplicate(x) PROVE AllOnward BY <1>6, <1>9, ArrivesGoesOn DEF Duplicate
<1>10. ASSUME NEW x \in Side, Lose(x) PROVE AllOnward BY <1>10, LoseGoesOn
<1>11. ASSUME NEW x \in Side, Abort(x) PROVE AllOnward BY <1>11, AbortGoesOn
<1> QED BY <1>1, <1>2, <1>3, <1>4, <1>5, <1>7, <1>8, <1>9, <1>10, <1>11 DEF Next

\* A connection that begins has nothing in flight.
LEMMA InitLive == Init => AllLive
<1> SUFFICES ASSUME Init, NEW x \in Side PROVE Live(x, conn[x]) BY DEF AllLive
<1> DEFINE c == NewTCPConnection(Isn[x])
           none == <<>>
           s == c.sender
<1>1. conn[x] = c BY DEF Init
<1>2. /\ s.segments_in_flight = none /\ s.bytes_in_flight = 0 /\ s.next_seqno = 0
      /\ s.receive_ack = 0 /\ s.fin = FALSE /\ s.stream.input_end = FALSE
      /\ s.stream.error = FALSE /\ inbound_stream(c).error = FALSE /\ c.active = TRUE
  BY DEF NewTCPConnection, NewTCPSender, NewTCPReceiver, NewByteStream, NewReassembler,
         inbound_stream, stream_out
<1>3. none \in Seq(Segment(Byte)) /\ Len(none) = 0 BY EmptySeq
<1>4. SpaceOf(none, 0) = 0 BY <1>3, SpaceFacts
<1> HIDE DEF none, c
<1>5. Base(s) = 0 BY <1>2 DEF Base
<1>6. Tiled(s) BY <1>2, <1>3, <1>4, <1>5 DEF Tiled
<1>7. Tracks(x, s) BY <1>2, <1>6 DEF Tracks
<1>8. StoppedOver(c) BY <1>2 DEF StoppedOver
<1> QED BY <1>1, <1>7, <1>8 DEF Live

\* An endpoint whose ackno is 0 is in LISTEN as far as its receiver goes.
Again(c) == AcknoZero(c) /\ state(c).receiver = "LISTEN"

\* A state with another summary of the receiver.
LEMMA OtherReceiver ==
  ASSUME NEW s, NEW r, NEW a, NEW l, NEW e, NEW c, c = Named(s, r, a, l)
  PROVE  [ c EXCEPT !.receiver = e ] = Named(s, e, a, l)
<1> DEFINE F == { "sender", "receiver", "active", "linger" }
           d == [ c EXCEPT !.receiver = e ]
           g == Named(s, e, a, l)
<1>1. Has(c, F) BY DEF Has, Named
<1>2. Has(d, F) BY <1>1 DEF Has
<1>3. Has(g, F) BY DEF Has, Named
<1>4. \A f \in F : d[f] = g[f] BY <1>1 DEF Has, Named
<1> HIDE DEF d, g, F
<1>5. d = g BY <1>2, <1>3, <1>4 DEF Has
<1> QED BY <1>5 DEF d, g

\* A connection stops closed, or reset; but for the receiver with the ackno 0.
LEMMA StopsInState ==
  ASSUME NEW x \in Side, NEW c, ConnectionOK(x, c), Live(x, c), ~c.active
  PROVE  \/ state(c) \in { State.CLOSED, State.RESET }
         \/ Again(c) /\ state(c) = [ State.CLOSED EXCEPT !.receiver = "LISTEN" ]
<1> DEFINE r == c.receiver
           s == c.sender
<1>1. /\ SenderOK(x, s) /\ ReceiverOK(Other(x), r) /\ Other(x) \in Side
      /\ Tracks(x, s) /\ c.active = FALSE
      /\ s.stream.error = stream_out(r).error
  BY ConnectionFacts DEF Live, StoppedOver, inbound_stream
<1> DEFINE linger == c.active /\ c.linger_after_streams_finish
<1>2. linger = FALSE BY <1>1
<1>3. state(c) = [ sender |-> SenderSummary(s), receiver |-> ReceiverSummary(r),
                   active |-> c.active, linger |-> linger ]
  BY DEF state, StateOf
<1> HIDE DEF linger
<1>4. state(c) = Named(SenderSummary(s), ReceiverSummary(r), FALSE, FALSE)
  BY <1>1, <1>2, <1>3 DEF Named
<1>5. CASE stream_out(r).error
  <2>1. SenderSummary(s) = "ERROR" /\ ReceiverSummary(r) = "ERROR"
    BY <1>1, <1>5 DEF SenderSummary, ReceiverSummary
  <2> QED BY <1>4, <2>1 DEF State
<1>6. CASE ~stream_out(r).error
  <2>1. s.fin /\ s.bytes_in_flight = 0 /\ stream_out(r).input_end
    BY <1>1, <1>6 DEF Live, StoppedOver, inbound_stream
  <2>2. SenderSummary(s) = "FIN_ACKED" BY <1>1, <1>6, <2>1, StageMeans
  <2>3. r.syn BY <1>1, <2>1 DEF ReceiverOK
  <2>4. ReceiverSummary(r) = IF r.ackno = 0 THEN "LISTEN" ELSE "FIN_RECV"
    BY <1>6, <2>1, <2>3 DEF ReceiverSummary, ackno
  <2>5. CASE r.ackno # 0 BY <1>4, <2>2, <2>4, <2>5 DEF State
  <2>6. CASE r.ackno = 0
    <3>1. state(c) = Named("FIN_ACKED", "LISTEN", FALSE, FALSE) BY <1>4, <2>2, <2>4, <2>6
    <3>2. State.CLOSED = Named("FIN_ACKED", "FIN_RECV", FALSE, FALSE) BY DEF State
    <3>3. state(c) = [ State.CLOSED EXCEPT !.receiver = "LISTEN" ]
      <4>1. \E no : no = FALSE OBVIOUS
      <4>2. PICK no : no = FALSE BY <4>1
      <4>3. /\ state(c) = Named("FIN_ACKED", "LISTEN", no, no)
            /\ State.CLOSED = Named("FIN_ACKED", "FIN_RECV", no, no)
        BY <3>1, <3>2, <4>2
      <4>4. [ State.CLOSED EXCEPT !.receiver = "LISTEN" ] = Named("FIN_ACKED", "LISTEN", no, no)
        BY <4>3, OtherReceiver
      <4> QED BY <4>3, <4>4
    <3>4. Again(c) BY <2>3, <2>6, <3>1 DEF Again, AcknoZero, Named
    <3> QED BY <3>3, <3>4
  <2> QED BY <2>5, <2>6
<1> QED BY <1>5, <1>6

\* How an endpoint's state changes when neither half goes back.
Progress(c, d) ==
    LET now  == state(c)
        next == state(d)
    IN  /\ SenderStage[now.sender] <= SenderStage[next.sender]
        /\ ReceiverStage[now.receiver] <= ReceiverStage[next.receiver] \/ Again(d)
        /\ now.active /\ ~next.active =>
              \/ next \in {State.CLOSED, State.RESET}
              \/ Again(d) /\ next = [ State.CLOSED EXCEPT !.receiver = "LISTEN" ]

\* What moves both halves on, moves the state on.
LEMMA OnwardProgress ==
  ASSUME NEW x \in Side, NEW c, ConnectionOK(x, c), Live(x, c),
         NEW d, ConnectionOK(x, d), Onward(x, c, d)
  PROVE  Progress(c, d)
<1>1. /\ SenderOK(x, c.sender) /\ SenderOK(x, d.sender) /\ Other(x) \in Side
      /\ ReceiverOK(Other(x), c.receiver) /\ ReceiverOK(Other(x), d.receiver)
  BY ConnectionFacts
<1>2. /\ Tracks(x, c.sender) /\ Tracks(x, d.sender) /\ Forward(c.sender, d.sender)
      /\ Gains(c.receiver, d.receiver)
      /\ stream_out(c.receiver).error => stream_out(d.receiver).error
      /\ c.sender.stream.error => d.sender.stream.error
  BY DEF Onward, Live, StoppedOver, inbound_stream
<1>3. SenderStage[SenderSummary(c.sender)] <= SenderStage[SenderSummary(d.sender)]
  BY <1>1, <1>2, SenderAdvances
<1>4. \/ ReceiverStage[ReceiverSummary(c.receiver)] <= ReceiverStage[ReceiverSummary(d.receiver)]
      \/ Unnumbered(d.receiver) /\ ReceiverSummary(d.receiver) = "LISTEN"
  BY <1>1, <1>2, ReceiverAdvances
<1>5. ASSUME NEW e
      PROVE  /\ state(e).sender = SenderSummary(e.sender)
             /\ state(e).receiver = ReceiverSummary(e.receiver)
             /\ state(e).active = e.active
  BY DEF state, StateOf
<1>6. ~d.active => \/ state(d) \in { State.CLOSED, State.RESET }
                   \/ Again(d) /\ state(d) = [ State.CLOSED EXCEPT !.receiver = "LISTEN" ]
  BY StopsInState DEF Onward
<1>7. Unnumbered(d.receiver) /\ ReceiverSummary(d.receiver) = "LISTEN" => Again(d)
  BY <1>5 DEF Unnumbered, Again, AcknoZero
<1> QED BY <1>3, <1>4, <1>5, <1>6, <1>7 DEF Progress

\* The streams of an endpoint fail together, its segments in flight lie end to end, and it stops
\* only when both streams are over or have failed.
THEOREM AlwaysLive ==
  ASSUME ShortStreams, RecvCapacity < M64
  PROVE  Spec => [](Inv /\ AllLive)
<1>1. ShortStreams /\ RecvCapacity < M64 OBVIOUS
<1>2. Inv /\ AllLive /\ [Next]_vars => AllLive'
  <2>1. Inv /\ AllLive /\ Next => AllLive'
    <3> SUFFICES ASSUME Inv, AllLive, Next PROVE AllLive' OBVIOUS
    <3>1. AllOnward BY <1>1, StepOnward
    <3> QED BY <3>1 DEF AllLive, AllOnward, Onward
  <2>2. UNCHANGED vars /\ AllLive => AllLive' BY DEF vars, AllLive
  <2> QED BY <2>1, <2>2
<1>3. Inv /\ [Next]_vars => Inv' BY <1>1, StepInv
<1> QED BY InitInv, InitLive, <1>2, <1>3, PTL DEF Spec

\* What TCPState reports of an endpoint never goes back, and an endpoint stops only in the
\* state CLOSED or RESET, whatever numbers the two sides begin with; but for a receiver whose
\* ackno is 0, which ackno() takes for none (tcp_receiver.cc:56).
THEOREM AlwaysStatesAdvance ==
  ASSUME ShortStreams, RecvCapacity < M64
  PROVE  Spec => StatesAdvance
<1> DEFINE On == \A x \in Side :
               LET now   == state(conn[x])
                   next  == state(conn'[x])
                   again == AcknoZero(conn'[x]) /\ next.receiver = "LISTEN"
               IN  /\ SenderStage[now.sender] <= SenderStage[next.sender]
                   /\ ReceiverStage[now.receiver] <= ReceiverStage[next.receiver] \/ again
                   /\ now.active /\ ~next.active =>
                         \/ next \in {State.CLOSED, State.RESET}
                         \/ again /\ next = [ State.CLOSED EXCEPT !.receiver = "LISTEN" ]
<1>1. ShortStreams /\ RecvCapacity < M64 OBVIOUS
<1>2. Spec => [](Inv /\ AllLive) BY AlwaysLive
<1>3. Inv /\ Inv' /\ AllLive /\ [Next]_vars => [On]_vars
  <2>1. ASSUME Inv, Inv', AllLive, Next PROVE On
    <3>1. AllOnward BY <1>1, <2>1, StepOnward
    <3>2. ASSUME NEW x \in Side PROVE Progress(conn[x], conn'[x])
      <4>1. ConnectionOK(x, conn[x]) /\ ConnectionOK(x, conn'[x]) BY <2>1 DEF Inv, InvOf
      <4> QED BY <2>1, <3>1, <4>1, OnwardProgress DEF AllLive, AllOnward
    <3> QED BY <3>2 DEF Progress, Again
  <2> QED BY <2>1
<1>4. StatesAdvance <=> [][On]_vars BY DEF StatesAdvance
<1> HIDE DEF On
<1> QED BY <1>2, <1>3, <1>4, PTL DEF Spec

\* An endpoint that has closed without an error has delivered the whole of its stream.
CloseDelivers ==
    \A x \in Side : (~conn[x].active /\ ~Failed(x)) => Got(Other(x)) = Data[x]

\* Its FIN is acknowledged, so that the other side has reached the last of its numbers.
LEMMA CloseFromInv == Inv /\ AllLive => CloseDelivers
<1> SUFFICES ASSUME Inv, AllLive, NEW x \in Side, ~conn[x].active, ~Failed(x)
             PROVE  Got(Other(x)) = Data[x]
  BY DEF CloseDelivers
<1> DEFINE s == conn[x].sender
           y == Other(x)
           r == conn[y].receiver
           f == s.stream
           len == Len(Data[x])
<1>1. y \in Side /\ Other(y) = x /\ len \in Nat BY SideFacts, DataFacts
<1>2. /\ SenderOK(x, s) /\ Tracks(x, s) /\ ReceiverOK(x, r)
      /\ s.receive_ack <= Reached(r)
  BY <1>1 DEF Inv, InvOf, ConnectionOK, AllLive, Live
<1>3. s.fin /\ s.bytes_in_flight = 0
  BY DEF AllLive, Live, StoppedOver, Failed
<1> HIDE DEF s, r
<1>4. s.receive_ack = len + 2
  <2>1. /\ s.next_seqno \in Nat /\ s.receive_ack \in Nat /\ Base(s) \in Nat
        /\ Base(s) + s.bytes_in_flight = s.next_seqno /\ Base(s) <= s.receive_ack
        /\ s.receive_ack <= s.next_seqno
    BY <1>2, TiledFacts DEF Tracks
  <2>2. eof(f) /\ f.written = len BY <1>2, <1>3 DEF Tracks, eof
  <2>3. f.readden \in Nat /\ f.readden + Len(f.buffer) = f.written
    BY <1>2, PassesFacts DEF SenderOK
  <2>4. Len(f.buffer) = 0 BY <2>2, EmptySeq DEF eof
  <2>5. s.next_seqno = Bit(s.syn) + f.readden + Bit(s.fin) /\ s.syn
    BY <1>2, <1>3 DEF SenderOK
  <2>6. Bit(s.syn) = 1 /\ Bit(s.fin) = 1 BY <1>3, <2>5 DEF Bit
  <2>7. s.next_seqno = len + 2
    <3> DEFINE rd == f.readden
               w == f.written
    <3>1. s.next_seqno = 1 + rd + 1 /\ rd + 0 = w /\ w = len /\ rd \in Nat
      BY <2>2, <2>3, <2>4, <2>5, <2>6
    <3> HIDE DEF rd, w, len
    <3> QED BY <1>1, <3>1
  <2>8. Base(s) = s.next_seqno BY <1>3, <2>1
  <2> HIDE DEF f, len
  <2> QED BY <2>1, <2>7, <2>8
<1>5. stream_out(r).written = len
  <2> DEFINE w == stream_out(r).written
             a == Bit(r.syn)
             b == Bit(stream_out(r).input_end)
  <2>1. Reached(r) = a + w + b BY DEF Reached
  <2>2. a \in {0, 1} /\ b \in {0, 1} BY DEF Bit
  <2>3. w \in Nat /\ w <= len BY <1>2, ReceiverFacts, PassesFacts
  <2>4. len + 2 <= a + w + b BY <1>2, <1>4, <2>1
  <2> HIDE DEF w, a, b, len
  <2>5. w = len BY <1>1, <2>2, <2>3, <2>4
  <2> QED BY <2>5 DEF w
<1>6. Got(y) = Part(x, 0, len) BY <1>1, <1>5, GotIsPart DEF inbound_stream, r
<1> HIDE DEF y
<1>7. Part(x, 0, len) = Data[x]
  <2>1. Data[x] \in Seq(Byte) BY ConnectionAssumption
  <2>2. 0 + 1 = 1 /\ 0 + len = len BY <1>1
  <2> QED BY <2>1, <2>2 DEF Part, len
<1> QED BY <1>6, <1>7 DEF y

-----------------------------------------------------------------------------
\* The bytes a reassembler counts that it no longer keeps (Leaked).
Leak(p) == p.unassembled - Cardinality(DOMAIN p.stored)

\* The end of the stream is written, or waits, or will be waited for in vain.
EndKept(x, p) ==
    \/ p.output.written = Len(Data[x])
    \/ Len(Data[x]) - 1 \in DOMAIN p.stored
    \/ Leak(p) > 0

\* A receiver that has seen the FIN will not end the stream before its last byte.
EndsInTime(x, r) ==
    /\ r.fin => EndKept(x, r.reassembler)
    /\ EndsWhole(x, stream_out(r))

\* What a reassembler keeps is finite.
LEMMA StoredFacts ==
  ASSUME NEW x \in Side, NEW p, Assembles(x, p)
  PROVE  /\ IsFiniteSet(DOMAIN p.stored) /\ Cardinality(DOMAIN p.stored) \in Nat
         /\ p.unassembled \in Int /\ Leak(p) \in Int
<1>1. Len(Data[x]) \in Nat BY DataFacts
<1>2. IsFiniteSet(0..(Len(Data[x]) - 1))
  <2>1. 0 \in Int /\ Len(Data[x]) - 1 \in Int BY <1>1
  <2> QED BY <2>1, FS_Interval
<1>3. DOMAIN p.stored \in SUBSET (0..(Len(Data[x]) - 1)) BY AssemblesFacts
<1>4. IsFiniteSet(DOMAIN p.stored) BY <1>2, <1>3, FS_Subset
<1>5. Cardinality(DOMAIN p.stored) \in Nat BY <1>4, FS_CardinalityType
<1>6. p.unassembled \in Int BY DEF Assembles
<1> QED BY <1>4, <1>5, <1>6 DEF Leak

\* Storing counts each byte once, and keeps the last one of what it stores.
LEMMA StoreKeepsEnd ==
  ASSUME NEW x \in Side, NEW p, Assembles(x, p), NEW data, NEW i, Fits(x, data, i)
  PROVE  LET t == Store(p, data, i)
         IN  /\ Leak(t) = Leak(p) /\ DOMAIN p.stored \subseteq DOMAIN t.stored
             /\ i + Len(data) = Len(Data[x]) /\ p.head_index < Len(Data[x]) /\ data # <<>>
                  => Len(Data[x]) - 1 \in DOMAIN t.stored
<1> DEFINE old == DOMAIN p.stored
           h == p.head_index
           n == Len(data)
           new == MaxOf(i, h)..(i + n - 1)
           all == old \cup new
           keep == [ j \in all |->
                       IF j \in old THEN p.stored[j] ELSE data[j - i + 1] ]
           u == p.unassembled + Cardinality(new \ old)
           t == Store(p, data, i)
<1>1. h \in Nat BY AssemblesFacts
<1>2. Len(Data[x]) \in Nat /\ n \in Nat /\ i \in Nat BY DataFacts, LenProperties DEF Fits
<1>3. IsFiniteSet(old) /\ Cardinality(old) \in Nat /\ p.unassembled \in Int BY StoredFacts
<1>4. IsFiniteSet(new)
  <2> DEFINE lo == MaxOf(i, h)
             hi == i + n - 1
  <2>1. lo \in Int /\ hi \in Int BY <1>1, <1>2 DEF MaxOf
  <2> HIDE DEF lo, hi
  <2>2. IsFiniteSet(lo..hi) BY <2>1, FS_Interval
  <2> QED BY <2>2 DEF lo, hi
<1>5. i + n = Len(Data[x]) /\ h < Len(Data[x]) /\ data # <<>> => Len(Data[x]) - 1 \in new
  <2> SUFFICES ASSUME i + n = Len(Data[x]), h < Len(Data[x]), data # <<>>
               PROVE  Len(Data[x]) - 1 \in new
    OBVIOUS
  <2>1. n > 0
    <3>1. data \in Seq(Byte) BY DEF Fits
    <3> QED BY <1>2, <3>1, EmptySeq
  <2> HIDE DEF n, h
  <2> QED BY <1>1, <1>2, <2>1 DEF MaxOf
<1>6. t = [ p EXCEPT !.stored = keep, !.unassembled = u ] BY DEF Store
<1> HIDE DEF new, old
<1>7. DOMAIN keep = all OBVIOUS
<1> HIDE DEF t, keep, u
<1>8. /\ t.stored = keep /\ t.unassembled = u
  BY <1>6 DEF Assembles, Has, ReassemblerFields
<1>9. Cardinality(all) = Cardinality(old) + Cardinality(new \ old)
  <2> DEFINE more == new \ old
  <2>1. IsFiniteSet(more) BY <1>4, FS_Subset
  <2>2. all = old \cup more /\ old \cap more = {} BY DEF more
  <2> HIDE DEF more, all
  <2>3. Cardinality(old \cup more) = Cardinality(old) + Cardinality(more) - Cardinality(old \cap more)
    BY <1>3, <2>1, FS_Union
  <2>4. Cardinality(old \cap more) = 0 BY <2>2, FS_EmptySet
  <2>5. Cardinality(more) \in Nat BY <2>1, FS_CardinalityType
  <2> QED BY <1>3, <2>2, <2>3, <2>4, <2>5 DEF more
<1>10. Cardinality(new \ old) \in Nat
  <2>1. IsFiniteSet(new \ old) BY <1>4, FS_Subset
  <2> QED BY <2>1, FS_CardinalityType
<1>11. Leak(t) = Leak(p)
  <2> DEFINE m == Cardinality(new \ old)
             a == Cardinality(old)
             b == p.unassembled
  <2>1. Leak(t) = u - Cardinality(all) BY <1>7, <1>8 DEF Leak
  <2>2. Leak(p) = b - a BY DEF Leak, old
  <2>3. u = b + m BY DEF u
  <2> HIDE DEF m, a, b, all
  <2> QED BY <1>3, <1>9, <1>10, <2>1, <2>2, <2>3 DEF m, a, b
<1> QED BY <1>5, <1>7, <1>8, <1>11 DEF t, old, n, h

\* The run at the head is dropped as a whole; the bytes of it that are not written are lost.
LEMMA AssembleKeepsEnd ==
  ASSUME NEW x \in Side, NEW p, Assembles(x, p), Leak(p) >= 0
  PROVE  LET t == Assemble(p, RecvCapacity)
         IN  Leak(t) >= 0 /\ (EndKept(x, p) => EndKept(x, t))
<1> DEFINE S == DOMAIN p.stored
           h == p.head_index
           cap == RecvCapacity
           e == RunEnd(S, h)
           run == [ k \in 1..(e - h) |-> p.stored[h + k - 1] ]
           len == accepted(p.output, cap, run)
           o == write(p.output, cap, run)
           rest == { j \in S : j >= e }
           keep == [ i \in rest |-> p.stored[i] ]
           u == p.unassembled - len
           t == Assemble(p, cap)
           L == Len(Data[x])
<1>1. CASE h \notin S
  <2>1. t = p BY <1>1 DEF Assemble
  <2> QED BY <2>1
<1>2. CASE h \in S
  <2>1. t = [ p EXCEPT !.output = o, !.head_index = h + len, !.unassembled = u, !.stored = keep ]
    BY <1>2 DEF Assemble
  <2>2. /\ h = p.output.written /\ Passes(x, p.output) /\ Len(p.output.buffer) <= cap
        /\ Keeps(x, p.stored) /\ Has(p, ReassemblerFields)
    BY DEF Assembles
  <2>3. /\ h \in Nat /\ e \in Nat /\ h < e /\ e <= L /\ L \in Nat
        /\ run = Part(x, h, e - h)
    BY <1>2, <2>2, RunIsPart, DataFacts
  <2>4. /\ IsFiniteSet(S) /\ Cardinality(S) \in Nat /\ p.unassembled \in Int
        /\ S \in SUBSET (0..(L - 1))
    BY StoredFacts, AssemblesFacts
  <2>5. \A i \in h..(e - 1) : i \in S
    <3>1. L \in Nat /\ S \in SUBSET (0..(L - 1)) /\ h \in S BY <1>2, <2>3, <2>4
    <3>2. e = FirstGap(S, h) BY DEF RunEnd, FirstGap
    <3> HIDE DEF S, e, h, L
    <3> QED BY <3>1, <3>2, FirstGapFacts
  <2> DEFINE m == e - h
  <2>6. cap \in Nat /\ m \in Nat /\ h + m <= Len(Data[x])
    <3>1. cap \in Nat BY TCPConfigAssumption
    <3> QED BY <2>3, <3>1
  <2>7. run = Part(x, h, m) BY <2>3
  <2> HIDE DEF t, o, len, run, e, h, m, cap, keep, rest, u
  <2>8. len \in 0..m /\ o.written = h + len
    <3>1. len \in 0..m /\ o.written = p.output.written + len
      BY <2>2, <2>6, <2>7, WritePasses DEF o, len
    <3> QED BY <2>2, <3>1
  <2>9. t.stored = keep /\ t.unassembled = u /\ t.output = o
    BY <2>1, <2>2 DEF Has, ReassemblerFields
  <2>10. DOMAIN t.stored = rest BY <2>9 DEF keep
  <2> DEFINE gone == S \ rest
  <2>11. Cardinality(rest) + m <= Cardinality(S) /\ Cardinality(rest) \in Nat
    <3> DEFINE front == h..(e - 1)
    <3>1. rest \in SUBSET S BY DEF rest
    <3>2. front \in SUBSET S /\ front \cap rest = {}
      <4>1. \A j \in front : ~(j >= e) BY <2>3
      <4>2. \A j \in rest : j >= e BY DEF rest
      <4> QED BY <2>5, <4>1, <4>2
    <3>3. IsFiniteSet(front) /\ Cardinality(front) = m
      <4>1. h \in Int /\ e - 1 \in Int /\ ~(h > e - 1) /\ (e - 1) - h + 1 = m BY <2>3 DEF m
      <4> QED BY <4>1, FS_Interval
    <3>4. IsFiniteSet(rest) /\ Cardinality(rest) \in Nat
      <4>1. IsFiniteSet(rest) BY <2>4, <3>1, FS_Subset
      <4> QED BY <4>1, FS_CardinalityType
    <3> HIDE DEF front, S
    <3>5. Cardinality(front \cup rest) =
            Cardinality(front) + Cardinality(rest) - Cardinality(front \cap rest)
      BY <3>3, <3>4, FS_Union
    <3>6. Cardinality(front \cap rest) = 0 BY <3>2, FS_EmptySet
    <3>7. Cardinality(front \cup rest) <= Cardinality(S)
      <4>1. front \cup rest \in SUBSET S BY <3>1, <3>2
      <4> QED BY <2>4, <4>1, FS_Subset
    <3> QED BY <2>4, <2>6, <3>3, <3>4, <3>5, <3>6, <3>7
  <2>12. Leak(t) >= Leak(p) + (m - len) /\ Leak(t) \in Int /\ Leak(p) \in Int
    <3> DEFINE a == Cardinality(S)
               b == Cardinality(rest)
               v == p.unassembled
    <3>1. Leak(t) = u - b BY <2>9, <2>10 DEF Leak
    <3>2. Leak(p) = v - a BY DEF Leak
    <3>3. u = v - len BY DEF u
    <3>4. a \in Nat /\ v \in Int /\ b \in Nat /\ b + m <= a BY <2>4, <2>11
    <3> HIDE DEF a, b, v
    <3> QED BY <2>6, <2>8, <3>1, <3>2, <3>3, <3>4
  <2>13. Leak(t) >= 0 BY <2>6, <2>8, <2>12
  <2>14. ASSUME EndKept(x, p) PROVE EndKept(x, t)
    <3>1. p.output.written # L BY <1>2, <2>2, <2>3, <2>4
    <3>2. CASE Leak(p) > 0
      <4>1. Leak(t) > 0 BY <2>6, <2>8, <2>12, <3>2
      <4> QED BY <4>1 DEF EndKept
    <3>3. CASE L - 1 \in S /\ L - 1 >= e
      <4>1. L - 1 \in rest BY <3>3 DEF rest
      <4> QED BY <2>10, <4>1 DEF EndKept
    <3>4. CASE L - 1 \in S /\ ~(L - 1 >= e)
      <4>1. e = L BY <2>3, <3>4
      <4>2. CASE len = m
        <5>1. h + len = L BY <2>3, <4>1, <4>2 DEF m
        <5> QED BY <2>8, <2>9, <5>1 DEF EndKept
      <4>3. CASE len # m
        <5>1. Leak(t) > 0 BY <2>6, <2>8, <2>12, <4>3
        <5> QED BY <5>1 DEF EndKept
      <4> QED BY <4>2, <4>3
    <3> QED BY <2>14, <3>1, <3>2, <3>3, <3>4 DEF EndKept
  <2> QED BY <2>13, <2>14 DEF t, cap
<1> QED BY <1>1, <1>2

\* Judging the end of the stream takes nothing from what is kept.
LEMMA JudgeEofKeepsEnd ==
  ASSUME NEW x \in Side, NEW p, Assembles(x, p), NEW b \in BOOLEAN
  PROVE  LET t == JudgeEof(p, b)
         IN  /\ Leak(t) = Leak(p) /\ t.output.written = p.output.written
             /\ EndKept(x, p) => EndKept(x, t)
<1> DEFINE flag == p.eof_flag \/ b
           o == IF flag /\ empty(p) THEN end_input(p.output) ELSE p.output
           t == JudgeEof(p, b)
<1>1. t = [ p EXCEPT !.eof_flag = flag, !.output = o ] BY DEF JudgeEof
<1>2. o.written = p.output.written
  <2>1. Passes(x, p.output) BY DEF Assembles
  <2>2. end_input(p.output).written = p.output.written
    BY <2>1 DEF end_input, Passes, Has, StreamFields
  <2> QED BY <2>2
<1> HIDE DEF t, o, flag
<1>3. t.stored = p.stored /\ t.unassembled = p.unassembled /\ t.output = o
  BY <1>1 DEF Assembles, Has, ReassemblerFields
<1> QED BY <1>2, <1>3 DEF Leak, EndKept, t

\* A substring that ends the stream, and does not come too early, brings its end.
LEMMA PushKeepsEnd ==
  ASSUME NEW x \in Side, NEW p, Assembles(x, p), Leak(p) >= 0, NEW data, NEW i,
         Fits(x, data, i), NEW b \in BOOLEAN
  PROVE  LET t == push_substring(p, RecvCapacity, data, i, b)
         IN  /\ Leak(t) >= 0
             /\ EndKept(x, p) => EndKept(x, t)
             /\ /\ i + Len(data) = Len(Data[x])
                /\ i < p.output.written + (IF data = <<>> THEN 1 ELSE RecvCapacity)
                => EndKept(x, t)
<1> DEFINE s == Store(p, data, i)
           a == Assemble(s, RecvCapacity)
           t == push_substring(p, RecvCapacity, data, i, b)
           L == Len(Data[x])
           h == p.head_index
           n == Len(data)
           InTime == i + n = L /\ i < h + (IF data = <<>> THEN 1 ELSE RecvCapacity)
<1>1. /\ Assembles(x, s) /\ s.output = p.output /\ Leak(s) = Leak(p)
      /\ DOMAIN p.stored \subseteq DOMAIN s.stored
      /\ i + n = L /\ h < L /\ data # <<>> => L - 1 \in DOMAIN s.stored
  BY StoreAssembles, StoreKeepsEnd
<1>2. h = p.output.written /\ h \in Nat /\ h <= L /\ L \in Nat
  BY AssemblesFacts, DataFacts
<1>3. i \in Nat /\ n \in Nat /\ RecvCapacity \in Nat /\ (data = <<>> => n = 0)
  BY LenProperties, EmptySeq, TCPConfigAssumption DEF Fits
<1>4. EndKept(x, p) => EndKept(x, s) BY <1>1 DEF EndKept
<1> HIDE DEF s
<1>5. Assembles(x, a) /\ Leak(a) >= 0 /\ (EndKept(x, s) => EndKept(x, a))
  BY <1>1, AssembleAssembles, AssembleKeepsEnd
<1> HIDE DEF a
<1>6. CASE i >= h + RecvCapacity
  <2>1. t = p BY <1>6 DEF push_substring
  <2>2. ASSUME InTime PROVE EndKept(x, t)
    <3>1. h = L
      <4> HIDE DEF L, h, n
      <4> QED BY <1>2, <1>3, <1>6, <2>2
    <3> QED BY <1>2, <2>1, <3>1 DEF EndKept
  <2> QED BY <1>2, <2>1, <2>2
<1>7. CASE ~(i >= h + RecvCapacity) /\ i + n <= h
  <2>1. t = JudgeEof(p, b) BY <1>7 DEF push_substring
  <2>2. /\ Leak(t) = Leak(p) /\ t.output.written = p.output.written
        /\ EndKept(x, p) => EndKept(x, t)
    BY <2>1, JudgeEofKeepsEnd
  <2>3. ASSUME InTime PROVE EndKept(x, t)
    <3>1. h = L
      <4> HIDE DEF L, h
      <4> QED BY <1>2, <1>7, <2>3
    <3> QED BY <1>2, <2>2, <3>1 DEF EndKept
  <2> QED BY <1>2, <2>2, <2>3
<1>8. CASE ~(i >= h + RecvCapacity) /\ ~(i + n <= h)
  <2>1. t = JudgeEof(a, b) BY <1>8 DEF push_substring, a, s
  <2>2. Leak(t) = Leak(a) /\ (EndKept(x, a) => EndKept(x, t)) BY <1>5, <2>1, JudgeEofKeepsEnd
  <2>3. ASSUME InTime PROVE EndKept(x, t)
    <3>1. h < L /\ data # <<>>
      <4> HIDE DEF L, h, n
      <4> QED BY <1>2, <1>3, <1>8, <2>3
    <3>2. EndKept(x, s) BY <1>1, <2>3, <3>1 DEF EndKept
    <3> QED BY <1>5, <2>2, <3>2
  <2> QED BY <1>2, <1>4, <1>5, <2>2, <2>3
<1> QED BY <1>6, <1>7, <1>8

\* Where nothing waits, and nothing was lost, the end is written.
LEMMA EmptyHasEnd ==
  ASSUME NEW x \in Side, NEW p, Assembles(x, p), Leak(p) >= 0, EndKept(x, p), empty(p)
  PROVE  p.output.written = Len(Data[x])
<1> DEFINE S == DOMAIN p.stored
<1>1. IsFiniteSet(S) /\ Cardinality(S) \in Nat BY StoredFacts
<1>2. p.unassembled = 0 BY DEF empty
<1>3. Cardinality(S) = 0 /\ ~(Leak(p) > 0)
  <2> DEFINE a == Cardinality(S)
  <2>1. Leak(p) = 0 - a BY <1>2 DEF Leak
  <2>2. a \in Nat BY <1>1
  <2> HIDE DEF a
  <2>3. a = 0 /\ ~(Leak(p) > 0) BY <2>1, <2>2
  <2> QED BY <2>3 DEF a
<1> HIDE DEF S
<1>4. S = {} BY <1>1, <1>3, FS_EmptySet
<1> QED BY <1>3, <1>4 DEF EndKept, S

\* A segment with the FIN that comes before bytes that are missing (TooEarly).
Early(x, r, seg) ==
    seg.fin /\ Len(Data[x]) - Len(seg.payload) >=
                 stream_out(r).written + (IF seg.payload = <<>> THEN 1 ELSE RecvCapacity)

\* Counting the FIN ends the output of a reassembler, and changes nothing else of it.
LEMMA CountFinKeepsEnd ==
  ASSUME NEW x \in Side, NEW r, Has(r, ReceiverFields), Assembles(x, r.reassembler),
         Leak(r.reassembler) >= 0, NEW seg,
         r.fin \/ (seg.fin /\ r.syn) => EndKept(x, r.reassembler), EndsWhole(x, stream_out(r))
  PROVE  LET u == CountFin(r, seg) IN EndsInTime(x, u)
<1> DEFINE fin == r.fin \/ (seg.fin /\ r.syn)
           p == r.reassembler
           o == end_input(p.output)
           u == CountFin(r, seg)
<1>1. CASE ~(fin /\ empty(p))
  <2>1. u = [ r EXCEPT !.fin = fin ] BY <1>1 DEF CountFin
  <2> HIDE DEF u, fin
  <2>2. u.fin = fin /\ u.reassembler = p BY <2>1 DEF Has, ReceiverFields
  <2>3. u.fin => EndKept(x, u.reassembler) BY <2>2 DEF fin
  <2>4. stream_out(u) = stream_out(r) BY <2>2 DEF stream_out
  <2> QED BY <2>3, <2>4 DEF EndsInTime, u
<1>2. CASE fin /\ empty(p)
  <2> DEFINE q == EndOutput(p)
             ack == IF r.fin_not_count THEN Plus32(r.ackno, 1) ELSE r.ackno
  <2>1. u = [ r EXCEPT !.fin = TRUE, !.ackno = ack, !.fin_not_count = FALSE,
                       !.reassembler = q ]
    BY <1>2 DEF CountFin
  <2>2. q = [ p EXCEPT !.output = o ] BY DEF EndOutput
  <2>3. o.written = p.output.written
    <3>1. Passes(x, p.output) BY DEF Assembles
    <3> QED BY <3>1 DEF end_input, Passes, Has, StreamFields
  <2>4. EndKept(x, p) BY <1>2
  <2>5. p.output.written = Len(Data[x]) BY <1>2, <2>4, EmptyHasEnd
  <2> HIDE DEF o, u, q, ack
  <2>6. u.reassembler = q BY <2>1 DEF Has, ReceiverFields
  <2>7. q.output = o BY <2>2 DEF Assembles, Has, ReassemblerFields
  <2>8. EndKept(x, q) BY <2>3, <2>5, <2>7 DEF EndKept
  <2>9. EndsWhole(x, stream_out(u)) BY <2>3, <2>5, <2>6, <2>7 DEF EndsWhole, stream_out
  <2> QED BY <2>6, <2>8, <2>9 DEF EndsInTime, u
<1> QED BY <1>1, <1>2

\* What the count of the FIN loses: nothing.
LEMMA CountFinLeak ==
  ASSUME NEW x \in Side, NEW r, Has(r, ReceiverFields), Assembles(x, r.reassembler), NEW seg
  PROVE  Leak(CountFin(r, seg).reassembler) = Leak(r.reassembler)
<1> DEFINE p == r.reassembler
           u == CountFin(r, seg)
           q == EndOutput(p)
           o == end_input(p.output)
<1>1. u.reassembler \in {p, q}
  <2>1. u \in { [ r EXCEPT !.fin = TRUE,
                          !.ackno = IF r.fin_not_count THEN Plus32(r.ackno, 1) ELSE r.ackno,
                          !.fin_not_count = FALSE, !.reassembler = q ],
                [ r EXCEPT !.fin = r.fin \/ (seg.fin /\ r.syn) ] }
    BY DEF CountFin
  <2> HIDE DEF u, q
  <2> QED BY <2>1 DEF Has, ReceiverFields
<1>2. q = [ p EXCEPT !.output = o ] BY DEF EndOutput
<1> HIDE DEF q, o, u
<1>3. q.stored = p.stored /\ q.unassembled = p.unassembled
  BY <1>2 DEF Assembles, Has, ReassemblerFields
<1> QED BY <1>1, <1>3 DEF Leak, u

\* A receiver that takes a segment, unless its FIN comes too early.
LEMMA ReceivedEnds ==
  ASSUME ShortStreams, NEW x \in Side, NEW r, ReceiverOK(x, r), Leak(r.reassembler) >= 0,
         NEW seg, PieceOf(x, seg)
  PROVE  LET u == segment_received(r, RecvCapacity, seg)
         IN  /\ Leak(u.reassembler) >= 0
             /\ EndsInTime(x, r) /\ ~Early(x, r, seg) => EndsInTime(x, u)
<1> DEFINE u == segment_received(r, RecvCapacity, seg)
           a == AcceptSyn(r, seg)
           t == PushPayload(a, RecvCapacity, seg)
           i == StreamIndex(a, seg)
           p == r.reassembler
           q == push_substring(p, RecvCapacity, seg.payload, i, seg.fin)
           ack == IF seg.syn \/ a.ackno = seg.seqno
                    THEN Plus32(a.ackno, q.output.written - stream_out(a).written) ELSE a.ackno
<1>1. CASE seg.syn /\ r.syn
  <2>1. u = r BY <1>1 DEF segment_received
  <2> QED BY <2>1
<1>2. CASE ~(seg.syn /\ r.syn)
  <2>1. u = CountFin(t, seg) BY <1>2 DEF segment_received
  <2>2. ReceiverOK(x, a) /\ a.reassembler = p BY <1>2, AcceptSynOK
  <2>3. a.fin = r.fin
    <3>1. Has(r, ReceiverFields) BY DEF ReceiverOK
    <3> QED BY <3>1 DEF AcceptSyn, Has, ReceiverFields
  <2>4. Closed(a) => t = a BY DEF PushPayload
  <2>5. ~Closed(a) => t = [ a EXCEPT !.reassembler = q, !.ackno = ack ]
    BY <2>2 DEF PushPayload
  <2> HIDE DEF a
  <2>6. Pushed(x, a, seg, t) BY <2>2, PushPayloadOK
  <2> HIDE DEF t, u, ack
  <2>7. /\ Has(a, ReceiverFields) /\ a.syn \in BOOLEAN /\ (~a.syn => ~a.fin)
        /\ (a.reassembler.eof_flag => a.fin) /\ Assembles(x, p)
    BY <2>2 DEF ReceiverOK
  <2>8. /\ Has(t, ReceiverFields) /\ Assembles(x, t.reassembler) /\ t.fin = a.fin
        /\ t.syn = a.syn
    BY <2>6 DEF Pushed
  <2>9. stream_out(a) = p.output /\ stream_out(r) = p.output BY <2>2 DEF stream_out
  <2>10. CASE Closed(a)
    <3>1. t.reassembler = p /\ stream_out(t) = p.output
      BY <2>2, <2>4, <2>10 DEF stream_out
    <3>2. Leak(u.reassembler) >= 0 BY <2>1, <2>7, <2>8, <3>1, CountFinLeak
    <3>3. ASSUME EndsInTime(x, r) PROVE EndsInTime(x, u)
      <4>1. t.fin \/ (seg.fin /\ t.syn) => EndKept(x, t.reassembler)
        BY <2>3, <2>7, <2>8, <2>10, <3>1, <3>3 DEF Closed, EndsInTime
      <4>2. EndsWhole(x, stream_out(t)) BY <2>9, <3>1, <3>3 DEF EndsInTime
      <4>3. EndsInTime(x, CountFin(t, seg)) BY <2>8, <3>1, <4>1, <4>2, CountFinKeepsEnd
      <4> QED BY <2>1, <4>3
    <3> QED BY <3>2, <3>3 DEF u
  <2>11. CASE ~Closed(a)
    <3>1. a.syn BY <2>11 DEF Closed
    <3>2. t.reassembler = q
      <4> HIDE DEF q
      <4> QED BY <2>5, <2>7, <2>11 DEF Has, ReceiverFields
    <3>3. /\ Fits(x, seg.payload, i)
          /\ seg.fin => i + Len(seg.payload) = Len(Data[x])
      BY <2>2, <3>1, StreamIndexFits
    <3>4. seg.fin \in BOOLEAN BY DEF PieceOf
    <3> DEFINE cap == IF seg.payload = <<>> THEN 1 ELSE RecvCapacity
               n == Len(seg.payload)
               w == p.output.written
               L == Len(Data[x])
    <3> HIDE DEF i
    <3>5. /\ Leak(q) >= 0
          /\ EndKept(x, p) => EndKept(x, q)
          /\ i + n = L /\ i < w + cap => EndKept(x, q)
      BY <2>7, <3>3, <3>4, PushKeepsEnd
    <3>6. /\ Continues(p, q)
          /\ q.output.input_end => \/ p.output.input_end
                                   \/ (p.eof_flag \/ seg.fin) /\ empty(q)
      BY <2>7, <3>3, <3>4, PushAssembles
    <3> HIDE DEF q
    <3>7. Leak(u.reassembler) >= 0
      <4>1. Leak(u.reassembler) = Leak(q) BY <2>1, <2>8, <3>2, CountFinLeak
      <4> QED BY <3>5, <4>1
    <3>8. ASSUME EndsInTime(x, r), ~Early(x, r, seg) PROVE EndsInTime(x, u)
      <4>1. seg.fin => EndKept(x, q)
        <5> SUFFICES ASSUME seg.fin PROVE EndKept(x, q) OBVIOUS
        <5>1. ~(L - n >= w + cap) BY <2>9, <3>8 DEF Early
        <5>2. i + n = L /\ i \in Nat BY <3>3 DEF Fits
        <5>3. n \in Nat BY <3>3, LenProperties DEF Fits
        <5>4. w \in Nat /\ cap \in Nat
          <6>1. w \in Nat BY <2>7, PassesFacts DEF Assembles
          <6> QED BY <6>1, TCPConfigAssumption
        <5>5. i < w + cap
          <6> HIDE DEF n, w, cap, L
          <6> QED BY <5>1, <5>2, <5>3, <5>4
        <5> QED BY <3>5, <5>2, <5>5
      <4>2. t.fin => EndKept(x, q) BY <2>3, <2>8, <3>5, <3>8 DEF EndsInTime
      <4>3. EndsWhole(x, q.output)
        <5> SUFFICES ASSUME q.output.input_end PROVE q.output.written = L BY DEF EndsWhole
        <5>1. Assembles(x, q) BY <2>8, <3>2
        <5>2. CASE p.output.input_end
          <6>1. w = L BY <2>9, <3>8, <5>2 DEF EndsInTime, EndsWhole
          <6>2. q.output.written \in Nat /\ q.output.written <= L /\ w <= q.output.written
            BY <3>6, <5>1, PassesFacts DEF Assembles, Continues
          <6>4. L \in Nat BY DataFacts
          <6> DEFINE v == q.output.written
          <6> HIDE DEF w, v, L
          <6>3. v = L BY <6>1, <6>2, <6>4 DEF v
          <6> QED BY <6>3 DEF v
        <5>3. CASE (p.eof_flag \/ seg.fin) /\ empty(q)
          <6>1. EndKept(x, q)
            <7>1. p.eof_flag => t.fin BY <2>2, <2>7, <2>8
            <7> QED BY <4>1, <4>2, <5>3, <7>1
          <6> QED BY <3>5, <5>1, <5>3, <6>1, EmptyHasEnd
        <5> QED BY <3>6, <5>2, <5>3
      <4>4. EndsWhole(x, stream_out(t)) BY <3>2, <4>3 DEF stream_out
      <4>5. t.fin \/ (seg.fin /\ t.syn) => EndKept(x, t.reassembler) BY <3>2, <4>1, <4>2
      <4>6. Leak(t.reassembler) >= 0 BY <3>2, <3>5
      <4>7. EndsInTime(x, CountFin(t, seg)) BY <2>8, <4>4, <4>5, <4>6, CountFinKeepsEnd
      <4> QED BY <2>1, <4>7
    <3> QED BY <3>7, <3>8 DEF u
  <2> QED BY <2>10, <2>11
<1> QED BY <1>1, <1>2

\* TCPConnection::segment_received gives its receiver the segment, or nothing.
LEMMA ConnReceivedTakes ==
  ASSUME ShortStreams, NEW x \in Side, NEW c, ConnectionOK(x, c),
         NEW m \in 0..(Len(Data[x]) + 2), NEW seg \in Truthful(Other(x), m),
         c.sender.receive_ack <= m
  PROVE  LET t == conn_segment_received(c, seg)
         IN  \/ SameStore(c.receiver, t.receiver)
             \/ SameStore(segment_received(c.receiver, RecvCapacity, seg), t.receiver)
<1> DEFINE t == conn_segment_received(c, seg)
           idle == [ c EXCEPT !.time_since_last_segment_received = 0 ]
           now == Heard(c, seg)
           r == segment_received(c.receiver, RecvCapacity, seg)
<1>1. t \in { c, idle, connect(now), Reply(now, seg), now, unclean_shutdown(now, FALSE) }
  BY DEF conn_segment_received, Heard
<1>2. SameStore(c.receiver, c.receiver) /\ SameStore(r, r) BY DEF SameStore
<1>3. idle.receiver = c.receiver BY DEF ConnectionOK, Has, ConnectionFields
<1>4. Advances(x, c, now, m) /\ now.receiver = r BY HeardOK
<1> HIDE DEF now, idle, t, r
<1>5. ConnectionOK(x, now) BY <1>4 DEF Advances
<1>6. Follows(x, now, connect(now)) BY <1>5, SegmentSendsOK DEF connect
<1>7. Follows(x, now, Reply(now, seg)) BY <1>5, ReplyOK
<1>8. Follows(x, now, unclean_shutdown(now, FALSE)) BY <1>5, UncleanShutdownOK
<1>9. \/ SameStore(c.receiver, t.receiver)
      \/ SameStore(r, t.receiver)
  BY <1>1, <1>2, <1>3, <1>4, <1>6, <1>7, <1>8 DEF Follows
<1> QED BY <1>9 DEF t, r

-----------------------------------------------------------------------------
\* What comes to the receivers.
AllEnd ==
    \A y \in Side :
        LET x == Other(y)
            r == conn[y].receiver
        IN  /\ Leak(r.reassembler) >= 0
            /\ x \notin earlyfin => EndsInTime(x, r)

\* Nothing comes to the receiver of y, or a segment of which, if it is early, note is taken.
Receives(y) ==
    LET x == Other(y)
        r == conn[y].receiver
    IN  \/ SameStore(r, conn'[y].receiver)
        \/ \E seg : /\ PieceOf(x, seg)
                    /\ SameStore(segment_received(r, RecvCapacity, seg), conn'[y].receiver)
                    /\ Early(x, r, seg) => x \in earlyfin'

AllReceive == earlyfin \subseteq earlyfin' /\ \A y \in Side : Receives(y)

\* A receiver to which nothing comes keeps the end of the stream.
LEMMA SameStoreEnds ==
  ASSUME NEW x \in Side, NEW r, NEW u, SameStore(r, u)
  PROVE  /\ Leak(u.reassembler) = Leak(r.reassembler)
         /\ EndsInTime(x, r) => EndsInTime(x, u)
BY DEF SameStore, Leak, EndsInTime, EndKept, EndsWhole, stream_out

\* So it goes on.
LEMMA ReceivesEnds ==
  ASSUME ShortStreams, Inv, AllEnd, AllReceive
  PROVE  AllEnd'
<1> SUFFICES ASSUME NEW y \in Side
             PROVE  /\ Leak(conn'[y].receiver.reassembler) >= 0
                    /\ Other(y) \notin earlyfin' => EndsInTime(Other(y), conn'[y].receiver)
  BY DEF AllEnd
<1> DEFINE x == Other(y)
           r == conn[y].receiver
           u == conn'[y].receiver
<1>1. x \in Side /\ ReceiverOK(x, r) BY ConnectionFacts DEF Inv, InvOf
<1>2. Leak(r.reassembler) >= 0 /\ (x \notin earlyfin => EndsInTime(x, r)) BY DEF AllEnd
<1>3. Receives(y) /\ earlyfin \subseteq earlyfin' BY DEF AllReceive
<1>4. CASE SameStore(r, u)
  <2> HIDE DEF x, r, u
  <2>1. Leak(u.reassembler) >= 0 /\ (x \notin earlyfin' => EndsInTime(x, u))
    BY <1>1, <1>2, <1>3, <1>4, SameStoreEnds
  <2> QED BY <2>1 DEF x, r, u
<1>5. ASSUME NEW seg, PieceOf(x, seg), SameStore(segment_received(r, RecvCapacity, seg), u),
             Early(x, r, seg) => x \in earlyfin'
      PROVE  Leak(u.reassembler) >= 0 /\ (x \notin earlyfin' => EndsInTime(x, u))
  <2> DEFINE v == segment_received(r, RecvCapacity, seg)
  <2> HIDE DEF x, r, u
  <2>1. /\ Leak(v.reassembler) >= 0
        /\ EndsInTime(x, r) /\ ~Early(x, r, seg) => EndsInTime(x, v)
    BY <1>1, <1>2, <1>5, ReceivedEnds
  <2>2. SameStore(v, u) BY <1>5
  <2> HIDE DEF v
  <2> QED BY <1>1, <1>2, <1>3, <1>5, <2>1, <2>2, SameStoreEnds
<1> QED BY <1>3, <1>4, <1>5 DEF Receives

\* A call on one side, with which nothing arrives.
LEMMA OneKeeps ==
  ASSUME Inv, NEW x \in Side, NEW c, SameStore(conn[x].receiver, c.receiver),
         conn' = [ conn EXCEPT ![x] = c ], earlyfin' = earlyfin
  PROVE  AllReceive
<1>1. DOMAIN conn = Side BY DEF Inv, InvOf
<1>2. SUFFICES ASSUME NEW z \in Side PROVE SameStore(conn[z].receiver, conn'[z].receiver)
  BY DEF AllReceive, Receives
<1>3. CASE z = x BY <1>1, <1>3
<1>4. CASE z # x
  <2>1. conn'[z] = conn[z] BY <1>1, <1>4
  <2> QED BY <2>1 DEF SameStore
<1> QED BY <1>3, <1>4

\* A segment arrives, and if its FIN comes too early, note is taken.
LEMMA ArrivesReceives ==
  ASSUME ShortStreams, Inv, NEW x \in Side, NEW k \in 1..Len(conn[x].segments_out),
         NEW copied \in BOOLEAN, Arrives(x, k, copied)
  PROVE  AllReceive
<1> DEFINE q == conn[x].segments_out
           seg == q[k]
           rest == SubSeq(q, 1, k - 1) \o SubSeq(q, k + 1, Len(q))
           less == [ conn[x] EXCEPT !.segments_out = rest ]
           left == IF copied THEN conn ELSE [ conn EXCEPT ![x] = less ]
           y == Other(x)
           m == Reached(conn[x].receiver)
           r == conn[y].receiver
           c == conn_segment_received(conn[y], seg)
<1>1. y \in Side /\ y # x /\ Other(y) = x /\ \A z \in Side : z = x \/ z = y BY SideFacts
<1>2. /\ conn = [ z \in Side |-> conn[z] ]
      /\ ConnectionOK(x, conn[x]) /\ ConnectionOK(y, conn[y])
      /\ conn[y].sender.receive_ack <= m
  BY <1>1 DEF Inv, InvOf
<1>3. conn' = IF y \in aborted THEN left
              ELSE [ left EXCEPT ![y] = conn_segment_received(left[y], seg) ]
  BY DEF Arrives
<1>4. earlyfin' = IF TooEarly(x, seg) THEN earlyfin \cup {x} ELSE earlyfin BY DEF Arrives
<1>5. TooEarly(x, seg) <=> Early(x, r, seg) BY DEF TooEarly, Early
<1>6. DOMAIN conn = Side BY <1>2
<1>7. seg \in Truthful(Other(y), m)
  <2>1. q \in Seq(Truthful(x, m)) BY <1>2 DEF ConnectionOK
  <2>2. k \in 1..Len(q) OBVIOUS
  <2> HIDE DEF q, m
  <2>3. seg \in Truthful(x, m) BY <2>1, <2>2, ElementOfSeq
  <2> QED BY <1>1, <2>3
<1> HIDE DEF rest
<1>8. less.receiver = conn[x].receiver BY <1>2 DEF ConnectionOK, Has, ConnectionFields
<1>9. m \in 0..(Len(Data[y]) + 2) BY <1>2, ConnectionFacts
<1> HIDE DEF m, seg, less
<1>10. PieceOf(x, seg) BY <1>1, <1>7 DEF Truthful, Message, PieceOf
<1>11. \/ SameStore(r, c.receiver)
       \/ SameStore(segment_received(r, RecvCapacity, seg), c.receiver)
  BY <1>1, <1>2, <1>7, <1>9, ConnReceivedTakes
<1> HIDE DEF y
<1>12. left[y] = conn[y] /\ left[x] \in { conn[x], less } /\ DOMAIN left = Side
  BY <1>1, <1>6
<1> HIDE DEF left
<1>13. conn'[x] = left[x] /\ conn'[y] \in { conn[y], c } BY <1>1, <1>3, <1>12
<1> HIDE DEF c, r
<1>14. SameStore(conn[x].receiver, conn'[x].receiver) BY <1>8, <1>12, <1>13 DEF SameStore
<1>15. \/ SameStore(r, conn'[y].receiver)
       \/ SameStore(segment_received(r, RecvCapacity, seg), conn'[y].receiver)
  <2>1. SameStore(r, r) BY DEF SameStore
  <2> QED BY <1>11, <1>13, <2>1 DEF r
<1>16. Early(x, r, seg) => x \in earlyfin' BY <1>4, <1>5
<1>17. Receives(x) BY <1>14 DEF Receives
<1>18. Receives(y) BY <1>1, <1>10, <1>15, <1>16 DEF Receives, r
<1> QED BY <1>1, <1>4, <1>17, <1>18 DEF AllReceive

\* Every step.
LEMMA StepReceives ==
  ASSUME ShortStreams, Inv, Next
  PROVE  AllReceive
<1>1. ASSUME NEW x \in Side PROVE ConnectionOK(x, conn[x]) BY DEF Inv, InvOf
<1>2. CASE Tick
  <2>1. conn' = [ x \in Side |-> IF x \in aborted THEN conn[x] ELSE conn_tick(conn[x], TickSize) ]
    BY <1>2 DEF Tick
  <2>2. ASSUME NEW z \in Side PROVE SameStore(conn[z].receiver, conn'[z].receiver)
    <3>1. conn'[z] \in { conn[z], conn_tick(conn[z], TickSize) } BY <2>1
    <3>2. Follows(z, conn[z], conn[z]) /\ Follows(z, conn[z], conn_tick(conn[z], TickSize))
      BY <1>1, FollowsItself, ConnTickOK
    <3> QED BY <3>1, <3>2 DEF Follows
  <2> QED BY <1>2, <2>2 DEF Tick, AllReceive, Receives
<1>3. ASSUME NEW x \in Side, NEW c, Follows(x, conn[x], c), conn' = [ conn EXCEPT ![x] = c ],
             earlyfin' = earlyfin
      PROVE  AllReceive
  BY <1>3, OneKeeps DEF Follows
<1>4. ASSUME NEW x \in Side, Connect(x) PROVE AllReceive
  <2>1. Follows(x, conn[x], connect(conn[x])) BY <1>1, SegmentSendsOK DEF connect
  <2> QED BY <1>3, <1>4, <2>1 DEF Connect
<1>5. ASSUME NEW x \in Side, NEW n \in 1..Len(Data[x]), Write(x, n) PROVE AllReceive
  <2> DEFINE c == conn_write(conn[x], Part(x, conn[x].sender.stream.written, n))
  <2>1. /\ conn[x].sender.stream.written + n <= Len(Data[x])
        /\ n <= remaining_outbound_capacity(conn[x]) /\ n \in Nat
        /\ ~conn[x].sender.stream.input_end
    BY <1>5, DataFacts DEF Write, MayWrite
  <2>2. Follows(x, conn[x], c) BY <1>1, <2>1, WriteOK
  <2>3. conn' = [ conn EXCEPT ![x] = c ] /\ earlyfin' = earlyfin BY <1>5 DEF Write, Part
  <2> HIDE DEF c
  <2> QED BY <1>3, <2>2, <2>3
<1>6. ASSUME NEW x \in Side, EndInputStream(x) PROVE AllReceive
  <2>1. Follows(x, conn[x], end_input_stream(conn[x]))
    BY <1>1, <1>6, EndInputOK DEF EndInputStream, MayEnd
  <2> QED BY <1>3, <1>6, <2>1 DEF EndInputStream
<1>7. ASSUME NEW x \in Side, Read(x) PROVE AllReceive
  <2> DEFINE n == Len(inbound_stream(conn[x]).buffer)
             c == [ conn[x] EXCEPT !.receiver.reassembler = PopOutput(@, n) ]
  <2>1. SameStore(conn[x].receiver, c.receiver) BY <1>1, ReadOK
  <2>2. conn' = [ conn EXCEPT ![x] = c ] /\ earlyfin' = earlyfin BY <1>7 DEF Read
  <2> HIDE DEF c
  <2> QED BY <2>1, <2>2, OneKeeps
<1>8. ASSUME NEW x \in Side, Lose(x) PROVE AllReceive
  <2> DEFINE c == [ conn[x] EXCEPT !.segments_out = Tail(@) ]
  <2>1. c.receiver = conn[x].receiver BY <1>1 DEF ConnectionOK, Has, ConnectionFields
  <2>2. SameStore(conn[x].receiver, c.receiver) BY <2>1 DEF SameStore
  <2>3. conn' = [ conn EXCEPT ![x] = c ] /\ earlyfin' = earlyfin BY <1>8 DEF Lose
  <2> HIDE DEF c
  <2> QED BY <2>2, <2>3, OneKeeps
<1>9. ASSUME NEW x \in Side, Abort(x) PROVE AllReceive
  <2>1. Follows(x, conn[x], destruct(conn[x])) BY <1>1, DestructOK
  <2> QED BY <1>3, <1>9, <2>1 DEF Abort
<1>10. ASSUME NEW x \in Side, NEW k \in 1..Len(conn[x].segments_out), NEW copied \in BOOLEAN,
              Arrives(x, k, copied)
       PROVE  AllReceive
  BY <1>10, ArrivesReceives
<1>11. ASSUME NEW x \in Side PROVE UnderWay(x) => 1 \in 1..Len(conn[x].segments_out)
  <2> DEFINE q == conn[x].segments_out
  <2>1. q \in Seq(Truthful(x, Reached(conn[x].receiver))) BY <1>1 DEF ConnectionOK
  <2> HIDE DEF q
  <2>2. q # <<>> => 1 \in 1..Len(q) BY <2>1, EmptySeq, LenProperties
  <2> QED BY <2>2 DEF UnderWay, q
<1>12. ASSUME NEW x \in Side, Deliver(x) \/ Duplicate(x) PROVE AllReceive
  BY <1>10, <1>11, <1>12 DEF Deliver, Duplicate
<1>13. ASSUME NEW x \in Side, NEW k \in 2..Len(conn[x].segments_out), Overtake(x, k)
       PROVE  AllReceive
  <2>1. k \in 1..Len(conn[x].segments_out) OBVIOUS
  <2> QED BY <1>10, <1>13, <2>1 DEF Overtake
<1> QED BY <1>2, <1>4, <1>5, <1>6, <1>7, <1>8, <1>9, <1>12, <1>13 DEF Next

\* Nothing has arrived at first.
LEMMA InitEnd == Init => AllEnd
<1> SUFFICES ASSUME Init, NEW y \in Side
             PROVE  /\ Leak(conn[y].receiver.reassembler) >= 0
                    /\ EndsInTime(Other(y), conn[y].receiver)
  BY DEF AllEnd
<1> DEFINE none == <<>>
           p == NewReassembler
<1>1. conn[y].receiver = NewTCPReceiver BY DEF Init, NewTCPConnection
<1>2. /\ NewTCPReceiver.reassembler = p /\ NewTCPReceiver.fin = FALSE
      /\ stream_out(NewTCPReceiver) = NewByteStream
  BY DEF NewTCPReceiver, NewReassembler, stream_out
<1>3. p.stored = none /\ p.unassembled = 0 BY DEF NewReassembler
<1>4. DOMAIN none = {} OBVIOUS
<1> HIDE DEF p, none
<1>5. Leak(p) = 0 BY <1>3, <1>4, FS_EmptySet DEF Leak
<1>6. NewByteStream.input_end = FALSE BY DEF NewByteStream
<1> QED BY <1>1, <1>2, <1>5, <1>6 DEF EndsInTime, EndsWhole

\* Whatever the channel does, a stream ends at the receiver after its last byte, unless the
\* FIN came too early.
THEOREM AlwaysEndsInTime ==
  ASSUME ShortStreams
  PROVE  Spec => []AllEnd
<1>1. Spec => []Inv BY AlwaysTruthful
<1>2. Inv /\ AllEnd /\ [Next]_vars => AllEnd'
  <2> SUFFICES ASSUME Inv, AllEnd, [Next]_vars PROVE AllEnd' OBVIOUS
  <2>1. CASE Next BY <2>1, StepReceives, ReceivesEnds
  <2>2. CASE UNCHANGED vars BY <2>2 DEF vars, AllEnd
  <2> QED BY <2>1, <2>2
<1> QED BY <1>1, <1>2, InitEnd, PTL DEF Spec

\* A sender is acknowledged up to a number the receiver has reached; an output that has
\* ended without the last byte is that of a stream whose FIN came too early.
LEMMA AckedFromInv == Inv /\ AllEnd => AckedIsReceived
<1> SUFFICES ASSUME Inv, AllEnd, NEW x \in Side
             PROVE  LET rcv     == conn[Other(x)].receiver
                        whole   == stream_out(rcv).written = Len(Data[x])
                        counted == stream_out(rcv).input_end /\ (whole \/ x \in earlyfin)
                    IN  conn[x].sender.receive_ack <= (IF rcv.syn THEN 1 ELSE 0)
                          + stream_out(rcv).written + (IF counted THEN 1 ELSE 0)
  BY DEF AckedIsReceived
<1> DEFINE r == conn[Other(x)].receiver
           w == stream_out(r).written
<1>1. Other(x) \in Side /\ Other(Other(x)) = x BY SideFacts
<1>2. conn[x].sender.receive_ack <= Bit(r.syn) + w + Bit(stream_out(r).input_end)
  BY DEF Inv, InvOf, Reached
<1>3. stream_out(r).input_end => w = Len(Data[x]) \/ x \in earlyfin
  BY <1>1 DEF AllEnd, EndsInTime, EndsWhole
<1> QED BY <1>2, <1>3 DEF Bit

\* Whatever the channel does, what a sender takes for acknowledged the receiver at the other
\* end holds: the SYN, the bytes, and the FIN with every byte before it, unless it came too early.
THEOREM AlwaysAckedIsReceived ==
  ASSUME ShortStreams
  PROVE  Spec => []AckedIsReceived
BY AlwaysTruthful, AlwaysEndsInTime, AckedFromInv, PTL

\* An endpoint stops without an error when its inbound stream has ended, too.
LEMMA CompleteFromInv == Inv /\ AllLive /\ AllEnd => CleanCloseComplete
<1> SUFFICES ASSUME Inv, AllLive, AllEnd, NEW x \in Side, ~conn[x].active, ~Failed(x)
             PROVE  /\ Other(x) \notin earlyfin => Got(x) = Data[Other(x)]
                    /\ Got(Other(x)) = Data[x]
  BY DEF CleanCloseComplete
<1> DEFINE y == Other(x)
           L == Len(Data[y])
<1>1. Got(y) = Data[x] BY CloseFromInv DEF CloseDelivers
<1>2. ASSUME y \notin earlyfin PROVE Got(x) = Data[y]
  <2>1. inbound_stream(conn[x]).input_end BY DEF AllLive, Live, StoppedOver, Failed
  <2>2. inbound_stream(conn[x]).written = L
    BY <1>2, <2>1 DEF AllEnd, EndsInTime, EndsWhole, inbound_stream
  <2>3. Got(x) = Part(y, 0, L) BY <2>2, GotIsPart
  <2>4. Part(y, 0, L) = Data[y]
    <3>1. y \in Side BY SideFacts
    <3>2. Data[y] \in Seq(Byte) /\ L \in Nat BY <3>1, ConnectionAssumption, DataFacts
    <3> HIDE DEF y
    <3>3. 0 + 1 = 1 /\ 0 + L = L BY <3>2
    <3> QED BY <3>2, <3>3 DEF Part
  <2> QED BY <2>3, <2>4
<1> QED BY <1>1, <1>2

\* Whatever the channel does, an endpoint that closes without an error has received the whole
\* stream of its peer, unless the FIN of that came too early, and has delivered its own.
THEOREM AlwaysCleanCloseComplete ==
  ASSUME ShortStreams, RecvCapacity < M64
  PROVE  Spec => []CleanCloseComplete
BY AlwaysTruthful, AlwaysLive, AlwaysEndsInTime, CompleteFromInv, PTL

=============================================================================
