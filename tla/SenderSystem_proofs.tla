------------------------ MODULE SenderSystem_proofs ------------------------
(***************************************************************************)
(* For every stream, payload size, window, timeout and sequence of calls,  *)
(* a TCPSender numbers the bytes as they come off the stream, keeps copies *)
(* of exactly what is not acknowledged and retransmits in time.            *)
(***************************************************************************)
EXTENDS SenderSystem, CommonLemmas

-----------------------------------------------------------------------------
\* The widths are positive and the narrow one does not exceed the wide one.
LEMMA M32Type == M32 \in Nat \ {0} /\ M64 \in Nat \ {0} /\ M32 <= M64
<1>1. HALF \in Nat \ {0} /\ M64 \in Nat BY WidthAssumption
<1>2. M32 \in Nat \ {0} /\ M32 = 2 * HALF BY <1>1 DEF M32
<1>3. PICK k \in 1..M64 : M64 = k * M32 BY WidthAssumption
<1>4. k * M32 >= M32  BY <1>1, <1>2, <1>3
<1> QED BY <1>1, <1>2, <1>3, <1>4

\* wrap(n, isn) is the 32-bit number congruent to n + isn modulo 2^32.
LEMMA WrapCongruent ==
  ASSUME NEW n \in Int, NEW isn \in Int
  PROVE  /\ wrap(n, isn) \in 0..(M32 - 1)
         /\ \E q \in Int : n + isn = q * M32 + wrap(n, isn)
<1>1. wrap(n, isn) = WrapMod(n, isn, M32) BY DEF wrap, WrapMod
<1>2. M32 \in Nat \ {0} BY M32Type
<1>3. /\ WrapMod(n, isn, M32) \in 0..(M32 - 1)
      /\ \E q \in Int : n + isn = q * M32 + WrapMod(n, isn, M32)
  BY <1>2, WrapModCongruent
<1> QED BY <1>1, <1>3

\* unwrap inverts wrap for every index within half the sequence space of the
\* checkpoint, across any number of wrap-arounds, as long as the checkpoint is
\* 2^32 away from the largest 64-bit number (wrapping_integers.cc, unwrap).
LEMMA UnwrapNearest ==
  ASSUME NEW x \in U64, NEW isn \in U32, NEW c \in U64,
         x - c < HALF, c - x <= HALF, c + M32 <= M64
  PROVE  unwrap(wrap(x, isn), isn, c) = x
<1>1. HALF \in Nat \ {0} /\ M64 \in Nat /\ isn \in Int /\ M32 = 2 * HALF
  BY WidthAssumption, M32Type DEF U32, M32
<1>2. UnwrapMod(WrapMod(x, isn, M32), isn, c, HALF, M32, M64) = x
  BY <1>1, UnwrapModNearest DEF U64
<1>3. unwrap(wrap(x, isn), isn, c) = UnwrapMod(WrapMod(x, isn, M32), isn, c, HALF, M32, M64)
  BY DEF unwrap, wrap, UnwrapMod, WrapMod
<1> QED BY <1>2, <1>3

-----------------------------------------------------------------------------
\* The fields of a sender.
SenderType ==
    [ isn : U32, syn : BOOLEAN, fin : BOOLEAN, stream : ByteStreamType(Byte),
      next_seqno : Nat, receive_ack : Nat, checkpoint : Nat,
      window_size : Nat, window_is_zero : BOOLEAN, bytes_in_flight : Int,
      segments_in_flight : Seq(Segment(Byte)), segments_out : Seq(Segment(Byte)),
      clock : Nat, clock_is_counting : BOOLEAN,
      retrans_timeout : Nat, consecutive_retrans : Nat ]

\* What a method leaves alone.
SameStream(s, t) ==
    /\ t.isn = s.isn /\ t.syn = s.syn /\ t.fin = s.fin
    /\ t.stream = s.stream /\ t.next_seqno = s.next_seqno

SameFlight(s, t) ==
    /\ t.receive_ack = s.receive_ack /\ t.bytes_in_flight = s.bytes_in_flight
    /\ t.segments_in_flight = s.segments_in_flight

SameTimer(s, t) ==
    /\ t.clock = s.clock /\ t.clock_is_counting = s.clock_is_counting
    /\ t.retrans_timeout = s.retrans_timeout

SameWindow(s, t) ==
    t.window_size = s.window_size /\ t.checkpoint = s.checkpoint

-----------------------------------------------------------------------------
\* A number and a remainder of wrap fit the types of a segment.
LEMMA WrapType ==
  ASSUME NEW n \in Nat, NEW isn \in U32
  PROVE  wrap(n, isn) \in U32
<1>1. n \in Int /\ isn \in Int BY M32Type DEF U32
<1> QED BY <1>1, WrapCongruent DEF U32

\* The smaller of two numbers.
LEMMA MinOfFacts ==
  ASSUME NEW a \in Int, NEW b \in Int
  PROVE  MinOf(a, b) \in Int /\ MinOf(a, b) <= a /\ MinOf(a, b) <= b /\ MinOf(a, b) \in {a, b}
  BY DEF MinOf

\* What is left of the window is a size_t.
LEMMA RemainingType ==
  ASSUME NEW s \in SenderType, NEW win \in Nat
  PROVE  Remaining(s, win) \in U64
<1>1. win - (s.next_seqno - s.receive_ack) \in Int BY DEF SenderType
<1>2. M64 \in Nat \ {0} BY M32Type
<1> QED BY <1>1, <1>2, ModDef DEF Remaining, U64

\* The length of a segment.
LEMMA LengthType ==
  ASSUME NEW seg \in Segment(Byte)
  PROVE  length_in_sequence_space(seg) \in Nat
<1> DEFINE y == IF seg.syn THEN 1 ELSE 0
           f == IF seg.fin THEN 1 ELSE 0
<1>1. Len(seg.payload) \in Nat BY LenProperties DEF Segment
<1>2. y \in Nat /\ f \in Nat OBVIOUS
<1>3. length_in_sequence_space(seg) = Len(seg.payload) + y + f BY DEF length_in_sequence_space
<1> HIDE DEF y, f
<1> QED BY <1>1, <1>2, <1>3

\* send_segment: what t is after segment seg was sent from s.
Sent(s, t, seg, len) ==
    /\ t \in SenderType
    /\ t.isn = s.isn /\ t.fin = s.fin /\ t.stream = s.stream
    /\ t.next_seqno = s.next_seqno + len
    /\ t.receive_ack = s.receive_ack
    /\ t.bytes_in_flight = s.bytes_in_flight + len
    /\ t.segments_in_flight = Append(s.segments_in_flight, seg)
    /\ t.segments_out = Append(s.segments_out, seg)
    /\ t.clock_is_counting
    /\ t.clock = IF s.clock_is_counting THEN s.clock ELSE 0
    /\ t.retrans_timeout = s.retrans_timeout
    /\ SameWindow(s, t)

LEMMA SendEffect ==
  ASSUME NEW s \in SenderType, NEW syn \in BOOLEAN, NEW fin \in BOOLEAN, NEW data \in Seq(Byte)
  PROVE  LET seg == [ seqno |-> wrap(s.next_seqno, s.isn), syn |-> syn,
                      fin |-> fin, payload |-> data ]
         IN  /\ seg \in Segment(Byte)
             /\ Sent(s, send_segment(s, syn, fin, data), seg, length_in_sequence_space(seg))
             /\ send_segment(s, syn, fin, data).syn = s.syn
<1> DEFINE seg == [ seqno |-> wrap(s.next_seqno, s.isn), syn |-> syn,
                    fin |-> fin, payload |-> data ]
           len == length_in_sequence_space(seg)
           q == [ s EXCEPT !.next_seqno = @ + len, !.bytes_in_flight = @ + len,
                           !.segments_in_flight = Append(@, seg),
                           !.segments_out = Append(@, seg) ]
           t == StartClock(q)
<1>1. seg \in Segment(Byte)
  <2>1. wrap(s.next_seqno, s.isn) \in U32 BY WrapType DEF SenderType
  <2> QED BY <2>1 DEF Segment
<1>2. len \in Nat BY <1>1, LengthType
<1>3. send_segment(s, syn, fin, data) = t BY DEF send_segment
<1> HIDE DEF seg, len
<1>4. /\ q \in SenderType
      /\ q.isn = s.isn /\ q.syn = s.syn /\ q.fin = s.fin /\ q.stream = s.stream
      /\ q.next_seqno = s.next_seqno + len /\ q.receive_ack = s.receive_ack
      /\ q.bytes_in_flight = s.bytes_in_flight + len
      /\ q.segments_in_flight = Append(s.segments_in_flight, seg)
      /\ q.segments_out = Append(s.segments_out, seg)
      /\ SameTimer(s, q) /\ SameWindow(s, q)
  <2>1. /\ Append(s.segments_in_flight, seg) \in Seq(Segment(Byte))
        /\ Append(s.segments_out, seg) \in Seq(Segment(Byte))
    BY <1>1, AppendProperties DEF SenderType
  <2>2. s.next_seqno + len \in Nat /\ s.bytes_in_flight + len \in Int BY <1>2, SMTT(30) DEF SenderType
  <2> QED BY <2>1, <2>2 DEF SenderType, SameTimer, SameWindow
<1> HIDE DEF q
<1>5. /\ t \in SenderType /\ SameStream(q, t) /\ SameFlight(q, t) /\ SameWindow(q, t)
      /\ t.segments_out = q.segments_out
      /\ t.clock_is_counting /\ t.clock = IF q.clock_is_counting THEN q.clock ELSE 0
      /\ t.retrans_timeout = q.retrans_timeout
  BY <1>4 DEF SenderType, StartClock, SameStream, SameFlight, SameWindow
<1> HIDE DEF t
<1>6. Sent(s, t, seg, len) /\ t.syn = s.syn
  BY <1>4, <1>5 DEF Sent, SameStream, SameFlight, SameWindow, SameTimer
<1> QED BY <1>1, <1>3, <1>6 DEF seg, len

\* A truth value as a number.
Bit(b) == IF b THEN 1 ELSE 0

LEMMA BitType == \A b : Bit(b) \in {0, 1}
  BY DEF Bit

\* The segment of n bytes that a pass of fill_window takes off the stream of s.
NextSegment(s, n, f) ==
    [ seqno |-> wrap(s.next_seqno, s.isn), syn |-> FALSE, fin |-> f,
      payload |-> SubSeq(s.stream.buffer, 1, n) ]

\* The stream without its first n bytes.
Taken(b, n) ==
    [ b EXCEPT !.readden = @ + n, !.buffer = SubSeq(@, n + 1, Len(@)) ]

\* One pass of fill_window that sends n bytes, and the FIN if f.
Cuts(s, t, n, f, win) ==
    /\ ~s.fin
    /\ n + Bit(f) > 0
    /\ n <= Remaining(s, win) /\ Remaining(s, win) # 0
    /\ f => n = Len(s.stream.buffer) /\ s.stream.input_end /\ n < win
    /\ NextSegment(s, n, f) \in Segment(Byte)
    /\ t \in SenderType
    /\ t.isn = s.isn /\ t.syn = s.syn /\ t.fin = f
    /\ t.stream = Taken(s.stream, n)
    /\ t.next_seqno = s.next_seqno + n + Bit(f)
    /\ t.receive_ack = s.receive_ack
    /\ t.bytes_in_flight = s.bytes_in_flight + n + Bit(f)
    /\ t.segments_in_flight = Append(s.segments_in_flight, NextSegment(s, n, f))
    /\ t.segments_out = Append(s.segments_out, NextSegment(s, n, f))
    /\ t.clock_is_counting
    /\ t.clock = IF s.clock_is_counting THEN s.clock ELSE 0
    /\ t.retrans_timeout = s.retrans_timeout
    /\ SameWindow(s, t)

\* Taking bytes off a stream.
LEMMA TakenEffect ==
  ASSUME NEW b \in ByteStreamType(Byte), NEW n \in 0..Len(b.buffer)
  PROVE  /\ Taken(b, n) \in ByteStreamType(Byte)
         /\ Taken(b, n).buffer = SubSeq(b.buffer, n + 1, Len(b.buffer))
         /\ Len(Taken(b, n).buffer) = Len(b.buffer) - n
         /\ Taken(b, n).readden = b.readden + n
         /\ Taken(b, n).written = b.written
         /\ Taken(b, n).input_end = b.input_end
         /\ Taken(b, n).error = b.error
         /\ SubSeq(b.buffer, 1, n) \in Seq(Byte) /\ Len(SubSeq(b.buffer, 1, n)) = n
<1> DEFINE q == b.buffer
           r == SubSeq(q, n + 1, Len(q))
<1>1. q \in Seq(Byte) /\ Len(q) \in Nat /\ n \in Nat /\ n <= Len(q) /\ b.readden \in Nat
  BY LenProperties DEF ByteStreamType
<1> HIDE DEF q
<1>2. /\ SubSeq(q, n + 1, n + (Len(q) - n)) \in Seq(Byte)
      /\ Len(SubSeq(q, n + 1, n + (Len(q) - n))) = Len(q) - n
  <2>1. Len(q) - n \in Nat /\ n + (Len(q) - n) <= Len(q) BY <1>1
  <2> HIDE DEF r
  <2> QED BY <1>1, <2>1, PieceFacts
<1>3. r \in Seq(Byte) /\ Len(r) = Len(q) - n
  <2>1. n + (Len(q) - n) = Len(q) BY <1>1
  <2> QED BY <1>2, <2>1
<1>4. SubSeq(q, 1, n) \in Seq(Byte) /\ Len(SubSeq(q, 1, n)) = n
  <2>1. SubSeq(q, 0 + 1, 0 + n) \in Seq(Byte) /\ Len(SubSeq(q, 0 + 1, 0 + n)) = n
    <3>1. 0 \in Nat /\ 0 + n <= Len(q) BY <1>1
    <3> QED BY <1>1, <3>1, PieceFacts
  <2>2. 0 + 1 = 1 /\ 0 + n = n BY <1>1
  <2> QED BY <2>1, <2>2
<1>5. Taken(b, n) = [ b EXCEPT !.readden = @ + n, !.buffer = r ] BY DEF Taken, q
<1> HIDE DEF r
<1>6. b.readden + n \in Nat BY <1>1
<1>7. /\ Taken(b, n) \in ByteStreamType(Byte)
      /\ Taken(b, n).buffer = r /\ Taken(b, n).readden = b.readden + n
      /\ Taken(b, n).written = b.written /\ Taken(b, n).input_end = b.input_end
      /\ Taken(b, n).error = b.error
  BY <1>3, <1>5, <1>6 DEF ByteStreamType
<1> QED BY <1>3, <1>4, <1>7 DEF r, q

\* A pass of fill_window sends one segment or leaves the sender alone.
LEMMA FillOnceEffect ==
  ASSUME NEW s \in SenderType, NEW win \in Nat
  PROVE  \/ FillOnce(s, win) = s
         \/ \E n \in 0..Len(s.stream.buffer), f \in BOOLEAN : Cuts(s, FillOnce(s, win), n, f, win)
<1> DEFINE len  == MinOf(Remaining(s, win), MAX_PAYLOAD_SIZE)
           n    == MinOf(len, Len(s.stream.buffer))
           data == SubSeq(s.stream.buffer, 1, n)
           rest == Taken(s.stream, n)
           fin  == CarriesFin(rest, data, win)
           v    == [ s EXCEPT !.stream = rest, !.fin = fin ]
           t    == send_segment(v, FALSE, fin, data)
<1> SUFFICES ASSUME FillOnce(s, win) # s
             PROVE  \E m \in 0..Len(s.stream.buffer), f \in BOOLEAN :
                       Cuts(s, FillOnce(s, win), m, f, win)
  OBVIOUS
<1>1. /\ s.stream \in ByteStreamType(Byte) /\ s.stream.buffer \in Seq(Byte)
      /\ Len(s.stream.buffer) \in Nat
  BY LenProperties DEF SenderType, ByteStreamType
<1>2. Remaining(s, win) \in Nat /\ MAX_PAYLOAD_SIZE \in Nat
  BY RemainingType, SenderAssumption DEF U64
<1>3. len \in Nat /\ len <= Remaining(s, win)
  <2>1. Remaining(s, win) \in Int /\ MAX_PAYLOAD_SIZE \in Int BY <1>2
  <2>2. len \in {Remaining(s, win), MAX_PAYLOAD_SIZE} /\ len <= Remaining(s, win)
    BY <2>1, MinOfFacts
  <2> HIDE DEF len
  <2> QED BY <1>2, <2>2
<1>4. n \in 0..Len(s.stream.buffer) /\ n <= len
  <2> HIDE DEF len
  <2>1. len \in Int /\ Len(s.stream.buffer) \in Int BY <1>1, <1>3
  <2>2. n \in {len, Len(s.stream.buffer)} /\ n <= len /\ n <= Len(s.stream.buffer)
    BY <2>1, MinOfFacts
  <2> HIDE DEF n
  <2> QED BY <1>1, <1>3, <2>2
<1>5. FillOnce(s, win) = t /\ ~FillEnds(s, win) /\ ~(data = <<>> /\ ~fin)
  BY DEF FillOnce, peek_output, pop_output, Taken
<1> HIDE DEF len, n
<1>6. /\ rest \in ByteStreamType(Byte) /\ data \in Seq(Byte) /\ Len(data) = n
      /\ rest.input_end = s.stream.input_end /\ Len(rest.buffer) = Len(s.stream.buffer) - n
  BY <1>1, <1>4, TakenEffect
<1>7. fin \in BOOLEAN BY DEF CarriesFin, eof
<1>8. fin => n = Len(s.stream.buffer) /\ s.stream.input_end /\ n < win
  <2>1. rest.buffer = <<>> => Len(rest.buffer) = 0 OBVIOUS
  <2> QED BY <1>1, <1>4, <1>6, <2>1 DEF CarriesFin, eof
<1> HIDE DEF rest, fin, data
<1>9. /\ v \in SenderType /\ v.isn = s.isn /\ v.syn = s.syn /\ v.fin = fin /\ v.stream = rest
      /\ v.next_seqno = s.next_seqno /\ SameFlight(s, v) /\ SameTimer(s, v) /\ SameWindow(s, v)
      /\ v.segments_out = s.segments_out
  BY <1>6, <1>7 DEF SenderType, SameFlight, SameTimer, SameWindow
<1> HIDE DEF v
<1> DEFINE seg == [ seqno |-> wrap(v.next_seqno, v.isn), syn |-> FALSE,
                    fin |-> fin, payload |-> data ]
<1>10. /\ seg \in Segment(Byte)
       /\ Sent(v, t, seg, length_in_sequence_space(seg)) /\ t.syn = v.syn
  <2>1. FALSE \in BOOLEAN OBVIOUS
  <2> HIDE DEF t
  <2> QED BY <1>6, <1>7, <1>9, <2>1, SendEffect DEF t
<1>11. seg = NextSegment(s, n, fin) BY <1>9 DEF NextSegment, data
<1>12. length_in_sequence_space(seg) = n + Bit(fin)
  BY <1>4, <1>6 DEF length_in_sequence_space, Bit
<1>13. n + Bit(fin) > 0
  <2>1. n = 0 => data = <<>> BY <1>6, EmptySeq
  <2> QED BY <1>4, <1>5, <2>1 DEF Bit
<1>14. ~s.fin /\ Remaining(s, win) # 0 BY <1>5 DEF FillEnds
<1>15. n <= Remaining(s, win) BY <1>1, <1>2, <1>3, <1>4
<1>16. /\ s.next_seqno + (n + Bit(fin)) = s.next_seqno + n + Bit(fin)
       /\ s.bytes_in_flight + (n + Bit(fin)) = s.bytes_in_flight + n + Bit(fin)
  BY <1>4, <1>1, BitType, SMTT(30) DEF SenderType
<1> HIDE DEF seg, t
<1>17. Cuts(s, t, n, fin, win)
  BY <1>8, <1>9, <1>10, <1>11, <1>12, <1>13, <1>14, <1>15, <1>16
  DEF Cuts, Sent, SameFlight, SameTimer, SameWindow, rest
<1> QED BY <1>4, <1>5, <1>7, <1>17

-----------------------------------------------------------------------------
\* The window that fill_window fills.
FillWin(s) == IF s.window_size > 0 THEN s.window_size ELSE 1

\* The sender with which the loop of fill_window begins.
FillStart(s) == [ s EXCEPT !.window_is_zero = (s.window_size = 0) ]

LEMMA FillStartEffect ==
  ASSUME NEW s \in SenderType
  PROVE  /\ FillStart(s) \in SenderType
         /\ SameStream(s, FillStart(s)) /\ SameFlight(s, FillStart(s))
         /\ SameTimer(s, FillStart(s)) /\ SameWindow(s, FillStart(s))
         /\ FillStart(s).segments_out = s.segments_out
         /\ FillWin(s) \in Nat \ {0}
<1> DEFINE z == s.window_size = 0
<1>1. z \in BOOLEAN OBVIOUS
<1>2. FillStart(s) = [ s EXCEPT !.window_is_zero = z ] BY DEF FillStart
<1>3. FillWin(s) \in Nat \ {0} BY DEF FillWin, SenderType
<1> HIDE DEF z
<1> QED BY <1>1, <1>2, <1>3 DEF SenderType, SameStream, SameFlight, SameTimer, SameWindow

\* What every pass of fill_window preserves, fill_window preserves.
LEMMA FillWindowStays ==
  ASSUME NEW A, NEW s, s.syn, Len(s.stream.buffer) \in Nat,
         FillStart(s) \in A, \A x \in A : FillOnce(x, FillWin(s)) \in A
  PROVE  fill_window(s) \in A
<1> DEFINE win    == FillWin(s)
           base   == FillStart(s)
           passes == Len(s.stream.buffer) + 1
           step   == [ k \in 1..passes |-> [ x \in A |-> FillOnce(x, win) ] ]
           after[k \in 0..passes] ==
               IF k = 0 THEN base ELSE FillOnce(after[k - 1], win)
<1>1. fill_window(s) = after[passes]
  BY ZenonT(30) DEF fill_window, FillWin, FillStart
<1>2. passes \in Nat /\ base \in A OBVIOUS
<1>3. step \in [1..passes -> [A -> A]] OBVIOUS
<1>4. PICK g \in [0..passes -> A] : Iterates(g, passes, base, step)
  <2> HIDE DEF passes, base, step
  <2> QED BY <1>2, <1>3, IterationExists
<1> HIDE DEF base, passes, win
<1>5. g = [ k \in 0..passes |-> IF k = 0 THEN base ELSE FillOnce(g[k - 1], win) ]
  <2>1. ASSUME NEW k \in 0..passes
        PROVE  g[k] = IF k = 0 THEN base ELSE FillOnce(g[k - 1], win)
    <3>1. CASE k = 0 BY <1>4, <3>1 DEF Iterates
    <3>2. CASE k # 0
      <4>1. k \in 1..passes /\ k - 1 \in 0..passes BY <1>2, <3>2
      <4>2. g[k] = step[k][g[k - 1]]
        <5> HIDE DEF step
        <5> QED BY <1>4, <3>2 DEF Iterates
      <4>3. g[k - 1] \in A BY <4>1
      <4> QED BY <3>2, <4>1, <4>2, <4>3
    <3> QED BY <3>1, <3>2
  <2>2. g = [ k \in 0..passes |-> g[k] ] OBVIOUS
  <2> QED BY <2>1, <2>2
<1>6. after = [ k \in 0..passes |-> IF k = 0 THEN base ELSE FillOnce(after[k - 1], win) ]
  BY <1>5, ZenonT(30)
<1> HIDE DEF after
<1>7. after[passes] = g[passes]
  <2> DEFINE S == { k \in 0..passes : after[k] = g[k] }
  <2>1. 0 \in S BY <1>2, <1>5, <1>6
  <2>2. ASSUME NEW k \in 0..(passes - 1), k \in S PROVE k + 1 \in S
    <3>1. k + 1 \in 0..passes /\ k + 1 # 0 /\ (k + 1) - 1 = k BY <1>2
    <3> QED BY <1>5, <1>6, <2>2, <3>1
  <2> HIDE DEF S
  <2>3. \A k \in 0..passes : k \in S BY <1>2, <2>1, <2>2, UpToInduction
  <2>4. passes \in S BY <1>2, <2>3
  <2> QED BY <2>4 DEF S
<1> QED BY <1>1, <1>2, <1>7

-----------------------------------------------------------------------------
\* SpaceOf adds up the lengths of the segments, one after the other.
LEMMA SpaceFacts ==
  ASSUME NEW q \in Seq(Segment(Byte))
  PROVE  /\ SpaceOf(q, 0) = 0
         /\ \A k \in 1..Len(q) : SpaceOf(q, k) = SpaceOf(q, k - 1) + length_in_sequence_space(q[k])
         /\ \A k \in 0..Len(q) : SpaceOf(q, k) \in Nat
<1> DEFINE n    == Len(q)
           len  == [ k \in 1..n |-> length_in_sequence_space(q[k]) ]
           step == [ k \in 1..n |-> [ x \in Nat |-> x + len[k] ] ]
<1>1. n \in Nat /\ len \in [1..n -> Nat] BY LenProperties, ElementOfSeq, LengthType
<1>2. \A k \in 1..n : len[k] = length_in_sequence_space(q[k]) OBVIOUS
<1> HIDE DEF len, n
<1>3. PICK g \in [0..n -> Nat] : Iterates(g, n, 0, step)
  <2>1. step \in [1..n -> [Nat -> Nat]] BY <1>1
  <2> HIDE DEF step
  <2> QED BY <1>1, <2>1, IterationExists
<1>4. g[0] = 0 /\ \A k \in 1..n : g[k] = g[k - 1] + len[k]
  <2>1. g[0] = 0 BY <1>1, <1>3 DEF Iterates
  <2>2. ASSUME NEW k \in 1..n PROVE g[k] = g[k - 1] + len[k]
    <3>1. k \in 0..n /\ k - 1 \in 0..n /\ k # 0 BY <1>1
    <3>2. g[k] = step[k][g[k - 1]]
      <4> HIDE DEF step
      <4> QED BY <1>3, <3>1 DEF Iterates
    <3>3. g[k - 1] \in Nat BY <3>1
    <3> QED BY <3>2, <3>3
  <2> QED BY <2>1, <2>2
<1> HIDE DEF step
<1>5. ASSUME NEW k \in 0..n PROVE SpaceOf(q, k) = g[k]
  <2> DEFINE upto[j \in 0..k] ==
                 IF j = 0 THEN 0 ELSE upto[j - 1] + length_in_sequence_space(q[j])
             h == [ j \in 0..k |-> g[j] ]
  <2>1. SpaceOf(q, k) = upto[k] BY ZenonT(30) DEF SpaceOf
  <2>2. h = [ j \in 0..k |-> IF j = 0 THEN 0 ELSE h[j - 1] + length_in_sequence_space(q[j]) ]
    <3>1. ASSUME NEW j \in 0..k
          PROVE  h[j] = IF j = 0 THEN 0 ELSE h[j - 1] + length_in_sequence_space(q[j])
      <4>1. CASE j = 0 BY <1>1, <1>4, <4>1
      <4>2. CASE j # 0
        <5>1. j \in 1..n /\ j - 1 \in 0..k BY <1>1, <4>2
        <5> QED BY <1>2, <1>4, <4>2, <5>1
      <4> QED BY <4>1, <4>2
    <3> HIDE DEF h
    <3>2. h = [ j \in 0..k |-> h[j] ] BY DEF h
    <3> QED BY <3>1, <3>2
  <2>3. upto = [ j \in 0..k |->
                   IF j = 0 THEN 0 ELSE upto[j - 1] + length_in_sequence_space(q[j]) ]
    <3> HIDE DEF h
    <3> QED BY <2>2, ZenonT(30)
  <2> HIDE DEF upto
  <2> DEFINE S == { j \in 0..k : upto[j] = g[j] }
  <2>4. 0 \in S BY <1>1, <1>4, <2>3
  <2>5. ASSUME NEW j \in 0..(k - 1), j \in S PROVE j + 1 \in S
    <3>1. j + 1 \in 0..k /\ j + 1 # 0 /\ (j + 1) - 1 = j /\ j + 1 \in 1..n BY <1>1
    <3>2. upto[j + 1] = upto[j] + length_in_sequence_space(q[j + 1]) BY <2>3, <3>1
    <3>3. g[j + 1] = g[j] + len[j + 1] BY <1>4, <3>1
    <3> QED BY <1>2, <2>5, <3>1, <3>2, <3>3
  <2> HIDE DEF S
  <2>6. k \in Nat BY <1>1
  <2>7. \A j \in 0..k : j \in S BY <2>4, <2>5, <2>6, UpToInduction
  <2>8. k \in S BY <2>6, <2>7
  <2> QED BY <2>1, <2>8 DEF S
<1>6. SpaceOf(q, 0) = 0 BY <1>1, <1>4, <1>5
<1>7. ASSUME NEW k \in 1..n
      PROVE  SpaceOf(q, k) = SpaceOf(q, k - 1) + length_in_sequence_space(q[k])
  <2>1. k \in 0..n /\ k - 1 \in 0..n BY <1>1
  <2> QED BY <1>2, <1>4, <1>5, <2>1
<1>8. \A k \in 0..n : SpaceOf(q, k) \in Nat BY <1>5
<1> QED BY <1>6, <1>7, <1>8 DEF n

\* The segments popped leave a suffix of the queue.
LEMMA SuffixFacts ==
  ASSUME NEW q \in Seq(Segment(Byte)), NEW g \in 0..Len(q)
  PROVE  LET r == SubSeq(q, g + 1, Len(q))
         IN  /\ r \in Seq(Segment(Byte)) /\ Len(r) = Len(q) - g
             /\ \A k \in 1..(Len(q) - g) : r[k] = q[g + k]
             /\ \A k \in 0..(Len(q) - g) : SpaceOf(r, k) = SpaceOf(q, g + k) - SpaceOf(q, g)
<1> DEFINE r == SubSeq(q, g + 1, Len(q))
           m == Len(q) - g
<1>1. Len(q) \in Nat /\ m \in Nat /\ g + m = Len(q) /\ g \in Nat BY LenProperties
<1> HIDE DEF m
<1>2. r \in Seq(Segment(Byte)) /\ Len(r) = m /\ \A k \in 1..m : r[k] = q[g + k]
  BY <1>1, PieceFacts
<1> HIDE DEF r
<1> DEFINE S == { k \in 0..m : SpaceOf(r, k) = SpaceOf(q, g + k) - SpaceOf(q, g) }
<1>3. 0 \in S
  <2>1. SpaceOf(r, 0) = 0 /\ SpaceOf(q, g) \in Nat /\ g + 0 = g BY <1>1, <1>2, SpaceFacts
  <2> QED BY <1>1, <2>1
<1>4. ASSUME NEW k \in 0..(m - 1), k \in S PROVE k + 1 \in S
  <2>1. /\ k + 1 \in 0..m /\ k + 1 \in 1..Len(r) /\ (k + 1) - 1 = k
        /\ g + (k + 1) \in 1..Len(q) /\ (g + (k + 1)) - 1 = g + k /\ g + k \in 0..Len(q)
        /\ k \in 0..m
    BY <1>1, <1>2
  <2>2. SpaceOf(r, k + 1) = SpaceOf(r, k) + length_in_sequence_space(r[k + 1])
    BY <1>2, <2>1, SpaceFacts
  <2>3. SpaceOf(q, g + (k + 1)) = SpaceOf(q, g + k) + length_in_sequence_space(q[g + (k + 1)])
    BY <2>1, SpaceFacts
  <2>4. r[k + 1] = q[g + (k + 1)] BY <1>2, <2>1
  <2>5. SpaceOf(q, g + k) \in Nat /\ SpaceOf(q, g) \in Nat BY <2>1, SpaceFacts
  <2>6. length_in_sequence_space(q[g + (k + 1)]) \in Nat BY <2>1, ElementOfSeq, LengthType
  <2> DEFINE l == length_in_sequence_space(q[g + (k + 1)])
             a == SpaceOf(q, g + k)
             b == SpaceOf(q, g)
  <2>7. SpaceOf(r, k) = a - b BY <1>4
  <2>8. SpaceOf(r, k + 1) = (a - b) + l /\ SpaceOf(q, g + (k + 1)) = a + l
    BY <2>2, <2>3, <2>4, <2>7
  <2>9. a \in Int /\ b \in Int /\ l \in Int BY <2>5, <2>6
  <2> HIDE DEF a, b, l
  <2>10. (a - b) + l = (a + l) - b BY <2>9
  <2> QED BY <2>1, <2>8, <2>10 DEF b
<1> HIDE DEF S
<1>5. \A k \in 0..m : k \in S BY <1>1, <1>3, <1>4, UpToInduction
<1> QED BY <1>2, <1>5 DEF S, r, m

\* What a queue with one more segment holds.
LEMMA AppendFacts ==
  ASSUME NEW q \in Seq(Segment(Byte)), NEW seg \in Segment(Byte)
  PROVE  LET r == Append(q, seg)
         IN  /\ r \in Seq(Segment(Byte)) /\ r # <<>> /\ Len(r) = Len(q) + 1
             /\ \A k \in 1..Len(q) : r[k] = q[k]
             /\ r[Len(q) + 1] = seg
             /\ \A k \in 0..Len(q) : SpaceOf(r, k) = SpaceOf(q, k)
             /\ SpaceOf(r, Len(q) + 1) = SpaceOf(q, Len(q)) + length_in_sequence_space(seg)
<1> DEFINE r == Append(q, seg)
           m == Len(q)
<1>1. m \in Nat BY LenProperties
<1>2. /\ r \in Seq(Segment(Byte)) /\ r # <<>> /\ Len(r) = m + 1
      /\ \A k \in 1..m : r[k] = q[k]
      /\ r[m + 1] = seg
  BY AppendProperties
<1> HIDE DEF r
<1> DEFINE S == { k \in 0..m : SpaceOf(r, k) = SpaceOf(q, k) }
<1>3. 0 \in S BY <1>1, <1>2, SpaceFacts
<1>4. ASSUME NEW k \in 0..(m - 1), k \in S PROVE k + 1 \in S
  <2>1. /\ k + 1 \in 0..m /\ k + 1 \in 1..Len(r) /\ (k + 1) - 1 = k /\ k + 1 \in 1..Len(q)
    BY <1>1, <1>2
  <2>2. SpaceOf(r, k + 1) = SpaceOf(r, k) + length_in_sequence_space(r[k + 1])
    BY <1>2, <2>1, SpaceFacts
  <2>3. SpaceOf(q, k + 1) = SpaceOf(q, k) + length_in_sequence_space(q[k + 1])
    BY <2>1, SpaceFacts
  <2>4. r[k + 1] = q[k + 1] BY <1>2, <2>1
  <2> QED BY <1>4, <2>1, <2>2, <2>3, <2>4
<1> HIDE DEF S
<1>5. \A k \in 0..m : k \in S BY <1>1, <1>3, <1>4, UpToInduction
<1>6. SpaceOf(r, m) = SpaceOf(q, m) BY <1>1, <1>5 DEF S
<1>7. SpaceOf(r, m + 1) = SpaceOf(r, m) + length_in_sequence_space(seg)
  <2>1. m + 1 \in 1..Len(r) /\ (m + 1) - 1 = m BY <1>1, <1>2
  <2> QED BY <1>2, <2>1, SpaceFacts
<1> QED BY <1>2, <1>5, <1>6, <1>7 DEF S, r, m

-----------------------------------------------------------------------------
\* The other updates of a sender, one lemma for each method or part of one.
\* Before connect() fill_window sends the SYN.
LEMMA SynEffect ==
  ASSUME NEW s \in SenderType, ~s.syn
  PROVE  LET seg == [ seqno |-> wrap(s.next_seqno, s.isn), syn |-> TRUE,
                      fin |-> FALSE, payload |-> <<>> ]
         IN  /\ seg \in Segment(Byte) /\ length_in_sequence_space(seg) = 1
             /\ Sent(s, fill_window(s), seg, 1) /\ fill_window(s).syn
<1> DEFINE seg == [ seqno |-> wrap(s.next_seqno, s.isn), syn |-> TRUE,
                    fin |-> FALSE, payload |-> <<>> ]
           u == send_segment(s, TRUE, FALSE, <<>>)
           t == [ u EXCEPT !.syn = TRUE ]
<1>1. fill_window(s) = t BY DEF fill_window
<1>2. seg \in Segment(Byte) /\ Sent(s, u, seg, length_in_sequence_space(seg))
  <2>1. TRUE \in BOOLEAN /\ FALSE \in BOOLEAN /\ <<>> \in Seq(Byte) BY EmptySeq
  <2> QED BY <2>1, SendEffect
<1>3. length_in_sequence_space(seg) = 1 BY EmptySeq DEF length_in_sequence_space
<1> HIDE DEF u, seg
<1>4. u \in SenderType BY <1>2 DEF Sent
<1>5. /\ t \in SenderType /\ t.syn /\ SameFlight(u, t) /\ SameTimer(u, t) /\ SameWindow(u, t)
      /\ t.isn = u.isn /\ t.fin = u.fin /\ t.stream = u.stream /\ t.next_seqno = u.next_seqno
      /\ t.segments_out = u.segments_out
  BY <1>4 DEF SenderType, SameFlight, SameTimer, SameWindow
<1> HIDE DEF t
<1>6. Sent(s, t, seg, 1)
  BY <1>2, <1>3, <1>5 DEF Sent, SameFlight, SameTimer, SameWindow
<1> QED BY <1>1, <1>2, <1>3, <1>5, <1>6 DEF seg

\* The queue of segments is taken by the connection.
Drain(s) == [ s EXCEPT !.segments_out = <<>> ]

LEMMA DrainEffect ==
  ASSUME NEW s \in SenderType
  PROVE  /\ Drain(s) \in SenderType /\ Drain(s).segments_out = <<>>
         /\ SameStream(s, Drain(s)) /\ SameFlight(s, Drain(s))
         /\ SameTimer(s, Drain(s)) /\ SameWindow(s, Drain(s))
         /\ Drain(s).consecutive_retrans = s.consecutive_retrans
<1>1. <<>> \in Seq(Segment(Byte)) BY EmptySeq
<1> QED BY <1>1 DEF Drain, SenderType, SameStream, SameFlight, SameTimer, SameWindow

\* The application's calls reach the stream only.
Streamed(s, b) == [ s EXCEPT !.stream = b ]

LEMMA StreamedEffect ==
  ASSUME NEW s \in SenderType, NEW b \in ByteStreamType(Byte)
  PROVE  LET t == Streamed(s, b)
         IN  /\ t \in SenderType /\ t.segments_out = s.segments_out
             /\ t.stream = b /\ t.isn = s.isn /\ t.syn = s.syn /\ t.fin = s.fin
             /\ t.next_seqno = s.next_seqno
             /\ SameFlight(s, t) /\ SameTimer(s, t) /\ SameWindow(s, t)
  BY DEF Streamed, SenderType, SameFlight, SameTimer, SameWindow

\* send_empty_segment only queues a segment that occupies nothing.
Blank(s) ==
    [ seqno |-> wrap(s.next_seqno, s.isn), syn |-> FALSE, fin |-> FALSE, payload |-> <<>> ]

LEMMA EmptyEffect ==
  ASSUME NEW s \in SenderType
  PROVE  LET t == send_empty_segment(s)
         IN  /\ t \in SenderType /\ t.segments_out = Append(s.segments_out, Blank(s))
             /\ Blank(s) \in Segment(Byte) /\ length_in_sequence_space(Blank(s)) = 0
             /\ SameStream(s, t) /\ SameFlight(s, t) /\ SameTimer(s, t) /\ SameWindow(s, t)
<1>1. Blank(s) \in Segment(Byte)
  <2>1. wrap(s.next_seqno, s.isn) \in U32 BY WrapType DEF SenderType
  <2> QED BY <2>1, EmptySeq DEF Segment, Blank
<1>2. length_in_sequence_space(Blank(s)) = 0 BY EmptySeq DEF length_in_sequence_space, Blank
<1> DEFINE b == Blank(s)
<1>3. send_empty_segment(s) = [ s EXCEPT !.segments_out = Append(@, b) ]
  BY DEF send_empty_segment, Blank
<1> HIDE DEF b
<1>4. Append(s.segments_out, b) \in Seq(Segment(Byte)) BY <1>1, AppendProperties DEF SenderType, b
<1>5. /\ [ s EXCEPT !.segments_out = Append(@, b) ] \in SenderType
      /\ [ s EXCEPT !.segments_out = Append(@, b) ].segments_out = Append(s.segments_out, b)
      /\ SameStream(s, [ s EXCEPT !.segments_out = Append(@, b) ])
      /\ SameFlight(s, [ s EXCEPT !.segments_out = Append(@, b) ])
      /\ SameTimer(s, [ s EXCEPT !.segments_out = Append(@, b) ])
      /\ SameWindow(s, [ s EXCEPT !.segments_out = Append(@, b) ])
  BY <1>4 DEF SenderType, SameStream, SameFlight, SameTimer, SameWindow
<1> QED BY <1>1, <1>2, <1>3, <1>5 DEF b

\* RestartTimer.
LEMMA RestartEffect ==
  ASSUME NEW s \in SenderType
  PROVE  LET t == RestartTimer(s)
         IN  /\ t \in SenderType /\ t.segments_out = s.segments_out
             /\ SameStream(s, t) /\ SameFlight(s, t) /\ SameWindow(s, t)
             /\ t.retrans_timeout = RTO
             /\ Outstanding(s) => t.clock_is_counting /\ t.clock = 0
<1> DEFINE o == Outstanding(s)
           t == [ s EXCEPT !.retrans_timeout = RTO, !.consecutive_retrans = 0,
                           !.clock_is_counting = @ \/ o,
                           !.clock = IF o THEN 0 ELSE @ ]
<1>1. RestartTimer(s) = t BY DEF RestartTimer, Outstanding
<1>2. o \in BOOLEAN /\ RTO \in Nat BY SenderAssumption DEF Outstanding
<1> HIDE DEF o
<1>3. /\ t \in SenderType /\ t.segments_out = s.segments_out
      /\ SameStream(s, t) /\ SameFlight(s, t) /\ SameWindow(s, t)
      /\ t.retrans_timeout = RTO
      /\ o => t.clock_is_counting /\ t.clock = 0
  BY <1>2 DEF SenderType, SameStream, SameFlight, SameWindow
<1> QED BY <1>1, <1>3 DEF o

\* The acknowledgment tells the window.
Synced(s, w) == [ s EXCEPT !.window_size = w ]

LEMMA SyncedEffect ==
  ASSUME NEW s \in SenderType, NEW w \in Nat
  PROVE  LET t == Synced(s, w)
         IN  /\ t \in SenderType /\ t.segments_out = s.segments_out
             /\ t.window_size = w /\ t.checkpoint = s.checkpoint
             /\ SameStream(s, t) /\ SameFlight(s, t) /\ SameTimer(s, t)
  BY DEF Synced, SenderType, SameStream, SameFlight, SameTimer

\* The sender after an acknowledgment of new data popped the first g segments
\* in flight.
Popped(s, t, a, w, g) ==
    LET q == s.segments_in_flight
    IN  /\ t \in SenderType /\ t.segments_out = s.segments_out
        /\ SameStream(s, t) /\ SameTimer(s, t)
        /\ t.window_size = w /\ t.receive_ack = a /\ t.checkpoint = a
        /\ t.segments_in_flight = SubSeq(q, g + 1, Len(q))
        /\ t.bytes_in_flight = s.bytes_in_flight - SpaceOf(q, g)
        /\ \A k \in 1..g : Acked(s, q[k], a)
        /\ g < Len(q) => ~Acked(s, q[g + 1], a)

\* The acknowledgment of new data, before the timer is restarted.
Advance(s, a, w) ==
    DropAcked([ Synced(s, w) EXCEPT !.receive_ack = a, !.checkpoint = a ], a)

LEMMA AdvanceEffect ==
  ASSUME NEW s \in SenderType, NEW a \in Nat, NEW w \in Nat
  PROVE  \E g \in 0..Len(s.segments_in_flight) : Popped(s, Advance(s, a, w), a, w, g)
<1> DEFINE q     == s.segments_in_flight
           u     == [ Synced(s, w) EXCEPT !.receive_ack = a, !.checkpoint = a ]
           stays == { k \in 1..Len(q) : ~Acked(u, q[k], a) }
           P(k)  == \A j \in stays : k <= j
           gone  == IF stays = {} THEN Len(q) ELSE (CHOOSE k \in stays : P(k)) - 1
           t     == DropAcked(u, a)
<1>1. /\ u \in SenderType /\ u.segments_out = s.segments_out
      /\ SameStream(s, u) /\ SameTimer(s, u) /\ u.window_size = w
      /\ u.receive_ack = a /\ u.checkpoint = a
      /\ u.segments_in_flight = q /\ u.bytes_in_flight = s.bytes_in_flight
  <2> DEFINE v == Synced(s, w)
  <2>1. /\ v \in SenderType /\ v.segments_out = s.segments_out /\ v.window_size = w
        /\ SameStream(s, v) /\ SameFlight(s, v) /\ SameTimer(s, v)
    BY SyncedEffect
  <2> HIDE DEF v
  <2>2. u = [ v EXCEPT !.receive_ack = a, !.checkpoint = a ] BY DEF v
  <2> HIDE DEF u
  <2> QED BY <2>1, <2>2 DEF SenderType, SameStream, SameFlight, SameTimer
<1>2. q \in Seq(Segment(Byte)) /\ Len(q) \in Nat BY LenProperties DEF SenderType
<1>3. t = [ u EXCEPT !.segments_in_flight = SubSeq(@, gone + 1, Len(@)),
                     !.bytes_in_flight = @ - SpaceOf(q, gone) ]
  <2> HIDE DEF u
  <2> QED BY <1>1 DEF DropAcked
<1>4. \A k : Acked(u, q[k], a) <=> Acked(s, q[k], a)
  BY <1>1 DEF Acked, SameStream
<1> HIDE DEF u, q
<1>5. /\ gone \in 0..Len(q)
      /\ \A k \in 1..gone : Acked(u, q[k], a)
      /\ gone < Len(q) => ~Acked(u, q[gone + 1], a)
  <2>1. CASE stays = {}
    BY <1>2, <2>1
  <2>2. CASE stays # {}
    <3>1. stays \in SUBSET Nat OBVIOUS
    <3>2. \E k \in stays : P(k)
      <4> HIDE DEF stays
      <4> QED BY <2>2, <3>1, LeastElement
    <3> DEFINE m == CHOOSE k \in stays : P(k)
    <3>3. m \in stays /\ P(m) BY <3>2
    <3>4. gone = m - 1 BY <2>2
    <3> HIDE DEF m
    <3>5. m \in 1..Len(q) /\ ~Acked(u, q[m], a) BY <3>3
    <3>6. \A k \in 1..Len(q) : k < m => Acked(u, q[k], a) BY <3>3, <3>5
    <3> HIDE DEF gone
    <3>7. gone + 1 = m /\ gone \in 0..Len(q) BY <1>2, <3>4, <3>5
    <3>8. \A k \in 1..gone : k \in 1..Len(q) /\ k < m BY <1>2, <3>4, <3>5
    <3> QED BY <3>5, <3>6, <3>7, <3>8
  <2> QED BY <2>1, <2>2
<1> HIDE DEF gone, stays
<1> DEFINE r == SubSeq(q, gone + 1, Len(q))
           b == SpaceOf(q, gone)
<1>6. r \in Seq(Segment(Byte)) /\ b \in Nat BY <1>2, <1>5, SuffixFacts, SpaceFacts
<1>7. t = [ u EXCEPT !.segments_in_flight = r, !.bytes_in_flight = @ - b ]
  <2>1. [ u EXCEPT !.segments_in_flight = SubSeq(@, gone + 1, Len(@)),
                   !.bytes_in_flight = @ - SpaceOf(q, gone) ]
          = [ u EXCEPT !.segments_in_flight = r, !.bytes_in_flight = @ - b ]
    BY <1>1
  <2> QED BY <1>3, <2>1
<1> HIDE DEF r, b, t
<1>8. /\ t \in SenderType /\ t.segments_out = u.segments_out
      /\ SameStream(u, t) /\ SameTimer(u, t) /\ SameWindow(u, t)
      /\ t.receive_ack = u.receive_ack
      /\ t.segments_in_flight = r /\ t.bytes_in_flight = u.bytes_in_flight - b
  <2>1. u.bytes_in_flight - b \in Int
    <3>1. u.bytes_in_flight \in Int BY <1>1 DEF SenderType
    <3> QED BY <1>6, <3>1
  <2> QED BY <1>1, <1>6, <1>7, <2>1 DEF SenderType, SameStream, SameTimer, SameWindow
<1>9. t = Advance(s, a, w) BY DEF t, u, Advance
<1>10. Popped(s, t, a, w, gone)
  BY <1>1, <1>4, <1>5, <1>8 DEF Popped, SameStream, SameTimer, SameWindow, r, b, q
<1> QED BY <1>5, <1>9, <1>10 DEF q

\* What ack_received does: nothing, for a number never sent; for an old one it
\* takes the window; for a new one it drops what is acknowledged, fills the
\* window and restarts the timer.
LEMMA AckKinds ==
  ASSUME NEW s \in SenderType, NEW n \in U32, NEW w \in Nat
  PROVE  LET a == unwrap(n, s.isn, s.checkpoint)
             t == ack_received(s, n, w)
         IN  /\ a \in Nat
             /\ \/ a > s.next_seqno /\ t = s
                \/ a <= s.receive_ack /\ t = Synced(s, w)
                \/ /\ s.receive_ack < a /\ a <= s.next_seqno
                   /\ t = RestartTimer(fill_window(Advance(s, a, w)))
<1> DEFINE a == unwrap(n, s.isn, s.checkpoint)
<1>1. a \in Nat
  <2>1. /\ s.checkpoint \in Int /\ s.isn \in Int /\ n \in Int /\ M32 \in Nat \ {0}
        /\ M64 \in Nat \ {0} /\ HALF \in Nat
    BY M32Type, WidthAssumption DEF SenderType, U32
  <2>2. wrap(s.checkpoint, s.isn) \in Int
    <3>1. wrap(s.checkpoint, s.isn) \in U32 BY WrapType DEF SenderType
    <3> QED BY <2>1, <3>1 DEF U32
  <2> DEFINE d == (n - wrap(s.checkpoint, s.isn)) % M32
             res == (d + s.checkpoint) % M64
  <2>3. n - wrap(s.checkpoint, s.isn) \in Int BY <2>1, <2>2
  <2>4. d \in Int BY <2>1, <2>3, ModDef
  <2>5. a = IF d >= HALF /\ res >= M32 THEN res - M32 ELSE res BY DEF unwrap
  <2> HIDE DEF d, a
  <2>6. d + s.checkpoint \in Int BY <2>1, <2>4
  <2>7. res \in Nat BY <2>1, <2>6, ModDef
  <2> HIDE DEF res
  <2> QED BY <2>1, <2>5, <2>7
<1>2. s.receive_ack \in Nat /\ s.next_seqno \in Nat BY DEF SenderType
<1>3. ack_received(s, n, w) =
        IF a > s.next_seqno THEN s
        ELSE IF a <= s.receive_ack THEN Synced(s, w)
        ELSE RestartTimer(fill_window(Advance(s, a, w)))
  BY DEF ack_received, Synced, Advance
<1> HIDE DEF a
<1>4. \/ a > s.next_seqno /\ ack_received(s, n, w) = s
      \/ a <= s.receive_ack /\ ack_received(s, n, w) = Synced(s, w)
      \/ /\ s.receive_ack < a /\ a <= s.next_seqno
         /\ ack_received(s, n, w) = RestartTimer(fill_window(Advance(s, a, w)))
  BY <1>1, <1>2, <1>3
<1> QED BY <1>1, <1>4 DEF a

\* What tick does: it resends the oldest segment, or counts the time.
LEMMA TickEffect ==
  ASSUME NEW s \in SenderType
  PROVE  LET t == tick(s, TickSize)
             now == s.clock + TickSize
         IN  /\ t \in SenderType /\ SameStream(s, t) /\ SameFlight(s, t) /\ SameWindow(s, t)
             /\ \/ /\ Outstanding(s) /\ now >= s.retrans_timeout
                   /\ t.segments_out = Append(s.segments_out, Head(s.segments_in_flight))
                   /\ Head(s.segments_in_flight) = s.segments_in_flight[1]
                   /\ Len(s.segments_in_flight) > 0
                   /\ t.clock_is_counting /\ t.clock = 0
                   /\ t.retrans_timeout \in {s.retrans_timeout, 2 * s.retrans_timeout}
                \/ /\ ~(Outstanding(s) /\ now >= s.retrans_timeout)
                   /\ t.segments_out = s.segments_out
                   /\ t.clock_is_counting = (s.clock_is_counting /\ Outstanding(s))
                   /\ t.clock = now
                   /\ t.retrans_timeout = s.retrans_timeout
<1> DEFINE o   == Outstanding(s)
           now == s.clock + TickSize
           h   == Head(s.segments_in_flight)
           r   == IF s.window_is_zero THEN s.retrans_timeout ELSE 2 * s.retrans_timeout
           u   == [ s EXCEPT !.segments_out = Append(@, h), !.consecutive_retrans = @ + 1,
                             !.clock_is_counting = TRUE, !.clock = 0, !.retrans_timeout = r ]
           v   == [ s EXCEPT !.clock = now, !.clock_is_counting = @ /\ o ]
<1>1. tick(s, TickSize) = IF now >= s.retrans_timeout /\ o THEN u ELSE v
  BY DEF tick, Outstanding
<1>2. now \in Nat /\ o \in BOOLEAN /\ s.retrans_timeout \in Nat /\ r \in Nat
      /\ r \in {s.retrans_timeout, 2 * s.retrans_timeout} /\ s.consecutive_retrans + 1 \in Nat
  BY SenderSystemAssumption, SMTT(30) DEF SenderType, Outstanding
<1>3. /\ s.segments_in_flight \in Seq(Segment(Byte)) /\ s.segments_out \in Seq(Segment(Byte))
      /\ o => h \in Segment(Byte) /\ h = s.segments_in_flight[1] /\ Len(s.segments_in_flight) > 0
  <2>1. s.segments_in_flight \in Seq(Segment(Byte)) /\ s.segments_out \in Seq(Segment(Byte))
    BY DEF SenderType
  <2>2. ASSUME o PROVE h \in Segment(Byte) /\ h = s.segments_in_flight[1]
                        /\ Len(s.segments_in_flight) > 0
    <3>1. s.segments_in_flight # <<>> BY <2>2 DEF Outstanding
    <3>2. h \in Segment(Byte) /\ Len(s.segments_in_flight) \in Nat \ {0}
      BY <2>1, <3>1, HeadTailProperties, EmptySeq
    <3>3. h = s.segments_in_flight[1] BY <2>1, <3>1
    <3> QED BY <3>2, <3>3
  <2> QED BY <2>1, <2>2
<1> HIDE DEF o, now, h, r
<1>4. CASE now >= s.retrans_timeout /\ o
  <2>1. Append(s.segments_out, h) \in Seq(Segment(Byte)) BY <1>3, <1>4, AppendProperties
  <2>2. /\ u \in SenderType /\ SameStream(s, u) /\ SameFlight(s, u) /\ SameWindow(s, u)
        /\ u.segments_out = Append(s.segments_out, h)
        /\ u.clock_is_counting /\ u.clock = 0 /\ u.retrans_timeout = r
    BY <1>2, <2>1 DEF SenderType, SameStream, SameFlight, SameWindow
  <2> HIDE DEF u
  <2> QED BY <1>1, <1>2, <1>3, <1>4, <2>2 DEF o, now, h
<1>5. CASE ~(now >= s.retrans_timeout /\ o)
  <2>1. /\ v \in SenderType /\ SameStream(s, v) /\ SameFlight(s, v) /\ SameWindow(s, v)
        /\ v.segments_out = s.segments_out
        /\ v.clock_is_counting = (s.clock_is_counting /\ o) /\ v.clock = now
        /\ v.retrans_timeout = s.retrans_timeout
    BY <1>2 DEF SenderType, SameStream, SameFlight, SameWindow
  <2> HIDE DEF v
  <2> QED BY <1>1, <1>5, <2>1 DEF o, now
<1> QED BY <1>4, <1>5

-----------------------------------------------------------------------------
\* The calls that follow the arrival of an acknowledgment.
Acking(s, n, w, occupies) ==
    LET acked == ack_received(Drain(s), n, w)
    IN  IF occupies /\ acked.segments_out = <<>> THEN send_empty_segment(acked) ELSE acked

\* A set of connected senders that only an acknowledgment of new data may leave.
Closed(A) ==
    /\ A \subseteq SenderType
    /\ \A x \in A : /\ x.syn
                    /\ FillStart(x) \in A
                    /\ RestartTimer(x) \in A
                    /\ send_empty_segment(x) \in A
    /\ \A x \in A, w \in Nat : FillOnce(x, w) \in A /\ Synced(x, w) \in A

\* A closed set is closed under fill_window, and under the arrival of an
\* acknowledgment when dropping what it acknowledges stays in the set.
LEMMA ClosedFill ==
  ASSUME NEW A, Closed(A), NEW s \in A
  PROVE  fill_window(s) \in A /\ Sends(s) \in A
<1>1. s \in SenderType /\ s.syn /\ FillStart(s) \in A BY DEF Closed
<1>2. Len(s.stream.buffer) \in Nat BY <1>1, LenProperties DEF SenderType, ByteStreamType
<1>3. FillWin(s) \in Nat BY <1>1, FillStartEffect
<1>4. \A x \in A : FillOnce(x, FillWin(s)) \in A BY <1>3 DEF Closed
<1>5. fill_window(s) \in A BY <1>1, <1>2, <1>4, FillWindowStays
<1> QED BY <1>1, <1>5 DEF Sends

LEMMA ClosedAck ==
  ASSUME NEW A, Closed(A), NEW s \in SenderType, Drain(s) \in A,
         NEW n \in U32, NEW w \in Nat, NEW b \in BOOLEAN,
         \A a \in Nat : Drain(s).receive_ack < a /\ a <= Drain(s).next_seqno
                         => Advance(Drain(s), a, w) \in A
  PROVE  ack_received(Drain(s), n, w) \in A /\ Sends(Acking(s, n, w, b)) \in A
<1> DEFINE d == Drain(s)
           a == unwrap(n, d.isn, d.checkpoint)
           t == ack_received(d, n, w)
<1>1. d \in A /\ d \in SenderType BY DEF Closed
<1>2. /\ a \in Nat
      /\ \/ t = d
         \/ a <= d.receive_ack /\ t = Synced(d, w)
         \/ /\ d.receive_ack < a /\ a <= d.next_seqno
            /\ t = RestartTimer(fill_window(Advance(d, a, w)))
  <2> HIDE DEF d
  <2> QED BY <1>1, AckKinds
<1>a. \A x \in Nat : d.receive_ack < x /\ x <= d.next_seqno => Advance(d, x, w) \in A
  OBVIOUS
<1> HIDE DEF d, a, t
<1>3. t \in A
  <2>1. CASE t = d BY <1>1, <2>1
  <2>2. CASE t = Synced(d, w) BY <1>1, <2>2 DEF Closed
  <2>3. CASE /\ d.receive_ack < a /\ a <= d.next_seqno
             /\ t = RestartTimer(fill_window(Advance(d, a, w)))
    <3>1. Advance(d, a, w) \in A BY <1>2, <1>a, <2>3
    <3>2. fill_window(Advance(d, a, w)) \in A BY <3>1, ClosedFill
    <3> QED BY <2>3, <3>2 DEF Closed
  <2> QED BY <1>2, <2>1, <2>2, <2>3
<1>4. Acking(s, n, w, b) \in A
  <2>1. send_empty_segment(t) \in A BY <1>3 DEF Closed
  <2> QED BY <1>3, <2>1 DEF Acking, t, d
<1> QED BY <1>3, <1>4, ClosedFill DEF t, d

-----------------------------------------------------------------------------
\* The stream and the numbers: what is queued in the outgoing stream is the
\* piece of the stream that follows the bytes read, and the application ends
\* the stream only when it has written all of it.
Numbers(s) ==
    /\ s.next_seqno = Bit(s.syn) + s.stream.readden + Bit(s.fin)
    /\ s.fin => s.syn /\ eof(s.stream)
    /\ s.stream.buffer = Substring(s.stream.readden, Len(s.stream.buffer))
    /\ s.stream.readden + Len(s.stream.buffer) = s.stream.written
    /\ s.stream.written <= StreamLen
    /\ s.stream.input_end => s.stream.written = StreamLen
    /\ ~s.syn => s.stream.readden = 0

NumberedSender == { x \in SenderType : x.isn = Isn /\ Numbers(x) }

\* The parts of the stream are natural numbers.
LEMMA StreamTypes ==
  ASSUME NEW b \in ByteStreamType(Byte)
  PROVE  /\ b.buffer \in Seq(Byte) /\ Len(b.buffer) \in Nat
         /\ b.readden \in Nat /\ b.written \in Nat
         /\ b.input_end \in BOOLEAN /\ b.error \in BOOLEAN
         /\ StreamLen \in Nat /\ Stream \in Seq(Byte)
  BY LenProperties, StreamAssumption DEF ByteStreamType, StreamLen

\* A piece of the stream without its first n bytes is a piece of the stream.
LEMMA PieceTaken ==
  ASSUME NEW i \in Nat, NEW l \in Nat, NEW n \in 0..l, i + l <= StreamLen
  PROVE  /\ SubSeq(Substring(i, l), n + 1, l) = Substring(i + n, l - n)
         /\ SubSeq(Substring(i, l), 1, n) = Substring(i, n)
         /\ Substring(i, n) \in Seq(Byte) /\ Len(Substring(i, n)) = n
<1>1. Stream \in Seq(Byte) /\ i + l <= Len(Stream) /\ Len(Stream) \in Nat
  BY StreamAssumption, LenProperties DEF StreamLen
<1>2. SubSeq(SubSeq(Stream, i + 1, i + l), n + 1, l) = SubSeq(Stream, i + n + 1, i + l)
  <2>1. l \in n..l OBVIOUS
  <2> QED BY <1>1, <2>1, PieceOfPiece
<1>3. i + n + 1 = (i + n) + 1 /\ i + l = (i + n) + (l - n) OBVIOUS
<1>4. SubSeq(SubSeq(Stream, i + 1, i + l), 0 + 1, n) = SubSeq(Stream, i + 0 + 1, i + n)
  <2>1. 0 \in 0..l /\ n \in 0..l OBVIOUS
  <2> QED BY <1>1, <2>1, PieceOfPiece
<1>5. 0 + 1 = 1 /\ i + 0 + 1 = i + 1 OBVIOUS
<1>6. SubSeq(Stream, i + 1, i + n) \in Seq(Byte) /\ Len(SubSeq(Stream, i + 1, i + n)) = n
  <2>1. i + n <= Len(Stream) /\ n \in Nat BY <1>1
  <2> QED BY <1>1, <2>1, PieceFacts
<1> QED BY <1>2, <1>3, <1>4, <1>5, <1>6 DEF Substring

\* The numbers depend on the stream, the flags and next_seqno only.
LEMMA NumbersSame ==
  ASSUME NEW s, NEW t, SameStream(s, t), Numbers(s)
  PROVE  Numbers(t) /\ t.isn = s.isn
  BY DEF SameStream, Numbers

\* A pass of fill_window takes from the stream what it numbers.
LEMMA CutsNumbers ==
  ASSUME NEW s \in SenderType, s.syn, Numbers(s), NEW t, NEW win,
         NEW n \in 0..Len(s.stream.buffer), NEW f \in BOOLEAN, Cuts(s, t, n, f, win)
  PROVE  Numbers(t) /\ t.syn
<1> DEFINE b == s.stream
           c == t.stream
           l == Len(b.buffer)
<1>1. /\ b \in ByteStreamType(Byte) /\ b.buffer \in Seq(Byte) /\ l \in Nat /\ b.readden \in Nat
      /\ b.written \in Nat /\ StreamLen \in Nat
  BY StreamTypes DEF SenderType
<1>2. /\ c.buffer = SubSeq(b.buffer, n + 1, l) /\ Len(c.buffer) = l - n
      /\ c.readden = b.readden + n /\ c.written = b.written /\ c.input_end = b.input_end
  <2>1. c = Taken(b, n) BY DEF Cuts
  <2>2. n \in 0..Len(b.buffer) OBVIOUS
  <2> HIDE DEF b, c
  <2> QED BY <1>1, <2>1, <2>2, TakenEffect
<1>3. /\ b.buffer = Substring(b.readden, l) /\ b.readden + l = b.written
      /\ b.written <= StreamLen /\ (b.input_end => b.written = StreamLen)
      /\ s.next_seqno = Bit(s.syn) + b.readden + Bit(s.fin)
  BY DEF Numbers
<1>4. /\ ~s.fin /\ t.fin = f /\ t.syn = s.syn
      /\ t.next_seqno = s.next_seqno + n + Bit(f)
      /\ f => n = l /\ b.input_end
  BY DEF Cuts
<1> HIDE DEF b, c, l
<1>5. c.buffer = Substring(c.readden, Len(c.buffer))
  <2>1. b.readden + l <= StreamLen /\ n \in 0..l BY <1>1, <1>3 DEF l, b
  <2>2. SubSeq(Substring(b.readden, l), n + 1, l) = Substring(b.readden + n, l - n)
    BY <1>1, <2>1, PieceTaken
  <2> QED BY <1>2, <1>3, <2>2
<1>6. n \in Nat OBVIOUS
<1>7. t.next_seqno = Bit(t.syn) + c.readden + Bit(t.fin)
  BY <1>1, <1>2, <1>3, <1>4, <1>6 DEF Bit
<1>8. t.fin => eof(c)
  <2>1. ASSUME t.fin PROVE c.buffer = <<>> /\ c.input_end
    <3>1. Len(c.buffer) = 0 /\ c.input_end BY <1>1, <1>2, <1>4, <2>1
    <3>2. c.buffer \in Seq(Byte)
      <4>1. b.readden + l <= StreamLen /\ n \in 0..l BY <1>1, <1>3 DEF l, b
      <4>2. c.readden \in Nat /\ Len(c.buffer) \in Nat
            /\ c.readden + Len(c.buffer) <= StreamLen /\ 0 \in 0..Len(c.buffer)
            /\ Len(c.buffer) \in 0..Len(c.buffer)
        BY <1>1, <1>2, <1>6, <4>1
      <4> QED BY <1>5, <4>2, PieceTaken
    <3> QED BY <3>1, <3>2, EmptySeq
  <2> QED BY <2>1 DEF eof
<1>9. c.readden + Len(c.buffer) = c.written BY <1>1, <1>2, <1>3, <1>6
<1> QED BY <1>2, <1>3, <1>4, <1>5, <1>7, <1>8, <1>9 DEF Numbers, c

Connected == { x \in NumberedSender : x.syn }

\* No method of a connected sender disturbs the numbers.
LEMMA ConnectedClosed ==
  /\ Closed(Connected)
  /\ \A x \in Connected, a \in Nat, w \in Nat : Advance(x, a, w) \in Connected
<1>1. ASSUME NEW x \in Connected, NEW w \in Nat, NEW a \in Nat
      PROVE  /\ FillStart(x) \in Connected /\ RestartTimer(x) \in Connected
             /\ send_empty_segment(x) \in Connected /\ Synced(x, w) \in Connected
             /\ Advance(x, a, w) \in Connected
  <2>1. x \in SenderType /\ x.isn = Isn /\ Numbers(x) /\ x.syn BY DEF Connected, NumberedSender
  <2>2. ASSUME NEW y \in SenderType, SameStream(x, y) PROVE y \in Connected
    <3>1. y.syn BY <2>1, <2>2 DEF SameStream
    <3> QED BY <2>1, <2>2, <3>1, NumbersSame DEF Connected, NumberedSender
  <2>3. Advance(x, a, w) \in SenderType /\ SameStream(x, Advance(x, a, w))
    BY <2>1, AdvanceEffect DEF Popped
  <2>4. FillStart(x) \in SenderType /\ SameStream(x, FillStart(x)) BY <2>1, FillStartEffect
  <2>5. RestartTimer(x) \in SenderType /\ SameStream(x, RestartTimer(x)) BY <2>1, RestartEffect
  <2>6. send_empty_segment(x) \in SenderType /\ SameStream(x, send_empty_segment(x))
    BY <2>1, EmptyEffect
  <2>7. Synced(x, w) \in SenderType /\ SameStream(x, Synced(x, w)) BY <2>1, SyncedEffect
  <2> QED BY <2>2, <2>3, <2>4, <2>5, <2>6, <2>7
<1>2. ASSUME NEW x \in Connected, NEW w \in Nat PROVE FillOnce(x, w) \in Connected
  <2>1. x \in SenderType /\ x.isn = Isn /\ Numbers(x) /\ x.syn BY DEF Connected, NumberedSender
  <2>2. CASE FillOnce(x, w) = x BY <2>2
  <2>3. ASSUME NEW n \in 0..Len(x.stream.buffer), NEW f \in BOOLEAN,
               Cuts(x, FillOnce(x, w), n, f, w)
        PROVE  FillOnce(x, w) \in Connected
    <3>1. Numbers(FillOnce(x, w)) /\ FillOnce(x, w).syn
      <4> DEFINE t == FillOnce(x, w)
      <4>1. Cuts(x, t, n, f, w) BY <2>3
      <4> HIDE DEF t
      <4>2. Numbers(t) /\ t.syn BY <2>1, <4>1, CutsNumbers
      <4> QED BY <4>2 DEF t
    <3>2. FillOnce(x, w) \in SenderType /\ FillOnce(x, w).isn = x.isn BY <2>3 DEF Cuts
    <3> QED BY <2>1, <3>1, <3>2 DEF Connected, NumberedSender
  <2> QED BY <2>1, <2>2, <2>3, FillOnceEffect
<1>3. Connected \subseteq SenderType /\ \A x \in Connected : x.syn
  BY DEF Connected, NumberedSender
<1>4. 0 \in Nat OBVIOUS
<1> QED BY <1>1, <1>2, <1>3, <1>4 DEF Closed

\* The bytes the application writes follow those it wrote before.
LEMMA WriteEffect ==
  ASSUME NEW b \in ByteStreamType(Byte), NEW n \in Nat,
         b.buffer = Substring(b.readden, Len(b.buffer)),
         b.readden + Len(b.buffer) = b.written, b.written + n <= StreamLen,
         n <= remaining_capacity(b, Capacity)
  PROVE  LET c == write(b, Capacity, Substring(b.written, n))
         IN  /\ c \in ByteStreamType(Byte)
             /\ c.buffer = Substring(c.readden, Len(c.buffer))
             /\ Len(c.buffer) = Len(b.buffer) + n
             /\ c.readden = b.readden /\ c.written = b.written + n
             /\ c.input_end = b.input_end /\ c.error = b.error
<1> DEFINE l    == Len(b.buffer)
           data == Substring(b.written, n)
           r    == b.buffer \o SubSeq(data, 1, n)
           c    == write(b, Capacity, data)
<1>1. /\ b.buffer \in Seq(Byte) /\ l \in Nat /\ b.readden \in Nat /\ b.written \in Nat
      /\ Stream \in Seq(Byte) /\ StreamLen \in Nat /\ Capacity \in Nat /\ StreamLen = Len(Stream)
  BY StreamTypes, SenderSystemAssumption DEF StreamLen
<1>2. data \in Seq(Byte) /\ Len(data) = n /\ SubSeq(data, 1, n) = data
  <2>1. n \in 0..n OBVIOUS
  <2>2. /\ SubSeq(Substring(b.written, n), 1, n) = Substring(b.written, n)
        /\ Substring(b.written, n) \in Seq(Byte) /\ Len(Substring(b.written, n)) = n
    BY <1>1, <2>1, PieceTaken
  <2> QED BY <2>2
<1>3. accepted(b, Capacity, data) = n
  BY <1>1, <1>2 DEF accepted, MinOf, remaining_capacity
<1>4. r = Substring(b.readden, l + n)
  <2>1. b.buffer = Substring(b.readden, l) OBVIOUS
  <2>2. /\ b.readden + 1 \in 1..(Len(Stream) + 1)
        /\ b.readden + l \in ((b.readden + 1) - 1)..Len(Stream)
        /\ b.readden + l + n \in (b.readden + l)..Len(Stream)
    BY <1>1, SMTT(30)
  <2>3. SubSeq(Stream, b.readden + 1, b.readden + l)
          \o SubSeq(Stream, (b.readden + l) + 1, b.readden + l + n)
          = SubSeq(Stream, b.readden + 1, b.readden + l + n)
    BY <1>1, <2>2, ConcatAdjacentSubSeq
  <2>4. b.readden + l + n = b.readden + (l + n) /\ (b.readden + l) + n = b.readden + l + n
    BY <1>1
  <2>5. data = SubSeq(Stream, (b.readden + l) + 1, (b.readden + l) + n) BY DEF Substring
  <2>6. r = SubSeq(Stream, b.readden + 1, b.readden + l) \o data
    BY <1>2, <2>1 DEF Substring
  <2> HIDE DEF r, data, l
  <2> QED BY <2>3, <2>4, <2>5, <2>6 DEF Substring
<1>5. r \in Seq(Byte) /\ Len(r) = l + n
  <2>1. r = b.buffer \o data BY <1>2
  <2> HIDE DEF data, r
  <2>2. b.buffer \in Seq(Byte) /\ data \in Seq(Byte) BY <1>1, <1>2
  <2>3. b.buffer \o data \in Seq(Byte) /\ Len(b.buffer \o data) = Len(b.buffer) + Len(data)
    BY <2>2, ConcatProperties
  <2> QED BY <1>2, <2>1, <2>3
<1>6. c = [ b EXCEPT !.written = @ + n, !.buffer = r ]
  <2> HIDE DEF data
  <2> QED BY <1>3 DEF write
<1> HIDE DEF r, c, data
<1>7. /\ c \in ByteStreamType(Byte) /\ c.buffer = r /\ c.readden = b.readden
      /\ c.written = b.written + n /\ c.input_end = b.input_end /\ c.error = b.error
  <2>1. b.written + n \in Nat BY <1>1
  <2> QED BY <1>5, <1>6, <2>1 DEF ByteStreamType
<1> QED BY <1>4, <1>5, <1>7 DEF c, data

\* Nothing but the stream decides on what Streamed changes.
LEMMA WriteNumbers ==
  ASSUME NEW s \in NumberedSender, NEW n \in Nat, s.stream.written + n <= StreamLen,
         ~s.stream.input_end, n <= remaining_capacity(s.stream, Capacity)
  PROVE  LET t == Streamed(s, write(s.stream, Capacity, Substring(s.stream.written, n)))
         IN  t \in NumberedSender /\ t.syn = s.syn
<1> DEFINE b == s.stream
           c == write(b, Capacity, Substring(b.written, n))
           t == Streamed(s, c)
<1>1. s \in SenderType /\ s.isn = Isn /\ Numbers(s) /\ b \in ByteStreamType(Byte)
  BY DEF NumberedSender, SenderType
<1>2. /\ b.readden \in Nat /\ Len(b.buffer) \in Nat /\ b.written \in Nat
  BY <1>1, StreamTypes
<1>3. /\ c \in ByteStreamType(Byte) /\ c.buffer = Substring(c.readden, Len(c.buffer))
      /\ Len(c.buffer) = Len(b.buffer) + n
      /\ c.readden = b.readden /\ c.written = b.written + n /\ c.input_end = b.input_end
  <2>1. /\ b.buffer = Substring(b.readden, Len(b.buffer))
        /\ b.readden + Len(b.buffer) = b.written
        /\ b.written + n <= StreamLen /\ n <= remaining_capacity(b, Capacity)
    BY <1>1 DEF Numbers
  <2> HIDE DEF b
  <2> QED BY <1>1, <2>1, WriteEffect
<1> HIDE DEF c
<1>4. /\ t \in SenderType /\ t.stream = c /\ t.isn = s.isn /\ t.syn = s.syn /\ t.fin = s.fin
      /\ t.next_seqno = s.next_seqno
  BY <1>1, <1>3, StreamedEffect
<1> HIDE DEF t
<1>5. ~s.fin /\ ~c.input_end BY <1>1, <1>3 DEF Numbers, eof
<1>6. c.readden + Len(c.buffer) = c.written
  BY <1>1, <1>2, <1>3 DEF Numbers
<1>7. Numbers(t)
  BY <1>1, <1>3, <1>4, <1>5, <1>6 DEF Numbers
<1> QED BY <1>1, <1>4, <1>7 DEF NumberedSender, t, c

LEMMA FlagNumbers ==
  ASSUME NEW s \in NumberedSender
  PROVE  /\ ~s.stream.input_end /\ s.stream.written = StreamLen =>
                LET t == Streamed(s, end_input(s.stream))
                IN  t \in NumberedSender /\ t.syn = s.syn
         /\ LET t == Streamed(s, set_error(s.stream))
            IN  t \in NumberedSender /\ t.syn = s.syn
<1>1. s \in SenderType /\ s.isn = Isn /\ Numbers(s) /\ s.stream \in ByteStreamType(Byte)
  BY DEF NumberedSender, SenderType
<1>2. ASSUME NEW c \in ByteStreamType(Byte),
             c.buffer = s.stream.buffer, c.readden = s.stream.readden,
             c.written = s.stream.written,
             \/ c.input_end = s.stream.input_end
             \/ ~s.stream.input_end /\ s.stream.written = StreamLen
      PROVE  Streamed(s, c) \in NumberedSender /\ Streamed(s, c).syn = s.syn
  <2> DEFINE t == Streamed(s, c)
  <2>1. /\ t \in SenderType /\ t.stream = c /\ t.isn = s.isn /\ t.syn = s.syn /\ t.fin = s.fin
        /\ t.next_seqno = s.next_seqno
    BY <1>1, <1>2, StreamedEffect
  <2> HIDE DEF t
  <2>2. Numbers(t) BY <1>1, <1>2, <2>1 DEF Numbers, eof
  <2> QED BY <1>1, <2>1, <2>2 DEF NumberedSender, t
<1>3. LET c == end_input(s.stream)
      IN  /\ c \in ByteStreamType(Byte) /\ c.buffer = s.stream.buffer
          /\ c.readden = s.stream.readden /\ c.written = s.stream.written
  BY <1>1 DEF end_input, ByteStreamType
<1>4. LET c == set_error(s.stream)
      IN  /\ c \in ByteStreamType(Byte) /\ c.buffer = s.stream.buffer
          /\ c.readden = s.stream.readden /\ c.written = s.stream.written
          /\ c.input_end = s.stream.input_end
  BY <1>1 DEF set_error, ByteStreamType
<1> QED BY <1>2, <1>3, <1>4

-----------------------------------------------------------------------------
\* connect() numbers the SYN.
LEMMA SynNumbers ==
  ASSUME NEW s \in NumberedSender, ~s.syn
  PROVE  fill_window(s) \in Connected
<1> DEFINE t == fill_window(s)
<1>1. s \in SenderType /\ s.isn = Isn /\ Numbers(s) BY DEF NumberedSender
<1>2. /\ t \in SenderType /\ t.isn = s.isn /\ t.fin = s.fin /\ t.stream = s.stream
      /\ t.next_seqno = s.next_seqno + 1 /\ t.syn
  BY <1>1, SynEffect DEF Sent
<1> HIDE DEF t
<1>3. s.stream.readden \in Nat BY <1>1, StreamTypes DEF SenderType
<1>4. Bit(s.syn) = 0 /\ Bit(t.syn) = 1 /\ Bit(t.fin) = Bit(s.fin) /\ Bit(s.fin) \in {0, 1}
  BY <1>2 DEF Bit
<1>5. t.next_seqno = Bit(t.syn) + t.stream.readden + Bit(t.fin)
  <2> DEFINE f == Bit(s.fin)
             r == s.stream.readden
  <2>1. s.next_seqno = 0 + r + f BY <1>1, <1>4 DEF Numbers
  <2>2. t.next_seqno = s.next_seqno + 1 /\ t.stream.readden = r /\ Bit(t.fin) = f
    BY <1>2, <1>4
  <2> HIDE DEF f, r
  <2>3. f \in Int /\ r \in Int BY <1>3, <1>4 DEF f, r
  <2> QED BY <1>4, <2>1, <2>2, <2>3
<1>6. Numbers(t) BY <1>1, <1>2, <1>5 DEF Numbers
<1> QED BY <1>1, <1>2, <1>6 DEF Connected, NumberedSender, t

\* Draining the queue, and a tick, leave the numbers alone.
LEMMA SameNumbered ==
  ASSUME NEW s \in NumberedSender, NEW t \in SenderType, SameStream(s, t)
  PROVE  t \in NumberedSender /\ t.syn = s.syn
  BY NumbersSame DEF NumberedSender, SameStream

\* segment_sends after a call that left the sender numbered.
LEMMA SendsNumbered ==
  ASSUME NEW s \in NumberedSender
  PROVE  Sends(s) \in NumberedSender
<1>1. CASE s.syn
  <2>1. s \in Connected BY <1>1 DEF Connected
  <2> QED BY <2>1, ConnectedClosed, ClosedFill DEF Connected
<1>2. CASE ~s.syn BY <1>2 DEF Sends
<1> QED BY <1>1, <1>2

\* The state of the sender before the first call.
LEMMA NewNumbered == NewTCPSender(Isn) \in NumberedSender
<1> DEFINE s == NewTCPSender(Isn)
<1>1. NewByteStream \in ByteStreamType(Byte) BY EmptySeq DEF NewByteStream, ByteStreamType
<1>2. <<>> \in Seq(Segment(Byte)) BY EmptySeq
<1>3. s \in SenderType
  BY <1>1, <1>2, SenderAssumption, SenderSystemAssumption DEF SenderType, NewTCPSender
<1>4. Numbers(s)
  <2>1. Substring(0, 0) = <<>> BY SubSeqEmpty DEF Substring
  <2>2. StreamLen \in Nat BY StreamAssumption, LenProperties DEF StreamLen
  <2>3. Len(<<>>) = 0 BY EmptySeq
  <2> QED BY <2>1, <2>2, <2>3 DEF Numbers, NewTCPSender, NewByteStream, Bit, eof
<1> QED BY <1>3, <1>4 DEF NumberedSender, NewTCPSender

-----------------------------------------------------------------------------
\* The inductive invariant of the numbers.
Numbered == sender \in NumberedSender

LEMMA NumberedStep == Numbered /\ [Next]_vars => Numbered'
<1> SUFFICES ASSUME Numbered, [Next]_vars PROVE Numbered' OBVIOUS
<1> DEFINE d == Drain(sender)
<1>1. sender \in NumberedSender /\ sender \in SenderType BY DEF Numbered, NumberedSender
<1>2. /\ d \in NumberedSender /\ d \in SenderType /\ d.syn = sender.syn
      /\ d.stream = sender.stream
  BY <1>1, DrainEffect, SameNumbered DEF NumberedSender, SameStream
<1>3. CASE Connect
  <2>1. sender' = fill_window(sender) /\ ~sender.syn BY <1>3 DEF Connect
  <2>2. fill_window(sender) \in Connected BY <1>1, <2>1, SynNumbers
  <2> QED BY <2>1, <2>2 DEF Numbered, Connected
<1>4. ASSUME NEW n \in 1..StreamLen, Write(n) PROVE Numbered'
  <2> DEFINE t == Streamed(d, write(d.stream, Capacity, Substring(sender.stream.written, n)))
  <2>2. sender' = Sends(t) BY <1>2, <1>4 DEF Write, Drained, Drain, Streamed
  <2>3. /\ d.stream.written + n <= StreamLen /\ ~d.stream.input_end
        /\ n <= remaining_capacity(d.stream, Capacity) /\ n \in Nat
    BY <1>2, <1>4 DEF Write
  <2>4. t \in NumberedSender
    <3>1. Streamed(d, write(d.stream, Capacity, Substring(d.stream.written, n))) \in NumberedSender
      <4> HIDE DEF d
      <4> QED BY <1>2, <2>3, WriteNumbers
    <3> QED BY <1>2, <3>1
  <2> HIDE DEF t
  <2> QED BY <2>2, <2>4, SendsNumbered DEF Numbered
<1>5. CASE EndInputStream
  <2> DEFINE t == Streamed(d, end_input(d.stream))
  <2>1. sender' = Sends(t)
    BY <1>5 DEF EndInputStream, Drained, Drain, Streamed
  <2>2. t \in NumberedSender
    <3> HIDE DEF d
    <3>1. ~d.stream.input_end /\ d.stream.written = StreamLen BY <1>2, <1>5 DEF EndInputStream
    <3> QED BY <1>2, <3>1, FlagNumbers
  <2> HIDE DEF t
  <2> QED BY <2>1, <2>2, SendsNumbered DEF Numbered
<1>6. ASSUME NEW a \in 0..(StreamLen + 3), NEW w \in 0..MaxWindow, NEW b \in BOOLEAN,
             AckReceived(a, w, b)
      PROVE  Numbered'
  <2>1. sender.syn /\ sender' = Sends(Acking(sender, wrap(a, Isn), w, b))
    BY <1>6 DEF AckReceived, Acking, Drained, Drain
  <2>2. d \in Connected BY <1>2, <2>1 DEF Connected
  <2>3. wrap(a, Isn) \in U32 /\ w \in Nat BY WrapType, SenderSystemAssumption
  <2>4. \A x \in Nat : Advance(d, x, w) \in Connected BY <2>2, <2>3, ConnectedClosed
  <2>5. Sends(Acking(sender, wrap(a, Isn), w, b)) \in Connected
    BY <1>1, <2>2, <2>3, <2>4, ConnectedClosed, ClosedAck
  <2> QED BY <2>1, <2>5 DEF Numbered, Connected
<1>7. CASE Tick
  <2> DEFINE t == tick(d, TickSize)
             u == Streamed(t, set_error(t.stream))
  <2>1. sender' \in {Sends(t), Sends(u)}
    <3>1. sender' = Sends(IF Active(t) THEN t ELSE [ t EXCEPT !.stream = set_error(@) ])
      BY <1>7 DEF Tick, Drained, Drain
    <3> HIDE DEF t
    <3> QED BY <3>1 DEF Streamed
  <2>2. t \in NumberedSender
    <3> HIDE DEF d
    <3> QED BY <1>2, TickEffect, SameNumbered
  <2>3. u \in NumberedSender
    <3> HIDE DEF t
    <3> QED BY <2>2, FlagNumbers
  <2> HIDE DEF t, u
  <2> QED BY <2>1, <2>2, <2>3, SendsNumbered DEF Numbered
<1>8. CASE UNCHANGED vars BY <1>1, <1>8 DEF vars, Numbered
<1> QED BY <1>3, <1>4, <1>5, <1>6, <1>7, <1>8 DEF Next

LEMMA NumberedAlways == Spec => []Numbered
<1>1. Init => Numbered BY NewNumbered DEF Init, Numbered
<1> QED BY <1>1, NumberedStep, PTL DEF Spec

\* No byte the application wrote is lost or numbered twice between the stream
\* and the segments, whatever acknowledgments arrive: next_seqno counts the
\* SYN, the bytes taken off the stream and the FIN (fill_window).
THEOREM NumbersAlwaysMatch == Spec => []NumbersMatchStream
<1>1. Numbered => NumbersMatchStream
  BY DEF Numbered, NumberedSender, Numbers, NumbersMatchStream, Bit
<1> QED BY <1>1, NumberedAlways, PTL

-----------------------------------------------------------------------------
\* A sender whose oldest segment in flight has waited for w while the timer
\* counted, and which has not processed an acknowledgment since.
Timed(w, timeout, ack) ==
    { x \in SenderType : /\ x.retrans_timeout = timeout
                         /\ x.receive_ack = ack
                         /\ Outstanding(x) => x.clock_is_counting /\ w <= x.clock
                         /\ w = 0 \/ Outstanding(x) }

\* What neither the beginning nor a pass of fill_window leaves, segment_sends
\* does not leave.
LEMMA SendsStays ==
  ASSUME NEW A \in SUBSET SenderType, NEW s \in A,
         \A x \in A : FillStart(x) \in A, \A x \in A, w \in Nat : FillOnce(x, w) \in A
  PROVE  Sends(s) \in A /\ (s.syn => fill_window(s) \in A)
<1>1. s \in SenderType /\ FillStart(s) \in A /\ FillWin(s) \in Nat BY FillStartEffect
<1>2. Len(s.stream.buffer) \in Nat BY <1>1, StreamTypes DEF SenderType
<1>3. \A x \in A : FillOnce(x, FillWin(s)) \in A BY <1>1
<1>4. s.syn => fill_window(s) \in A BY <1>1, <1>2, <1>3, FillWindowStays
<1> QED BY <1>4 DEF Sends

\* fill_window starts the timer when it sends, and never sets it back.
LEMMA TimedFill ==
  ASSUME NEW w \in Nat, NEW timeout, NEW ack, NEW s \in Timed(w, timeout, ack)
  PROVE  /\ Sends(s) \in Timed(w, timeout, ack)
         /\ s.syn => fill_window(s) \in Timed(w, timeout, ack)
<1> DEFINE A == Timed(w, timeout, ack)
<1>1. ASSUME NEW x \in A, NEW y \in SenderType, SameFlight(x, y), SameTimer(x, y)
      PROVE  y \in A
  BY <1>1 DEF Timed, SameFlight, SameTimer, Outstanding
<1>2. ASSUME NEW x \in A PROVE FillStart(x) \in A
  <2>1. x \in SenderType BY DEF Timed
  <2>2. /\ FillStart(x) \in SenderType /\ SameFlight(x, FillStart(x))
        /\ SameTimer(x, FillStart(x))
    BY <2>1, FillStartEffect
  <2> QED BY <1>1, <2>2
<1>3. ASSUME NEW x \in A, NEW win \in Nat PROVE FillOnce(x, win) \in A
  <2>1. x \in SenderType /\ x.clock \in Nat /\ x.segments_in_flight \in Seq(Segment(Byte))
    BY DEF Timed, SenderType
  <2>2. CASE FillOnce(x, win) = x BY <2>2
  <2>3. ASSUME NEW n \in 0..Len(x.stream.buffer), NEW f \in BOOLEAN,
               Cuts(x, FillOnce(x, win), n, f, win)
        PROVE  FillOnce(x, win) \in A
    <3> DEFINE y == FillOnce(x, win)
    <3>1. /\ y \in SenderType /\ y.retrans_timeout = x.retrans_timeout
          /\ y.receive_ack = x.receive_ack /\ y.clock_is_counting
          /\ y.clock = IF x.clock_is_counting THEN x.clock ELSE 0
          /\ y.segments_in_flight = Append(x.segments_in_flight, NextSegment(x, n, f))
          /\ NextSegment(x, n, f) \in Segment(Byte)
      BY <2>3 DEF Cuts
    <3> HIDE DEF y
    <3>2. Outstanding(y) BY <2>1, <3>1, AppendFacts DEF Outstanding
    <3>3. w <= y.clock
      <4>1. CASE Outstanding(x) BY <3>1, <4>1 DEF Timed
      <4>2. CASE ~Outstanding(x)
        <5>1. w = 0 BY <4>2 DEF Timed
        <5> QED BY <2>1, <3>1, <5>1
      <4> QED BY <4>1, <4>2
    <3> QED BY <3>1, <3>2, <3>3 DEF Timed, y
  <2> QED BY <2>1, <2>2, <2>3, FillOnceEffect
<1>4. A \in SUBSET SenderType BY DEF Timed
<1> HIDE DEF A
<1>5. Sends(s) \in A /\ (s.syn => fill_window(s) \in A)
  <2>1. s \in A BY DEF A
  <2> QED BY <1>2, <1>3, <1>4, <2>1, SendsStays
<1> QED BY <1>5 DEF A

\* The inductive invariant of the timer: while something is in flight the
\* clock counts, it shows at least the time waited, and that time is below the
\* timeout.
TimerOK ==
    /\ waited \in Nat
    /\ sender.retrans_timeout > 0
    /\ Outstanding(sender) => /\ sender.clock_is_counting
                              /\ waited <= sender.clock
                              /\ waited < sender.retrans_timeout

\* Calls that restart nothing keep the invariant, with the time waited or none.
LEMMA TimedKeeps ==
  ASSUME NEW t \in SenderType, NEW w \in Nat, NEW v \in Nat,
         NEW timeout, NEW ack, t \in Timed(w, timeout, ack), timeout > 0,
         w < timeout \/ w = 0, v = w \/ v = 0
  PROVE  /\ t.retrans_timeout > 0
         /\ Outstanding(t) => t.clock_is_counting /\ v <= t.clock /\ v < t.retrans_timeout
<1>1. /\ t.retrans_timeout = timeout /\ timeout \in Nat /\ t.clock \in Nat
      /\ Outstanding(t) => t.clock_is_counting /\ w <= t.clock
  BY DEF Timed, SenderType
<1> QED BY <1>1

\* A method that touches neither what is in flight nor the timer keeps a sender
\* as timed as it was.
LEMMA TimedSame ==
  ASSUME NEW s \in SenderType, NEW t \in SenderType, SameFlight(s, t), SameTimer(s, t),
         NEW w, NEW timeout, NEW ack, s \in Timed(w, timeout, ack)
  PROVE  t \in Timed(w, timeout, ack)
  BY DEF Timed, SameFlight, SameTimer, Outstanding

\* An acknowledgment of new data restarts the timer; any other leaves it alone.
LEMMA TimedAck ==
  ASSUME NEW s \in SenderType, s.syn, NEW w \in Nat, NEW n \in U32, NEW win \in Nat,
         s \in Timed(w, s.retrans_timeout, s.receive_ack), NEW b \in BOOLEAN
  PROVE  LET t == Sends(Acking(s, n, win, b))
         IN  \/ t \in Timed(w, s.retrans_timeout, s.receive_ack)
             \/ \E ack \in Nat : ack > s.receive_ack /\ t \in Timed(0, RTO, ack)
<1> DEFINE d == Drain(s)
           a == unwrap(n, d.isn, d.checkpoint)
           t == ack_received(d, n, win)
           C(x) == IF b /\ x.segments_out = <<>> THEN send_empty_segment(x) ELSE x
<1>1. /\ d \in SenderType /\ SameFlight(s, d) /\ SameTimer(s, d) /\ SameStream(s, d)
  BY DrainEffect
<1>2. d \in Timed(w, s.retrans_timeout, s.receive_ack) BY <1>1, TimedSame
<1>3. /\ a \in Nat
      /\ \/ t = d
         \/ a <= d.receive_ack /\ t = Synced(d, win)
         \/ /\ d.receive_ack < a /\ a <= d.next_seqno
            /\ t = RestartTimer(fill_window(Advance(d, a, win)))
  <2> HIDE DEF d
  <2> QED BY <1>1, AckKinds
<1>4. Acking(s, n, win, b) = C(t) BY DEF Acking
<1> HIDE DEF d, a, t
<1>5. ASSUME NEW timeout, NEW ack, NEW v \in Nat, NEW x \in SenderType,
             x \in Timed(v, timeout, ack)
      PROVE  Sends(C(x)) \in Timed(v, timeout, ack)
  <2>1. /\ send_empty_segment(x) \in SenderType /\ SameFlight(x, send_empty_segment(x))
        /\ SameTimer(x, send_empty_segment(x))
    BY <1>5, EmptyEffect
  <2>2. C(x) \in Timed(v, timeout, ack) BY <1>5, <2>1, TimedSame
  <2> HIDE DEF C
  <2> QED BY <2>2, TimedFill
<1>6. CASE t = d BY <1>1, <1>2, <1>4, <1>5, <1>6
<1>7. CASE t = Synced(d, win)
  <2>1. t \in SenderType /\ SameFlight(d, t) /\ SameTimer(d, t) BY <1>1, <1>7, SyncedEffect
  <2>2. t \in Timed(w, s.retrans_timeout, s.receive_ack) BY <1>1, <1>2, <2>1, TimedSame
  <2> QED BY <1>4, <1>5, <2>1, <2>2
<1>8. CASE /\ d.receive_ack < a /\ a <= d.next_seqno
           /\ t = RestartTimer(fill_window(Advance(d, a, win)))
  <2> DEFINE u == Advance(d, a, win)
             v == fill_window(u)
  <2>1. PICK g \in 0..Len(d.segments_in_flight) : Popped(d, u, a, win, g)
    BY <1>1, <1>3, AdvanceEffect
  <2> HIDE DEF u
  <2>2. /\ u \in SenderType /\ SameStream(d, u) /\ SameTimer(d, u) /\ u.receive_ack = a
        /\ u.segments_in_flight
              = SubSeq(d.segments_in_flight, g + 1, Len(d.segments_in_flight))
    BY <2>1 DEF Popped
  <2>3. Outstanding(u) => Outstanding(d)
    <3>1. ASSUME d.segments_in_flight = <<>> PROVE u.segments_in_flight = <<>>
      <4>1. Len(d.segments_in_flight) = 0 BY <3>1, EmptySeq
      <4>2. g \in Int /\ g + 1 \in Int /\ 0 < g + 1 BY <4>1
      <4> QED BY <2>2, <4>1, <4>2, SubSeqEmpty
    <3> QED BY <3>1 DEF Outstanding
  <2>4. u \in Timed(0, s.retrans_timeout, a)
    <3>1. u.clock \in Nat /\ u.retrans_timeout = s.retrans_timeout
      BY <1>1, <2>2 DEF SenderType, SameTimer
    <3>2. Outstanding(u) => u.clock_is_counting
      BY <1>2, <2>2, <2>3 DEF Timed, SameTimer
    <3> QED BY <2>2, <3>1, <3>2 DEF Timed
  <2>5. u.syn BY <1>1, <2>2 DEF SameStream
  <2>6. 0 \in Nat OBVIOUS
  <2>7. v \in Timed(0, s.retrans_timeout, a) BY <2>4, <2>5, <2>6, TimedFill
  <2> HIDE DEF v
  <2>8. v \in SenderType /\ v.receive_ack = a BY <2>7 DEF Timed
  <2>9. /\ t \in SenderType /\ SameFlight(v, t) /\ t.retrans_timeout = RTO
        /\ Outstanding(v) => t.clock_is_counting /\ t.clock = 0
    BY <1>8, <2>8, RestartEffect DEF v, u
  <2>10. t \in Timed(0, RTO, a) BY <2>8, <2>9 DEF Timed, SameFlight, Outstanding
  <2>11. Sends(C(t)) \in Timed(0, RTO, a) BY <1>5, <2>6, <2>9, <2>10
  <2>12. a > s.receive_ack
    <3>1. d.receive_ack = s.receive_ack BY <1>1 DEF SameFlight
    <3>2. s.receive_ack \in Nat BY DEF SenderType
    <3> QED BY <1>3, <1>8, <3>1, <3>2
  <2> QED BY <1>3, <1>4, <2>11, <2>12
<1> HIDE DEF C
<1> QED BY <1>3, <1>6, <1>7, <1>8

LEMMA TimerStep == Numbered /\ TimerOK /\ [Next]_vars => TimerOK'
<1> SUFFICES ASSUME Numbered, TimerOK, [Next]_vars PROVE TimerOK' OBVIOUS
<1> DEFINE d == Drain(sender)
           w == IF Outstanding(sender) THEN waited ELSE 0
           r == sender.retrans_timeout
           k == sender.receive_ack
<1>1. /\ sender \in SenderType /\ r \in Nat /\ k \in Nat /\ r > 0 /\ w \in Nat
      /\ sender.clock \in Nat /\ (w < r \/ w = 0)
  BY DEF Numbered, NumberedSender, TimerOK, SenderType
<1>2. sender \in Timed(w, r, k) BY <1>1 DEF TimerOK, Timed
<1>3. /\ d \in SenderType /\ d \in Timed(w, r, k) /\ SameFlight(sender, d)
      /\ SameTimer(sender, d) /\ d.segments_out = <<>> /\ d.stream = sender.stream
  BY <1>1, <1>2, DrainEffect, TimedSame DEF SameStream
<1>4. \A s : Waiting(s) = w \/ Waiting(s) = 0 BY DEF Waiting
<1>5. ASSUME NEW v \in Nat, NEW t \in Nat, t > 0, v < t \/ v = 0, NEW ack,
             sender' \in Timed(v, t, ack), waited' = v \/ waited' = 0
      PROVE  TimerOK'
  <2>1. sender' \in SenderType /\ waited' \in Nat BY <1>5 DEF Timed
  <2>2. /\ sender'.retrans_timeout > 0
        /\ Outstanding(sender') =>
              sender'.clock_is_counting /\ waited' <= sender'.clock
                /\ waited' < sender'.retrans_timeout
    BY <1>5, <2>1, TimedKeeps
  <2> QED BY <2>1, <2>2 DEF TimerOK, Outstanding
<1>6. ASSUME NEW b \in ByteStreamType(Byte), sender' = Sends(Streamed(d, b)),
             waited' = Waiting(sender')
      PROVE  TimerOK'
  <2> DEFINE t == Streamed(d, b)
  <2>1. t \in Timed(w, r, k)
    <3> HIDE DEF d
    <3> QED BY <1>3, <1>6, StreamedEffect, TimedSame
  <2> HIDE DEF t
  <2>2. Sends(t) \in Timed(w, r, k)
    <3> HIDE DEF w
    <3> QED BY <1>1, <2>1, TimedFill
  <2> QED BY <1>1, <1>4, <1>5, <1>6, <2>2 DEF t
<1>7. sender.stream \in ByteStreamType(Byte) BY <1>1 DEF SenderType
<1>8. CASE Connect
  <2>1. sender' = fill_window(sender) /\ ~sender.syn /\ waited' = 0 BY <1>8 DEF Connect
  <2> DEFINE t == fill_window(sender)
  <2>2. /\ t \in SenderType /\ t.clock_is_counting /\ t.retrans_timeout = r /\ t.receive_ack = k
    BY <1>1, <2>1, SynEffect DEF Sent
  <2>3. t \in Timed(0, r, k)
    <3>1. t.clock \in Nat BY <2>2 DEF SenderType
    <3> HIDE DEF t
    <3> QED BY <2>2, <3>1 DEF Timed
  <2> HIDE DEF t
  <2> QED BY <1>1, <1>5, <2>1, <2>3 DEF t
<1>9. ASSUME NEW n \in 1..StreamLen, Write(n) PROVE TimerOK'
  <2> DEFINE b == write(d.stream, Capacity, Substring(sender.stream.written, n))
  <2>1. sender' = Sends(Streamed(d, b)) /\ waited' = Waiting(sender')
    BY <1>9 DEF Write, Drained, Drain, Streamed
  <2>2. b \in ByteStreamType(Byte)
    <3>1. /\ sender.stream.buffer = Substring(sender.stream.readden, Len(sender.stream.buffer))
          /\ sender.stream.readden + Len(sender.stream.buffer) = sender.stream.written
          /\ sender.stream.written + n <= StreamLen /\ n \in Nat
          /\ n <= remaining_capacity(sender.stream, Capacity)
      BY <1>3, <1>9 DEF Write, Numbered, NumberedSender, Numbers
    <3> HIDE DEF d
    <3> QED BY <1>3, <1>7, <3>1, WriteEffect
  <2> HIDE DEF b
  <2> QED BY <1>6, <2>1, <2>2
<1>10. CASE EndInputStream
  <2>1. sender' = Sends(Streamed(d, end_input(d.stream))) /\ waited' = Waiting(sender')
    BY <1>10 DEF EndInputStream, Drained, Drain, Streamed
  <2>2. end_input(d.stream) \in ByteStreamType(Byte)
    <3> HIDE DEF d
    <3> QED BY <1>3, <1>7 DEF end_input, ByteStreamType
  <2> QED BY <1>6, <2>1, <2>2
<1>11. ASSUME NEW a \in 0..(StreamLen + 3), NEW win \in 0..MaxWindow, NEW b \in BOOLEAN,
              AckReceived(a, win, b)
       PROVE  TimerOK'
  <2> DEFINE t == Sends(Acking(sender, wrap(a, Isn), win, b))
  <2>1. /\ sender.syn /\ sender' = t
        /\ waited' = IF sender'.receive_ack > k THEN 0 ELSE Waiting(sender')
    BY <1>11 DEF AckReceived, Acking, Drained, Drain
  <2>2. wrap(a, Isn) \in U32 /\ win \in Nat BY WrapType, SenderSystemAssumption
  <2>3. \/ t \in Timed(w, r, k)
        \/ \E ack \in Nat : ack > k /\ t \in Timed(0, RTO, ack)
    <3> HIDE DEF w
    <3> QED BY <1>1, <1>2, <2>1, <2>2, TimedAck
  <2> HIDE DEF t
  <2>4. CASE t \in Timed(w, r, k) BY <1>1, <1>4, <1>5, <2>1, <2>4
  <2>5. ASSUME NEW ack \in Nat, ack > k, t \in Timed(0, RTO, ack) PROVE TimerOK'
    <3>1. sender'.receive_ack = ack BY <2>1, <2>5 DEF Timed
    <3>2. waited' = 0 BY <2>1, <2>5, <3>1
    <3>3. RTO \in Nat /\ RTO > 0 BY SenderAssumption
    <3> QED BY <1>5, <2>1, <2>5, <3>2, <3>3
  <2> QED BY <2>3, <2>4, <2>5
<1>12. CASE Tick
  <2> DEFINE t == tick(d, TickSize)
             u == Streamed(t, set_error(t.stream))
             v == IF Outstanding(sender) /\ t.segments_out = <<>> THEN waited + TickSize ELSE 0
  <2>1. /\ sender' \in {Sends(t), Sends(u)}
        /\ waited' = v
    <3>1. /\ sender' = Sends(IF Active(t) THEN t ELSE [ t EXCEPT !.stream = set_error(@) ])
          /\ waited' = IF t.segments_out # <<>> \/ ~Outstanding(sender) THEN 0 ELSE waited + TickSize
      BY <1>12 DEF Tick, Drained, Drain
    <3> HIDE DEF t
    <3> QED BY <3>1 DEF Streamed
  <2>2. /\ t \in SenderType /\ SameStream(d, t) /\ SameFlight(d, t)
        /\ \/ /\ Outstanding(d) /\ t.segments_out = Append(d.segments_out, Head(d.segments_in_flight))
              /\ t.clock_is_counting /\ t.retrans_timeout \in {d.retrans_timeout, 2 * d.retrans_timeout}
              /\ Head(d.segments_in_flight) = d.segments_in_flight[1]
              /\ Len(d.segments_in_flight) > 0
           \/ /\ ~(Outstanding(d) /\ d.clock + TickSize >= d.retrans_timeout)
              /\ t.segments_out = d.segments_out
              /\ t.clock_is_counting = (d.clock_is_counting /\ Outstanding(d))
              /\ t.clock = d.clock + TickSize
              /\ t.retrans_timeout = d.retrans_timeout
    <3> HIDE DEF d
    <3> QED BY <1>3, TickEffect
  <2>3. /\ Outstanding(d) <=> Outstanding(sender)
        /\ Outstanding(t) <=> Outstanding(sender)
        /\ d.retrans_timeout = r /\ d.clock = sender.clock
        /\ d.clock_is_counting = sender.clock_is_counting
        /\ t.receive_ack = k
    BY <1>3, <2>2 DEF SameFlight, SameTimer, Outstanding
  <2>4. TickSize \in Nat /\ waited \in Nat BY SenderSystemAssumption DEF TimerOK
  <2>5. \E x \in Nat : x > 0 /\ v \in Nat /\ (v < x \/ v = 0) /\ t \in Timed(v, x, k)
    <3>1. CASE /\ Outstanding(d)
               /\ t.segments_out = Append(d.segments_out, Head(d.segments_in_flight))
               /\ t.clock_is_counting /\ t.retrans_timeout \in {d.retrans_timeout, 2 * d.retrans_timeout}
               /\ Head(d.segments_in_flight) = d.segments_in_flight[1]
               /\ Len(d.segments_in_flight) > 0
      <4>1. t.segments_out # <<>>
        <5>1. d.segments_in_flight \in Seq(Segment(Byte)) /\ Len(d.segments_in_flight) \in Nat
              /\ d.segments_out \in Seq(Segment(Byte))
          BY <1>3, LenProperties DEF SenderType
        <5>2. 1 \in 1..Len(d.segments_in_flight) BY <3>1, <5>1
        <5>3. Head(d.segments_in_flight) \in Segment(Byte) BY <3>1, <5>1, <5>2, ElementOfSeq
        <5> HIDE DEF t, d
        <5> QED BY <3>1, <5>1, <5>3, AppendProperties
      <4>2. v = 0 BY <4>1
      <4>3. t.retrans_timeout \in Nat /\ t.retrans_timeout > 0 /\ t.clock \in Nat
        <5>1. t.retrans_timeout \in Nat /\ t.clock \in Nat BY <2>2 DEF SenderType
        <5>2. t.retrans_timeout = r \/ t.retrans_timeout = 2 * r BY <2>3, <3>1
        <5> HIDE DEF t, r
        <5> QED BY <1>1, <5>1, <5>2
      <4> HIDE DEF t, v
      <4>4. t \in Timed(0, t.retrans_timeout, k) BY <2>2, <2>3, <3>1, <4>3 DEF Timed
      <4> QED BY <4>2, <4>3, <4>4
    <3>2. CASE /\ ~(Outstanding(d) /\ d.clock + TickSize >= d.retrans_timeout)
               /\ t.segments_out = d.segments_out
               /\ t.clock_is_counting = (d.clock_is_counting /\ Outstanding(d))
               /\ t.clock = d.clock + TickSize
               /\ t.retrans_timeout = d.retrans_timeout
      <4>1. t.segments_out = <<>> BY <1>3, <3>2
      <4> HIDE DEF t
      <4>2. CASE Outstanding(sender)
        <5>1. v = waited + TickSize BY <4>1, <4>2
        <5>2. sender.clock_is_counting /\ waited <= sender.clock BY <4>2 DEF TimerOK
        <5>3. v \in Nat /\ v <= t.clock /\ v < r
          BY <1>1, <2>3, <2>4, <3>2, <4>2, <5>1, <5>2
        <5>4. t \in Timed(v, r, k)
          <6> HIDE DEF v
          <6> QED BY <2>2, <2>3, <3>2, <4>2, <5>2, <5>3 DEF Timed
        <5> QED BY <1>1, <5>3, <5>4
      <4>3. CASE ~Outstanding(sender)
        <5>1. v = 0 BY <4>3
        <5>2. t \in Timed(0, r, k) BY <2>2, <2>3, <3>2, <4>3 DEF Timed
        <5> QED BY <1>1, <5>1, <5>2
      <4> QED BY <4>2, <4>3
    <3> QED BY <2>2, <3>1, <3>2
  <2> HIDE DEF v, t
  <2>6. PICK x \in Nat : x > 0 /\ v \in Nat /\ (v < x \/ v = 0) /\ t \in Timed(v, x, k) BY <2>5
  <2>7. u \in Timed(v, x, k)
    <3>1. t.stream \in ByteStreamType(Byte) BY <2>2 DEF SenderType
    <3>2. set_error(t.stream) \in ByteStreamType(Byte) BY <3>1 DEF set_error, ByteStreamType
    <3> QED BY <2>2, <2>6, <3>2, StreamedEffect, TimedSame
  <2> HIDE DEF u
  <2>8. Sends(t) \in Timed(v, x, k) /\ Sends(u) \in Timed(v, x, k) BY <2>6, <2>7, TimedFill
  <2> QED BY <1>5, <2>1, <2>6, <2>8
<1>13. CASE UNCHANGED vars BY <1>13 DEF vars, TimerOK, Outstanding
<1> QED BY <1>8, <1>9, <1>10, <1>11, <1>12, <1>13 DEF Next

\* While a segment is in flight it is retransmitted when it has waited for the
\* timeout and not later, however the application, the acknowledgments and the
\* ticks interleave (tick, send_segment, ack_received).
THEOREM AlwaysRetransmitsInTime == Spec => []RetransmitsInTime
<1>1. Init => TimerOK
  <2>1. ASSUME Init PROVE waited = 0 /\ sender.segments_in_flight = <<>> /\ sender.retrans_timeout = RTO
    BY <2>1 DEF Init, NewTCPSender
  <2>2. RTO > 0 BY SenderAssumption
  <2> QED BY <2>1, <2>2 DEF TimerOK, Outstanding
<1>2. TimerOK => RetransmitsInTime BY DEF TimerOK, RetransmitsInTime
<1> QED BY <1>1, <1>2, TimerStep, NumberedAlways, PTL DEF Spec

-----------------------------------------------------------------------------
\* Where the queue of segments in flight begins, and where its k-th segment does.
QueueBegin(s) == s.next_seqno - s.bytes_in_flight
SegmentBegin(s, k) == QueueBegin(s) + SpaceOf(s.segments_in_flight, k - 1)

\* The segments in flight lie end to end from there to next_seqno, each of them
\* carries what the stream holds at its place, and the first one holds the
\* first number not acknowledged.
Tiles(s) ==
    LET q == s.segments_in_flight
    IN  /\ s.bytes_in_flight = SpaceOf(q, Len(q))
        /\ QueueBegin(s) >= 0
        /\ \A k \in 1..Len(q) : /\ Carries(q[k], SegmentBegin(s, k))
                                /\ length_in_sequence_space(q[k]) > 0
        /\ s.receive_ack <= s.next_seqno
        /\ q = <<>> => s.receive_ack = s.next_seqno
        /\ q # <<>> => /\ QueueBegin(s) <= s.receive_ack
                       /\ s.receive_ack < QueueBegin(s) + length_in_sequence_space(q[1])
        /\ ~s.syn => q = <<>> /\ s.segments_out = <<>>

\* What is read off the tiles: types, and where they begin and end.
LEMMA TilesFacts ==
  ASSUME NEW s \in SenderType, Tiles(s)
  PROVE  LET q == s.segments_in_flight
         IN  /\ q \in Seq(Segment(Byte)) /\ Len(q) \in Nat
             /\ s.next_seqno \in Nat /\ s.receive_ack \in Nat
             /\ s.bytes_in_flight \in Nat /\ QueueBegin(s) \in Nat
             /\ QueueBegin(s) + s.bytes_in_flight = s.next_seqno
             /\ \A k \in 1..Len(q) :
                   /\ q[k] \in Segment(Byte) /\ length_in_sequence_space(q[k]) \in Nat
                   /\ SpaceOf(q, k - 1) \in Nat /\ SpaceOf(q, k) \in Nat
                   /\ SegmentBegin(s, k) \in Nat /\ SegmentBegin(s, k) >= QueueBegin(s)
                   /\ SegmentBegin(s, k) + length_in_sequence_space(q[k])
                        = QueueBegin(s) + SpaceOf(q, k)
                   /\ SegmentBegin(s, k) + length_in_sequence_space(q[k]) <= s.next_seqno
<1> DEFINE q == s.segments_in_flight
           b == QueueBegin(s)
<1>1. /\ q \in Seq(Segment(Byte)) /\ Len(q) \in Nat /\ s.next_seqno \in Nat
      /\ s.receive_ack \in Nat /\ s.bytes_in_flight \in Int
  BY LenProperties DEF SenderType
<1>2. s.bytes_in_flight = SpaceOf(q, Len(q)) /\ b >= 0 BY DEF Tiles
<1>3. b = s.next_seqno - s.bytes_in_flight BY DEF QueueBegin
<1>4. s.bytes_in_flight \in Nat
  <2>1. Len(q) \in 0..Len(q) BY <1>1
  <2> QED BY <1>1, <1>2, <2>1, SpaceFacts
<1>5. ASSUME NEW k \in 1..Len(q)
      PROVE  /\ q[k] \in Segment(Byte) /\ length_in_sequence_space(q[k]) \in Nat
             /\ SpaceOf(q, k - 1) \in Nat /\ SpaceOf(q, k) \in Nat
             /\ SpaceOf(q, k) <= SpaceOf(q, Len(q))
             /\ SpaceOf(q, k) = SpaceOf(q, k - 1) + length_in_sequence_space(q[k])
             /\ SegmentBegin(s, k) = b + SpaceOf(q, k - 1)
  <2>1. q[k] \in Segment(Byte) /\ length_in_sequence_space(q[k]) \in Nat
    BY <1>1, ElementOfSeq, LengthType
  <2>2. k \in 0..Len(q) /\ k - 1 \in 0..Len(q) BY <1>1
  <2>3. /\ SpaceOf(q, k - 1) \in Nat /\ SpaceOf(q, k) \in Nat
        /\ SpaceOf(q, k) = SpaceOf(q, k - 1) + length_in_sequence_space(q[k])
    BY <1>1, <2>2, SpaceFacts
  <2>4. SpaceOf(q, k) <= SpaceOf(q, Len(q))
    <3> DEFINE r == SubSeq(q, k + 1, Len(q))
               m == Len(q) - k
    <3>1. /\ r \in Seq(Segment(Byte)) /\ Len(r) = m
          /\ \A j \in 0..m : SpaceOf(r, j) = SpaceOf(q, k + j) - SpaceOf(q, k)
      BY <1>1, <2>2, SuffixFacts
    <3> HIDE DEF r
    <3>2. m \in 0..m /\ k + m = Len(q) BY <1>1, <2>2
    <3>3. SpaceOf(r, m) = SpaceOf(q, Len(q)) - SpaceOf(q, k) BY <3>1, <3>2
    <3>4. SpaceOf(r, m) \in Nat BY <3>1, <3>2, SpaceFacts
    <3>5. SpaceOf(q, Len(q)) \in Nat BY <1>2, <1>4
    <3> HIDE DEF m, q
    <3> QED BY <2>3, <3>3, <3>4, <3>5
  <2>5. SegmentBegin(s, k) = b + SpaceOf(q, k - 1) BY DEF SegmentBegin
  <2> QED BY <2>1, <2>3, <2>4, <2>5
<1>6. b \in Nat /\ b + s.bytes_in_flight = s.next_seqno BY <1>1, <1>2, <1>3, <1>4
<1> HIDE DEF b
<1>7. ASSUME NEW k \in 1..Len(q)
      PROVE  /\ SegmentBegin(s, k) \in Nat /\ SegmentBegin(s, k) >= b
             /\ SegmentBegin(s, k) + length_in_sequence_space(q[k]) = b + SpaceOf(q, k)
             /\ SegmentBegin(s, k) + length_in_sequence_space(q[k]) <= s.next_seqno
  <2> DEFINE x == SpaceOf(q, k - 1)
             y == SpaceOf(q, k)
             z == SpaceOf(q, Len(q))
             l == length_in_sequence_space(q[k])
  <2>1. x \in Nat /\ y \in Nat /\ l \in Nat /\ y <= z /\ y = x + l /\ SegmentBegin(s, k) = b + x
    BY <1>5
  <2>2. b + z = s.next_seqno /\ z \in Nat BY <1>2, <1>4, <1>6
  <2> HIDE DEF x, y, z, l, q
  <2>3. b + x + l = b + y /\ b + y <= s.next_seqno /\ b + x \in Nat /\ b + x >= b
    BY <1>6, <2>1, <2>2
  <2> QED BY <2>1, <2>3 DEF x, y, l
<1> QED BY <1>1, <1>4, <1>5, <1>6, <1>7 DEF b

\* What does not touch the numbers or the queue leaves the tiles alone.
LEMMA TilesSame ==
  ASSUME NEW s \in SenderType, NEW t \in SenderType, t.next_seqno = s.next_seqno,
         t.syn = s.syn, SameFlight(s, t), t.syn \/ t.segments_out = <<>>, Tiles(s)
  PROVE  Tiles(t) /\ QueueBegin(t) = QueueBegin(s)
<1>1. QueueBegin(t) = QueueBegin(s) /\ \A k : SegmentBegin(t, k) = SegmentBegin(s, k)
  BY DEF QueueBegin, SegmentBegin, SameFlight
<1> QED BY <1>1 DEF Tiles, SameFlight

\* A new segment adds a tile at next_seqno.
LEMMA TilesAppend ==
  ASSUME NEW s \in SenderType, Tiles(s), NEW t \in SenderType, t.syn,
         NEW seg \in Segment(Byte), Carries(seg, s.next_seqno),
         length_in_sequence_space(seg) > 0,
         t.next_seqno = s.next_seqno + length_in_sequence_space(seg),
         t.bytes_in_flight = s.bytes_in_flight + length_in_sequence_space(seg),
         t.segments_in_flight = Append(s.segments_in_flight, seg),
         t.receive_ack = s.receive_ack
  PROVE  Tiles(t) /\ QueueBegin(t) = QueueBegin(s)
<1> DEFINE q == s.segments_in_flight
           r == t.segments_in_flight
           m == Len(q)
           l == length_in_sequence_space(seg)
           b == QueueBegin(s)
<1>1. /\ q \in Seq(Segment(Byte)) /\ m \in Nat /\ s.next_seqno \in Nat /\ s.receive_ack \in Nat
      /\ s.bytes_in_flight \in Nat /\ b \in Nat /\ b + s.bytes_in_flight = s.next_seqno
  BY TilesFacts
<1>2. l \in Nat /\ l > 0 BY LengthType
<1>3. /\ r \in Seq(Segment(Byte)) /\ r # <<>> /\ Len(r) = m + 1
      /\ \A k \in 1..m : r[k] = q[k]
      /\ r[m + 1] = seg
      /\ \A k \in 0..m : SpaceOf(r, k) = SpaceOf(q, k)
      /\ SpaceOf(r, m + 1) = SpaceOf(q, m) + l
  BY <1>1, AppendFacts, SMTT(30)
<1>4. s.bytes_in_flight = SpaceOf(q, m) BY DEF Tiles
<1>5. t.bytes_in_flight = SpaceOf(r, Len(r)) BY <1>3, <1>4
<1>6. QueueBegin(t) = b
  <2>1. t.next_seqno = s.next_seqno + l /\ t.bytes_in_flight = s.bytes_in_flight + l OBVIOUS
  <2>2. b = s.next_seqno - s.bytes_in_flight BY DEF QueueBegin
  <2> HIDE DEF l, b
  <2> QED BY <1>1, <1>2, <2>1, <2>2 DEF QueueBegin
<1>7. ASSUME NEW k \in 1..Len(r)
      PROVE  Carries(r[k], SegmentBegin(t, k)) /\ length_in_sequence_space(r[k]) > 0
  <2>1. k - 1 \in 0..m BY <1>1, <1>3
  <2>2. SegmentBegin(t, k) = b + SpaceOf(q, k - 1)
    BY <1>3, <1>6, <2>1 DEF SegmentBegin
  <2>3. CASE k = m + 1
    <3>1. k - 1 = m BY <1>1, <2>3
    <3>2. SegmentBegin(t, k) = s.next_seqno BY <1>1, <1>4, <2>2, <3>1
    <3> QED BY <1>2, <1>3, <2>3, <3>2
  <2>4. CASE k # m + 1
    <3>1. k \in 1..m BY <1>1, <1>3, <2>4
    <3>2. SegmentBegin(t, k) = SegmentBegin(s, k) BY <2>2 DEF SegmentBegin
    <3> QED BY <1>3, <3>1, <3>2 DEF Tiles
  <2> QED BY <2>3, <2>4
<1>8. b <= t.receive_ack /\ t.receive_ack < b + length_in_sequence_space(r[1])
  <2>1. CASE q = <<>>
    <3>1. m = 0 /\ s.receive_ack = s.next_seqno BY <2>1, EmptySeq DEF Tiles
    <3>2. s.bytes_in_flight = 0 BY <1>1, <1>4, <3>1, SpaceFacts
    <3>3. r[1] = seg /\ b = s.receive_ack BY <1>1, <1>3, <3>1, <3>2
    <3> QED BY <1>1, <1>2, <3>3
  <2>2. CASE q # <<>>
    <3>1. 1 \in 1..m BY <1>1, <2>2, EmptySeq
    <3> QED BY <1>3, <2>2, <3>1 DEF Tiles
  <2> QED BY <2>1, <2>2
<1>9. t.receive_ack <= t.next_seqno
  <2>1. s.receive_ack <= s.next_seqno BY DEF Tiles
  <2> HIDE DEF l
  <2> QED BY <1>1, <1>2, <2>1 DEF l
<1> QED BY <1>1, <1>3, <1>5, <1>6, <1>7, <1>8, <1>9 DEF Tiles

\* Few enough numbers are in flight for unwrap to tell them apart: no more than
\* half the sequence space.
FewInFlight == sender.bytes_in_flight <= HALF

\* next_seqno counts the bytes of the stream, the SYN and the FIN.
LEMMA NextBounded ==
  ASSUME NEW s \in NumberedSender
  PROVE  s.next_seqno \in Nat /\ StreamLen \in Nat /\ s.next_seqno <= StreamLen + 2
<1>1. s \in SenderType /\ Numbers(s) BY DEF NumberedSender
<1>2. /\ s.stream.readden \in Nat /\ Len(s.stream.buffer) \in Nat /\ StreamLen \in Nat
      /\ s.next_seqno \in Nat
  BY <1>1, StreamTypes DEF SenderType
<1>3. s.stream.readden <= StreamLen BY <1>1, <1>2 DEF Numbers
<1>4. s.next_seqno = Bit(s.syn) + s.stream.readden + Bit(s.fin) BY <1>1 DEF Numbers
<1>5. Bit(s.syn) \in {0, 1} /\ Bit(s.fin) \in {0, 1} BY DEF Bit
<1> QED BY <1>2, <1>3, <1>4, <1>5

\* unwrap recovers a number of the sender within half the sequence space of the
\* number it is unwrapped against.
LEMMA Recovers ==
  ASSUME NEW x \in Nat, NEW c \in Nat, x <= StreamLen + 2, c <= StreamLen + 2,
         x - c < HALF, c - x <= HALF
  PROVE  unwrap(wrap(x, Isn), Isn, c) = x
<1>1. /\ M32 \in Nat \ {0} /\ M64 \in Nat /\ Isn \in U32 /\ MaxWindow \in Nat
      /\ StreamLen \in Nat /\ StreamLen + 2 + M32 + MaxWindow <= M64
  BY M32Type, WidthAssumption, SenderSystemAssumption, StreamAssumption, LenProperties DEF StreamLen
<1>2. c + M32 <= M64 /\ c < M64 /\ x < M64 BY <1>1
<1>3. x \in U64 /\ c \in U64 BY <1>1, <1>2 DEF U64
<1> QED BY <1>1, <1>2, <1>3, UnwrapNearest

\* ack_received recovers the absolute number at which a segment in flight ends.
LEMMA AckedMeans ==
  ASSUME NEW s \in NumberedSender, Tiles(s), s.bytes_in_flight <= HALF,
         NEW k \in 1..Len(s.segments_in_flight), NEW a \in Nat
  PROVE  LET q == s.segments_in_flight
         IN  Acked(s, q[k], a) <=> QueueBegin(s) + SpaceOf(q, k) <= a
<1> DEFINE q == s.segments_in_flight
           x == SegmentBegin(s, k)
           c == s.next_seqno
           b == QueueBegin(s)
           l == length_in_sequence_space(q[k])
<1>1. s \in SenderType /\ s.isn = Isn /\ Numbers(s) BY DEF NumberedSender
<1>2. /\ c \in Nat /\ x \in Nat /\ l \in Nat /\ x + l <= c /\ b \in Nat /\ x >= b
      /\ x + l = b + SpaceOf(q, k) /\ b + s.bytes_in_flight = c /\ s.bytes_in_flight \in Nat
  BY <1>1, TilesFacts
<1>3. q[k].seqno = wrap(x, Isn) BY DEF Tiles, Carries
<1>4. c <= StreamLen + 2 /\ StreamLen \in Nat BY NextBounded
<1>5. unwrap(q[k].seqno, s.isn, c) = x
  <2>1. x <= StreamLen + 2 /\ x - c < HALF /\ c - x <= HALF
    <3>1. s.bytes_in_flight <= HALF OBVIOUS
    <3>2. HALF \in Nat /\ HALF > 0 BY M32Type, WidthAssumption
    <3> HIDE DEF x, c, b, l
    <3> QED BY <1>2, <1>4, <3>1, <3>2
  <2> HIDE DEF x, c
  <2>2. unwrap(wrap(x, Isn), Isn, c) = x BY <1>2, <1>4, <2>1, Recovers
  <2> QED BY <1>1, <1>3, <2>2
<1>6. Acked(s, q[k], a) <=> x + l <= a BY <1>5 DEF Acked
<1> QED BY <1>2, <1>6

\* Dropping what is acknowledged as a whole keeps the tiles.
LEMMA TilesPop ==
  ASSUME NEW s \in NumberedSender, s.syn, Tiles(s), s.bytes_in_flight <= HALF,
         NEW a \in Nat, NEW w, s.receive_ack < a, a <= s.next_seqno,
         NEW t, NEW g \in 0..Len(s.segments_in_flight), Popped(s, t, a, w, g)
  PROVE  Tiles(t) /\ QueueBegin(t) >= QueueBegin(s)
<1> DEFINE q == s.segments_in_flight
           r == t.segments_in_flight
           m == Len(q)
           b == QueueBegin(s)
           e == SpaceOf(q, g)
<1>1. /\ q \in Seq(Segment(Byte)) /\ m \in Nat /\ s.next_seqno \in Nat /\ s.receive_ack \in Nat
      /\ s.bytes_in_flight \in Nat /\ b \in Nat /\ b + s.bytes_in_flight = s.next_seqno
  BY TilesFacts DEF NumberedSender
<1>2. /\ t \in SenderType /\ t.next_seqno = s.next_seqno /\ t.syn /\ t.receive_ack = a
      /\ r = SubSeq(q, g + 1, m)
      /\ t.bytes_in_flight = s.bytes_in_flight - e
      /\ \A k \in 1..g : Acked(s, q[k], a)
      /\ g < m => ~Acked(s, q[g + 1], a)
  BY DEF Popped, SameStream
<1>3. /\ r \in Seq(Segment(Byte)) /\ Len(r) = m - g
      /\ \A k \in 1..(m - g) : r[k] = q[g + k]
      /\ \A k \in 0..(m - g) : SpaceOf(r, k) = SpaceOf(q, g + k) - e
  <2>1. g \in 0..Len(q) OBVIOUS
  <2> HIDE DEF r, q
  <2>2. SubSeq(q, g + 1, m) = r BY <1>2 DEF q, r
  <2>3. LET z == SubSeq(q, g + 1, Len(q))
        IN  /\ z \in Seq(Segment(Byte)) /\ Len(z) = Len(q) - g
            /\ \A k \in 1..(Len(q) - g) : z[k] = q[g + k]
            /\ \A k \in 0..(Len(q) - g) : SpaceOf(z, k) = SpaceOf(q, g + k) - SpaceOf(q, g)
    BY <1>1, <2>1, SuffixFacts
  <2> QED BY <2>2, <2>3
<1>4. e \in Nat /\ g \in Nat /\ g <= m BY <1>1, SpaceFacts
<1>5. QueueBegin(t) = b + e
  <2>1. b = s.next_seqno - s.bytes_in_flight BY DEF QueueBegin
  <2> HIDE DEF e, b
  <2> QED BY <1>1, <1>2, <1>4, <2>1 DEF QueueBegin
<1>6. ASSUME NEW k \in 1..m
      PROVE  /\ Acked(s, q[k], a) <=> b + SpaceOf(q, k) <= a
             /\ SpaceOf(q, k) \in Nat
             /\ SegmentBegin(s, k) + length_in_sequence_space(q[k]) = b + SpaceOf(q, k)
             /\ SegmentBegin(s, k) = b + SpaceOf(q, k - 1)
             /\ length_in_sequence_space(q[k]) \in Nat
  BY AckedMeans, TilesFacts DEF NumberedSender, SegmentBegin
<1> HIDE DEF b, e
<1>7. t.bytes_in_flight = SpaceOf(r, Len(r))
  <2>1. m - g \in 0..(m - g) /\ g + (m - g) = m BY <1>1, <1>4
  <2>2. SpaceOf(r, m - g) = SpaceOf(q, m) - e BY <1>3, <2>1
  <2>3. s.bytes_in_flight = SpaceOf(q, m) BY DEF Tiles
  <2> QED BY <1>2, <1>3, <2>2, <2>3
<1>8. ASSUME NEW k \in 1..Len(r)
      PROVE  Carries(r[k], SegmentBegin(t, k)) /\ length_in_sequence_space(r[k]) > 0
  <2>1. k \in 1..(m - g) /\ k - 1 \in 0..(m - g) /\ g + k \in 1..m /\ g + (k - 1) = (g + k) - 1
    <3>1. k \in 1..(m - g) /\ m \in Nat /\ g \in Nat BY <1>1, <1>3, <1>4
    <3> HIDE DEF m, q, r
    <3> QED BY <3>1
  <2>2. SpaceOf(r, k - 1) = SpaceOf(q, (g + k) - 1) - e BY <1>3, <2>1
  <2>3. SpaceOf(q, (g + k) - 1) \in Nat
    <3>1. (g + k) - 1 \in 0..m BY <1>1, <2>1
    <3> QED BY <1>1, <3>1, SpaceFacts
  <2>4. SegmentBegin(t, k) = (b + e) + SpaceOf(r, k - 1) BY <1>5 DEF SegmentBegin
  <2>5. SegmentBegin(s, g + k) = b + SpaceOf(q, (g + k) - 1) BY <1>6, <2>1
  <2> DEFINE z == SpaceOf(q, (g + k) - 1)
  <2>6. (b + e) + (z - e) = b + z
    <3> HIDE DEF z
    <3> QED BY <1>1, <1>4, <2>3 DEF z
  <2>7. SegmentBegin(t, k) = SegmentBegin(s, g + k) BY <2>2, <2>4, <2>5, <2>6
  <2>8. r[k] = q[g + k] BY <1>3, <2>1
  <2> QED BY <2>1, <2>7, <2>8 DEF Tiles
<1>9. /\ QueueBegin(t) >= 0 /\ QueueBegin(t) >= b /\ t.receive_ack <= t.next_seqno
  BY <1>1, <1>2, <1>4, <1>5
<1>10. CASE g = m
  <2>1. r = <<>> BY <1>1, <1>3, <1>10, EmptySeq
  <2>2. q # <<>>
    <3>1. q = <<>> => s.receive_ack = s.next_seqno BY DEF Tiles
    <3> QED BY <1>1, <3>1
  <2>3. m \in 1..m BY <1>1, <2>2, EmptySeq
  <2>4. b + SpaceOf(q, m) <= a BY <1>2, <1>6, <1>10, <2>3
  <2>5. b + SpaceOf(q, m) = s.next_seqno BY <1>1 DEF Tiles
  <2>6. a = s.next_seqno BY <1>1, <2>4, <2>5
  <2>7. t.receive_ack = t.next_seqno BY <1>2, <2>6
  <2>8. Tiles(t) BY <1>2, <1>9, <1>7, <1>8, <2>1, <2>7 DEF Tiles
  <2> QED BY <1>9, <2>8 DEF b
<1>11. CASE g < m
  <2>1. Len(r) > 0 /\ 1 \in 1..(m - g) /\ g + 1 \in 1..m BY <1>1, <1>3, <1>4, <1>11
  <2>2. r # <<>> /\ r[1] = q[g + 1]
    <3>1. r = <<>> => Len(r) = 0 BY EmptySeq
    <3> QED BY <1>3, <2>1, <3>1
  <2>3. b + e <= a
    <3>1. CASE g = 0
      <4>1. e = 0 BY <1>1, <3>1, SpaceFacts DEF e
      <4>2. q # <<>> BY <1>11, <3>1, EmptySeq
      <4>3. b <= s.receive_ack BY <4>2 DEF Tiles, b
      <4> QED BY <1>1, <4>1, <4>3
    <3>2. CASE g # 0
      <4>1. g \in 1..m /\ g \in 1..g BY <1>4, <3>2
      <4> QED BY <1>2, <1>6, <4>1 DEF e
    <3> QED BY <3>1, <3>2
  <2>4. a < (b + e) + length_in_sequence_space(r[1])
    <3>1. ~(b + SpaceOf(q, g + 1) <= a) BY <1>2, <1>6, <1>11, <2>1
    <3>2. SegmentBegin(s, g + 1) = b + e /\ (g + 1) - 1 = g
      <4>1. (g + 1) - 1 = g BY <1>4
      <4> QED BY <1>6, <2>1, <4>1 DEF e
    <3>3. (b + e) + length_in_sequence_space(r[1]) = b + SpaceOf(q, g + 1)
      BY <1>6, <2>1, <2>2, <3>2
    <3>4. SpaceOf(q, g + 1) \in Nat BY <1>6, <2>1
    <3> QED BY <1>1, <3>1, <3>3, <3>4
  <2>5. /\ QueueBegin(t) <= t.receive_ack
        /\ t.receive_ack < QueueBegin(t) + length_in_sequence_space(r[1])
    BY <1>2, <1>5, <2>3, <2>4
  <2>6. Tiles(t) BY <1>2, <1>9, <1>7, <1>8, <2>2, <2>5 DEF Tiles
  <2> QED BY <1>9, <2>6 DEF b
<1> QED BY <1>1, <1>4, <1>10, <1>11

-----------------------------------------------------------------------------
\* A segment that fill_window cuts carries what the stream holds at next_seqno.
LEMMA CarriesNext ==
  ASSUME NEW s \in Connected, NEW t, NEW win,
         NEW n \in 0..Len(s.stream.buffer), NEW f \in BOOLEAN, Cuts(s, t, n, f, win)
  PROVE  LET seg == NextSegment(s, n, f)
         IN  /\ seg \in Segment(Byte) /\ seg.seqno = wrap(s.next_seqno, Isn)
             /\ length_in_sequence_space(seg) = n + Bit(f) /\ n + Bit(f) > 0
             /\ Carries(seg, s.next_seqno)
<1> DEFINE b == s.stream
           l == Len(b.buffer)
           seg == NextSegment(s, n, f)
           x == s.next_seqno
<1>1. s \in SenderType /\ s.isn = Isn /\ Numbers(s) /\ s.syn BY DEF Connected, NumberedSender
<1>2. /\ b.buffer \in Seq(Byte) /\ l \in Nat /\ b.readden \in Nat /\ StreamLen \in Nat
  BY <1>1, StreamTypes DEF SenderType
<1>3. /\ b.buffer = Substring(b.readden, l) /\ b.readden + l = b.written
      /\ b.written <= StreamLen /\ (b.input_end => b.written = StreamLen)
      /\ x = Bit(s.syn) + b.readden + Bit(s.fin)
  BY <1>1 DEF Numbers
<1>4. /\ ~s.fin /\ (f => n = l /\ b.input_end) /\ n + Bit(f) > 0 /\ seg \in Segment(Byte)
  BY DEF Cuts
<1>5. /\ seg.seqno = wrap(x, Isn) /\ ~seg.syn /\ seg.fin = f
      /\ seg.payload = SubSeq(b.buffer, 1, n)
  BY <1>1 DEF NextSegment
<1>6. n \in 0..l OBVIOUS
<1> HIDE DEF b, l, x, seg
<1>7. x = 1 + b.readden
  <2>1. Bit(s.syn) = 1 /\ Bit(s.fin) = 0 BY <1>1, <1>4 DEF Bit
  <2> QED BY <1>2, <1>3, <2>1
<1>8. b.readden + l <= StreamLen BY <1>2, <1>3
<1>9. SubSeq(b.buffer, 1, n) = Substring(b.readden, n) /\ Len(Substring(b.readden, n)) = n
  <2>1. SubSeq(Substring(b.readden, l), 1, n) = Substring(b.readden, n)
        /\ Len(Substring(b.readden, n)) = n
    BY <1>2, <1>6, <1>8, PieceTaken
  <2> QED BY <1>3, <2>1
<1>10. x # 0 /\ x - 1 = b.readden BY <1>2, <1>7
<1>11. f => b.readden + n = StreamLen BY <1>2, <1>3, <1>4
<1>12. Carries(seg, x) BY <1>5, <1>9, <1>10, <1>11 DEF Carries
<1>13. length_in_sequence_space(seg) = n + Bit(f)
  <2>1. length_in_sequence_space(seg) = n + 0 + Bit(f)
    BY <1>5, <1>9 DEF length_in_sequence_space, Bit
  <2>2. n \in Nat /\ Bit(f) \in {0, 1} BY <1>2, <1>6, BitType
  <2> QED BY <2>1, <2>2
<1> QED BY <1>4, <1>5, <1>12, <1>13 DEF seg, x

\* The segments queued for the peer lie at or beyond the absolute number lo,
\* and none of them ends at or before the number ack.
SentBeyond(s, lo, ack) ==
    \A k \in 1..Len(s.segments_out) :
        LET seg == s.segments_out[k]
            len == length_in_sequence_space(seg)
        IN  len > 0 => \E y \in Nat : /\ seg.seqno = wrap(y, Isn)
                                      /\ lo <= y /\ ack < y + len
                                      /\ y + len <= s.next_seqno

LEMMA SentSame ==
  ASSUME NEW s \in SenderType, NEW t \in SenderType, t.segments_out = s.segments_out,
         t.next_seqno = s.next_seqno, NEW lo, NEW ack, SentBeyond(s, lo, ack)
  PROVE  SentBeyond(t, lo, ack)
  BY DEF SentBeyond

LEMMA SentAppend ==
  ASSUME NEW s \in SenderType, NEW t \in SenderType, NEW lo, NEW ack,
         NEW seg \in Segment(Byte), t.segments_out = Append(s.segments_out, seg),
         s.next_seqno <= t.next_seqno, SentBeyond(s, lo, ack),
         length_in_sequence_space(seg) > 0 =>
             \E y \in Nat : /\ seg.seqno = wrap(y, Isn)
                            /\ lo <= y /\ ack < y + length_in_sequence_space(seg)
                            /\ y + length_in_sequence_space(seg) <= t.next_seqno
  PROVE  SentBeyond(t, lo, ack)
<1> DEFINE q == s.segments_out
           r == t.segments_out
<1>1. /\ q \in Seq(Segment(Byte)) /\ Len(q) \in Nat /\ s.next_seqno \in Nat /\ t.next_seqno \in Nat
  BY LenProperties DEF SenderType
<1>2. Len(r) = Len(q) + 1 /\ (\A k \in 1..Len(q) : r[k] = q[k]) /\ r[Len(q) + 1] = seg
  BY <1>1, AppendFacts
<1> SUFFICES ASSUME NEW k \in 1..Len(r), length_in_sequence_space(r[k]) > 0
             PROVE  \E y \in Nat : /\ r[k].seqno = wrap(y, Isn)
                                   /\ lo <= y /\ ack < y + length_in_sequence_space(r[k])
                                   /\ y + length_in_sequence_space(r[k]) <= t.next_seqno
  BY DEF SentBeyond
<1>3. CASE k = Len(q) + 1 BY <1>2, <1>3
<1>4. CASE k # Len(q) + 1
  <2>1. k \in 1..Len(q) BY <1>1, <1>2, <1>4
  <2>2. r[k] = q[k] BY <1>2, <2>1
  <2>3. PICK y \in Nat : /\ r[k].seqno = wrap(y, Isn)
                         /\ lo <= y /\ ack < y + length_in_sequence_space(r[k])
                         /\ y + length_in_sequence_space(r[k]) <= s.next_seqno
    BY <2>1, <2>2 DEF SentBeyond
  <2>4. length_in_sequence_space(r[k]) \in Nat
    <3>1. q[k] \in Segment(Byte) BY <1>1, <2>1, ElementOfSeq
    <3> QED BY <2>2, <3>1, LengthType
  <2>5. y + length_in_sequence_space(r[k]) <= t.next_seqno BY <1>1, <2>3, <2>4
  <2> QED BY <2>3, <2>5
<1> QED BY <1>3, <1>4

\* What a call may turn the sender s into: the tiles stay, nothing is taken
\* back, and what the call sends is not acknowledged before it.
Follows(s, t) ==
    /\ Tiles(t)
    /\ QueueBegin(s) <= QueueBegin(t) /\ QueueBegin(t) <= s.next_seqno
    /\ s.next_seqno <= t.next_seqno
    /\ s.receive_ack <= t.receive_ack
    /\ SentBeyond(t, QueueBegin(s), s.receive_ack)

Following(s) == { x \in Connected : Follows(s, x) }

LEMMA FollowsSame ==
  ASSUME NEW s, NEW x \in SenderType, NEW t \in SenderType, t.next_seqno = x.next_seqno,
         t.syn = x.syn, SameFlight(x, t), t.segments_out = x.segments_out, Follows(s, x)
  PROVE  Follows(s, t)
<1>1. Tiles(x) /\ (~x.syn => x.segments_out = <<>>) BY DEF Follows, Tiles
<1>2. t.syn \/ t.segments_out = <<>> BY <1>1
<1>3. Tiles(t) /\ QueueBegin(t) = QueueBegin(x) BY <1>1, <1>2, TilesSame
<1>4. SentBeyond(t, QueueBegin(s), s.receive_ack) BY SentSame DEF Follows
<1> QED BY <1>3, <1>4 DEF Follows, SameFlight

\* No method of a connected sender leaves what may follow s.
LEMMA FollowingClosed ==
  ASSUME NEW s \in SenderType, Tiles(s)
  PROVE  Closed(Following(s))
<1> DEFINE A == Following(s)
           lo == QueueBegin(s)
           ack == s.receive_ack
<1>1. lo \in Nat /\ ack \in Nat /\ s.next_seqno \in Nat BY TilesFacts
<1>2. ASSUME NEW x \in A PROVE x \in Connected /\ x \in SenderType /\ x.syn /\ Follows(s, x)
  BY DEF Following, Connected, NumberedSender
<1>3. ASSUME NEW x \in A, NEW t \in Connected, SameStream(x, t), SameFlight(x, t),
             t.segments_out = x.segments_out
      PROVE  t \in A
  <2>1. t \in SenderType /\ t.next_seqno = x.next_seqno /\ t.syn = x.syn
    BY <1>3 DEF Connected, NumberedSender, SameStream
  <2>2. Follows(s, t) BY <1>2, <1>3, <2>1, FollowsSame
  <2> QED BY <2>2 DEF Following
<1>4. ASSUME NEW x \in A, NEW t \in Connected, NEW seg \in Segment(Byte),
             t.segments_out = Append(x.segments_out, seg), Tiles(t),
             QueueBegin(t) = QueueBegin(x), t.receive_ack = x.receive_ack,
             t.next_seqno = x.next_seqno + length_in_sequence_space(seg),
             seg.seqno = wrap(x.next_seqno, Isn)
      PROVE  t \in A
  <2> DEFINE len == length_in_sequence_space(seg)
             y == x.next_seqno
  <2>1. t \in SenderType BY DEF Connected, NumberedSender
  <2>2. len \in Nat /\ y \in Nat /\ t.next_seqno = y + len /\ x.receive_ack \in Nat
    BY <1>2, <1>4, LengthType DEF SenderType
  <2>3. /\ lo <= QueueBegin(x) /\ QueueBegin(x) <= s.next_seqno /\ s.next_seqno <= y
        /\ ack <= x.receive_ack /\ x.receive_ack <= y /\ QueueBegin(x) \in Nat
        /\ SentBeyond(x, lo, ack)
    BY <1>2, TilesFacts DEF Follows, Tiles
  <2> HIDE DEF lo, ack, len, y
  <2>4. lo <= y /\ (len > 0 => ack < y + len) /\ y + len <= t.next_seqno
        /\ y <= t.next_seqno /\ s.next_seqno <= t.next_seqno
    BY <1>1, <2>2, <2>3
  <2>5. SentBeyond(t, lo, ack)
    BY <1>2, <1>4, <2>1, <2>2, <2>3, <2>4, SentAppend DEF len, y
  <2> QED BY <1>4, <2>3, <2>4, <2>5 DEF Following, Follows, lo, ack
<1>5. ASSUME NEW x \in A
      PROVE  /\ FillStart(x) \in A /\ RestartTimer(x) \in A
             /\ \A w \in Nat : Synced(x, w) \in A
  <2>1. /\ FillStart(x) \in Connected /\ RestartTimer(x) \in Connected
        /\ \A w \in Nat : Synced(x, w) \in Connected
    BY <1>2, ConnectedClosed DEF Closed
  <2>2. FillStart(x) \in A BY <1>2, <1>3, <2>1, FillStartEffect
  <2>3. RestartTimer(x) \in A BY <1>2, <1>3, <2>1, RestartEffect
  <2>4. ASSUME NEW w \in Nat PROVE Synced(x, w) \in A BY <1>2, <1>3, <2>1, SyncedEffect
  <2> QED BY <2>2, <2>3, <2>4
<1>6. ASSUME NEW x \in A PROVE send_empty_segment(x) \in A
  <2> DEFINE t == send_empty_segment(x)
  <2>1. t \in Connected BY <1>2, ConnectedClosed DEF Closed
  <2>2. /\ t \in SenderType /\ t.segments_out = Append(x.segments_out, Blank(x))
        /\ Blank(x) \in Segment(Byte) /\ length_in_sequence_space(Blank(x)) = 0
        /\ SameStream(x, t) /\ SameFlight(x, t)
    BY <1>2, EmptyEffect
  <2> HIDE DEF t
  <2>3. t.next_seqno = x.next_seqno /\ t.syn = x.syn /\ t.receive_ack = x.receive_ack
    BY <2>2 DEF SameStream, SameFlight
  <2>4. t.syn BY <1>2, <2>3
  <2>5. Tiles(t) /\ QueueBegin(t) = QueueBegin(x)
    BY <1>2, <2>2, <2>3, <2>4, TilesSame DEF Follows
  <2>6. t.next_seqno = x.next_seqno + length_in_sequence_space(Blank(x))
    <3>1. x.next_seqno \in Nat
      <4>1. x \in SenderType BY <1>2
      <4> QED BY <4>1 DEF SenderType
    <3> QED BY <2>2, <2>3, <3>1
  <2>7. Blank(x).seqno = wrap(x.next_seqno, Isn)
    BY <1>2 DEF Blank, Connected, NumberedSender
  <2> QED BY <1>4, <2>1, <2>2, <2>3, <2>5, <2>6, <2>7 DEF t
<1>7. ASSUME NEW x \in A, NEW w \in Nat PROVE FillOnce(x, w) \in A
  <2>1. CASE FillOnce(x, w) = x BY <2>1
  <2>2. ASSUME NEW n \in 0..Len(x.stream.buffer), NEW f \in BOOLEAN,
               Cuts(x, FillOnce(x, w), n, f, w)
        PROVE  FillOnce(x, w) \in A
    <3> DEFINE t == FillOnce(x, w)
               seg == NextSegment(x, n, f)
    <3>1. t \in Connected BY <1>2, ConnectedClosed DEF Closed
    <3>2. Cuts(x, t, n, f, w) BY <2>2
    <3> HIDE DEF t, seg
    <3>3. /\ seg \in Segment(Byte) /\ seg.seqno = wrap(x.next_seqno, Isn)
          /\ length_in_sequence_space(seg) = n + Bit(f) /\ n + Bit(f) > 0
          /\ Carries(seg, x.next_seqno)
      BY <1>2, <3>2, CarriesNext DEF seg
    <3>4. /\ t \in SenderType /\ t.syn /\ t.receive_ack = x.receive_ack
          /\ t.next_seqno = x.next_seqno + n + Bit(f)
          /\ t.bytes_in_flight = x.bytes_in_flight + n + Bit(f)
          /\ t.segments_in_flight = Append(x.segments_in_flight, seg)
          /\ t.segments_out = Append(x.segments_out, seg)
      BY <1>2, <3>2 DEF Cuts, seg
    <3>5. /\ t.next_seqno = x.next_seqno + length_in_sequence_space(seg)
          /\ t.bytes_in_flight = x.bytes_in_flight + length_in_sequence_space(seg)
      <4>1. x.next_seqno \in Nat /\ x.bytes_in_flight \in Int
        <5>1. x \in SenderType BY <1>2
        <5> QED BY <5>1 DEF SenderType
      <4>2. n \in Int /\ Bit(f) \in Int BY BitType
      <4> HIDE DEF A
      <4> QED BY <3>3, <3>4, <4>1, <4>2
    <3>6. Tiles(x) BY <1>2 DEF Follows
    <3>7. Tiles(t) /\ QueueBegin(t) = QueueBegin(x)
      BY <1>2, <3>3, <3>4, <3>5, <3>6, TilesAppend
    <3> QED BY <1>4, <3>1, <3>3, <3>4, <3>5, <3>7 DEF t
  <2> QED BY <1>2, <2>1, <2>2, FillOnceEffect
<1>8. A \subseteq SenderType /\ \A x \in A : x.syn BY <1>2
<1> HIDE DEF A
<1> QED BY <1>5, <1>6, <1>7, <1>8 DEF Closed, A

\* Nor does the arrival of an acknowledgment of new data, while no more is in
\* flight than unwrap can tell apart.
LEMMA FollowingAdvance ==
  ASSUME NEW s \in SenderType, Tiles(s), NEW x \in Following(s),
         x.next_seqno = s.next_seqno, x.bytes_in_flight <= HALF,
         NEW a \in Nat, NEW w \in Nat, x.receive_ack < a, a <= x.next_seqno
  PROVE  Advance(x, a, w) \in Following(s)
<1> DEFINE t == Advance(x, a, w)
<1>1. /\ x \in Connected /\ x \in NumberedSender /\ x \in SenderType /\ x.syn
      /\ Tiles(x) /\ Follows(s, x)
  BY DEF Following, Follows, Connected, NumberedSender
<1>2. PICK g \in 0..Len(x.segments_in_flight) : Popped(x, t, a, w, g)
  BY <1>1, AdvanceEffect
<1>3. t \in Connected BY <1>1, ConnectedClosed
<1> HIDE DEF t
<1>4. Tiles(t) /\ QueueBegin(t) >= QueueBegin(x) BY <1>1, <1>2, TilesPop
<1>5. /\ t \in SenderType /\ t.segments_out = x.segments_out /\ t.next_seqno = x.next_seqno
      /\ t.receive_ack = a
  BY <1>2 DEF Popped, SameStream
<1>6. SentBeyond(t, QueueBegin(s), s.receive_ack) BY <1>1, <1>5, SentSame DEF Follows
<1>7. /\ QueueBegin(t) \in Nat /\ QueueBegin(x) \in Nat /\ QueueBegin(s) \in Nat
      /\ t.bytes_in_flight \in Nat /\ QueueBegin(t) + t.bytes_in_flight = t.next_seqno
      /\ x.receive_ack \in Nat /\ s.receive_ack \in Nat /\ s.next_seqno \in Nat
  BY <1>1, <1>4, <1>5, TilesFacts
<1>8. QueueBegin(s) <= QueueBegin(x) /\ s.receive_ack <= x.receive_ack
  BY <1>1 DEF Follows
<1>9. Follows(s, t) BY <1>4, <1>5, <1>6, <1>7, <1>8, SMTT(30) DEF Follows
<1> QED BY <1>3, <1>9 DEF Following, t

\* segment_sends after a call.
LEMMA SendsFollows ==
  ASSUME NEW s \in SenderType, Tiles(s), NEW t \in NumberedSender, Follows(s, t)
  PROVE  Follows(s, Sends(t))
<1>1. CASE t.syn
  <2>1. t \in Following(s) BY <1>1 DEF Following, Connected
  <2> QED BY <2>1, FollowingClosed, ClosedFill DEF Following
<1>2. CASE ~t.syn BY <1>2 DEF Sends
<1> QED BY <1>1, <1>2

\* The sender after its queue of segments was taken follows itself.
LEMMA FollowsDrained ==
  ASSUME NEW s \in SenderType, Tiles(s)
  PROVE  Follows(s, Drain(s))
<1> DEFINE d == Drain(s)
<1>1. d \in SenderType /\ d.segments_out = <<>> /\ SameStream(s, d) /\ SameFlight(s, d)
  BY DrainEffect
<1> HIDE DEF d
<1>2. Tiles(d) /\ QueueBegin(d) = QueueBegin(s) BY <1>1, TilesSame DEF SameStream
<1>3. SentBeyond(d, QueueBegin(s), s.receive_ack)
  <2>1. 1..Len(d.segments_out) = {} BY <1>1, EmptySeq
  <2> QED BY <2>1 DEF SentBeyond
<1>4. /\ QueueBegin(s) \in Nat /\ s.bytes_in_flight \in Nat /\ s.next_seqno \in Nat
      /\ s.receive_ack \in Nat /\ QueueBegin(s) + s.bytes_in_flight = s.next_seqno
  BY TilesFacts
<1>5. d.next_seqno = s.next_seqno /\ d.receive_ack = s.receive_ack
  BY <1>1 DEF SameStream, SameFlight
<1>6. QueueBegin(s) <= s.next_seqno BY <1>4
<1> QED BY <1>2, <1>3, <1>4, <1>5, <1>6 DEF Follows, d

\* The SYN is the first tile.
LEMMA FollowsSyn ==
  ASSUME NEW s \in NumberedSender, ~s.syn, Tiles(s)
  PROVE  Follows(s, fill_window(s))
<1> DEFINE t == fill_window(s)
           seg == [ seqno |-> wrap(s.next_seqno, s.isn), syn |-> TRUE,
                    fin |-> FALSE, payload |-> <<>> ]
<1>1. s \in SenderType /\ s.isn = Isn /\ Numbers(s) BY DEF NumberedSender
<1>2. /\ seg \in Segment(Byte) /\ length_in_sequence_space(seg) = 1 /\ Sent(s, t, seg, 1) /\ t.syn
  BY <1>1, SynEffect
<1>3. s.segments_in_flight = <<>> /\ s.segments_out = <<>> BY DEF Tiles
<1>4. s.next_seqno = 0 /\ s.bytes_in_flight = 0 /\ s.receive_ack = 0 /\ QueueBegin(s) = 0
  <2>1. s.stream.readden = 0 BY <1>1 DEF Numbers
  <2>2. s.next_seqno = 0 BY <1>1, <2>1 DEF Numbers, Bit
  <2>3. s.receive_ack = 0 BY <1>3, <2>2 DEF Tiles
  <2>4. s.bytes_in_flight = 0
    <3>1. s.bytes_in_flight = SpaceOf(<<>>, 0) BY <1>3, EmptySeq DEF Tiles
    <3>2. <<>> \in Seq(Segment(Byte)) BY EmptySeq
    <3> QED BY <3>1, <3>2, SpaceFacts
  <2> QED BY <2>2, <2>3, <2>4 DEF QueueBegin
<1>5. /\ seg.seqno = wrap(0, Isn) /\ seg.syn /\ ~seg.fin /\ seg.payload = <<>>
  BY <1>1, <1>4
<1> HIDE DEF t, seg
<1>6. Carries(seg, s.next_seqno)
  <2>1. Substring(0, 0) = <<>> BY SubSeqEmpty DEF Substring
  <2>2. Len(<<>>) = 0 BY EmptySeq
  <2> QED BY <1>4, <1>5, <2>1, <2>2 DEF Carries
<1>7. /\ t \in SenderType /\ t.next_seqno = 1 /\ t.bytes_in_flight = 1
      /\ t.segments_in_flight = Append(s.segments_in_flight, seg)
      /\ t.segments_out = Append(s.segments_out, seg) /\ t.receive_ack = s.receive_ack
  BY <1>2, <1>4 DEF Sent
<1>8. Tiles(t) /\ QueueBegin(t) = QueueBegin(s)
  <2>1. t.next_seqno = s.next_seqno + 1 /\ t.bytes_in_flight = s.bytes_in_flight + 1
    BY <1>4, <1>7
  <2> QED BY <1>1, <1>2, <1>6, <1>7, <2>1, TilesAppend
<1>9. SentBeyond(t, 0, 0)
  <2>1. SentBeyond(s, 0, 0)
    <3>1. 1..Len(s.segments_out) = {} BY <1>3, EmptySeq
    <3> QED BY <3>1 DEF SentBeyond
  <2>2. \E y \in Nat : seg.seqno = wrap(y, Isn) /\ 0 <= y /\ 0 < y + 1 /\ y + 1 <= t.next_seqno
    <3>1. 0 \in Nat /\ 0 <= 0 /\ 0 < 0 + 1 /\ 0 + 1 <= t.next_seqno BY <1>7
    <3> QED BY <1>5, <3>1
  <2>3. s.next_seqno <= t.next_seqno BY <1>4, <1>7
  <2> QED BY <1>1, <1>2, <1>7, <2>1, <2>2, <2>3, SentAppend
<1> QED BY <1>4, <1>7, <1>8, <1>9 DEF Follows, t

\* A tick retransmits the first tile or nothing.
LEMMA FollowsTick ==
  ASSUME NEW s \in NumberedSender, Tiles(s)
  PROVE  Follows(s, tick(Drain(s), TickSize))
<1> DEFINE d == Drain(s)
           t == tick(d, TickSize)
           q == d.segments_in_flight
<1>1. /\ s \in SenderType /\ d \in SenderType /\ d.segments_out = <<>>
      /\ SameStream(s, d) /\ SameFlight(s, d) /\ Follows(s, d)
  BY DrainEffect, FollowsDrained DEF NumberedSender
<1>2. /\ t \in SenderType /\ SameStream(d, t) /\ SameFlight(d, t)
      /\ \/ /\ Outstanding(d) /\ t.segments_out = Append(d.segments_out, Head(q))
            /\ Head(q) = q[1] /\ Len(q) > 0
         \/ t.segments_out = d.segments_out
  <2> HIDE DEF d
  <2> QED BY <1>1, TickEffect
<1> HIDE DEF d, t
<1>3. t.next_seqno = d.next_seqno /\ t.syn = d.syn /\ t.receive_ack = d.receive_ack
  BY <1>2 DEF SameStream, SameFlight
<1>4. CASE t.segments_out = d.segments_out BY <1>1, <1>2, <1>3, <1>4, FollowsSame DEF d, t
<1>5. CASE /\ Outstanding(d) /\ t.segments_out = Append(d.segments_out, Head(q))
           /\ Head(q) = q[1] /\ Len(q) > 0
  <2> DEFINE y == SegmentBegin(d, 1)
             len == length_in_sequence_space(q[1])
  <2>1. Tiles(d) BY <1>1 DEF Follows
  <2>2. Len(q) \in Nat /\ q \in Seq(Segment(Byte)) BY <1>1, <2>1, TilesFacts
  <2>3. 1 \in 1..Len(q) BY <1>5, <2>2
  <2>4. /\ q[1] \in Segment(Byte) /\ len \in Nat /\ y \in Nat /\ y >= QueueBegin(d)
        /\ y + len <= d.next_seqno
    BY <1>1, <2>1, <2>3, TilesFacts
  <2>5. q[1].seqno = wrap(y, Isn) BY <2>1, <2>3 DEF Tiles, Carries
  <2>6. y = QueueBegin(d)
    <3>1. 1 - 1 = 0 /\ SpaceOf(q, 0) = 0 BY <2>2, SpaceFacts
    <3>2. QueueBegin(d) \in Nat BY <1>1, <2>1, TilesFacts
    <3> QED BY <3>1, <3>2 DEF SegmentBegin
  <2>7. d.receive_ack < QueueBegin(d) + len BY <1>5, <2>1 DEF Tiles, Outstanding
  <2>8. t.syn
    <3>1. ~d.syn => q = <<>> BY <2>1 DEF Tiles
    <3> QED BY <1>3, <1>5, <3>1 DEF Outstanding
  <2>9. Tiles(t) /\ QueueBegin(t) = QueueBegin(d) BY <1>1, <1>2, <1>3, <2>1, <2>8, TilesSame
  <2>10. /\ QueueBegin(s) <= QueueBegin(d) /\ s.receive_ack <= d.receive_ack
         /\ QueueBegin(s) \in Nat /\ s.receive_ack \in Nat /\ d.receive_ack \in Nat
         /\ QueueBegin(d) \in Nat /\ d.next_seqno \in Nat
    BY <1>1, <2>1, TilesFacts DEF Follows
  <2>11. SentBeyond(t, QueueBegin(s), s.receive_ack)
    <3>1. SentBeyond(d, QueueBegin(s), s.receive_ack) BY <1>1 DEF Follows
    <3>2. QueueBegin(s) <= y /\ s.receive_ack < y + len /\ y + len <= t.next_seqno
      <4> HIDE DEF y, len
      <4> QED BY <1>3, <2>4, <2>6, <2>7, <2>10
    <3>3. d.next_seqno <= t.next_seqno BY <1>3, <2>10
    <3>4. t.segments_out = Append(d.segments_out, q[1]) BY <1>5
    <3> HIDE DEF y, q
    <3> QED BY <1>1, <1>2, <2>4, <2>5, <3>1, <3>2, <3>3, <3>4, SentAppend
  <2> QED BY <1>1, <1>3, <2>9, <2>11 DEF Follows, t, d
<1> QED BY <1>2, <1>4, <1>5

\* What each step does to the sender, while no more is in flight than unwrap
\* can tell apart.
LEMMA FollowsStep ==
  ASSUME Numbered, Tiles(sender), FewInFlight, Next
  PROVE  Follows(sender, sender')
<1> DEFINE d == Drain(sender)
<1>1. sender \in NumberedSender /\ sender \in SenderType BY DEF Numbered, NumberedSender
<1>2. /\ d \in NumberedSender /\ d \in SenderType /\ d.syn = sender.syn
      /\ d.stream = sender.stream /\ d.next_seqno = sender.next_seqno
      /\ d.bytes_in_flight = sender.bytes_in_flight
  BY <1>1, DrainEffect, SameNumbered DEF NumberedSender, SameStream, SameFlight
<1>3. Follows(sender, d) BY <1>1, FollowsDrained
<1>4. ASSUME NEW t \in NumberedSender, NEW b \in ByteStreamType(Byte), Follows(sender, t),
             Streamed(t, b) \in NumberedSender
      PROVE  Follows(sender, Sends(Streamed(t, b)))
  <2>1. /\ t \in SenderType /\ Streamed(t, b).next_seqno = t.next_seqno
        /\ Streamed(t, b).syn = t.syn /\ SameFlight(t, Streamed(t, b))
        /\ Streamed(t, b).segments_out = t.segments_out
    BY StreamedEffect DEF NumberedSender
  <2>2. Streamed(t, b) \in SenderType BY <1>4 DEF NumberedSender
  <2>3. Follows(sender, Streamed(t, b)) BY <1>4, <2>1, <2>2, FollowsSame
  <2> QED BY <1>1, <1>4, <2>3, SendsFollows
<1>5. CASE Connect BY <1>1, <1>5, FollowsSyn DEF Connect
<1>6. ASSUME NEW n \in 1..StreamLen, Write(n) PROVE Follows(sender, sender')
  <2> DEFINE b == write(d.stream, Capacity, Substring(sender.stream.written, n))
  <2>1. sender' = Sends(Streamed(d, b)) BY <1>2, <1>6 DEF Write, Drained, Drain, Streamed
  <2>2. /\ d.stream.written + n <= StreamLen /\ ~d.stream.input_end
        /\ n <= remaining_capacity(d.stream, Capacity) /\ n \in Nat
    BY <1>2, <1>6 DEF Write
  <2>3. Streamed(d, b) \in NumberedSender
    <3>1. Streamed(d, write(d.stream, Capacity, Substring(d.stream.written, n))) \in NumberedSender
      <4> HIDE DEF d
      <4> QED BY <1>2, <2>2, WriteNumbers
    <3> QED BY <1>2, <3>1
  <2>4. b \in ByteStreamType(Byte)
    <3>1. d.stream \in ByteStreamType(Byte) BY <1>2 DEF SenderType
    <3>2. /\ d.stream.buffer = Substring(d.stream.readden, Len(d.stream.buffer))
          /\ d.stream.readden + Len(d.stream.buffer) = d.stream.written
      <4> HIDE DEF d
      <4> QED BY <1>2 DEF NumberedSender, Numbers
    <3>3. write(d.stream, Capacity, Substring(d.stream.written, n)) \in ByteStreamType(Byte)
      <4> HIDE DEF d
      <4> QED BY <2>2, <3>1, <3>2, WriteEffect
    <3> QED BY <1>2, <3>3
  <2> HIDE DEF b, d
  <2> QED BY <1>2, <1>3, <1>4, <2>1, <2>3, <2>4
<1>7. CASE EndInputStream
  <2> DEFINE b == end_input(d.stream)
  <2>1. sender' = Sends(Streamed(d, b)) BY <1>7 DEF EndInputStream, Drained, Drain, Streamed
  <2>2. Streamed(d, b) \in NumberedSender
    <3> HIDE DEF d
    <3>1. ~d.stream.input_end /\ d.stream.written = StreamLen BY <1>2, <1>7 DEF EndInputStream
    <3> QED BY <1>2, <3>1, FlagNumbers
  <2>3. b \in ByteStreamType(Byte)
    <3>1. d.stream \in ByteStreamType(Byte) BY <1>2 DEF SenderType
    <3> HIDE DEF d
    <3> QED BY <3>1 DEF end_input, ByteStreamType
  <2> HIDE DEF b, d
  <2> QED BY <1>2, <1>3, <1>4, <2>1, <2>2, <2>3
<1>8. ASSUME NEW a \in 0..(StreamLen + 3), NEW w \in 0..MaxWindow, NEW b \in BOOLEAN,
             AckReceived(a, w, b)
      PROVE  Follows(sender, sender')
  <2> DEFINE A == Following(sender)
  <2>1. sender.syn /\ sender' = Sends(Acking(sender, wrap(a, Isn), w, b))
    BY <1>8 DEF AckReceived, Acking, Drained, Drain
  <2>2. d \in A BY <1>2, <1>3, <2>1 DEF Following, Connected
  <2>3. wrap(a, Isn) \in U32 /\ w \in Nat BY WrapType, SenderSystemAssumption
  <2>4. d.bytes_in_flight <= HALF BY <1>2 DEF FewInFlight
  <2>5. Closed(A) BY <1>1, FollowingClosed
  <2>6. \A x \in Nat : d.receive_ack < x /\ x <= d.next_seqno => Advance(d, x, w) \in A
    <3> HIDE DEF d
    <3> QED BY <1>1, <1>2, <2>2, <2>3, <2>4, FollowingAdvance
  <2> HIDE DEF A
  <2>7. Sends(Acking(sender, wrap(a, Isn), w, b)) \in A
    BY <1>1, <2>2, <2>3, <2>5, <2>6, ClosedAck
  <2> QED BY <2>1, <2>7 DEF A, Following
<1>9. CASE Tick
  <2> DEFINE t == tick(d, TickSize)
             u == Streamed(t, set_error(t.stream))
  <2>1. sender' \in {Sends(t), Sends(u)}
    <3>1. sender' = Sends(IF Active(t) THEN t ELSE [ t EXCEPT !.stream = set_error(@) ])
      BY <1>9 DEF Tick, Drained, Drain
    <3> HIDE DEF t
    <3> QED BY <3>1 DEF Streamed
  <2>2. t \in NumberedSender
    <3> HIDE DEF d
    <3> QED BY <1>2, TickEffect, SameNumbered
  <2>3. Follows(sender, t) BY <1>1, FollowsTick
  <2> HIDE DEF t
  <2>4. u \in NumberedSender BY <2>2, FlagNumbers
  <2>5. set_error(t.stream) \in ByteStreamType(Byte)
    <3>1. t.stream \in ByteStreamType(Byte) BY <2>2 DEF NumberedSender, SenderType
    <3> QED BY <3>1 DEF set_error, ByteStreamType
  <2>6. Follows(sender, Sends(u)) BY <1>4, <2>2, <2>3, <2>4, <2>5
  <2>7. Follows(sender, Sends(t)) BY <1>1, <2>2, <2>3, SendsFollows
  <2> QED BY <2>1, <2>6, <2>7
<1> QED BY <1>5, <1>6, <1>7, <1>8, <1>9 DEF Next

\* Before the first call nothing is in flight.
LEMMA TilesInit == Init => Tiles(sender)
<1> SUFFICES ASSUME Init PROVE Tiles(sender) OBVIOUS
<1>1. /\ sender.segments_in_flight = <<>> /\ sender.segments_out = <<>>
      /\ sender.next_seqno = 0 /\ sender.receive_ack = 0 /\ sender.bytes_in_flight = 0
  BY DEF Init, NewTCPSender
<1>2. Len(sender.segments_in_flight) = 0 BY <1>1, EmptySeq
<1>3. SpaceOf(sender.segments_in_flight, 0) = 0
  <2>1. <<>> \in Seq(Segment(Byte)) BY EmptySeq
  <2> QED BY <1>1, <2>1, SpaceFacts
<1> QED BY <1>1, <1>2, <1>3 DEF Tiles, QueueBegin

\* The inductive invariant of the queue, as long as FewInFlight has held.
Tiled == Numbered /\ Tiles(sender)

LEMMA TiledStep == Tiled /\ FewInFlight /\ [Next]_vars => Tiled'
<1> SUFFICES ASSUME Tiled, FewInFlight, [Next]_vars PROVE Tiled' OBVIOUS
<1>1. CASE Next BY <1>1, FollowsStep, NumberedStep DEF Tiled, Follows
<1>2. CASE UNCHANGED vars
  <2>1. sender' = sender BY <1>2 DEF vars
  <2> QED BY <2>1 DEF Tiled, Numbered
<1> QED BY <1>1, <1>2

LEMMA TiledMeans ==
  ASSUME Tiled
  PROVE  InFlightTiles
<1> DEFINE q == sender.segments_in_flight
<1>1. sender \in SenderType /\ Tiles(sender) BY DEF Tiled, Numbered, NumberedSender
<1>2. \A k : BeginOf(k) = SegmentBegin(sender, k) BY DEF BeginOf, SegmentBegin, QueueBegin
<1>3. q \in Seq(Segment(Byte)) /\ QueueBegin(sender) \in Nat BY <1>1, TilesFacts
<1>4. BeginOf(1) = QueueBegin(sender)
  <2>1. 1 - 1 = 0 /\ SpaceOf(q, 0) = 0 BY <1>3, SpaceFacts
  <2> QED BY <1>2, <1>3, <2>1 DEF SegmentBegin
<1> QED BY <1>1, <1>2, <1>4 DEF Tiles, InFlightTiles

\* The segments in flight are exactly what is sent and not acknowledged, they
\* lie end to end and carry the bytes of the stream (send_segment,
\* ack_received), whatever the peer acknowledges and whatever window it
\* advertises, as long as no more is in flight than half the sequence space.
\* Beyond that ack_received unwraps the number of a segment in flight wrongly.
THEOREM InFlightAlwaysTiles == Spec /\ []FewInFlight => []InFlightTiles
<1>1. Init => Tiled BY NewNumbered, TilesInit DEF Init, Tiled, Numbered
<1> QED BY <1>1, TiledStep, TiledMeans, PTL DEF Spec

\* The whole stream fits in half the sequence space.
ShortStream == StreamLen + 2 <= HALF

LEMMA ShortFew ==
  ASSUME ShortStream, Tiled
  PROVE  FewInFlight
<1>1. sender \in NumberedSender /\ sender \in SenderType /\ Tiles(sender)
  BY DEF Tiled, Numbered, NumberedSender
<1>2. sender.next_seqno \in Nat /\ StreamLen \in Nat /\ sender.next_seqno <= StreamLen + 2
  BY <1>1, NextBounded
<1>3. /\ sender.bytes_in_flight \in Nat /\ QueueBegin(sender) \in Nat
      /\ QueueBegin(sender) + sender.bytes_in_flight = sender.next_seqno
  BY <1>1, TilesFacts
<1>4. HALF \in Nat BY M32Type, WidthAssumption
<1> QED BY <1>2, <1>3, <1>4 DEF ShortStream, FewInFlight

\* A stream that fits in half the sequence space never has more in flight.
THEOREM InFlightAlwaysTilesShort == ASSUME ShortStream PROVE Spec => []InFlightTiles
<1>1. Init => Tiled BY NewNumbered, TilesInit DEF Init, Tiled, Numbered
<1>2. Tiled /\ [Next]_vars => Tiled' BY TiledStep, ShortFew
<1> QED BY <1>1, <1>2, TiledMeans, PTL DEF Spec

-----------------------------------------------------------------------------
\* What a step of the sender keeps of what the peer has acknowledged.
AckedStays ==
    /\ sender'.receive_ack >= sender.receive_ack
    /\ sender'.next_seqno >= sender.next_seqno
    /\ \A k \in 1..Len(sender'.segments_out) :
           LET seg == sender'.segments_out[k]
               len == length_in_sequence_space(seg)
           IN  len > 0 => unwrap(seg.seqno, Isn, sender.next_seqno) + len > sender.receive_ack

LEMMA AckedStep == Tiled /\ FewInFlight /\ FewInFlight' /\ [Next]_vars => [AckedStays]_vars
<1> SUFFICES ASSUME Tiled, FewInFlight, FewInFlight', Next PROVE AckedStays
  BY DEF AckedStays
<1> DEFINE b == QueueBegin(sender)
           c == QueueBegin(sender')
           n == sender.next_seqno
           m == sender'.next_seqno
<1>1. /\ sender \in NumberedSender /\ sender \in SenderType /\ Tiles(sender)
      /\ sender' \in NumberedSender /\ sender' \in SenderType /\ Tiles(sender')
      /\ Follows(sender, sender')
  BY TiledStep, FollowsStep DEF Tiled, Numbered, NumberedSender
<1>2. /\ b \in Nat /\ c \in Nat /\ n \in Nat /\ m \in Nat
      /\ sender.receive_ack \in Nat /\ sender'.receive_ack \in Nat
      /\ sender.bytes_in_flight \in Nat /\ sender'.bytes_in_flight \in Nat
      /\ b + sender.bytes_in_flight = n /\ c + sender'.bytes_in_flight = m
  BY <1>1, TilesFacts
<1>3. /\ c <= n /\ n <= m /\ sender.receive_ack <= sender'.receive_ack
      /\ SentBeyond(sender', b, sender.receive_ack)
  BY <1>1 DEF Follows
<1>4. /\ n <= StreamLen + 2 /\ m <= StreamLen + 2 /\ StreamLen \in Nat
  BY <1>1, NextBounded
<1>5. HALF \in Nat /\ sender.bytes_in_flight <= HALF /\ sender'.bytes_in_flight <= HALF
  BY M32Type, WidthAssumption DEF FewInFlight
<1>6. n - b <= HALF /\ m - n <= HALF BY <1>2, <1>3, <1>5
<1> HIDE DEF b, c, n, m
<1>7. ASSUME NEW k \in 1..Len(sender'.segments_out),
             length_in_sequence_space(sender'.segments_out[k]) > 0
      PROVE  unwrap(sender'.segments_out[k].seqno, Isn, n)
                + length_in_sequence_space(sender'.segments_out[k]) > sender.receive_ack
  <2> DEFINE seg == sender'.segments_out[k]
             len == length_in_sequence_space(seg)
  <2>1. PICK y \in Nat : /\ seg.seqno = wrap(y, Isn)
                         /\ b <= y /\ sender.receive_ack < y + len /\ y + len <= m
    BY <1>3, <1>7 DEF SentBeyond, m
  <2>2. len \in Nat /\ len > 0
    <3>1. sender'.segments_out \in Seq(Segment(Byte)) BY <1>1 DEF SenderType
    <3>2. seg \in Segment(Byte) BY <3>1, ElementOfSeq
    <3> QED BY <1>7, <3>2, LengthType
  <2> HIDE DEF seg, len
  <2>3. y <= StreamLen + 2 /\ y - n < HALF /\ n - y <= HALF
    BY <1>2, <1>4, <1>5, <1>6, <2>1, <2>2, SMTT(30)
  <2>4. unwrap(wrap(y, Isn), Isn, n) = y BY <1>2, <1>4, <2>3, Recovers
  <2>5. unwrap(seg.seqno, Isn, n) + len > sender.receive_ack BY <1>2, <2>1, <2>2, <2>4
  <2> QED BY <2>5 DEF seg, len
<1> QED BY <1>2, <1>3, <1>7 DEF AckedStays, n, m

\* What the peer has acknowledged is never sent again, and an acknowledgment
\* older than one already processed takes nothing back (ack_received, tick), as
\* long as no more is in flight than half the sequence space.
THEOREM AckedAlwaysStaysAcked == Spec /\ []FewInFlight => AckedStaysAcked
<1>1. Init => Tiled BY NewNumbered, TilesInit DEF Init, Tiled, Numbered
<1>2. Tiled /\ FewInFlight /\ FewInFlight' /\ [Next]_vars =>
        [ /\ sender'.receive_ack >= sender.receive_ack
          /\ sender'.next_seqno >= sender.next_seqno
          /\ \A k \in 1..Len(sender'.segments_out) :
                 LET seg == sender'.segments_out[k]
                     len == length_in_sequence_space(seg)
                 IN  len > 0 => unwrap(seg.seqno, Isn, sender.next_seqno) + len
                                  > sender.receive_ack ]_vars
  BY AckedStep DEF AckedStays
<1> QED BY <1>1, <1>2, TiledStep, PTL DEF Spec, AckedStaysAcked

\* And so for a stream that fits in half the sequence space.
THEOREM AckedAlwaysStaysAckedShort == ASSUME ShortStream PROVE Spec => AckedStaysAcked
<1>1. Init => Tiled BY NewNumbered, TilesInit DEF Init, Tiled, Numbered
<1>2. Tiled /\ [Next]_vars => Tiled' BY TiledStep, ShortFew
<1>3. Tiled => FewInFlight BY ShortFew
<1> QED BY <1>1, <1>2, <1>3, AckedAlwaysStaysAcked, PTL DEF Spec

-----------------------------------------------------------------------------
\* The peer's windows are small against half the sequence space (the window of
\* a segment has 16 bits, a sequence number 32).
SmallWindow == MaxWindow + 1 < HALF /\ 2 < HALF

\* The senders that have processed the acknowledgment ack with the window win,
\* and whose data lies within that window, or is the byte that probes it.
Fits(ack, win) ==
    { x \in SenderType : /\ x.receive_ack = ack /\ x.checkpoint = ack /\ x.window_size = win
                         /\ ack <= x.next_seqno
                         /\ x.next_seqno - Bit(x.fin) <= ack + MaxOf(win, 1) }

LEMMA FitsSame ==
  ASSUME NEW ack, NEW win, NEW s \in Fits(ack, win), NEW t \in SenderType,
         t.next_seqno = s.next_seqno, t.fin = s.fin, SameFlight(s, t), SameWindow(s, t)
  PROVE  t \in Fits(ack, win)
  BY DEF Fits, SameFlight, SameWindow

\* fill_window stays within the window: as long as what is in flight fits, the
\* difference in Remaining does not wrap around.
LEMMA FitsFill ==
  ASSUME NEW ack \in Nat, NEW win \in 0..MaxWindow, NEW s \in Fits(ack, win)
  PROVE  Sends(s) \in Fits(ack, win) /\ (s.syn => fill_window(s) \in Fits(ack, win))
<1> DEFINE A == Fits(ack, win)
           room == MaxOf(win, 1)
<1>1. /\ M64 \in Nat \ {0} /\ MaxWindow \in Nat /\ MaxWindow < M64 /\ 1 < M64
  <2>1. /\ M32 \in Nat \ {0} /\ M64 \in Nat \ {0} /\ MaxWindow \in Nat /\ StreamLen \in Nat
        /\ StreamLen + 2 + M32 + MaxWindow <= M64
    BY M32Type, SenderSystemAssumption, StreamAssumption, LenProperties DEF StreamLen
  <2> QED BY <2>1
<1>2. win \in Nat /\ room \in Nat /\ room < M64
  <2>1. win \in Nat /\ win < M64 BY <1>1
  <2> QED BY <1>1, <2>1 DEF MaxOf
<1>3. s \in SenderType /\ s.window_size = win BY DEF Fits
<1>4. FillWin(s) = room
  <2>1. (IF win > 0 THEN win ELSE 1) = room BY <1>2 DEF MaxOf
  <2> QED BY <1>3, <2>1 DEF FillWin
<1>5. FillStart(s) \in A
  <2>1. /\ FillStart(s) \in SenderType /\ SameStream(s, FillStart(s))
        /\ SameFlight(s, FillStart(s)) /\ SameWindow(s, FillStart(s))
    BY <1>3, FillStartEffect
  <2> HIDE DEF A
  <2>2. FillStart(s).next_seqno = s.next_seqno /\ FillStart(s).fin = s.fin
    BY <2>1 DEF SameStream
  <2> QED BY <2>1, <2>2, FitsSame DEF A
<1>6. ASSUME NEW x \in A PROVE FillOnce(x, room) \in A
  <2>1. /\ x \in SenderType /\ x.next_seqno \in Nat /\ x.receive_ack = ack /\ x.checkpoint = ack
        /\ x.window_size = win /\ ack <= x.next_seqno
        /\ x.next_seqno - Bit(x.fin) <= ack + room
    BY DEF Fits, SenderType
  <2>2. CASE FillOnce(x, room) = x BY <2>2
  <2>3. ASSUME NEW n \in 0..Len(x.stream.buffer), NEW f \in BOOLEAN,
               Cuts(x, FillOnce(x, room), n, f, room)
        PROVE  FillOnce(x, room) \in A
    <3> DEFINE t == FillOnce(x, room)
               y == x.next_seqno
    <3>1. /\ t \in SenderType /\ ~x.fin /\ t.fin = f /\ n <= Remaining(x, room)
          /\ t.next_seqno = y + n + Bit(f) /\ t.receive_ack = ack /\ t.checkpoint = ack
          /\ t.window_size = win
      BY <2>1, <2>3 DEF Cuts, SameWindow
    <3> HIDE DEF t, y, A, room
    <3>2. y <= ack + room
      <4>1. Bit(x.fin) = 0 BY <3>1 DEF Bit
      <4> QED BY <2>1, <4>1 DEF y
    <3>3. Remaining(x, room) = room - (y - ack)
      <4>1. room - (y - ack) \in 0..(M64 - 1)
        BY <1>1, <1>2, <2>1, <3>2 DEF y
      <4>2. Remaining(x, room) = (room - (y - ack)) % M64 BY <2>1 DEF Remaining, y
      <4> DEFINE z == room - (y - ack)
      <4>3. z \in 0..(M64 - 1) /\ Remaining(x, room) = z % M64 BY <4>1, <4>2
      <4> HIDE DEF z
      <4>4. z = 0 * M64 + z /\ z \in Int BY <1>1, <4>3
      <4>5. z % M64 = z BY <1>1, <4>3, <4>4, ModUnique
      <4> QED BY <4>3, <4>5 DEF z
    <3>4. n \in Nat /\ y \in Nat /\ Bit(f) \in Nat BY <2>1, BitType DEF y
    <3>5. ack <= t.next_seqno /\ t.next_seqno - Bit(t.fin) <= ack + room
      <4>1. t.next_seqno - Bit(t.fin) = y + n BY <3>1, <3>4
      <4> QED BY <1>2, <2>1, <3>1, <3>2, <3>3, <3>4, <4>1 DEF y
    <3> QED BY <3>1, <3>5 DEF A, Fits, t, room
  <2> QED BY <1>2, <2>1, <2>2, <2>3, FillOnceEffect
<1>7. s.syn => fill_window(s) \in A
  <2>1. Len(s.stream.buffer) \in Nat BY <1>3, StreamTypes DEF SenderType
  <2> HIDE DEF A, room
  <2>2. \A x \in A : FillOnce(x, FillWin(s)) \in A BY <1>4, <1>6
  <2> QED BY <1>5, <2>1, <2>2, FillWindowStays
<1> QED BY <1>7 DEF Sends

\* The acknowledgment the peer sent last, after the latest one before it: the
\* sender recovers its number, and its window takes the place of the other one.
LEMMA FitsAck ==
  ASSUME SmallWindow, NEW s \in NumberedSender, s.syn,
         NEW ack \in Nat, NEW win \in 0..MaxWindow, s \in Fits(ack, win),
         NEW a \in Nat, NEW w \in 0..MaxWindow, ack <= a, a <= s.next_seqno,
         ack + win <= a + w, NEW b \in BOOLEAN
  PROVE  Sends(Acking(s, wrap(a, Isn), w, b)) \in Fits(a, w)
<1> DEFINE d == Drain(s)
           n == wrap(a, Isn)
           t == ack_received(d, n, w)
<1>1. /\ s \in SenderType /\ s.isn = Isn /\ s.receive_ack = ack /\ s.checkpoint = ack
      /\ s.window_size = win /\ ack <= s.next_seqno
      /\ s.next_seqno - Bit(s.fin) <= ack + MaxOf(win, 1)
  BY DEF Fits, NumberedSender
<1>2. /\ d \in SenderType /\ SameStream(s, d) /\ SameFlight(s, d) /\ SameWindow(s, d)
  BY <1>1, DrainEffect
<1>3. /\ d.isn = Isn /\ d.receive_ack = ack /\ d.checkpoint = ack /\ d.window_size = win
      /\ d.next_seqno = s.next_seqno /\ d.fin = s.fin /\ d.syn
  BY <1>1, <1>2 DEF SameStream, SameFlight, SameWindow
<1>4. /\ s.next_seqno \in Nat /\ s.next_seqno <= StreamLen + 2 /\ StreamLen \in Nat
  BY NextBounded
<1>5. /\ n \in U32 /\ w \in Nat /\ HALF \in Nat /\ MaxWindow \in Nat /\ win \in Nat
  BY WrapType, SenderSystemAssumption, M32Type, WidthAssumption
<1>6. Bit(s.fin) \in {0, 1} BY BitType
<1>7. unwrap(n, d.isn, d.checkpoint) = a
  <2>1. a - ack < HALF
    <3>1. MaxOf(win, 1) <= win + 1 /\ MaxOf(win, 1) \in Nat
          /\ (win = 0 => MaxOf(win, 1) = 1) /\ (win # 0 => MaxOf(win, 1) = win)
      BY <1>5 DEF MaxOf
    <3> HIDE DEF d, n, t
    <3>2. a - ack <= MaxOf(win, 1) + 1 BY <1>1, <1>4, <1>6, <3>1
    <3>3. MaxOf(win, 1) + 1 < HALF BY <1>5, <3>1 DEF SmallWindow
    <3> QED BY <1>5, <3>1, <3>2, <3>3
  <2>2. ack - a <= HALF /\ a <= StreamLen + 2 /\ ack <= StreamLen + 2
    <3> HIDE DEF d, n, t
    <3> QED BY <1>1, <1>4, <1>5
  <2>3. unwrap(wrap(a, Isn), Isn, ack) = a BY <2>1, <2>2, Recovers
  <2> QED BY <1>3, <2>3
<1>8. s.next_seqno - Bit(s.fin) <= a + MaxOf(w, 1)
  <2>1. ack + MaxOf(win, 1) <= a + MaxOf(w, 1) BY <1>5 DEF MaxOf
  <2>2. MaxOf(win, 1) \in Nat /\ MaxOf(w, 1) \in Nat BY <1>5 DEF MaxOf
  <2> HIDE DEF d, n, t
  <2> QED BY <1>1, <1>4, <1>6, <2>1, <2>2
<1>9. t \in Fits(a, w)
  <2>1. \/ a > d.next_seqno /\ t = d
        \/ a <= d.receive_ack /\ t = Synced(d, w)
        \/ /\ d.receive_ack < a /\ a <= d.next_seqno
           /\ t = RestartTimer(fill_window(Advance(d, a, w)))
    <3> HIDE DEF d, n, t
    <3> QED BY <1>2, <1>5, <1>7, AckKinds DEF t
  <2> HIDE DEF d, n, t
  <2>2. CASE a <= d.receive_ack /\ t = Synced(d, w)
    <3>1. a = ack BY <1>3, <2>2
    <3>2. /\ t \in SenderType /\ t.window_size = w /\ t.checkpoint = d.checkpoint
          /\ SameStream(d, t) /\ SameFlight(d, t)
      BY <1>2, <1>5, <2>2, SyncedEffect
    <3>3. /\ t.receive_ack = a /\ t.checkpoint = a /\ t.next_seqno = s.next_seqno
          /\ t.fin = s.fin
      BY <1>3, <3>1, <3>2 DEF SameStream, SameFlight
    <3> QED BY <1>8, <3>2, <3>3 DEF Fits
  <2>3. CASE /\ d.receive_ack < a /\ a <= d.next_seqno
             /\ t = RestartTimer(fill_window(Advance(d, a, w)))
    <3> DEFINE u == Advance(d, a, w)
               v == fill_window(u)
    <3>1. PICK g \in 0..Len(d.segments_in_flight) : Popped(d, u, a, w, g)
      BY <1>2, <1>5, AdvanceEffect
    <3> HIDE DEF u
    <3>2. /\ u \in SenderType /\ u.receive_ack = a /\ u.checkpoint = a /\ u.window_size = w
          /\ u.next_seqno = s.next_seqno /\ u.fin = s.fin /\ u.syn
      BY <1>3, <3>1 DEF Popped, SameStream
    <3>3. u \in Fits(a, w) BY <1>8, <3>2 DEF Fits
    <3>4. v \in Fits(a, w) BY <3>2, <3>3, FitsFill
    <3> HIDE DEF v
    <3>5. v \in SenderType BY <3>4 DEF Fits
    <3>6. t = RestartTimer(v) BY <2>3 DEF u, v
    <3>7. t \in SenderType /\ SameStream(v, t) /\ SameFlight(v, t) /\ SameWindow(v, t)
      BY <3>5, <3>6, RestartEffect
    <3>8. t.next_seqno = v.next_seqno /\ t.fin = v.fin BY <3>7 DEF SameStream
    <3> QED BY <3>4, <3>7, <3>8, FitsSame
  <2> QED BY <1>3, <1>4, <2>1, <2>2, <2>3
<1>10. Acking(s, n, w, b) \in Fits(a, w)
  <2>1. Acking(s, n, w, b) \in {t, send_empty_segment(t)} BY DEF Acking
  <2> HIDE DEF t
  <2>2. t \in SenderType BY <1>9 DEF Fits
  <2>3. /\ send_empty_segment(t) \in SenderType /\ SameStream(t, send_empty_segment(t))
        /\ SameFlight(t, send_empty_segment(t)) /\ SameWindow(t, send_empty_segment(t))
    BY <2>2, EmptyEffect
  <2>4. send_empty_segment(t) \in Fits(a, w) BY <1>9, <2>3, FitsSame DEF SameStream
  <2> QED BY <1>9, <2>1, <2>4
<1> HIDE DEF n
<1> QED BY <1>10, FitsFill DEF n

\* The inductive invariant of the window: as long as the acknowledgments have
\* arrived in order, the sender knows the latest one and its window, and fits.
Windowed ==
    /\ peer.ack \in Nat /\ peer.edge \in Nat
    /\ peer.acks = "in order" =>
           /\ peer.edge - peer.ack \in 0..MaxWindow
           /\ sender \in Fits(peer.ack, peer.edge - peer.ack)

LEMMA WindowedStep ==
  ASSUME SmallWindow
  PROVE  Numbered /\ Windowed /\ [Next]_vars => Windowed'
<1> SUFFICES ASSUME Numbered, Windowed, [Next]_vars PROVE Windowed' OBVIOUS
<1> DEFINE d == Drain(sender)
           k == peer.ack
           win == peer.edge - peer.ack
<1>1. /\ sender \in NumberedSender /\ sender \in SenderType BY DEF Numbered, NumberedSender
<1>2. /\ d \in NumberedSender /\ d \in SenderType /\ d.syn = sender.syn /\ SameStream(sender, d)
      /\ d.stream = sender.stream /\ SameFlight(sender, d) /\ SameWindow(sender, d)
      /\ d.next_seqno = sender.next_seqno /\ d.fin = sender.fin
  BY <1>1, DrainEffect, SameNumbered DEF NumberedSender, SameStream
<1>3. peer.ack \in Nat /\ peer.edge \in Nat BY DEF Windowed
<1>4. ASSUME peer' = peer,
             win \in 0..MaxWindow /\ sender \in Fits(k, win) => sender' \in Fits(k, win)
      PROVE  Windowed'
  BY <1>4 DEF Windowed
<1>5. ASSUME NEW t \in NumberedSender, t \in Fits(k, win), win \in 0..MaxWindow
      PROVE  Sends(t) \in Fits(k, win)
  BY <1>3, <1>5, FitsFill
<1>6. ASSUME sender \in Fits(k, win) PROVE d \in Fits(k, win)
  BY <1>2, <1>6, FitsSame
<1>7. ASSUME NEW x \in SenderType, x \in Fits(k, win), NEW b \in ByteStreamType(Byte)
      PROVE  Streamed(x, b) \in Fits(k, win)
  BY <1>7, StreamedEffect, FitsSame
<1>8. CASE Connect
  <2> DEFINE t == fill_window(sender)
             seg == [ seqno |-> wrap(sender.next_seqno, sender.isn), syn |-> TRUE,
                      fin |-> FALSE, payload |-> <<>> ]
  <2>1. sender' = t /\ ~sender.syn /\ peer' = peer BY <1>8 DEF Connect
  <2>2. Sent(sender, t, seg, 1) BY <1>1, <2>1, SynEffect
  <2>3. sender.next_seqno = 0 /\ ~sender.fin
    <3>1. Numbers(sender) BY <1>1 DEF NumberedSender
    <3>2. sender.stream.readden = 0 /\ ~sender.fin BY <2>1, <3>1 DEF Numbers
    <3> QED BY <2>1, <3>1, <3>2 DEF Numbers, Bit
  <2> HIDE DEF t, seg, win, k
  <2>4. /\ t \in SenderType /\ t.next_seqno = 1 /\ ~t.fin /\ t.receive_ack = sender.receive_ack
        /\ t.checkpoint = sender.checkpoint /\ t.window_size = sender.window_size
    BY <2>2, <2>3 DEF Sent, SameWindow
  <2>5. ASSUME win \in 0..MaxWindow, sender \in Fits(k, win) PROVE t \in Fits(k, win)
    <3>1. k = 0
      <4>1. k <= sender.next_seqno BY <2>5 DEF Fits
      <4> QED BY <1>3, <2>3, <4>1 DEF k
    <3>2. MaxOf(win, 1) >= 1 /\ MaxOf(win, 1) \in Nat
      <4>1. win \in Nat BY <2>5, SenderSystemAssumption
      <4> QED BY <4>1 DEF MaxOf
    <3>3. Bit(t.fin) = 0 BY <2>4 DEF Bit
    <3>4. k <= t.next_seqno /\ t.next_seqno - Bit(t.fin) <= k + MaxOf(win, 1)
      BY <2>4, <3>1, <3>2, <3>3
    <3> QED BY <2>4, <2>5, <3>4 DEF Fits
  <2> QED BY <1>4, <2>1, <2>5 DEF t
<1>9. ASSUME NEW n \in 1..StreamLen, Write(n) PROVE Windowed'
  <2> DEFINE b == write(d.stream, Capacity, Substring(sender.stream.written, n))
  <2>1. sender' = Sends(Streamed(d, b)) /\ peer' = peer
    BY <1>2, <1>9 DEF Write, Drained, Drain, Streamed
  <2>2. /\ d.stream.written + n <= StreamLen /\ ~d.stream.input_end
        /\ n <= remaining_capacity(d.stream, Capacity) /\ n \in Nat
    BY <1>2, <1>9 DEF Write
  <2>3. Streamed(d, b) \in NumberedSender
    <3>1. Streamed(d, write(d.stream, Capacity, Substring(d.stream.written, n))) \in NumberedSender
      <4> HIDE DEF d
      <4> QED BY <1>2, <2>2, WriteNumbers
    <3> QED BY <1>2, <3>1
  <2>4. b \in ByteStreamType(Byte)
    <3>1. d.stream \in ByteStreamType(Byte) BY <1>2 DEF SenderType
    <3>2. /\ d.stream.buffer = Substring(d.stream.readden, Len(d.stream.buffer))
          /\ d.stream.readden + Len(d.stream.buffer) = d.stream.written
      <4> HIDE DEF d
      <4> QED BY <1>2 DEF NumberedSender, Numbers
    <3>3. write(d.stream, Capacity, Substring(d.stream.written, n)) \in ByteStreamType(Byte)
      <4> HIDE DEF d
      <4> QED BY <2>2, <3>1, <3>2, WriteEffect
    <3> QED BY <1>2, <3>3
  <2> HIDE DEF b, d, k, win
  <2> QED BY <1>2, <1>4, <1>5, <1>6, <1>7, <2>1, <2>3, <2>4
<1>10. CASE EndInputStream
  <2> DEFINE b == end_input(d.stream)
  <2>1. sender' = Sends(Streamed(d, b)) /\ peer' = peer
    BY <1>10 DEF EndInputStream, Drained, Drain, Streamed
  <2>2. Streamed(d, b) \in NumberedSender
    <3> HIDE DEF d
    <3>1. ~d.stream.input_end /\ d.stream.written = StreamLen BY <1>2, <1>10 DEF EndInputStream
    <3> QED BY <1>2, <3>1, FlagNumbers
  <2>3. b \in ByteStreamType(Byte)
    <3>1. d.stream \in ByteStreamType(Byte) BY <1>2 DEF SenderType
    <3> HIDE DEF d
    <3> QED BY <3>1 DEF end_input, ByteStreamType
  <2> HIDE DEF b, d, k, win
  <2> QED BY <1>2, <1>4, <1>5, <1>6, <1>7, <2>1, <2>2, <2>3
<1>11. ASSUME NEW a \in 0..(StreamLen + 3), NEW w \in 0..MaxWindow, NEW b \in BOOLEAN,
              AckReceived(a, w, b)
       PROVE  Windowed'
  <2>1. /\ sender.syn /\ sender' = Sends(Acking(sender, wrap(a, Isn), w, b))
        /\ peer' = IF a > sender.next_seqno THEN [ peer EXCEPT !.acks = "any" ]
                   ELSE [ ack |-> MaxOf(peer.ack, a), edge |-> MaxOf(peer.edge, a + w),
                          acks |-> Trust(a, w) ]
    BY <1>11 DEF AckReceived, Acking, Drained, Drain
  <2>2. a \in Nat /\ w \in Nat BY SenderSystemAssumption
  <2>3. CASE a > sender.next_seqno
    <3>1. peer'.ack = peer.ack /\ peer'.edge = peer.edge /\ peer'.acks # "in order"
      <4>1. peer' = [ peer EXCEPT !.acks = "any" ] BY <2>1, <2>3
      <4> QED BY <4>1
    <3> QED BY <1>3, <3>1 DEF Windowed
  <2>4. CASE ~(a > sender.next_seqno)
    <3>1. /\ peer'.ack = MaxOf(peer.ack, a) /\ peer'.edge = MaxOf(peer.edge, a + w)
          /\ peer'.acks = Trust(a, w)
      BY <2>1, <2>4
    <3>2. peer'.ack \in Nat /\ peer'.edge \in Nat BY <1>3, <2>2, <3>1 DEF MaxOf
    <3>3. ASSUME peer'.acks = "in order"
          PROVE  /\ peer'.edge - peer'.ack \in 0..MaxWindow
                 /\ sender' \in Fits(peer'.ack, peer'.edge - peer'.ack)
      <4>1. Latest(a, w) /\ peer.acks = "in order" BY <3>1, <3>3 DEF Trust
      <4>2. win \in 0..MaxWindow /\ sender \in Fits(k, win) BY <4>1 DEF Windowed
      <4>3. k <= a /\ a <= sender.next_seqno /\ peer.edge <= a + w
        <5>1. MaxOf(k, 1) <= a /\ a <= sender.next_seqno /\ peer.edge <= a + w
          BY <4>1 DEF Latest
        <5>2. MaxOf(k, 1) \in Nat /\ k <= MaxOf(k, 1) BY <1>3 DEF MaxOf
        <5> HIDE DEF k
        <5> QED BY <1>3, <2>2, <5>1, <5>2 DEF k
      <4>4. peer'.ack = a /\ peer'.edge = a + w BY <1>3, <2>2, <3>1, <4>3 DEF MaxOf
      <4>5. peer'.edge - peer'.ack = w BY <2>2, <4>4
      <4>6. k + win <= a + w /\ k \in Nat BY <1>3, <4>3
      <4> HIDE DEF k, win
      <4>7. Sends(Acking(sender, wrap(a, Isn), w, b)) \in Fits(a, w)
        BY <1>1, <2>1, <2>2, <4>2, <4>3, <4>6, FitsAck
      <4> QED BY <2>1, <4>4, <4>5, <4>7
    <3> QED BY <3>2, <3>3 DEF Windowed
  <2> QED BY <2>3, <2>4
<1>12. CASE Tick
  <2> DEFINE t == tick(d, TickSize)
             u == Streamed(t, set_error(t.stream))
  <2>1. sender' \in {Sends(t), Sends(u)} /\ peer' = peer
    <3>1. /\ sender' = Sends(IF Active(t) THEN t ELSE [ t EXCEPT !.stream = set_error(@) ])
          /\ peer' = peer
      BY <1>12 DEF Tick, Drained, Drain
    <3> HIDE DEF t
    <3> QED BY <3>1 DEF Streamed
  <2> HIDE DEF d
  <2>2. t \in NumberedSender BY <1>2, TickEffect, SameNumbered
  <2>3. ASSUME sender \in Fits(k, win) PROVE t \in Fits(k, win)
    <3>1. d \in Fits(k, win) BY <1>6, <2>3
    <3>2. t \in SenderType /\ SameStream(d, t) /\ SameFlight(d, t) /\ SameWindow(d, t)
      BY <1>2, TickEffect
    <3> HIDE DEF t, k, win
    <3> QED BY <3>1, <3>2, FitsSame DEF SameStream
  <2> HIDE DEF t
  <2>4. u \in NumberedSender BY <2>2, FlagNumbers
  <2>5. set_error(t.stream) \in ByteStreamType(Byte) /\ t \in SenderType
    <3>1. t.stream \in ByteStreamType(Byte) /\ t \in SenderType
      BY <2>2 DEF NumberedSender, SenderType
    <3> QED BY <3>1 DEF set_error, ByteStreamType
  <2>6. ASSUME t \in Fits(k, win) PROVE u \in Fits(k, win) BY <1>7, <2>5, <2>6
  <2> HIDE DEF u, k, win
  <2> QED BY <1>4, <1>5, <2>1, <2>2, <2>3, <2>4, <2>6
<1>13. CASE UNCHANGED vars BY <1>4, <1>13 DEF vars
<1> QED BY <1>8, <1>9, <1>10, <1>11, <1>12, <1>13 DEF Next

LEMMA EdgeOrProbe ==
  ASSUME NEW k \in Nat, NEW e \in Nat
  PROVE  k + MaxOf(e - k, 1) = MaxOf(e, k + 1)
<1>1. CASE e >= k + 1
  <2>1. e - k >= 1 BY <1>1
  <2> QED BY <1>1, <2>1 DEF MaxOf
<1>2. CASE ~(e >= k + 1)
  <2>1. MaxOf(e, k + 1) = k + 1 BY <1>2 DEF MaxOf
  <2>2. e - k >= 1 => e - k = 1 BY <1>2
  <2>3. MaxOf(e - k, 1) = 1 BY <2>2 DEF MaxOf
  <2> QED BY <2>1, <2>3
<1> QED BY <1>1, <1>2

\* The data sent lies within the window the peer has advertised, but for the
\* byte that probes a window of zero (fill_window), however long the stream is,
\* as long as the acknowledgments arrive in order from a peer that takes no
\* window back.
THEOREM DataAlwaysWithinWindow == ASSUME SmallWindow PROVE Spec => []DataWithinWindow
<1>1. Init => Numbered /\ Windowed
  <2> SUFFICES ASSUME Init PROVE Windowed BY NewNumbered DEF Init, Numbered
  <2>1. sender = NewTCPSender(Isn) /\ peer = [ ack |-> 0, edge |-> 0, acks |-> "in order" ]
    BY DEF Init
  <2>2. sender \in SenderType BY <2>1, NewNumbered DEF NumberedSender
  <2>3. sender \in Fits(0, 0)
    <3>1. /\ sender.receive_ack = 0 /\ sender.checkpoint = 0 /\ sender.window_size = 0
          /\ sender.next_seqno = 0 /\ ~sender.fin
      BY <2>1 DEF NewTCPSender
    <3>2. MaxOf(0, 1) = 1 /\ Bit(sender.fin) = 0 BY <3>1 DEF MaxOf, Bit
    <3>3. 0 <= 0 /\ 0 - 0 <= 0 + 1 OBVIOUS
    <3> QED BY <2>2, <3>1, <3>2, <3>3 DEF Fits
  <2>4. peer.ack = 0 /\ peer.edge = 0 /\ 0 - 0 = 0 /\ 0 \in 0..MaxWindow /\ 0 \in Nat
    <3>1. MaxWindow \in Nat BY SenderSystemAssumption
    <3>2. 0 \in 0..MaxWindow BY <3>1
    <3>3. peer.ack = 0 /\ peer.edge = 0 BY <2>1
    <3> QED BY <3>2, <3>3
  <2> QED BY <2>3, <2>4 DEF Windowed
<1>2. Numbered /\ Windowed => DataWithinWindow
  <2> SUFFICES ASSUME Windowed, peer.acks = "in order" PROVE DataFits BY DEF DataWithinWindow
  <2> DEFINE win == peer.edge - peer.ack
  <2>1. /\ win \in 0..MaxWindow /\ sender \in Fits(peer.ack, win) /\ peer.ack \in Nat
        /\ peer.edge \in Nat /\ MaxWindow \in Nat
    BY SenderSystemAssumption DEF Windowed
  <2>2. /\ sender.receive_ack = peer.ack
        /\ sender.next_seqno - Bit(sender.fin) <= peer.ack + MaxOf(win, 1)
    BY <2>1 DEF Fits
  <2>3. peer.ack + MaxOf(win, 1) = MaxOf(peer.edge, peer.ack + 1)
    BY <2>1, EdgeOrProbe
  <2> QED BY <2>2, <2>3 DEF DataFits, Bit
<1> QED BY <1>1, <1>2, NumberedStep, WindowedStep, PTL DEF Spec
=============================================================================
